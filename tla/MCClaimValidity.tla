-------------------------- MODULE MCClaimValidity --------------------------
(* Finite instances of ClaimValidity.                                       *)
EXTENDS ClaimValidity

CONSTANTS ann, bob, c1, c2, c3

By(author, words, declares) ==
  [author |-> author, words |-> words, declares |-> declares,
   stated |-> TRUE, retracted |-> FALSE, guest |-> FALSE]

\* Two claims with a surface of their own; both authors ask, each in a clone of
\* their own.
Asks == [about |-> (c1 :> By(ann, c1, {1}) @@ c2 :> By(bob, c2, {1})),
         touches |-> <<{1}, {1}>>, start |-> 1, tracked |-> {1, 2}, files |-> {},
         revises |-> {}, moves |-> {}, asks |-> {<<ann, "mcp">>, <<bob, "cli">>}]

\* The work context comes to name more files than the cap leaves.
Cut == [Asks EXCEPT !.about = (c1 :> By(ann, c1, {3}) @@ c2 :> By(bob, c2, {})),
                    !.files = {1, 2, 3}, !.touches = <<{1}, {3}, {2}>>,
                    !.tracked = {1, 2, 3}, !.asks = {<<bob, "cli">>}]

\* A claim that does not say where it was observed, its session registered again,
\* and the same said later.
Session == [Asks EXCEPT !.about = (c1 :> [By(ann, c1, {1, 3}) EXCEPT !.stated = FALSE]
                                   @@ c2 :> By(ann, c1, {1})),
                        !.start = 0, !.touches = <<{1}, {1, 2}>>, !.moves = {ann},
                        !.asks = {<<bob, "mcp">>, <<bob, "cli">>}]

\* A finding revised by one that was taken back.
Revised == [Asks EXCEPT !.about = (c1 :> By(ann, c1, {1})
                                   @@ c3 :> [By(ann, c3, {1}) EXCEPT !.retracted = TRUE]),
                        !.revises = {<<c3, c1>>}, !.moves = {ann}, !.asks = {<<bob, "mcp">>}]

\* Somebody at work in another repository adds a claim to the context.
Guest == [Asks EXCEPT !.about = (c1 :> By(ann, c1, {1})
                                 @@ c2 :> [By(bob, c2, {2}) EXCEPT !.guest = TRUE]),
                      !.asks = {<<ann, "mcp">>}]

\* The same said again, from another checkout.
Twice == [Asks EXCEPT !.about = (c1 :> By(ann, c1, {1}) @@ c2 :> By(ann, c1, {1})),
                      !.moves = {ann}, !.asks = {<<bob, "mcp">>}]

\* One claim declares just the files the cap leaves of the other's.
Collide == [Cut EXCEPT !.about = (c1 :> By(ann, c1, {1, 2}) @@ c2 :> By(bob, c2, {})),
                       !.touches = <<{1}, {3}>>, !.asks = {<<bob, "mcp">>}]

AllCasts == {Asks, Cut, Session, Revised, Guest, Twice, Collide}
=============================================================================
