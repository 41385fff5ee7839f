--------------------------- MODULE MCCausalOrder ---------------------------
(* A finite instance of CausalOrder: the processes of one session, and the *)
(* groups of them whose interleavings are explored together.               *)
EXTENDS CausalOrder, TLC

CONSTANTS c1, c2, c3, h1, h2, h3, h4, d1, d2, s1, s2, t1, e1

\* The third call belongs to an install whose hooks are wired twice.
Wiring == h1 :> c1 @@ h2 :> c2 @@ h3 :> c3 @@ h4 :> c3

TwoCalls == {{h1, h2, d1}}
TwiceWired == {{h3, h4, d1}}

\* Without its other wiring the third call opens a window and never runs, as a
\* tool the user denies: its window stays until the cap evicts one.
DeniedCall == {{h1, h2, h3}}

OneCall == {{h1, d1, d2}, {h1, d1, t1}, {h1, d1, e1}, {h1, d1, s1}}
Resets == {{h1, s1, s2}, {d1, d2, s1, e1}}

AllCasts == TwoCalls \cup TwiceWired \cup DeniedCall \cup OneCall \cup Resets

\* The first two calls, with their hooks, and the two wirings of the third, are
\* interchangeable.
Interchange ==
    {[x \in {h1, h2, c1, c2} |->
        CASE x = h1 -> h2 [] x = h2 -> h1 [] x = c1 -> c2 [] x = c2 -> c1]}
    \cup Permutations({h3, h4}) \cup Permutations({d1, d2})

=============================================================================
