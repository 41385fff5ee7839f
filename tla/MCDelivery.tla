----------------------------- MODULE MCDelivery ------------------------------
(* Instances of Delivery: the questions alone, their answers on prompts that  *)
(* race, the notices, and both competing for one slot.                        *)
EXTENDS Delivery

CONSTANTS me, t1, t2, c1, c2, q1, q2, q3, w1, n1, n2, p1, h1, h2, h3, s1, s2

MCOwnerOf == [w \in {w1} |-> t1]
MCAuthorOf == [c \in {n1, n2} |-> me]
MCSessionOf == [h \in {h1, h2, h3} |-> IF h = h2 THEN s2 ELSE s1]

Asked(id, author, target, about) ==
    [id |-> id, author |-> author, target |-> target, about |-> about, body |-> None]

Given(q, claim, by) == [question |-> q, claim |-> claim, by |-> by]

Stopped(reader, commits) == [reader |-> reader, commits |-> commits]

Quiet == [asks |-> {}, answers |-> {}, stops |-> {}, hooks |-> {}, ticks |-> 0, owes |-> FALSE,
          left |-> [fires |-> 0, stops |-> 0, answers |-> 0, faults |-> 0]]

Backlog ==
    [Quiet EXCEPT
        !.asks = {Asked(q1, me, t1, None), Asked(q2, me, None, w1), Asked(q3, me, t2, None)},
        !.answers = {Given(q1, c1, t1), Given(q1, c2, t1), Given(q2, c2, t1)},
        !.ticks = 3, !.left.answers = 2, !.left.faults = 1]

RacingPrompts ==
    [Quiet EXCEPT
        !.asks = {Asked(q1, me, t1, None)},
        !.answers = {Given(q1, c1, t1)},
        !.hooks = {h1, h2, h3}, !.left.answers = 1, !.left.faults = 1]

LastSlot ==
    [RacingPrompts EXCEPT
        !.answers = {Given(q1, c1, t1), Given(q1, c2, t1)},
        !.hooks = {h1, h3}, !.left.answers = 2]

LateStops ==
    [Quiet EXCEPT
        !.stops = {Stopped(t1, <<n1, n2>>), Stopped(t1, <<n2>>), Stopped(t2, <<n2>>)},
        !.hooks = {h1}, !.ticks = 3, !.left.stops = 2, !.left.faults = 1]

RefiledNotices ==
    [Quiet EXCEPT
        !.stops = {Stopped(t1, <<n1>>)},
        !.hooks = {h1, h2}, !.ticks = 2, !.left.stops = 2, !.left.faults = 1]

RacingNotices ==
    [Quiet EXCEPT
        !.stops = {Stopped(t1, <<n1>>)},
        !.hooks = {h1, h3}, !.left.stops = 1, !.left.fires = 1, !.left.faults = 1]

LateRegistered == [RacingNotices EXCEPT !.owes = TRUE, !.left.fires = 0]

AnswerOrNotice ==
    [Quiet EXCEPT
        !.asks = {Asked(q1, me, t1, None)}, !.answers = {Given(q1, c1, t1)},
        !.stops = {Stopped(t1, <<n1>>)},
        !.hooks = {h1, h3}, !.left.answers = 1, !.left.stops = 1, !.left.faults = 1]

AllScenarios == {Backlog, RacingPrompts, LastSlot, LateStops, RefiledNotices, RacingNotices,
                 LateRegistered, AnswerOrNotice}

=============================================================================
