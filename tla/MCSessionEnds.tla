---------------------------- MODULE MCSessionEnds ----------------------------
(* Finite instances of SessionEnds: a session that starts, works, ends and  *)
(* comes back, and another whose starts do the maintenance.                 *)
EXTENDS SessionEnds, TLC

CONSTANTS s, o, start, work, end, other

Kinds == start :> "start" @@ work :> "work" @@ end :> "end" @@ other :> "start"
Hosts == start :> s @@ work :> s @@ end :> s @@ other :> o
KindsOfHook == [h \in Hook |-> Kinds[h]]
HostsOfHook == [h \in Hook |-> Hosts[h]]

\* The session starts again after its end; a fault on its one round; it falls
\* silent; a working hook beside start and end; and its starts, or with them a
\* working hook that found no state file, climb the ladder.
Twice == [hooks |-> {start, end, other}, rounds |-> 3, faults |-> 0, silence |-> FALSE,
          climbs |-> FALSE]
Faulty == [Twice EXCEPT !.rounds = 2, !.faults = 1]
Silent == [Twice EXCEPT !.rounds = 2, !.silence = TRUE]
Working == [Faulty EXCEPT !.hooks = {start, work, end}]
Climbing == [Twice EXCEPT !.hooks = {start, end}, !.rounds = 5]
Recovering == [Twice EXCEPT !.hooks = {start, work, end}, !.climbs = TRUE]
AllCasts == {Twice, Faulty, Silent, Working, Climbing, Recovering}
=============================================================================
