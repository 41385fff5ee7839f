----------------------------- MODULE MCHubSessions -----------------------------
(* Finite instances of HubSessions.                                        *)
EXTENDS HubSessions

CONSTANTS reg, again, beat, rec, endA, endB, timer

Everything == [r \in Req |->
  CASE r \in {reg, again} -> "register"
    [] r = beat -> "heartbeat"
    [] r = rec -> "record"
    [] r \in {endA, endB} -> "end"
    [] OTHER -> "sweep"]

(* endA carries a position, endB none.                                     *)
OneSequenced == [r \in Req |-> IF r = endA THEN 7 ELSE None]

Race == [requests |-> {reg, again, rec, endB, timer}, overlap |-> TRUE, silences |-> 1,
         crashes |-> 0]
Restart == [Race EXCEPT !.requests = {reg, rec, endB, timer}, !.crashes = 1]
Beats == [Race EXCEPT !.requests = {reg, beat, endB, timer}, !.silences = 2]
Serial == [requests |-> Req \ {beat}, overlap |-> FALSE, silences |-> 2, crashes |-> 1]

AllCasts == {Race, Restart, Beats, Serial}
=============================================================================
