--------------------------- MODULE MCLandingFetch ---------------------------
(* Finite instances of LandingFetch.                                        *)
EXTENDS LandingFetch, TLC

CONSTANTS main, trunk, staging, h1, h2, w1, w2

MCFallbacks == <<main>>
MCJumps == {1, 2 * Interval + 1}

Auto == [kind |-> "auto", branches |-> {}]
Base == [hooks |-> {h1}, workers |-> {w1}, setting |-> Auto, head |-> main, has |-> {main},
         moving |-> {main}, changes |-> 1, stuck |-> {}, often |-> {}, once |-> {}]

\* Two hooks race, and the clock may be set back; two workers overlap, for the
\* branches a team named; origin gains, loses and renames branches; whatever
\* doctor can tell of goes wrong again and again; git refuses a ref for good;
\* anything, once.
Race == [Base EXCEPT !.hooks = {h1, h2}, !.changes = 0, !.once = {"clock"}]
Slow == [Base EXCEPT !.workers = {w1, w2},
                     !.setting = [kind |-> "configured", branches |-> {main, trunk}]]
Calm == [Base EXCEPT !.has = {main, trunk}, !.moving = {main, trunk}, !.changes = 2]
Bad == [Base EXCEPT !.has = {main, staging},
                    !.often = Ill \ Untold]
Stuck == [Base EXCEPT !.has = {main, staging}, !.stuck = {staging}]
Once == [Base EXCEPT !.has = {main, staging}, !.once = Ill]
AllCasts == {Race, Slow, Calm, Bad, Stuck, Once}
=============================================================================
