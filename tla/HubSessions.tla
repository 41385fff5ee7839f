----------------------------- MODULE HubSessions -----------------------------
(***************************************************************************)
(* One session's row on the hub and the requests that move it: register,   *)
(* heartbeat, end and record requests, and the reaper that closes sessions *)
(* it has not heard from.  Sources: server/src/services/sessions.ts,       *)
(* records.ts (its session gate), session-events.ts, routes/sessions.ts.   *)
(*                                                                         *)
(* The database serialises statements and none of these handlers opens a   *)
(* transaction, so every awaited statement is a step and requests          *)
(* interleave between them.  Requests are the session's own: another       *)
(* developer's are refused before they write anything.                     *)
(***************************************************************************)
EXTENDS Naturals, Sequences, FiniteSets

CONSTANTS
  Req,          \* requests and reaper passes
  KindOf,       \* "register", "heartbeat", "end", "record" or "sweep"
  SeqOf,        \* the position an end request carries, or None
  OtherRepo,    \* register requests that name another repo
  Taken,        \* positions other events of the session already hold
  Casts,        \* bound: which requests come, whether they overlap or the hub
                \* finishes one before the next, how often the session is silent
                \* beyond the stale window, and how often the hub restarts
  None          \* no position

Kinds == {"register", "heartbeat", "end", "record", "sweep"}

ASSUME HubAssumption ==
  /\ KindOf \in [Req -> Kinds]
  /\ SeqOf \in [Req -> (Nat \ {0}) \cup {None}]
  /\ None \notin Nat
  /\ OtherRepo \subseteq Req /\ Taken \subseteq Nat \ {0}
  /\ Casts \subseteq [requests : SUBSET Req, overlap : BOOLEAN,
                       silences : Nat, crashes : Nat]

VARIABLES
  life,      \* the row: "none", "open", "reaped" or "ended" by SessionEnd
  stale,     \* is last_heartbeat_at older than the reaper's cutoff
  journal,   \* the /api/events ledger of this session: starts and ends
  marks,     \* session_events rows: kind, position and reason
  pc,        \* where each request is
  view,      \* ... the row it read
  got,       \* ... its answer
  cast,      \* which of Casts this is
  silences,  \* stale windows so far
  crashes    \* restarts so far

row == <<life, stale>>
request == <<pc, view, got>>
bounds == <<cast, silences, crashes>>
vars == <<row, journal, marks, request, bounds>>

Labels == {"todo", "select", "reap", "reapJournal", "reapMark", "insert", "startJournal",
           "startMark", "read", "touch", "revive", "reviveJournal", "look", "beat", "gate",
           "store", "touchHeart", "lookend", "end", "balance", "withdraw", "endJournal",
           "endMark", "endRemark", "done", "lost"}

Answers == {"none", "created", "updated", "ok", "ended", "not_found", "already_ended",
            "repo_mismatch", "accepted", "rejected"}

Lives == {"none", "open", "reaped", "ended"}

At(r, label) == pc[r] = label
Goto(r, label) == pc' = [pc EXCEPT ![r] = label]
Answer(r, what) == Goto(r, "done") /\ got' = [got EXCEPT ![r] = what]
Running(r) == pc[r] \notin {"todo", "done", "lost"}
Quiet == \A r \in Req : ~Running(r)

(* appendEvent *)
Appends(entry) == journal' = Append(journal, entry)

(* sessionEventId: one row per kind and position, the absent one included. *)
Insert(mark) ==
  marks' = IF \E m \in marks : m.kind = mark.kind /\ m.seq = mark.seq
             THEN marks ELSE marks \cup {mark}

Init ==
  /\ life = "none" /\ stale = FALSE
  /\ journal = <<>> /\ marks = {}
  /\ pc = [r \in Req |-> "todo"]
  /\ view = [r \in Req |-> "none"]
  /\ got = [r \in Req |-> "none"]
  /\ cast \in Casts
  /\ silences = 0 /\ crashes = 0

(* A request arrives.  A registration closes stale sessions on its way in. *)
Arrive(r) ==
  /\ At(r, "todo")
  /\ r \in cast.requests
  /\ cast.overlap \/ Quiet
  /\ Goto(r, CASE KindOf[r] \in {"register", "sweep"} -> "select"
               [] KindOf[r] = "heartbeat" -> "look"
               [] KindOf[r] = "end" -> "lookend"
               [] KindOf[r] = "record" -> "gate")
  /\ UNCHANGED <<row, journal, marks, view, got, bounds>>

-----------------------------------------------------------------------------
(* reapStaleSessions                                                       *)

(* The pass is over: the timer's returns, the registration's goes on.      *)
PassEnds(r) == Goto(r, IF KindOf[r] = "register" THEN "insert" ELSE "todo")

(* The candidates: open and silent beyond the cutoff.                      *)
SelectStale(r) ==
  /\ At(r, "select")
  /\ IF life = "open" /\ stale THEN Goto(r, "reap") ELSE PassEnds(r)
  /\ UNCHANGED <<row, journal, marks, view, got, bounds>>

(* The UPDATE by id, if the row is still open.                             *)
Reap(r) ==
  /\ At(r, "reap")
  /\ IF life = "open"
       THEN life' = "reaped" /\ Goto(r, "reapJournal")
       ELSE PassEnds(r) /\ UNCHANGED life
  /\ UNCHANGED <<stale, journal, marks, view, got, bounds>>

ReapJournal(r) ==
  /\ At(r, "reapJournal")
  /\ Appends("end")
  /\ Goto(r, "reapMark")
  /\ UNCHANGED <<row, marks, view, got, bounds>>

ReapMark(r) ==
  /\ At(r, "reapMark")
  /\ Insert([kind |-> "ended", seq |-> None, reason |-> "reaped_end"])
  /\ PassEnds(r)
  /\ UNCHANGED <<row, journal, view, got, bounds>>

-----------------------------------------------------------------------------
(* registerSession                                                         *)

(* INSERT ... ON CONFLICT DO NOTHING                                       *)
InsertRow(r) ==
  /\ At(r, "insert")
  /\ IF life = "none"
       THEN life' = "open" /\ stale' = FALSE /\ Goto(r, "startJournal")
       ELSE Goto(r, "read") /\ UNCHANGED row
  /\ UNCHANGED <<journal, marks, view, got, bounds>>

StartJournal(r) ==
  /\ At(r, "startJournal")
  /\ Appends("start")
  /\ Goto(r, "startMark")
  /\ UNCHANGED <<row, marks, view, got, bounds>>

StartMark(r) ==
  /\ At(r, "startMark")
  /\ Insert([kind |-> "started", seq |-> 0, reason |-> "sequenced"])
  /\ Answer(r, "created")
  /\ UNCHANGED <<row, journal, view, bounds>>

(* The repo is compared after a revival, not before it.                    *)
RepoOrTouch(r) ==
  IF r \in OtherRepo THEN Answer(r, "repo_mismatch") ELSE Goto(r, "touch") /\ UNCHANGED got

ReadExisting(r) ==
  /\ At(r, "read")
  /\ view' = [view EXCEPT ![r] = life]
  /\ CASE life = "ended"  -> Answer(r, "already_ended")
       [] life = "reaped" -> Goto(r, "revive") /\ UNCHANGED got
       [] OTHER           -> RepoOrTouch(r)
  /\ UNCHANGED <<row, journal, marks, bounds>>

(* The UPDATE of a row that may have changed since it was read.            *)
Touch(r) ==
  /\ At(r, "touch")
  /\ stale' = FALSE
  /\ Answer(r, "updated")
  /\ UNCHANGED <<life, journal, marks, view, bounds>>

-----------------------------------------------------------------------------
(* reviveReapedSession, for a registration or a record                     *)

AfterRevival(r) ==
  IF KindOf[r] = "record" THEN Goto(r, "store") /\ UNCHANGED got ELSE RepoOrTouch(r)

(* Seeded fault: the row is reopened whatever happened since it was read.  *)
ReviveBlindly(r) ==
  /\ At(r, "revive")
  /\ life' = "open" /\ stale' = FALSE
  /\ Goto(r, "reviveJournal") /\ UNCHANGED got
  /\ UNCHANGED <<journal, marks, view, bounds>>

(* Only a row that is still a reaped one.                                  *)
Revive(r) ==
  /\ At(r, "revive")
  /\ IF life = "reaped"
       THEN life' = "open" /\ stale' = FALSE /\ Goto(r, "reviveJournal") /\ UNCHANGED got
       ELSE AfterRevival(r) /\ UNCHANGED <<life, stale>>
  /\ UNCHANGED <<journal, marks, view, bounds>>

(* Seeded fault: the reopening is not told to the ledger.                  *)
ReviveSilently(r) ==
  /\ At(r, "reviveJournal")
  /\ AfterRevival(r)
  /\ UNCHANGED <<row, journal, marks, view, bounds>>

ReviveJournal(r) ==
  /\ At(r, "reviveJournal")
  /\ Appends("start")
  /\ AfterRevival(r)
  /\ UNCHANGED <<row, marks, view, bounds>>

-----------------------------------------------------------------------------
(* heartbeatSession                                                        *)

Look(r) ==
  /\ At(r, "look")
  /\ view' = [view EXCEPT ![r] = life]
  /\ CASE life = "none" -> Answer(r, "not_found")
       [] life \in {"reaped", "ended"} -> Answer(r, "already_ended")
       [] OTHER -> Goto(r, "beat") /\ UNCHANGED got
  /\ UNCHANGED <<row, journal, marks, bounds>>

(* The UPDATE by id.                                                       *)
Beat(r) ==
  /\ At(r, "beat")
  /\ stale' = FALSE
  /\ Answer(r, "ok")
  /\ UNCHANGED <<life, journal, marks, view, bounds>>

-----------------------------------------------------------------------------
(* checkProducerSession, the record's own write, touchProducerHeartbeats   *)

(* Seeded fault: the gate rejects what any end precedes.                   *)
GateFinal(r) ==
  /\ At(r, "gate")
  /\ view' = [view EXCEPT ![r] = life]
  /\ IF life = "open" THEN Goto(r, "store") /\ UNCHANGED got ELSE Answer(r, "rejected")
  /\ UNCHANGED <<row, journal, marks, bounds>>

Gate(r) ==
  /\ At(r, "gate")
  /\ view' = [view EXCEPT ![r] = life]
  /\ CASE life \in {"none", "ended"} -> Answer(r, "rejected")
       [] life = "reaped" -> Goto(r, "revive") /\ UNCHANGED got
       [] OTHER -> Goto(r, "store") /\ UNCHANGED got
  /\ UNCHANGED <<row, journal, marks, bounds>>

(* The record is stored, then one heartbeat per flush, for an open row.    *)
Store(r) ==
  /\ At(r, "store")
  /\ Goto(r, "touchHeart")
  /\ UNCHANGED <<row, journal, marks, view, got, bounds>>

TouchHeartbeat(r) ==
  /\ At(r, "touchHeart")
  /\ stale' = (stale /\ life # "open")
  /\ Answer(r, "accepted")
  /\ UNCHANGED <<life, journal, marks, view, bounds>>

-----------------------------------------------------------------------------
(* endSession                                                              *)

LookEnd(r) ==
  /\ At(r, "lookend")
  /\ view' = [view EXCEPT ![r] = life]
  /\ IF life = "none" THEN Answer(r, "not_found") ELSE Goto(r, "end") /\ UNCHANGED got
  /\ UNCHANGED <<row, journal, marks, bounds>>

(* The UPDATE unless a reported end is there already; what follows it is   *)
(* decided by the row as it was read.                                      *)
End(r) ==
  /\ At(r, "end")
  /\ IF life = "ended"
       THEN Answer(r, "ended") /\ UNCHANGED life
       ELSE /\ life' = "ended"
            /\ Goto(r, IF view[r] = "reaped" THEN "balance" ELSE "endJournal")
            /\ UNCHANGED got
  /\ UNCHANGED <<stale, journal, marks, view, bounds>>

(* The reap is disproven: a balancing start, and its row is withdrawn.     *)
Balance(r) ==
  /\ At(r, "balance")
  /\ Appends("start")
  /\ Goto(r, "withdraw")
  /\ UNCHANGED <<row, marks, view, got, bounds>>

(* Seeded fault: the reaper's row stays where it is.                       *)
WithdrawNothing(r) ==
  /\ At(r, "withdraw")
  /\ Goto(r, "endJournal")
  /\ UNCHANGED <<row, journal, marks, view, got, bounds>>

Withdraw(r) ==
  /\ At(r, "withdraw")
  /\ marks' = {m \in marks : ~(m.kind = "ended" /\ m.reason = "reaped_end")}
  /\ Goto(r, "endJournal")
  /\ UNCHANGED <<row, journal, view, got, bounds>>

EndJournal(r) ==
  /\ At(r, "endJournal")
  /\ Appends("end")
  /\ Goto(r, "endMark")
  /\ UNCHANGED <<row, marks, view, got, bounds>>

(* recordSessionEvent: at its position, or without one when it carries     *)
(* none or somebody else holds it.                                         *)
EndMark(r) ==
  /\ At(r, "endMark")
  /\ IF SeqOf[r] \in Taken
       THEN Goto(r, "endRemark") /\ UNCHANGED <<marks, got>>
       ELSE /\ Insert([kind |-> "ended", seq |-> SeqOf[r],
                       reason |-> IF SeqOf[r] = None THEN "absent" ELSE "sequenced"])
            /\ Answer(r, "ended")
  /\ UNCHANGED <<row, journal, view, bounds>>

EndRemark(r) ==
  /\ At(r, "endRemark")
  /\ Insert([kind |-> "ended", seq |-> None, reason |-> "epoch_conflict"])
  /\ Answer(r, "ended")
  /\ UNCHANGED <<row, journal, view, bounds>>

-----------------------------------------------------------------------------

(* SESSION_REAP_STALE_HOURS without a word from an open session.           *)
Silence ==
  /\ life = "open" /\ ~stale
  /\ silences < cast.silences /\ silences' = silences + 1
  /\ stale' = TRUE
  /\ UNCHANGED <<life, journal, marks, request, cast, crashes>>

(* The hub restarts: requests under way are lost, the timer starts again.  *)
Crash ==
  /\ crashes < cast.crashes /\ crashes' = crashes + 1
  /\ pc' = [r \in Req |-> IF ~Running(r) THEN pc[r]
                          ELSE IF KindOf[r] = "sweep" THEN "todo" ELSE "lost"]
  /\ UNCHANGED <<row, journal, marks, view, got, cast, silences>>

Step(r) ==
  \/ SelectStale(r) \/ Reap(r) \/ ReapJournal(r) \/ ReapMark(r)
  \/ InsertRow(r) \/ StartJournal(r) \/ StartMark(r) \/ ReadExisting(r) \/ Touch(r)
  \/ Revive(r) \/ ReviveJournal(r)
  \/ Look(r) \/ Beat(r)
  \/ Gate(r) \/ Store(r) \/ TouchHeartbeat(r)
  \/ LookEnd(r) \/ End(r) \/ Balance(r) \/ Withdraw(r) \/ EndJournal(r) \/ EndMark(r) \/ EndRemark(r)

Next == (\E r \in Req : Arrive(r) \/ Step(r)) \/ Silence \/ Crash

Spec == Init /\ [][Next]_vars

-----------------------------------------------------------------------------

(* Every variable keeps its type, and session_events holds one row per     *)
(* kind and position.                                                      *)
TypeOK ==
  /\ life \in Lives
  /\ stale \in BOOLEAN
  /\ journal \in Seq({"start", "end"})
  /\ \A m \in marks :
       /\ m.kind \in {"started", "ended"} /\ m.seq \in Nat \cup {None}
       /\ m.reason \in {"sequenced", "absent", "reaped_end", "epoch_conflict"}
  /\ \A m, n \in marks : m.kind = n.kind /\ m.seq = n.seq => m = n
  /\ pc \in [Req -> Labels] /\ view \in [Req -> Lives] /\ got \in [Req -> Answers]
  /\ silences \in 0..cast.silences /\ crashes \in 0..cast.crashes

(* An end the session reported is final: no heartbeat, record, re-fired    *)
(* registration or reaper pass, however stale what it read, opens the row  *)
(* again or turns the end back into an inferred one.                       *)
ReportedEndIsFinal == [][life = "ended" => life' = "ended"]_vars

(* A record of a known session is refused only after the session itself    *)
(* reported its end; silence, a reap and a restart never cost one.         *)
SilenceCostsNoRecord ==
  \A r \in Req : got[r] = "rejected" /\ view[r] # "none" => life = "ended"

(* The ledger never reads two ends for one start, nor two starts.          *)
Alternates ==
  \A k \in DOMAIN journal : journal[k] = (IF k % 2 = 1 THEN "start" ELSE "end")

(* And between requests it says what the row says, when they do not        *)
(* overlap.                                                                *)
LedgerTellsTheRow ==
  Quiet /\ crashes = 0 /\ ~cast.overlap =>
    /\ Alternates
    /\ (life = "open") = (journal # <<>> /\ journal[Len(journal)] = "start")

Ends == {m \in marks : m.kind = "ended"}

(* The reported end of a reaped session takes the place of the reaper's    *)
(* inferred one: it leaves one row, its own.                               *)
InferredEndWithdrawn ==
  Quiet /\ crashes = 0 /\ ~cast.overlap /\ (\E r \in Req : KindOf[r] = "end" /\ view[r] = "reaped") =>
    \E m \in Ends : Ends = {m} /\ m.reason # "reaped_end"
=============================================================================
