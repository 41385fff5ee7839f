------------------------------ MODULE DropLedger ------------------------------
(***************************************************************************)
(* The drop ledgers of one repo: an append-only `.drops` file per session, *)
(* the aggregate the age sweep folds old ledgers into, the marker that     *)
(* says the ledgers are incomplete, and doctor's reading of all three.     *)
(* Sources: connector-core/src/spool/{drops,reap,write}.ts.                *)
(*                                                                         *)
(* A Drop is one call of recordDrop and the ledger entry it writes.  Every *)
(* await of the writers, of the sweep and of the reader is a step.         *)
(***************************************************************************)
EXTENDS Naturals

CONSTANTS
  Slug,       \* sessions of the repo
  Drop,       \* batches of lost records, each counted by one recordDrop
  SlugOf,     \* the session of a drop
  Sweeper,    \* hooks whose reapSpool reaches the ledgers
  MaxFaults,  \* how many reads, writes and processes may fail
  None        \* no drop, no session

ASSUME DropLedgerAssumption ==
  /\ SlugOf \in [Drop -> Slug]
  /\ MaxFaults \in Nat
  /\ None \notin Drop \cup Slug

VARIABLES
  ledger,    \* per session: the file, its readable and unreadable lines
  live,      \* does the session's state file exist
  data,      \* does the session's data file exist
  archive,   \* how often the aggregate's totals include a drop
  marker,    \* does unrecorded.dropmarker exist
  refused,   \* drops for which the marker could not be written either
  pc,        \* where each recordDrop is
  gone,      \* ... and was its file unlinked since it was opened
  wpc,       \* where each sweep is
  on,        \* ... the session it looks at
  fold,      \* ... the ledger lines it read
  seen,      \* ... the aggregate it read
  rpc,       \* where the reader is
  unread,    \* ... the ledgers readdir named that it has not read yet
  report,    \* ... how often its totals include a drop
  warned,    \* ... does it say that the ledgers are incomplete
  owed,      \* ... the drops that were recorded before it started
  missed,    \* history: drops in a file the reader failed to read
  late,      \* history: drops recorded behind a sweep that had read the ledger
  misread,   \* history: drops in a file that a sweep failed to read
  faults     \* failures so far

store == <<ledger, archive, marker, refused>>
losses == <<late, misread>>
sessions == <<live, data>>
recorders == <<pc, gone>>
sweepers == <<wpc, on, fold, seen>>
reader == <<rpc, unread, report, warned, owed, missed>>
vars == <<store, losses, sessions, recorders, sweepers, reader, faults>>

Fault == faults < MaxFaults /\ faults' = faults + 1

NoLedger == [exists |-> FALSE, good |-> {}, bad |-> {}, torn |-> None, old |-> FALSE]

(* toLines keeps a torn tail too, as one more line that does not parse.    *)
Unreadable(file) == file.bad \cup ({file.torn} \ {None})

Entries(file) == file.good \cup Unreadable(file)

(* newestDropMs is null for a ledger without a readable entry.             *)
Dated(file) == file.good # {}

Covering(drops) == [d \in Drop |-> IF d \in drops THEN 1 ELSE 0]

Plus(f, g) == [d \in Drop |-> f[d] + g[d]]

Nothing == Covering({})

Archived == {d \in Drop : archive[d] > 0}

(* One append: a line of its own, or glued behind a torn tail.             *)
Entered(file, d) ==
  IF file.torn = None
    THEN [file EXCEPT !.exists = TRUE, !.good = @ \cup {d}, !.old = FALSE]
    ELSE [file EXCEPT !.bad = @ \cup {file.torn, d}, !.torn = None]

Terminated(file) ==
  [file EXCEPT !.exists = TRUE, !.bad = Unreadable(file), !.torn = None]

Init ==
  /\ ledger = [s \in Slug |-> NoLedger]
  /\ live = [s \in Slug |-> TRUE]
  /\ data = [s \in Slug |-> FALSE]
  /\ archive = Nothing /\ marker = FALSE /\ refused = {}
  /\ pc = [d \in Drop |-> "todo"]
  /\ gone = [d \in Drop |-> FALSE]
  /\ wpc = [w \in Sweeper |-> "idle"]
  /\ on = [w \in Sweeper |-> None]
  /\ fold = [w \in Sweeper |-> {}]
  /\ seen = [w \in Sweeper |-> Nothing]
  /\ rpc = "idle" /\ unread = {} /\ report = Nothing /\ warned = FALSE
  /\ owed = {} /\ missed = {} /\ late = {} /\ misread = {}
  /\ faults = 0

-----------------------------------------------------------------------------
(* recordDrop                                                              *)

At(d, label) == pc[d] = label
Goto(d, label) == pc' = [pc EXCEPT ![d] = label]

(* recordDrop has yet to return.                                           *)
Recording(d) == pc[d] \notin {"todo", "recorded", "marked", "killed"}

(* A sweep has read the ledger of d without its entry, and has yet to end. *)
Overlooked(d) ==
  \E w \in Sweeper :
    on[w] = SlugOf[d] /\ wpc[w] \in {"archive", "total", "remove"} /\ d \notin fold[w]

(* A hook of the running session counts a batch; the session may end, and  *)
(* its ledger be swept, before the hook is done.                           *)
Start(d) ==
  /\ At(d, "todo") /\ live[SlugOf[d]]
  /\ Goto(d, "open")
  /\ UNCHANGED <<store, losses, sessions, gone, sweepers, reader, faults>>

(* appendOnce opens the path, which creates a missing file.                *)
OpenLedger(d) ==
  /\ pc[d] \in {"open", "reopen"}
  /\ \/ /\ ledger' = [ledger EXCEPT ![SlugOf[d]].exists = TRUE]
        /\ gone' = [gone EXCEPT ![d] = FALSE]
        /\ Goto(d, IF At(d, "open") THEN "write" ELSE "rewrite")
        /\ UNCHANGED faults
     \/ Fault /\ Goto(d, "mark") /\ UNCHANGED <<ledger, gone>>
  /\ UNCHANGED <<archive, marker, refused, losses, sessions, sweepers, reader>>

(* handle.write: the whole entry, part of it, or an error.                 *)
WriteEntry(d) ==
  LET Reach(file) == IF gone[d] THEN UNCHANGED ledger ELSE ledger' = [ledger EXCEPT ![SlugOf[d]] = file]
  IN
  /\ pc[d] \in {"write", "rewrite"}
  /\ \/ /\ Reach(Entered(ledger[SlugOf[d]], d))
        /\ Goto(d, IF At(d, "write") THEN "stat" ELSE "restat")
        /\ UNCHANGED faults
     \/ Fault /\ Reach([ledger[SlugOf[d]] EXCEPT !.torn = d]) /\ Goto(d, "terminate")
     \/ Fault /\ UNCHANGED ledger /\ Goto(d, "mark")
  /\ UNCHANGED <<archive, marker, refused, losses, sessions, gone, sweepers, reader>>

(* nlink: recorded, or once more through a new file.                       *)
StatLedger(d) ==
  /\ pc[d] \in {"stat", "restat"}
  /\ Goto(d, IF ~gone[d] THEN "recorded" ELSE IF At(d, "stat") THEN "reopen" ELSE "mark")
  /\ late' = IF ~gone[d] /\ Overlooked(d) THEN late \cup {d} ELSE late
  /\ UNCHANGED <<store, misread, sessions, gone, sweepers, reader, faults>>

(* LEDGER_TERMINATOR behind a short entry, best effort.                    *)
TerminateEntry(d) ==
  /\ At(d, "terminate")
  /\ \/ ledger' = [ledger EXCEPT ![SlugOf[d]] = Terminated(@)] /\ UNCHANGED faults
     \/ Fault /\ UNCHANGED ledger
  /\ Goto(d, "mark")
  /\ UNCHANGED <<archive, marker, refused, losses, sessions, gone, sweepers, reader>>

(* markUnrecordedDrop, whose own failure is swallowed.                     *)
MarkUnrecorded(d) ==
  /\ At(d, "mark")
  /\ \/ marker' = TRUE /\ UNCHANGED <<refused, faults>>
     \/ Fault /\ refused' = refused \cup {d} /\ UNCHANGED marker
  /\ Goto(d, "marked")
  /\ UNCHANGED <<ledger, archive, losses, sessions, gone, sweepers, reader>>

(* The hook dies before recordDrop returned.                               *)
KillRecorder(d) ==
  /\ Recording(d)
  /\ Fault
  /\ Goto(d, "killed")
  /\ UNCHANGED <<store, losses, sessions, gone, sweepers, reader>>

-----------------------------------------------------------------------------
(* reapOrphanDrops, inside the flush lock                                  *)

WAt(w, label) == wpc[w] = label
WGoto(w, label) == wpc' = [wpc EXCEPT ![w] = label]

(* A sweep leaves the lock, and nothing of it stays in memory.             *)
Leave(w) ==
  /\ WGoto(w, "idle")
  /\ on' = [on EXCEPT ![w] = None]
  /\ fold' = [fold EXCEPT ![w] = {}]
  /\ seen' = [seen EXCEPT ![w] = Nothing]

(* The flush lock admits one sweep at a time, see SpoolLock.               *)
MayEnter(w) == \A v \in Sweeper : WAt(v, "idle")

(* newestDropMs: the newest readable entry is older than the bound.        *)
SweepAge(w, s) ==
  /\ MayEnter(w) /\ WAt(w, "idle")
  /\ Dated(ledger[s]) /\ ledger[s].old
  /\ WGoto(w, "live")
  /\ on' = [on EXCEPT ![w] = s]
  /\ UNCHANGED <<store, losses, sessions, recorders, fold, seen, reader, faults>>

(* isSessionLive                                                           *)
SweepLive(w) ==
  /\ WAt(w, "live")
  /\ IF live[on[w]] THEN Leave(w) ELSE WGoto(w, "data") /\ UNCHANGED <<on, fold, seen>>
  /\ UNCHANGED <<store, losses, sessions, recorders, reader, faults>>

(* The data file still exists.                                             *)
SweepData(w) ==
  /\ WAt(w, "data")
  /\ IF data[on[w]] THEN Leave(w) ELSE WGoto(w, "fold") /\ UNCHANGED <<on, fold, seen>>
  /\ UNCHANGED <<store, losses, sessions, recorders, reader, faults>>

(* Seeded fault: the ledger goes before its totals are in the aggregate.   *)
FoldAndRemove(w) ==
  /\ WAt(w, "fold")
  /\ fold' = [fold EXCEPT ![w] = Entries(ledger[on[w]])]
  /\ ledger' = [ledger EXCEPT ![on[w]] = NoLedger]
  /\ WGoto(w, IF Entries(ledger[on[w]]) = {} THEN "remove" ELSE "archive")
  /\ UNCHANGED <<archive, marker, refused, losses, sessions, recorders, on, seen, reader, faults>>

(* archiveLedger reads the ledger, then the aggregate.  A ledger it cannot *)
(* read sums up to nothing: the aggregate is left alone, and the ledger is *)
(* removed all the same.                                                   *)
FoldLedger(w) ==
  LET entries == Entries(ledger[on[w]]) IN
  /\ WAt(w, "fold")
  /\ \/ /\ fold' = [fold EXCEPT ![w] = entries]
        /\ WGoto(w, IF entries = {} THEN "remove" ELSE "archive")
        /\ UNCHANGED <<misread, faults>>
     \/ Fault /\ misread' = misread \cup entries /\ WGoto(w, "remove") /\ UNCHANGED fold
  /\ UNCHANGED <<store, late, sessions, recorders, on, seen, reader>>

(* An aggregate it cannot read counts as empty, and is about to be written *)
(* over.                                                                   *)
ReadAggregate(w) ==
  /\ WAt(w, "archive")
  /\ \/ seen' = [seen EXCEPT ![w] = archive] /\ UNCHANGED <<misread, faults>>
     \/ Fault /\ misread' = misread \cup Archived /\ UNCHANGED seen
  /\ WGoto(w, "total")
  /\ UNCHANGED <<store, late, sessions, recorders, on, fold, reader>>

(* The temporary file and its rename; a throw leaves the lock.             *)
WriteAggregate(w) ==
  /\ WAt(w, "total")
  /\ \/ /\ archive' = Plus(seen[w], Covering(fold[w]))
        /\ WGoto(w, "remove")
        /\ UNCHANGED <<on, fold, seen, faults>>
     \/ Fault /\ Leave(w) /\ UNCHANGED archive
  /\ UNCHANGED <<ledger, marker, refused, losses, sessions, recorders, reader>>

(* removeFile: whoever has the ledger open now writes to nobody.           *)
RemoveLedger(w) ==
  /\ WAt(w, "remove")
  /\ ledger' = [ledger EXCEPT ![on[w]] = NoLedger]
  /\ gone' = [d \in Drop |-> gone[d] \/ (SlugOf[d] = on[w] /\ Recording(d))]
  /\ Leave(w)
  /\ UNCHANGED <<archive, marker, refused, losses, sessions, pc, reader, faults>>

KillSweeper(w) ==
  /\ ~WAt(w, "idle")
  /\ Fault
  /\ Leave(w)
  /\ UNCHANGED <<store, losses, sessions, recorders, reader>>

-----------------------------------------------------------------------------
(* doctor: readDropSummary and readUnrecordedDrop                          *)

(* readdir names the ledgers; where it throws, there are no drops to tell. *)
ReadNames ==
  /\ rpc = "idle"
  /\ report' = Nothing /\ warned' = FALSE
  /\ owed' = {d \in Drop : pc[d] \in {"recorded", "marked"}}
  /\ \/ /\ rpc' = "ledgers"
        /\ unread' = {s \in Slug : ledger[s].exists}
        /\ missed' = {} /\ UNCHANGED faults
     \/ Fault /\ rpc' = "marker" /\ unread' = {} /\ missed' = {d \in Drop : At(d, "recorded")}
  /\ UNCHANGED <<store, losses, sessions, recorders, sweepers>>

(* What doctor adds to its report for a file that holds these drops: one   *)
(* that cannot be read counts for nothing.                                 *)
AddsUp(drops, counts) ==
  \/ report' = Plus(report, counts) /\ UNCHANGED <<missed, faults>>
  \/ Fault /\ missed' = missed \cup drops /\ UNCHANGED report

(* The ledgers are read concurrently; one that vanished reads as empty.    *)
ReadLedger(s) ==
  /\ rpc = "ledgers" /\ s \in unread
  /\ AddsUp(Entries(ledger[s]), Covering(Entries(ledger[s])))
  /\ unread' = unread \ {s}
  /\ UNCHANGED <<store, losses, sessions, recorders, sweepers, rpc, warned, owed>>

(* The aggregate comes after them.                                         *)
ReadArchive ==
  /\ rpc = "ledgers" /\ unread = {}
  /\ AddsUp(Archived, archive)
  /\ rpc' = "marker"
  /\ UNCHANGED <<store, losses, sessions, recorders, sweepers, unread, warned, owed>>

(* readUnrecordedDrop comes last.                                          *)
ReadMarker ==
  /\ rpc = "marker"
  /\ rpc' = "told"
  /\ \/ warned' = marker /\ UNCHANGED <<missed, faults>>
     \/ Fault /\ missed' = missed \cup {d \in owed : At(d, "marked")} /\ UNCHANGED warned
  /\ UNCHANGED <<store, losses, sessions, recorders, sweepers, unread, report, owed>>

(* The developer has read it and may ask again.                            *)
Ask ==
  /\ rpc = "told"
  /\ rpc' = "idle" /\ report' = Nothing /\ warned' = FALSE /\ owed' = {} /\ missed' = {}
  /\ UNCHANGED <<store, losses, sessions, recorders, sweepers, unread, faults>>

-----------------------------------------------------------------------------
(* The sessions around it: state files come and go, and the data file is   *)
(* written by a live session and reaped from a dead one.                   *)
EndSession(s) ==
  /\ live[s]
  /\ live' = [live EXCEPT ![s] = FALSE]
  /\ UNCHANGED <<store, losses, data, recorders, sweepers, reader, faults>>

ResumeSession(s) ==
  /\ ~live[s]
  /\ \E d \in Drop : SlugOf[d] = s /\ At(d, "todo")
  /\ live' = [live EXCEPT ![s] = TRUE]
  /\ UNCHANGED <<store, losses, data, recorders, sweepers, reader, faults>>

DataChanges(s) ==
  /\ data[s] # live[s]
  /\ data' = [data EXCEPT ![s] = live[s]]
  /\ UNCHANGED <<store, losses, live, recorders, sweepers, reader, faults>>

(* MAX_SPOOL_AGE_DAYS pass since the newest readable entry.                *)
Age(s) ==
  /\ Dated(ledger[s]) /\ ~ledger[s].old
  /\ ledger' = [ledger EXCEPT ![s].old = TRUE]
  /\ UNCHANGED <<archive, marker, refused, losses, sessions, recorders, sweepers, reader, faults>>

RecordStep(d) ==
  OpenLedger(d) \/ WriteEntry(d) \/ StatLedger(d) \/ TerminateEntry(d) \/ MarkUnrecorded(d)

SweepStep(w) ==
  \/ SweepLive(w) \/ SweepData(w) \/ FoldLedger(w)
  \/ ReadAggregate(w) \/ WriteAggregate(w) \/ RemoveLedger(w)

Next ==
  \/ \E d \in Drop : Start(d) \/ RecordStep(d) \/ KillRecorder(d)
  \/ \E w \in Sweeper : SweepStep(w) \/ KillSweeper(w)
  \/ \E w \in Sweeper, s \in Slug : SweepAge(w, s)
  \/ ReadNames \/ ReadArchive \/ ReadMarker \/ Ask \/ \E s \in Slug : ReadLedger(s)
  \/ \E s \in Slug : EndSession(s) \/ ResumeSession(s) \/ DataChanges(s) \/ Age(s)

Spec == Init /\ [][Next]_vars

-----------------------------------------------------------------------------

InLedger(d) == d \in Entries(ledger[SlugOf[d]])

(* drops.ts calls under-counting "the one direction a drop counter must    *)
(* never fail in".  What recordDrop recorded stays in a ledger line or in  *)
(* the aggregate, and what it could not record leaves the marker, whatever *)
(* appends, short writes, deaths and sweeps come together.  The counter    *)
(* fails in that direction in these cases and no other: the entry was      *)
(* recorded in a ledger a sweep had already read (a hook outlives its      *)
(* session for as long as it takes to sweep it); it was in a ledger or in  *)
(* the aggregate when a sweep failed to read that file, took it for empty  *)
(* and removed or replaced it; the disk refused the marker as well.        *)
NeverUnderCounts ==
  \A d \in Drop :
    /\ At(d, "recorded") => InLedger(d) \/ archive[d] > 0 \/ d \in late \cup misread
    /\ At(d, "marked") => marker \/ d \in refused

(* And what doctor tells covers every drop recorded before it was asked,   *)
(* however a sweep moves totals about while it reads: but for those cases, *)
(* and for what was in a file that doctor itself failed to read.           *)
DoctorNeverUnderCounts ==
  rpc = "told" => \A d \in owed :
    report[d] > 0 \/ warned \/ d \in refused \cup late \cup misread \cup missed
=============================================================================
