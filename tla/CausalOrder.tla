---------------------------- MODULE CausalOrder ----------------------------
(***************************************************************************)
(* How one session's causal order comes about.  The connector keeps the    *)
(* session's counter and its open tool windows in one state file           *)
(* (connector-core/src/state/session-state.ts); the hooks of parallel tool *)
(* calls, MCP declarations, Stop lanes, SessionStart re-fires, recoveries  *)
(* and SessionEnd all read and rewrite it, each in a process of its own.   *)
(* What they record reaches the hub through the spool, or directly, and    *)
(* the hub answers from OrderGate whether a reason predates a change.      *)
(*                                                                         *)
(* One edited path is asked about: every call edits it, every declaration  *)
(* names it or not, and `seen` says whether it is in the file's            *)
(* seenTargets.  The lock is taken as sound here (SpoolLock says when it   *)
(* is), and each writer of the file is one section: Enter takes the lock   *)
(* and reads the file, the section's own action writes it and releases.    *)
(***************************************************************************)
EXTENDS OrderGate, Sequences

CONSTANTS
  Calls,         \* edit tool calls; a call is its own window key (tool_use_id)
  Hooks,         \* Pre/PostToolUse pairs: one per call and wiring
  CallOf,        \* the call a hook pair belongs to
  Declarations,  \* set_intent calls
  Starts,        \* SessionStart re-fires
  Stops,         \* Stop hooks whose git lane runs
  Ends,          \* SessionEnd hooks
  First,         \* the epoch of the SessionStart that opened the session
  Block,         \* positions one capture reserves: MAX_TARGETS_PER_INVOCATION
  MaxWindows,    \* MAX_TOOL_WINDOWS
  Casts,         \* bound: the sets of processes that run in one behaviour
  MaxFaults      \* bound: kills, refused locks and appends, lost calls

Process == Hooks \cup Declarations \cup Starts \cup Stops \cup Ends

\* Every process that mints an epoch mints one, so it stands for its epoch.
Epoch == Process \cup {First}

ASSUME CausalOrderAssumption ==
    /\ CallOf \in [Hooks -> Calls]
    /\ First \notin Process
    /\ None \notin Epoch
    /\ \A S \in SUBSET Process : None # S
    /\ Hooks \cap (Declarations \cup Starts \cup Stops \cup Ends) = {}
    /\ Declarations \cap (Starts \cup Stops \cup Ends) = {}
    /\ Starts \cap (Stops \cup Ends) = {} /\ Stops \cap Ends = {}
    /\ Casts \subseteq SUBSET Process
    /\ Block \in Nat \ {0}
    /\ MaxWindows \in Nat \ {0}
    /\ MaxFaults \in Nat

VARIABLES
  file,      \* the state file: None, or [epoch, n, windows, seen]
  lock,      \* the process inside the state file's lock
  copy,      \* what that process read
  pc,        \* where each process is
  seen,      \* the seenTargets a process read at its start
  took,      \* the stamp a process took: None, or [epoch, n, after]
  wire,      \* the epoch a register names
  spool,     \* the session's records, in the order they were appended
  rows,      \* session_events of the session at the hub
  chain,     \* the intent ledger of its work context
  open,      \* does the hub hold the session's row
  context,   \* does it hold the session's work context
  preceded,  \* history: the declarations positioned before a call's edit
  issued,    \* history: every position handed out, and to which step
  born,      \* history: the epochs a state file was created under
  unfiled,   \* history: the mints named to the hub for want of a state file
  faults     \* faults so far

vars == <<file, lock, copy, pc, seen, took, wire, spool, rows, chain, open,
          context, preceded, issued, born, unfiled, faults>>

state == <<file, lock, copy>>
hub == <<rows, chain, open, context>>
history == <<preceded, issued, born, unfiled>>

----------------------------------------------------------------------------
(* The state file.                                                         *)

Fresh(epoch) == [epoch |-> epoch, n |-> 0, windows |-> {}, seen |-> FALSE]

OwnWindows(windows, key) == {w \in windows : w.key = key}

Oldest(windows) == CHOOSE w \in windows : \A v \in windows : w.floor <= v.floor
Youngest(windows) == CHOOSE w \in windows : \A v \in windows : v.floor <= w.floor

\* Seeded fault: the oldest open window, whichever call opened it.
WindowFloorOfAny(windows, key) ==
    IF windows = {} THEN None ELSE Oldest(windows).floor

\* The floor a key is entitled to: the oldest entry under it.
WindowFloor(windows, key) ==
    LET own == OwnWindows(windows, key)
    IN  IF own = {} THEN None ELSE Oldest(own).floor

\* A close removes the youngest entry under its key, or nothing.
ClosedWindow(windows, key) ==
    LET own == OwnWindows(windows, key)
    IN  IF own = {} THEN windows ELSE windows \ {Youngest(own)}

\* The list with one more entry; at the cap the oldest falls out.
Opened(windows, key, floor) ==
    LET all == windows \cup {[key |-> key, floor |-> floor]}
    IN  IF Cardinality(all) > MaxWindows THEN all \ {Oldest(all)} ELSE all

\* Seeded fault: the counter starts again under the epoch it carries.
CarriedAnew(a, previous) ==
    IF previous = None THEN Fresh(a) ELSE [previous EXCEPT !.n = 0, !.seen = FALSE]

\* What a SessionStart publishes over a file of the same binding: the counters
\* and windows are the session's, the seen list is the fire's.
Carried(a, previous) ==
    IF previous = None THEN Fresh(a) ELSE [previous EXCEPT !.seen = FALSE]

\* Seeded fault: the register names the fire's own mint.
AlwaysMinted(a) == a

\* The epoch the register may name before the file is published.
CarriedSeqEpoch(a) == IF file = None THEN a ELSE file.epoch

Positions(epoch, from, count, a) ==
    {[epoch |-> epoch, n |-> from + i - 1, by |-> a, at |-> pc[a]] : i \in 1..count}

Stamp(epoch, n, after) == [epoch |-> epoch, n |-> n, after |-> after]

----------------------------------------------------------------------------

ContextRecord(a) == [what |-> "context", by |-> a]

\* A session just opened: its first SessionStart left no file (a hook installed
\* mid-session), or a file beside a register the hub did or did not receive and
\* a work context that it has taken, that waits in the spool, or that was lost.
Init ==
    /\ \/ file = None /\ open = FALSE /\ born = {}
       \/ file = Fresh(First) /\ open \in BOOLEAN /\ born = {First}
    /\ rows = IF open THEN {[session |-> "session", what |-> "started", by |-> First,
                             kind |-> "emitted", epoch |-> First, n |-> 0,
                             after |-> None, reason |-> "sequenced"]}
              ELSE {}
    /\ lock = None
    /\ copy = None
    /\ \E cast \in Casts :
         pc = [a \in Process |-> IF a \notin cast THEN "done"
                                ELSE IF a \in Hooks THEN "open" ELSE "idle"]
    /\ seen = [a \in Process |-> FALSE]
    /\ took = [a \in Process |-> None]
    /\ wire = [a \in Process |-> a]
    /\ \/ file = None /\ spool = <<>> /\ context = FALSE /\ faults = 0
       \/ open /\ spool = <<>> /\ context = TRUE /\ faults = 0
       \/ file # None /\ ~open /\ spool = <<ContextRecord(First)>>
          /\ context = FALSE /\ faults = 0
       \/ file # None /\ spool = <<>> /\ context = FALSE
          /\ faults = 1 /\ MaxFaults > 0
    /\ chain = {}
    /\ preceded = [c \in Calls |-> None]
    /\ issued = {}
    /\ unfiled = {}

Goto(a, label) == pc' = [pc EXCEPT ![a] = label]

Fault == faults < MaxFaults /\ faults' = faults + 1

----------------------------------------------------------------------------
(* The lock of the state file.                                             *)

Sections == {"open", "allocate", "book", "close", "claim", "publish"}

AfterSection ==
    [open |-> "ready", allocate |-> "emit", book |-> "done",
     close |-> "fingerprint", claim |-> "done"]

Enter(a) ==
    /\ pc[a] \in Sections
    /\ lock = None
    /\ lock' = a
    /\ copy' = file
    /\ UNCHANGED <<file, pc, seen, took, wire, spool, hub, history, faults>>

Inside(a, section) == lock = a /\ pc[a] = section

\* The section's write, and the release that follows it.
Write(content) == file' = content /\ lock' = None /\ copy' = None

\* The lock stayed busy past its retries: the section is skipped.
Refused(a) ==
    /\ pc[a] \in Sections \ {"publish"}
    /\ lock \notin {None, a}
    /\ Fault
    /\ Goto(a, AfterSection[pc[a]])
    /\ UNCHANGED <<state, seen, took, wire, spool, hub, history>>

\* A process dies.  The host runs the tool of a dead PreToolUse all the same;
\* the lock of a dead holder is put back, or stolen once it is old.
Kill(a) ==
    /\ pc[a] \notin {"idle", "ready", "done"}
    /\ Fault
    /\ Goto(a, IF pc[a] = "open" THEN "ready" ELSE "done")
    /\ lock' = IF lock = a THEN None ELSE lock
    /\ copy' = IF lock = a THEN None ELSE copy
    /\ UNCHANGED <<file, seen, took, wire, spool, hub, history>>

\* allocateSeq, and the whole of allocateToolSeq when there is a window key:
\* one block of `count` positions, its floor, and the windows it leaves.
Allocate(a, count, floor, windows) ==
    IF copy = None
    THEN Write(file) /\ UNCHANGED <<took, issued>>
    ELSE /\ Write([copy EXCEPT !.n = @ + count, !.windows = windows])
         /\ took' = [took EXCEPT ![a] = Stamp(copy.epoch, copy.n + 1, floor)]
         /\ issued' = issued \cup Positions(copy.epoch, copy.n + 1, count, a)

----------------------------------------------------------------------------
(* A tool call and its hooks.                                              *)

\* PreToolUse: opens the call's window on the position it takes.
OpenToolWindow(a) ==
    /\ Inside(a, "open")
    /\ IF copy = None
       THEN Write(file) /\ UNCHANGED issued
       ELSE /\ Write([copy EXCEPT
                 !.n = @ + 1,
                 !.windows = Opened(@, CallOf[a], copy.n + 1)])
            /\ issued' = issued \cup Positions(copy.epoch, copy.n + 1, 1, a)
    /\ Goto(a, "ready")
    /\ UNCHANGED <<seen, took, wire, spool, hub, preceded, born, unfiled, faults>>

HooksOf(c) == {a \in Hooks : CallOf[a] = c}

\* The host runs the tool once every PreToolUse hook of the call has returned,
\* and then its PostToolUse hooks, or its PostToolUseFailure hooks.
Edit(c) ==
    /\ \A a \in HooksOf(c) : pc[a] = "ready"
    /\ pc' = [a \in Process |-> IF a \in HooksOf(c) THEN "post" ELSE pc[a]]
    /\ preceded' = [preceded EXCEPT ![c] = {d \in Declarations : took[d] # None}]
    /\ UNCHANGED <<state, seen, took, wire, spool, hub, issued, born, unfiled, faults>>

ToolFails(c) ==
    /\ \A a \in HooksOf(c) : pc[a] = "ready"
    /\ pc' = [a \in Process |-> IF a \in HooksOf(c) THEN "failed" ELSE pc[a]]
    /\ UNCHANGED <<state, seen, took, wire, spool, hub, history, faults>>

\* PostToolUse reads the file before it takes the lock; what it read decides
\* later whether the path is recorded.  No file means a recovery.
PostToolUse(a) ==
    /\ pc[a] = "post"
    /\ IF file = None
       THEN Goto(a, "register") /\ unfiled' = unfiled \cup {a} /\ UNCHANGED seen
       ELSE Goto(a, "allocate") /\ seen' = [seen EXCEPT ![a] = file.seen]
                                /\ UNCHANGED unfiled
    /\ UNCHANGED <<state, took, wire, spool, hub, preceded, issued, born, faults>>

\* recoverState publishes into absence only, and adopts a sibling's file.
Claim(a) ==
    /\ Inside(a, "claim")
    /\ IF copy = None
       THEN /\ Write(Fresh(a))
            /\ born' = born \cup {a}
            /\ Goto(a, "announce")
            /\ UNCHANGED seen
       ELSE /\ Write(file)
            /\ Goto(a, "allocate")
            /\ seen' = [seen EXCEPT ![a] = copy.seen]
            /\ UNCHANGED born
    /\ UNCHANGED <<took, wire, spool, hub, preceded, issued, unfiled, faults>>

AllocateToolSeq(a) ==
    /\ a \in Hooks
    /\ Inside(a, "allocate")
    /\ Allocate(a, Block, WindowFloor(copy.windows, CallOf[a]),
                ClosedWindow(copy.windows, CallOf[a]))
    /\ Goto(a, "emit")
    /\ UNCHANGED <<seen, wire, spool, hub, preceded, born, unfiled, faults>>

\* The record of the path, unless the path was seen; the append may be refused
\* without the hook learning of it.  The git lane sees the path once a tool has
\* edited it.
Emit(a) ==
    /\ pc[a] = "emit"
    /\ a \in Hooks \cup Stops
    /\ a \in Stops => \E c \in Calls : preceded[c] # None
    /\ LET source == IF a \in Hooks THEN "tool_edit" ELSE "git_diff"
           record == [what |-> "target", by |-> a, source |-> source, seq |-> took[a]]
       IN  \/ /\ spool' = IF seen[a] THEN spool ELSE Append(spool, record)
              /\ UNCHANGED faults
           \/ ~seen[a] /\ Fault /\ UNCHANGED spool
    /\ Goto(a, "book")
    /\ UNCHANGED <<state, seen, took, wire, hub, history>>

\* git reports nothing, or does not answer in time: the lane books no path.
LaneFindsNothing(a) ==
    /\ a \in Stops
    /\ pc[a] = "emit"
    /\ Goto(a, "done")
    /\ UNCHANGED <<state, seen, took, wire, spool, hub, history, faults>>

\* The captured path joins the seen list; a hook that allocated nothing closes
\* its window here.
Book(a) ==
    /\ Inside(a, "book")
    /\ Write(IF copy = None THEN file
             ELSE [copy EXCEPT
                !.seen = @ \/ ~seen[a],
                !.windows = IF a \in Hooks /\ took[a] = None
                            THEN ClosedWindow(@, CallOf[a]) ELSE @])
    /\ Goto(a, "done")
    /\ UNCHANGED <<seen, took, wire, spool, hub, history, faults>>

\* An interrupted call is not a failure: its window stays open.
PostToolUseFailure(a) ==
    /\ pc[a] = "failed"
    /\ \E interrupted \in BOOLEAN :
          Goto(a, IF interrupted \/ file = None THEN "done" ELSE "close")
    /\ UNCHANGED <<state, seen, took, wire, spool, hub, history, faults>>

\* The failure hook takes one position and closes the window, and sends the
\* position without the bracket.
CloseWindow(a) ==
    /\ Inside(a, "close")
    /\ Allocate(a, 1, None, ClosedWindow(copy.windows, CallOf[a]))
    /\ Goto(a, "fingerprint")
    /\ UNCHANGED <<seen, wire, spool, hub, preceded, born, unfiled, faults>>

\* A text with no signal, or with a secret in it, leaves no record.
Fingerprint(a) ==
    /\ pc[a] = "fingerprint"
    /\ \/ spool' = Append(spool, [what |-> "failed", by |-> a,
                                  source |-> "tool_edit", seq |-> took[a]])
       \/ UNCHANGED spool
    /\ Goto(a, "done")
    /\ UNCHANGED <<state, seen, took, wire, hub, history, faults>>

----------------------------------------------------------------------------
(* Declarations, Stop lanes, SessionStart re-fires and the end.            *)

Role == {"expected", "non_goal"}

\* set_intent finds its session by the state file, or gives up.
Declare(d) ==
    /\ d \in Declarations
    /\ pc[d] = "idle"
    /\ file # None
    /\ Goto(d, "allocate")
    /\ UNCHANGED <<state, seen, took, wire, spool, hub, history, faults>>

AllocateOne(a) ==
    /\ a \in Declarations \cup Ends
    /\ Inside(a, "allocate")
    /\ Allocate(a, 1, None, copy.windows)
    /\ Goto(a, "emit")
    /\ UNCHANGED <<seen, wire, spool, hub, preceded, born, unfiled, faults>>

Event(what, a, kind, position) ==
    [session |-> "session", what |-> what, by |-> a, kind |-> kind,
     epoch |-> position.epoch, n |-> position.n, after |-> position.after,
     reason |-> position.reason]

\* The hub writes one event, or finds the replay of it.
Record(event) == rows' = rows \cup {Stored(rows, event)}

\* A session whose end was reported takes no more writes in its own name.
Ended == \E r \in rows : r.what = "ended"

\* The version of the intent that the ledger appends.
Entry(d, names, position) ==
    [session |-> "session", by |-> d, names |-> names,
     provenance |-> "declared", kind |-> IntentSeqKind("declared"),
     version |-> Cardinality(chain) + 1,
     epoch |-> position.epoch, n |-> position.n, after |-> position.after,
     reason |-> position.reason]

\* set_intent posts a work context with the intent; the hub appends the version
\* and the event in one transaction, or the call is lost or refused and the tool
\* answers with a failure.
PostIntent(d) ==
    /\ d \in Declarations
    /\ pc[d] = "emit"
    /\ \/ /\ open /\ ~Ended
          /\ \E names \in (SUBSET Role) \ {{}} :
                chain' = chain \cup {Entry(d, names, Position(took[d], "allocation_failed"))}
          /\ Record(Event("intent", d, IntentSeqKind("declared"),
                          Position(took[d], "allocation_failed")))
          /\ context' = TRUE
          /\ UNCHANGED faults
       \/ (~open \/ Ended) /\ UNCHANGED <<rows, chain, context, faults>>
       \/ open /\ Fault /\ UNCHANGED <<rows, chain, context>>
    /\ Goto(d, "done")
    /\ UNCHANGED <<state, seen, took, wire, spool, open, history>>

\* Stop reads the file, then reserves its block.
Stop(a) ==
    /\ a \in Stops
    /\ pc[a] = "idle"
    /\ file # None
    /\ Goto(a, "allocate")
    /\ seen' = [seen EXCEPT ![a] = file.seen]
    /\ UNCHANGED <<state, took, wire, spool, hub, history, faults>>

AllocateLane(a) ==
    /\ a \in Stops
    /\ Inside(a, "allocate")
    /\ Allocate(a, Block, None, copy.windows)
    /\ Goto(a, "emit")
    /\ UNCHANGED <<seen, wire, spool, hub, preceded, born, unfiled, faults>>

\* A re-fire names the epoch of the file it reads now, before it publishes.
SessionStart(a) ==
    /\ a \in Starts
    /\ pc[a] = "idle"
    /\ wire' = [wire EXCEPT ![a] = CarriedSeqEpoch(a)]
    /\ unfiled' = IF file = None THEN unfiled \cup {a} ELSE unfiled
    /\ Goto(a, "register")
    /\ UNCHANGED <<state, seen, took, spool, hub, preceded, issued, born, faults>>

\* The hub creates the session's row once; a later register changes nothing of
\* the order.  The call may be lost.  An ended session is refused: a recovery
\* gives up, and a re-fire goes on under another session's name.
Register(a) ==
    /\ pc[a] = "register"
    /\ \/ /\ ~Ended
          /\ open' = TRUE
          /\ IF open THEN UNCHANGED rows
             ELSE Record(Event("started", a, "emitted",
                               Position(Stamp(wire[a], 0, None), "pre_seq_connector")))
          /\ Goto(a, IF a \in Starts THEN "publish" ELSE "claim")
          /\ UNCHANGED faults
       \/ /\ Ended
          /\ Goto(a, "done")
          /\ UNCHANGED <<open, rows, faults>>
       \/ /\ Fault
          /\ Goto(a, IF a \in Starts THEN "publish" ELSE "claim")
          /\ UNCHANGED <<open, rows>>
    /\ UNCHANGED <<state, seen, took, wire, spool, chain, context, history>>

Publish(a) ==
    /\ Inside(a, "publish")
    /\ Write(Carried(a, copy))
    /\ born' = IF copy = None THEN born \cup {a} ELSE born
    /\ Goto(a, "announce")
    /\ UNCHANGED <<seen, took, wire, spool, hub, preceded, issued, unfiled, faults>>

\* The lock stayed busy: the file is created anyway, with nothing carried.
PublishUnlocked(a) ==
    /\ pc[a] = "publish"
    /\ lock \notin {None, a}
    /\ Fault
    /\ file' = Fresh(a)
    /\ born' = born \cup {a}
    /\ Goto(a, "announce")
    /\ UNCHANGED <<lock, copy, seen, took, wire, spool, hub, preceded, issued, unfiled>>

\* The work context is spooled once the state file stands.
Announce(a) ==
    /\ pc[a] = "announce"
    /\ \/ spool' = Append(spool, ContextRecord(a)) /\ UNCHANGED faults
       \/ Fault /\ UNCHANGED spool
    /\ Goto(a, IF a \in Starts THEN "done" ELSE "allocate")
    /\ UNCHANGED <<state, seen, took, wire, hub, history>>

SessionEnd(a) ==
    /\ a \in Ends
    /\ pc[a] = "idle"
    /\ file # None
    /\ Goto(a, "allocate")
    /\ UNCHANGED <<state, seen, took, wire, spool, hub, history, faults>>

\* The end deletes the state file, without the lock.
DeleteState(a) ==
    /\ a \in Ends
    /\ pc[a] = "emit"
    /\ file' = None
    /\ Goto(a, "report")
    /\ UNCHANGED <<lock, copy, seen, took, wire, spool, hub, history, faults>>

ReportEnd(a) ==
    /\ pc[a] = "report"
    /\ \/ /\ IF open /\ ~Ended
             THEN Record(Event("ended", a, "emitted",
                               Position(took[a], "allocation_failed")))
             ELSE UNCHANGED rows
          /\ UNCHANGED faults
       \/ Fault /\ UNCHANGED rows
    /\ Goto(a, "done")
    /\ UNCHANGED <<state, seen, took, wire, spool, chain, open, context, history>>

----------------------------------------------------------------------------

\* What the hub does with a spooled record.  A target is filed under its work
\* context's session, with its own position, whoever delivers it; without the
\* context it is refused, as is everything while the session is unknown.
Ingest(record) ==
    IF record.what = "context"
    THEN context' = (context \/ open) /\ UNCHANGED rows
    ELSE /\ IF context
            THEN Record(Event(record.what, record.by,
                              SeqKindFor(record.source, record.seq),
                              Position(record.seq, "allocation_failed")))
            ELSE UNCHANGED rows
         /\ UNCHANGED context

\* The next spooled record is delivered; the cursor moves past it whether it was
\* accepted or refused, and an ended session's own name is refused.  When the
\* answer is lost the record stays, and is delivered again.
Deliver ==
    /\ spool # <<>>
    /\ \/ Ingest(Head(spool))
       \/ Ended /\ UNCHANGED <<rows, context>>
    /\ \/ spool' = Tail(spool) /\ UNCHANGED faults
       \/ Fault /\ UNCHANGED spool
    /\ UNCHANGED <<state, pc, seen, took, wire, chain, open, history>>

----------------------------------------------------------------------------

HookStep(a) ==
    \/ OpenToolWindow(a) \/ PostToolUse(a) \/ Claim(a) \/ AllocateToolSeq(a)
    \/ PostToolUseFailure(a) \/ CloseWindow(a) \/ Fingerprint(a)

Step(a) ==
    \/ Enter(a) \/ Refused(a) \/ Kill(a)
    \/ HookStep(a) \/ Emit(a) \/ LaneFindsNothing(a) \/ Book(a)
    \/ Declare(a) \/ AllocateOne(a) \/ PostIntent(a)
    \/ Stop(a) \/ AllocateLane(a)
    \/ SessionStart(a) \/ Register(a) \/ Publish(a) \/ PublishUnlocked(a)
    \/ Announce(a)
    \/ SessionEnd(a) \/ DeleteState(a) \/ ReportEnd(a)

Next ==
    \/ \E a \in Process : Step(a)
    \/ \E c \in Calls : Edit(c) \/ ToolFails(c)
    \/ Deliver

Spec == Init /\ [][Next]_vars

----------------------------------------------------------------------------
(* Correctness.                                                            *)

Sightings == {r \in rows : r.what = "target"}

Order == CausalOrderOf("session", rows)

\* What the hub may answer when it is asked about the path.
Edits == EditEvents(Sightings)

Timing(edit) == ExplanationTiming(Order, chain, edit)

\* The declarations under a role that were positioned before the call that
\* this sighting reports edited the path.
Foreseen(edit, role) ==
    {e \in chain : /\ role \in e.names
                   /\ edit.by \in Hooks
                   /\ e.by \in preceded[CallOf[edit.by]]}

Window == [key : Calls, floor : Nat]

StateFile == [epoch : Epoch, n : Nat, windows : SUBSET Window, seen : BOOLEAN]

StampSet == [epoch : Epoch, n : Nat, after : Nat \cup {None}]

Phase == Sections \cup {"idle", "ready", "post", "register", "announce", "emit",
                        "failed", "fingerprint", "report", "done"}

TypeOK ==
    /\ file \in StateFile \cup {None}
    /\ lock \in Process \cup {None}
    /\ copy \in StateFile \cup {None}
    /\ pc \in [Process -> Phase]
    /\ seen \in [Process -> BOOLEAN]
    /\ took \in [Process -> StampSet \cup {None}]
    /\ wire \in [Process -> Epoch]
    /\ context => open
    /\ faults \in 0..MaxFaults

\* No position of an epoch is handed out twice, whatever lock was refused,
\* whichever process died and whoever rewrote the state file meanwhile.
NoPositionTwice ==
    \A p, q \in issued : p.epoch = q.epoch /\ p.n = q.n => p = q

\* The counter as it is promised: SeqCounter, with the steps of this module that
\* take positions and no others.  A step takes one position or a capture's block.
Counter == INSTANCE SeqCounter WITH Sizes <- {1, Block}

\* Positions under one epoch are handed out in ascending blocks whatever becomes
\* of the state file: the order of two positions is the order they were taken in.
CountsUp == Counter!Spec

\* The hub says "declared before" only of a change that a declaration naming it
\* as expected really preceded, and that none preceded naming it a non-goal.
PredeclaredIsTrue ==
    \A edit \in Edits :
        Timing(edit).timing = "predeclared" =>
            Foreseen(edit, "expected") # {} /\ Foreseen(edit, "non_goal") = {}

\* The hub says "declared after" only of a change that no recorded declaration
\* preceded, and "non-goal edited" only of one that a non-goal preceded.
PostHocIsTrue ==
    \A edit \in Edits :
        /\ Timing(edit).reason = "declared_after" =>
             Foreseen(edit, "expected") \cup Foreseen(edit, "non_goal") = {}
        /\ Timing(edit).reason = "declared_non_goal_edited" =>
             Foreseen(edit, "non_goal") # {}

\* The register that made the hub's row named a mint for which no state file was
\* ever created: of parallel recoveries and re-fires that all found no file one
\* registers first and another publishes, or the one that registered dies first.
NamedInVain == \E r \in rows : r.what = "started" /\ r.epoch \in unfiled \ born

\* The hub breaks a session's order for two reasons only: a state file was
\* created under more than one epoch, or the hub's row has an epoch that was named
\* in the absence of a file and never became a file's.  Where a process found the
\* file and none was created after it, no re-fire, lost register, kill or refused
\* lock splits the order (session-state.ts:730, "the case where nothing restarted").
OrderStaysUsable ==
    Order.state = "broken" => Cardinality(born) > 1 \/ NamedInVain

=============================================================================
