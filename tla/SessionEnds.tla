----------------------------- MODULE SessionEnds -----------------------------
(* How a session registers, ends and comes back: flows/register-session.ts, *)
(* flows/end-session.ts and the markers of spool/reap.ts and unclosed.ts,   *)
(* as the hooks of several host sessions of one repository run them beside  *)
(* each other.  A session that ends with records on disk leaves a marker,   *)
(* and a later hook tells the hub.  What a batch, a cursor and a data file  *)
(* do under the flush lock is Spool's affair: here a batch leaves at once.  *)
EXTENDS Naturals

CONSTANTS
  Host,       \* the host's sessions, one state file, spool and marker each
  Hook,       \* hook processes, each of which runs again and again
  KindOf,     \* [Hook -> "start", "work" or "end"]
  HostOf,     \* [Hook -> Host]
  Last,       \* the last suffix of RETRY_SUFFIXES: 2 in the code
  Casts,      \* bound: which hooks run, how often a host session may start from
              \* nothing or end, how many calls go unanswered and hooks are killed,
              \* whether sessions fall silent, and whose connector it is (climbs)
  None

ASSUME EndsAssumption ==
  /\ KindOf \in [Hook -> {"start", "work", "end"}] /\ HostOf \in [Hook -> Host]
  /\ Last \in Nat
  /\ Casts \subseteq [hooks : SUBSET Hook, rounds : Nat, faults : Nat, silence : BOOLEAN,
               climbs : BOOLEAN]

\* A hub session: the host's session under its n-th suffix.
Id == Host \X (0..Last)
Base(s) == <<s, 0>>

ASSUME NoneAssumption == None \notin Id /\ None \notin Host /\ None \notin Hook

VARIABLES
  cast,      \* which of Casts this is
  round,     \* [Host -> how often it started or ended]: it runs while that is odd
  state,     \* [Host -> the hub session its state file names, or None]
  spool,     \* [Host -> hooks whose records wait in its spool]
  marker,    \* [Host -> the hub session its .pending-end names, or None]
  old,       \* host sessions whose marker is past MAX_SPOOL_AGE_DAYS
  unclosed,  \* the ends unclosed.ts has counted
  silent,    \* host sessions that wrote nothing for MAX_SPOOL_AGE_DAYS
  lock,      \* the hook inside the flush lock, or None
  hub,       \* [Id -> "none", "open" (reaped or not) or "ended"]
  pc,        \* [Hook -> its next step]
  name,      \* [Hook -> the hub session it is part of, or None]
  sure,      \* hooks to whom the hub, or a state file, told that session
  left,      \* hooks that found records of their session left
  todo,      \* [Hook -> host sessions whose markers it still walks]
  at, read,  \* [Hook -> the marker it is at, and what it read there]
  faults,    \* how many there were
  owed,      \* history: ends left to a marker
  astray,    \* history: hub sessions ended while they came back, or published by a
             \* hook whom the hub had not answered that it has them open
  back,      \* history: hooks since whose look a session came back,
  marked,    \* was marked anew,
  added      \* [Hook -> and the hooks that appended to it]

files == <<state, spool, marker, old, unclosed, silent>>
who == <<name, sure>>
hand == <<todo, at, read>>
own == <<who, left, hand>>
told == <<owed, astray>>
seen == <<back, marked, added>>
bounds == <<cast, round, faults>>
vars == <<bounds, files, lock, hub, pc, own, told, seen>>

Fault == faults < cast.faults /\ faults' = faults + 1
At(h, label) == pc[h] = label
Goto(h, label) == pc' = [pc EXCEPT ![h] = label]
Me(h) == HostOf[h]
Quiet(s) == \A h \in Hook : HostOf[h] = s => At(h, "idle")

Unsee(h) == back' = back \ {h} /\ marked' = marked \ {h} /\ added' = [added EXCEPT ![h] = {}]
Forget(h) ==
  /\ name' = [name EXCEPT ![h] = None] /\ sure' = sure \ {h} /\ left' = left \ {h}
  /\ todo' = [todo EXCEPT ![h] = {}]
  /\ at' = [at EXCEPT ![h] = None] /\ read' = [read EXCEPT ![h] = None]
  /\ Unsee(h)
LetGo(h) ==
  /\ at' = [at EXCEPT ![h] = None] /\ read' = [read EXCEPT ![h] = None]
  /\ UNCHANGED <<who, left, todo>>
  /\ Unsee(h)

\* A hook goes on; at the next marker and at its end it forgets the last.
Then(h, label) ==
  /\ Goto(h, label)
  /\ \/ label \in {"idle", "reap"} /\ Forget(h)
     \/ label = "walk" /\ LetGo(h)
     \/ label \notin {"idle", "reap", "walk"} /\ UNCHANGED <<own, seen>>

\* Hooks between a look at session s and what they do about it, but for h.
Telling(h, s) ==
  {b \in Hook \ {h} :
    \/ pc[b] \in {"mark", "delete", "tell", "clear"} /\ Me(b) = s
    \/ pc[b] \in {"read", "retire", "drained", "call", "remove"} /\ at[b] = s}

Init ==
  /\ cast \in Casts
  /\ round = [s \in Host |-> 0] /\ silent = {} /\ lock = None /\ unclosed = {} /\ faults = 0
  /\ state = [s \in Host |-> None] /\ marker = [s \in Host |-> None] /\ old = {}
  /\ spool = [s \in Host |-> {}]
  /\ hub = [i \in Id |-> "none"]
  /\ pc = [h \in Hook |-> "idle"] /\ name = [h \in Hook |-> None] /\ sure = {} /\ left = {}
  /\ todo = [h \in Hook |-> {}] /\ at = [h \in Hook |-> None] /\ read = [h \in Hook |-> None]
  /\ owed = {} /\ astray = {}
  /\ back = {} /\ marked = {} /\ added = [h \in Hook |-> {}]

-----------------------------------------------------------------------------
(* The host: a session starts, or starts again while it runs; its tools are *)
(* used; it ends.                                                           *)

Up(s) == round[s] % 2 = 1
Turn(s) == round[s] < cast.rounds /\ round' = [round EXCEPT ![s] = @ + 1]

\* A start begins with the base id; the other hooks are part of the session
\* the state file names, else of the base id.
Named(s) == IF state[s] = None THEN Base(s) ELSE state[s]
PartOf(h) ==
  /\ name' = [name EXCEPT ![h] = Named(Me(h))]
  /\ sure' = IF state[Me(h)] = None THEN sure ELSE sure \cup {h}

Arrive(h) ==
  /\ At(h, "idle") /\ h \in cast.hooks
  /\ \/ /\ KindOf[h] = "start"
        /\ IF Up(Me(h)) THEN UNCHANGED round ELSE Turn(Me(h))
        /\ name' = [name EXCEPT ![h] = Base(Me(h))]
        /\ Goto(h, "register") /\ UNCHANGED sure
     \/ /\ KindOf[h] = "work" /\ Up(Me(h)) /\ UNCHANGED round
        /\ PartOf(h)
        /\ Goto(h, IF state[Me(h)] = None THEN "register" ELSE "append")
     \/ /\ KindOf[h] = "end" /\ Up(Me(h)) /\ Turn(Me(h))
        /\ PartOf(h)
        /\ Goto(h, "flush")
  /\ UNCHANGED <<cast, files, lock, hub, left, hand, faults, told, seen>>

-----------------------------------------------------------------------------
(* Registration: the ladder of suffixes for a start; for a hook that found  *)
(* no state file too when Cursor's connector rebuilds it (cast.climbs), and *)
(* the base id alone when Claude Code's does.                               *)

Registered(h) == IF KindOf[h] = "start" THEN "publish" ELSE "claim"

\* What the hub does with the request; a session that starts owes no end yet.
Opened(i) ==
  /\ hub[i] # "ended"
  /\ hub' = [hub EXCEPT ![i] = "open"]
  /\ owed' = owed \ {i}

\* The hub creates the session or knows it.
Accepted(h) ==
  /\ At(h, "register")
  /\ Opened(name[h])
  /\ sure' = sure \cup {h}
  /\ Goto(h, Registered(h))
  /\ UNCHANGED <<bounds, files, lock, name, left, hand, astray, seen>>

\* Seeded fault: a conflict is taken for an answer.
ConflictAccepted(h) ==
  /\ At(h, "register") /\ hub[name[h]] = "ended"
  /\ sure' = sure \cup {h}
  /\ Goto(h, Registered(h))
  /\ UNCHANGED <<bounds, files, lock, hub, name, left, hand, told, seen>>

Climbs(h) == KindOf[h] = "start" \/ cast.climbs

\* 409, the session was ended: who climbs tries the next suffix and falls back
\* to the base id after the last; Claude Code's working hook gives up.
Conflict(h) ==
  /\ At(h, "register") /\ hub[name[h]] = "ended"
  /\ \/ ~Climbs(h) /\ Then(h, "idle")
     \/ /\ Climbs(h) /\ name[h][2] < Last
        /\ name' = [name EXCEPT ![h] = <<Me(h), @[2] + 1>>]
        /\ UNCHANGED <<pc, sure, left, hand, seen>>
     \/ /\ Climbs(h) /\ name[h][2] = Last
        /\ name' = [name EXCEPT ![h] = Base(Me(h))]
        /\ Goto(h, Registered(h))
        /\ UNCHANGED <<sure, left, hand, seen>>
  /\ UNCHANGED <<bounds, files, lock, hub, told>>

\* No answer, whether or not the hub heard: the base id, whatever was tried.
Unanswered(h) ==
  /\ At(h, "register") /\ Fault
  /\ UNCHANGED <<hub, owed>> \/ Opened(name[h])
  /\ name' = [name EXCEPT ![h] = Base(Me(h))]
  /\ Goto(h, Registered(h))
  /\ UNCHANGED <<cast, round, files, lock, sure, left, hand, astray, seen>>

\* The state file names the session from here on, before its first record.
ComesBack(h) ==
  /\ state' = [state EXCEPT ![Me(h)] = name[h]]
  /\ silent' = silent \ {Me(h)}
  /\ astray' = IF h \notin sure THEN astray \cup {name[h]}
               ELSE IF hub[name[h]] = "open" THEN astray \ {name[h]} ELSE astray
  /\ back' = back \cup Telling(h, Me(h))

Publish(h) ==
  /\ At(h, "publish")
  /\ ComesBack(h)
  /\ Goto(h, "append")
  /\ UNCHANGED <<bounds, spool, marker, old, unclosed, lock, hub, own, owed, marked, added>>

\* A working hook takes the file only when there is none, else adopts it, whatever
\* suffix it climbed to.
Claim(h) ==
  /\ At(h, "claim")
  /\ \/ state[Me(h)] = None /\ ComesBack(h) /\ UNCHANGED name
     \/ /\ state[Me(h)] # None
        /\ name' = [name EXCEPT ![h] = state[Me(h)]]
        /\ UNCHANGED <<state, silent, astray, back>>
  /\ Goto(h, "append")
  /\ UNCHANGED <<bounds, spool, marker, old, unclosed, lock, hub, sure, left, hand, owed, marked,
                 added>>

\* The state lock stayed busy: the working hook records nothing.
ClaimRefused(h) ==
  /\ At(h, "claim")
  /\ Then(h, "idle")
  /\ UNCHANGED <<bounds, files, lock, hub, told>>

\* The work context of a start, the targets of a tool.
Append(h) ==
  /\ At(h, "append")
  /\ spool' = [spool EXCEPT ![Me(h)] = @ \cup {h}]
  /\ silent' = silent \ {Me(h)}
  /\ added' = [b \in Hook |-> IF b \in Telling(h, Me(h)) THEN added[b] \cup {h} ELSE added[b]]
  /\ Goto(h, "flush")
  /\ UNCHANGED <<bounds, state, marker, old, unclosed, lock, hub, own, told, back, marked>>

-----------------------------------------------------------------------------
(* flushSpool: every spool of the repository, in the hook's own name        *)

AfterFlush(h) == CASE KindOf[h] = "start" -> "reap" [] KindOf[h] = "work" -> "idle"
                   [] KindOf[h] = "end" -> "count"

FlushEnter(h) ==
  /\ At(h, "flush")
  /\ \/ lock = None /\ lock' = h /\ Then(h, "post")
     \/ UNCHANGED lock /\ Then(h, AfterFlush(h))      \* no room, or the lock is busy
  /\ UNCHANGED <<bounds, files, hub, told>>

\* A batch the hub answers is off the spool, whether it took the records or
\* refused them because the session named is not open; refused ones are counted.
Post(h) ==
  /\ At(h, "post")
  /\ \E s \in Host : spool[s] # {} /\ spool' = [spool EXCEPT ![s] = {}]
  /\ UNCHANGED <<bounds, state, marker, old, unclosed, silent, lock, hub, pc, own, told, seen>>

\* Empty, out of room, or the hub did not answer.
FlushLeave(h) ==
  /\ At(h, "post")
  /\ lock' = None
  /\ Then(h, AfterFlush(h))
  /\ UNCHANGED <<bounds, files, hub, told>>

-----------------------------------------------------------------------------
(* endSessionFlow                                                           *)

Count(h) ==
  /\ At(h, "count")
  /\ left' = IF spool[Me(h)] = {} THEN left ELSE left \cup {h}
  /\ Goto(h, "mark")
  /\ UNCHANGED <<bounds, files, lock, hub, who, hand, told, seen>>

\* A marker that waited is written over.  The end it stood for is still owed,
\* unless this one is of a session the hub does not have open.
Mark(h) ==
  /\ At(h, "mark")
  /\ marker' = [marker EXCEPT ![Me(h)] = name[h]]
  /\ old' = old \ {Me(h)}
  /\ owed' = {name[h]} \cup (IF hub[name[h]] = "open" THEN owed ELSE owed \ {marker[Me(h)]})
  /\ marked' = marked \cup Telling(h, Me(h))
  /\ Goto(h, "delete")
  /\ UNCHANGED <<bounds, state, spool, unclosed, silent, lock, hub, own, astray, back, added>>

\* Seeded fault: the end is told whatever was left on disk.
TellAnyway(h) == "tell"

TellOrDefer(h) == IF h \in left THEN "idle" ELSE "tell"

DeleteState(h) ==
  /\ At(h, "delete")
  /\ state' = [state EXCEPT ![Me(h)] = None]
  /\ IF TellOrDefer(h) = "idle" THEN Then(h, "idle")
     ELSE Goto(h, "tell") /\ back' = back \ {h} /\ UNCHANGED <<own, marked, added>>
  /\ UNCHANGED <<bounds, spool, marker, old, unclosed, silent, lock, hub, told>>

\* The hub hears that i is over.  A session that came back since the teller
\* looked, or that a hook is about to publish, is left with an ended id.
Overtaken(h, i) ==
  \/ state[i[1]] = i /\ h \in back
  \/ \E a \in Hook \ {h} : pc[a] \in {"publish", "claim"} /\ name[a] = i /\ a \in sure

Ends(h, i) ==
  /\ hub' = IF hub[i] = "none" THEN hub ELSE [hub EXCEPT ![i] = "ended"]
  /\ astray' = IF hub[i] = "open" /\ Overtaken(h, i) THEN astray \cup {i} ELSE astray

\* POST /end for i: answered, or not answered whether or not the hub heard.
EndCall(h, i, answered, unanswered) ==
  \/ Ends(h, i) /\ Then(h, answered) /\ UNCHANGED faults
  \/ Fault /\ Then(h, unanswered) /\ (Ends(h, i) \/ UNCHANGED <<hub, astray>>)

Tell(h) ==
  /\ At(h, "tell")
  /\ EndCall(h, name[h], IF hub[name[h]] = "none" THEN "idle" ELSE "clear", "idle")
  /\ UNCHANGED <<cast, round, files, lock, owed>>

\* The marker at s goes, whichever it is by now.
Unmark(h, s) ==
  /\ marker' = [marker EXCEPT ![s] = None]
  /\ old' = old \ {s}
  /\ owed' = IF h \in marked THEN owed \ {marker[s]} ELSE owed

Clear(h) ==
  /\ At(h, "clear")
  /\ Unmark(h, Me(h))
  /\ Then(h, "idle")
  /\ UNCHANGED <<bounds, state, spool, unclosed, silent, lock, hub, astray>>

-----------------------------------------------------------------------------
(* reapSpool: data nobody will send any more expires, then the markers      *)

Expired(s) == state[s] = None /\ s \in silent

\* Seeded fault: only the markers of running sessions are listed.
PendingOfLive == {s \in Host : marker[s] # None /\ state[s] # None}

PendingEnds == {s \in Host : marker[s] # None}

ReapEnter(h) ==
  /\ At(h, "reap")
  /\ \/ /\ lock = None /\ lock' = h
        /\ spool' = [s \in Host |-> IF Expired(s) THEN {} ELSE spool[s]]
        /\ todo' = [todo EXCEPT ![h] = PendingEnds]
        /\ Goto(h, "walk")
     \/ /\ lock # None
        /\ UNCHANGED <<lock, spool, todo>>
        /\ Goto(h, "corpses")
  /\ UNCHANGED <<bounds, state, marker, old, unclosed, silent, hub, who, left, at, read, told, seen>>

IsOver(s) == state[s] = None

Walk(h) ==
  /\ At(h, "walk")
  /\ \E s \in todo[h] :
       /\ todo' = [todo EXCEPT ![h] = @ \ {s}]
       /\ IF IsOver(s) THEN at' = [at EXCEPT ![h] = s] /\ Goto(h, "read")
                       ELSE UNCHANGED <<at, pc>>
  /\ UNCHANGED <<bounds, files, lock, hub, who, left, read, told, seen>>

ReadMarker(h) ==
  /\ At(h, "read")
  /\ read' = [read EXCEPT ![h] = marker[at[h]]]
  /\ marked' = marked \ {h}
  /\ Goto(h, IF marker[at[h]] = None THEN "remove"
             ELSE IF at[h] \in old THEN "retire" ELSE "drained")
  /\ UNCHANGED <<bounds, files, lock, hub, who, left, todo, at, told, back, added>>

\* Seeded fault: an end too old is dropped without being counted.
RetireSilently(h) ==
  /\ At(h, "retire")
  /\ Goto(h, "remove")
  /\ UNCHANGED <<bounds, files, lock, hub, own, told, seen>>

\* recordUnclosedSession, before the marker goes
Retire(h) ==
  /\ At(h, "retire")
  /\ unclosed' = unclosed \cup {read[h]}
  /\ Goto(h, "remove")
  /\ UNCHANGED <<bounds, state, spool, marker, old, silent, lock, hub, own, told, seen>>

Drained(h) ==
  /\ At(h, "drained")
  /\ IF spool[at[h]] # {} THEN Then(h, "walk")
     ELSE Goto(h, "call") /\ added' = [added EXCEPT ![h] = {}] /\ UNCHANGED <<own, back, marked>>
  /\ UNCHANGED <<bounds, files, lock, hub, told>>

\* deferredEnder: no room left, or the call.  A session the hub never heard
\* of is as good as ended.
Call(h) ==
  /\ At(h, "call")
  /\ \/ Then(h, "walk") /\ UNCHANGED <<hub, astray, faults>>
     \/ EndCall(h, read[h], "remove", "walk")
  /\ UNCHANGED <<cast, round, files, lock, owed>>

Remove(h) ==
  /\ At(h, "remove")
  /\ Unmark(h, at[h])
  /\ Then(h, "walk")
  /\ UNCHANGED <<bounds, state, spool, unclosed, silent, lock, hub, astray>>

ReapLeave(h) ==
  /\ At(h, "walk") /\ todo[h] = {}
  /\ lock' = None
  /\ Goto(h, "corpses")
  /\ UNCHANGED <<bounds, files, hub, own, told, seen>>

\* reapStaleSessionStates: every silent state file but the hook's own
Corpses(h) ==
  /\ At(h, "corpses")
  /\ state' = [s \in Host |-> IF s \in silent /\ s # Me(h) THEN None ELSE state[s]]
  /\ Then(h, "idle")
  /\ UNCHANGED <<bounds, spool, marker, old, unclosed, silent, lock, hub, told>>

-----------------------------------------------------------------------------
(* Time and failure                                                         *)

\* A host session that runs no hook for days.
Silence(s) ==
  /\ cast.silence /\ Quiet(s) /\ s \notin silent /\ (state[s] # None \/ spool[s] # {})
  /\ silent' = silent \cup {s}
  /\ UNCHANGED <<bounds, state, spool, marker, old, unclosed, lock, hub, pc, own, told, seen>>

\* A marker passes MAX_SPOOL_AGE_DAYS.
Age(s) ==
  /\ Quiet(s) /\ marker[s] # None /\ s \notin old
  /\ old' = old \cup {s}
  /\ UNCHANGED <<bounds, state, spool, marker, unclosed, silent, lock, hub, pc, own, told, seen>>

\* A hook is killed, and the lock of a dead holder is free (SpoolLock).
Kill(h) ==
  /\ ~At(h, "idle") /\ Fault
  /\ Then(h, "idle")
  /\ lock' = IF lock = h THEN None ELSE lock
  /\ UNCHANGED <<cast, round, files, hub, told>>

StartStep(h) == Accepted(h) \/ Conflict(h) \/ Unanswered(h) \/ Publish(h) \/ Claim(h)
                  \/ ClaimRefused(h) \/ Append(h)
FlushStep(h) == FlushEnter(h) \/ Post(h) \/ FlushLeave(h)
EndStep(h) == Count(h) \/ Mark(h) \/ DeleteState(h) \/ Tell(h) \/ Clear(h)
ReapStep(h) == ReapEnter(h) \/ Walk(h) \/ ReadMarker(h) \/ Retire(h) \/ Drained(h) \/ Call(h)
                 \/ Remove(h) \/ ReapLeave(h) \/ Corpses(h)
Step(h) == StartStep(h) \/ FlushStep(h) \/ EndStep(h) \/ ReapStep(h)

Next == \/ \E h \in Hook : Arrive(h) \/ Step(h) \/ Kill(h)
        \/ \E s \in Host : Silence(s) \/ Age(s)

Spec == Init /\ [][Next]_vars

(* A hook that runs is scheduled, its flush has a deadline and its reaper   *)
(* gets the lock in the end; sessions keep being started; time passes.      *)
Fairness ==
  /\ \A h \in Hook : /\ WF_vars(Step(h)) /\ WF_vars(FlushLeave(h))
                     /\ SF_vars(ReapEnter(h) /\ lock = None)
  /\ \A h \in Hook : KindOf[h] = "start" => WF_vars(Arrive(h))
  /\ \A s \in Host : WF_vars(Age(s))

FairSpec == Spec /\ Fairness

-----------------------------------------------------------------------------
IdsOf(s) == {s} \X (0..Last)

\* Steps in the name of a session, and steps with one marker in hand.
InItsName == {"register", "publish", "claim", "append", "flush", "post", "count", "mark",
              "delete", "tell", "clear"}
AtMarker == {"read", "retire", "drained", "call", "remove"}
Labels == InItsName \cup AtMarker \cup {"idle", "reap", "walk", "corpses"}

(* Every variable keeps its domain, a hook is in the lock exactly while it  *)
(* posts or walks, and what a hook names is a session of its own host.      *)
TypeOK ==
  /\ cast \in Casts /\ round \in [Host -> 0..cast.rounds] /\ faults \in 0..cast.faults
  /\ old \subseteq Host /\ silent \subseteq Host
  /\ unclosed \subseteq Id /\ owed \subseteq Id /\ astray \subseteq Id
  /\ state \in [Host -> Id \cup {None}] /\ marker \in [Host -> Id \cup {None}]
  /\ \A s \in Host : state[s] \in IdsOf(s) \cup {None} /\ marker[s] \in IdsOf(s) \cup {None}
  /\ spool \in [Host -> SUBSET Hook]
  /\ hub \in [Id -> {"none", "open", "ended"}]
  /\ pc \in [Hook -> Labels]
  /\ name \in [Hook -> Id \cup {None}] /\ sure \subseteq Hook /\ left \subseteq Hook
  /\ todo \in [Hook -> SUBSET Host]
  /\ at \in [Hook -> Host \cup {None}] /\ read \in [Hook -> Id \cup {None}]
  /\ back \subseteq Hook /\ marked \subseteq Hook /\ added \in [Hook -> SUBSET Hook]
  /\ \A h \in Hook :
       /\ pc[h] \in InItsName => name[h] \in IdsOf(Me(h))
       /\ pc[h] \in AtMarker => at[h] \in Host
       /\ pc[h] \in {"retire", "drained", "call"} => read[h] \in IdsOf(at[h])
       /\ lock = h <=> pc[h] \in AtMarker \cup {"post", "walk"}

(* end-session.ts and reap.ts: the hub is told that a session is done only  *)
(* when none of its records is still on disk, but for those a straggling    *)
(* hook appended after the teller had read the spool.                       *)
DoneIsTrueWhenTold ==
  [][\A h \in Hook, i \in Id :
       (pc[h] \in {"tell", "call"} /\ hub[i] = "open" /\ hub'[i] = "ended" /\ pc'[h] # pc[h])
         => spool[i[1]] \subseteq added[h]]_vars

(* A session a state file names is open on the hub, whatever ended before   *)
(* it, unless (astray) its registration was never answered; or every id of  *)
(* the ladder was answered as ended, and the base id, ended with them, is   *)
(* published all the same (register-session.ts:164,206); or it came back    *)
(* between a teller's look at the state file and the teller's call.         *)
LiveIsOpen ==
  \A s \in Host : state[s] # None => hub[state[s]] = "open" \/ state[s] \in astray

(* An end left to a marker is never forgotten: the marker waits, the hub    *)
(* has heard or never knew the session, or the end is counted as unclosed;  *)
(* unless the marker was written anew while a hook was spending it, or      *)
(* written over by an end that did not know its session (owed).             *)
NoEndForgotten ==
  \A i \in owed : \/ marker[i[1]] = i
                  \/ hub[i] # "open" \/ i \in unclosed

(* No marker stays for good once another session of the repository starts   *)
(* now and then: it is spent, counted as unclosed, or its session runs.     *)
MarkersSettle ==
  \A e \in {h \in Hook : KindOf[h] = "end"} :
    (\E h \in cast.hooks : KindOf[h] = "start" /\ Me(h) # Me(e))
      => []<>(marker[Me(e)] = None \/ state[Me(e)] # None)

=============================================================================
