---------------------------- MODULE LandingFetch ----------------------------
(* The background fetch of one clone's landing branches: hooks that book an *)
(* attempt and start a worker, the worker that asks origin and fetches, the *)
(* record both write under a lock, and what doctor reads off it.  Sources:  *)
(* connector-core/src/landed-changes/{fetch-state,fetch-trigger,            *)
(* fetch-worker,landing-branches}.ts and cli/doctor-landing-fetch.ts.       *)
EXTENDS Integers, Sequences, FiniteSets

CONSTANTS
  Branch,
  Fallbacks,  \* DEFAULT_BRANCH_FALLBACKS
  WellKnown,  \* WELL_KNOWN_LANDING_BRANCHES
  Hook,       \* hooks that ask whether a fetch is due, again and again
  Worker,     \* bound: workers that run at once
  Interval,   \* LANDING_FETCH_INTERVAL_MS
  HookTime,   \* bound: what time a hook takes from reading the clock to booking
  Jumps,      \* how far the clock may be set back
  Warn,       \* DOCTOR_LANDING_FETCH_FAILURES_WARN
  Casts,      \* bound: who runs, the team's setting, what origin has at first, what
              \* of it changes and how often, which refs git refuses for good, and
              \* what goes wrong, time and again or once
  None

\* What goes wrong: origin does not answer, a fetch brings nothing, runs out of
\* time, or finds a ref locked; git does not answer about the clone; the worker
\* dies, or its report is lost; a hook dies; the clock is set back.
Ill == {"unanswered", "dropped", "late", "locked", "blind", "dies", "mute", "hook", "clock"}

ASSUME FetchAssumption ==
  /\ Fallbacks \in Seq(Branch) /\ WellKnown \subseteq Branch /\ None \notin Branch
  /\ Hook \cap Worker = {} /\ None \notin Hook \cup Worker \cup Int
  /\ Interval \in Nat \ {0} /\ HookTime \in Nat /\ HookTime < Interval
  /\ Jumps \subseteq Nat \ {0} /\ Warn \in Nat \ {0}
  /\ Casts \subseteq [hooks : SUBSET Hook, workers : SUBSET Worker,
                      setting : [kind : {"auto", "configured"}, branches : SUBSET Branch],
                      head : Branch \cup {None}, has : SUBSET Branch,
                      moving : SUBSET Branch, changes : Nat, stuck : SUBSET Branch,
                      often : SUBSET Ill, once : SUBSET Ill]

VARIABLES
  cast,
  fault,       \* has what goes wrong once gone wrong
  origin,      \* its tips, 0 for none, and its default branch
  changes,     \* how often it changed: the number of its newest tip
  clone,       \* the tips of refs/remotes/origin and its HEAD
  since,       \* the clock less lastAttemptAt, or None
  record,      \* the rest of the clone's record
  lock,        \* the hook or worker inside the record's lock, or None
  pc,          \* [Hook \cup Worker -> its next step]
  lag,         \* [Hook -> the clock less the time it read]
  job,         \* [Worker -> what it has found out so far]
  ago, turned  \* history: the time since the last booking, and whether the
               \* clock was set back since

Proc == Hook \cup Worker
bounds == <<cast, fault>>
refs == <<origin, changes, clone>>
home == <<since, record>>
time == <<ago, turned>>
vars == <<bounds, refs, home, lock, pc, lag, job, time>>

May(ill) == \/ ill \in cast.often /\ UNCHANGED bounds
            \/ ill \in cast.once /\ ~fault /\ fault' = TRUE /\ UNCHANGED cast

At(p, label) == pc[p] = label
Goto(p, label) == pc' = [pc EXCEPT ![p] = label]
Leave(h) == Goto(h, "idle") /\ lag' = [lag EXCEPT ![h] = 0]
AtMost(m, n) == IF m < n THEN m ELSE n

-----------------------------------------------------------------------------
(* landing-branches.ts: one rule for the clone's refs and for origin's.     *)

Existing(known) == {b \in Branch : known.tips[b] # 0}
Candidates(setting) ==
  IF setting.kind = "auto" THEN {Fallbacks[i] : i \in DOMAIN Fallbacks} \cup WellKnown
                           ELSE setting.branches

\* What an answer about some names says: the default branch comes with HEAD.
Answer(known, names) ==
  LET head == IF known.head \in Existing(known) THEN known.head ELSE None IN
  [tips |-> [b \in Branch |-> IF b \in names \cup {head} THEN known.tips[b] ELSE 0],
   head |-> head]

DefaultBranch(known) ==
  IF known.head # None THEN {known.head}
  ELSE {Fallbacks[i] : i \in {j \in DOMAIN Fallbacks :
          /\ Fallbacks[j] \in Existing(known)
          /\ \A k \in 1..(j - 1) : Fallbacks[k] \notin Existing(known)}}

AutoDetected(known) == DefaultBranch(known) \cup (WellKnown \cap Existing(known))

SelectLandingBranches(setting, known) ==
  IF setting.kind = "auto" THEN AutoDetected(known) ELSE setting.branches \cap Existing(known)

\* resolveLandingRefs, for the stop and for the worker
LandingRefs == SelectLandingBranches(cast.setting, Answer(clone, Candidates(cast.setting)))

-----------------------------------------------------------------------------
Outcome(kind, missed) == [kind |-> kind, missed |-> missed]
NeverFetched == [unreported |-> 0, failures |-> 0, last |-> Outcome("none", {})]
NoTips == [b \in Branch |-> 0]
Nothing == [tips |-> NoTips, head |-> None]

\* A worker's variables: the branches the stop reads, as git answered; what
\* ls-remote answered; the branches it fetches and their tips before; what it
\* reports.  And history: the branches the stop read when it began, and the tips
\* origin had when it was asked.
NoJob == [reads |-> {}, found |-> Nothing, goal |-> {}, before |-> NoTips,
          outcome |-> NeverFetched.last, watch |-> {}, there |-> NoTips]

Init ==
  /\ cast \in Casts /\ fault = FALSE
  /\ origin = [tips |-> [b \in Branch |-> IF b \in cast.has THEN 1 ELSE 0], head |-> cast.head]
  /\ changes = 1
  /\ clone = [origin EXCEPT !.tips = [b \in Branch |-> IF b \in cast.stuck THEN 0 ELSE @[b]]]
  /\ since = None /\ record = NeverFetched /\ lock = None
  /\ pc = [p \in Proc |-> "idle"] /\ lag = [h \in Hook |-> 0]
  /\ job = [w \in Worker |-> NoJob]
  /\ ago = Interval /\ turned = FALSE

-----------------------------------------------------------------------------
(* The hooks: is one due, and if so book it and start the worker.           *)

\* Seeded fault: a booking ahead of the clock always means it was set back.
DueWhenAhead(behind) ==
  \/ since = None
  \/ since - behind >= Interval \/ since - behind < 0

\* isLandingFetchDue for a clock reading that is so far behind by now
Due(behind) ==
  \/ since = None
  \/ since - behind >= Interval \/ since - behind < -Interval

TracksOrigin == Existing(clone) # {}

\* A hook fires and reads the clock.
Fire(h) ==
  /\ At(h, "idle") /\ h \in cast.hooks
  /\ Goto(h, "look")
  /\ UNCHANGED <<bounds, refs, home, lock, lag, job, time>>

\* The record without its lock, then whether the clone tracks origin.
Look(h) ==
  /\ At(h, "look")
  /\ IF Due(lag[h]) /\ TracksOrigin THEN Goto(h, "claim") /\ UNCHANGED lag ELSE Leave(h)
  /\ UNCHANGED <<bounds, refs, home, lock, job, time>>

\* A busy lock is not waited for.
Claim(h) ==
  /\ At(h, "claim")
  /\ IF lock = None THEN lock' = h /\ Goto(h, "book") /\ UNCHANGED lag
                    ELSE UNCHANGED lock /\ Leave(h)
  /\ UNCHANGED <<bounds, refs, home, job, time>>

\* claimLandingFetch inside the lock: looks again, then writes.
Book(h) ==
  /\ At(h, "book")
  /\ lock' = None
  /\ IF Due(lag[h])
       THEN /\ since' = lag[h]
            /\ record' = [record EXCEPT !.unreported = AtMost(@ + 1, Warn)]
            /\ ago' = 0
            /\ turned' = (turned /\ \E g \in Hook : lag[g] < 0)
            /\ Goto(h, "start") /\ UNCHANGED lag
       ELSE UNCHANGED <<home, time>> /\ Leave(h)
  /\ UNCHANGED <<bounds, refs, job>>

\* The detached worker begins; it finds out what the stop reads.
StartWorker(h) ==
  /\ At(h, "start")
  /\ \E w \in cast.workers : At(w, "idle") /\ pc' = [pc EXCEPT ![h] = "idle", ![w] = "ask"]
  /\ lag' = [lag EXCEPT ![h] = 0]
  /\ UNCHANGED <<bounds, refs, home, lock, job, time>>

\* The hook is killed, its home cannot be written, or the start fails.
GiveUp(h) ==
  /\ pc[h] # "idle" /\ May("hook")
  /\ lock' = IF lock = h THEN None ELSE lock
  /\ Leave(h)
  /\ UNCHANGED <<refs, home, job, time>>

-----------------------------------------------------------------------------
(* fetchLandingBranches, by the calls it makes to git.                      *)

Note(w, next) == job' = [job EXCEPT ![w] = next]
Report(w, kind, missed) ==
  /\ Note(w, [NoJob EXCEPT !.outcome = Outcome(kind, missed), !.watch = job[w].watch,
                           !.there = job[w].there])
  /\ Goto(w, "report")
Done(w) == Note(w, NoJob) /\ Goto(w, "idle")

\* The clone's own questions; git may not answer.
Ask(w) ==
  /\ At(w, "ask")
  /\ \/ Note(w, [NoJob EXCEPT !.reads = LandingRefs, !.watch = LandingRefs]) /\ UNCHANGED bounds
     \/ Note(w, [NoJob EXCEPT !.watch = LandingRefs]) /\ May("blind")
  /\ Goto(w, "list")
  /\ UNCHANGED <<refs, home, lock, lag, time>>

\* Seeded fault: only what the rule picks on origin.
PickedOnOrigin(stopReads, known) ==
  SelectLandingBranches(cast.setting, known) \cap Existing(known)

BranchesToFetch(stopReads, known) ==
  (SelectLandingBranches(cast.setting, known) \cup stopReads) \cap Existing(known)

\* git ls-remote, about every name that could matter
ListRemote(w) ==
  /\ At(w, "list")
  /\ LET known == Answer(origin, Candidates(cast.setting) \cup job[w].reads)
         branches == BranchesToFetch(job[w].reads, known) IN
     \/ /\ UNCHANGED bounds
        /\ IF branches = {} THEN Report(w, "skipped", {})
           ELSE /\ Note(w, [job[w] EXCEPT !.found = known, !.goal = branches, !.there = origin.tips])
                /\ Goto(w, "before")
     \/ May("unanswered") /\ Report(w, "failed", {})
  /\ UNCHANGED <<refs, home, lock, lag, time>>

\* tipsOf: an unanswered listing reads as no tips.
TipsOf(branches) == [b \in Branch |-> IF b \in branches THEN clone.tips[b] ELSE 0]
Listed(branches, seen) == \/ seen = TipsOf(branches) /\ UNCHANGED bounds
                          \/ seen = NoTips /\ May("blind")

TipsBefore(w) ==
  /\ At(w, "before")
  /\ \E seen \in {TipsOf(job[w].goal), NoTips} :
       /\ Listed(job[w].goal, seen)
       /\ Note(w, [job[w] EXCEPT !.before = seen])
  /\ Goto(w, "fetch")
  /\ UNCHANGED <<refs, home, lock, lag, time>>

Moves(branches) ==
  clone' = [clone EXCEPT !.tips = [b \in Branch |-> IF b \in branches THEN origin.tips[b] ELSE @[b]]]

\* git fetch: all of it; nothing when origin lost a branch, or the connection
\* breaks; the rest when git refuses a ref; any part when its time is up.
Refused(w) == Goto(w, "after") /\ UNCHANGED job
Fetch(w) ==
  /\ At(w, "fetch")
  /\ LET goal == job[w].goal
         gone == goal \ Existing(origin)
         stuck == goal \cap cast.stuck IN
     \/ /\ gone = {} /\ stuck = {} /\ UNCHANGED bounds
        /\ Moves(goal) /\ Report(w, "fetched", {})
     \/ /\ gone = {} /\ stuck # {} /\ UNCHANGED bounds
        /\ Moves(goal \ stuck) /\ Refused(w)
     \/ /\ gone = {} /\ May("locked")
        /\ \E locked \in SUBSET goal : Moves(goal \ (locked \cup stuck))
        /\ Refused(w)
     \/ gone # {} /\ UNCHANGED <<bounds, clone>> /\ Refused(w)
     \/ May("dropped") /\ UNCHANGED clone /\ Refused(w)
     \/ /\ gone = {} /\ May("late")
        /\ \E part \in SUBSET (goal \ stuck) : Moves(part)
        /\ Report(w, "failed", {})
  /\ UNCHANGED <<origin, changes, home, lock, lag, time>>

Missed(w, after, moved) == {b \in job[w].goal \ moved : after[b] # job[w].found.tips[b]}

\* afterRefusedFetch
AfterRefused(w) ==
  /\ At(w, "after")
  /\ \E after \in {TipsOf(job[w].goal), NoTips} :
       /\ Listed(job[w].goal, after)
       /\ LET moved == {b \in job[w].goal : after[b] # job[w].before[b]} IN
          IF moved = {} THEN Report(w, "failed", {})
                        ELSE Report(w, "fetched", Missed(w, after, moved))
  /\ UNCHANGED <<refs, home, lock, lag, time>>

\* recordLandingFetch; its lock may stay busy, or the clone have no key.
Enter(w) ==
  /\ At(w, "report") /\ lock = None
  /\ lock' = w
  /\ Goto(w, "write")
  /\ UNCHANGED <<bounds, refs, home, lag, job, time>>

LoseReport(w) ==
  /\ At(w, "report") /\ May("mute")
  /\ Done(w)
  /\ UNCHANGED <<refs, home, lock, lag, time>>

FailuresAfter(kind) ==
  CASE kind = "failed" -> AtMost(record.failures + 1, Warn)
    [] kind = "fetched" -> 0
    [] OTHER -> record.failures

RecordOutcome(w) ==
  /\ At(w, "write")
  /\ record' = [unreported |-> 0, failures |-> FailuresAfter(job[w].outcome.kind),
                last |-> job[w].outcome]
  /\ lock' = None
  /\ Done(w)
  /\ UNCHANGED <<bounds, refs, since, lag, time>>

\* The worker ends without a report.
Die(w) ==
  /\ pc[w] # "idle" /\ May("dies")
  /\ lock' = IF lock = w THEN None ELSE lock
  /\ Done(w)
  /\ UNCHANGED <<refs, home, lag, time>>

-----------------------------------------------------------------------------
(* Origin, the developer and the clock.                                     *)

Change(next) == changes <= cast.changes /\ changes' = changes + 1 /\ origin' = next

\* A branch moves or appears, goes, or becomes the default.
Push(b) == Change([origin EXCEPT !.tips[b] = changes + 1])
Delete(b) == Change([origin EXCEPT !.tips[b] = 0])
Rename(b) == b \in Existing(origin) /\ b # origin.head /\ Change([origin EXCEPT !.head = b])

OriginChanges ==
  /\ \E b \in cast.moving : Push(b) \/ Delete(b) \/ Rename(b)
  /\ UNCHANGED <<bounds, clone, home, lock, pc, lag, job, time>>

\* The developer's own git fetch, which never prunes.
OwnFetch ==
  /\ Moves(Existing(origin) \ cast.stuck)
  /\ UNCHANGED <<bounds, origin, changes, home, lock, pc, lag, job, time>>

\* A hook in flight books or gives up before it is HookTime behind.
Tick ==
  /\ \A h \in Hook : pc[h] # "idle" => lag[h] < HookTime
  /\ since' = IF since = None THEN None ELSE AtMost(since + 1, Interval + HookTime)
  /\ lag' = [h \in Hook |-> IF pc[h] = "idle" THEN lag[h] ELSE lag[h] + 1]
  /\ ago' = AtMost(ago + 1, Interval)
  /\ UNCHANGED <<bounds, refs, record, lock, pc, job, turned>>

SetBack ==
  /\ May("clock")
  /\ \E d \in Jumps :
       /\ since' = IF since = None THEN None ELSE since - d
       /\ lag' = [h \in Hook |-> IF pc[h] = "idle" THEN lag[h] ELSE lag[h] - d]
  /\ turned' = TRUE
  /\ UNCHANGED <<refs, record, lock, pc, job, ago>>

HookStep(h) == Look(h) \/ Claim(h) \/ Book(h) \/ StartWorker(h)
WorkerStep(w) ==
  \/ Ask(w) \/ ListRemote(w) \/ TipsBefore(w) \/ Fetch(w) \/ AfterRefused(w)
  \/ Enter(w) \/ LoseReport(w) \/ RecordOutcome(w)

Next ==
  \/ \E h \in Hook : Fire(h) \/ HookStep(h) \/ GiveUp(h)
  \/ \E w \in Worker : WorkerStep(w) \/ Die(w)
  \/ OriginChanges \/ OwnFetch \/ Tick \/ SetBack

Spec == Init /\ [][Next]_vars

(* The developer keeps working, what runs is scheduled, time passes.        *)
Fairness ==
  /\ \A h \in Hook : WF_vars(Fire(h)) /\ WF_vars(HookStep(h))
  /\ \A w \in Worker : WF_vars(WorkerStep(w))
  /\ WF_vars(Tick)

FairSpec == Spec /\ Fairness

-----------------------------------------------------------------------------
(* doctor-landing-fetch.ts: the line about the record.                      *)
FromRecord ==
  IF record.unreported >= Warn THEN "WARN"
  ELSE CASE record.last.kind = "fetched" -> IF record.last.missed = {} THEN "PASS" ELSE "WARN"
         [] record.last.kind = "failed" -> IF record.failures < Warn THEN "PASS" ELSE "WARN"
         [] OTHER -> "PASS"

(* A branch work lands on, by the clone's refs or by origin's, that origin  *)
(* has and the clone does not have as origin has it.                        *)
Behind(b) ==
  /\ origin.tips[b] # 0 /\ clone.tips[b] # origin.tips[b]
  /\ b \in LandingRefs
       \cup SelectLandingBranches(cast.setting, Answer(origin, Candidates(cast.setting)))

(* Hooks that race start one worker between them: two bookings are nearly   *)
(* an interval apart, however the hooks interleave with each other and with *)
(* workers that write the record, unless the clock was set back.            *)
StartsAreApart ==
  [][\A h \in Hook : At(h, "book") /\ pc'[h] = "start"
                       => turned \/ ago >= Interval - HookTime]_vars

(* fetch-worker.ts and doctor: a run reported as fetched leaves no branch   *)
(* the stop reads, but those it names as missed, short of what origin had   *)
(* when it was asked; as long as git answers about the clone.               *)
FetchedIsTrue ==
  \A w \in Worker :
    (job[w].outcome.kind = "fetched" /\ "blind" \notin cast.often \cup cast.once)
      => \A b \in job[w].watch \ job[w].outcome.missed : clone.tips[b] >= job[w].there[b]

(* What leaves no trace in the record when it goes wrong again and again: a *)
(* hook that never books (doctor-landing-fetch.ts:106 passes "not run       *)
(* yet"), a clock that is set back before an attempt falls due, and git     *)
(* that does not answer about the clone (stopRefs ?? [] and tipsOf in       *)
(* fetch-worker.ts), whose run is reported as fetched.                      *)
Untold == {"hook", "clock", "blind"}

(* doctor: a fetch that has failed for a day never reads like nothing       *)
(* landed: landing branches stay behind origin for good only while doctor   *)
(* warns again and again, but where what keeps going wrong is Untold; and,  *)
(* but for refs git refuses for good, only where something keeps going      *)
(* wrong.                                                                   *)
StaleIsTold ==
  /\ cast.often \cap Untold = {} =>
       (<>[](\E b \in Branch : Behind(b)) => []<>(FromRecord = "WARN"))
  /\ <>[](\E b \in Branch \ cast.stuck : Behind(b)) => cast.often # {}

TypeOK ==
  /\ cast \in Casts /\ fault \in BOOLEAN
  /\ changes \in Nat /\ ago \in Nat /\ turned \in BOOLEAN
  /\ \A known \in {origin, clone} :
       known \in [tips : [Branch -> Nat], head : Branch \cup {None}]
  /\ since \in Int \cup {None}
  /\ record \in [unreported : 0..Warn, failures : 0..Warn,
                 last : [kind : {"none", "fetched", "failed", "skipped"}, missed : SUBSET Branch]]
  /\ lock \in Proc \cup {None}
  /\ pc \in [Proc -> {"idle", "look", "claim", "book", "start", "ask", "list", "before",
                      "fetch", "after", "report", "write"}]
  /\ lag \in [Hook -> Int]
  /\ job \in [Worker ->
       [reads : SUBSET Branch, found : [tips : [Branch -> Nat], head : Branch \cup {None}],
        goal : SUBSET Branch, before : [Branch -> Nat],
        outcome : [kind : {"none", "fetched", "failed", "skipped"}, missed : SUBSET Branch],
        watch : SUBSET Branch, there : [Branch -> Nat]]]
=============================================================================
