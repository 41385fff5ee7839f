-------------------------- MODULE LandingFetchProof --------------------------
(***************************************************************************)
(* LandingFetch for any branches, hooks, workers, interval and casts: its  *)
(* types, that bookings stay apart, and that a fetch reported as done is.  *)
(***************************************************************************)
EXTENDS LandingFetch, TLAPS

Tips == [tips : [Branch -> Nat], head : Branch \cup {None}]
Outcomes == [kind : {"none", "fetched", "failed", "skipped"}, missed : SUBSET Branch]
Jobs == [reads : SUBSET Branch, found : Tips, goal : SUBSET Branch, before : [Branch -> Nat],
         outcome : Outcomes, watch : SUBSET Branch, there : [Branch -> Nat]]
HookLabels == {"idle", "look", "claim", "book", "start"}
WorkerLabels == {"idle", "ask", "list", "before", "fetch", "after", "report", "write"}

-----------------------------------------------------------------------------
(* Types, in three parts.                                                   *)

WorldOK ==
  /\ cast \in Casts /\ fault \in BOOLEAN
  /\ origin \in Tips /\ clone \in Tips /\ changes \in Nat
HomeOK ==
  /\ since \in Int \cup {None} /\ ago \in Nat /\ turned \in BOOLEAN
  /\ record \in [unreported : 0..Warn, failures : 0..Warn, last : Outcomes]
  /\ lock \in Proc \cup {None} /\ lag \in [Hook -> Int]
WorkOK ==
  /\ pc \in [Proc -> HookLabels \cup WorkerLabels]
  /\ \A h \in Hook : pc[h] \in HookLabels
  /\ \A w \in Worker : pc[w] \in WorkerLabels
  /\ job \in [Worker -> Jobs]
Types == WorldOK /\ HomeOK /\ WorkOK

LEMMA CastFacts ==
  ASSUME cast \in Casts
  PROVE  /\ cast.setting.branches \subseteq Branch /\ cast.has \subseteq Branch
         /\ cast.head \in Branch \cup {None} /\ cast.stuck \subseteq Branch
         /\ cast.moving \subseteq Branch /\ cast.changes \in Nat
         /\ cast.hooks \subseteq Hook /\ cast.workers \subseteq Worker
BY FetchAssumption

LEMMA AnswerType ==
  ASSUME NEW known \in Tips, NEW names
  PROVE  /\ Answer(known, names) \in Tips
         /\ \A b \in Branch : Answer(known, names).tips[b] \in {0, known.tips[b]}
         /\ \A b \in Branch \cap names : Answer(known, names).tips[b] = known.tips[b]
BY FetchAssumption DEF Answer, Tips, Existing

LEMMA SelectionType ==
  ASSUME WorldOK, NEW known \in Tips
  PROVE  SelectLandingBranches(cast.setting, known) \subseteq Branch
<1>1. DefaultBranch(known) \subseteq Branch
  <2>1. \A i \in DOMAIN Fallbacks : Fallbacks[i] \in Branch
    BY FetchAssumption
  <2> QED  BY <2>1 DEF DefaultBranch, Tips
<1>2. cast.setting.branches \subseteq Branch
  BY CastFacts DEF WorldOK
<1> QED  BY <1>1, <1>2 DEF SelectLandingBranches, AutoDetected, Existing

LEMMA LandingRefsType == WorldOK => LandingRefs \subseteq Branch
BY AnswerType, SelectionType DEF LandingRefs, WorldOK

LEMMA NoJobType == NoJob \in Jobs
BY FetchAssumption DEF NoJob, Jobs, NoTips, Nothing, NeverFetched, Outcome, Outcomes, Tips

\* What a worker notes, and that nothing else of it changes the types.
LEMMA NoteType ==
  ASSUME Types, NEW w \in Worker, NEW next \in Jobs, Note(w, next),
         NEW label \in WorkerLabels, Goto(w, label)
  PROVE  WorkOK'
BY FetchAssumption DEF Types, WorkOK, Note, Goto, Proc

LEMMA ReportType ==
  ASSUME Types, NEW w \in Worker, NEW kind \in {"fetched", "failed", "skipped"},
         NEW missed \in SUBSET Branch, Report(w, kind, missed)
  PROVE  WorkOK'
<1>1. [NoJob EXCEPT !.outcome = Outcome(kind, missed), !.watch = job[w].watch,
                    !.there = job[w].there] \in Jobs
  BY NoJobType DEF Types, WorkOK, Jobs, Outcome, Outcomes
<1> QED  BY <1>1, NoteType DEF Report, WorkerLabels

LEMMA DoneType == ASSUME Types, NEW w \in Worker, Done(w) PROVE WorkOK'
BY NoteType, NoJobType DEF Done, WorkerLabels

LEMMA MovesType == ASSUME WorldOK, NEW branches, Moves(branches) PROVE clone' \in Tips
BY DEF WorldOK, Moves, Tips

LEMMA TipsOfType ==
  ASSUME WorldOK, NEW branches PROVE TipsOf(branches) \in [Branch -> Nat] /\ NoTips \in [Branch -> Nat]
BY DEF WorldOK, Tips, TipsOf, NoTips

-----------------------------------------------------------------------------
LEMMA InitTypes == Init => Types
<1> SUFFICES ASSUME Init PROVE Types
  OBVIOUS
<1>1. WorldOK
  <2>1. origin \in Tips
    BY CastFacts DEF Init, Tips
  <2> QED  BY <2>1 DEF Init, WorldOK, Tips
<1>2. HomeOK
  <2>1. NeverFetched \in [unreported : 0..Warn, failures : 0..Warn, last : Outcomes]
    BY FetchAssumption DEF NeverFetched, Outcome, Outcomes
  <2>2. lag \in [Hook -> Int] /\ ago \in Nat
    BY FetchAssumption DEF Init
  <2> QED  BY <2>1, <2>2 DEF Init, HomeOK
<1>3. WorkOK
  BY NoJobType DEF Init, WorkOK, HookLabels, WorkerLabels, Proc
<1> QED  BY <1>1, <1>2, <1>3 DEF Types

LEMMA HookGoes ==
  ASSUME WorkOK, NEW h \in Hook, NEW label \in HookLabels, Goto(h, label), UNCHANGED job
  PROVE  WorkOK'
BY FetchAssumption DEF WorkOK, Goto, Proc

LEMMA HookLeaves ==
  ASSUME WorkOK, HomeOK, NEW h \in Hook, Leave(h), UNCHANGED job
  PROVE  WorkOK' /\ lag' \in [Hook -> Int]
BY HookGoes DEF Leave, HookLabels, HomeOK

LEMMA HookTypes ==
  ASSUME Types, NEW h \in Hook, Fire(h) \/ HookStep(h) \/ GiveUp(h)
  PROVE  Types'
<1> USE DEF Types
<1>1. CASE Fire(h)
  BY <1>1, HookGoes DEF Fire, HookLabels, WorldOK, HomeOK, bounds, refs, home, time
<1>2. CASE Look(h)
  BY <1>2, HookGoes, HookLeaves DEF Look, HookLabels, WorldOK, HomeOK, bounds, refs, home, time
<1>3. CASE Claim(h)
  <2>1. lock' \in Proc \cup {None} /\ lag' \in [Hook -> Int] /\ WorkOK'
    BY <1>3, HookGoes, HookLeaves DEF Claim, HookLabels, HomeOK, Proc
  <2> QED
    BY <1>3, <2>1 DEF Claim, WorldOK, HomeOK, bounds, refs, home, time
<1>4. CASE Book(h)
  <2>1. HomeOK'
    <3>1. CASE Due(lag[h])
      <4>1. AtMost(record.unreported + 1, Warn) \in 0..Warn
        BY FetchAssumption DEF HomeOK, AtMost
      <4>2. record' \in [unreported : 0..Warn, failures : 0..Warn, last : Outcomes]
        BY <1>4, <3>1, <4>1 DEF Book, HomeOK
      <4> QED
        BY <1>4, <3>1, <4>2 DEF Book, HomeOK
    <3>2. CASE ~Due(lag[h])
      BY <1>4, <3>2, HookLeaves DEF Book, HomeOK, home, time
    <3> QED  BY <3>1, <3>2
  <2>2. WorkOK'
    BY <1>4, HookGoes, HookLeaves DEF Book, HookLabels
  <2> QED
    BY <1>4, <2>1, <2>2 DEF Book, WorldOK, bounds, refs
<1>5. CASE StartWorker(h)
  <2>1. PICK w \in cast.workers : At(w, "idle") /\ pc' = [pc EXCEPT ![h] = "idle", ![w] = "ask"]
    BY <1>5 DEF StartWorker
  <2>2. w \in Worker
    BY CastFacts DEF WorldOK
  <2>3. WorkOK'
    BY <1>5, <2>1, <2>2, FetchAssumption DEF StartWorker, WorkOK, Proc, HookLabels, WorkerLabels
  <2> QED
    BY <1>5, <2>3 DEF StartWorker, WorldOK, HomeOK, bounds, refs, home, time
<1>6. CASE GiveUp(h)
  <2>1. lock' \in Proc \cup {None} /\ lag' \in [Hook -> Int] /\ WorkOK'
    BY <1>6, HookLeaves DEF GiveUp, HomeOK
  <2>2. cast' \in Casts /\ fault' \in BOOLEAN
    BY <1>6 DEF GiveUp, May, bounds, WorldOK
  <2> QED
    BY <1>6, <2>1, <2>2 DEF GiveUp, WorldOK, HomeOK, refs, home, time
<1> QED
  BY <1>1, <1>2, <1>3, <1>4, <1>5, <1>6 DEF HookStep

LEMMA WorkerTypes ==
  ASSUME Types, NEW w \in Worker, WorkerStep(w) \/ Die(w)
  PROVE  Types'
<1> USE DEF Types
<1> DEFINE quiet == UNCHANGED <<refs, home, lock, lag, time>>
<1>a. job[w] \in Jobs
  BY DEF WorkOK
<1>b. ASSUME NEW ill, May(ill) \/ UNCHANGED bounds PROVE cast' \in Casts /\ fault' \in BOOLEAN
  BY <1>b DEF May, bounds, WorldOK
<1>c. ASSUME cast' \in Casts /\ fault' \in BOOLEAN, quiet PROVE WorldOK' /\ HomeOK'
  BY <1>c DEF WorldOK, HomeOK, refs, home, time
<1>1. CASE Ask(w)
  <2>1. /\ [NoJob EXCEPT !.reads = LandingRefs, !.watch = LandingRefs] \in Jobs
        /\ [NoJob EXCEPT !.watch = LandingRefs] \in Jobs
    BY LandingRefsType, NoJobType DEF Jobs
  <2>2. WorkOK'
    BY <1>1, <2>1, NoteType DEF Ask, WorkerLabels
  <2> QED
    BY <1>1, <2>2, <1>b, <1>c DEF Ask
<1>2. CASE ListRemote(w)
  <2> DEFINE known == Answer(origin, Candidates(cast.setting) \cup job[w].reads)
             branches == BranchesToFetch(job[w].reads, known)
             next == [job[w] EXCEPT !.found = known, !.goal = branches, !.there = origin.tips]
  <2>1. known \in Tips /\ branches \subseteq Branch /\ origin.tips \in [Branch -> Nat]
    BY AnswerType, SelectionType, <1>a DEF WorldOK, BranchesToFetch, Existing, Jobs, Tips
  <2>2. next \in Jobs
    BY <2>1, <1>a DEF Jobs
  <2>3. WorkOK'
    <3>1. \/ Report(w, "skipped", {}) \/ Report(w, "failed", {})
          \/ Note(w, next) /\ Goto(w, "before")
      BY <1>2 DEF ListRemote
    <3> QED
      BY <2>2, <3>1, NoteType, ReportType DEF WorkerLabels
  <2>4. \E ill : May(ill) \/ UNCHANGED bounds
    BY <1>2 DEF ListRemote
  <2> QED
    BY <1>2, <2>3, <2>4, <1>b, <1>c DEF ListRemote
<1>3. CASE TipsBefore(w)
  <2>1. PICK seen \in {TipsOf(job[w].goal), NoTips} :
          Listed(job[w].goal, seen) /\ Note(w, [job[w] EXCEPT !.before = seen])
    BY <1>3 DEF TipsBefore
  <2>2. [job[w] EXCEPT !.before = seen] \in Jobs
    BY <1>a, TipsOfType DEF Jobs
  <2>3. WorkOK'
    BY <1>3, <2>1, <2>2, NoteType DEF TipsBefore, WorkerLabels
  <2> QED
    BY <1>3, <2>1, <2>3, <1>b, <1>c DEF TipsBefore, Listed
<1>4. CASE Fetch(w)
  <2>1. clone' \in Tips
    <3>1. UNCHANGED clone \/ \E part : Moves(part)
      BY <1>4 DEF Fetch
    <3> QED  BY <3>1, MovesType DEF WorldOK
  <2>2. WorkOK'
    <3>1. Refused(w) \/ Report(w, "fetched", {}) \/ Report(w, "failed", {})
      BY <1>4 DEF Fetch
    <3>2. CASE Refused(w)
      BY <3>2, FetchAssumption DEF Refused, Goto, WorkOK, WorkerLabels, Proc
    <3> QED  BY <3>1, <3>2, ReportType
  <2>3. cast' \in Casts /\ fault' \in BOOLEAN
    <3>1. \E ill : May(ill) \/ UNCHANGED bounds
      BY <1>4 DEF Fetch
    <3> QED  BY <3>1, <1>b
  <2> QED
    BY <1>4, <2>1, <2>2, <2>3 DEF Fetch, WorldOK, HomeOK, home, time
<1>5. CASE AfterRefused(w)
  <2>1. PICK after \in {TipsOf(job[w].goal), NoTips} :
          /\ Listed(job[w].goal, after)
          /\ \/ Report(w, "failed", {})
             \/ \E missed \in SUBSET Branch : Report(w, "fetched", missed)
    <3>1. \A after, moved : Missed(w, after, moved) \in SUBSET Branch
      BY <1>a DEF Missed, Jobs
    <3> QED  BY <1>5, <3>1 DEF AfterRefused
  <2>2. WorkOK'
    BY <2>1, ReportType
  <2> QED
    BY <1>5, <2>1, <2>2, <1>b, <1>c DEF AfterRefused, Listed
<1>6. CASE Enter(w)
  <2>1. WorkOK'
    BY <1>6, FetchAssumption DEF Enter, Goto, WorkOK, WorkerLabels, Proc
  <2> QED
    BY <1>6, <2>1 DEF Enter, WorldOK, HomeOK, Proc, bounds, refs, home, time
<1>7. CASE LoseReport(w)
  BY <1>7, DoneType, <1>b, <1>c DEF LoseReport
<1>8. CASE RecordOutcome(w)
  <2>1. FailuresAfter(job[w].outcome.kind) \in 0..Warn
    BY FetchAssumption DEF FailuresAfter, AtMost, HomeOK
  <2>2. record' \in [unreported : 0..Warn, failures : 0..Warn, last : Outcomes]
    BY <1>8, <2>1, <1>a, FetchAssumption DEF RecordOutcome, Jobs
  <2> QED
    BY <1>8, <2>2, DoneType DEF RecordOutcome, WorldOK, HomeOK, bounds, refs, time
<1>9. CASE Die(w)
  <2>1. lock' \in Proc \cup {None}
    BY <1>9 DEF Die, HomeOK
  <2> QED
    BY <1>9, <2>1, DoneType, <1>b DEF Die, WorldOK, HomeOK, refs, home, time
<1> QED
  BY <1>1, <1>2, <1>3, <1>4, <1>5, <1>6, <1>7, <1>8, <1>9 DEF WorkerStep

LEMMA WorldTypes ==
  ASSUME Types, OriginChanges \/ OwnFetch \/ Tick \/ SetBack \/ UNCHANGED vars
  PROVE  Types'
<1> USE DEF Types
<1>0. origin \in Tips /\ changes \in Nat
  BY DEF WorldOK
<1>1. CASE OriginChanges
  <2>1. PICK b \in cast.moving : Push(b) \/ Delete(b) \/ Rename(b)
    BY <1>1 DEF OriginChanges
  <2>2. b \in Branch
    BY CastFacts DEF WorldOK
  <2>3. origin' \in Tips /\ changes' \in Nat
    BY <1>0, <2>1, <2>2 DEF Push, Delete, Rename, Change, Tips
  <2> QED
    BY <1>1, <2>3 DEF OriginChanges, WorldOK, HomeOK, WorkOK, bounds, home, time
<1>2. CASE OwnFetch
  BY <1>2, MovesType DEF OwnFetch, WorldOK, HomeOK, WorkOK, bounds, home, time
<1>3. CASE Tick
  <2>1. since' \in Int \cup {None} /\ lag' \in [Hook -> Int] /\ ago' \in Nat
    BY <1>3, FetchAssumption DEF Tick, HomeOK, AtMost
  <2> QED
    BY <1>3, <2>1 DEF Tick, WorldOK, HomeOK, WorkOK, bounds, refs
<1>4. CASE SetBack
  <2>1. since' \in Int \cup {None} /\ lag' \in [Hook -> Int]
    BY <1>4, FetchAssumption DEF SetBack, HomeOK
  <2>2. cast' \in Casts /\ fault' \in BOOLEAN
    BY <1>4 DEF SetBack, May, bounds, WorldOK
  <2> QED
    BY <1>4, <2>1, <2>2 DEF SetBack, WorldOK, HomeOK, WorkOK, refs
<1>5. CASE UNCHANGED vars
  BY <1>5 DEF vars, WorldOK, HomeOK, WorkOK, bounds, refs, home, time
<1> QED  BY <1>1, <1>2, <1>3, <1>4, <1>5

LEMMA StepTypes == Types /\ [Next]_vars => Types'
BY HookTypes, WorkerTypes, WorldTypes DEF Next

LEMMA TypesAre == Types => TypeOK
BY DEF Types, WorldOK, HomeOK, WorkOK, TypeOK, Tips, Outcomes, Jobs, HookLabels, WorkerLabels

(* For any hooks, workers and casts: the record's counts stay within their  *)
(* bound, hooks and workers at their own steps, every variable in its domain.*)
THEOREM TypeCorrect == Spec => []TypeOK
BY InitTypes, StepTypes, TypesAre, PTL DEF Spec

-----------------------------------------------------------------------------
(* Bookings: until the clock is set back, the record's age is what has      *)
(* passed since the last booking, give or take what a hook is behind.       *)

Clock ==
  /\ \A h \in Hook : lag[h] <= HookTime /\ (turned \/ lag[h] >= 0)
  /\ since = None => ago >= Interval
  /\ turned \/ since = None \/ (since >= 0 /\ (since <= ago + HookTime \/ ago >= Interval))

LEMMA InitClock == Init => Clock
BY FetchAssumption DEF Init, Clock

LEMMA DueIsLate ==
  ASSUME HomeOK, Clock, NEW h \in Hook, Due(lag[h])
  PROVE  turned \/ ago >= Interval - HookTime
<1> lag[h] \in Int
  BY DEF HomeOK
<1> QED
  BY FetchAssumption DEF HomeOK, Clock, Due

LEMMA LeaveClock ==
  ASSUME HomeOK, Clock, NEW h \in Hook, lag' = [lag EXCEPT ![h] = 0] \/ UNCHANGED lag,
         UNCHANGED <<home, time>>
  PROVE  Clock'
BY FetchAssumption DEF HomeOK, Clock, home, time

LEMMA ClockStep == Types /\ Clock /\ [Next]_vars => Clock'
<1> SUFFICES ASSUME Types, Clock, [Next]_vars PROVE Clock'
  OBVIOUS
<1> USE DEF Types
<1>1. ASSUME UNCHANGED <<since, lag, time>> PROVE Clock'
  BY <1>1 DEF Clock, time
<1>2. ASSUME NEW h \in Hook, Fire(h) \/ HookStep(h) \/ GiveUp(h) PROVE Clock'
  <2>1. CASE Fire(h)
    BY <1>1, <2>1 DEF Fire, home
  <2>2. CASE Look(h) \/ Claim(h) \/ StartWorker(h) \/ GiveUp(h)
    BY <2>2, LeaveClock DEF Look, Claim, StartWorker, GiveUp, Leave
  <2>3. CASE Book(h) /\ ~Due(lag[h])
    BY <2>3, LeaveClock DEF Book, Leave
  <2>4. CASE Book(h) /\ Due(lag[h])
    <3>1. since' = lag[h] /\ ago' = 0 /\ lag' = lag /\ turned' = (turned /\ \E g \in Hook : lag[g] < 0)
      BY <2>4 DEF Book
    <3>2. lag[h] # None /\ \A g \in Hook : lag[g] \in Int
      BY FetchAssumption DEF HomeOK
    <3>3. \A g \in Hook : lag'[g] <= HookTime /\ (turned' \/ lag'[g] >= 0)
      <4>1. turned' \/ ~turned \/ ~\E g \in Hook : lag[g] < 0
        BY <3>1
      <4>2. \A g \in Hook : ~turned \/ ~(lag[g] < 0) => lag[g] >= 0
        BY <3>2 DEF Clock
      <4> QED
        BY <3>1, <4>1, <4>2 DEF Clock
    <3>4. since' # None /\ (turned' \/ (since' >= 0 /\ since' <= ago' + HookTime))
      BY <3>1, <3>2, <3>3, FetchAssumption
    <3> QED
      BY <3>3, <3>4 DEF Clock
  <2> QED
    BY <1>2, <2>1, <2>2, <2>3, <2>4 DEF HookStep
<1>3. ASSUME NEW w \in Worker, WorkerStep(w) \/ Die(w) PROVE Clock'
  BY <1>1, <1>3 DEF WorkerStep, Ask, ListRemote, TipsBefore, Fetch, AfterRefused, Enter, LoseReport,
     RecordOutcome, Die, home
<1>4. CASE Tick
  <2>1. \A h \in Hook : lag'[h] = (IF pc[h] = "idle" THEN lag[h] ELSE lag[h] + 1) /\ lag[h] \in Int
    BY <1>4 DEF Tick, HomeOK
  <2>2. \A h \in Hook : lag'[h] <= HookTime /\ (turned' \/ lag'[h] >= 0)
    BY <1>4, <2>1, FetchAssumption DEF Tick, Clock
  <2>3. /\ since' = None <=> since = None
        /\ since # None => since' = AtMost(since + 1, Interval + HookTime)
    BY <1>4, FetchAssumption DEF Tick, HomeOK, AtMost
  <2> QED
    BY <1>4, <2>2, <2>3, FetchAssumption DEF Tick, Clock, HomeOK, AtMost
<1>5. CASE SetBack
  <2>1. PICK d \in Jumps :
          /\ since' = IF since = None THEN None ELSE since - d
          /\ lag' = [h \in Hook |-> IF pc[h] = "idle" THEN lag[h] ELSE lag[h] - d]
    BY <1>5 DEF SetBack
  <2>2. d \in Nat /\ \A h \in Hook : lag'[h] <= HookTime
    BY <2>1, FetchAssumption DEF Clock, HomeOK
  <2>3. since' = None <=> since = None
    BY <2>1, <2>2, FetchAssumption DEF HomeOK
  <2> QED
    BY <1>5, <2>2, <2>3 DEF SetBack, Clock
<1>6. CASE OriginChanges \/ OwnFetch \/ UNCHANGED vars
  BY <1>1, <1>6 DEF OriginChanges, OwnFetch, vars, home
<1> QED
  BY <1>2, <1>3, <1>4, <1>5, <1>6 DEF Next

LEMMA BookingIsLate ==
  ASSUME Types, Clock, [Next]_vars, NEW h \in Hook, At(h, "book"), pc'[h] = "start"
  PROVE  turned \/ ago >= Interval - HookTime
<1>1. CASE Book(h)
  <2>1. Due(lag[h])
    BY <1>1 DEF Book, Leave, Goto, Types, WorkOK, Proc
  <2> QED  BY <2>1, DueIsLate DEF Types
<1>2. CASE ~Book(h)
  <2>0. h \in Proc /\ pc[h] = "book" /\ \A w \in Worker : w # h
    BY FetchAssumption DEF At, Proc
  <2>1. ASSUME NEW p \in Proc, p # h, NEW label, Goto(p, label) PROVE FALSE
    BY <2>0, <2>1 DEF Goto
  <2>2. ~UNCHANGED pc
    BY <2>0
  <2>3. ASSUME NEW g \in Hook, Fire(g) \/ HookStep(g) \/ GiveUp(g) PROVE FALSE
    <3>1. CASE g # h
      <4>1. CASE StartWorker(g)
        <5>1. PICK w \in cast.workers : pc' = [pc EXCEPT ![g] = "idle", ![w] = "ask"]
          BY <4>1 DEF StartWorker
        <5> QED
          <6>1. w # h
            BY <2>0, CastFacts DEF Types, WorldOK
          <6>2. pc'[h] = pc[h]
            BY <2>0, <3>1, <5>1, <6>1 DEF Types, WorkOK
          <6> QED  BY <2>0, <6>2
      <4> QED
        BY <2>1, <2>3, <3>1, <4>1 DEF Fire, HookStep, Look, Claim, Book, GiveUp, Leave, Proc
    <3>2. CASE g = h
      BY <1>2, <2>0, <2>3, <3>2 DEF Fire, HookStep, Look, Claim, StartWorker, GiveUp, Leave, Goto, At, Types, WorkOK
    <3> QED  BY <3>1, <3>2
  <2>4. ASSUME NEW w \in Worker, WorkerStep(w) \/ Die(w) PROVE FALSE
    <3>1. \E label : Goto(w, label)
      BY <2>4 DEF WorkerStep, Ask, ListRemote, TipsBefore, Fetch, AfterRefused, Enter, LoseReport,
         RecordOutcome, Die, Report, Done, Refused
    <3> QED  BY <2>0, <2>1, <3>1 DEF Proc
  <2>5. ~(OriginChanges \/ OwnFetch \/ Tick \/ SetBack \/ UNCHANGED vars)
    BY <2>2 DEF OriginChanges, OwnFetch, Tick, SetBack, vars
  <2> QED  BY <2>3, <2>4, <2>5 DEF Next
<1> QED  BY <1>1, <1>2

(* For any hooks, workers and interval: two bookings are nearly an interval *)
(* apart, however hooks and workers interleave, unless the clock was set    *)
(* back.                                                                    *)
THEOREM BookingsAreApart == Spec => StartsAreApart
<1>1. Types /\ Clock /\ [Next]_vars
        => [\A h \in Hook : At(h, "book") /\ pc'[h] = "start"
                              => turned \/ ago >= Interval - HookTime]_vars
  BY BookingIsLate
<1>2. QED
  BY InitTypes, InitClock, StepTypes, ClockStep, <1>1, PTL DEF Spec, StartsAreApart

-----------------------------------------------------------------------------
(* Fetching, as long as git answers about the clone.                        *)

Sighted == "blind" \notin cast.often \cup cast.once
Fetched(w) == job[w].outcome.kind = "fetched"

\* A tip origin showed a worker is not newer than the one it has now, if it
\* still has one.
Shown ==
  /\ \A b \in Branch : origin.tips[b] <= changes
  /\ \A w \in Worker, b \in Branch :
       /\ job[w].there[b] <= changes
       /\ origin.tips[b] = 0 \/ job[w].there[b] <= origin.tips[b]

\* What a worker knows at each of its steps.
Knows(w) ==
  /\ Fetched(w) => pc[w] \in {"report", "write"}
  /\ pc[w] \in {"list", "before", "fetch", "after"} => job[w].reads = job[w].watch
  /\ pc[w] \in {"before", "fetch", "after"} =>
       /\ \A b \in job[w].watch \ job[w].goal : job[w].there[b] = 0
       /\ \A b \in job[w].goal : job[w].found.tips[b] = job[w].there[b]
  /\ pc[w] \in {"fetch", "after"} =>
       \A b \in job[w].goal : clone.tips[b] = job[w].before[b] \/ clone.tips[b] >= job[w].there[b]
  /\ Fetched(w) =>
       \A b \in job[w].watch \ job[w].outcome.missed : clone.tips[b] >= job[w].there[b]

Knowing == Shown /\ (Sighted => \A w \in Worker : Knows(w))

LEMMA InitKnowing == Init => Knowing
<1> SUFFICES ASSUME Init PROVE Knowing
  OBVIOUS
<1>1. Shown
  BY DEF Init, Shown, NoJob, NoTips
<1>2. \A w \in Worker : Knows(w)
  BY DEF Init, Knows, Fetched, NoJob, NeverFetched, Outcome, Proc
<1> QED  BY <1>1, <1>2 DEF Knowing

\* Every way a tip of the clone changes takes it to what origin has.
LEMMA TipsRise ==
  ASSUME Types, Shown, NEW branches, Moves(branches), branches \subseteq Existing(origin),
         NEW w \in Worker, NEW b \in Branch
  PROVE  \/ clone'.tips[b] = clone.tips[b]
         \/ clone'.tips[b] >= job[w].there[b]
BY DEF Types, WorldOK, WorkOK, Tips, Jobs, Shown, Moves, Existing

\* A step that leaves a worker alone, however the clone's tips rise.
LEMMA StaysKnowing ==
  ASSUME Types, Shown, NEW w \in Worker, Knows(w), job'[w] = job[w], pc'[w] = pc[w],
         \A b \in Branch : clone'.tips[b] = clone.tips[b] \/ clone'.tips[b] >= job[w].there[b]
  PROVE  Knows(w)'
BY DEF Types, WorkOK, Jobs, Knows, Fetched

LEMMA CastStays == [Next]_vars => UNCHANGED cast
BY DEF Next, Fire, HookStep, Look, Claim, Book, StartWorker, GiveUp, WorkerStep, Ask, ListRemote,
   TipsBefore, Listed, Fetch, AfterRefused, Enter, LoseReport, RecordOutcome, Die, OriginChanges,
   OwnFetch, Tick, SetBack, May, bounds, vars

LEMMA ShownStep == Types /\ Shown /\ [Next]_vars => Shown'
<1> SUFFICES ASSUME Types, Shown, [Next]_vars PROVE Shown'
  OBVIOUS
<1> USE DEF Types
<1>0. /\ origin.tips \in [Branch -> Nat] /\ changes \in Nat
      /\ \A w \in Worker : job[w] \in Jobs /\ job[w].there \in [Branch -> Nat]
  BY DEF WorldOK, WorkOK, Tips, Jobs
<1>1. ASSUME UNCHANGED <<origin, changes>>,
             NEW w \in Worker, NEW next, Note(w, next),
             next.there \in {job[w].there, origin.tips, NoTips}
      PROVE  Shown'
  <2>1. /\ job'[w] = next
        /\ \A v \in Worker : v # w => job'[v] = job[v]
    BY <1>1 DEF Note, WorkOK
  <2>2. \A b \in Branch : /\ next.there[b] <= changes
                          /\ origin.tips[b] = 0 \/ next.there[b] <= origin.tips[b]
    BY <1>0, <1>1 DEF Shown, NoTips
  <2> QED
    BY <1>1, <2>1, <2>2 DEF Shown
<1>2. ASSUME UNCHANGED <<origin, changes, job>> PROVE Shown'
  BY <1>2 DEF Shown
<1>3. ASSUME NEW h \in Hook, Fire(h) \/ HookStep(h) \/ GiveUp(h) PROVE Shown'
  BY <1>2, <1>3 DEF Fire, HookStep, Look, Claim, Book, StartWorker, GiveUp, refs
<1>4. ASSUME NEW w \in Worker, WorkerStep(w) \/ Die(w) PROVE Shown'
  <2>1. UNCHANGED <<origin, changes>>
    BY <1>4 DEF WorkerStep, Ask, ListRemote, TipsBefore, Fetch, AfterRefused, Enter, LoseReport,
       RecordOutcome, Die, refs
  <2>2. /\ NoJob.there = NoTips
        /\ \A names : [NoJob EXCEPT !.reads = names, !.watch = names].there = NoTips
        /\ \A names : [NoJob EXCEPT !.watch = names].there = NoTips
    BY DEF NoJob
  <2>3. \A kind, missed :
          [NoJob EXCEPT !.outcome = Outcome(kind, missed), !.watch = job[w].watch,
                        !.there = job[w].there].there = job[w].there
    BY DEF NoJob
  <2>4. \A kind, missed : Report(w, kind, missed) => Shown'
    BY <1>1, <2>1, <2>3 DEF Report
  <2>5. Done(w) => Shown'
    BY <1>1, <2>1, <2>2 DEF Done
  <2>6. CASE Ask(w)
    BY <1>1, <2>1, <2>2, <2>6 DEF Ask
  <2>7. CASE ListRemote(w)
    <3>1. \A known, branches :
            [job[w] EXCEPT !.found = known, !.goal = branches, !.there = origin.tips].there
              = origin.tips
      BY <1>0 DEF Jobs
    <3> QED
      BY <1>1, <2>1, <2>4, <2>7, <3>1 DEF ListRemote
  <2>8. CASE TipsBefore(w)
    <3>1. \A seen : [job[w] EXCEPT !.before = seen].there = job[w].there
      BY <1>0 DEF Jobs
    <3> QED
      BY <1>1, <2>1, <2>8, <3>1 DEF TipsBefore
  <2>9. CASE Fetch(w) \/ AfterRefused(w)
    BY <1>2, <2>1, <2>4, <2>9 DEF Fetch, Refused, AfterRefused
  <2>10. CASE Enter(w)
    BY <1>2, <2>10 DEF Enter, refs
  <2>11. CASE LoseReport(w) \/ RecordOutcome(w) \/ Die(w)
    BY <2>5, <2>11 DEF LoseReport, RecordOutcome, Die
  <2> QED
    BY <1>4, <2>6, <2>7, <2>8, <2>9, <2>10, <2>11 DEF WorkerStep
<1>5. CASE OriginChanges
  <2>1. PICK b \in cast.moving : Push(b) \/ Delete(b) \/ Rename(b)
    BY <1>5 DEF OriginChanges
  <2>2. b \in Branch
    BY CastFacts DEF WorldOK
  <2>3. changes' = changes + 1 /\ job' = job
    BY <1>5, <2>1 DEF OriginChanges, Push, Delete, Rename, Change
  <2>4. \A c \in Branch : origin'.tips[c] \in {origin.tips[c], 0, changes + 1}
    BY <1>0, <2>1, <2>2 DEF Push, Delete, Rename, Change, WorldOK, Tips
  <2> QED
    BY <1>0, <2>3, <2>4 DEF Shown
<1>6. CASE OwnFetch \/ Tick \/ SetBack \/ UNCHANGED vars
  BY <1>2, <1>6 DEF OwnFetch, Tick, SetBack, vars, refs
<1> QED
  BY <1>3, <1>4, <1>5, <1>6 DEF Next

\* A worker that has nothing to report knows enough at these steps.
LEMMA IdleKnows ==
  ASSUME NEW w \in Worker, pc'[w] \in {"idle", "ask"}, job'[w].outcome.kind # "fetched"
  PROVE  Knows(w)'
BY DEF Knows, Fetched

LEMMA ElsewhereKnows ==
  ASSUME Types, Knowing, Sighted,
         \/ \E h \in Hook : Fire(h) \/ HookStep(h) \/ GiveUp(h)
         \/ OriginChanges \/ OwnFetch \/ Tick \/ SetBack \/ UNCHANGED vars,
         NEW w \in Worker
  PROVE  Knows(w)'
<1> USE DEF Types, Knowing
<1>1. ASSUME UNCHANGED <<clone, job>>, pc'[w] = pc[w] PROVE Knows(w)'
  BY <1>1, StaysKnowing
<1>2. ASSUME NEW h \in Hook, Fire(h) \/ HookStep(h) \/ GiveUp(h) PROVE Knows(w)'
  <2>0. w # h /\ w \in Proc /\ pc \in [Proc -> HookLabels \cup WorkerLabels] /\ w \in DOMAIN pc
    BY FetchAssumption DEF Proc, WorkOK
  <2>1. UNCHANGED <<clone, job>>
    BY <1>2 DEF Fire, HookStep, Look, Claim, Book, StartWorker, GiveUp, refs
  <2>2. CASE StartWorker(h)
    <3>1. PICK v \in cast.workers : At(v, "idle") /\ pc' = [pc EXCEPT ![h] = "idle", ![v] = "ask"]
      BY <2>2 DEF StartWorker
    <3>2. CASE v = w
      <4>1. pc'[w] = "ask" /\ pc[w] = "idle"
        BY <2>0, <3>1, <3>2 DEF At
      <4>2. ~Fetched(w)
        BY <4>1 DEF Knows
      <4> QED  BY <2>1, <4>1, <4>2, IdleKnows DEF Fetched
    <3>3. CASE v # w
      <4>1. pc'[w] = pc[w]
        BY <2>0, <3>1, <3>3
      <4> QED  BY <1>1, <2>1, <4>1
    <3> QED  BY <3>2, <3>3
  <2>3. CASE ~StartWorker(h)
    <3>1. pc'[w] = pc[w]
      BY <1>2, <2>0, <2>3 DEF Fire, HookStep, Look, Claim, Book, GiveUp, Leave, Goto
    <3> QED  BY <1>1, <2>1, <3>1
  <2> QED  BY <2>2, <2>3
<1>3. CASE OwnFetch
  <2>1. \A b \in Branch : clone'.tips[b] = clone.tips[b] \/ clone'.tips[b] >= job[w].there[b]
    BY <1>3, TipsRise DEF OwnFetch
  <2> QED
    BY <1>3, <2>1, StaysKnowing DEF OwnFetch
<1>4. CASE OriginChanges \/ Tick \/ SetBack \/ UNCHANGED vars
  BY <1>1, <1>4 DEF OriginChanges, Tick, SetBack, vars, refs
<1> QED  BY <1>2, <1>3, <1>4

\* A report keeps what the stop read and what origin showed.
LEMMA ReportKnows ==
  ASSUME Types, NEW w \in Worker, NEW kind, NEW missed, Report(w, kind, missed),
         kind = "fetched" =>
           \A b \in job[w].watch \ missed : clone'.tips[b] >= job[w].there[b]
  PROVE  Knows(w)'
<1>1. pc'[w] = "report"
  BY DEF Report, Goto, Types, WorkOK, Proc
<1>2. job'[w] = [NoJob EXCEPT !.outcome = Outcome(kind, missed), !.watch = job[w].watch,
                              !.there = job[w].there]
  BY DEF Report, Note, Types, WorkOK
<1>3. /\ job'[w].outcome.kind = kind /\ job'[w].outcome.missed = missed
      /\ job'[w].watch = job[w].watch /\ job'[w].there = job[w].there
  BY <1>2 DEF NoJob, Outcome
<1> QED  BY <1>1, <1>3 DEF Knows, Fetched

LEMMA WorkerKnows ==
  ASSUME Types, Knowing, Sighted, NEW w \in Worker, WorkerStep(w) \/ Die(w)
  PROVE  Knows(w)'
<1> USE DEF Types, Knowing
<1>0. /\ w \in Proc /\ pc[w] \in WorkerLabels /\ job[w] \in Jobs /\ Knows(w)
      /\ \A next : Note(w, next) => job'[w] = next
      /\ \A label : Goto(w, label) => pc'[w] = label
  BY DEF WorkOK, Proc, Note, Goto
<1>a. ASSUME Done(w) PROVE Knows(w)'
  BY <1>0, <1>a, IdleKnows DEF Done, NoJob, NeverFetched, Outcome
<1>b. ~May("blind")
  BY DEF Sighted, May
<1>c. ASSUME NEW branches, NEW seen, Listed(branches, seen) PROVE seen = TipsOf(branches)
  BY <1>b, <1>c DEF Listed
<1>1. CASE Ask(w)
  <2>1. job'[w] = [NoJob EXCEPT !.reads = LandingRefs, !.watch = LandingRefs] /\ pc'[w] = "list"
    BY <1>0, <1>1, <1>b DEF Ask
  <2>2. job'[w].reads = job'[w].watch /\ ~Fetched(w)'
    BY <2>1 DEF NoJob, NeverFetched, Outcome, Fetched
  <2> QED  BY <2>1, <2>2 DEF Knows
<1>2. CASE ListRemote(w)
  <2> DEFINE known == Answer(origin, Candidates(cast.setting) \cup job[w].reads)
             branches == BranchesToFetch(job[w].reads, known)
             next == [job[w] EXCEPT !.found = known, !.goal = branches, !.there = origin.tips]
  <2>0. job[w].reads = job[w].watch /\ job[w].watch \subseteq Branch /\ ~Fetched(w)
    BY <1>0, <1>2 DEF ListRemote, At, Knows, Jobs
  <2>1. CASE Report(w, "skipped", {}) \/ Report(w, "failed", {})
    BY <2>1, ReportKnows
  <2>2. CASE Note(w, next) /\ Goto(w, "before")
    <3>1. known \in Tips /\ branches \subseteq Branch
      BY AnswerType, SelectionType DEF WorldOK, BranchesToFetch, Existing
    <3>2. \A b \in branches : known.tips[b] = origin.tips[b]
      <4>1. \A b \in branches : known.tips[b] # 0
        BY DEF BranchesToFetch, Existing
      <4> QED  BY <3>1, <4>1, AnswerType DEF WorldOK
    <3>3. \A b \in job[w].watch \ branches : origin.tips[b] = 0
      <4>1. \A b \in job[w].watch : known.tips[b] = origin.tips[b]
        BY <2>0, AnswerType DEF WorldOK
      <4>2. \A b \in job[w].watch \ branches : b \notin Existing(known)
        BY <2>0 DEF BranchesToFetch
      <4> QED  BY <2>0, <4>1, <4>2 DEF Existing
    <3>4. /\ job'[w].watch = job[w].watch /\ job'[w].reads = job[w].reads
          /\ job'[w].goal = branches /\ job'[w].found = known /\ job'[w].there = origin.tips
          /\ job'[w].outcome = job[w].outcome /\ pc'[w] = "before"
      BY <1>0, <2>2 DEF Jobs
    <3> HIDE DEF known, branches, next
    <3> QED
      BY <2>0, <3>2, <3>3, <3>4 DEF Knows, Fetched
  <2> QED  BY <1>2, <2>1, <2>2 DEF ListRemote
<1>3. CASE TipsBefore(w)
  <2>1. /\ job'[w] = [job[w] EXCEPT !.before = TipsOf(job[w].goal)] /\ pc'[w] = "fetch"
        /\ clone' = clone /\ pc[w] = "before"
    BY <1>0, <1>3, <1>c DEF TipsBefore, refs, At
  <2>2. /\ job'[w].before = TipsOf(job[w].goal) /\ job'[w].goal = job[w].goal
        /\ job'[w].watch = job[w].watch /\ job'[w].reads = job[w].reads
        /\ job'[w].there = job[w].there /\ job'[w].found = job[w].found
        /\ job'[w].outcome = job[w].outcome /\ job[w].goal \subseteq Branch
    BY <1>0, <2>1 DEF Jobs
  <2>3. \A b \in job[w].goal : job'[w].before[b] = clone.tips[b]
    BY <2>2 DEF TipsOf
  <2> QED
    BY <1>0, <2>1, <2>2, <2>3 DEF Knows, Fetched
<1>4. CASE Fetch(w)
  <2>0. /\ pc[w] = "fetch" /\ ~Fetched(w) /\ job[w].goal \subseteq Branch
        /\ job[w].watch \subseteq Branch
    BY <1>0, <1>4 DEF Fetch, At, Knows, Jobs
  <2>1. \/ UNCHANGED clone
        \/ \E part \in SUBSET Existing(origin) : Moves(part)
    BY <1>4, <2>0 DEF Fetch
  <2>2. CASE Refused(w)
    <3>1. pc'[w] = "after" /\ job' = job
      BY <1>0, <2>2 DEF Refused
    <3>2. \A b \in Branch : clone'.tips[b] = clone.tips[b] \/ clone'.tips[b] >= job[w].there[b]
      BY <2>1, TipsRise
    <3> QED
      BY <1>0, <2>0, <3>1, <3>2 DEF Knows, Fetched
  <2>3. CASE job[w].goal \ Existing(origin) = {} /\ Moves(job[w].goal) /\ Report(w, "fetched", {})
    <3>1. \A b \in job[w].goal : clone'.tips[b] >= job[w].there[b]
      BY <2>0, <2>3 DEF Moves, Existing, Shown, WorldOK, Tips
    <3>2. \A b \in job[w].watch \ job[w].goal : clone'.tips[b] >= job[w].there[b]
      BY <1>0, <2>0, <2>3 DEF Moves, Knows, WorldOK, Tips
    <3> QED  BY <2>3, <3>1, <3>2, ReportKnows
  <2>4. CASE Report(w, "failed", {})
    BY <2>4, ReportKnows
  <2> QED  BY <1>4, <2>2, <2>3, <2>4 DEF Fetch
<1>5. CASE AfterRefused(w)
  <2> DEFINE after == TipsOf(job[w].goal)
             moved == {b \in job[w].goal : after[b] # job[w].before[b]}
  <2>1. /\ Report(w, "failed", {}) \/ Report(w, "fetched", Missed(w, after, moved))
        /\ clone' = clone /\ pc[w] = "after"
    BY <1>5, <1>c DEF AfterRefused, refs, At
  <2>2. job[w].goal \subseteq Branch /\ job[w].watch \subseteq Branch
    BY <1>0 DEF Jobs
  <2>3. \A b \in job[w].goal : after[b] = clone.tips[b]
    BY <2>2 DEF TipsOf
  <2>4. \A b \in job[w].goal \ Missed(w, after, moved) : clone.tips[b] >= job[w].there[b]
    <3> SUFFICES ASSUME NEW b \in job[w].goal, b \notin Missed(w, after, moved)
                 PROVE  clone.tips[b] >= job[w].there[b]
      OBVIOUS
    <3>0. clone.tips[b] \in Nat /\ job[w].there[b] \in Nat
      BY <1>0, <2>2 DEF WorldOK, Tips, Jobs
    <3>1. CASE b \in moved
      BY <1>0, <2>1, <2>3, <3>1 DEF Knows
    <3>2. CASE b \notin moved
      BY <1>0, <2>1, <2>3, <3>0, <3>2 DEF Missed, Knows
    <3> QED  BY <3>1, <3>2
  <2>5. \A b \in job[w].watch \ job[w].goal : clone.tips[b] >= job[w].there[b]
    BY <1>0, <2>1, <2>2 DEF Knows, WorldOK, Tips
  <2> HIDE DEF after, moved
  <2> QED  BY <2>1, <2>4, <2>5, ReportKnows
<1>6. CASE Enter(w)
  <2>1. pc'[w] = "write" /\ pc[w] = "report" /\ UNCHANGED <<clone, job>>
    BY <1>0, <1>6 DEF Enter, At, refs
  <2> QED  BY <1>0, <2>1 DEF Knows, Fetched
<1>7. CASE LoseReport(w) \/ RecordOutcome(w) \/ Die(w)
  BY <1>7, <1>a DEF LoseReport, RecordOutcome, Die
<1> QED
  BY <1>1, <1>2, <1>3, <1>4, <1>5, <1>6, <1>7 DEF WorkerStep

\* Nor does it disturb another worker.
LEMMA OtherWorkerKnows ==
  ASSUME Types, Knowing, Sighted, NEW w \in Worker, WorkerStep(w) \/ Die(w),
         NEW v \in Worker, v # w
  PROVE  Knows(v)'
<1> USE DEF Types, Knowing
<1>1. ASSUME NEW next, Note(w, next) \/ UNCHANGED job PROVE job'[v] = job[v]
  BY <1>1 DEF Note, WorkOK
<1>2. ASSUME NEW label, Goto(w, label) PROVE pc'[v] = pc[v]
  BY <1>2 DEF Goto, WorkOK, Proc
<1>3. job'[v] = job[v] /\ pc'[v] = pc[v]
  <2>1. \A kind, missed : Report(w, kind, missed) => job'[v] = job[v] /\ pc'[v] = pc[v]
    BY <1>1, <1>2 DEF Report
  <2>2. Done(w) => job'[v] = job[v] /\ pc'[v] = pc[v]
    BY <1>1, <1>2 DEF Done
  <2>3. Refused(w) => job'[v] = job[v] /\ pc'[v] = pc[v]
    BY <1>1, <1>2 DEF Refused
  <2>4. CASE Ask(w) \/ TipsBefore(w) \/ Enter(w)
    BY <1>1, <1>2, <2>4 DEF Ask, TipsBefore, Enter
  <2>5. CASE ListRemote(w) \/ Fetch(w) \/ AfterRefused(w)
    BY <1>1, <1>2, <2>1, <2>3, <2>5 DEF ListRemote, Fetch, AfterRefused
  <2>6. CASE LoseReport(w) \/ RecordOutcome(w) \/ Die(w)
    BY <2>2, <2>6 DEF LoseReport, RecordOutcome, Die
  <2> QED  BY <2>4, <2>5, <2>6 DEF WorkerStep
<1>4. \A b \in Branch : clone'.tips[b] = clone.tips[b] \/ clone'.tips[b] >= job[v].there[b]
  <2>1. CASE UNCHANGED clone
    BY <2>1
  <2>2. CASE Fetch(w)
    <3>1. \/ UNCHANGED clone
          \/ \E part \in SUBSET Existing(origin) : Moves(part)
      BY <2>2 DEF Fetch
    <3> QED  BY <3>1, TipsRise
  <2> QED
    BY <2>1, <2>2 DEF WorkerStep, Ask, ListRemote, TipsBefore, AfterRefused, Enter, LoseReport,
       RecordOutcome, Die, refs
<1> QED  BY <1>3, <1>4, StaysKnowing

LEMMA KnowingStep == Types /\ Knowing /\ [Next]_vars => Knowing'
<1> SUFFICES ASSUME Types, Knowing, [Next]_vars PROVE Knowing'
  OBVIOUS
<1>1. Shown' /\ (Sighted' <=> Sighted)
  BY ShownStep, CastStays DEF Knowing, Sighted
<1>2. ASSUME Sighted, NEW w \in Worker PROVE Knows(w)'
  BY <1>2, ElsewhereKnows, WorkerKnows, OtherWorkerKnows DEF Next
<1> QED  BY <1>1, <1>2 DEF Knowing

(* For any branches, hooks, workers and faults, but for a git that does not *)
(* answer about the clone: a run reported as fetched left no branch the     *)
(* stop reads, but those it names, short of what origin had when asked.     *)
THEOREM FetchedIsCurrent == Spec => []FetchedIsTrue
<1>1. Knowing => FetchedIsTrue
  BY DEF Knowing, Knows, Fetched, Sighted, FetchedIsTrue
<1>2. QED  BY InitTypes, InitKnowing, StepTypes, KnowingStep, <1>1, PTL DEF Spec
=============================================================================
