------------------------- MODULE ClaimValidityProof -------------------------
(* A downgrade of a claim is final and is never wrong, and a claim that is  *)
(* called current has earned it, for any claims, clones, commits, pulls and *)
(* caps.                                                                    *)
EXTENDS ClaimValidity, TLAPS

LEMMA CastType ==
  ASSUME cast \in Casts
  PROVE  /\ Claims \subseteq Claim
         /\ \A c \in Claims : About(c) \in Brief
         /\ cast.touches \in Seq(SUBSET Path)
         /\ cast.start \in 0..Len(cast.touches)
         /\ cast.files \subseteq Path
<1>1. cast.touches \in Seq(SUBSET cast.tracked) /\ cast.tracked \subseteq Path
  BY ValidityAssumption
<1>2. cast.touches \in Seq(SUBSET Path)
  <2>1. /\ Len(cast.touches) \in Nat /\ DOMAIN cast.touches = 1..Len(cast.touches)
        /\ \A i \in 1..Len(cast.touches) : cast.touches[i] \in SUBSET cast.tracked
    BY <1>1
  <2>2. cast.touches = [i \in 1..Len(cast.touches) |-> cast.touches[i]]
    BY <1>1
  <2> QED  BY <1>1, <2>1, <2>2
<1> QED  BY <1>2, ValidityAssumption DEF Claims, About

LEMMA NoneIsNoClaim == ASSUME cast \in Casts PROVE None \notin Claims
  BY CastType, ValidityAssumption

-----------------------------------------------------------------------------
(* Types.                                                                   *)

LEMMA PlanType ==
  ASSUME TypeOK
  PROVE  Plan \subseteq Groups
<1>1. ASSUME NEW c \in Measurable
      PROVE  /\ GroupKey(c).at \in Nat /\ GroupKey(c).guest \in BOOLEAN
             /\ GroupKey(c).paths \in SUBSET Path
  <2>1. c \in Claims /\ About(c) \in Brief /\ answer[c] = c
    BY <1>1, CastType DEF Measurable, Stored, TypeOK
  <2>2. bound[c] \in Bindings
    BY <1>1, <2>1 DEF Measurable, TypeOK
  <2>3. Surface(c) \in SUBSET Path
    BY <2>1 DEF Surface, Capped, Brief, TypeOK
  <2> QED  BY <2>1, <2>2, <2>3 DEF GroupKey, Bindings, Brief
<1>2. ASSUME NEW c PROVE Dropped(c) \in SUBSET Path
  BY DEF Dropped, TypeOK
<1>3. ASSUME NEW k PROVE Group(k) \in SUBSET Claims
  BY DEF Group, Measurable, Stored
<1>4. ASSUME NEW g \in Plan PROVE g \in Groups
  <2>1. PICK c \in Measurable :
          g = [at |-> GroupKey(c).at, guest |-> GroupKey(c).guest, paths |-> GroupKey(c).paths,
               dropped |-> Dropped(Lead(GroupKey(c))), claims |-> Group(GroupKey(c))]
    BY <1>4 DEF Plan
  <2> QED  BY <1>1, <1>2, <1>3, <2>1 DEF Groups
<1> QED  BY <1>4

LEMMA DriftType ==
  ASSUME NEW group, NEW to
  PROVE  Drift(group, to) \in Results
  BY DEF Drift, Results

LEMMA NoPullType == NoPull \in Pulls
<1>1. [c \in {} |-> None] \in [{} -> Results] /\ {} \in SUBSET Claims
  OBVIOUS
<1> QED  BY <1>1 DEF NoPull, Pulls

LEMMA InitType == Init => TypeOK
<1> SUFFICES ASSUME Init PROVE TypeOK
  OBVIOUS
<1>1. main \in 0..Len(cast.touches) /\ main \in Nat
  BY CastType DEF Init
<1>2. None \notin Claims
  BY NoneIsNoClaim DEF Init
<1>3. cast \in Casts /\ \A c \in Stored : FALSE
  BY <1>2 DEF Init, Stored
<1> QED  BY <1>1, <1>3, NoPullType DEF Init, TypeOK

\* A claim that is stored is answered with its own id, which is not None.
LEMMA StoredIsAnswered ==
  ASSUME TypeOK, NEW c \in Stored
  PROVE  c \in Claims /\ answer[c] = c /\ answer[c] # None
  BY NoneIsNoClaim DEF Stored, TypeOK

LEMMA BranchType ==
  ASSUME TypeOK,
         \/ Land
         \/ \E d \in Dev : FetchOrigin(d) \/ Checkout(d) \/ Register(d)
  PROVE  TypeOK'
<1> DEFINE TypesStand ==
      /\ main' \in 0..Len(cast'.touches)
      /\ ref' \in [Dev -> Nat] /\ head' \in [Dev -> Nat] /\ base' \in [Dev -> Nat]
      /\ UNCHANGED <<cast, written, seen, answer, bound, tree, reading, pull>>
<1>1. TypesStand
  <2>1. CASE Land
    BY <2>1, CastType DEF TypeOK, Land, records, tree
  <2>2. ASSUME NEW d \in Dev, FetchOrigin(d) PROVE TypesStand
    <3>1. main \in Nat
      BY CastType DEF TypeOK
    <3> QED  BY <2>2, <3>1 DEF TypeOK, FetchOrigin, records, tree
  <2>3. ASSUME NEW d \in Dev, Register(d) PROVE TypesStand
    BY <2>3 DEF TypeOK, Register, clones, tree
  <2>4. ASSUME NEW d \in Dev, Checkout(d) PROVE TypesStand
    <3>1. PICK n \in 1..ref[d] : head' = [head EXCEPT ![d] = n]
      BY <2>4 DEF Checkout
    <3>2. n \in Nat
      OBVIOUS
    <3> QED  BY <2>4, <3>1, <3>2 DEF Checkout, TypeOK, records, tree
  <2> QED  BY <2>1, <2>2, <2>3, <2>4
<1> QED  BY <1>1 DEF TypeOK, Claims, Stored, tree, Pulls, Groups

LEMMA ClaimType ==
  ASSUME TypeOK, NEW c \in Claims, Write(c) \/ IngestClaim(c) \/ Expire(c)
  PROVE  TypeOK'
<1>1. CASE Write(c)
  <2>1. written' \in Seq(Claims) /\ seen' \in [Claims -> Nat]
    <3>1. head[About(c).author] \in Nat
      BY CastType DEF TypeOK, Brief
    <3> QED  BY <1>1, <3>1 DEF TypeOK, Write
  <2> QED  BY <1>1, <2>1 DEF TypeOK, Write, Claims, Stored, clones, tree, Pulls, Groups
<1>2. CASE IngestClaim(c)
  <2>1. CommitBinding(c) \in Bindings
    BY CastType DEF CommitBinding, Binding, Bindings, TypeOK, Brief
  <2>2. /\ answer' \in [Claims -> Claims \cup {None}]
        /\ bound' \in [Claims -> Bindings \cup {None}]
        /\ \A o \in Claims : answer'[o] = o => bound'[o] \in Bindings
    <3>1. /\ answer[c] = None /\ None \notin Claims
          /\ \A o \in DedupMatch(c) : o \in Claims /\ answer[o] = o
      BY <1>2, NoneIsNoClaim DEF IngestClaim, DedupMatch, Stored, TypeOK
    <3>2. CASE answer' = [answer EXCEPT ![c] = c] /\ bound' = [bound EXCEPT ![c] = CommitBinding(c)]
      BY <2>1, <3>2 DEF TypeOK, Stored
    <3>3. CASE \E o \in DedupMatch(c) : answer' = [answer EXCEPT ![c] = o] /\ UNCHANGED bound
      BY <3>1, <3>3 DEF TypeOK, Stored
    <3> QED  BY <1>2, <3>2, <3>3 DEF IngestClaim
  <2> QED  BY <1>2, <2>2 DEF TypeOK, IngestClaim, Claims, Stored, clones, tree, Pulls, Groups
<1>3. CASE Expire(c)
  <2>1. reading' \in [Claims -> Readings \cup {None}]
    <3>1. reading[c] \in Readings /\ [reading[c] EXCEPT !.fresh = FALSE] \in Readings
      BY <1>3 DEF Expire, TypeOK, Readings
    <3> QED  BY <1>3, <3>1 DEF Expire, TypeOK
  <2> QED  BY <1>3, <2>1 DEF TypeOK, Expire, Claims, Stored, clones, records, tree, Pulls, Groups
<1> QED  BY <1>1, <1>2, <1>3

LEMMA TreeType ==
  ASSUME TypeOK,
         \/ \E new, old \in Claims : IngestEdge(new, old)
         \/ \E p \in Path : AddTarget(p)
  PROVE  TypeOK'
  BY DEF TypeOK, IngestEdge, AddTarget, Claims, Stored, clones, records, Pulls, Groups

\* What a report leaves in a row is a reading.
LEMMA IngestedType ==
  ASSUME TypeOK, NEW d \in Dev
  PROVE  Ingested(d) \in [Claims -> Readings \cup {None}]
<1>1. ASSUME NEW c \in DOMAIN pull[d].found
      PROVE  c \in Claims /\ pull[d].found[c] \in Results
  BY <1>1 DEF TypeOK, Pulls
<1>2. ASSUME NEW c \in DOMAIN pull[d].found
      PROVE  Upsert(d, c) \in Readings \cup {None}
  BY <1>1, <1>2, CastType DEF Upsert, TypeOK, Pulls, Readings, Brief
<1> QED  BY <1>2 DEF Ingested, Prune, TypeOK

LEMMA PullType ==
  ASSUME TypeOK, NEW d \in Dev, Pull(d)
  PROVE  TypeOK'
<1>1. /\ UNCHANGED <<cast, clones, records, tree>>
      /\ reading' \in [Claims -> Readings \cup {None}]
  BY IngestedType DEF TypeOK, Pull, FetchDiagnosis, NameRef, NoDefaultRef, RunRevalidate,
     WalkTree, Measure, Report
<1>2. pull[d] \in Pulls
  BY DEF TypeOK
<1>3. \E next \in Pulls : pull' = [pull EXCEPT ![d] = next]
  <2>1. ASSUME NEW pc \in {"fetched", "resolved"} PROVE Fetched(d, pc) \in Pulls
    <3>1. Overlooked \in SUBSET Claims
      BY DEF Overlooked, Measurable, Stored
    <3> QED  BY <1>2, <3>1, NoPullType, PlanType DEF Fetched, Pulls, TypeOK
  <2>2. CASE NameRef(d) \/ RunRevalidate(d)
    BY <1>2, <2>2, NoPullType DEF NameRef, RunRevalidate, Step, Pulls, TypeOK
  <2>3. CASE Measure(d)
    <3> DEFINE measured == UNION {g.claims : g \in pull[d].plan}
    <3>1. measured \in SUBSET Claims
      BY <1>2 DEF Pulls, Groups
    <3>2. ASSUME NEW failed PROVE Verdicts(d, failed) \in [measured -> Results]
      BY DriftType DEF Verdicts, Results
    <3>3. PICK failed \in SUBSET pull[d].plan :
            Step(d, [pull[d] EXCEPT !.pc = "measured", !.plan = {}, !.found = Verdicts(d, failed)])
      BY <2>3 DEF Measure
    <3>4. Verdicts(d, failed) \in UNION {[S -> Results] : S \in SUBSET Claims}
      <4> HIDE DEF measured
      <4> QED  BY <3>1, <3>2
    <3>5. [pull[d] EXCEPT !.pc = "measured", !.plan = {}, !.found = Verdicts(d, failed)] \in Pulls
      BY <1>2, <3>4 DEF Pulls
    <3> QED  BY <3>3, <3>5 DEF Step
  <2> QED  BY <2>1, <2>2, <2>3, NoPullType
           DEF Pull, FetchDiagnosis, NoDefaultRef, WalkTree, Report, Step
<1>4. pull' \in [Dev -> Pulls]
  BY <1>3 DEF TypeOK
<1> QED  BY <1>1, <1>4 DEF TypeOK, Claims, Stored, clones, records, tree, Pulls, Groups

LEMMA TypeStep == TypeOK /\ [Next]_vars => TypeOK'
<1> SUFFICES ASSUME TypeOK, [Next]_vars PROVE TypeOK'
  OBVIOUS
<1>1. CASE UNCHANGED vars
  BY <1>1 DEF vars, TypeOK, Claims, Stored, clones, records, tree, Pulls, Groups
<1> QED  BY <1>1, BranchType, ClaimType, TreeType, PullType DEF Next

\* The variables hold what the code keeps in them.
THEOREM TypeCorrect == Spec => []TypeOK
  BY InitType, TypeStep, PTL DEF Spec

-----------------------------------------------------------------------------
(* A downgrade is final.                                                    *)

\* What each step leaves alone.
Quiet == UNCHANGED <<cast, main, answer, bound, superseded>>

\* What no step takes back: which claims are stored, what each is bound to, and
\* what a supersedes edge points at.
LEMMA RecordsStand ==
  ASSUME TypeOK, Next
  PROVE  /\ cast' = cast /\ main <= main' /\ superseded \subseteq superseded'
         /\ \A c \in Stored : c \in Stored' /\ bound'[c] = bound[c]
<1>1. main \in Nat
  BY CastType DEF TypeOK
<1> DEFINE Stand == /\ cast' = cast /\ main <= main' /\ superseded \subseteq superseded'
                    /\ \A c \in Stored : c \in Stored' /\ bound'[c] = bound[c]
<1>2. Quiet => Stand
  BY <1>1 DEF Quiet, Stored, Claims
<1>3. Land => Stand
  BY <1>1 DEF Land, records, tree, Stored, Claims
<1>4. ASSUME NEW d \in Dev, FetchOrigin(d) \/ Checkout(d) \/ Register(d) \/ Pull(d)
      PROVE  Quiet
  <2>1. CASE Pull(d)
    BY <2>1 DEF Quiet, Pull, FetchDiagnosis, NameRef, NoDefaultRef, RunRevalidate, WalkTree,
       Measure, Report, clones, records, tree
  <2> QED  BY <1>4, <2>1 DEF Quiet, FetchOrigin, Checkout, Register, clones, records, tree
<1>5. ASSUME NEW c \in Claims, Write(c) \/ Expire(c) PROVE Quiet
  BY <1>5 DEF Quiet, Write, Expire, clones, records, tree
<1>6. ASSUME NEW p \in Path, AddTarget(p) PROVE Quiet
  BY <1>6 DEF Quiet, AddTarget, clones, records
<1>7. ASSUME NEW new \in Claims, NEW old \in Claims, IngestEdge(new, old) PROVE Stand
  BY <1>1, <1>7 DEF IngestEdge, clones, records, Stored, Claims
<1>8. ASSUME NEW c \in Claims, IngestClaim(c) PROVE Stand
  <2>1. UNCHANGED <<cast, main, superseded>>
    BY <1>8 DEF IngestClaim, clones, tree
  <2>2. ASSUME NEW o \in Stored PROVE o # c /\ answer'[o] = answer[o] /\ bound'[o] = bound[o]
    BY <1>8, <2>2, StoredIsAnswered DEF IngestClaim, TypeOK
  <2> QED  BY <1>1, <2>1, <2>2 DEF Stored, Claims
<1> HIDE DEF Stand
<1>9. Stand
  BY <1>2, <1>3, <1>4, <1>5, <1>6, <1>7, <1>8 DEF Next
<1> QED  BY <1>9 DEF Stand

\* A measured downgrade outlives every report and all retention.
LEMMA ChangedStands ==
  ASSUME TypeOK, Next, NEW c \in Claims, reading[c] # None, reading[c].result = "changed"
  PROVE  reading'[c] # None /\ reading'[c].result = "changed"
<1> DEFINE Stands == reading'[c] # None /\ reading'[c].result = "changed"
<1>1. reading[c] \in Readings /\ None \notin Readings
  BY ValidityAssumption DEF TypeOK
<1>2. (UNCHANGED reading) => Stands
  OBVIOUS
<1>3. ASSUME NEW o \in Claims, Expire(o) PROVE Stands
  <2>1. CASE o = c
    <3>1. [reading[c] EXCEPT !.fresh = FALSE] \in Readings
      BY <1>1 DEF Readings
    <3> QED  BY <1>1, <1>3, <2>1, <3>1 DEF Expire, TypeOK, Readings
  <2> QED  BY <1>3, <2>1 DEF Expire, TypeOK
<1>4. ASSUME NEW d \in Dev, reading' = Ingested(d) PROVE Stands
  <2>1. CASE c \in DOMAIN pull[d].found
    <3>1. /\ Upsert(d, c) \in Readings \cup {None} /\ Upsert(d, c) # None
          /\ Upsert(d, c).result = "changed"
      <4>1. pull[d].found[c] \in Results /\ pull[d].ref \in Nat /\ pull[d].files \in SUBSET Path
        BY <2>1 DEF TypeOK, Pulls
      <4>2. About(c) \in Brief
        BY CastType DEF TypeOK
      <4>3. CASE Upsert(d, c) = reading[c]
        BY <1>1, <4>3
      <4>4. CASE Upsert(d, c) # reading[c]
        <5>1. Upsert(d, c) \in Readings /\ Upsert(d, c).result = pull[d].found[c]
              /\ pull[d].found[c] = "changed"
          BY <1>1, <4>1, <4>2, <4>4 DEF Upsert, Wins, Readings, Brief
        <5> QED  BY <1>1, <5>1
      <4> QED  BY <4>3, <4>4
    <3> QED  BY <1>4, <2>1, <3>1 DEF Ingested, Prune
  <2>2. CASE c \notin DOMAIN pull[d].found
    BY <1>4, <2>2 DEF Ingested, Prune
  <2> QED  BY <2>1, <2>2
<1>5. ASSUME NEW d \in Dev, Pull(d) PROVE (UNCHANGED reading) \/ reading' = Ingested(d)
  BY <1>5 DEF Pull, FetchDiagnosis, NameRef, NoDefaultRef, RunRevalidate, WalkTree, Measure, Report
<1>6. \/ UNCHANGED reading
      \/ \E o \in Claims : Expire(o)
      \/ \E d \in Dev : reading' = Ingested(d)
  BY <1>5 DEF Next, Land, FetchOrigin, Checkout, Register, Write, IngestClaim, IngestEdge,
     AddTarget
<1> QED  BY <1>2, <1>3, <1>4, <1>6

\* No step makes a claim assertable again that has come not to be, in whatever
\* order the reports of however many clones arrive (claim-revalidations.ts:273).
THEOREM DowngradeIsFinal == Spec => DowngradeStands
<1>1. TypeOK /\ [Next]_vars => [\A c \in Stored : ~Assertable(c) => ~Assertable(c)']_vars
  <2> SUFFICES ASSUME TypeOK, Next, NEW c \in Stored, ~Assertable(c)
               PROVE  ~Assertable(c)'
    OBVIOUS
  <2>1. c \in Claims /\ cast' = cast /\ bound'[c] = bound[c] /\ superseded \subseteq superseded'
    BY RecordsStand DEF Stored
  <2>2. CASE bound[c].kind = "none"
    BY <2>1, <2>2 DEF Assertable
  <2>3. CASE c \in superseded
    BY <2>1, <2>3 DEF Assertable, State, StateUnder, NonCurrent
  <2>4. CASE About(c).retracted /\ c \notin superseded
    BY <2>1, <2>4 DEF Assertable, State, StateUnder, NonCurrent, About
  <2>5. CASE /\ bound[c].kind # "none" /\ c \notin superseded /\ ~About(c).retracted
    <3>1. reading[c] # None /\ reading[c].result = "changed"
      BY <2>5 DEF Assertable, State, StateUnder, NonCurrent, Readable
    <3>2. reading'[c] # None /\ reading'[c].result = "changed"
      BY <2>1, <3>1, ChangedStands
    <3> QED  BY <2>1, <2>5, <3>2 DEF Assertable, State, StateUnder, NonCurrent, Readable, About
  <2> QED  BY <2>2, <2>3, <2>4, <2>5
<1> QED  BY <1>1, TypeCorrect, PTL DEF Spec, DowngradeStands

-----------------------------------------------------------------------------
(* A downgrade is deserved: from the plan that a pull took to the row, what *)
(* is said of a claim is about the commit it is bound to and its own files. *)

\* The files the hub had for the claim when the context had these.
FilesOf(c, had) == IF Declared(c) THEN About(c).declares ELSE had

\* A stored claim, and a commit after its own that touched one of these files.
Touched(c, to, paths) == c \in Stored /\ Touching(bound[c].at, to, paths) # {}

BoundAsSeen ==
  /\ \A c \in Claims : answer[c] # None => c \in Range(written)
  /\ \A c \in Stored : About(c).stated => bound[c].at = seen[c]

PlanHolds(p) ==
  \A g \in p.plan : \A c \in g.claims :
    c \in Stored /\ g.at = bound[c].at /\ g.paths \subseteq FilesOf(c, p.files)

FoundHolds(p) ==
  /\ p.pc # "measured" => DOMAIN p.found = {}
  /\ \A c \in DOMAIN p.found :
       p.found[c] = "changed" => Touched(c, p.ref, FilesOf(c, p.files))

PullsHold ==
  \A d \in Dev : /\ ref[d] <= main /\ pull[d].ref <= main
                 /\ PlanHolds(pull[d]) /\ FoundHolds(pull[d])

RowsHold ==
  \A c \in Claims :
    reading[c] # None /\ reading[c].result = "changed" => Touched(c, main, reading[c].of)

DeservedInv == TypeOK /\ BoundAsSeen /\ PullsHold /\ RowsHold

\* A later commit and more files touch no less.
LEMMA TouchedGrows ==
  ASSUME TypeOK, NEW c, NEW to \in Nat, NEW paths, Touched(c, to, paths),
         NEW later \in Nat, to <= later, NEW more, paths \subseteq more
  PROVE  Touched(c, later, more)
<1>1. bound[c].at \in Nat
  BY DEF Touched, TypeOK, Bindings
<1> QED  BY <1>1 DEF Touched, Touching

\* What a step leaves of it.
LEMMA TouchedStands ==
  ASSUME TypeOK, Next, NEW c, NEW to, NEW paths, Touched(c, to, paths)
  PROVE  Touched(c, to, paths)'
  BY RecordsStand DEF Touched, Touching

LEMMA FilesType ==
  ASSUME TypeOK, NEW c \in Claims, NEW had \in SUBSET Path
  PROVE  FilesOf(c, had) \in SUBSET Path
  BY CastType DEF TypeOK, FilesOf, Brief

LEMMA BoundStep == DeservedInv /\ Next => BoundAsSeen'
<1> SUFFICES ASSUME DeservedInv, Next PROVE BoundAsSeen'
  OBVIOUS
<1>1. TypeOK /\ BoundAsSeen
  BY DEF DeservedInv
<1>2. (UNCHANGED <<cast, written, seen, answer, bound>>) => BoundAsSeen'
  BY <1>1 DEF BoundAsSeen, Stored, Claims, About
<1>3. ASSUME NEW c \in Claims, Write(c) PROVE BoundAsSeen'
  <2>1. /\ c \notin Range(written) /\ UNCHANGED <<cast, answer, bound>>
        /\ seen' = [seen EXCEPT ![c] = head[About(c).author]]
        /\ written' = Append(written, c)
    BY <1>3 DEF Write, clones, tree
  <2>2. Range(written) \subseteq Range(written')
    <3>1. written \in Seq(Claims)
      BY <1>1 DEF TypeOK
    <3>2. /\ DOMAIN written \subseteq DOMAIN written'
          /\ \A i \in DOMAIN written : written'[i] = written[i]
      BY <2>1, <3>1
    <3> QED  BY <3>2 DEF Range
  <2>3. answer[c] = None /\ c \notin Stored
    BY <1>1, <2>1, NoneIsNoClaim DEF BoundAsSeen, Stored, TypeOK
  <2> QED  BY <1>1, <2>1, <2>2, <2>3 DEF BoundAsSeen, Stored, Claims, About, TypeOK
<1>4. ASSUME NEW c \in Claims, IngestClaim(c) PROVE BoundAsSeen'
  <2>1. c \in Range(written) /\ UNCHANGED <<cast, written, seen>>
    BY <1>4 DEF IngestClaim, clones, tree
  <2>2. /\ answer' = [answer EXCEPT ![c] = answer'[c]]
        /\ \/ bound' = [bound EXCEPT ![c] = CommitBinding(c)]
           \/ UNCHANGED bound /\ answer'[c] # c
    <3>1. CASE answer' = [answer EXCEPT ![c] = c] /\ bound' = [bound EXCEPT ![c] = CommitBinding(c)]
      BY <1>1, <3>1 DEF TypeOK
    <3>2. CASE \E o \in DedupMatch(c) : answer' = [answer EXCEPT ![c] = o] /\ UNCHANGED bound
      <4>1. answer[c] = None /\ \A o \in DedupMatch(c) : o # c
        BY <1>1, <1>4, StoredIsAnswered DEF IngestClaim, DedupMatch
      <4> QED  BY <1>1, <3>2, <4>1 DEF TypeOK
    <3> QED  BY <1>4, <3>1, <3>2 DEF IngestClaim
  <2>3. About(c).stated => CommitBinding(c).at = seen[c]
    BY DEF CommitBinding, Binding
  <2> QED  BY <1>1, <2>1, <2>2, <2>3 DEF BoundAsSeen, Stored, Claims, About, TypeOK
<1>5. \/ UNCHANGED <<cast, written, seen, answer, bound>>
      \/ \E c \in Claims : Write(c) \/ IngestClaim(c)
  <2>1. ASSUME NEW d \in Dev, Pull(d) PROVE UNCHANGED <<cast, written, seen, answer, bound>>
    BY <2>1 DEF Pull, FetchDiagnosis, NameRef, NoDefaultRef, RunRevalidate, WalkTree, Measure,
       Report, records
  <2> QED  BY <2>1 DEF Next, Land, FetchOrigin, Checkout, Register, IngestEdge, AddTarget,
           Expire, records
<1> QED  BY <1>2, <1>3, <1>4, <1>5

\* The plan the hub hands out is about the claims it names.
LEMMA PlanIsTrue ==
  ASSUME TypeOK, NEW g \in Plan, NEW c \in g.claims
  PROVE  c \in Stored /\ g.at = bound[c].at /\ g.paths \subseteq FilesOf(c, files)
<1>1. PICK m \in Measurable :
        g = [at |-> GroupKey(m).at, guest |-> GroupKey(m).guest, paths |-> GroupKey(m).paths,
             dropped |-> Dropped(Lead(GroupKey(m))), claims |-> Group(GroupKey(m))]
  BY DEF Plan
<1>2. /\ g.at = GroupKey(m).at /\ g.paths = GroupKey(m).paths
      /\ c \in Measurable /\ GroupKey(c) = GroupKey(m)
  BY <1>1 DEF Group
<1>3. g.at = bound[c].at /\ g.paths = Surface(c) /\ c \in Stored
  BY <1>2 DEF GroupKey, Measurable
<1> QED  BY <1>3 DEF Surface, Capped, FilesOf

\* What a pull says of a claim is what its clone shows of that claim's files.
LEMMA VerdictIsTrue ==
  ASSUME TypeOK, NEW d \in Dev, PlanHolds(pull[d]), NEW failed,
         NEW c \in DOMAIN Verdicts(d, failed), Verdicts(d, failed)[c] = "changed"
  PROVE  Touched(c, pull[d].ref, FilesOf(c, pull[d].files))
<1> DEFINE g == CHOOSE g \in pull[d].plan : c \in g.claims
<1>1. g \in pull[d].plan /\ c \in g.claims
  BY DEF Verdicts
<1>2. Drift(g, pull[d].ref) = "changed"
  BY DEF Verdicts
<1> HIDE DEF g
<1>3. Touching(g.at, pull[d].ref, g.paths) # {}
  BY <1>2 DEF Drift
<1>4. c \in Stored /\ g.at = bound[c].at /\ g.paths \subseteq FilesOf(c, pull[d].files)
  BY <1>1 DEF PlanHolds
<1>5. Touched(c, pull[d].ref, g.paths)
  BY <1>3, <1>4 DEF Touched
<1>6. pull[d].ref \in Nat
  BY DEF TypeOK, Pulls
<1> QED  BY <1>4, <1>5, <1>6, TouchedGrows

\* Each step of a pull keeps what it has in hand true.
LEMMA PullKeepsHold ==
  ASSUME DeservedInv, NEW d \in Dev, Pull(d)
  PROVE  \E next : /\ pull' = [pull EXCEPT ![d] = next]
                  /\ next.ref <= main /\ PlanHolds(next) /\ FoundHolds(next)
<1>1. /\ TypeOK /\ pull[d] \in Pulls /\ main \in Nat /\ ref[d] <= main /\ pull[d].ref <= main
      /\ PlanHolds(pull[d]) /\ FoundHolds(pull[d])
  BY CastType DEF DeservedInv, TypeOK, PullsHold
<1> DEFINE Holds(p) == p.ref <= main /\ PlanHolds(p) /\ FoundHolds(p)
<1>2. Holds(NoPull)
  BY <1>1 DEF NoPull, PlanHolds, FoundHolds
<1>3. ASSUME NEW pc \in {"fetched", "resolved"}, pull[d].pc # "measured"
      PROVE  Holds(Fetched(d, pc))
  <2>1. CASE Plan = {}
    BY <1>2, <2>1 DEF Fetched
  <2>2. CASE Plan # {}
    <3> DEFINE q == [pull[d] EXCEPT !.pc = pc, !.plan = Plan, !.files = files,
                             !.overlooked = Overlooked]
    <3>1. Fetched(d, pc) = q
      BY <2>2 DEF Fetched
    <3>2. /\ q.ref = pull[d].ref /\ q.plan = Plan /\ q.files = files
          /\ q.found = pull[d].found
      BY <1>1 DEF Pulls
    <3>3. DOMAIN pull[d].found = {}
      BY <1>1, <1>3 DEF FoundHolds
    <3> HIDE DEF q
    <3> QED  BY <1>1, <3>1, <3>2, <3>3, PlanIsTrue DEF PlanHolds, FoundHolds
  <2> QED  BY <2>1, <2>2
<1>4. CASE FetchDiagnosis(d) \/ WalkTree(d)
  BY <1>3, <1>4 DEF FetchDiagnosis, WalkTree, Asked, At, Step
<1>5. CASE NoDefaultRef(d) \/ Report(d)
  BY <1>2, <1>5 DEF NoDefaultRef, Report, Step
<1>6. CASE RunRevalidate(d)
  <2> DEFINE q == [NoPull EXCEPT !.pc = "walking", !.ref = ref[d]]
  <2>1. q.ref = ref[d] /\ q.plan = {} /\ DOMAIN q.found = {}
    BY DEF NoPull
  <2>2. pull' = [pull EXCEPT ![d] = q]
    BY <1>6 DEF RunRevalidate, Step
  <2> HIDE DEF q
  <2> QED  BY <1>1, <2>1, <2>2 DEF PlanHolds, FoundHolds
<1>7. CASE NameRef(d)
  <2> DEFINE q == [pull[d] EXCEPT !.pc = "resolved", !.ref = ref[d]]
  <2>1. /\ q.ref = ref[d] /\ q.plan = pull[d].plan /\ q.files = pull[d].files
        /\ q.found = pull[d].found
    BY <1>1 DEF Pulls
  <2>2. DOMAIN pull[d].found = {}
    BY <1>1, <1>7 DEF FoundHolds, NameRef, At
  <2>3. pull' = [pull EXCEPT ![d] = q]
    BY <1>7 DEF NameRef, Step
  <2> HIDE DEF q
  <2> QED  BY <1>1, <2>1, <2>2, <2>3 DEF PlanHolds, FoundHolds
<1>8. CASE Measure(d)
  <2>1. PICK failed \in SUBSET pull[d].plan :
          Step(d, [pull[d] EXCEPT !.pc = "measured", !.plan = {}, !.found = Verdicts(d, failed)])
    BY <1>8 DEF Measure
  <2> DEFINE q == [pull[d] EXCEPT !.pc = "measured", !.plan = {}, !.found = Verdicts(d, failed)]
  <2>2. /\ q.pc = "measured" /\ q.ref = pull[d].ref /\ q.plan = {} /\ q.files = pull[d].files
        /\ q.found = Verdicts(d, failed)
    BY <1>1 DEF Pulls
  <2>3. pull' = [pull EXCEPT ![d] = q]
    BY <2>1 DEF Step
  <2> HIDE DEF q
  <2>4. PlanHolds(q)
    BY <2>2 DEF PlanHolds
  <2>5. ASSUME NEW c \in DOMAIN q.found, q.found[c] = "changed"
        PROVE  Touched(c, q.ref, FilesOf(c, q.files))
    BY <1>1, <2>2, <2>5, VerdictIsTrue
  <2>6. FoundHolds(q)
    BY <2>2, <2>5 DEF FoundHolds
  <2> QED  BY <1>1, <2>2, <2>3, <2>4, <2>6
<1> QED  BY <1>4, <1>5, <1>6, <1>7, <1>8 DEF Pull

LEMMA FilesOfStands ==
  ASSUME cast' = cast, NEW c, NEW had
  PROVE  FilesOf(c, had)' = FilesOf(c, had)
  BY DEF FilesOf, Declared, About

\* What a pull has in hand outlives the steps of everyone else.
LEMMA HandStands ==
  ASSUME TypeOK, Next, NEW p, PlanHolds(p), FoundHolds(p)
  PROVE  PlanHolds(p)' /\ FoundHolds(p)'
<1>1. cast' = cast /\ \A c \in Stored : c \in Stored' /\ bound'[c] = bound[c]
  BY RecordsStand
<1>2. \A c, had : FilesOf(c, had)' = FilesOf(c, had)
  BY <1>1, FilesOfStands
<1>3. PlanHolds(p)'
  BY <1>1, <1>2 DEF PlanHolds
<1>4. ASSUME NEW c \in DOMAIN p.found, p.found[c] = "changed"
      PROVE  Touched(c, p.ref, FilesOf(c, p.files))'
  <2>1. PICK of : of = FilesOf(c, p.files)
    OBVIOUS
  <2>2. Touched(c, p.ref, of)'
    BY <1>4, <2>1, TouchedStands DEF FoundHolds
  <2>3. FilesOf(c, p.files)' = of
    BY <1>2, <2>1
  <2> QED  BY <2>2, <2>3 DEF Touched, Touching
<1>5. FoundHolds(p)'
  BY <1>4 DEF FoundHolds
<1> QED  BY <1>3, <1>5

LEMMA PullsStep == DeservedInv /\ Next => PullsHold'
<1> SUFFICES ASSUME DeservedInv, Next PROVE PullsHold'
  OBVIOUS
<1>1. TypeOK /\ PullsHold /\ main \in Nat /\ main' \in Nat /\ main <= main'
  BY TypeStep, RecordsStand, CastType DEF DeservedInv, TypeOK
<1>2. ASSUME NEW d \in Dev PROVE ref'[d] <= main'
  <2>1. ref[d] \in Nat /\ ref[d] <= main
    BY <1>1 DEF PullsHold, TypeOK
  <2>2. UNCHANGED ref \/ \E o \in Dev : ref' = [ref EXCEPT ![o] = main]
    <3>1. ASSUME NEW o \in Dev, Pull(o) PROVE UNCHANGED ref
      BY <3>1 DEF Pull, FetchDiagnosis, NameRef, NoDefaultRef, RunRevalidate, WalkTree, Measure,
         Report, clones
    <3> QED  BY <3>1 DEF Next, Land, FetchOrigin, Checkout, Register, Write, IngestClaim,
             Expire, IngestEdge, AddTarget, clones
  <2>3. ref'[d] = ref[d] \/ ref'[d] = main
    BY <1>1, <2>2 DEF TypeOK
  <2>4. main <= main' /\ main \in Nat /\ main' \in Nat
    BY <1>1
  <2> QED  BY <2>1, <2>3, <2>4
<1>3. ASSUME NEW d \in Dev
      PROVE  pull'[d].ref <= main /\ PlanHolds(pull'[d]) /\ FoundHolds(pull'[d])
  <2>1. CASE UNCHANGED pull
    BY <1>1, <2>1 DEF PullsHold
  <2>2. ASSUME NEW o \in Dev, Pull(o)
        PROVE  pull'[d].ref <= main /\ PlanHolds(pull'[d]) /\ FoundHolds(pull'[d])
    <3>1. PICK next : /\ pull' = [pull EXCEPT ![o] = next]
                      /\ next.ref <= main /\ PlanHolds(next) /\ FoundHolds(next)
      BY <2>2, PullKeepsHold
    <3>2. pull'[d] = next \/ pull'[d] = pull[d]
      BY <1>1, <3>1 DEF TypeOK
    <3> QED  BY <1>1, <3>1, <3>2 DEF PullsHold
  <2> QED  BY <2>1, <2>2 DEF Next, Land, FetchOrigin, Checkout, Register, Write, IngestClaim,
           Expire, IngestEdge, AddTarget
<1>4. ASSUME NEW d \in Dev
      PROVE  pull'[d].ref <= main' /\ PlanHolds(pull[d])' /\ FoundHolds(pull[d])'
  <2>1. PICK p : p = pull'[d]
    OBVIOUS
  <2>2. PlanHolds(p)' /\ FoundHolds(p)'
    BY <1>1, <1>3, <2>1, HandStands
  <2>3. pull'[d].ref \in Nat
    BY <1>1, TypeStep DEF TypeOK, Pulls
  <2> QED  BY <1>1, <1>3, <2>1, <2>2, <2>3 DEF PlanHolds, FoundHolds
<1> QED  BY <1>2, <1>4 DEF PullsHold

\* What a report leaves in a row was true of the clone that measured it.
LEMMA ReportedIsTrue ==
  ASSUME DeservedInv, NEW d \in Dev, NEW c \in Claims,
         Ingested(d)[c] # None, Ingested(d)[c].result = "changed"
  PROVE  Touched(c, main, Ingested(d)[c].of)
<1>1. /\ TypeOK /\ main \in Nat /\ pull[d] \in Pulls /\ pull[d].ref <= main
      /\ FoundHolds(pull[d]) /\ RowsHold
  BY CastType DEF DeservedInv, TypeOK, PullsHold
<1> DEFINE row == IF c \in DOMAIN pull[d].found THEN Upsert(d, c) ELSE reading[c]
<1>2. Ingested(d)[c] = row
  BY DEF Ingested, Prune
<1>3. CASE row = reading[c]
  BY <1>1, <1>2, <1>3 DEF RowsHold
<1>4. CASE row # reading[c]
  <2>1. /\ c \in DOMAIN pull[d].found /\ row.result = pull[d].found[c]
        /\ row.of = FilesOf(c, pull[d].files)
    BY <1>4 DEF Upsert, FilesOf
  <2>2. Touched(c, pull[d].ref, row.of)
    BY <1>1, <1>2, <2>1 DEF FoundHolds
  <2>3. pull[d].ref \in Nat
    BY <1>1 DEF Pulls
  <2> QED  BY <1>1, <1>2, <2>2, <2>3, TouchedGrows
<1> QED  BY <1>3, <1>4

LEMMA RowsStep == DeservedInv /\ Next => RowsHold'
<1> SUFFICES ASSUME DeservedInv, Next, NEW c \in Claims,
                    reading'[c] # None, reading'[c].result = "changed"
             PROVE  Touched(c, main, reading[c].of)'
  BY RecordsStand DEF RowsHold, DeservedInv, Claims
<1>1. TypeOK /\ RowsHold /\ main \in Nat /\ main' \in Nat /\ main <= main' /\ TypeOK'
  <2>1. TypeOK /\ RowsHold /\ TypeOK'
    BY TypeStep DEF DeservedInv
  <2>2. cast' = cast /\ main <= main'
    BY <2>1, RecordsStand
  <2>3. Len(cast.touches) \in Nat
    BY <2>1, CastType DEF TypeOK
  <2>4. main \in 0..Len(cast.touches) /\ main' \in 0..Len(cast.touches)
    BY <2>1, <2>2 DEF TypeOK
  <2> QED  BY <2>1, <2>2, <2>3, <2>4
<1>2. PICK of : of = reading'[c].of
  OBVIOUS
<1>3. Touched(c, main, of)
  <2>1. CASE UNCHANGED reading
    BY <1>1, <1>2, <2>1 DEF RowsHold
  <2>2. ASSUME NEW o \in Claims, Expire(o) PROVE Touched(c, main, of)
    <3>1. /\ reading[c] # None /\ reading[c].result = "changed" /\ reading[c].of = of
      BY <1>1, <1>2, <2>2 DEF Expire, TypeOK, Readings
    <3> QED  BY <1>1, <3>1 DEF RowsHold
  <2>3. ASSUME NEW d \in Dev, Pull(d) PROVE UNCHANGED reading \/ reading' = Ingested(d)
    BY <2>3 DEF Pull, FetchDiagnosis, NameRef, NoDefaultRef, RunRevalidate, WalkTree, Measure,
       Report
  <2>4. ASSUME NEW d \in Dev, reading' = Ingested(d) PROVE Touched(c, main, of)
    BY <1>2, <2>4, ReportedIsTrue
  <2> QED  BY <2>1, <2>2, <2>3, <2>4 DEF Next, Land, FetchOrigin, Checkout, Register, Write,
           IngestClaim, IngestEdge, AddTarget
<1>4. PICK to : to = main
  OBVIOUS
<1>5. Touched(c, to, of)'
  BY <1>1, <1>3, <1>4, TouchedStands
<1>6. Touched(c, main, of)'
  <2>1. bound'[c].at \in Nat
    BY <1>1, <1>5 DEF Touched, TypeOK, Bindings
  <2> QED  BY <1>1, <1>4, <1>5, <2>1 DEF Touched, Touching
<1> QED  BY <1>2, <1>6 DEF Touched, Touching

LEMMA InitDeserved == Init => DeservedInv
<1> SUFFICES ASSUME Init PROVE DeservedInv
  OBVIOUS
<1>1. TypeOK /\ main \in Nat
  BY InitType, CastType DEF TypeOK
<1>2. Stored = {} /\ \A c \in Claims : answer[c] = None
  BY <1>1, NoneIsNoClaim DEF Init, Stored, TypeOK
<1>3. \A d \in Dev : pull[d] = NoPull /\ ref[d] = 0
  BY DEF Init
<1>4. PlanHolds(NoPull) /\ FoundHolds(NoPull) /\ NoPull.ref = 0
  BY DEF NoPull, PlanHolds, FoundHolds
<1>5. PullsHold
  BY <1>1, <1>3, <1>4 DEF PullsHold
<1> QED  BY <1>1, <1>2, <1>5 DEF Init, DeservedInv, BoundAsSeen, RowsHold

LEMMA DeservedStep == DeservedInv /\ [Next]_vars => DeservedInv'
<1>1. DeservedInv /\ Next => DeservedInv'
  BY TypeStep, BoundStep, PullsStep, RowsStep DEF DeservedInv
<1>2. ASSUME DeservedInv, UNCHANGED vars PROVE DeservedInv'
  <2> USE DEF vars, clones, records, tree, Stored, Claims, About
  <2>1. TypeOK' /\ BoundAsSeen'
    BY <1>2, TypeStep DEF DeservedInv, BoundAsSeen
  <2>2. PullsHold' /\ RowsHold'
    BY <1>2 DEF DeservedInv, PullsHold, RowsHold, PlanHolds, FoundHolds, Touched, Touching,
       FilesOf, Declared
  <2> QED  BY <2>1, <2>2 DEF DeservedInv
<1> QED  BY <1>1, <1>2

\* A claim is never called stale but for a commit after its own that touched a
\* file it is about, whatever the plans, the caps and the clones
\* (claim-validity.ts:199).
THEOREM StaleIsTrue == Spec => []StaleIsDeserved
<1>1. DeservedInv => StaleIsDeserved
  <2> SUFFICES ASSUME DeservedInv, NEW c \in Stored, State(c) = "stale"
               PROVE  Touching(Since(c), main, reading[c].of) # {}
    BY DEF StaleIsDeserved
  <2>1. reading[c] # None /\ reading[c].result = "changed"
    BY DEF State, StateUnder, Readable
  <2>2. Touched(c, main, reading[c].of) /\ (About(c).stated => bound[c].at = seen[c])
    BY <2>1 DEF DeservedInv, RowsHold, BoundAsSeen, Stored
  <2> QED  BY <2>2 DEF Touched, Since
<1> QED  BY <1>1, DeservedStep, InitDeserved, PTL DEF Spec

-----------------------------------------------------------------------------
(* `current` is earned: from the plan that a pull took to the row, what is  *)
(* confirmed of a claim was looked at in all the claim's files, but where   *)
(* its check overlooked some.                                               *)

\* A stored claim, and no commit after its own touched any of these files.
Untouched(c, to, paths) == c \in Stored /\ Touching(bound[c].at, to, paths) = {}

\* A claim that is bound is bound to a commit.
BoundToCommit == \A c \in Stored : bound[c].kind # "none" => bound[c].at # 0

\* A group from which nothing was cut is about all the files of its claims, but
\* for those it overlooks.
PlanIsWhole(p) ==
  \A g \in p.plan : \A c \in g.claims :
    g.dropped = {} /\ c \notin p.overlooked => g.paths = FilesOf(c, p.files)

FoundUntouched(p) ==
  \A c \in DOMAIN p.found :
    p.found[c] = "unchanged" /\ c \notin p.overlooked
      => Untouched(c, p.ref, FilesOf(c, p.files))

PullsConfirm == \A d \in Dev : PlanIsWhole(pull[d]) /\ FoundUntouched(pull[d])

RowsConfirm ==
  \A c \in Claims :
    reading[c] # None /\ reading[c].result = "unchanged" /\ ~reading[c].overlooked
      => Untouched(c, reading[c].ref, reading[c].of)

EarnedInv == DeservedInv /\ BoundToCommit /\ PullsConfirm /\ RowsConfirm

LEMMA UntouchedStands ==
  ASSUME TypeOK, Next, NEW c, NEW to, NEW paths, Untouched(c, to, paths)
  PROVE  Untouched(c, to, paths)'
  BY RecordsStand DEF Untouched, Touching

LEMMA BoundToCommitStep == TypeOK /\ BoundToCommit /\ Next => BoundToCommit'
<1> SUFFICES ASSUME TypeOK, BoundToCommit, Next, NEW c \in Stored'
             PROVE  bound'[c].kind # "none" => bound'[c].at # 0
  BY DEF BoundToCommit
<1>1. CASE c \in Stored
  BY <1>1, RecordsStand DEF BoundToCommit
<1>2. CASE c \notin Stored
  <2>1. cast' = cast /\ c \in Claims /\ answer'[c] = c /\ answer[c] # c
    BY <1>2, RecordsStand DEF Stored, Claims
  <2>2. PICK o \in Claims : IngestClaim(o)
    <3>1. ASSUME NEW d \in Dev, Pull(d) PROVE UNCHANGED answer
      BY <3>1 DEF Pull, FetchDiagnosis, NameRef, NoDefaultRef, RunRevalidate, WalkTree, Measure,
         Report, records
    <3> QED  BY <2>1, <3>1 DEF Next, Land, FetchOrigin, Checkout, Register, Write, Expire,
             IngestEdge, AddTarget, records
  <2>3. ASSUME NEW m \in DedupMatch(o) PROVE m # c
    BY <1>2, <2>3 DEF DedupMatch
  <2>4. o = c /\ bound' = [bound EXCEPT ![c] = CommitBinding(c)]
    BY <2>1, <2>2, <2>3 DEF IngestClaim, TypeOK
  <2> QED  BY <2>1, <2>4 DEF TypeOK, CommitBinding, Binding
<1> QED  BY <1>1, <1>2

\* The plan the hub hands out knows what was cut of every claim in it that it does
\* not overlook.
LEMMA WholePlan ==
  ASSUME TypeOK, NEW g \in Plan, NEW c \in g.claims, g.dropped = {}, c \notin Overlooked
  PROVE  g.paths = FilesOf(c, files)
<1>1. PICK m \in Measurable :
        g = [at |-> GroupKey(m).at, guest |-> GroupKey(m).guest, paths |-> GroupKey(m).paths,
             dropped |-> Dropped(Lead(GroupKey(m))), claims |-> Group(GroupKey(m))]
  BY DEF Plan
<1>2. /\ g.paths = GroupKey(m).paths /\ Dropped(Lead(GroupKey(m))) = {}
      /\ c \in Measurable /\ GroupKey(c) = GroupKey(m)
  BY <1>1 DEF Group
<1>3. Dropped(c) = {}
  BY <1>2 DEF Overlooked
<1>4. g.paths = Surface(c)
  BY <1>2 DEF GroupKey
<1> QED  BY <1>3, <1>4 DEF Surface, Dropped, Capped, FilesOf

\* What a pull confirms of a claim, its clone shows of all the claim's files.
LEMMA ConfirmationIsTrue ==
  ASSUME TypeOK, NEW d \in Dev, PlanHolds(pull[d]), PlanIsWhole(pull[d]), NEW failed,
         NEW c \in DOMAIN Verdicts(d, failed), Verdicts(d, failed)[c] = "unchanged",
         c \notin pull[d].overlooked
  PROVE  Untouched(c, pull[d].ref, FilesOf(c, pull[d].files))
<1> DEFINE g == CHOOSE g \in pull[d].plan : c \in g.claims
<1>1. g \in pull[d].plan /\ c \in g.claims
  BY DEF Verdicts
<1>2. Drift(g, pull[d].ref) = "unchanged"
  BY DEF Verdicts
<1> HIDE DEF g
<1>3. Touching(g.at, pull[d].ref, g.paths) = {} /\ g.dropped = {}
  BY <1>2 DEF Drift
<1> QED  BY <1>1, <1>3 DEF PlanHolds, PlanIsWhole, Untouched

LEMMA PullConfirms ==
  ASSUME EarnedInv, NEW d \in Dev, Pull(d)
  PROVE  \E next : /\ pull' = [pull EXCEPT ![d] = next]
                  /\ PlanIsWhole(next) /\ FoundUntouched(next)
<1>1. /\ TypeOK /\ BoundAsSeen /\ pull[d] \in Pulls /\ PlanHolds(pull[d]) /\ FoundHolds(pull[d])
      /\ PlanIsWhole(pull[d]) /\ FoundUntouched(pull[d])
  BY DEF EarnedInv, DeservedInv, TypeOK, PullsHold, PullsConfirm
<1> DEFINE Holds(p) == PlanIsWhole(p) /\ FoundUntouched(p)
<1>2. Holds(NoPull)
  BY DEF NoPull, PlanIsWhole, FoundUntouched
<1>3. ASSUME NEW pc \in {"fetched", "resolved"}, pull[d].pc # "measured"
      PROVE  Holds(Fetched(d, pc))
  <2>1. CASE Plan = {}
    BY <1>2, <2>1 DEF Fetched
  <2>2. CASE Plan # {}
    <3> DEFINE q == [pull[d] EXCEPT !.pc = pc, !.plan = Plan, !.files = files,
                             !.overlooked = Overlooked]
    <3>1. Fetched(d, pc) = q
      BY <2>2 DEF Fetched
    <3>2. /\ q.plan = Plan /\ q.files = files /\ q.found = pull[d].found
          /\ q.overlooked = Overlooked
      BY <1>1 DEF Pulls
    <3>3. DOMAIN pull[d].found = {}
      BY <1>1, <1>3 DEF FoundHolds
    <3> HIDE DEF q
    <3> QED  BY <1>1, <3>1, <3>2, <3>3, WholePlan DEF PlanIsWhole, FoundUntouched
  <2> QED  BY <2>1, <2>2
<1>4. CASE FetchDiagnosis(d) \/ WalkTree(d)
  BY <1>3, <1>4 DEF FetchDiagnosis, WalkTree, Asked, At, Step
<1>5. CASE NoDefaultRef(d) \/ Report(d)
  BY <1>2, <1>5 DEF NoDefaultRef, Report, Step
<1>6. CASE RunRevalidate(d)
  <2> DEFINE q == [NoPull EXCEPT !.pc = "walking", !.ref = ref[d]]
  <2>1. q.plan = {} /\ DOMAIN q.found = {}
    BY DEF NoPull
  <2>2. pull' = [pull EXCEPT ![d] = q]
    BY <1>6 DEF RunRevalidate, Step
  <2> HIDE DEF q
  <2> QED  BY <2>1, <2>2 DEF PlanIsWhole, FoundUntouched
<1>7. CASE NameRef(d)
  <2> DEFINE q == [pull[d] EXCEPT !.pc = "resolved", !.ref = ref[d]]
  <2>1. /\ q.plan = pull[d].plan /\ q.files = pull[d].files /\ q.found = pull[d].found
        /\ q.overlooked = pull[d].overlooked
    BY <1>1 DEF Pulls
  <2>2. DOMAIN pull[d].found = {}
    BY <1>1, <1>7 DEF FoundHolds, NameRef, At
  <2>3. pull' = [pull EXCEPT ![d] = q]
    BY <1>7 DEF NameRef, Step
  <2> HIDE DEF q
  <2> QED  BY <1>1, <2>1, <2>2, <2>3 DEF PlanIsWhole, FoundUntouched
<1>8. CASE Measure(d)
  <2>1. PICK failed \in SUBSET pull[d].plan :
          Step(d, [pull[d] EXCEPT !.pc = "measured", !.plan = {}, !.found = Verdicts(d, failed)])
    BY <1>8 DEF Measure
  <2> DEFINE q == [pull[d] EXCEPT !.pc = "measured", !.plan = {}, !.found = Verdicts(d, failed)]
  <2>2. /\ q.ref = pull[d].ref /\ q.plan = {} /\ q.files = pull[d].files
        /\ q.found = Verdicts(d, failed) /\ q.overlooked = pull[d].overlooked
    BY <1>1 DEF Pulls
  <2>3. pull' = [pull EXCEPT ![d] = q]
    BY <2>1 DEF Step
  <2> HIDE DEF q
  <2>4. ASSUME NEW c \in DOMAIN q.found, q.found[c] = "unchanged", c \notin q.overlooked
        PROVE  Untouched(c, q.ref, FilesOf(c, q.files))
    BY <1>1, <2>2, <2>4, ConfirmationIsTrue
  <2> QED  BY <2>2, <2>3, <2>4 DEF PlanIsWhole, FoundUntouched
<1> QED  BY <1>4, <1>5, <1>6, <1>7, <1>8 DEF Pull

\* What a pull confirms outlives the steps of everyone else.
LEMMA ConfirmedStands ==
  ASSUME TypeOK, Next, NEW p, PlanIsWhole(p), FoundUntouched(p)
  PROVE  PlanIsWhole(p)' /\ FoundUntouched(p)'
<1>1. cast' = cast
  BY RecordsStand
<1>2. \A c, had : FilesOf(c, had)' = FilesOf(c, had)
  BY <1>1, FilesOfStands
<1>3. PlanIsWhole(p)'
  BY <1>2 DEF PlanIsWhole
<1>4. ASSUME NEW c \in DOMAIN p.found, p.found[c] = "unchanged", c \notin p.overlooked
      PROVE  Untouched(c, p.ref, FilesOf(c, p.files))'
  <2>1. PICK of : of = FilesOf(c, p.files)
    OBVIOUS
  <2>2. Untouched(c, p.ref, of)'
    BY <1>4, <2>1, UntouchedStands DEF FoundUntouched
  <2>3. FilesOf(c, p.files)' = of
    BY <1>2, <2>1
  <2> QED  BY <2>2, <2>3 DEF Untouched, Touching
<1> QED  BY <1>3, <1>4 DEF FoundUntouched

LEMMA PullsConfirmStep == EarnedInv /\ Next => PullsConfirm'
<1> SUFFICES ASSUME EarnedInv, Next, NEW d \in Dev
             PROVE  PlanIsWhole(pull[d])' /\ FoundUntouched(pull[d])'
  BY DEF PullsConfirm
<1>1. TypeOK /\ PullsConfirm
  BY DEF EarnedInv, DeservedInv
<1>2. PlanIsWhole(pull'[d]) /\ FoundUntouched(pull'[d])
  <2>1. CASE UNCHANGED pull
    BY <1>1, <2>1 DEF PullsConfirm
  <2>2. ASSUME NEW o \in Dev, Pull(o)
        PROVE  PlanIsWhole(pull'[d]) /\ FoundUntouched(pull'[d])
    <3>1. PICK next : /\ pull' = [pull EXCEPT ![o] = next]
                      /\ PlanIsWhole(next) /\ FoundUntouched(next)
      BY <2>2, PullConfirms
    <3>2. pull'[d] = next \/ pull'[d] = pull[d]
      BY <1>1, <3>1 DEF TypeOK
    <3> QED  BY <1>1, <3>1, <3>2 DEF PullsConfirm
  <2> QED  BY <2>1, <2>2 DEF Next, Land, FetchOrigin, Checkout, Register, Write, IngestClaim,
           Expire, IngestEdge, AddTarget
<1>3. PICK p : p = pull'[d]
  OBVIOUS
<1>4. PlanIsWhole(p)' /\ FoundUntouched(p)'
  BY <1>1, <1>2, <1>3, ConfirmedStands
<1> QED  BY <1>3, <1>4 DEF PlanIsWhole, FoundUntouched

\* A row that a report leaves confirms what its clone showed.
LEMMA ReportConfirms ==
  ASSUME EarnedInv, NEW d \in Dev, NEW c \in Claims,
         Ingested(d)[c] # None, Ingested(d)[c].result = "unchanged",
         ~Ingested(d)[c].overlooked
  PROVE  Untouched(c, Ingested(d)[c].ref, Ingested(d)[c].of)
<1>1. FoundUntouched(pull[d]) /\ RowsConfirm
  BY DEF EarnedInv, PullsConfirm
<1> DEFINE row == IF c \in DOMAIN pull[d].found THEN Upsert(d, c) ELSE reading[c]
<1>2. Ingested(d)[c] = row
  BY DEF Ingested, Prune
<1>3. CASE row = reading[c]
  BY <1>1, <1>2, <1>3 DEF RowsConfirm
<1>4. CASE row # reading[c]
  <2>1. /\ c \in DOMAIN pull[d].found /\ row.result = pull[d].found[c]
        /\ row.ref = pull[d].ref /\ row.of = FilesOf(c, pull[d].files)
        /\ row.overlooked = (c \in pull[d].overlooked)
    BY <1>4 DEF Upsert, FilesOf
  <2> HIDE DEF row
  <2> QED  BY <1>1, <1>2, <2>1 DEF FoundUntouched
<1> QED  BY <1>3, <1>4

LEMMA RowsConfirmStep == EarnedInv /\ Next => RowsConfirm'
<1> SUFFICES ASSUME EarnedInv, Next, NEW c \in Claims,
                    reading'[c] # None, reading'[c].result = "unchanged",
                    ~reading'[c].overlooked
             PROVE  Untouched(c, reading[c].ref, reading[c].of)'
  BY RecordsStand DEF RowsConfirm, EarnedInv, DeservedInv, Claims
<1>1. TypeOK /\ RowsConfirm
  BY DEF EarnedInv, DeservedInv
<1>2. PICK to, of : to = reading'[c].ref /\ of = reading'[c].of
  OBVIOUS
<1>3. Untouched(c, to, of)
  <2>1. CASE UNCHANGED reading
    BY <1>1, <1>2, <2>1 DEF RowsConfirm
  <2>2. ASSUME NEW o \in Claims, Expire(o) PROVE Untouched(c, to, of)
    <3>1. /\ reading[c] # None /\ reading[c].result = "unchanged" /\ ~reading[c].overlooked
          /\ reading[c].ref = to /\ reading[c].of = of
      BY <1>1, <1>2, <2>2 DEF Expire, TypeOK, Readings
    <3> QED  BY <1>1, <3>1 DEF RowsConfirm
  <2>3. ASSUME NEW d \in Dev, Pull(d) PROVE UNCHANGED reading \/ reading' = Ingested(d)
    BY <2>3 DEF Pull, FetchDiagnosis, NameRef, NoDefaultRef, RunRevalidate, WalkTree, Measure,
       Report
  <2>4. ASSUME NEW d \in Dev, reading' = Ingested(d) PROVE Untouched(c, to, of)
    BY <1>2, <2>4, ReportConfirms
  <2> QED  BY <2>1, <2>2, <2>3, <2>4 DEF Next, Land, FetchOrigin, Checkout, Register, Write,
           IngestClaim, IngestEdge, AddTarget
<1>4. Untouched(c, to, of)'
  BY <1>1, <1>3, UntouchedStands
<1> QED  BY <1>2, <1>4 DEF Untouched, Touching

\* For any claims, caps, commits, clones and pulls: a claim is never called current
\* unless no commit up to the ref it was measured against touched a file it is
\* about (claim-validity.ts:202), or its check was another claim's, of which the
\* cap had dropped nothing (claim-revalidation.ts:165-179).
THEOREM CurrentIsTrue == Spec => []CurrentIsEarned
<1>1. Init => EarnedInv
  <2> SUFFICES ASSUME Init PROVE EarnedInv
    OBVIOUS
  <2>1. DeservedInv /\ Stored = {} /\ \A d \in Dev : pull[d] = NoPull
    BY InitDeserved, NoneIsNoClaim DEF Init, Stored
  <2>2. PlanIsWhole(NoPull) /\ FoundUntouched(NoPull)
    BY DEF NoPull, PlanIsWhole, FoundUntouched
  <2> QED  BY <2>1, <2>2 DEF Init, EarnedInv, BoundToCommit, PullsConfirm, RowsConfirm
<1>2. EarnedInv /\ [Next]_vars => EarnedInv'
  <2>1. EarnedInv /\ Next => EarnedInv'
    BY DeservedStep, BoundToCommitStep, PullsConfirmStep, RowsConfirmStep
       DEF EarnedInv, DeservedInv
  <2>2. ASSUME EarnedInv, UNCHANGED vars PROVE EarnedInv'
    <3> USE DEF vars, clones, records, tree, Stored, Claims, About
    <3>1. DeservedInv' /\ BoundToCommit'
      BY <2>2, DeservedStep DEF EarnedInv, BoundToCommit
    <3>2. PullsConfirm' /\ RowsConfirm'
      BY <2>2 DEF EarnedInv, PullsConfirm, RowsConfirm, PlanIsWhole, FoundUntouched, Untouched,
         Touching, FilesOf, Declared
    <3> QED  BY <3>1, <3>2 DEF EarnedInv
  <2> QED  BY <2>1, <2>2
<1>3. EarnedInv => CurrentIsEarned
  <2> SUFFICES ASSUME EarnedInv, NEW c \in Stored, State(c) = "current"
               PROVE  /\ Since(c) # 0
                      /\ \/ reading[c].overlooked
                         \/ Touching(Since(c), reading[c].ref, reading[c].of) = {}
    BY DEF CurrentIsEarned
  <2>1. bound[c].kind # "none" /\ reading[c] # None /\ reading[c].result = "unchanged"
    BY DEF State, StateUnder, Readable
  <2>2. /\ reading[c].overlooked \/ Untouched(c, reading[c].ref, reading[c].of)
        /\ bound[c].at # 0
        /\ About(c).stated => bound[c].at = seen[c]
    BY <2>1 DEF EarnedInv, DeservedInv, BoundAsSeen, BoundToCommit, RowsConfirm, Stored
  <2> QED  BY <2>2 DEF Untouched, Since
<1> QED  BY <1>1, <1>2, <1>3, PTL DEF Spec
=============================================================================
