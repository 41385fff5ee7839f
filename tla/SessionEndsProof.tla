-------------------------- MODULE SessionEndsProof --------------------------
(***************************************************************************)
(* SessionEnds for every set of host sessions and hooks, every ladder of   *)
(* suffixes and any bounds: its types, and that no end is forgotten.       *)
(***************************************************************************)
EXTENDS SessionEnds, TLAPS

\* A session is registered under a suffix only once it was ended under every
\* lower one, and a hook tries a suffix only then.
Ladder ==
  /\ \A s \in Host, m \in 0..Last :
       hub[<<s, m>>] # "none" => \A n \in 0..(m - 1) : hub[<<s, n>>] = "ended"
  /\ \A h \in Hook :
       pc[h] = "register" => \A n \in 0..(name[h][2] - 1) : hub[<<Me(h), n>>] = "ended"

\* Nobody waits for i any more: it is not open, counted, or owed no longer.
Settled(i) == hub[i] # "open" \/ i \in unclosed \/ i \notin owed

\* Unless it was written anew meanwhile, the marker a hook has in hand is the
\* one it wrote or read, and one it is about to remove has done its work.
Spending ==
  \A h \in Hook :
    /\ pc[h] \in {"delete", "tell", "clear"} => h \in marked \/ marker[Me(h)] \in {None, name[h]}
    /\ pc[h] \in {"retire", "drained", "call"} => h \in marked \/ marker[at[h]] \in {None, read[h]}
    /\ pc[h] = "clear" => hub[name[h]] = "ended"
    /\ pc[h] = "remove" => \/ h \in marked \/ marker[at[h]] = None
                           \/ Settled(marker[at[h]])

EndsInv == TypeOK /\ Ladder /\ Spending /\ NoEndForgotten

----------------------------------------------------------------------------
(* Type correctness, in three parts: the files and the hub, what hooks     *)
(* know, and what they know at each step.                                  *)

WorldOK ==
  /\ cast \in Casts /\ round \in [Host -> 0..cast.rounds] /\ faults \in 0..cast.faults
  /\ old \subseteq Host /\ silent \subseteq Host
  /\ unclosed \subseteq Id /\ owed \subseteq Id /\ astray \subseteq Id
  /\ state \in [Host -> Id \cup {None}] /\ marker \in [Host -> Id \cup {None}]
  /\ \A s \in Host : state[s] \in IdsOf(s) \cup {None} /\ marker[s] \in IdsOf(s) \cup {None}
  /\ spool \in [Host -> SUBSET Hook]
  /\ hub \in [Id -> {"none", "open", "ended"}]

HooksOK ==
  /\ pc \in [Hook -> Labels]
  /\ name \in [Hook -> Id \cup {None}] /\ sure \subseteq Hook /\ left \subseteq Hook
  /\ todo \in [Hook -> SUBSET Host]
  /\ at \in [Hook -> Host \cup {None}] /\ read \in [Hook -> Id \cup {None}]
  /\ back \subseteq Hook /\ marked \subseteq Hook /\ added \in [Hook -> SUBSET Hook]

StepOK(h) ==
  /\ pc[h] \in InItsName => name[h] \in IdsOf(Me(h))
  /\ pc[h] \in AtMarker => at[h] \in Host
  /\ pc[h] \in {"retire", "drained", "call"} => read[h] \in IdsOf(at[h])
  /\ lock = h <=> pc[h] \in AtMarker \cup {"post", "walk"}

LEMMA TypeParts == TypeOK <=> WorldOK /\ HooksOK /\ \A h \in Hook : StepOK(h)
BY Zenon DEF TypeOK, WorldOK, HooksOK, StepOK

LEMMA IdsFacts ==
  ASSUME NEW s \in Host
  PROVE  /\ IdsOf(s) \subseteq Id /\ Base(s) \in IdsOf(s) /\ None \notin IdsOf(s)
         /\ \A i \in IdsOf(s) : i[1] = s /\ i[2] \in 0..Last /\ i = <<s, i[2]>>
         /\ \A n \in 0..Last : <<s, n>> \in IdsOf(s)
BY EndsAssumption, NoneAssumption DEF IdsOf, Id, Base

LEMMA MeFact == ASSUME NEW h \in Hook PROVE Me(h) \in Host
BY EndsAssumption DEF Me

\* A hook that goes on changes its own step and memory, nobody else's.
LEMMA ThenFacts ==
  ASSUME HooksOK, NEW h \in Hook, NEW label \in Labels, Then(h, label)
  PROVE  /\ HooksOK' /\ pc' = [pc EXCEPT ![h] = label]
         /\ \A b \in Hook \ {h} : /\ name'[b] = name[b] /\ at'[b] = at[b] /\ read'[b] = read[b]
                                  /\ b \in marked <=> b \in marked'
         /\ label \notin {"idle", "reap"} => name' = name
         /\ label \notin {"idle", "reap", "walk"} => at' = at /\ read' = read /\ marked' = marked
<1> USE DEF HooksOK
<1>1. CASE label \in {"idle", "reap"} /\ Forget(h)
  BY <1>1 DEF Then, Goto, Forget, Unsee
<1>2. CASE label = "walk" /\ LetGo(h)
  BY <1>2 DEF Then, Goto, LetGo, Unsee, who
<1>3. CASE label \notin {"idle", "reap", "walk"} /\ UNCHANGED <<own, seen>>
  BY <1>3 DEF Then, Goto, own, seen, who, hand
<1> QED
  BY <1>1, <1>2, <1>3 DEF Then

LEMMA TypeInit == Init => TypeOK
<1> SUFFICES ASSUME Init PROVE TypeOK
  OBVIOUS
<1>1. WorldOK
  BY EndsAssumption DEF Init, WorldOK, Id
<1>2. HooksOK
  BY DEF Init, HooksOK, Labels
<1>3. \A h \in Hook : StepOK(h)
  BY NoneAssumption DEF Init, StepOK, InItsName, AtMarker
<1> QED
  BY <1>1, <1>2, <1>3, TypeParts

\* A step of one hook leaves the others where they are.
OthersStay(h) ==
  \A b \in Hook \ {h} : /\ pc'[b] = pc[b] /\ name'[b] = name[b]
                        /\ at'[b] = at[b] /\ read'[b] = read[b]
                        /\ lock = b <=> lock' = b

LEMMA TypeByParts ==
  ASSUME TypeOK, NEW h \in Hook, WorldOK', HooksOK', StepOK(h)', OthersStay(h)
  PROVE  TypeOK'
<1>1. \A b \in Hook \ {h} : StepOK(b)'
  BY TypeParts DEF StepOK, OthersStay, Me
<1> QED
  BY <1>1, TypeParts DEF TypeOK, WorldOK, HooksOK, StepOK

\* A hook that goes on keeps the types, when what its next step needs is there.
LEMMA ThenTypes ==
  ASSUME TypeOK, NEW h \in Hook, NEW label \in Labels, Then(h, label), WorldOK',
         label \in InItsName => name[h] \in IdsOf(Me(h)),
         label \in AtMarker => at[h] \in Host,
         label \in {"retire", "drained", "call"} => read[h] \in IdsOf(at[h]),
         lock' = h <=> label \in AtMarker \cup {"post", "walk"},
         \A b \in Hook \ {h} : lock = b <=> lock' = b
  PROVE  TypeOK'
<1>1. HooksOK
  BY TypeParts
<1>2. /\ HooksOK' /\ pc' = [pc EXCEPT ![h] = label]
      /\ \A b \in Hook \ {h} : name'[b] = name[b] /\ at'[b] = at[b] /\ read'[b] = read[b]
      /\ label \notin {"idle", "reap"} => name' = name
      /\ label \notin {"idle", "reap", "walk"} => at' = at /\ read' = read
  BY <1>1, ThenFacts
<1>3. OthersStay(h)
  BY <1>1, <1>2 DEF OthersStay, HooksOK
<1>4. pc'[h] = label
  BY <1>1, <1>2 DEF HooksOK
<1>5. StepOK(h)'
  BY <1>2, <1>4 DEF StepOK, InItsName, AtMarker, Me
<1> QED
  BY <1>2, <1>3, <1>5, TypeByParts

LEMMA StartTypes ==
  ASSUME TypeOK, NEW h \in Hook, Arrive(h) \/ StartStep(h)
  PROVE  TypeOK'
<1>0. WorldOK /\ HooksOK /\ StepOK(h) /\ Me(h) \in Host
  BY TypeParts, MeFact
<1> DEFINE ids == IdsOf(Me(h))
<1>i. ids \subseteq Id /\ Base(Me(h)) \in ids
  BY <1>0, IdsFacts
<1> USE DEF Labels, InItsName, AtMarker, At, Goto
<1>1. CASE Arrive(h)
  <2>1. Named(Me(h)) \in ids
    BY <1>0, <1>i DEF Named, WorldOK
  <2>2. WorldOK'
    <3>1. cast.rounds \in Nat
      BY <1>0, EndsAssumption DEF WorldOK
    <3> QED
      BY <1>0, <1>1, <3>1 DEF Arrive, Turn, WorldOK, files, told
  <2>3. HooksOK' /\ StepOK(h)' /\ OthersStay(h)
    BY <1>0, <1>1, <1>i, <2>1 DEF Arrive, PartOf, HooksOK, StepOK, OthersStay, hand, seen, Me
  <2> QED
    BY <2>2, <2>3, TypeByParts
<1>2. CASE Accepted(h)
  <2>1. WorldOK'
    BY <1>0, <1>2, <1>i DEF Accepted, Opened, WorldOK, StepOK, bounds, files
  <2>2. HooksOK' /\ StepOK(h)' /\ OthersStay(h)
    BY <1>0, <1>2 DEF Accepted, Registered, HooksOK, StepOK, OthersStay, hand, seen, Me
  <2> QED
    BY <2>1, <2>2, TypeByParts
<1>3. CASE Unanswered(h)
  <2>1. WorldOK'
    BY <1>0, <1>3, <1>i, EndsAssumption
       DEF Unanswered, Fault, Opened, WorldOK, StepOK, files
  <2>2. HooksOK' /\ StepOK(h)' /\ OthersStay(h)
    BY <1>0, <1>3, <1>i DEF Unanswered, Registered, HooksOK, StepOK, OthersStay, hand, seen, Me
  <2> QED
    BY <2>1, <2>2, TypeByParts
<1>4. CASE Publish(h)
  <2>1. WorldOK'
    BY <1>0, <1>4, <1>i DEF Publish, ComesBack, WorldOK, StepOK, bounds
  <2>2. HooksOK' /\ StepOK(h)' /\ OthersStay(h)
    BY <1>0, <1>4 DEF Publish, ComesBack, Telling, HooksOK, StepOK, OthersStay, own, who, hand, Me
  <2> QED
    BY <2>1, <2>2, TypeByParts
<1>5. CASE Claim(h)
  <2>1. WorldOK'
    BY <1>0, <1>5, <1>i DEF Claim, ComesBack, WorldOK, StepOK, bounds
  <2>2. HooksOK' /\ StepOK(h)' /\ OthersStay(h)
    BY <1>0, <1>5, <1>i
       DEF Claim, ComesBack, Telling, HooksOK, WorldOK, StepOK, OthersStay, hand, Me
  <2> QED
    BY <2>1, <2>2, TypeByParts
<1>6. CASE Append(h)
  <2>1. WorldOK'
    BY <1>0, <1>6 DEF Append, WorldOK, bounds, told
  <2>2. HooksOK' /\ StepOK(h)' /\ OthersStay(h)
    BY <1>0, <1>6 DEF Append, HooksOK, StepOK, OthersStay, own, who, hand, Me
  <2> QED
    BY <2>1, <2>2, TypeByParts
<1>7. CASE Conflict(h)
  <2>1. WorldOK'
    BY <1>0, <1>7 DEF Conflict, WorldOK, bounds, files, told
  <2>2. CASE Then(h, "idle")
    <3>1. lock' = lock /\ lock # h
      BY <1>0, <1>7 DEF Conflict, StepOK
    <3> QED
      BY <2>1, <2>2, <3>1, ThenTypes
  <2>3. CASE name[h][2] < Last /\ name' = [name EXCEPT ![h] = <<Me(h), @[2] + 1>>]
             /\ UNCHANGED <<pc, sure, left, hand, seen>>
    <3>1. <<Me(h), name[h][2] + 1>> \in ids
      BY <1>0, <1>7, <2>3, IdsFacts, EndsAssumption DEF Conflict, StepOK
    <3>2. HooksOK' /\ StepOK(h)' /\ OthersStay(h)
      BY <1>0, <1>7, <1>i, <2>3, <3>1
         DEF Conflict, HooksOK, StepOK, OthersStay, hand, seen, Me
    <3> QED
      BY <2>1, <3>2, TypeByParts
  <2>4. CASE name' = [name EXCEPT ![h] = Base(Me(h))] /\ Goto(h, Registered(h))
             /\ UNCHANGED <<sure, left, hand, seen>>
    <3>1. HooksOK' /\ StepOK(h)' /\ OthersStay(h)
      BY <1>0, <1>7, <1>i, <2>4 DEF Conflict, Registered, HooksOK, StepOK, OthersStay, hand, seen, Me
    <3> QED
      BY <2>1, <3>1, TypeByParts
  <2> QED
    BY <1>7, <2>2, <2>3, <2>4 DEF Conflict
<1>8. CASE ClaimRefused(h)
  <2>1. WorldOK' /\ lock # h /\ lock' = lock
    BY <1>0, <1>8 DEF ClaimRefused, WorldOK, StepOK, bounds, files, told
  <2> QED
    BY <1>8, <2>1, ThenTypes DEF ClaimRefused
<1> QED
  BY <1>1, <1>2, <1>3, <1>4, <1>5, <1>6, <1>7, <1>8 DEF StartStep

LEMMA FlushTypes ==
  ASSUME TypeOK, NEW h \in Hook, FlushStep(h)
  PROVE  TypeOK'
<1>0. WorldOK /\ HooksOK /\ StepOK(h) /\ \A b \in Hook : StepOK(b)
  BY TypeParts
<1>a. name[h] \in IdsOf(Me(h)) /\ AfterFlush(h) \in {"reap", "idle", "count"}
  <2>1. pc[h] \in {"flush", "post"}
    BY DEF FlushStep, FlushEnter, Post, FlushLeave, At
  <2>2. KindOf[h] \in {"start", "work", "end"}
    BY EndsAssumption
  <2> QED
    BY <1>0, <2>1, <2>2 DEF StepOK, InItsName, AfterFlush
<1>1. CASE FlushEnter(h)
  <2>1. WorldOK'
    BY <1>0, <1>1 DEF FlushEnter, WorldOK, bounds, files, told
  <2>2. pc[h] = "flush" /\ lock # h
    BY <1>0, <1>1 DEF FlushEnter, At, StepOK, AtMarker
  <2>3. CASE lock = None /\ lock' = h /\ Then(h, "post")
    BY <1>a, <2>1, <2>3, NoneAssumption, ThenTypes DEF Labels, InItsName, AtMarker
  <2>4. CASE UNCHANGED lock /\ Then(h, AfterFlush(h))
    BY <1>a, <2>1, <2>2, <2>4, ThenTypes DEF Labels, InItsName, AtMarker
  <2> QED
    BY <1>1, <2>3, <2>4 DEF FlushEnter
<1>2. CASE Post(h)
  <2>1. WorldOK'
    BY <1>0, <1>2 DEF Post, WorldOK, bounds, told
  <2>2. HooksOK' /\ StepOK(h)' /\ OthersStay(h)
    BY <1>0, <1>2 DEF Post, HooksOK, StepOK, OthersStay, own, who, hand, seen, Me
  <2> QED
    BY <2>1, <2>2, TypeByParts
<1>3. CASE FlushLeave(h)
  <2>1. WorldOK'
    BY <1>0, <1>3 DEF FlushLeave, WorldOK, bounds, files, told
  <2>2. lock = h /\ lock' = None /\ Then(h, AfterFlush(h))
    BY <1>0, <1>3 DEF FlushLeave, At, StepOK
  <2> QED
    BY <1>a, <2>1, <2>2, NoneAssumption, ThenTypes DEF Labels, InItsName, AtMarker
<1> QED
  BY <1>1, <1>2, <1>3 DEF FlushStep

\* What the hub is told leaves a hub, and goes on to one of two steps.
LEMMA EndCallFacts ==
  ASSUME WorldOK, NEW h \in Hook, NEW i \in Id, NEW one, NEW other,
         EndCall(h, i, one, other)
  PROVE  /\ faults' \in 0..cast.faults /\ hub' \in [Id -> {"none", "open", "ended"}]
         /\ astray' \subseteq Id
         /\ hub' = hub \/ (hub[i] # "none" /\ hub' = [hub EXCEPT ![i] = "ended"])
         /\ (Then(h, one) /\ hub'[i] # "open") \/ Then(h, other)
<1>1. cast.faults \in Nat
  BY EndsAssumption DEF WorldOK
<1>2. /\ Ends(h, i) => /\ hub' \in [Id -> {"none", "open", "ended"}] /\ astray' \subseteq Id
                       /\ hub'[i] # "open"
                       /\ hub' = hub \/ (hub[i] # "none" /\ hub' = [hub EXCEPT ![i] = "ended"])
  BY DEF Ends, WorldOK
<1>3. CASE Ends(h, i) /\ Then(h, one) /\ UNCHANGED faults
  BY <1>2, <1>3 DEF WorldOK
<1>4. CASE Fault /\ Then(h, other) /\ (Ends(h, i) \/ UNCHANGED <<hub, astray>>)
  <2>1. faults' \in 0..cast.faults
    BY <1>1, <1>4 DEF WorldOK, Fault
  <2> QED
    BY <1>2, <1>4, <2>1 DEF WorldOK
<1> QED
  BY <1>3, <1>4 DEF EndCall

LEMMA EndTypes ==
  ASSUME TypeOK, NEW h \in Hook, EndStep(h)
  PROVE  TypeOK'
<1>0. WorldOK /\ HooksOK /\ StepOK(h) /\ Me(h) \in Host
  BY TypeParts, MeFact
<1>a. name[h] \in IdsOf(Me(h)) /\ name[h] \in Id /\ lock # h
  <2>1. pc[h] \in {"count", "mark", "delete", "tell", "clear"}
    BY DEF EndStep, Count, Mark, DeleteState, Tell, Clear, At
  <2> QED
    BY <1>0, <2>1, IdsFacts DEF StepOK, InItsName, AtMarker
<1> USE DEF At, Goto, Labels, InItsName, AtMarker
<1>1. CASE Count(h)
  <2>1. WorldOK'
    BY <1>0, <1>1 DEF Count, WorldOK, bounds, files, told
  <2>2. HooksOK' /\ StepOK(h)' /\ OthersStay(h)
    BY <1>0, <1>1 DEF Count, HooksOK, StepOK, OthersStay, who, hand, seen, Me
  <2> QED
    BY <2>1, <2>2, TypeByParts
<1>2. CASE Mark(h)
  <2>1. WorldOK'
    BY <1>0, <1>a, <1>2 DEF Mark, WorldOK, bounds
  <2>2. HooksOK' /\ StepOK(h)' /\ OthersStay(h)
    BY <1>0, <1>2 DEF Mark, Telling, HooksOK, StepOK, OthersStay, own, who, hand, Me
  <2> QED
    BY <2>1, <2>2, TypeByParts
<1>3. CASE DeleteState(h)
  <2>1. WorldOK'
    BY <1>0, <1>3 DEF DeleteState, WorldOK, bounds, told
  <2>2. CASE Then(h, "idle")
    <3>1. lock' = lock
      BY <1>3 DEF DeleteState
    <3> QED
      BY <1>a, <2>1, <2>2, <3>1, ThenTypes
  <2>3. CASE Goto(h, "tell") /\ back' = back \ {h} /\ UNCHANGED <<own, marked, added>>
    <3>1. HooksOK' /\ StepOK(h)' /\ OthersStay(h)
      BY <1>0, <1>3, <2>3 DEF DeleteState, HooksOK, StepOK, OthersStay, own, who, hand, Me
    <3> QED
      BY <2>1, <3>1, TypeByParts
  <2> QED
    BY <1>3, <2>2, <2>3 DEF DeleteState
<1>4. CASE Tell(h)
  <2> DEFINE next == IF hub[name[h]] = "none" THEN "idle" ELSE "clear"
  <2>1. EndCall(h, name[h], next, "idle") /\ lock' = lock
    BY <1>4 DEF Tell
  <2>2. PICK label \in {"idle", "clear"} : Then(h, label)
    BY <1>0, <1>a, <2>1, EndCallFacts
  <2>3. WorldOK'
    <3>1. faults' \in 0..cast.faults /\ hub' \in [Id -> {"none", "open", "ended"}]
          /\ astray' \subseteq Id
      BY <1>0, <1>a, <2>1, EndCallFacts
    <3> QED
      BY <1>0, <1>4, <3>1 DEF Tell, WorldOK, files
  <2> QED
    BY <1>a, <2>1, <2>2, <2>3, ThenTypes
<1>5. CASE Clear(h)
  <2>1. WorldOK'
    BY <1>0, <1>5 DEF Clear, Unmark, WorldOK, bounds
  <2> QED
    BY <1>a, <1>5, <2>1, ThenTypes DEF Clear
<1> QED
  BY <1>1, <1>2, <1>3, <1>4, <1>5 DEF EndStep

LEMMA ReapTypes ==
  ASSUME TypeOK, NEW h \in Hook, ReapStep(h)
  PROVE  TypeOK'
<1>0. WorldOK /\ HooksOK /\ StepOK(h) /\ Me(h) \in Host
  BY TypeParts, MeFact
<1> USE DEF At, Goto, Labels, InItsName, AtMarker
<1>1. CASE ReapEnter(h)
  <2>1. WorldOK'
    BY <1>0, <1>1 DEF ReapEnter, WorldOK, HooksOK, bounds, told
  <2>2. HooksOK'
    BY <1>0, <1>1 DEF ReapEnter, PendingEnds, HooksOK, who, seen
  <2>3. StepOK(h)' /\ OthersStay(h)
    BY <1>0, <1>1, NoneAssumption DEF ReapEnter, HooksOK, StepOK, OthersStay, who
  <2> QED
    BY <2>1, <2>2, <2>3, TypeByParts
<1>2. CASE Walk(h)
  <2>1. WorldOK'
    BY <1>0, <1>2 DEF Walk, WorldOK, bounds, files, told
  <2>2. HooksOK' /\ StepOK(h)' /\ OthersStay(h)
    BY <1>0, <1>2 DEF Walk, HooksOK, StepOK, OthersStay, who, seen
  <2> QED
    BY <2>1, <2>2, TypeByParts
<1>3. CASE ReadMarker(h)
  <2>1. WorldOK'
    BY <1>0, <1>3 DEF ReadMarker, WorldOK, bounds, files, told
  <2>2. at[h] \in Host
    BY <1>0, <1>3 DEF ReadMarker, StepOK
  <2>3. marker[at[h]] \in IdsOf(at[h]) \cup {None}
    BY <1>0, <2>2 DEF WorldOK
  <2>4. HooksOK' /\ StepOK(h)' /\ OthersStay(h)
    BY <1>0, <1>3, <2>2, <2>3 DEF ReadMarker, WorldOK, HooksOK, StepOK, OthersStay, who
  <2> QED
    BY <2>1, <2>4, TypeByParts
<1>4. CASE Retire(h)
  <2>1. read[h] \in Id
    BY <1>0, <1>4, IdsFacts DEF Retire, StepOK
  <2>2. WorldOK'
    BY <1>0, <1>4, <2>1 DEF Retire, WorldOK, bounds, told
  <2>3. HooksOK' /\ StepOK(h)' /\ OthersStay(h)
    BY <1>0, <1>4 DEF Retire, HooksOK, StepOK, OthersStay, own, who, hand, seen
  <2> QED
    BY <2>2, <2>3, TypeByParts
<1>5. CASE Drained(h)
  <2>1. WorldOK' /\ lock = h /\ lock' = lock
    BY <1>0, <1>5 DEF Drained, WorldOK, StepOK, bounds, files, told
  <2>2. CASE Then(h, "walk")
    BY <2>1, <2>2, ThenTypes
  <2>3. CASE Goto(h, "call") /\ added' = [added EXCEPT ![h] = {}] /\ UNCHANGED <<own, back, marked>>
    <3>1. HooksOK' /\ StepOK(h)' /\ OthersStay(h)
      BY <1>0, <1>5, <2>3 DEF Drained, HooksOK, StepOK, OthersStay, own, who, hand
    <3> QED
      BY <2>1, <3>1, TypeByParts
  <2> QED
    BY <1>5, <2>2, <2>3 DEF Drained
<1>6. CASE Call(h)
  <2>1. lock = h /\ lock' = lock /\ read[h] \in Id /\ at[h] \in Host
    BY <1>0, <1>6, IdsFacts DEF Call, StepOK
  <2>2. /\ faults' \in 0..cast.faults /\ hub' \in [Id -> {"none", "open", "ended"}]
        /\ astray' \subseteq Id
    BY <1>0, <1>6, <2>1, EndCallFacts DEF Call, WorldOK
  <2>3. WorldOK'
    BY <1>0, <1>6, <2>2 DEF Call, WorldOK, files
  <2>4. PICK label \in {"walk", "remove"} : Then(h, label)
    BY <1>0, <1>6, <2>1, EndCallFacts DEF Call
  <2> QED
    BY <2>1, <2>3, <2>4, ThenTypes
<1>7. CASE Remove(h)
  <2>1. WorldOK' /\ lock = h /\ lock' = lock
    BY <1>0, <1>7 DEF Remove, Unmark, WorldOK, StepOK, bounds
  <2> QED
    BY <1>7, <2>1, ThenTypes DEF Remove
<1>8. CASE ReapLeave(h)
  <2>1. WorldOK'
    BY <1>0, <1>8 DEF ReapLeave, WorldOK, bounds, files, told
  <2>2. HooksOK' /\ StepOK(h)' /\ OthersStay(h)
    BY <1>0, <1>8, NoneAssumption DEF ReapLeave, HooksOK, StepOK, OthersStay, own, who, hand, seen
  <2> QED
    BY <2>1, <2>2, TypeByParts
<1>9. CASE Corpses(h)
  <2>1. WorldOK' /\ lock # h /\ lock' = lock
    BY <1>0, <1>9 DEF Corpses, WorldOK, StepOK, bounds, told
  <2> QED
    BY <1>9, <2>1, ThenTypes DEF Corpses
<1> QED
  BY <1>1, <1>2, <1>3, <1>4, <1>5, <1>6, <1>7, <1>8, <1>9 DEF ReapStep

LEMMA WorldTypes ==
  ASSUME TypeOK, (\E h \in Hook : Kill(h)) \/ (\E s \in Host : Silence(s) \/ Age(s))
                   \/ UNCHANGED vars
  PROVE  TypeOK'
<1>1. ASSUME NEW h \in Hook, Kill(h) PROVE TypeOK'
  <2>0. WorldOK /\ HooksOK /\ StepOK(h)
    BY TypeParts
  <2>1. WorldOK'
    BY <1>1, <2>0, EndsAssumption DEF Kill, Fault, WorldOK, files, told
  <2>2. lock' # h /\ \A b \in Hook \ {h} : lock = b <=> lock' = b
    BY <1>1, NoneAssumption DEF Kill
  <2> QED
    BY <1>1, <2>1, <2>2, ThenTypes DEF Kill, Labels, InItsName, AtMarker
<1>2. ASSUME NEW s \in Host, Silence(s) PROVE TypeOK'
  <2>1. WorldOK' /\ HooksOK' /\ \A h \in Hook : StepOK(h)'
    BY <1>2, TypeParts DEF Silence, WorldOK, HooksOK, StepOK, Me, bounds, told, own, who, hand, seen
  <2> QED
    BY <2>1, TypeParts DEF TypeOK, WorldOK, HooksOK, StepOK
<1>3. ASSUME NEW s \in Host, Age(s) PROVE TypeOK'
  <2>1. WorldOK' /\ HooksOK' /\ \A h \in Hook : StepOK(h)'
    BY <1>3, TypeParts DEF Age, WorldOK, HooksOK, StepOK, Me, bounds, told, own, who, hand, seen
  <2> QED
    BY <2>1, TypeParts DEF TypeOK, WorldOK, HooksOK, StepOK
<1>4. ASSUME UNCHANGED vars PROVE TypeOK'
  <2>1. WorldOK' /\ HooksOK' /\ \A h \in Hook : StepOK(h)'
    BY <1>4, TypeParts
       DEF vars, files, WorldOK, HooksOK, StepOK, Me, bounds, told, own, who, hand, seen
  <2> QED
    BY <2>1, TypeParts DEF TypeOK, WorldOK, HooksOK, StepOK
<1> QED
  BY <1>1, <1>2, <1>3, <1>4

LEMMA TypeStep == TypeOK /\ [Next]_vars => TypeOK'
BY StartTypes, FlushTypes, EndTypes, ReapTypes, WorldTypes DEF Next, Step

\* Every variable of a session's life keeps its domain, only a hook that posts
\* or walks is in the flush lock, and a hook, a state file and a marker name
\* suffixes of their own host session: for any hooks, hosts, suffixes and bounds.
THEOREM TypeCorrect == Spec => []TypeOK
<1>1. TypeOK /\ [Next]_vars => TypeOK'
  BY TypeStep
<1> QED
  BY <1>1, TypeInit, PTL DEF Spec

----------------------------------------------------------------------------
(* No end is forgotten.  What one hook may find in its hand:               *)

SpendOK(h) ==
  /\ pc[h] \in {"delete", "tell", "clear"} => h \in marked \/ marker[Me(h)] \in {None, name[h]}
  /\ pc[h] \in {"retire", "drained", "call"} => h \in marked \/ marker[at[h]] \in {None, read[h]}
  /\ pc[h] = "clear" => hub[name[h]] = "ended"
  /\ pc[h] = "remove" => \/ h \in marked \/ marker[at[h]] = None
                         \/ Settled(marker[at[h]])

Spends == {"delete", "tell", "clear", "retire", "drained", "call", "remove"}

\* What a step may do to the hub: a session is opened by a hook that
\* registers it, and one that is known ends.
HubStep ==
  \/ hub' = hub
  \/ \E i \in Id : hub[i] # "none" /\ hub' = [hub EXCEPT ![i] = "ended"]
  \/ \E g \in Hook : /\ pc[g] = "register" /\ hub[name[g]] # "ended"
                     /\ hub' = [hub EXCEPT ![name[g]] = "open"] /\ name[g] \notin owed'

\* A step that leaves the markers alone and adds no end to those owed.
QuietFiles == HubStep /\ marker' = marker /\ owed' \subseteq owed /\ unclosed \subseteq unclosed'

\* What a step of h leaves to the other hooks.
OthersKeep(h) ==
  \A b \in Hook \ {h} : /\ pc'[b] = pc[b] /\ name'[b] = name[b]
                        /\ at'[b] = at[b] /\ read'[b] = read[b]
                        /\ b \in marked => b \in marked'

\* A hook comes to a suffix from the one below, which the hub has ended.
Registers(h) ==
  pc'[h] = "register" =>
    \/ name'[h][2] = 0
    \/ pc[h] = "register" /\ hub[name[h]] = "ended" /\ name'[h] = <<Me(h), name[h][2] + 1>>

LEMMA HubFacts ==
  ASSUME TypeOK, Ladder, HubStep
  PROVE  /\ \A i \in Id : hub[i] = "ended" => hub'[i] = "ended"
         /\ \A s \in Host, m \in 0..Last :
              hub'[<<s, m>>] # "none" => \A n \in 0..(m - 1) : hub'[<<s, n>>] = "ended"
         /\ \A i \in Id : hub[i] # "open" /\ hub'[i] = "open" => i \notin owed'
<1>0. hub \in [Id -> {"none", "open", "ended"}] /\ Last \in Nat
  BY EndsAssumption DEF TypeOK
<1>i. \A s \in Host, m \in 0..Last : <<s, m>> \in Id
  BY DEF Id
<1>1. CASE hub' = hub
  BY <1>1 DEF Ladder
<1>2. ASSUME NEW i \in Id, hub[i] # "none", hub' = [hub EXCEPT ![i] = "ended"]
      PROVE  /\ \A j \in Id : hub[j] = "ended" => hub'[j] = "ended"
             /\ \A j \in Id : hub'[j] # "none" => hub[j] # "none"
             /\ \A j \in Id : hub'[j] = "open" => hub[j] = "open"
  BY <1>0, <1>2
<1>3. ASSUME NEW g \in Hook, pc[g] = "register", hub[name[g]] # "ended",
             hub' = [hub EXCEPT ![name[g]] = "open"], name[g] \notin owed'
      PROVE  /\ \A j \in Id : hub[j] = "ended" => hub'[j] = "ended"
             /\ \A j \in Id : j # name[g] => hub'[j] = hub[j]
             /\ name[g] \in Id /\ name[g] = <<Me(g), name[g][2]>>
             /\ \A n \in 0..(name[g][2] - 1) : hub[<<Me(g), n>>] = "ended"
  <2>1. StepOK(g) /\ Me(g) \in Host
    BY TypeParts, MeFact
  <2>2. name[g] \in Id /\ name[g] = <<Me(g), name[g][2]>>
    BY <1>3, <2>1, IdsFacts DEF StepOK, InItsName
  <2> QED
    BY <1>0, <1>3, <2>2 DEF Ladder
<1>4. ASSUME NEW s \in Host, NEW m \in 0..Last, hub'[<<s, m>>] # "none", NEW n \in 0..(m - 1)
      PROVE  hub'[<<s, n>>] = "ended"
  <2>1. n \in 0..Last /\ <<s, n>> \in Id /\ <<s, m>> \in Id
    BY <1>0, <1>i, <1>4
  <2>2. CASE hub[<<s, m>>] # "none"
    <3>1. hub[<<s, n>>] = "ended"
      BY <2>2, <1>4 DEF Ladder
    <3> QED
      BY <1>1, <1>2, <1>3, <2>1, <3>1 DEF HubStep
  <2>3. CASE hub[<<s, m>>] = "none"
    <3>1. PICK g \in Hook : /\ pc[g] = "register" /\ hub[name[g]] # "ended"
                            /\ hub' = [hub EXCEPT ![name[g]] = "open"] /\ name[g] \notin owed'
      BY <1>2, <1>4, <2>1, <2>3 DEF HubStep
    <3>2. <<s, m>> = name[g]
      BY <1>3, <1>4, <2>1, <2>3, <3>1
    <3>a. <<s, m>>[1] = s /\ <<s, m>>[2] = m /\ <<Me(g), name[g][2]>>[1] = Me(g)
      OBVIOUS
    <3>b. name[g] = <<Me(g), name[g][2]>>
      BY <1>3, <3>1
    <3>3. s = Me(g) /\ m = name[g][2]
      BY <3>2, <3>a, <3>b
    <3>4. hub[<<s, n>>] = "ended"
      BY <1>3, <3>1, <3>3
    <3> QED
      BY <1>3, <2>1, <3>1, <3>4
  <2> QED
    BY <2>2, <2>3
<1>5. \A j \in Id : hub[j] = "ended" => hub'[j] = "ended"
  BY <1>1, <1>2, <1>3 DEF HubStep
<1>6. \A j \in Id : hub[j] # "open" /\ hub'[j] = "open" => j \notin owed'
  BY <1>1, <1>2, <1>3 DEF HubStep
<1> QED
  BY <1>4, <1>5, <1>6

LEMMA LadderKept ==
  ASSUME TypeOK, TypeOK', Ladder, HubStep, NEW h \in Hook, OthersKeep(h), Registers(h)
  PROVE  Ladder'
<1>1. \A i \in Id : hub[i] = "ended" => hub'[i] = "ended"
  BY HubFacts
<1>2. ASSUME NEW b \in Hook, pc'[b] = "register", NEW n \in 0..(name'[b][2] - 1)
      PROVE  hub'[<<Me(b), n>>] = "ended"
  <2>0. /\ Me(b) \in Host /\ StepOK(b) /\ StepOK(b)' /\ Last \in Nat
        /\ pc[b] = "register" => name[b] \in IdsOf(Me(b))
        /\ name'[b] \in IdsOf(Me(b))
    BY <1>2, MeFact, TypeParts, EndsAssumption DEF StepOK, InItsName, TypeOK, Me
  <2>1. name'[b][2] \in 0..Last /\ <<Me(b), n>> \in Id
    BY <1>2, <2>0, IdsFacts DEF Id
  <2>2. CASE b # h
    BY <1>1, <1>2, <2>1, <2>2 DEF OthersKeep, Ladder
  <2>3. CASE b = h /\ pc[h] = "register" /\ hub[name[h]] = "ended"
                   /\ name'[h] = <<Me(h), name[h][2] + 1>>
    <3>1. name[h] = <<Me(h), name[h][2]>> /\ name[h][2] \in 0..Last
      BY <2>0, <2>3, IdsFacts
    <3>2. n = name[h][2] \/ n \in 0..(name[h][2] - 1)
      BY <1>2, <2>3, <3>1
    <3>3. hub[<<Me(h), n>>] = "ended"
      BY <2>3, <3>1, <3>2 DEF Ladder
    <3> QED
      BY <1>1, <2>1, <2>3, <3>3
  <2> QED
    BY <1>2, <2>1, <2>2, <2>3 DEF Registers
<1> QED
  BY <1>2, HubFacts DEF Ladder, Me

\* A step that leaves the markers alone keeps the invariant, when h itself
\* still knows what it spends.
LEMMA QuietKeeps ==
  ASSUME EndsInv, TypeOK', NEW h \in Hook, QuietFiles, OthersKeep(h), Registers(h), SpendOK(h)'
  PROVE  EndsInv'
<1>1. Ladder'
  BY LadderKept DEF EndsInv, QuietFiles
<1>2. /\ \A i \in Id : hub[i] = "ended" => hub'[i] = "ended"
      /\ \A i \in Id : hub[i] # "open" /\ hub'[i] = "open" => i \notin owed'
  BY HubFacts DEF EndsInv, QuietFiles
<1>3. \A i \in Id : Settled(i) => Settled(i)'
  BY <1>2 DEF Settled, QuietFiles
<1>4. NoEndForgotten'
  BY <1>2 DEF NoEndForgotten, QuietFiles, EndsInv, TypeOK
<1>5. ASSUME NEW b \in Hook \ {h} PROVE SpendOK(b)'
  <2>1. SpendOK(b) /\ StepOK(b) /\ StepOK(b)' /\ Me(b) \in Host
    <3>1. SpendOK(b) /\ StepOK(b)
      BY TypeParts DEF EndsInv, Spending, SpendOK
    <3>2. StepOK(b)'
      BY DEF TypeOK, StepOK
    <3> QED
      BY <3>1, <3>2, MeFact
  <2>2. /\ pc'[b] = pc[b] /\ name'[b] = name[b] /\ at'[b] = at[b] /\ read'[b] = read[b]
        /\ b \in marked => b \in marked'
        /\ marker' = marker
    BY DEF OthersKeep, QuietFiles
  <2>3. pc[b] = "clear" => hub'[name[b]] = "ended"
    BY <1>2, <2>1, IdsFacts DEF SpendOK, StepOK, InItsName
  <2>4. pc[b] = "remove" => b \in marked \/ marker[at[b]] = None \/ Settled(marker[at[b]])'
    <3>1. pc[b] = "remove" => at[b] \in Host
      BY <2>1 DEF StepOK, AtMarker
    <3>2. marker \in [Host -> Id \cup {None}]
      BY DEF EndsInv, TypeOK
    <3>3. pc[b] = "remove" /\ Settled(marker[at[b]]) /\ marker[at[b]] # None
             => (hub[marker[at[b]]] # "open" \/ marker[at[b]] \in unclosed \/ marker[at[b]] \notin owed)
      BY DEF Settled
    <3> QED
      BY <1>2, <2>1, <2>2, <3>1, <3>2, <3>3 DEF SpendOK, Settled, QuietFiles
  <2> QED
    BY <2>1, <2>2, <2>3, <2>4 DEF SpendOK, Settled, Me
<1> QED
  BY <1>1, <1>4, <1>5 DEF EndsInv, Spending, SpendOK

\* A hook that goes on to a step where it has nothing in hand.
LEMMA CalmFacts ==
  ASSUME HooksOK, NEW h \in Hook, NEW label \in Labels \ (Spends \cup {"register"}),
         Then(h, label)
  PROVE  OthersKeep(h) /\ Registers(h) /\ SpendOK(h)'
<1>1. pc' = [pc EXCEPT ![h] = label] /\ pc \in [Hook -> Labels]
  BY ThenFacts DEF HooksOK
<1> QED
  BY <1>1, ThenFacts DEF OthersKeep, Registers, SpendOK, Spends

LEMMA StartKeeps ==
  ASSUME EndsInv, TypeOK', NEW h \in Hook, Arrive(h) \/ StartStep(h)
  PROVE  EndsInv'
<1>0. HooksOK /\ StepOK(h) /\ Me(h) \in Host
  BY TypeParts, MeFact DEF EndsInv
<1> USE DEF At, Goto
<1>a. Registered(h) \in {"publish", "claim"}
  BY DEF Registered
<1>1. CASE Arrive(h)
  <2>1. OthersKeep(h) /\ SpendOK(h)'
    BY <1>0, <1>1 DEF Arrive, PartOf, HooksOK, OthersKeep, SpendOK, hand, seen
  <2>2. Registers(h)
    BY <1>0, <1>1 DEF Arrive, PartOf, Named, Base, HooksOK, Registers
  <2>3. QuietFiles
    BY <1>1 DEF Arrive, QuietFiles, HubStep, files, told
  <2> QED
    BY <2>1, <2>2, <2>3, QuietKeeps
<1>2. CASE Accepted(h)
  <2>1. OthersKeep(h) /\ SpendOK(h)' /\ Registers(h)
    BY <1>0, <1>a, <1>2 DEF Accepted, HooksOK, OthersKeep, SpendOK, Registers, hand, seen
  <2>2. QuietFiles
    BY <1>2 DEF Accepted, Opened, QuietFiles, HubStep, files
  <2> QED
    BY <2>1, <2>2, QuietKeeps
<1>3. CASE Unanswered(h)
  <2>1. OthersKeep(h) /\ SpendOK(h)' /\ Registers(h)
    BY <1>0, <1>a, <1>3 DEF Unanswered, HooksOK, OthersKeep, SpendOK, Registers, hand, seen
  <2>2. QuietFiles
    BY <1>3 DEF Unanswered, Opened, QuietFiles, HubStep, files
  <2> QED
    BY <2>1, <2>2, QuietKeeps
<1>4. CASE Publish(h)
  <2>1. OthersKeep(h) /\ SpendOK(h)' /\ Registers(h)
    BY <1>0, <1>4 DEF Publish, HooksOK, OthersKeep, SpendOK, Registers, own, who, hand
  <2>2. QuietFiles
    BY <1>4 DEF Publish, QuietFiles, HubStep
  <2> QED
    BY <2>1, <2>2, QuietKeeps
<1>5. CASE Claim(h)
  <2>1. OthersKeep(h) /\ SpendOK(h)' /\ Registers(h)
    BY <1>0, <1>5 DEF Claim, HooksOK, OthersKeep, SpendOK, Registers, hand
  <2>2. QuietFiles
    BY <1>5 DEF Claim, QuietFiles, HubStep
  <2> QED
    BY <2>1, <2>2, QuietKeeps
<1>6. CASE Append(h)
  <2>1. OthersKeep(h) /\ SpendOK(h)' /\ Registers(h)
    BY <1>0, <1>6 DEF Append, HooksOK, OthersKeep, SpendOK, Registers, own, who, hand
  <2>2. QuietFiles
    BY <1>6 DEF Append, QuietFiles, HubStep, told
  <2> QED
    BY <2>1, <2>2, QuietKeeps
<1>7. CASE Conflict(h)
  <2>1. QuietFiles
    BY <1>7 DEF Conflict, QuietFiles, HubStep, files, told
  <2>2. CASE Then(h, "idle")
    BY <1>0, <2>1, <2>2, CalmFacts, QuietKeeps DEF Labels, Spends
  <2>3. CASE name' = [name EXCEPT ![h] = <<Me(h), @[2] + 1>>] /\ UNCHANGED <<pc, sure, left, hand, seen>>
    <3>1. OthersKeep(h) /\ SpendOK(h)' /\ Registers(h)
      BY <1>0, <1>7, <2>3 DEF Conflict, HooksOK, OthersKeep, SpendOK, Registers, hand, seen
    <3> QED
      BY <2>1, <3>1, QuietKeeps
  <2>4. CASE name' = [name EXCEPT ![h] = Base(Me(h))] /\ Goto(h, Registered(h))
             /\ UNCHANGED <<sure, left, hand, seen>>
    <3>1. OthersKeep(h) /\ SpendOK(h)' /\ Registers(h)
      BY <1>0, <1>a, <2>4 DEF HooksOK, OthersKeep, SpendOK, Registers, hand, seen
    <3> QED
      BY <2>1, <3>1, QuietKeeps
  <2> QED
    BY <1>7, <2>2, <2>3, <2>4 DEF Conflict
<1>8. CASE ClaimRefused(h)
  <2>1. QuietFiles
    BY <1>8 DEF ClaimRefused, QuietFiles, HubStep, files, told
  <2> QED
    BY <1>0, <1>8, <2>1, CalmFacts, QuietKeeps DEF ClaimRefused, Labels, Spends
<1> QED
  BY <1>1, <1>2, <1>3, <1>4, <1>5, <1>6, <1>7, <1>8 DEF StartStep

LEMMA FlushKeeps ==
  ASSUME EndsInv, TypeOK', NEW h \in Hook, FlushStep(h)
  PROVE  EndsInv'
<1>0. HooksOK
  BY TypeParts DEF EndsInv
<1>1. AfterFlush(h) \in Labels \ (Spends \cup {"register"}) /\ "post" \in Labels \ (Spends \cup {"register"})
  BY EndsAssumption DEF AfterFlush, Labels, InItsName, Spends
<1>2. QuietFiles
  BY DEF FlushStep, FlushEnter, Post, FlushLeave, QuietFiles, HubStep, files, told
<1>3. CASE Post(h)
  BY <1>0, <1>2, <1>3, QuietKeeps
     DEF Post, At, HooksOK, OthersKeep, SpendOK, Registers, own, who, hand, seen
<1>4. CASE FlushEnter(h) \/ FlushLeave(h)
  <2>1. Then(h, "post") \/ Then(h, AfterFlush(h))
    BY <1>4 DEF FlushEnter, FlushLeave
  <2> QED
    BY <1>0, <1>1, <1>2, <2>1, CalmFacts, QuietKeeps
<1> QED
  BY <1>3, <1>4 DEF FlushStep

\* Of one host session's suffixes at most one is open.
LEMMA OneOpen ==
  ASSUME TypeOK, Ladder, NEW s \in Host, NEW i \in IdsOf(s), NEW j \in IdsOf(s),
         hub[i] = "open", hub[j] = "open"
  PROVE  i = j
<1>1. /\ i = <<s, i[2]>> /\ i[2] \in 0..Last /\ j = <<s, j[2]>> /\ j[2] \in 0..Last
      /\ Last \in Nat
  BY IdsFacts, EndsAssumption
<1>2. CASE i[2] < j[2]
  <2>1. i[2] \in 0..(j[2] - 1)
    BY <1>1, <1>2
  <2> QED
    BY <1>1, <2>1 DEF Ladder
<1>3. CASE j[2] < i[2]
  <2>1. j[2] \in 0..(i[2] - 1)
    BY <1>1, <1>3
  <2> QED
    BY <1>1, <2>1 DEF Ladder
<1> QED
  BY <1>1, <1>2, <1>3

LEMMA MarkKeeps ==
  ASSUME EndsInv, TypeOK', NEW h \in Hook, Mark(h)
  PROVE  EndsInv'
<1>0. /\ HooksOK /\ StepOK(h) /\ Me(h) \in Host /\ name[h] \in IdsOf(Me(h))
      /\ marker \in [Host -> Id \cup {None}] /\ owed \subseteq Id
  <2>1. HooksOK /\ StepOK(h) /\ Me(h) \in Host
    BY TypeParts, MeFact DEF EndsInv
  <2> QED
    BY <2>1 DEF Mark, At, StepOK, InItsName, EndsInv, TypeOK
<1>1. /\ OthersKeep(h) /\ Registers(h) /\ SpendOK(h)'
  BY <1>0 DEF Mark, At, Goto, HooksOK, OthersKeep, Registers, SpendOK, Me, own, who, hand
<1>2. Ladder'
  <2>1. HubStep
    BY DEF Mark, HubStep
  <2> QED
    BY <1>1, <2>1, LadderKept DEF EndsInv
<1>3. ASSUME NEW i \in owed', i # name[h], hub[i] = "open", i \notin unclosed
      PROVE  marker'[i[1]] = i
  <2>1. i \in owed /\ i \in Id
    BY <1>0, <1>3 DEF Mark
  <2>2. marker[i[1]] = i /\ i[1] \in Host
    BY <1>3, <2>1 DEF EndsInv, NoEndForgotten, Id
  <2>3. i[1] # Me(h)
    <3> SUFFICES ASSUME i[1] = Me(h) PROVE FALSE
      OBVIOUS
    <3>1. i \in IdsOf(Me(h))
      BY <2>1 DEF Id, IdsOf
    <3>2. hub[name[h]] # "open"
      BY <1>0, <1>3, <3>1, OneOpen DEF EndsInv
    <3> QED
      BY <1>3, <2>2, <3>2 DEF Mark
  <2> QED
    BY <1>0, <2>2, <2>3 DEF Mark
<1>4. NoEndForgotten'
  <2>1. name[h][1] = Me(h) /\ marker'[Me(h)] = name[h]
    BY <1>0, IdsFacts DEF Mark
  <2>2. hub' = hub /\ unclosed' = unclosed
    BY DEF Mark
  <2> QED
    BY <1>3, <2>1, <2>2 DEF NoEndForgotten
<1>5. ASSUME NEW b \in Hook \ {h} PROVE SpendOK(b)'
  <2>1. SpendOK(b) /\ StepOK(b) /\ Me(b) \in Host
    BY MeFact, TypeParts DEF EndsInv, Spending, SpendOK
  <2>2. /\ pc'[b] = pc[b] /\ name'[b] = name[b] /\ at'[b] = at[b] /\ read'[b] = read[b]
        /\ b \in marked => b \in marked'
    BY <1>1 DEF OthersKeep
  <2>3. hub' = hub /\ unclosed' = unclosed /\ marker' = [marker EXCEPT ![Me(h)] = name[h]]
    BY DEF Mark
  <2>4. b \in marked' \/ /\ pc[b] \in {"delete", "tell", "clear"} => Me(b) # Me(h)
                         /\ pc[b] \in {"retire", "drained", "call", "remove"} => at[b] # Me(h)
    BY DEF Mark, Telling
  <2>5. ASSUME pc[b] = "remove", at[b] # Me(h), Settled(marker[at[b]]), marker[at[b]] # None
        PROVE  Settled(marker[at[b]])'
    <3>1. at[b] \in Host
      BY <2>1, <2>5 DEF StepOK, AtMarker
    <3>2. marker[at[b]] \in IdsOf(at[b]) /\ marker'[at[b]] = marker[at[b]]
      BY <1>0, <2>3, <2>5, <3>1 DEF EndsInv, TypeOK
    <3>3. marker[at[b]] # name[h]
      BY <1>0, <2>5, <3>1, <3>2, IdsFacts
    <3>4. owed' \subseteq owed \cup {name[h]} /\ at'[b] = at[b]
      BY <2>2 DEF Mark
    <3> QED
      BY <2>3, <2>5, <3>2, <3>3, <3>4 DEF Settled
  <2>6. /\ Me(b) # Me(h) => marker'[Me(b)] = marker[Me(b)]
        /\ pc[b] \in AtMarker /\ at[b] # Me(h) => marker'[at[b]] = marker[at[b]]
    BY <1>0, <2>1, <2>3 DEF StepOK
  <2>7. pc'[b] \in {"delete", "tell", "clear"} => b \in marked' \/ marker'[Me(b)] \in {None, name'[b]}
    BY <2>1, <2>2, <2>4, <2>6 DEF SpendOK
  <2>8. pc'[b] \in {"retire", "drained", "call"} => b \in marked' \/ marker'[at'[b]] \in {None, read'[b]}
    BY <2>1, <2>2, <2>4, <2>6 DEF SpendOK, AtMarker
  <2>9. pc'[b] = "clear" => hub'[name'[b]] = "ended"
    BY <2>1, <2>2, <2>3 DEF SpendOK
  <2>10. pc'[b] = "remove" => \/ b \in marked' \/ marker'[at'[b]] = None
                              \/ Settled(marker[at[b]])'
    BY <2>1, <2>2, <2>4, <2>5, <2>6 DEF SpendOK, AtMarker
  <2> QED
    BY <2>7, <2>8, <2>9, <2>10 DEF SpendOK, Me
<1> QED
  BY <1>1, <1>2, <1>4, <1>5 DEF EndsInv, Spending, SpendOK

\* A marker that goes was written anew meanwhile, or had done its work.
LEMMA UnmarkKeeps ==
  ASSUME EndsInv, TypeOK', NEW h \in Hook, NEW s \in Host, Unmark(h, s),
         UNCHANGED <<hub, unclosed>>, OthersKeep(h), Registers(h), SpendOK(h)',
         h \in marked \/ marker[s] = None \/ Settled(marker[s])
  PROVE  EndsInv'
<1>0. marker \in [Host -> Id \cup {None}] /\ owed \subseteq Id
  BY DEF EndsInv, TypeOK
<1>1. Ladder'
  <2>1. HubStep
    BY DEF HubStep
  <2> QED
    BY <2>1, LadderKept DEF EndsInv
<1>2. NoEndForgotten'
  <2>1. ASSUME NEW i \in owed', hub[i] = "open", i \notin unclosed PROVE marker'[i[1]] = i
    <3>1. i \in owed /\ i \in Id
      BY <1>0, <2>1 DEF Unmark
    <3>2. marker[i[1]] = i /\ i[1] \in Host
      BY <2>1, <3>1 DEF EndsInv, NoEndForgotten, Id
    <3>3. i[1] # s
      BY <2>1, <3>1, <3>2, NoneAssumption DEF Unmark, Settled
    <3> QED
      BY <1>0, <3>2, <3>3 DEF Unmark
  <2> QED
    BY <2>1 DEF NoEndForgotten
<1>3. ASSUME NEW b \in Hook \ {h} PROVE SpendOK(b)'
  <2>1. SpendOK(b) /\ StepOK(b) /\ Me(b) \in Host
    BY MeFact, TypeParts DEF EndsInv, Spending, SpendOK
  <2>2. /\ pc'[b] = pc[b] /\ name'[b] = name[b] /\ at'[b] = at[b] /\ read'[b] = read[b]
        /\ b \in marked => b \in marked'
    BY DEF OthersKeep
  <2>3. /\ \A t \in Host : marker'[t] = None \/ marker'[t] = marker[t]
        /\ owed' \subseteq owed
    BY <1>0 DEF Unmark
  <2>4. pc[b] \in AtMarker => at[b] \in Host
    BY <2>1 DEF StepOK
  <2>5. pc'[b] \in {"delete", "tell", "clear"} => b \in marked' \/ marker'[Me(b)] \in {None, name'[b]}
    BY <2>1, <2>2, <2>3 DEF SpendOK
  <2>6. pc'[b] \in {"retire", "drained", "call"} => b \in marked' \/ marker'[at'[b]] \in {None, read'[b]}
    BY <2>1, <2>2, <2>3, <2>4 DEF SpendOK, AtMarker
  <2>7. pc'[b] = "clear" => hub'[name'[b]] = "ended"
    BY <2>1, <2>2 DEF SpendOK
  <2>8. ASSUME pc[b] = "remove", b \notin marked', marker'[at[b]] # None PROVE Settled(marker[at[b]])'
    <3>1. marker'[at[b]] = marker[at[b]] /\ at'[b] = at[b]
      BY <2>2, <2>3, <2>4, <2>8 DEF AtMarker
    <3>2. Settled(marker[at[b]])
      BY <2>1, <2>2, <2>8, <3>1 DEF SpendOK
    <3> QED
      BY <2>3, <3>1, <3>2 DEF Settled
  <2> QED
    BY <2>2, <2>5, <2>6, <2>7, <2>8 DEF SpendOK, Me
<1> QED
  BY <1>1, <1>2, <1>3 DEF EndsInv, Spending, SpendOK

LEMMA EndKeeps ==
  ASSUME EndsInv, TypeOK', NEW h \in Hook, EndStep(h)
  PROVE  EndsInv'
<1>0. HooksOK /\ WorldOK /\ StepOK(h) /\ SpendOK(h) /\ Me(h) \in Host
  BY TypeParts, MeFact DEF EndsInv, Spending, SpendOK
<1> USE DEF At, Goto
<1>1. CASE Count(h)
  <2>1. QuietFiles
    BY <1>1 DEF Count, QuietFiles, HubStep, files, told
  <2>2. OthersKeep(h) /\ Registers(h) /\ SpendOK(h)'
    BY <1>0, <1>1 DEF Count, HooksOK, OthersKeep, Registers, SpendOK, who, hand, seen
  <2> QED
    BY <2>1, <2>2, QuietKeeps
<1>2. CASE Mark(h)
  BY <1>2, MarkKeeps
<1>3. CASE DeleteState(h)
  <2>1. QuietFiles
    BY <1>3 DEF DeleteState, QuietFiles, HubStep, told
  <2>2. CASE Then(h, "idle")
    BY <1>0, <2>1, <2>2, CalmFacts, QuietKeeps DEF Labels, Spends
  <2>3. CASE Goto(h, "tell") /\ back' = back \ {h} /\ UNCHANGED <<own, marked, added>>
    <3>1. OthersKeep(h) /\ Registers(h) /\ SpendOK(h)'
      BY <1>0, <1>3, <2>3
         DEF DeleteState, HooksOK, OthersKeep, Registers, SpendOK, Me, own, who, hand
    <3> QED
      BY <2>1, <3>1, QuietKeeps
  <2> QED
    BY <1>3, <2>2, <2>3 DEF DeleteState
<1>4. CASE Tell(h)
  <2> DEFINE next == IF hub[name[h]] = "none" THEN "idle" ELSE "clear"
  <2>1. EndCall(h, name[h], next, "idle") /\ name[h] \in Id /\ pc[h] = "tell"
    BY <1>0, <1>4, IdsFacts DEF Tell, StepOK, InItsName
  <2>2. /\ (Then(h, next) /\ hub'[name[h]] # "open") \/ Then(h, "idle")
        /\ hub' = hub \/ (hub[name[h]] # "none" /\ hub' = [hub EXCEPT ![name[h]] = "ended"])
    BY <1>0, <2>1, EndCallFacts
  <2>3. QuietFiles
    BY <1>4, <2>1, <2>2 DEF Tell, QuietFiles, HubStep, files
  <2>4. CASE Then(h, "idle")
    BY <1>0, <2>3, <2>4, CalmFacts, QuietKeeps DEF Labels, Spends
  <2>5. CASE Then(h, "clear") /\ hub'[name[h]] # "open" /\ hub[name[h]] # "none"
    <3>1. hub'[name[h]] = "ended"
      BY <1>0, <2>1, <2>2, <2>5 DEF WorldOK
    <3>2. /\ pc' = [pc EXCEPT ![h] = "clear"] /\ name' = name /\ at' = at /\ marked' = marked
          /\ marker' = marker /\ read' = read
      BY <1>0, <1>4, <2>5, ThenFacts DEF Tell, Labels, InItsName, files
    <3>3. OthersKeep(h) /\ Registers(h)
      BY <1>0, <3>2 DEF HooksOK, OthersKeep, Registers
    <3>4. SpendOK(h)'
      BY <1>0, <2>1, <3>1, <3>2 DEF HooksOK, SpendOK, Me
    <3> QED
      BY <2>3, <3>3, <3>4, QuietKeeps
  <2> QED
    BY <2>2, <2>4, <2>5
<1>5. CASE Clear(h)
  <2>1. OthersKeep(h) /\ Registers(h) /\ SpendOK(h)'
    BY <1>0, <1>5, CalmFacts DEF Clear, Labels, Spends
  <2>2. h \in marked \/ marker[Me(h)] = None \/ Settled(marker[Me(h)])
    BY <1>0, <1>5 DEF Clear, SpendOK, Settled
  <2> QED
    BY <1>0, <1>5, <2>1, <2>2, UnmarkKeeps DEF Clear
<1> QED
  BY <1>1, <1>2, <1>3, <1>4, <1>5 DEF EndStep

LEMMA ReapKeeps ==
  ASSUME EndsInv, TypeOK', NEW h \in Hook, ReapStep(h)
  PROVE  EndsInv'
<1>0. HooksOK /\ WorldOK /\ StepOK(h) /\ SpendOK(h)
  BY TypeParts DEF EndsInv, Spending, SpendOK
<1> USE DEF At, Goto
<1>1. CASE ReapEnter(h) \/ Walk(h) \/ ReapLeave(h)
  <2>1. QuietFiles
    BY <1>1 DEF ReapEnter, Walk, ReapLeave, QuietFiles, HubStep, files, told
  <2>2. OthersKeep(h) /\ Registers(h) /\ SpendOK(h)'
    BY <1>0, <1>1 DEF ReapEnter, Walk, ReapLeave, HooksOK, OthersKeep, Registers, SpendOK,
                      own, who, hand, seen
  <2> QED
    BY <2>1, <2>2, QuietKeeps
<1>2. CASE ReadMarker(h)
  <2>1. QuietFiles
    BY <1>2 DEF ReadMarker, QuietFiles, HubStep, files, told
  <2>2. OthersKeep(h) /\ Registers(h)
    BY <1>0, <1>2 DEF ReadMarker, HooksOK, OthersKeep, Registers, who
  <2>3. SpendOK(h)'
    BY <1>0, <1>2 DEF ReadMarker, HooksOK, SpendOK, files
  <2> QED
    BY <2>1, <2>2, <2>3, QuietKeeps
<1>3. CASE Retire(h)
  <2>1. QuietFiles
    BY <1>3 DEF Retire, QuietFiles, HubStep, told
  <2>2. OthersKeep(h) /\ Registers(h)
    BY <1>0, <1>3 DEF Retire, HooksOK, OthersKeep, Registers, own, who, hand, seen
  <2>3. SpendOK(h)'
    BY <1>0, <1>3 DEF Retire, HooksOK, SpendOK, Settled, own, who, hand, seen
  <2> QED
    BY <2>1, <2>2, <2>3, QuietKeeps
<1>4. CASE Drained(h)
  <2>1. QuietFiles
    BY <1>4 DEF Drained, QuietFiles, HubStep, files, told
  <2>2. CASE Then(h, "walk")
    BY <1>0, <2>1, <2>2, CalmFacts, QuietKeeps DEF Labels, Spends
  <2>3. CASE Goto(h, "call") /\ added' = [added EXCEPT ![h] = {}] /\ UNCHANGED <<own, back, marked>>
    <3>1. OthersKeep(h) /\ Registers(h) /\ SpendOK(h)'
      BY <1>0, <1>4, <2>3
         DEF Drained, HooksOK, OthersKeep, Registers, SpendOK, own, who, hand, files
    <3> QED
      BY <2>1, <3>1, QuietKeeps
  <2> QED
    BY <1>4, <2>2, <2>3 DEF Drained
<1>5. CASE Call(h)
  <2>1. pc[h] = "call" /\ read[h] \in Id /\ at[h] \in Host
    BY <1>0, <1>5, IdsFacts DEF Call, StepOK, AtMarker
  <2>2. /\ (Then(h, "remove") /\ hub'[read[h]] # "open") \/ Then(h, "walk")
        /\ hub' = hub \/ (hub[read[h]] # "none" /\ hub' = [hub EXCEPT ![read[h]] = "ended"])
    BY <1>0, <1>5, <2>1, EndCallFacts DEF Call
  <2>3. QuietFiles
    BY <1>5, <2>1, <2>2 DEF Call, QuietFiles, HubStep, files
  <2>4. CASE Then(h, "walk")
    BY <1>0, <2>3, <2>4, CalmFacts, QuietKeeps DEF Labels, Spends
  <2>5. CASE Then(h, "remove") /\ hub'[read[h]] # "open"
    <3>1. /\ pc' = [pc EXCEPT ![h] = "remove"] /\ name' = name /\ at' = at /\ marked' = marked
          /\ marker' = marker /\ read' = read
      BY <1>0, <1>5, <2>5, ThenFacts DEF Call, Labels, AtMarker, files
    <3>2. OthersKeep(h) /\ Registers(h)
      BY <1>0, <3>1 DEF HooksOK, OthersKeep, Registers
    <3>3. SpendOK(h)'
      BY <1>0, <2>1, <2>5, <3>1 DEF HooksOK, SpendOK, Settled
    <3> QED
      BY <2>3, <3>2, <3>3, QuietKeeps
  <2> QED
    BY <2>2, <2>4, <2>5
<1>6. CASE Remove(h)
  <2>1. OthersKeep(h) /\ Registers(h) /\ SpendOK(h)'
    BY <1>0, <1>6, CalmFacts DEF Remove, Labels, Spends
  <2>2. h \in marked \/ marker[at[h]] = None \/ Settled(marker[at[h]])
    BY <1>0, <1>6 DEF Remove, SpendOK
  <2>3. at[h] \in Host
    BY <1>0, <1>6 DEF Remove, StepOK, AtMarker
  <2> QED
    BY <1>6, <2>1, <2>2, <2>3, UnmarkKeeps DEF Remove
<1>7. CASE Corpses(h)
  <2>1. QuietFiles
    BY <1>7 DEF Corpses, QuietFiles, HubStep, told
  <2> QED
    BY <1>0, <1>7, <2>1, CalmFacts, QuietKeeps DEF Corpses, Labels, Spends
<1> QED
  BY <1>1, <1>2, <1>3, <1>4, <1>5, <1>6, <1>7 DEF ReapStep

LEMMA KillKeeps ==
  ASSUME EndsInv, TypeOK', NEW h \in Hook, Kill(h)
  PROVE  EndsInv'
<1>1. HooksOK
  BY TypeParts DEF EndsInv
<1>2. QuietFiles
  BY DEF Kill, QuietFiles, HubStep, files, told
<1> QED
  BY <1>1, <1>2, CalmFacts, QuietKeeps DEF Kill, Labels, Spends

\* Steps of no hook leave everything the invariant speaks of alone.
LEMMA StillKeeps ==
  ASSUME EndsInv, TypeOK', (\E s \in Host : Silence(s) \/ Age(s)) \/ UNCHANGED vars
  PROVE  EndsInv'
<1>1. UNCHANGED <<marker, hub, pc, name, at, read, unclosed, owed, marked>>
  BY DEF Silence, Age, vars, files, own, who, hand, told, seen
<1> QED
  BY <1>1 DEF EndsInv, Ladder, Spending, Settled, NoEndForgotten, Me

LEMMA EndsInvInit == Init => EndsInv
<1> SUFFICES ASSUME Init PROVE EndsInv
  OBVIOUS
<1>1. \A s \in Host, n \in 0..Last : <<s, n>> \in Id
  BY DEF Id
<1>2. Ladder
  BY <1>1 DEF Init, Ladder
<1>3. Spending /\ NoEndForgotten
  BY DEF Init, Spending, NoEndForgotten
<1> QED
  BY <1>2, <1>3, TypeInit DEF EndsInv

LEMMA EndsInvStep == EndsInv /\ [Next]_vars => EndsInv'
<1> SUFFICES ASSUME EndsInv, [Next]_vars PROVE EndsInv'
  OBVIOUS
<1>1. TypeOK'
  BY TypeStep DEF EndsInv
<1> QED
  BY <1>1, StartKeeps, FlushKeeps, EndKeeps, ReapKeeps, KillKeeps, StillKeeps DEF Next, Step

\* For any hooks and hosts in any interleaving, with hooks killed and calls
\* unanswered anywhere: an end left to a marker still waits there, was heard by
\* the hub or is counted as unclosed, but for the two excuses of `owed'.
THEOREM NoEndIsForgotten == Spec => []NoEndForgotten
<1>1. EndsInv => NoEndForgotten
  BY DEF EndsInv
<1> QED
  BY <1>1, EndsInvInit, EndsInvStep, PTL DEF Spec

\* Of one host session at most one suffix is open on the hub at any time, and
\* every suffix below a known one has ended: the ladder is climbed one by one.
THEOREM LadderIsClimbed == Spec => []Ladder
<1>1. EndsInv => Ladder
  BY DEF EndsInv
<1> QED
  BY <1>1, EndsInvInit, EndsInvStep, PTL DEF Spec

----------------------------------------------------------------------------
(* A session a state file names is open, and done is told of a drained      *)
(* spool: what a hook knows that is about to publish, or to tell the hub.   *)

KnowsOK(h) ==
  /\ pc[h] \in {"idle", "register"} => h \notin sure
  /\ pc[h] \in {"publish", "claim"} /\ h \in sure => hub[name[h]] = "open" \/ name[h] \in astray
  /\ pc[h] = "tell" /\ h \notin back => state[Me(h)] = None
  /\ pc[h] \in {"read", "retire", "drained", "call"} /\ h \notin back => state[at[h]] = None
  /\ pc[h] \in {"mark", "delete"} => h \in left \/ spool[Me(h)] \subseteq added[h]
  /\ pc[h] = "tell" => spool[Me(h)] \subseteq added[h]
  /\ pc[h] = "call" => spool[at[h]] \subseteq added[h]

KnowsInv == TypeOK /\ LiveIsOpen /\ \A h \in Hook : KnowsOK(h)

\* A step that names no new session in a state file, ends none on the hub and
\* puts nothing on a spool.
Sinks ==
  /\ \A s \in Host : state'[s] \in {None, state[s]} /\ spool'[s] \subseteq spool[s]
  /\ \A i \in Id : hub[i] = "open" \/ i \in astray => hub'[i] = "open" \/ i \in astray'

\* What a step of h leaves to the other hooks.
OthersKnow(h) ==
  \A b \in Hook \ {h} : /\ pc'[b] = pc[b] /\ name'[b] = name[b] /\ at'[b] = at[b]
                        /\ b \in sure' <=> b \in sure
                        /\ b \in left => b \in left'
                        /\ b \in back => b \in back'
                        /\ added[b] \subseteq added'[b]

LEMMA ThenKnows ==
  ASSUME HooksOK, NEW h \in Hook, NEW label \in Labels, Then(h, label)
  PROVE  /\ OthersKnow(h) /\ pc'[h] = label
         /\ label \in {"idle", "reap"} => h \notin sure'
         /\ label \notin {"idle", "reap", "walk"} => UNCHANGED <<name, at, sure, left, back, added>>
<1> USE DEF HooksOK
<1>1. CASE label \in {"idle", "reap"} /\ Forget(h)
  BY <1>1 DEF Then, Goto, Forget, Unsee, OthersKnow
<1>2. CASE label = "walk" /\ LetGo(h)
  BY <1>2 DEF Then, Goto, LetGo, Unsee, who, OthersKnow
<1>3. CASE label \notin {"idle", "reap", "walk"} /\ UNCHANGED <<own, seen>>
  BY <1>3 DEF Then, Goto, own, seen, who, hand, OthersKnow
<1> QED
  BY <1>1, <1>2, <1>3 DEF Then

\* The steps at which KnowsOK says nothing.
Blank == Labels \ {"idle", "register", "publish", "claim", "mark", "delete", "tell", "read",
                   "retire", "drained", "call"}

LEMMA BlankKnows ==
  ASSUME HooksOK, NEW h \in Hook, NEW label \in Blank \cup {"idle"}, Then(h, label)
  PROVE  OthersKnow(h) /\ KnowsOK(h)'
<1>1. label \in Labels
  BY DEF Blank, Labels
<1>2. OthersKnow(h) /\ pc'[h] = label /\ (label = "idle" => h \notin sure')
  BY <1>1, ThenKnows
<1> QED
  BY <1>2 DEF Blank, KnowsOK

LEMMA SinkKeeps ==
  ASSUME KnowsInv, TypeOK', NEW h \in Hook, Sinks, OthersKnow(h), KnowsOK(h)'
  PROVE  KnowsInv'
<1>1. LiveIsOpen'
  <2> SUFFICES ASSUME NEW s \in Host, state'[s] # None
               PROVE  hub'[state'[s]] = "open" \/ state'[s] \in astray'
    BY DEF LiveIsOpen
  <2>1. state'[s] = state[s] /\ state[s] \in Id
    BY DEF Sinks, KnowsInv, TypeOK
  <2> QED
    BY <2>1 DEF KnowsInv, LiveIsOpen, Sinks
<1>2. ASSUME NEW b \in Hook \ {h} PROVE KnowsOK(b)'
  <2>1. KnowsOK(b) /\ StepOK(b) /\ Me(b) \in Host
    BY MeFact, TypeParts DEF KnowsInv
  <2>2. /\ pc[b] \in {"publish", "claim"} => name[b] \in Id
        /\ pc[b] \in {"read", "retire", "drained", "call"} => at[b] \in Host
    BY <2>1, IdsFacts DEF StepOK, InItsName, AtMarker
  <2> QED
    BY <2>1, <2>2 DEF OthersKnow, Sinks, KnowsOK, Me
<1> QED
  BY <1>1, <1>2 DEF KnowsInv

LEMMA StartKnows ==
  ASSUME KnowsInv, TypeOK', NEW h \in Hook,
         Arrive(h) \/ Accepted(h) \/ Conflict(h) \/ Unanswered(h) \/ ClaimRefused(h)
  PROVE  KnowsInv'
<1>0. HooksOK /\ WorldOK /\ StepOK(h) /\ KnowsOK(h) /\ Me(h) \in Host
  BY TypeParts, MeFact DEF KnowsInv
<1> USE DEF At, Goto
<1>a. Registered(h) \in {"publish", "claim"}
  BY DEF Registered
<1>1. CASE Arrive(h)
  <2>1. OthersKnow(h) /\ KnowsOK(h)'
    BY <1>0, <1>1 DEF Arrive, PartOf, HooksOK, OthersKnow, KnowsOK, hand, seen
  <2>2. Sinks
    BY <1>1 DEF Arrive, Sinks, files, told
  <2> QED
    BY <2>1, <2>2, SinkKeeps
<1>2. CASE Accepted(h)
  <2>i. name[h] \in Id
    BY <1>0, <1>2, IdsFacts DEF Accepted, StepOK, InItsName
  <2>1. OthersKnow(h) /\ KnowsOK(h)'
    BY <1>0, <1>a, <1>2, <2>i
       DEF Accepted, Opened, HooksOK, WorldOK, OthersKnow, KnowsOK, hand, seen
  <2>2. Sinks
    BY <1>0, <1>2, <2>i DEF Accepted, Opened, WorldOK, Sinks, files
  <2> QED
    BY <2>1, <2>2, SinkKeeps
<1>3. CASE Unanswered(h)
  <2>i. name[h] \in Id
    BY <1>0, <1>3, IdsFacts DEF Unanswered, StepOK, InItsName
  <2>1. OthersKnow(h) /\ KnowsOK(h)'
    BY <1>0, <1>a, <1>3 DEF Unanswered, HooksOK, OthersKnow, KnowsOK, hand, seen
  <2>2. Sinks
    BY <1>0, <1>3, <2>i DEF Unanswered, Opened, WorldOK, Sinks, files
  <2> QED
    BY <2>1, <2>2, SinkKeeps
<1>4. CASE Conflict(h)
  <2>1. Sinks
    BY <1>4 DEF Conflict, Sinks, files, told
  <2>2. CASE Then(h, "idle")
    BY <1>0, <2>1, <2>2, BlankKnows, SinkKeeps DEF Labels, Blank
  <2>3. CASE name' = [name EXCEPT ![h] = <<Me(h), @[2] + 1>>] /\ UNCHANGED <<pc, sure, left, hand, seen>>
    <3>1. OthersKnow(h) /\ KnowsOK(h)'
      BY <1>0, <1>4, <2>3 DEF Conflict, HooksOK, OthersKnow, KnowsOK, hand, seen
    <3> QED
      BY <2>1, <3>1, SinkKeeps
  <2>4. CASE name' = [name EXCEPT ![h] = Base(Me(h))] /\ Goto(h, Registered(h))
             /\ UNCHANGED <<sure, left, hand, seen>>
    <3>1. OthersKnow(h) /\ KnowsOK(h)'
      BY <1>0, <1>a, <1>4, <2>4 DEF Conflict, HooksOK, OthersKnow, KnowsOK, hand, seen
    <3> QED
      BY <2>1, <3>1, SinkKeeps
  <2> QED
    BY <1>4, <2>2, <2>3, <2>4 DEF Conflict
<1>5. CASE ClaimRefused(h)
  <2>1. Sinks
    BY <1>5 DEF ClaimRefused, Sinks, files, told
  <2> QED
    BY <1>0, <1>5, <2>1, BlankKnows, SinkKeeps DEF ClaimRefused
<1> QED
  BY <1>1, <1>2, <1>3, <1>4, <1>5

\* The state file comes to name a session: those in between are told apart.
LEMMA ComesBackKnows ==
  ASSUME KnowsInv, TypeOK', NEW h \in Hook, Publish(h) \/ Claim(h)
  PROVE  KnowsInv'
<1>0. HooksOK /\ WorldOK /\ StepOK(h) /\ KnowsOK(h) /\ Me(h) \in Host
  BY TypeParts, MeFact DEF KnowsInv
<1>1. pc[h] \in {"publish", "claim"} /\ name[h] \in Id
  BY <1>0, IdsFacts DEF Publish, Claim, At, StepOK, InItsName
<1>2. /\ OthersKnow(h) /\ KnowsOK(h)'
      /\ hub' = hub /\ spool' = spool /\ state \in [Host -> Id \cup {None}]
  BY <1>0, <1>1 DEF Publish, Claim, ComesBack, Goto, HooksOK, WorldOK, OthersKnow, KnowsOK, own,
                    who, hand
<1>3. CASE UNCHANGED <<state, silent, astray, back>>
  <2>1. Sinks
    BY <1>2, <1>3 DEF Sinks
  <2> QED
    BY <1>2, <2>1, SinkKeeps
<1>4. CASE ComesBack(h)
  <2>1. \A i \in Id : hub[i] = "open" \/ i \in astray => hub'[i] = "open" \/ i \in astray'
    BY <1>2, <1>4 DEF ComesBack
  <2>2. hub'[name[h]] = "open" \/ name[h] \in astray'
    BY <1>0, <1>1, <1>2, <1>4 DEF ComesBack, KnowsOK
  <2>3. LiveIsOpen'
    <3> SUFFICES ASSUME NEW s \in Host, state'[s] # None
                 PROVE  hub'[state'[s]] = "open" \/ state'[s] \in astray'
      BY DEF LiveIsOpen
    <3>1. CASE s = Me(h)
      BY <1>2, <1>4, <2>2, <3>1 DEF ComesBack
    <3>2. CASE s # Me(h)
      BY <1>2, <1>4, <2>1, <3>2 DEF ComesBack, KnowsInv, LiveIsOpen
    <3> QED
      BY <3>1, <3>2
  <2>4. ASSUME NEW b \in Hook \ {h} PROVE KnowsOK(b)'
    <3>1. KnowsOK(b) /\ StepOK(b) /\ Me(b) \in Host
      BY MeFact, TypeParts DEF KnowsInv
    <3>2. /\ pc[b] \in {"publish", "claim"} => name[b] \in Id
          /\ pc[b] \in {"read", "retire", "drained", "call"} => at[b] \in Host
      BY <3>1, IdsFacts DEF StepOK, InItsName, AtMarker
    <3>3. b \in back' \/ /\ pc[b] = "tell" => state'[Me(b)] = state[Me(b)]
                         /\ pc[b] \in {"read", "retire", "drained", "call"}
                              => state'[at[b]] = state[at[b]]
      BY <1>2, <1>4, <3>1, <3>2 DEF ComesBack, Telling
    <3> QED
      BY <1>2, <2>1, <3>1, <3>2, <3>3 DEF OthersKnow, KnowsOK, Me
  <2> QED
    BY <1>2, <2>3, <2>4 DEF KnowsInv
<1> QED
  BY <1>3, <1>4 DEF Publish, Claim

LEMMA AppendKnows ==
  ASSUME KnowsInv, TypeOK', NEW h \in Hook, Append(h)
  PROVE  KnowsInv'
<1>0. HooksOK /\ WorldOK /\ StepOK(h) /\ KnowsOK(h) /\ Me(h) \in Host
  BY TypeParts, MeFact DEF KnowsInv
<1>1. KnowsOK(h)'
  BY <1>0 DEF Append, Goto, HooksOK, KnowsOK
<1>2. LiveIsOpen'
  BY DEF Append, told, KnowsInv, LiveIsOpen
<1>3. ASSUME NEW b \in Hook \ {h} PROVE KnowsOK(b)'
  <2>1. KnowsOK(b) /\ StepOK(b) /\ Me(b) \in Host
    BY MeFact, TypeParts DEF KnowsInv
  <2>2. pc[b] = "call" => at[b] \in Host
    BY <2>1 DEF StepOK, AtMarker
  <2>3. UNCHANGED <<state, hub, astray, name, at, sure, left, back>> /\ pc'[b] = pc[b]
    BY <1>0 DEF Append, Goto, HooksOK, own, who, hand, told
  <2>4. /\ pc[b] \in {"mark", "delete", "tell"} /\ spool[Me(b)] \subseteq added[b]
             => spool'[Me(b)] \subseteq added'[b]
        /\ pc[b] = "call" /\ spool[at[b]] \subseteq added[b] => spool'[at[b]] \subseteq added'[b]
    BY <1>0, <2>1, <2>2 DEF Append, Telling, WorldOK
  <2> QED
    BY <2>1, <2>3, <2>4 DEF KnowsOK, Me
<1> QED
  BY <1>1, <1>2, <1>3 DEF KnowsInv

LEMMA FlushKnows ==
  ASSUME KnowsInv, TypeOK', NEW h \in Hook, FlushStep(h)
  PROVE  KnowsInv'
<1>0. HooksOK /\ WorldOK /\ KnowsOK(h)
  BY TypeParts DEF KnowsInv
<1>1. AfterFlush(h) \in Blank \cup {"idle"} /\ "post" \in Blank
  BY EndsAssumption DEF AfterFlush, Blank, Labels, InItsName, AtMarker
<1>2. CASE Post(h)
  <2>1. Sinks
    BY <1>0, <1>2 DEF Post, WorldOK, Sinks, told
  <2>2. OthersKnow(h) /\ KnowsOK(h)'
    BY <1>0, <1>2 DEF Post, At, HooksOK, OthersKnow, KnowsOK, own, who, hand, seen
  <2> QED
    BY <2>1, <2>2, SinkKeeps
<1>3. CASE FlushEnter(h) \/ FlushLeave(h)
  <2>1. Sinks
    BY <1>3 DEF FlushEnter, FlushLeave, Sinks, files, told
  <2>2. Then(h, "post") \/ Then(h, AfterFlush(h))
    BY <1>3 DEF FlushEnter, FlushLeave
  <2> QED
    BY <1>0, <1>1, <2>1, <2>2, BlankKnows, SinkKeeps
<1> QED
  BY <1>2, <1>3 DEF FlushStep

\* The hub hears an end from h, at one of the two steps that tell it.
LEMMA EndCallKnows ==
  ASSUME KnowsInv, TypeOK', NEW h \in Hook, NEW i \in Id,
         NEW one \in Blank \cup {"idle"}, NEW other \in Blank \cup {"idle"},
         EndCall(h, i, one, other), UNCHANGED <<state, spool>>,
         \/ pc[h] = "tell" /\ i[1] = Me(h)
         \/ pc[h] = "call" /\ i[1] = at[h]
  PROVE  KnowsInv'
<1>0. HooksOK /\ WorldOK /\ KnowsOK(h) /\ Me(h) \in Host
  BY TypeParts, MeFact DEF KnowsInv
<1>1. OthersKnow(h) /\ KnowsOK(h)'
  BY <1>0, BlankKnows DEF EndCall
<1>2. CASE UNCHANGED <<hub, astray>>
  <2>1. Sinks
    BY <1>2 DEF Sinks
  <2> QED
    BY <1>1, <2>1, SinkKeeps
<1>3. CASE Ends(h, i)
  <2>1. /\ \A j \in Id : j # i => hub'[j] = hub[j]
        /\ astray \subseteq astray' /\ hub \in [Id -> {"none", "open", "ended"}]
        /\ hub[i] = "open" /\ Overtaken(h, i) => i \in astray'
        /\ hub[i] = "none" => hub'[i] = "none"
    BY <1>0, <1>3 DEF Ends, WorldOK
  <2>2. LiveIsOpen'
    <3> SUFFICES ASSUME NEW s \in Host, state[s] # None
                 PROVE  hub'[state[s]] = "open" \/ state[s] \in astray'
      BY DEF LiveIsOpen
    <3>1. state[s] \in IdsOf(s) /\ state[s] \in Id /\ state[s][1] = s
      BY <1>0, IdsFacts DEF WorldOK
    <3>2. hub[state[s]] = "open" \/ state[s] \in astray
      BY DEF KnowsInv, LiveIsOpen
    <3>3. CASE state[s] = i
      <4>1. h \in back
        BY <1>0, <3>1, <3>3 DEF KnowsOK
      <4> QED
        BY <2>1, <3>1, <3>2, <3>3, <4>1 DEF Overtaken
    <3> QED
      BY <2>1, <3>1, <3>2, <3>3
  <2>3. ASSUME NEW b \in Hook \ {h} PROVE KnowsOK(b)'
    <3>1. KnowsOK(b) /\ StepOK(b)
      BY TypeParts DEF KnowsInv
    <3>2. pc[b] \in {"publish", "claim"} => name[b] \in Id
      BY <3>1, IdsFacts, MeFact DEF StepOK, InItsName
    <3>3. pc[b] \in {"publish", "claim"} /\ b \in sure => hub'[name[b]] = "open" \/ name[b] \in astray'
      BY <2>1, <3>1, <3>2 DEF KnowsOK, Overtaken
    <3> QED
      BY <1>1, <3>1, <3>3 DEF OthersKnow, KnowsOK, Me
  <2> QED
    BY <1>1, <2>2, <2>3 DEF KnowsInv
<1> QED
  BY <1>2, <1>3 DEF EndCall

LEMMA EndKnows ==
  ASSUME KnowsInv, TypeOK', NEW h \in Hook, EndStep(h)
  PROVE  KnowsInv'
<1>0. HooksOK /\ WorldOK /\ StepOK(h) /\ KnowsOK(h) /\ Me(h) \in Host
  BY TypeParts, MeFact DEF KnowsInv
<1> USE DEF At, Goto
<1>1. CASE Count(h)
  <2>1. Sinks
    BY <1>1 DEF Count, Sinks, files, told
  <2>2. OthersKnow(h) /\ KnowsOK(h)'
    BY <1>0, <1>1 DEF Count, HooksOK, OthersKnow, KnowsOK, who, hand, seen, files
  <2> QED
    BY <2>1, <2>2, SinkKeeps
<1>2. CASE Mark(h)
  <2>1. Sinks
    BY <1>2 DEF Mark, Sinks
  <2>2. OthersKnow(h) /\ KnowsOK(h)'
    BY <1>0, <1>2 DEF Mark, HooksOK, OthersKnow, KnowsOK, Me, own, who, hand
  <2> QED
    BY <2>1, <2>2, SinkKeeps
<1>3. CASE DeleteState(h)
  <2>1. Sinks
    BY <1>0, <1>3 DEF DeleteState, WorldOK, Sinks, told
  <2>2. CASE Then(h, "idle")
    BY <1>0, <2>1, <2>2, BlankKnows, SinkKeeps DEF Blank
  <2>3. CASE Goto(h, "tell") /\ back' = back \ {h} /\ UNCHANGED <<own, marked, added>> /\ h \notin left
    <3>1. OthersKnow(h)
      BY <1>0, <2>3 DEF HooksOK, OthersKnow, own, who, hand
    <3>2. KnowsOK(h)'
      BY <1>0, <1>3, <2>3 DEF DeleteState, HooksOK, WorldOK, KnowsOK, Me, own, who, hand
    <3> QED
      BY <2>1, <3>1, <3>2, SinkKeeps
  <2> QED
    BY <1>3, <2>2, <2>3 DEF DeleteState, TellOrDefer
<1>4. CASE Tell(h)
  <2>1. pc[h] = "tell" /\ name[h] \in Id /\ name[h][1] = Me(h)
    BY <1>0, <1>4, IdsFacts DEF Tell, StepOK, InItsName
  <2>2. "clear" \in Blank
    BY DEF Blank, Labels, InItsName
  <2>3. \E one \in Blank \cup {"idle"} : EndCall(h, name[h], one, "idle")
    BY <1>4, <2>2 DEF Tell
  <2>4. UNCHANGED <<state, spool>>
    BY <1>4 DEF Tell, files
  <2> QED
    BY <2>1, <2>3, <2>4, EndCallKnows
<1>5. CASE Clear(h)
  <2>1. Sinks
    BY <1>5 DEF Clear, Sinks
  <2> QED
    BY <1>0, <1>5, <2>1, BlankKnows, SinkKeeps DEF Clear, Blank
<1> QED
  BY <1>1, <1>2, <1>3, <1>4, <1>5 DEF EndStep

LEMMA ReapKnows ==
  ASSUME KnowsInv, TypeOK', NEW h \in Hook, ReapStep(h)
  PROVE  KnowsInv'
<1>0. HooksOK /\ WorldOK /\ StepOK(h) /\ KnowsOK(h)
  BY TypeParts DEF KnowsInv
<1>w. "walk" \in Blank /\ "remove" \in Blank
  BY DEF Blank, Labels, AtMarker, InItsName
<1> USE DEF At, Goto
<1>1. CASE ReapEnter(h) \/ ReapLeave(h)
  <2>1. Sinks
    BY <1>0, <1>1 DEF ReapEnter, ReapLeave, WorldOK, Sinks, files, told
  <2>2. OthersKnow(h) /\ KnowsOK(h)'
    BY <1>0, <1>1 DEF ReapEnter, ReapLeave, HooksOK, OthersKnow, KnowsOK, own, who, hand, seen
  <2> QED
    BY <2>1, <2>2, SinkKeeps
<1>2. CASE Walk(h)
  <2>1. Sinks
    BY <1>2 DEF Walk, Sinks, files, told
  <2>2. OthersKnow(h)
    BY <1>0, <1>2 DEF Walk, HooksOK, OthersKnow, who, seen
  <2>3. KnowsOK(h)'
    BY <1>0, <1>2 DEF Walk, IsOver, HooksOK, KnowsOK, files, who, seen
  <2> QED
    BY <2>1, <2>2, <2>3, SinkKeeps
<1>3. CASE ReadMarker(h)
  <2>1. Sinks
    BY <1>3 DEF ReadMarker, Sinks, files, told
  <2>2. OthersKnow(h)
    BY <1>0, <1>3 DEF ReadMarker, HooksOK, OthersKnow, who
  <2>3. KnowsOK(h)'
    BY <1>0, <1>3 DEF ReadMarker, HooksOK, KnowsOK, files, who
  <2> QED
    BY <2>1, <2>2, <2>3, SinkKeeps
<1>4. CASE Retire(h)
  <2>1. Sinks
    BY <1>4 DEF Retire, Sinks, told
  <2>2. OthersKnow(h) /\ KnowsOK(h)'
    BY <1>0, <1>4 DEF Retire, HooksOK, OthersKnow, KnowsOK, own, who, hand, seen
  <2> QED
    BY <2>1, <2>2, SinkKeeps
<1>5. CASE Drained(h)
  <2>1. Sinks
    BY <1>5 DEF Drained, Sinks, files, told
  <2>2. CASE Then(h, "walk")
    BY <1>0, <1>w, <2>1, <2>2, BlankKnows, SinkKeeps
  <2>3. CASE spool[at[h]] = {} /\ Goto(h, "call") /\ added' = [added EXCEPT ![h] = {}]
             /\ UNCHANGED <<own, back, marked>>
    <3>1. OthersKnow(h)
      BY <1>0, <2>3 DEF HooksOK, OthersKnow, own, who, hand
    <3>2. KnowsOK(h)'
      BY <1>0, <1>5, <2>3 DEF Drained, HooksOK, KnowsOK, files, own, who, hand
    <3> QED
      BY <2>1, <3>1, <3>2, SinkKeeps
  <2> QED
    BY <1>5, <2>2, <2>3 DEF Drained
<1>6. CASE Call(h)
  <2>1. pc[h] = "call" /\ at[h] \in Host /\ read[h] \in Id /\ read[h][1] = at[h]
    BY <1>0, <1>6, IdsFacts DEF Call, StepOK, AtMarker
  <2>2. UNCHANGED <<state, spool>>
    BY <1>6 DEF Call, files
  <2>3. CASE Then(h, "walk") /\ UNCHANGED <<hub, astray, faults>>
    <3>1. Sinks
      BY <2>2, <2>3 DEF Sinks
    <3> QED
      BY <1>0, <1>w, <2>3, <3>1, BlankKnows, SinkKeeps
  <2>4. CASE EndCall(h, read[h], "remove", "walk")
    BY <1>w, <2>1, <2>2, <2>4, EndCallKnows
  <2> QED
    BY <1>6, <2>3, <2>4 DEF Call
<1>7. CASE Remove(h)
  <2>1. Sinks
    BY <1>7 DEF Remove, Sinks
  <2> QED
    BY <1>0, <1>w, <1>7, <2>1, BlankKnows, SinkKeeps DEF Remove
<1>8. CASE Corpses(h)
  <2>1. Sinks
    BY <1>0, <1>8 DEF Corpses, WorldOK, Sinks, told
  <2> QED
    BY <1>0, <1>8, <2>1, BlankKnows, SinkKeeps DEF Corpses
<1> QED
  BY <1>1, <1>2, <1>3, <1>4, <1>5, <1>6, <1>7, <1>8 DEF ReapStep

LEMMA WorldKnows ==
  ASSUME KnowsInv, TypeOK',
         (\E h \in Hook : Kill(h)) \/ (\E s \in Host : Silence(s) \/ Age(s)) \/ UNCHANGED vars
  PROVE  KnowsInv'
<1>1. ASSUME NEW h \in Hook, Kill(h) PROVE KnowsInv'
  <2>1. HooksOK /\ Sinks
    BY <1>1, TypeParts DEF Kill, Sinks, files, told, KnowsInv
  <2> QED
    BY <1>1, <2>1, BlankKnows, SinkKeeps DEF Kill
<1>2. ASSUME (\E s \in Host : Silence(s) \/ Age(s)) \/ UNCHANGED vars PROVE KnowsInv'
  <2>1. UNCHANGED <<state, spool, hub, pc, name, at, sure, left, astray, back, added>>
    BY <1>2 DEF Silence, Age, vars, files, own, who, hand, told, seen
  <2> QED
    BY <2>1 DEF KnowsInv, LiveIsOpen, KnowsOK, Me
<1> QED
  BY <1>1, <1>2

LEMMA KnowsInit == Init => KnowsInv
<1> SUFFICES ASSUME Init PROVE KnowsInv
  OBVIOUS
<1>1. LiveIsOpen /\ \A h \in Hook : KnowsOK(h)
  BY DEF Init, LiveIsOpen, KnowsOK
<1> QED
  BY <1>1, TypeInit DEF KnowsInv

LEMMA KnowsStep == KnowsInv /\ [Next]_vars => KnowsInv'
<1> SUFFICES ASSUME KnowsInv, [Next]_vars PROVE KnowsInv'
  OBVIOUS
<1>1. TypeOK'
  BY TypeStep DEF KnowsInv
<1> QED
  BY <1>1, StartKnows, ComesBackKnows, AppendKnows, FlushKnows, EndKnows, ReapKnows, WorldKnows
     DEF Next, Step, StartStep

\* For any hooks and hosts, any ladder and any faults: a session that a state
\* file names is open on the hub, but for one whose registration nobody
\* answered, one that climbed the whole ladder, every id of it answered as
\* ended, and took the base id, and one that came back after a teller looked.
THEOREM LiveSessionIsOpen == Spec => []LiveIsOpen
<1>1. KnowsInv => LiveIsOpen
  BY DEF KnowsInv
<1> QED
  BY <1>1, KnowsInit, KnowsStep, PTL DEF Spec

\* Only a hook that tells ends a session, and it is the one it names or read.
LEMMA WhoEnds ==
  ASSUME KnowsInv, [Next]_vars, NEW h \in Hook, NEW i \in Id,
         pc[h] \in {"tell", "call"}, hub[i] = "open", hub'[i] = "ended", pc'[h] # pc[h]
  PROVE  \/ pc[h] = "tell" /\ i = name[h]
         \/ pc[h] = "call" /\ i = read[h]
<1>0. HooksOK /\ WorldOK
  BY TypeParts DEF KnowsInv
<1>1. ASSUME NEW g \in Hook, hub' # hub, Arrive(g) \/ Step(g) \/ Kill(g)
      PROVE  \/ Accepted(g) \/ Unanswered(g)
             \/ Tell(g) \/ Call(g)
  BY <1>1 DEF Step, StartStep, FlushStep, EndStep, ReapStep, Arrive, Conflict, Publish, Claim, ClaimRefused,
     Append, FlushEnter, Post, FlushLeave, Count, Mark, DeleteState, Clear, ReapEnter, Walk, ReadMarker,
     Retire, Drained, Remove, ReapLeave, Corpses, Kill
<1>2. PICK g \in Hook : Accepted(g) \/ Unanswered(g) \/ Tell(g) \/ Call(g)
  BY <1>1 DEF Next, Silence, Age, vars
<1>3. StepOK(g) /\ Me(g) \in Host
  BY TypeParts, MeFact DEF KnowsInv
<1>4. CASE Accepted(g) \/ Unanswered(g)
  <2>1. hub' = hub \/ hub' = [hub EXCEPT ![name[g]] = "open"]
    BY <1>4 DEF Accepted, Unanswered, Opened
  <2> QED
    BY <1>0, <2>1 DEF WorldOK
<1>5. CASE Tell(g)
  <2>1. name[g] \in Id /\ pc[g] = "tell"
    BY <1>3, <1>5, IdsFacts DEF Tell, At, StepOK, InItsName
  <2>2. hub' = hub \/ hub' = [hub EXCEPT ![name[g]] = "ended"]
    BY <1>0, <1>5, <2>1, EndCallFacts DEF Tell
  <2>3. OthersKnow(g)
    <3>1. Then(g, "idle") \/ Then(g, "clear")
      BY <1>5 DEF Tell, EndCall
    <3> QED
      BY <1>0, <3>1, ThenKnows DEF Labels, InItsName
  <2> QED
    BY <1>0, <2>1, <2>2, <2>3 DEF WorldOK, OthersKnow
<1>6. CASE Call(g)
  <2>1. read[g] \in Id /\ pc[g] = "call"
    BY <1>3, <1>6, IdsFacts DEF Call, At, StepOK, AtMarker
  <2>2. hub' = hub \/ hub' = [hub EXCEPT ![read[g]] = "ended"]
    BY <1>0, <1>6, <2>1, EndCallFacts DEF Call
  <2>3. OthersKnow(g)
    <3>1. Then(g, "walk") \/ Then(g, "remove")
      BY <1>6 DEF Call, EndCall
    <3> QED
      BY <1>0, <3>1, ThenKnows DEF Labels, AtMarker
  <2> QED
    BY <1>0, <2>1, <2>2, <2>3 DEF WorldOK, OthersKnow
<1> QED
  BY <1>2, <1>4, <1>5, <1>6

\* For any hooks and hosts, any straggling appends and any faults: whenever the
\* hub comes to hear that a session is done, nothing of it is left on disk that
\* was there when the teller read the spool.
THEOREM DoneIsToldInTime == Spec => DoneIsTrueWhenTold
<1> DEFINE Timely == \A h \in Hook, i \in Id :
       (pc[h] \in {"tell", "call"} /\ hub[i] = "open" /\ hub'[i] = "ended" /\ pc'[h] # pc[h])
         => spool[i[1]] \subseteq added[h]
<1>1. KnowsInv /\ [Next]_vars => Timely
  <2> SUFFICES ASSUME KnowsInv, [Next]_vars, NEW h \in Hook, NEW i \in Id,
                      pc[h] \in {"tell", "call"}, hub[i] = "open", hub'[i] = "ended",
                      pc'[h] # pc[h]
               PROVE  spool[i[1]] \subseteq added[h]
    OBVIOUS
  <2>1. StepOK(h) /\ KnowsOK(h) /\ Me(h) \in Host
    BY TypeParts, MeFact DEF KnowsInv
  <2>2. CASE pc[h] = "tell" /\ i = name[h]
    <3>1. i[1] = Me(h)
      BY <2>1, <2>2, IdsFacts DEF StepOK, InItsName
    <3> QED
      BY <2>1, <2>2, <3>1 DEF KnowsOK
  <2>3. CASE pc[h] = "call" /\ i = read[h]
    <3>1. i[1] = at[h]
      BY <2>1, <2>3, IdsFacts DEF StepOK, AtMarker
    <3> QED
      BY <2>1, <2>3, <3>1 DEF KnowsOK
  <2> QED
    BY <2>2, <2>3, WhoEnds
<1>2. KnowsInv /\ [Next]_vars => [Timely]_vars
  BY <1>1
<1> QED
  BY <1>2, KnowsInit, KnowsStep, PTL DEF Spec, DoneIsTrueWhenTold
=============================================================================
