--------------------------- MODULE DeliveryProof ----------------------------
(***************************************************************************)
(* The invariants of Delivery for every set of teammates, sessions, hook   *)
(* processes, scenarios and bounds.                                        *)
(***************************************************************************)
EXTENDS Delivery, FiniteSetTheorems, WellFoundedInduction, TLAPS

----------------------------------------------------------------------------
(* The question channel.                                                   *)

\* What is inductive about the channel: its types, and that the status of a
\* question tells whether an answer is attached to it.
QuestionsInv ==
    /\ scenario \in Scenarios
    /\ QuestionsTypeOK
    /\ StatusTellsAnswers

LEMMA QuestionsInitially == Init => QuestionsInv
<1> SUFFICES ASSUME Init PROVE QuestionsInv
  OBVIOUS
<1>1. NotAsked \in Row
  BY DEF NotAsked, Row
<1>2. QuestionsTypeOK
  BY <1>1 DEF Init, QuestionsInit, QuestionsTypeOK
<1>3. StatusTellsAnswers
  BY DEF Init, QuestionsInit, StatusTellsAnswers, NotAsked
<1> QED
  BY <1>2, <1>3 DEF QuestionsInv, Init

\* An ask writes one row, which nobody has answered.
LEMMA AskKeepsQuestions ==
  ASSUME QuestionsInv, now' = now, NEW a \in scenario.asks, Ask(a)
  PROVE  QuestionsTypeOK' /\ StatusTellsAnswers'
<1> USE DEF QuestionsInv, QuestionsTypeOK
<1>1. a \in [id : QuestionIds, author : Developers, target : Developers \cup {None},
             about : Contexts \cup {None}, body : {None}]
  BY DeliveryAssumption
<1> DEFINE row == [status |-> "open", author |-> a.author, target |-> Addressee(a),
                   about |-> a.about, body |-> a.body, created |-> now]
<1>2. row \in Row
  BY <1>1, QuestionsAssumption DEF Row, Addressee
<1>3. questions' = [questions EXCEPT ![a.id] = row] /\ edges' = edges
      /\ answering' = answering /\ questions[a.id].status = "none"
  BY DEF Ask
<1>4. QuestionsTypeOK'
  BY <1>1, <1>2, <1>3
<1>5. ASSUME NEW q \in QuestionIds
      PROVE  questions'[q].status = "answered" <=> \E e \in edges' : e.question = q
  <2>1. CASE q = a.id
    BY <1>3, <2>1 DEF StatusTellsAnswers
  <2>2. CASE q # a.id
    BY <1>3, <2>2 DEF StatusTellsAnswers
  <2> QED
    BY <2>1, <2>2
<1> QED
  BY <1>4, <1>5 DEF StatusTellsAnswers

\* An expiry touches open questions only, and those have no answer.
LEMMA ExpiryKeepsQuestions ==
  ASSUME QuestionsInv, now' = now, NEW d \in Developers, ExpireOwn(d)
  PROVE  QuestionsTypeOK' /\ StatusTellsAnswers'
<1> USE DEF QuestionsInv, QuestionsTypeOK
<1>1. /\ questions' = [q \in QuestionIds |->
              IF q \in Overdue(d) THEN [questions[q] EXCEPT !.status = "expired"]
              ELSE questions[q]]
      /\ edges' = edges /\ answering' = answering
  BY DEF ExpireOwn
<1>2. ASSUME NEW q \in QuestionIds
      PROVE  /\ questions'[q] \in Row
             /\ questions'[q].status = "answered" <=> questions[q].status = "answered"
  <2>1. questions[q] \in Row
    OBVIOUS
  <2>2. CASE q \in Overdue(d)
    BY <1>1, <2>1, <2>2 DEF Overdue, Row
  <2>3. CASE q \notin Overdue(d)
    BY <1>1, <2>1, <2>3
  <2> QED
    BY <2>2, <2>3
<1> QED
  BY <1>1, <1>2 DEF StatusTellsAnswers

\* An answer in flight attaches only to a question that is open, which it flips,
\* or answered: an expired status stops it, however old the clock it holds.
LEMMA FinishKeepsQuestions ==
  ASSUME QuestionsInv, now' = now, NEW a \in answering, FinishAnswer(a)
  PROVE  QuestionsTypeOK' /\ StatusTellsAnswers'
<1> USE DEF QuestionsInv, QuestionsTypeOK
<1> DEFINE q == a.question
           takes == questions[q].status # "none" /\ Answerable(a)
<1>1. q \in QuestionIds /\ questions[q] \in Row
      /\ Edge(a) \in [question : QuestionIds, claim : Claims, by : Developers]
      /\ Edge(a).question = q
  BY DEF Edge
<1>2. CASE ~takes
  BY <1>2 DEF FinishAnswer, StatusTellsAnswers
<1>3. CASE takes
  <2>1. edges' = edges \cup {Edge(a)} /\ answering' = answering \ {a}
    BY <1>3 DEF FinishAnswer
  <2>2. questions[q].status \in {"open", "answered"}
    BY <1>1, <1>3 DEF Answerable, Row
  <2>3. questions' = [questions EXCEPT ![q].status = "answered"]
    <3>1. CASE questions[q].status = "open"
      BY <1>3, <3>1 DEF FinishAnswer
    <3>2. CASE questions[q].status = "answered"
      <4>1. questions' = questions
        BY <1>3, <3>2 DEF FinishAnswer
      <4>2. [questions[q] EXCEPT !.status = "answered"] = questions[q]
        BY <1>1, <3>2 DEF Row
      <4> QED
        BY <1>1, <4>1, <4>2
    <3> QED
      BY <2>2, <3>1, <3>2
  <2>4. ASSUME NEW p \in QuestionIds
        PROVE  /\ questions'[p] \in Row
               /\ questions'[p].status = "answered" <=> \E e \in edges' : e.question = p
    <3>1. CASE p = q
      BY <1>1, <2>1, <2>3, <3>1 DEF Row
    <3>2. CASE p # q
      BY <1>1, <2>1, <2>3, <3>2 DEF StatusTellsAnswers
    <3> QED
      BY <3>1, <3>2
  <2>5. QuestionsTypeOK'
    BY <1>1, <2>1, <2>3, <2>4
  <2> QED
    BY <2>4, <2>5 DEF StatusTellsAnswers
<1> QED
  BY <1>2, <1>3

LEMMA QuestionsPreserved ==
  ASSUME QuestionsInv, [Next]_vars
  PROVE  QuestionsInv'
<1> USE DEF QuestionsInv
<1>1. CASE QuestionStep
  <2>1. now' = now /\ scenario' = scenario
    BY <1>1 DEF QuestionStep
  <2>2. CASE \E a \in scenario.asks : Ask(a)
    BY <2>1, <2>2, AskKeepsQuestions
  <2>3. CASE \E d \in Developers : ExpireOwn(d)
    BY <2>1, <2>3, ExpiryKeepsQuestions
  <2>4. CASE \E a \in scenario.answers : BeginAnswer(a.question, a.claim, a.by)
    <3>1. scenario.answers \subseteq [question : QuestionIds, claim : Claims, by : Developers]
      BY DeliveryAssumption
    <3> QED
      BY <2>1, <2>4, <3>1 DEF BeginAnswer, QuestionsTypeOK, StatusTellsAnswers
  <2>5. CASE \E a \in answering : FinishAnswer(a)
    BY <2>1, <2>5, FinishKeepsQuestions
  <2>6. CASE \E a \in answering : LoseAnswer(a)
    BY <2>1, <2>6 DEF LoseAnswer, QuestionsTypeOK, StatusTellsAnswers
  <2> QED
    BY <1>1, <2>2, <2>3, <2>4, <2>5, <2>6 DEF QuestionStep
<1>2. CASE Tick
  BY <1>2 DEF Tick, hub, questionVars, QuestionsTypeOK, StatusTellsAnswers
<1>3. CASE ~QuestionStep /\ ~Tick
  <2>1. UNCHANGED <<now, scenario, questions, edges, answering>>
    BY <1>3 DEF Next, vars, hub, questionVars, NoticeStep, Flush, HookStep, Prompt,
       SessionStart, DeferredBriefing, SpoolStep, ClaimStep, Ship, Emit, Kill
  <2> QED
    BY <2>1 DEF QuestionsTypeOK, StatusTellsAnswers
<1> QED
  BY <1>1, <1>2, <1>3

\* A question is answered exactly when an answer is attached to it, whatever
\* expires while an answer awaits its embedding (answerQuestion).
THEOREM AnsweredMeansAnswered == Spec => []StatusTellsAnswers
<1>1. QuestionsInv => StatusTellsAnswers
  BY DEF QuestionsInv
<1> QED
  BY <1>1, QuestionsInitially, QuestionsPreserved, PTL DEF Spec

----------------------------------------------------------------------------
(* The author's notices.                                                   *)

Steps(kind) == IF kind \in {"answer", "notice"} THEN 1..4
               ELSE IF kind \in {"pointer", "briefing"} THEN 1..3 ELSE {0}

\* A hook is a record of its three fields, at a step its kind has.
HooksOK ==
    /\ DOMAIN hook = Hooks
    /\ \A h \in Hooks :
          /\ hook[h] = [kind |-> hook[h].kind, refs |-> hook[h].refs, at |-> hook[h].at]
          /\ hook[h].at \in Steps(hook[h].kind)
          /\ hook[h] = Idle \/ hook[h].kind \in {"answer", "notice", "pointer", "briefing"}

\* Past its spool step with notices in hand: from there a hook prints them or is
\* killed, and nothing else.
Committed(h) ==
    \/ hook[h].kind = "notice" /\ hook[h].at \in 3..4
    \/ hook[h].kind = "briefing" /\ hook[h].at \in 2..3

\* The notices that were printed, or cannot be left unprinted but by a kill.
Accounted(id) ==
    id \in seen \cup lost \/ \E h \in Hooks : Committed(h) /\ id \in hook[h].refs

\* Every told row and every spooled delivery is accounted for: the claim comes
\* before the record.
NoticesInv ==
    /\ HooksOK
    /\ \A row \in rows : row.told => Accounted(IdOf(row))
    /\ \A r \in spool : "told" \in DOMAIN r => \A id \in r.told : Accounted(id)

LEMMA NoticesInitially == Init => NoticesInv
BY DEF Init, NoticesInit, NoticesInv, HooksOK, Idle, Steps

\* A delivery marks the rows it names and tells no other.
LEMMA MarkedTells ==
  ASSUME NEW ids, NEW row \in Marked(Me, ids), row.told
  PROVE  IdOf(row) \in ids \/ \E r \in rows : r.told /\ IdOf(r) = IdOf(row)
<1>1. PICK r \in rows :
        row = IF AuthorOf[r.commit] = Me /\ IdOf(r) \in ids
              THEN [r EXCEPT !.told = TRUE] ELSE r
  BY DEF Marked
<1>2. CASE AuthorOf[r.commit] = Me /\ IdOf(r) \in ids
  <2>1. row.reader = r.reader /\ row.commit = r.commit /\ row.filing = r.filing
    BY <1>1, <1>2
  <2> QED
    BY <1>2, <2>1 DEF IdOf
<1>3. CASE ~(AuthorOf[r.commit] = Me /\ IdOf(r) \in ids)
  BY <1>1, <1>3
<1> QED
  BY <1>2, <1>3

\* A stop tells no row.
LEMMA StopTellsNobody ==
  ASSUME NEW stop \in stops, IngestStop(stop), NEW row \in rows', row.told
  PROVE  \E r \in rows : r.told /\ IdOf(r) = IdOf(row)
<1>1. PICK r \in Kept : row = r \/ row = Refresh(r, stop)
  BY DEF IngestStop
<1>2. r \in rows
  BY <1>1 DEF Kept
<1>3. CASE row = r
  BY <1>2, <1>3
<1>4. CASE row = Refresh(r, stop) /\ row # r
  <2>1. ~r.told /\ row = [r EXCEPT !.stopped = stop.at]
    BY <1>4 DEF Refresh
  <2>2. row.told = r.told
    BY <2>1
  <2> QED
    BY <2>1, <2>2
<1> QED
  BY <1>1, <1>3, <1>4

\* A hook that starts work had none in hand.
LEMMA TakeKeeps ==
  ASSUME HooksOK, NEW h \in Hooks, hook[h] = Idle, NEW kind, NEW refs,
         kind \in {"answer", "notice", "pointer", "briefing"}, Take(h, kind, refs),
         seen' = seen, lost' = lost
  PROVE  HooksOK' /\ \A id : Accounted(id) => Accounted(id)'
<1>1. hook' = [hook EXCEPT ![h] = [kind |-> kind, refs |-> refs, at |-> 1]]
  BY DEF Take
<1>2. HooksOK'
  BY <1>1 DEF HooksOK, Steps
<1>3. ~Committed(h)
  BY DEF Committed, Idle
<1>4. \A k \in Hooks : Committed(k) => hook'[k] = hook[k] /\ Committed(k)'
  BY <1>1, <1>3 DEF HooksOK, Committed
<1> QED
  BY <1>2, <1>4 DEF Accounted

\* A hook that goes on holds the same notices one step further.
LEMMA GoMoves ==
  ASSUME HooksOK, NEW h \in Hooks, Go(h)
  PROVE  hook' = [hook EXCEPT ![h] = [kind |-> hook[h].kind, refs |-> hook[h].refs,
                                      at |-> hook[h].at + 1]]
<1>1. hook' = [hook EXCEPT ![h] = [hook[h] EXCEPT !.at = hook[h].at + 1]]
  BY DEF Go
<1>2. hook[h] = [kind |-> hook[h].kind, refs |-> hook[h].refs, at |-> hook[h].at]
  BY DEF HooksOK
<1>3. [hook[h] EXCEPT !.at = hook[h].at + 1]
        = [kind |-> hook[h].kind, refs |-> hook[h].refs, at |-> hook[h].at + 1]
  BY <1>2
<1> QED
  BY <1>1, <1>3

\* A hook that goes on keeps what it holds, and stays committed.
LEMMA GoKeeps ==
  ASSUME HooksOK, NEW h \in Hooks, NEW stage \in {"spool", "claim", "ship"}, At(h, stage),
         Go(h), seen \subseteq seen', lost' = lost
  PROVE  HooksOK' /\ \A id : Accounted(id) => Accounted(id)'
<1>1. hook' = [hook EXCEPT ![h] = [kind |-> hook[h].kind, refs |-> hook[h].refs,
                                   at |-> hook[h].at + 1]]
  BY GoMoves
<1>2. hook[h].at \in Steps(hook[h].kind)
      /\ hook[h].kind \in {"answer", "notice", "pointer", "briefing"}
      /\ Path(hook[h].kind)[hook[h].at] = stage
  BY DEF HooksOK, At
<1>3. hook[h].at + 1 \in Steps(hook[h].kind)
  <2>1. CASE hook[h].kind = "answer"
    BY <1>2, <2>1 DEF Steps, Path
  <2>2. CASE hook[h].kind = "notice"
    BY <1>2, <2>2 DEF Steps, Path
  <2>3. CASE hook[h].kind \in {"pointer", "briefing"}
    BY <1>2, <2>3 DEF Steps, Path
  <2> QED
    BY <1>2, <2>1, <2>2, <2>3
<1>4. HooksOK'
  BY <1>1, <1>2, <1>3 DEF HooksOK
<1>5. \A k \in Hooks : Committed(k) => hook'[k].refs = hook[k].refs /\ Committed(k)'
  BY <1>1, <1>3 DEF HooksOK, Committed, Steps
<1> QED
  BY <1>4, <1>5 DEF Accounted

\* A hook that stops leaves nothing open, unless it was committed to it.
LEMMA LeaveKeeps ==
  ASSUME HooksOK, NEW h \in Hooks, Leave(h), seen \subseteq seen', lost \subseteq lost',
         Committed(h) => hook[h].refs \subseteq seen' \cup lost'
  PROVE  HooksOK' /\ \A id : Accounted(id) => Accounted(id)'
<1>1. hook' = [hook EXCEPT ![h] = Idle]
  BY DEF Leave
<1>2. HooksOK'
  BY <1>1 DEF HooksOK, Idle, Steps
<1>3. \A k \in Hooks \ {h} : hook'[k] = hook[k] /\ (Committed(k) => Committed(k)')
  BY <1>1 DEF HooksOK, Committed
<1> QED
  BY <1>2, <1>3 DEF Accounted

\* What a hook does before it holds anything, or with its state alone, leaves the
\* rows and the spool as they are.
LEMMA QuietStep ==
  ASSUME NoticesInv, HooksOK', \A id : Accounted(id) => Accounted(id)',
         rows' = rows, spool' \subseteq spool
  PROVE  NoticesInv'
BY DEF NoticesInv, IdOf

\* The hub hears a record whose notices are accounted for.
LEMMA HearKeeps ==
  ASSUME NoticesInv, HooksOK', \A id : Accounted(id) => Accounted(id)',
         NEW r, Hear(r), "told" \in DOMAIN r => \A id \in r.told : Accounted(id)',
         spool' \subseteq spool
  PROVE  NoticesInv'
<1>1. ASSUME NEW row \in rows', row.told PROVE Accounted(IdOf(row))'
  <2>1. CASE "told" \in DOMAIN r
    <3>1. rows' = Marked(Me, r.told)
      BY <2>1 DEF Hear
    <3>2. IdOf(row) \in r.told \/ \E x \in rows : x.told /\ IdOf(x) = IdOf(row)
      BY <1>1, <3>1, MarkedTells
    <3>3. \A x \in rows : x.told => Accounted(IdOf(x))
      BY DEF NoticesInv
    <3>4. Accounted(IdOf(row)) \/ IdOf(row) \in r.told
      BY <3>2, <3>3
    <3> QED
      BY <2>1, <3>4
  <2>2. CASE "told" \notin DOMAIN r
    BY <1>1, <2>2 DEF Hear, NoticesInv
  <2> QED
    BY <2>1, <2>2
<1> QED
  BY <1>1 DEF NoticesInv, IdOf

\* Where a hook stands when it is at a stage of its kind's path.
LEMMA StageAt ==
  ASSUME HooksOK, NEW h \in Hooks, NEW stage \in {"spool", "claim", "ship", "emit"},
         At(h, stage)
  PROVE  /\ hook[h].kind = "notice" => hook[h].at = CASE stage = "claim" -> 1
                                                      [] stage = "spool" -> 2
                                                      [] stage = "ship"  -> 3
                                                      [] stage = "emit"  -> 4
         /\ hook[h].kind = "briefing" => /\ stage # "ship"
                                         /\ hook[h].at = CASE stage = "spool" -> 1
                                                           [] stage = "claim" -> 2
                                                           [] stage = "emit"  -> 3
                                                           [] OTHER -> 0
<1>1. hook[h].at \in Steps(hook[h].kind) /\ Path(hook[h].kind)[hook[h].at] = stage
  BY DEF HooksOK, At
<1>2. CASE hook[h].kind = "notice"
  BY <1>1, <1>2 DEF Steps, Path
<1>3. CASE hook[h].kind = "briefing"
  BY <1>1, <1>3 DEF Steps, Path
<1> QED
  BY <1>2, <1>3

\* A hook picks up work, or finds none.
LEMMA StartKeeps ==
  ASSUME NoticesInv, NEW h \in Hooks,
         Prompt(h) \/ SessionStart(h) \/ DeferredBriefing(h)
  PROVE  NoticesInv'
<1>1. /\ hook[h] = Idle
      /\ rows' = rows /\ spool' = spool /\ seen' = seen /\ lost' = lost
      /\ \/ hook' = hook
         \/ \E kind \in {"answer", "notice", "pointer", "briefing"} :
               \E refs : Take(h, kind, refs)
  BY DEF Prompt, Pick, SessionStart, DeferredBriefing, Free, hub, noticeVars, state
<1>2. CASE hook' = hook
  BY <1>1, <1>2 DEF NoticesInv, HooksOK, Accounted, Committed, IdOf
<1>3. CASE \E kind \in {"answer", "notice", "pointer", "briefing"} :
             \E refs : Take(h, kind, refs)
  <2>1. HooksOK' /\ \A id : Accounted(id) => Accounted(id)'
    BY <1>1, <1>3, TakeKeeps DEF NoticesInv
  <2> QED
    BY <1>1, <2>1, QuietStep
<1> QED
  BY <1>1, <1>2, <1>3

\* The record of what a committed hook holds enters the spool.
LEMMA SpoolKeeps ==
  ASSUME NoticesInv, NEW h \in Hooks, SpoolStep(h)
  PROVE  NoticesInv'
<1>1. /\ HooksOK /\ At(h, "spool") /\ Go(h)
      /\ rows' = rows /\ seen' = seen /\ lost' = lost
      /\ spool' = spool \/ spool' = spool \cup {Record(h)}
  BY DEF NoticesInv, SpoolStep, AddToSpool, hub, noticeVars
<1>2. HooksOK' /\ \A id : Accounted(id) => Accounted(id)'
  BY <1>1, GoKeeps
<1>3. CASE spool' = spool
  BY <1>1, <1>2, <1>3, QuietStep
<1>4. CASE spool' = spool \cup {Record(h)}
  <2>1. ASSUME "told" \in DOMAIN Record(h)
        PROVE  \A id \in Record(h).told : Accounted(id)'
    <3>1. hook[h].kind \in {"notice", "briefing"} /\ Record(h).told = hook[h].refs
      BY <2>1 DEF Record
    <3>2. hook'[h] = [kind |-> hook[h].kind, refs |-> hook[h].refs, at |-> hook[h].at + 1]
      BY <1>1, GoMoves DEF HooksOK
    <3>3. Committed(h)'
      BY <1>1, <3>1, <3>2, StageAt DEF Committed
    <3> QED
      BY <3>1, <3>2, <3>3 DEF Accounted
  <2> QED
    BY <1>1, <1>2, <1>4, <2>1 DEF NoticesInv, IdOf
<1> QED
  BY <1>1, <1>3, <1>4

\* A claim that is declined leaves nothing recorded: a notice is not yet spooled,
\* and a briefing goes on.
LEMMA ClaimKeeps ==
  ASSUME NoticesInv, NEW h \in Hooks, ClaimStep(h)
  PROVE  NoticesInv'
<1>1. /\ HooksOK /\ At(h, "claim")
      /\ rows' = rows /\ spool' = spool /\ seen' = seen /\ lost' = lost
      /\ Go(h) \/ (Leave(h) /\ hook[h].kind # "briefing")
  BY DEF NoticesInv, ClaimStep, hub, noticeVars
<1>2. ~Committed(h) \/ hook[h].kind = "briefing"
  BY <1>1, StageAt DEF Committed
<1>3. HooksOK' /\ \A id : Accounted(id) => Accounted(id)'
  <2>1. CASE Go(h)
    BY <1>1, <2>1, GoKeeps
  <2>2. CASE Leave(h) /\ hook[h].kind # "briefing"
    BY <1>1, <1>2, <2>2, LeaveKeeps
  <2> QED
    BY <1>1, <2>1, <2>2
<1> QED
  BY <1>1, <1>3, QuietStep

\* The hub may hear the record at once: its hook is committed to printing it.
LEMMA ShipKeeps ==
  ASSUME NoticesInv, NEW h \in Hooks, Ship(h)
  PROVE  NoticesInv'
<1>1. /\ HooksOK /\ At(h, "ship") /\ Go(h)
      /\ spool' = spool /\ seen' = seen /\ lost' = lost
      /\ Hear(Record(h)) \/ rows' = rows
  BY DEF NoticesInv, Ship, history
<1>2. HooksOK' /\ \A id : Accounted(id) => Accounted(id)'
  BY <1>1, GoKeeps
<1>3. ASSUME "told" \in DOMAIN Record(h)
      PROVE  \A id \in Record(h).told : Accounted(id)'
  <2>1. hook[h].kind \in {"notice", "briefing"} /\ Record(h).told = hook[h].refs
    BY <1>3 DEF Record
  <2>2. Committed(h)
    BY <1>1, <2>1, StageAt DEF Committed
  <2> QED
    BY <1>2, <2>1, <2>2 DEF Accounted
<1> QED
  BY <1>1, <1>2, <1>3, HearKeeps, QuietStep

\* A hook that prints, or is killed, leaves what it held accounted for.
LEMMA EndKeeps ==
  ASSUME NoticesInv, NEW h \in Hooks, Emit(h) \/ Kill(h)
  PROVE  NoticesInv'
<1>1. /\ Leave(h) /\ rows' = rows /\ spool' = spool
      /\ seen \subseteq seen' /\ lost \subseteq lost'
      /\ hook[h].refs \subseteq seen' \cup lost'
  BY DEF Emit, Kill, hub, noticeVars
<1>2. HooksOK' /\ \A id : Accounted(id) => Accounted(id)'
  BY <1>1, LeaveKeeps DEF NoticesInv
<1> QED
  BY <1>1, <1>2, QuietStep

\* What the teammates, the clock and the questions do leaves every hook alone.
LEMMA OthersKeep ==
  ASSUME NoticesInv, QuestionStep \/ NoticeStep \/ Tick \/ UNCHANGED vars
  PROVE  NoticesInv'
<1>1. hook' = hook /\ seen' = seen /\ lost' = lost /\ spool' = spool
  BY DEF QuestionStep, NoticeStep, Tick, Connector, history, vars
<1>2. HooksOK' /\ \A id : Accounted(id) => Accounted(id)'
  BY <1>1 DEF NoticesInv, HooksOK, Accounted, Committed
<1>3. ASSUME NEW row \in rows', row.told
      PROVE  \E r \in rows : r.told /\ IdOf(r) = IdOf(row)
  <2>1. CASE NoticeStep
    <3>1. CASE \E stop \in stops : StopArrives(stop)
      BY <1>3, <3>1, StopTellsNobody DEF StopArrives
    <3>2. CASE PruneNotices
      BY <1>3, <3>2 DEF PruneNotices, Kept
    <3>3. CASE \E st \in scenario.stops : Stop(st.reader, st.commits)
      BY <1>3, <3>3 DEF Stop
    <3> QED
      BY <2>1, <3>1, <3>2, <3>3 DEF NoticeStep
  <2>2. CASE rows' = rows
    BY <1>3, <2>2
  <2> QED
    BY <2>1, <2>2 DEF QuestionStep, Tick, noticeVars, hub, vars
<1>4. ASSUME NEW row \in rows', row.told PROVE Accounted(IdOf(row))'
  BY <1>2, <1>3, <1>4 DEF NoticesInv
<1> QED
  BY <1>1, <1>2, <1>4 DEF NoticesInv, IdOf

LEMMA NoticesPreserved ==
  ASSUME NoticesInv, [Next]_vars
  PROVE  NoticesInv'
<1>1. CASE QuestionStep \/ NoticeStep \/ Tick \/ UNCHANGED vars
  BY <1>1, OthersKeep
<1>2. CASE Flush
  <2>1. PICK r \in spool : Hear(r) /\ spool' \subseteq spool
    BY <1>2 DEF Flush
  <2>2. hook' = hook /\ seen' = seen /\ lost' = lost
    BY <1>2 DEF Flush, history
  <2>3. HooksOK' /\ \A id : Accounted(id) => Accounted(id)'
    BY <2>2 DEF NoticesInv, HooksOK, Accounted, Committed
  <2>4. "told" \in DOMAIN r => \A id \in r.told : Accounted(id)'
    BY <2>3 DEF NoticesInv
  <2> QED
    BY <2>1, <2>3, <2>4, HearKeeps
<1>3. ASSUME NEW h \in Hooks, HookStep(h) PROVE NoticesInv'
  BY <1>3, StartKeeps, SpoolKeeps, ClaimKeeps, ShipKeeps, EndKeeps DEF HookStep
<1> QED
  BY <1>1, <1>2, <1>3 DEF Next

\* A notice the hub holds as told was printed for its author, or is in the hands
\* of a hook that will print it unless it is killed: across lost claims, refused
\* appends, refiled rows and repeated deliveries (rememberLandedNoticeDelivery,
\* ingestLandedNoticeDelivery).
THEOREM ToldNoticesWereShown == Spec => []ToldWasShown
<1>1. NoticesInv => ToldWasShown
  BY DEF NoticesInv, ToldWasShown, Accounted, InFlight
<1> QED
  BY <1>1, NoticesInitially, NoticesPreserved, PTL DEF Spec

----------------------------------------------------------------------------
(* The pair's budget.                                                      *)

NoticeRow == [reader : Readers, commit : Commits, filing : Nat, stopped : Nat,
              told : BOOLEAN]

RowsOK ==
    /\ rows \subseteq NoticeRow
    /\ IsFiniteSet(rows)
    /\ stops \subseteq [reader : Readers, commits : Seq(Commits), at : Nat]
    /\ filings \in Nat
    /\ \A row \in rows : row.filing <= filings

\* An image has no more elements than its domain.
LEMMA ImageIsNoLarger ==
  ASSUME NEW S, IsFiniteSet(S), NEW f, NEW T, \A y \in T : \E x \in S : y = f[x]
  PROVE  IsFiniteSet(T) /\ Cardinality(T) <= Cardinality(S)
<1> DEFINE U == {f[x] : x \in S}
           g == [x \in S |-> f[x]]
<1>1. g \in Surjection(S, U)
  BY DEF Surjection
<1>2. IsFiniteSet(U) /\ Cardinality(U) <= Cardinality(S)
  <2> HIDE DEF U, g
  <2> QED
    BY <1>1, FS_Surjection
<1>3. T \in SUBSET U
  OBVIOUS
<1>4. IsFiniteSet(T) /\ Cardinality(T) <= Cardinality(U)
  <2> HIDE DEF U
  <2> QED
    BY <1>2, <1>3, FS_Subset
<1>5. Cardinality(T) \in Nat /\ Cardinality(U) \in Nat /\ Cardinality(S) \in Nat
  <2> HIDE DEF U
  <2> QED
    BY <1>2, <1>4, FS_CardinalityType
<1> QED
  <2> HIDE DEF U
  <2> QED
    BY <1>2, <1>4, <1>5

\* Positions none of which has k others before it are at most k.
LEMMA PrefixesFill ==
  ASSUME NEW n \in Nat, NEW P \in SUBSET (1..n), NEW k \in Nat,
         \A i \in P : Cardinality({j \in P : j < i}) < k
  PROVE  IsFiniteSet(P) /\ Cardinality(P) <= k
<1>1. IsFiniteSet(P) /\ \A p \in P : p \in Nat /\ 1 <= p /\ p <= n
  <2>1. IsFiniteSet(1..n)
    BY FS_Interval
  <2>2. IsFiniteSet(P)
    BY <2>1, FS_Subset
  <2> QED
    BY <2>2
<1>2. CASE P = {}
  BY <1>1, <1>2, FS_EmptySet
<1>3. CASE P # {}
  <2> DEFINE Above == {u \in Nat : \A p \in P : p <= u}
             LessThan == {p \in Nat \X Nat : p[1] < p[2]}
  <2>1. n \in Above /\ Above \in SUBSET Nat
    BY <1>1
  <2>2. IsWellFoundedOn(LessThan, Nat)
    BY NatLessThanWellFounded DEF OpToRel
  <2>3. PICK m \in Above : \A u \in Above : <<u, m>> \notin LessThan
    <3> HIDE DEF Above, LessThan
    <3> QED
      BY <2>1, <2>2, WFMin
  <2>4. m \in P
    <3>1. SUFFICES ASSUME m \notin P PROVE FALSE
      OBVIOUS
    <3>2. m # 0
      <4>1. PICK p \in P : TRUE
        BY <1>3
      <4>2. p <= m /\ m \in Nat
        BY <4>1
      <4> QED
        BY <1>1, <4>2
    <3>3. m - 1 \in Above
      <4>1. ASSUME NEW p \in P PROVE p <= m - 1
        BY <1>1, <3>1
      <4> QED
        BY <3>2, <4>1
    <3>4. <<m - 1, m>> \in LessThan
      BY <3>2
    <3> QED
      BY <2>3, <3>3, <3>4
  <2>5. {j \in P : j < m} = P \ {m}
    <3>1. ASSUME NEW p \in P PROVE p < m <=> p # m
      <4>1. p <= m /\ m \in Nat /\ p \in Nat
        BY <1>1
      <4> QED
        BY <4>1
    <3> QED
      BY <3>1
  <2>6. Cardinality(P \ {m}) = Cardinality(P) - 1
    BY <1>1, <2>4, FS_RemoveElement
  <2>7. Cardinality(P) \in Nat
    BY <1>1, FS_CardinalityType
  <2> QED
    BY <1>1, <2>4, <2>5, <2>6, <2>7
<1> QED
  BY <1>2, <1>3

LEMMA RowsInitially == Init => RowsOK
BY FS_EmptySet DEF Init, NoticesInit, RowsOK

\* What becomes of one row: its stop is refreshed, it is told, or it stays.
Successor(old, new) ==
    /\ new \in NoticeRow
    /\ new.reader = old.reader /\ new.commit = old.commit /\ new.filing = old.filing

LEMMA RefreshSucceeds ==
  ASSUME NEW row \in NoticeRow, NEW stop, stop.at \in Nat
  PROVE  Successor(row, Refresh(row, stop)) /\ (row.told => Refresh(row, stop) = row)
BY DEF NoticeRow, Refresh, Successor

LEMMA MarkSucceeds ==
  ASSUME NEW row \in NoticeRow
  PROVE  Successor(row, [row EXCEPT !.told = TRUE])
BY DEF NoticeRow, Successor

\* The rows after an update that maps each row it keeps to a successor.
LEMMA MappedRows ==
  ASSUME RowsOK, NEW S \in SUBSET rows, NEW f, \A row \in S : Successor(row, f[row])
  PROVE  LET mapped == {f[row] : row \in S}
         IN  /\ mapped \subseteq NoticeRow
             /\ IsFiniteSet(mapped)
             /\ \A new \in mapped : new.filing <= filings
<1> DEFINE mapped == {f[row] : row \in S}
<1>1. IsFiniteSet(S)
  BY FS_Subset DEF RowsOK
<1>2. \A new \in mapped : \E row \in S : new = f[row]
  OBVIOUS
<1>3. IsFiniteSet(mapped)
  <2> HIDE DEF mapped
  <2> QED
    BY <1>1, <1>2, ImageIsNoLarger
<1>4. \A new \in mapped : new \in NoticeRow /\ new.filing <= filings
  BY DEF RowsOK, Successor
<1> QED
  BY <1>3, <1>4

\* A stop names commits only.
LEMMA FittingCommits ==
  ASSUME RowsOK, NEW stop \in stops
  PROVE  /\ stop.reader \in Readers /\ stop.at \in Nat /\ stop.commits \in Seq(Commits)
         /\ Fitting(stop) \subseteq Commits /\ IsFiniteSet(Fitting(stop))
<1>1. stop.reader \in Readers /\ stop.at \in Nat /\ stop.commits \in Seq(Commits)
  BY DEF RowsOK
<1>2. DOMAIN stop.commits = 1..Len(stop.commits) /\ Len(stop.commits) \in Nat
  BY <1>1
<1>3. Fitting(stop) \subseteq Commits
  BY <1>1, <1>2 DEF Fitting
<1>4. IsFiniteSet(1..Len(stop.commits))
  BY <1>2, FS_Interval
<1>5. \A c \in Fitting(stop) : \E i \in 1..Len(stop.commits) : c = stop.commits[i]
  BY <1>2 DEF Fitting
<1> QED
  BY <1>1, <1>3, <1>4, <1>5, ImageIsNoLarger

\* The rows that a stop newly files.
Fresh(stop) ==
    {c \in IF stop.at + NoticeTTL > now THEN Fitting(stop) ELSE {} :
        ~\E row \in Kept : Same(row, stop.reader, c)}

Filed(stop, c) ==
    [reader |-> stop.reader, commit |-> c, filing |-> filings + 1, stopped |-> stop.at,
     told |-> FALSE]

\* What an ingested stop leaves: successors of the rows kept, and its own.
LEMMA IngestedRows ==
  ASSUME RowsOK, NEW stop \in stops, IngestStop(stop)
  PROVE  \E f : /\ \A row \in Kept : Successor(row, f[row]) /\ (row.told => f[row] = row)
               /\ rows' = {f[row] : row \in Kept} \cup {Filed(stop, c) : c \in Fresh(stop)}
               /\ filings' = IF Fresh(stop) = {} THEN filings ELSE filings + 1
<1> DEFINE fit == IF stop.at + NoticeTTL > now THEN Fitting(stop) ELSE {}
           isHit(row) == row.reader = stop.reader /\ row.commit \in fit
           f == [row \in Kept |-> IF isHit(row) THEN Refresh(row, stop) ELSE row]
<1>1. rows' = {IF isHit(row) THEN Refresh(row, stop) ELSE row : row \in Kept}
                \cup {Filed(stop, c) : c \in Fresh(stop)}
  BY DEF IngestStop, Filed, Fresh
<1>2. filings' = IF Fresh(stop) = {} THEN filings ELSE filings + 1
  BY DEF IngestStop, Fresh
<1>3. rows' = {f[row] : row \in Kept} \cup {Filed(stop, c) : c \in Fresh(stop)}
  <2> HIDE DEF isHit
  <2> QED
    BY <1>1
<1>4. ASSUME NEW row \in Kept
      PROVE  Successor(row, f[row]) /\ (row.told => f[row] = row)
  <2>1. row \in NoticeRow /\ stop.at \in Nat
    BY FittingCommits DEF RowsOK, Kept
  <2>2. Successor(row, row)
    BY <2>1 DEF Successor
  <2> HIDE DEF isHit
  <2>3. f[row] = Refresh(row, stop) \/ f[row] = row
    OBVIOUS
  <2> QED
    BY <2>1, <2>2, <2>3, RefreshSucceeds
<1> QED
  <2> HIDE DEF f
  <2> QED
    BY <1>2, <1>3, <1>4

LEMMA IngestKeepsRows ==
  ASSUME RowsOK, NEW stop \in stops, IngestStop(stop)
  PROVE  rows' \subseteq NoticeRow /\ IsFiniteSet(rows') /\ filings' \in Nat
         /\ \A row \in rows' : row.filing <= filings'
<1>1. PICK f : /\ \A row \in Kept : Successor(row, f[row])
               /\ rows' = {f[row] : row \in Kept} \cup {Filed(stop, c) : c \in Fresh(stop)}
               /\ filings' = IF Fresh(stop) = {} THEN filings ELSE filings + 1
  BY IngestedRows
<1> DEFINE mapped == {f[row] : row \in Kept}
           added == {Filed(stop, c) : c \in Fresh(stop)}
<1>2. mapped \subseteq NoticeRow /\ IsFiniteSet(mapped)
      /\ \A new \in mapped : new.filing <= filings
  BY <1>1, MappedRows DEF Kept
<1>3. Fresh(stop) \subseteq Commits /\ IsFiniteSet(Fresh(stop))
  BY FittingCommits, FS_EmptySet, FS_Subset DEF Fresh
<1>4. filings \in Nat
  BY DEF RowsOK
<1>5. added \subseteq NoticeRow /\ \A new \in added : new.filing = filings + 1
  <2>1. ASSUME NEW c \in Fresh(stop)
        PROVE  Filed(stop, c) \in NoticeRow /\ Filed(stop, c).filing = filings + 1
    <3>1. c \in Commits /\ stop.reader \in Readers /\ stop.at \in Nat /\ filings + 1 \in Nat
      BY <1>3, <1>4, FittingCommits
    <3> QED
      BY <3>1 DEF Filed, NoticeRow
  <2> QED
    BY <2>1
<1>6. IsFiniteSet(added)
  <2> DEFINE g == [c \in Fresh(stop) |-> Filed(stop, c)]
  <2>1. \A new \in added : \E c \in Fresh(stop) : new = g[c]
    OBVIOUS
  <2> HIDE DEF added, g
  <2> QED
    BY <1>3, <2>1, ImageIsNoLarger
<1>7. rows' = mapped \cup added
  BY <1>1
<1>8. Fresh(stop) = {} => added = {}
  OBVIOUS
<1> HIDE DEF mapped, added
<1>9. IsFiniteSet(rows')
  BY <1>2, <1>6, <1>7, FS_Union
<1>10. ASSUME NEW row \in rows' PROVE row.filing <= filings'
  <2>1. row \in NoticeRow
    BY <1>2, <1>5, <1>7
  <2>2. row.filing \in Nat
    BY <2>1 DEF NoticeRow
  <2> QED
    BY <1>1, <1>2, <1>4, <1>5, <1>7, <1>8, <2>2
<1> QED
  BY <1>1, <1>2, <1>4, <1>5, <1>7, <1>9, <1>10

\* A delivery keeps the table.
LEMMA MarkedRows ==
  ASSUME RowsOK, NEW ids
  PROVE  \E f : /\ \A row \in rows : /\ Successor(row, f[row]) /\ f[row].stopped = row.stopped
                                     /\ row.told => f[row].told
               /\ Marked(Me, ids) = {f[row] : row \in rows}
               /\ \A row \in rows : AuthorOf[row.commit] = Me /\ IdOf(row) \in ids => f[row].told
<1> DEFINE isNamed(row) == AuthorOf[row.commit] = Me /\ IdOf(row) \in ids
           f == [row \in rows |-> IF isNamed(row) THEN [row EXCEPT !.told = TRUE] ELSE row]
<1>1. Marked(Me, ids) = {f[row] : row \in rows}
  BY DEF Marked
<1>2. ASSUME NEW row \in rows
      PROVE  /\ Successor(row, f[row]) /\ f[row].stopped = row.stopped
             /\ row.told => f[row].told
             /\ isNamed(row) => f[row].told
  <2>1. row \in NoticeRow
    BY DEF RowsOK
  <2>2. Successor(row, row) /\ Successor(row, [row EXCEPT !.told = TRUE])
    BY <2>1, MarkSucceeds DEF Successor
  <2>3. [row EXCEPT !.told = TRUE].told /\ [row EXCEPT !.told = TRUE].stopped = row.stopped
    BY <2>1 DEF NoticeRow
  <2> HIDE DEF isNamed
  <2> QED
    BY <2>2, <2>3
<1> QED
  BY <1>1, <1>2

\* The hub hears of a record, or not.
LEMMA HearKeepsRows ==
  ASSUME RowsOK, NEW r, Hear(r) \/ rows' = rows
  PROVE  rows' \subseteq NoticeRow /\ IsFiniteSet(rows')
         /\ \A row \in rows' : row.filing <= filings
<1>1. CASE rows' = rows
  BY <1>1 DEF RowsOK
<1>2. CASE rows' = Marked(Me, r.told)
  <2>1. PICK f : /\ \A row \in rows : /\ Successor(row, f[row]) /\ f[row].stopped = row.stopped
                                      /\ row.told => f[row].told
                 /\ Marked(Me, r.told) = {f[row] : row \in rows}
    BY MarkedRows
  <2>2. \A row \in rows : Successor(row, f[row])
    BY <2>1
  <2>3. rows' = {f[row] : row \in rows}
    BY <1>2, <2>1
  <2> QED
    BY <2>2, <2>3, MappedRows
<1> QED
  BY <1>1, <1>2 DEF Hear

LEMMA RowsPreserved ==
  ASSUME QuestionsInv, RowsOK, [Next]_vars
  PROVE  RowsOK'
<1> USE DEF RowsOK
<1>1. CASE NoticeStep
  <2>1. CASE \E st \in scenario.stops : Stop(st.reader, st.commits)
    <3>1. PICK st \in scenario.stops : Stop(st.reader, st.commits)
      BY <2>1
    <3>2. st \in [reader : Readers, commits : Seq(Commits)] /\ now \in Nat
      BY DeliveryAssumption DEF QuestionsInv, QuestionsTypeOK
    <3>3. [reader |-> st.reader, commits |-> st.commits, at |-> now]
             \in [reader : Readers, commits : Seq(Commits), at : Nat]
      BY <3>2
    <3> QED
      BY <3>1, <3>3 DEF Stop
  <2>2. CASE \E stop \in stops : StopArrives(stop)
    <3>1. PICK stop \in stops : IngestStop(stop) /\ stops' \subseteq stops
      BY <2>2 DEF StopArrives
    <3> QED
      BY <3>1, IngestKeepsRows
  <2>3. CASE PruneNotices
    <3>1. rows' \in SUBSET rows /\ UNCHANGED <<stops, filings>>
      BY <2>3 DEF PruneNotices, Kept
    <3> QED
      BY <3>1, FS_Subset
  <2> QED
    BY <1>1, <2>1, <2>2, <2>3 DEF NoticeStep
<1>2. CASE Flush
  BY <1>2, HearKeepsRows DEF Flush
<1>3. ASSUME NEW h \in Hooks, Ship(h) PROVE RowsOK'
  BY <1>3, HearKeepsRows DEF Ship
<1>4. CASE ~NoticeStep /\ ~Flush /\ \A h \in Hooks : ~Ship(h)
  <2>1. UNCHANGED noticeVars
    BY <1>4 DEF Next, vars, hub, QuestionStep, Tick, HookStep, Prompt, SessionStart,
       DeferredBriefing, SpoolStep, ClaimStep, Emit, Kill
  <2> QED
    BY <2>1 DEF noticeVars
<1> QED
  BY <1>1, <1>2, <1>3, <1>4

LEMMA FiledIsFinite ==
  ASSUME RowsOK, NEW reader, NEW author
  PROVE  /\ IsFiniteSet(FiledFor(reader, author))
         /\ Cardinality(FiledFor(reader, author)) \in Nat
         /\ Room(reader, author) \in Nat
         /\ Cardinality(FiledFor(reader, author)) <= PairCap
              => Cardinality(FiledFor(reader, author)) + Room(reader, author) <= PairCap
<1>1. FiledFor(reader, author) \in SUBSET rows
  BY DEF FiledFor, Kept
<1>2. IsFiniteSet(FiledFor(reader, author))
  BY <1>1, FS_Subset DEF RowsOK
<1>3. Cardinality(FiledFor(reader, author)) \in Nat
  BY <1>2, FS_CardinalityType
<1>4. PairCap \in Nat
  BY LandedNoticesAssumption
<1> QED
  BY <1>2, <1>3, <1>4 DEF Room

\* What a stop newly files on an author takes no more than the room there is:
\* each of these commits has fewer before it than that.
LEMMA FreshFits ==
  ASSUME RowsOK, NEW stop \in stops, NEW author
  PROVE  LET filed == {c \in Fresh(stop) : AuthorOf[c] = author}
         IN  IsFiniteSet(filed) /\ Cardinality(filed) <= Room(stop.reader, author)
<1> DEFINE filed == {c \in Fresh(stop) : AuthorOf[c] = author}
           commits == stop.commits
           n == Len(commits)
           room == Room(stop.reader, author)
           P == {i \in 1..n : /\ ~Waiting(stop.reader, commits[i])
                              /\ AuthorOf[commits[i]] = author
                              /\ Cardinality(Ahead(stop, i)) < room}
<1>1. n \in Nat /\ DOMAIN commits = 1..n
  BY FittingCommits
<1>2. room \in Nat
  BY FiledIsFinite
<1>3. ASSUME NEW i \in P PROVE Cardinality({j \in P : j < i}) < room
  <2> DEFINE before == {j \in P : j < i}
  <2>1. before \in SUBSET Ahead(stop, i)
    BY <1>1 DEF Ahead
  <2>2. Ahead(stop, i) \in SUBSET (1..(i - 1)) /\ i \in Int
    BY <1>1 DEF Ahead
  <2>3. IsFiniteSet(1..(i - 1))
    BY <2>2, FS_Interval
  <2>4. IsFiniteSet(Ahead(stop, i))
    BY <2>2, <2>3, FS_Subset
  <2>5. Cardinality(Ahead(stop, i)) < room
    OBVIOUS
  <2> HIDE DEF before, P
  <2>6. IsFiniteSet(before) /\ Cardinality(before) <= Cardinality(Ahead(stop, i))
    BY <2>1, <2>4, FS_Subset
  <2>7. Cardinality(before) \in Nat /\ Cardinality(Ahead(stop, i)) \in Nat
    BY <2>4, <2>6, FS_CardinalityType
  <2>8. Cardinality(before) < room
    BY <1>2, <2>5, <2>6, <2>7
  <2> QED
    BY <2>8 DEF before
<1>4. P \in SUBSET (1..n)
  OBVIOUS
<1>5. \A c \in filed : \E i \in P : c = commits[i]
  <2> SUFFICES ASSUME NEW c \in filed PROVE \E i \in P : c = commits[i]
    OBVIOUS
  <2>1. c \in Fitting(stop) /\ ~Waiting(stop.reader, c) /\ AuthorOf[c] = author
    BY DEF Fresh, Waiting, Same
  <2>2. PICK i \in 1..n : /\ c = commits[i]
                          /\ \/ Waiting(stop.reader, commits[i])
                             \/ Cardinality(Ahead(stop, i))
                                  < Room(stop.reader, AuthorOf[commits[i]])
    BY <1>1, <2>1 DEF Fitting
  <2> QED
    BY <2>1, <2>2
<1> HIDE DEF filed, P, room
<1>6. IsFiniteSet(P) /\ Cardinality(P) <= room
  BY <1>1, <1>2, <1>3, <1>4, PrefixesFill
<1>7. IsFiniteSet(filed) /\ Cardinality(filed) <= Cardinality(P)
  BY <1>5, <1>6, ImageIsNoLarger
<1>8. Cardinality(P) \in Nat /\ Cardinality(filed) \in Nat
  BY <1>6, <1>7, FS_CardinalityType
<1>9. IsFiniteSet(filed) /\ Cardinality(filed) <= room
  BY <1>2, <1>6, <1>7, <1>8
<1> QED
  BY <1>9 DEF filed, room

Filings(reader, author) == Cardinality(FiledFor(reader, author))

\* Marking and pruning, and the clock, file nothing.
LEMMA FilesNothing ==
  ASSUME RowsOK, now \in Nat, now' \in Nat, now <= now', NEW reader, NEW author, NEW f,
         \A row \in rows : Successor(row, f[row]) /\ f[row].stopped = row.stopped,
         \A new \in rows' : \E row \in rows : new = f[row],
         Filings(reader, author) <= PairCap
  PROVE  Filings(reader, author)' <= PairCap
<1> DEFINE T == FiledFor(reader, author)'
<1>1. \A new \in T : \E row \in FiledFor(reader, author) : new = f[row]
  <2> SUFFICES ASSUME NEW new \in T
               PROVE  \E row \in FiledFor(reader, author) : new = f[row]
    OBVIOUS
  <2>1. PICK row \in rows : new = f[row]
    BY DEF FiledFor, Kept
  <2>2. new.reader = reader /\ AuthorOf[new.commit] = author /\ new.stopped + NoticeTTL > now'
    BY DEF FiledFor, Kept, Current
  <2>3. row.reader = reader /\ AuthorOf[row.commit] = author
        /\ row.stopped + NoticeTTL > now'
    BY <2>1, <2>2 DEF Successor
  <2>4. row.stopped \in Nat /\ NoticeTTL \in Nat
    BY LandedNoticesAssumption DEF RowsOK, NoticeRow
  <2>5. row.stopped + NoticeTTL > now
    BY <2>3, <2>4
  <2> QED
    BY <2>1, <2>3, <2>5 DEF FiledFor, Kept, Current
<1>2. IsFiniteSet(FiledFor(reader, author)) /\ Filings(reader, author) \in Nat
  BY FiledIsFinite DEF Filings
<1> HIDE DEF T
<1>3. IsFiniteSet(T) /\ Cardinality(T) <= Cardinality(FiledFor(reader, author))
  BY <1>1, <1>2, ImageIsNoLarger
<1>4. Cardinality(T) \in Nat
  BY <1>3, FS_CardinalityType
<1>5. PairCap \in Nat
  BY LandedNoticesAssumption
<1>6. Cardinality(T) <= PairCap
  BY <1>2, <1>3, <1>4, <1>5 DEF Filings
<1> QED
  BY <1>6 DEF T, Filings

\* A stop refreshes what waits and files what the room allows.
LEMMA IngestKeepsBudget ==
  ASSUME RowsOK, now' = now, NEW stop \in stops, IngestStop(stop),
         NEW reader, NEW author, Filings(reader, author) <= PairCap
  PROVE  Filings(reader, author)' <= PairCap
<1>1. PICK f : /\ \A row \in Kept : Successor(row, f[row])
               /\ rows' = {f[row] : row \in Kept} \cup {Filed(stop, c) : c \in Fresh(stop)}
  BY IngestedRows
<1> DEFINE filed == IF reader = stop.reader THEN {c \in Fresh(stop) : AuthorOf[c] = author}
                    ELSE {}
           T == FiledFor(reader, author)'
           Old == {new \in T : \E row \in FiledFor(reader, author) : new = f[row]}
           New == {new \in T : \E c \in filed : new = Filed(stop, c)}
           g == [c \in filed |-> Filed(stop, c)]
<1>2. T \in SUBSET (Old \cup New)
  <2> SUFFICES ASSUME NEW new \in T PROVE new \in Old \cup New
    OBVIOUS
  <2>1. new \in rows' /\ new.reader = reader /\ AuthorOf[new.commit] = author
    BY DEF FiledFor, Kept
  <2>2. CASE \E row \in Kept : new = f[row]
    BY <1>1, <2>1, <2>2 DEF Successor, FiledFor
  <2>3. CASE \E c \in Fresh(stop) : new = Filed(stop, c)
    BY <2>1, <2>3 DEF Filed
  <2> QED
    BY <1>1, <2>1, <2>2, <2>3
<1>3. /\ IsFiniteSet(FiledFor(reader, author)) /\ Filings(reader, author) \in Nat
      /\ Room(reader, author) \in Nat
      /\ Filings(reader, author) + Room(reader, author) <= PairCap
  BY FiledIsFinite DEF Filings
<1>4. IsFiniteSet(filed) /\ Cardinality(filed) <= Room(reader, author)
  <2>1. CASE reader = stop.reader
    BY <2>1, FreshFits
  <2>2. CASE reader # stop.reader
    BY <1>3, <2>2, FS_EmptySet
  <2> QED
    BY <2>1, <2>2
<1>5. \A new \in New : \E c \in filed : new = g[c]
  OBVIOUS
<1>6. \A new \in Old : \E row \in FiledFor(reader, author) : new = f[row]
  OBVIOUS
<1> HIDE DEF filed, T, Old, New, g
<1>7. IsFiniteSet(Old) /\ Cardinality(Old) <= Filings(reader, author)
  BY <1>3, <1>6, ImageIsNoLarger DEF Filings
<1>8. IsFiniteSet(New) /\ Cardinality(New) <= Cardinality(filed)
  BY <1>4, <1>5, ImageIsNoLarger
<1>9. /\ IsFiniteSet(Old \cup New)
      /\ Cardinality(Old \cup New)
            = Cardinality(Old) + Cardinality(New) - Cardinality(Old \cap New)
  BY <1>7, <1>8, FS_Union
<1>10. IsFiniteSet(Old \cap New)
  BY <1>7, FS_Intersection
<1>11. IsFiniteSet(T) /\ Cardinality(T) <= Cardinality(Old \cup New)
  BY <1>2, <1>9, FS_Subset
<1>12. /\ Cardinality(Old) \in Nat /\ Cardinality(New) \in Nat /\ Cardinality(filed) \in Nat
       /\ Cardinality(Old \cap New) \in Nat /\ Cardinality(T) \in Nat
       /\ Cardinality(Old \cup New) \in Nat /\ PairCap \in Nat
  BY <1>4, <1>7, <1>8, <1>9, <1>10, <1>11, FS_CardinalityType, LandedNoticesAssumption
<1>13. Cardinality(T) <= PairCap
  BY <1>3, <1>4, <1>7, <1>8, <1>9, <1>11, <1>12
<1> QED
  BY <1>13 DEF T, Filings

BudgetInv == QuestionsInv /\ RowsOK /\ PairBudget

LEMMA BudgetPreserved ==
  ASSUME BudgetInv, [Next]_vars
  PROVE  PairBudget'
<1> SUFFICES ASSUME NEW reader \in Readers, NEW c \in Commits
             PROVE  Filings(reader, AuthorOf[c])' <= PairCap
  BY DEF PairBudget, Filings
<1>1. RowsOK /\ now \in Nat /\ Filings(reader, AuthorOf[c]) <= PairCap
  BY DEF BudgetInv, QuestionsInv, QuestionsTypeOK, PairBudget, Filings
<1> DEFINE same == [row \in rows |-> row]
<1>2. \A row \in rows : Successor(row, same[row]) /\ same[row].stopped = row.stopped
  BY <1>1 DEF RowsOK, Successor
<1>3. ASSUME rows' \subseteq rows, now' \in Nat, now <= now'
      PROVE  Filings(reader, AuthorOf[c])' <= PairCap
  <2>1. \A new \in rows' : \E row \in rows : new = same[row]
    BY <1>3
  <2> HIDE DEF same
  <2> QED
    BY <1>1, <1>2, <1>3, <2>1, FilesNothing
<1>4. ASSUME NEW r, Hear(r) \/ rows' = rows, now' = now
      PROVE  Filings(reader, AuthorOf[c])' <= PairCap
  <2>1. CASE rows' = rows
    BY <1>1, <1>3, <1>4, <2>1
  <2>2. CASE rows' = Marked(Me, r.told)
    <3>1. PICK f : /\ \A row \in rows : /\ Successor(row, f[row]) /\ f[row].stopped = row.stopped
                                        /\ row.told => f[row].told
                   /\ Marked(Me, r.told) = {f[row] : row \in rows}
      BY <1>1, MarkedRows
    <3>2. \A row \in rows : Successor(row, f[row]) /\ f[row].stopped = row.stopped
      BY <3>1
    <3>3. rows' = {f[row] : row \in rows}
      BY <2>2, <3>1
    <3>4. \A new \in rows' : \E row \in rows : new = f[row]
      BY <3>3
    <3> QED
      BY <1>1, <1>4, <3>2, <3>4, FilesNothing
  <2> QED
    BY <1>4, <2>1, <2>2 DEF Hear
<1>5. CASE NoticeStep
  <2>1. CASE \E stop \in stops : StopArrives(stop)
    BY <1>1, <1>5, <2>1, IngestKeepsBudget DEF NoticeStep, StopArrives
  <2>2. CASE ~\E stop \in stops : StopArrives(stop)
    BY <1>1, <1>3, <1>5, <2>2 DEF NoticeStep, Stop, PruneNotices, Kept
  <2> QED
    BY <2>1, <2>2
<1>6. CASE Flush
  BY <1>4, <1>6 DEF Flush
<1>7. ASSUME NEW h \in Hooks, Ship(h)
      PROVE  Filings(reader, AuthorOf[c])' <= PairCap
  BY <1>4, <1>7 DEF Ship
<1>8. CASE Tick
  BY <1>1, <1>3, <1>8 DEF Tick, hub, noticeVars
<1>9. CASE ~NoticeStep /\ ~Flush /\ ~Tick /\ \A h \in Hooks : ~Ship(h)
  <2>1. rows' = rows /\ now' = now
    BY <1>9 DEF Next, vars, hub, noticeVars, QuestionStep, HookStep, Prompt, SessionStart,
       DeferredBriefing, SpoolStep, ClaimStep, Emit, Kill
  <2> QED
    BY <1>1, <1>3, <2>1
<1> QED
  BY <1>5, <1>6, <1>7, <1>8, <1>9

\* One reader never has more rows on one author within the seven days than the
\* cap, told or not, however many stops race, repeat or arrive late
\* (withinPairBudget, ingestLandedStop).
THEOREM PairStaysInBudget == Spec => []PairBudget
<1>1. Init => BudgetInv
  <2>1. ASSUME Init PROVE PairBudget
    <3>1. PairCap \in Nat
      BY LandedNoticesAssumption
    <3>2. \A reader, author : FiledFor(reader, author) = {}
      BY <2>1 DEF Init, NoticesInit, FiledFor, Kept
    <3> QED
      BY <3>1, <3>2, FS_EmptySet DEF PairBudget
  <2> QED
    BY <2>1, QuestionsInitially, RowsInitially DEF BudgetInv
<1>2. BudgetInv /\ [Next]_vars => BudgetInv'
  BY QuestionsPreserved, RowsPreserved, BudgetPreserved DEF BudgetInv
<1>3. BudgetInv => PairBudget
  BY DEF BudgetInv
<1> QED
  BY <1>1, <1>2, <1>3, PTL DEF Spec

----------------------------------------------------------------------------
(* What was printed is owed to the hub.                                    *)

\* An id the hub has given to a notice for Me.
Mine(id) ==
    id \in Readers \X Commits \X Nat /\ AuthorOf[id[2]] = Me /\ id[3] <= filings

\* A hook holds one hint, or notices for Me; so does a spooled delivery.
RefsOK ==
    /\ \A h \in Hooks :
          /\ hook[h].kind \in {"answer", "pointer"} => \E ref \in HintRefs : hook[h].refs = {ref}
          /\ hook[h].kind \in {"notice", "briefing"} => \A id \in hook[h].refs : Mine(id)
    /\ \A r \in spool : "told" \in DOMAIN r => \A id \in r.told : Mine(id)

\* The hub was told of every row this notice has.
Told(id) == Mine(id) /\ \A row \in rows : IdOf(row) = id => row.told

\* The record of this is spooled, or the hub has heard it.
Reported(ref) ==
    \/ \E r \in spool : ref \in IF "told" \in DOMAIN r THEN r.told ELSE r.refs
    \/ \E d \in handed : d.ref = ref
    \/ Told(ref)

\* Past the step that spools what the hook holds.
Spooled(h) ==
    \/ hook[h].kind \in {"answer", "pointer", "briefing"} /\ hook[h].at >= 2
    \/ hook[h].kind = "notice" /\ hook[h].at >= 3

OwedInv ==
    /\ \A ref \in seen \ dropped : Reported(ref)
    /\ \A h \in Hooks : Spooled(h) => \A ref \in hook[h].refs \ dropped : Reported(ref)

LEMMA MineIsNoHint ==
  ASSUME NEW id, Mine(id)
  PROVE  id \notin HintRefs
BY DeliveryAssumption DEF Mine, HintRefs

LEMMA NoticesAreMine ==
  ASSUME RowsOK, NEW reader, NEW id \in NoticesFor(Me, reader)
  PROVE  Mine(id)
<1>1. PICK row \in rows : id = IdOf(row) /\ AuthorOf[row.commit] = Me
  BY DEF NoticesFor, Kept
<1>2. row \in NoticeRow /\ row.filing <= filings
  BY DEF RowsOK
<1> QED
  BY <1>1, <1>2 DEF IdOf, Mine, NoticeRow

LEMMA BriefedAreMine ==
  ASSUME RowsOK, NEW n \in Briefed, NEW id \in n
  PROVE  Mine(id)
<1>1. PICK R \in SUBSET Readers : n = UNION {NoticesFor(Me, r) : r \in R}
  BY DEF Briefed
<1>2. PICK r \in R : id \in NoticesFor(Me, r)
  BY <1>1
<1> QED
  BY <1>2, NoticesAreMine

\* Filing numbers only grow.
LEMMA FilingsGrow ==
  ASSUME RowsOK, [Next]_vars
  PROVE  filings \in Nat /\ filings' \in Nat /\ filings <= filings'
<1>1. filings \in Nat
  BY DEF RowsOK
<1>2. filings' = filings \/ filings' = filings + 1
  <2>1. CASE NoticeStep
    BY <2>1 DEF NoticeStep, Stop, StopArrives, IngestStop, PruneNotices
  <2>2. CASE ~NoticeStep
    BY <2>2 DEF Next, vars, hub, noticeVars, QuestionStep, Tick, Flush, HookStep, Prompt,
       SessionStart, DeferredBriefing, SpoolStep, ClaimStep, Ship, Emit, Kill
  <2> QED
    BY <2>1, <2>2
<1> QED
  BY <1>1, <1>2

LEMMA MineStays ==
  ASSUME RowsOK, [Next]_vars, NEW id, Mine(id)
  PROVE  Mine(id)'
BY FilingsGrow DEF Mine

\* What a hook takes up.
LEMMA TakenRefs ==
  ASSUME QuestionsInv, RowsOK, NEW h \in Hooks,
         Prompt(h) \/ SessionStart(h) \/ DeferredBriefing(h)
  PROVE  \/ hook' = hook
         \/ \E refs :
              \/ \E kind \in {"answer", "pointer"} :
                    Take(h, kind, refs) /\ \E ref \in HintRefs : refs = {ref}
              \/ \E kind \in {"notice", "briefing"} :
                    Take(h, kind, refs) /\ \A id \in refs : Mine(id)
<1>1. CASE Prompt(h)
  <2>1. CASE \E a \in AnswersWaiting : Take(h, "answer", {a})
    <3>1. AnswersWaiting \subseteq HintRefs
      BY DEF AnswersWaiting, AnswersFor, QuestionsInv, QuestionsTypeOK, HintRefs
    <3> QED
      BY <2>1, <3>1
  <2>2. CASE \E r \in Readers : Take(h, "notice", NoticesFor(Me, r) \ shown[SessionOf[h]])
    BY <2>2, NoticesAreMine
  <2>3. CASE \E p \in Pointers : Take(h, "pointer", {p})
    BY <2>3 DEF HintRefs
  <2> QED
    BY <1>1, <2>1, <2>2, <2>3 DEF Prompt, Pick
<1>2. CASE SessionStart(h) \/ DeferredBriefing(h)
  <2>1. hook' = hook \/ \E n \in Briefed : Take(h, "briefing", n)
    BY <1>2 DEF SessionStart, DeferredBriefing
  <2> QED
    BY <2>1, BriefedAreMine
<1> QED
  BY <1>1, <1>2

\* What a step makes of a hook: it takes up work, goes on, leaves, or stays.
LEMMA HookMoves ==
  ASSUME NoticesInv, QuestionsInv, RowsOK, [Next]_vars, NEW h \in Hooks
  PROVE  \/ hook'[h] = hook[h]
         \/ hook'[h] = Idle
         \/ /\ hook'[h] = [kind |-> hook[h].kind, refs |-> hook[h].refs, at |-> hook[h].at + 1]
            /\ SpoolStep(h) \/ ClaimStep(h) \/ Ship(h)
         \/ \E refs :
              \/ \E kind \in {"answer", "pointer"} :
                    /\ hook'[h] = [kind |-> kind, refs |-> refs, at |-> 1]
                    /\ \E ref \in HintRefs : refs = {ref}
              \/ \E kind \in {"notice", "briefing"} :
                    /\ hook'[h] = [kind |-> kind, refs |-> refs, at |-> 1]
                    /\ \A id \in refs : Mine(id)
<1>1. HooksOK
  BY DEF NoticesInv
<1>2. ASSUME NEW k \in Hooks, Go(k), SpoolStep(k) \/ ClaimStep(k) \/ Ship(k)
      PROVE  \/ hook'[h] = hook[h]
             \/ /\ hook'[h] = [kind |-> hook[h].kind, refs |-> hook[h].refs, at |-> hook[h].at + 1]
                /\ SpoolStep(h) \/ ClaimStep(h) \/ Ship(h)
  <2>1. hook' = [hook EXCEPT ![k] = [kind |-> hook[k].kind, refs |-> hook[k].refs,
                                     at |-> hook[k].at + 1]]
    BY <1>1, <1>2, GoMoves
  <2> QED
    BY <1>1, <1>2, <2>1 DEF HooksOK
<1>3. ASSUME NEW k \in Hooks, Leave(k) PROVE hook'[h] = hook[h] \/ hook'[h] = Idle
  BY <1>1, <1>3 DEF Leave, HooksOK
<1>4. ASSUME NEW k \in Hooks, HookStep(k)
      PROVE  \/ hook' = hook
             \/ Go(k) /\ (SpoolStep(k) \/ ClaimStep(k) \/ Ship(k))
             \/ Leave(k)
             \/ Prompt(k) \/ SessionStart(k) \/ DeferredBriefing(k)
  BY <1>4 DEF HookStep, SpoolStep, ClaimStep, Ship, Emit, Kill
<1>5. ASSUME NEW k \in Hooks, Prompt(k) \/ SessionStart(k) \/ DeferredBriefing(k)
      PROVE  \/ hook'[h] = hook[h]
             \/ \E refs :
                  \/ \E kind \in {"answer", "pointer"} :
                        /\ hook'[h] = [kind |-> kind, refs |-> refs, at |-> 1]
                        /\ \E ref \in HintRefs : refs = {ref}
                  \/ \E kind \in {"notice", "briefing"} :
                        /\ hook'[h] = [kind |-> kind, refs |-> refs, at |-> 1]
                        /\ \A id \in refs : Mine(id)
  <2>1. CASE hook' = hook
    BY <2>1
  <2>2. ASSUME NEW refs, NEW kind, Take(k, kind, refs)
        PROVE  hook'[h] = hook[h] \/ hook'[h] = [kind |-> kind, refs |-> refs, at |-> 1]
    BY <1>1, <2>2 DEF Take, HooksOK
  <2> QED
    BY <1>5, <2>1, <2>2, TakenRefs
<1>6. CASE ~\E k \in Hooks : HookStep(k)
  BY <1>6 DEF Next, vars, QuestionStep, NoticeStep, Connector, Tick, Flush
<1> QED
  BY <1>2, <1>3, <1>4, <1>5, <1>6

LEMMA RefsPreserved ==
  ASSUME NoticesInv, QuestionsInv, RowsOK, RefsOK, [Next]_vars
  PROVE  RefsOK'
<1> DEFINE Holds(at) ==
      /\ at.kind \in {"answer", "pointer"} => \E ref \in HintRefs : at.refs = {ref}
      /\ at.kind \in {"notice", "briefing"} => \A id \in at.refs : Mine(id)'
<1>1. \A id : Mine(id) => Mine(id)'
  BY MineStays
<1>2. ASSUME NEW h \in Hooks PROVE Holds(hook'[h])
  <2>1. CASE hook'[h] = hook[h]
    BY <1>1, <2>1 DEF RefsOK
  <2>2. CASE hook'[h] = Idle
    BY <2>2 DEF Idle
  <2>3. CASE hook'[h] = [kind |-> hook[h].kind, refs |-> hook[h].refs, at |-> hook[h].at + 1]
    BY <1>1, <2>3 DEF RefsOK
  <2>4. ASSUME NEW refs, NEW kind \in {"answer", "pointer"},
               hook'[h] = [kind |-> kind, refs |-> refs, at |-> 1],
               \E ref \in HintRefs : refs = {ref}
        PROVE  Holds(hook'[h])
    BY <2>4
  <2>5. ASSUME NEW refs, NEW kind \in {"notice", "briefing"},
               hook'[h] = [kind |-> kind, refs |-> refs, at |-> 1],
               \A id \in refs : Mine(id)
        PROVE  Holds(hook'[h])
    BY <1>1, <2>5
  <2> QED
    BY <2>1, <2>2, <2>3, <2>4, <2>5, HookMoves
<1>3. ASSUME NEW r \in spool', "told" \in DOMAIN r, NEW id \in r.told
      PROVE  Mine(id)'
  <2>1. r \in spool \/ \E h \in Hooks : SpoolStep(h) /\ r = Record(h)
    BY DEF Next, vars, state, QuestionStep, NoticeStep, Connector, Tick, Flush, HookStep,
       Prompt, SessionStart, DeferredBriefing, SpoolStep, AddToSpool, ClaimStep, Ship, Emit, Kill
  <2>2. CASE r \in spool
    BY <1>1, <1>3, <2>2 DEF RefsOK
  <2>3. ASSUME NEW h \in Hooks, r = Record(h) PROVE Mine(id)'
    BY <1>1, <1>3, <2>3 DEF RefsOK, Record
  <2> QED
    BY <2>1, <2>2, <2>3
<1>4. HintRefs' = HintRefs
  BY DEF HintRefs
<1> QED
  BY <1>2, <1>3, <1>4 DEF RefsOK

\* Rows only become told: a told one is not refreshed, and a commit that is filed
\* again has a new number.
LEMMA ToldStays ==
  ASSUME RowsOK, [Next]_vars, NEW id, Told(id)
  PROVE  Told(id)'
<1>1. Mine(id) /\ Mine(id)'
  BY MineStays DEF Told
<1> SUFFICES ASSUME NEW new \in rows', IdOf(new) = id
             PROVE  new.told
  BY <1>1 DEF Told, IdOf
<1>2. \A row \in rows : IdOf(row) = id => row.told
  BY DEF Told
<1>3. CASE rows' \subseteq rows
  BY <1>2, <1>3
<1>4. ASSUME NEW r, rows' = Marked(Me, r.told) PROVE new.told
  <2>1. PICK f : /\ \A row \in rows : Successor(row, f[row]) /\ (row.told => f[row].told)
                 /\ Marked(Me, r.told) = {f[row] : row \in rows}
    BY MarkedRows
  <2>2. PICK row \in rows : new = f[row]
    BY <1>4, <2>1
  <2>3. IdOf(row) = id
    BY <2>1, <2>2 DEF Successor, IdOf
  <2> QED
    BY <1>2, <2>1, <2>2, <2>3
<1>5. ASSUME NEW stop \in stops, IngestStop(stop) PROVE new.told
  <2>1. PICK f : /\ \A row \in Kept : Successor(row, f[row]) /\ (row.told => f[row] = row)
                 /\ rows' = {f[row] : row \in Kept} \cup {Filed(stop, c) : c \in Fresh(stop)}
    BY <1>5, IngestedRows
  <2>2. ASSUME NEW row \in Kept, new = f[row] PROVE new.told
    <3>1. IdOf(row) = id /\ row \in rows
      BY <2>1, <2>2 DEF Successor, IdOf, Kept
    <3> QED
      BY <1>2, <2>1, <2>2, <3>1
  <2>3. ASSUME NEW c, new = Filed(stop, c) PROVE FALSE
    <3>1. id[3] = filings + 1
      BY <2>3 DEF Filed, IdOf
    <3>2. id[3] <= filings /\ filings \in Nat
      BY <1>1 DEF Mine, RowsOK
    <3> QED
      BY <3>1, <3>2
  <2> QED
    BY <2>1, <2>2, <2>3
<1>6. \/ rows' \subseteq rows
      \/ \E r : rows' = Marked(Me, r.told)
      \/ \E stop \in stops : IngestStop(stop)
  <2>1. CASE NoticeStep
    BY <2>1 DEF NoticeStep, Stop, StopArrives, PruneNotices, Kept
  <2>2. CASE ~NoticeStep
    BY <2>2 DEF Next, vars, hub, noticeVars, QuestionStep, Tick, Flush, HookStep, Prompt,
       SessionStart, DeferredBriefing, SpoolStep, ClaimStep, Ship, Emit, Kill, Hear
  <2> QED
    BY <2>1, <2>2
<1> QED
  BY <1>3, <1>4, <1>5, <1>6

\* What a record names, the hub has on its books once it heard it.
LEMMA HearReports ==
  ASSUME RowsOK, NEW r, Hear(r), filings' = filings, NEW ref,
         "told" \in DOMAIN r => ref \in r.told /\ Mine(ref),
         "told" \notin DOMAIN r => ref \in r.refs
  PROVE  (\E d \in handed' : d.ref = ref) \/ Told(ref)'
<1>1. CASE "told" \notin DOMAIN r
  <2>1. handed' = handed \cup {[session |-> r.session, ref |-> x] : x \in r.refs}
    BY <1>1 DEF Hear
  <2>2. [session |-> r.session, ref |-> ref] \in handed'
    BY <1>1, <2>1
  <2> QED
    BY <2>2
<1>2. CASE "told" \in DOMAIN r
  <2>1. Mine(ref)'
    BY <1>2 DEF Mine
  <2>2. PICK f : /\ \A row \in rows : Successor(row, f[row])
                 /\ Marked(Me, r.told) = {f[row] : row \in rows}
                 /\ \A row \in rows :
                       AuthorOf[row.commit] = Me /\ IdOf(row) \in r.told => f[row].told
    BY MarkedRows
  <2>3. ASSUME NEW new \in rows', IdOf(new) = ref PROVE new.told
    <3>1. PICK row \in rows : new = f[row]
      BY <1>2, <2>2 DEF Hear
    <3>2. IdOf(row) = ref
      BY <2>2, <2>3, <3>1 DEF Successor, IdOf
    <3>3. AuthorOf[row.commit] = Me
      BY <1>2, <3>2 DEF Mine, IdOf
    <3> QED
      BY <1>2, <2>2, <3>1, <3>2, <3>3
  <2> QED
    BY <2>1, <2>3 DEF Told, IdOf
<1> QED
  BY <1>1, <1>2

\* A record leaves the spool only once the hub has heard it.
LEMMA ReportedStays ==
  ASSUME NoticesInv, RowsOK, RefsOK, [Next]_vars, NEW ref, Reported(ref)
  PROVE  Reported(ref)'
<1>1. CASE \E d \in handed : d.ref = ref
  <2>1. handed \subseteq handed'
    BY DEF Next, vars, hub, QuestionStep, NoticeStep, Connector, Tick, Flush, HookStep,
       Prompt, SessionStart, DeferredBriefing, SpoolStep, ClaimStep, Ship, Emit, Kill, Hear
  <2> QED
    BY <1>1, <2>1 DEF Reported
<1>2. CASE Told(ref)
  BY <1>2, ToldStays DEF Reported
<1>3. ASSUME NEW r \in spool, ref \in IF "told" \in DOMAIN r THEN r.told ELSE r.refs
      PROVE  Reported(ref)'
  <2>1. CASE r \in spool'
    BY <1>3, <2>1 DEF Reported
  <2>2. CASE r \notin spool'
    <3>1. CASE Flush
      <4>1. Hear(r) /\ filings' = filings
        BY <2>2, <3>1 DEF Flush
      <4>2. "told" \in DOMAIN r => Mine(ref)
        BY <1>3 DEF RefsOK
      <4> QED
        BY <1>3, <4>1, <4>2, HearReports DEF Reported
    <3>2. CASE ~Flush
      BY <2>2, <3>2 DEF Next, vars, QuestionStep, NoticeStep, Connector, Tick, HookStep,
         Prompt, SessionStart, DeferredBriefing, SpoolStep, AddToSpool, ClaimStep, Ship, Emit,
         Kill
    <3> QED
      BY <3>1, <3>2
  <2> QED
    BY <2>1, <2>2
<1> QED
  BY <1>1, <1>2, <1>3 DEF Reported

\* Past its spool step, every hook; and a notice's claim comes before it.
LEMMA SpooledAt ==
  ASSUME HooksOK, NEW h \in Hooks
  PROVE  /\ At(h, "ship") \/ At(h, "emit") => Spooled(h)
         /\ At(h, "claim") => Spooled(h) \/ (hook[h].kind = "notice" /\ hook[h].at = 1)
<1>1. hook[h] # Idle => /\ hook[h].at \in Steps(hook[h].kind)
                        /\ hook[h].kind \in {"answer", "notice", "pointer", "briefing"}
  BY DEF HooksOK
<1>2. CASE hook[h].kind = "answer"
  BY <1>1, <1>2 DEF At, Steps, Path, Spooled
<1>3. CASE hook[h].kind = "notice"
  BY <1>1, <1>3 DEF At, Steps, Path, Spooled
<1>4. CASE hook[h].kind \in {"pointer", "briefing"}
  BY <1>1, <1>4 DEF At, Steps, Path, Spooled
<1> QED
  BY <1>1, <1>2, <1>3, <1>4 DEF At

LEMMA OwedPreserved ==
  ASSUME NoticesInv, QuestionsInv, RowsOK, RefsOK, OwedInv, [Next]_vars
  PROVE  OwedInv'
<1>1. \A ref : Reported(ref) => Reported(ref)'
  BY ReportedStays
<1>2. HooksOK
  BY DEF NoticesInv
<1>3. dropped \subseteq dropped'
  BY DEF Next, vars, history, QuestionStep, NoticeStep, Connector, Tick, Flush, HookStep,
     Prompt, SessionStart, DeferredBriefing, SpoolStep, ClaimStep, Ship, Emit, Kill
<1>4. ASSUME NEW ref \in seen' \ dropped' PROVE Reported(ref)'
  <2>1. CASE ref \in seen
    BY <1>1, <1>3, <1>4, <2>1 DEF OwedInv
  <2>2. ASSUME NEW h \in Hooks, Emit(h), ref \in hook[h].refs PROVE Reported(ref)'
    <3>1. Spooled(h)
      BY <1>2, <2>2, SpooledAt DEF Emit
    <3> QED
      BY <1>1, <1>3, <1>4, <2>2, <3>1 DEF OwedInv
  <2>3. ref \in seen \/ \E h \in Hooks : Emit(h) /\ ref \in hook[h].refs
    BY <1>4 DEF Next, vars, history, QuestionStep, NoticeStep, Connector, Tick, Flush, HookStep,
       Prompt, SessionStart, DeferredBriefing, SpoolStep, ClaimStep, Ship, Emit, Kill
  <2> QED
    BY <2>1, <2>2, <2>3
<1>5. ASSUME NEW h \in Hooks, Spooled(h)', NEW ref \in hook'[h].refs \ dropped'
      PROVE  Reported(ref)'
  <2>1. CASE hook'[h].refs = hook[h].refs /\ Spooled(h)
    BY <1>1, <1>3, <1>5, <2>1 DEF OwedInv
  <2>2. CASE hook'[h] = hook[h]
    BY <1>5, <2>1, <2>2 DEF Spooled
  <2>3. CASE hook'[h] = Idle
    BY <1>5, <2>3 DEF Idle
  <2>4. ASSUME NEW kind, NEW refs, hook'[h] = [kind |-> kind, refs |-> refs, at |-> 1]
        PROVE  FALSE
    BY <1>5, <2>4 DEF Spooled
  <2>5. ASSUME hook'[h] = [kind |-> hook[h].kind, refs |-> hook[h].refs, at |-> hook[h].at + 1],
               SpoolStep(h)
        PROVE  Reported(ref)'
    <3>1. ref \in hook[h].refs /\ ref \notin dropped'
      BY <1>5, <2>5
    <3>2. Record(h) \in spool'
      BY <2>5, <3>1 DEF SpoolStep, AddToSpool
    <3>3. ref \in IF "told" \in DOMAIN Record(h) THEN Record(h).told ELSE Record(h).refs
      BY <3>1 DEF Record
    <3> QED
      BY <3>2, <3>3 DEF Reported
  <2>6. ASSUME hook'[h] = [kind |-> hook[h].kind, refs |-> hook[h].refs, at |-> hook[h].at + 1],
               ClaimStep(h) \/ Ship(h)
        PROVE  Reported(ref)'
    <3>1. At(h, "claim") \/ At(h, "ship")
      BY <2>6 DEF ClaimStep, Ship
    <3>2. Spooled(h)
      BY <1>2, <1>5, <2>6, <3>1, SpooledAt DEF Spooled
    <3> QED
      BY <2>1, <2>6, <3>2
  <2> QED
    BY <2>2, <2>3, <2>4, <2>5, <2>6, HookMoves
<1> QED
  BY <1>4, <1>5 DEF OwedInv

SeenInv == NoticesInv /\ QuestionsInv /\ RowsOK /\ RefsOK /\ OwedInv

\* What was printed for Me, in any session, the hub knows or is owed, unless the
\* spool refused the record (bookHintDelivery, bookLandedNotice).
THEOREM SeenIsReported == Spec => []SeenIsOwed
<1>1. Init => SeenInv
  <2>1. Init => RefsOK /\ OwedInv
    BY DEF Init, RefsOK, OwedInv, Spooled, Idle
  <2> QED
    BY <2>1, NoticesInitially, QuestionsInitially, RowsInitially DEF SeenInv
<1>2. SeenInv /\ [Next]_vars => SeenInv'
  BY NoticesPreserved, QuestionsPreserved, RowsPreserved, RefsPreserved, OwedPreserved
     DEF SeenInv
<1>3. SeenInv => SeenIsOwed
  <2> SUFFICES ASSUME SeenInv, NEW ref \in seen \ dropped PROVE Owed(ref)
    BY DEF SeenIsOwed
  <2>1. Reported(ref)
    BY DEF SeenInv, OwedInv
  <2> QED
    BY <2>1, MineIsNoHint DEF Reported, Told, Owed
<1> QED
  BY <1>1, <1>2, <1>3, PTL DEF Spec

----------------------------------------------------------------------------
(* No session prints anything twice.                                       *)

\* Past the step that remembers in the session's state what the hook holds.
Claimed(h) ==
    \/ hook[h].kind = "answer" /\ hook[h].at \in 3..4
    \/ hook[h].kind = "notice" /\ hook[h].at \in 2..4
    \/ hook[h].kind \in {"pointer", "briefing"} /\ hook[h].at = 3

\* The state of the session remembers these as handed out.
Remembers(s, refs) == refs \cap HintRefs \subseteq slots[s] /\ refs \ HintRefs \subseteq shown[s]

HooksOf(s) == {h \in Hooks : SessionOf[h] = s}

\* A prompt of the session took these up while its debt stood.
Excused(s, refs) == \A ref \in refs : <<s, ref>> \in early

\* What its hooks have claimed, and what it printed, is remembered, and no two of
\* these share a notice or hint.  A briefing, which checks nothing, is alone, and
\* what was printed before it was taken up while the debt stood.
OnceIn(s) ==
    /\ \A p \in twice : p[1] = s => p \in early
    /\ Remembers(s, here[s])
    /\ owed[s] => Excused(s, here[s]) /\ \A h \in HooksOf(s) : Excused(s, hook[h].refs)
    /\ \A h \in HooksOf(s) :
          Claimed(h) => Remembers(s, hook[h].refs) /\ Excused(s, hook[h].refs \cap here[s])
    /\ \A h, k \in HooksOf(s) :
          Claimed(h) /\ Claimed(k) /\ h # k => hook[h].refs \cap hook[k].refs = {}
    /\ \A h \in HooksOf(s) : hook[h].kind = "briefing" =>
          /\ ~owed[s] /\ Excused(s, here[s])
          /\ \A k \in HooksOf(s) \ {h} : hook[k] = Idle

StateOK ==
    /\ DOMAIN slots = Sessions /\ DOMAIN shown = Sessions
    /\ DOMAIN owed = Sessions /\ DOMAIN here = Sessions
    /\ \A p \in twice : p[1] \in Sessions

OnceInv == StateOK /\ \A s \in Sessions \ blurred : OnceIn(s)

LEMMA OnceInitially == Init => OnceInv
BY DEF Init, OnceInv, StateOK, OnceIn, HooksOf, Remembers, Claimed, Excused, Idle

\* Where hooks stand, by whether they have claimed.
LEMMA ClaimedAt ==
  ASSUME HooksOK, NEW h \in Hooks
  PROVE  /\ At(h, "ship") \/ At(h, "emit") => Claimed(h)
         /\ At(h, "spool") /\ ~Claimed(h) =>
               \/ hook[h].kind = "answer" /\ hook[h].at = 1
               \/ hook[h].kind \in {"pointer", "briefing"} /\ hook[h].at = 1
<1>1. hook[h] # Idle => /\ hook[h].at \in Steps(hook[h].kind)
                        /\ hook[h].kind \in {"answer", "notice", "pointer", "briefing"}
  BY DEF HooksOK
<1>2. CASE hook[h].kind = "answer"
  BY <1>1, <1>2 DEF At, Steps, Path, Claimed
<1>3. CASE hook[h].kind = "notice"
  BY <1>1, <1>3 DEF At, Steps, Path, Claimed
<1>4. CASE hook[h].kind \in {"pointer", "briefing"}
  BY <1>1, <1>4 DEF At, Steps, Path, Claimed
<1> QED
  BY <1>1, <1>2, <1>3, <1>4 DEF At

\* A hook leaves, or goes on with what it holds without claiming it.
Carries(h) ==
    \/ hook'[h] = Idle
    \/ /\ hook'[h].kind = hook[h].kind /\ hook'[h].refs = hook[h].refs
       /\ Claimed(h)' => Claimed(h)
       /\ hook[h] = Idle => hook'[h] = Idle

\* A session of which nothing was printed, claimed or begun.
LEMMA Undisturbed ==
  ASSUME NEW s \in Sessions, OnceIn(s), here'[s] = here[s],
         \A p : p[1] = s => (p \in twice' => p \in twice) /\ (p \in early => p \in early'),
         slots[s] \subseteq slots'[s], shown[s] \subseteq shown'[s], owed'[s] = owed[s],
         \A h \in HooksOf(s) : Carries(h)
  PROVE  OnceIn(s)'
<1>1. \A refs : Remembers(s, refs) => Remembers(s, refs)'
  BY DEF Remembers, HintRefs
<1>2. ASSUME NEW h \in HooksOf(s), Claimed(h)'
      PROVE  Claimed(h) /\ hook'[h].refs = hook[h].refs
  BY <1>2 DEF Carries, Claimed, Idle
<1>3. ASSUME NEW h \in HooksOf(s), hook[h] = Idle PROVE hook'[h] = Idle
  BY <1>3 DEF Carries
<1>4. ASSUME NEW h \in HooksOf(s), hook'[h].kind = "briefing" PROVE hook[h].kind = "briefing"
  BY <1>4 DEF Carries, Idle
<1>5. Remembers(s, here[s])'
  BY <1>1 DEF OnceIn
<1>11. ASSUME NEW refs, Excused(s, refs) PROVE \A ref \in refs : <<s, ref>> \in early'
  BY <1>11 DEF Excused
<1>6. owed'[s] => /\ \A ref \in here'[s] : <<s, ref>> \in early'
                  /\ \A h \in HooksOf(s) : \A ref \in hook'[h].refs : <<s, ref>> \in early'
  <2>1. ASSUME owed'[s] PROVE \A ref \in here'[s] : <<s, ref>> \in early'
    BY <1>11, <2>1 DEF OnceIn
  <2>2. ASSUME owed'[s], NEW h \in HooksOf(s)
        PROVE  \A ref \in hook'[h].refs : <<s, ref>> \in early'
    <3>1. Excused(s, hook[h].refs)
      BY <2>2 DEF OnceIn
    <3>2. hook'[h].refs = {} \/ hook'[h].refs = hook[h].refs
      BY DEF Carries, Idle
    <3> QED
      BY <1>11, <3>1, <3>2
  <2> QED
    BY <2>1, <2>2
<1>7. ASSUME NEW h \in HooksOf(s), Claimed(h)'
      PROVE  /\ Remembers(s, hook[h].refs)'
             /\ \A ref \in hook'[h].refs \cap here'[s] : <<s, ref>> \in early'
  <2>1. Remembers(s, hook[h].refs) /\ Excused(s, hook[h].refs \cap here[s])
    BY <1>2, <1>7 DEF OnceIn
  <2> QED
    BY <1>2, <1>7, <1>11, <2>1 DEF Remembers, HintRefs
<1>8. ASSUME NEW h \in HooksOf(s), NEW k \in HooksOf(s), Claimed(h)', Claimed(k)', h # k
      PROVE  hook'[h].refs \cap hook'[k].refs = {}
  BY <1>2, <1>8 DEF OnceIn
<1>9. ASSUME NEW h \in HooksOf(s), hook'[h].kind = "briefing"
      PROVE  /\ ~owed'[s] /\ \A ref \in here'[s] : <<s, ref>> \in early'
             /\ \A k \in HooksOf(s) \ {h} : hook'[k] = Idle
  BY <1>3, <1>4, <1>9, <1>11 DEF OnceIn
<1>10. \A p \in twice' : p[1] = s => p \in early'
  BY DEF OnceIn
<1> QED
  BY <1>5, <1>6, <1>7, <1>8, <1>9, <1>10 DEF OnceIn, HooksOf, Excused

\* The check of the check-and-set keeps out whatever the session remembers.
LEMMA MayClaimIsNew ==
  ASSUME RefsOK, NEW h \in Hooks, hook[h].kind \in {"answer", "notice", "pointer"},
         MayClaim(h), NEW refs, Remembers(SessionOf[h], refs)
  PROVE  hook[h].refs \cap refs = {}
<1>1. CASE hook[h].kind = "notice"
  <2>1. hook[h].refs \cap HintRefs = {}
    BY <1>1, MineIsNoHint DEF RefsOK
  <2> QED
    BY <1>1, <2>1 DEF MayClaim, Remembers
<1>2. CASE hook[h].kind \in {"answer", "pointer"}
  <2>1. PICK ref \in HintRefs : hook[h].refs = {ref}
    BY <1>2 DEF RefsOK
  <2>2. SlotOf(hook[h].refs) = ref
    BY <2>1 DEF SlotOf
  <2> QED
    BY <2>1, <2>2 DEF MayClaim, Remembers
<1> QED
  BY <1>1, <1>2

\* A claim remembers all that the hook holds, and forgets nothing.
LEMMA RememberClaims ==
  ASSUME RefsOK, HooksOK, StateOK, NEW h \in Hooks, hook[h] # Idle, Remember(h)
  PROVE  /\ hook[h].refs \cap HintRefs \subseteq slots'[SessionOf[h]]
         /\ hook[h].refs \ HintRefs \subseteq shown'[SessionOf[h]]
         /\ \A s \in Sessions : slots[s] \subseteq slots'[s] /\ shown[s] \subseteq shown'[s]
<1> DEFINE s == SessionOf[h]
<1>1. s \in Sessions /\ DOMAIN slots = Sessions /\ DOMAIN shown = Sessions
  BY DeliveryAssumption DEF StateOK
<1>2. \A t \in Sessions : slots[t] \subseteq slots'[t] /\ shown[t] \subseteq shown'[t]
  BY <1>1 DEF Remember
<1>3. CASE hook[h].kind \in {"notice", "briefing"}
  <2>1. hook[h].refs \cap HintRefs = {}
    BY <1>3, MineIsNoHint DEF RefsOK
  <2>2. shown'[s] = shown[s] \cup hook[h].refs
    BY <1>1, <1>3 DEF Remember
  <2> QED
    BY <1>2, <2>1, <2>2
<1>4. CASE hook[h].kind \in {"answer", "pointer"}
  <2>1. PICK ref \in HintRefs : hook[h].refs = {ref}
    BY <1>4 DEF RefsOK
  <2>2. SlotOf(hook[h].refs) = ref
    BY <2>1 DEF SlotOf
  <2>3. slots'[s] = slots[s] \cup {ref}
    BY <1>1, <1>4, <2>2 DEF Remember
  <2> QED
    BY <1>2, <2>1, <2>3
<1> QED
  BY <1>2, <1>3, <1>4 DEF HooksOK

\* A prompt takes up work beside no briefing, excused while the debt stands.
LEMMA PromptOnce ==
  ASSUME HooksOK, NEW h \in Hooks, Prompt(h), NEW s \in Sessions \ blurred', OnceIn(s)
  PROVE  OnceIn(s)'
<1>1. /\ UNCHANGED <<state, here, twice>> /\ hook[h] = Idle
      /\ \E kind \in {"answer", "notice", "pointer"} : \E refs : Pick(h, kind, refs)
  BY DEF Prompt, Free
<1>2. PICK kind \in {"answer", "notice", "pointer"} : \E refs : Pick(h, kind, refs)
  BY <1>1
<1>3. PICK refs : Pick(h, kind, refs)
  BY <1>2
<1>4. /\ hook' = [hook EXCEPT ![h] = [kind |-> kind, refs |-> refs, at |-> 1]]
      /\ Blur(h, kind)
      /\ early \subseteq early'
      /\ owed[SessionOf[h]] => \A ref \in refs : <<SessionOf[h], ref>> \in early'
  BY <1>3 DEF Pick, Take
<1>5. CASE SessionOf[h] # s
  <2>1. \A k \in HooksOf(s) : hook'[k] = hook[k]
    BY <1>4, <1>5 DEF HooksOf, HooksOK
  <2>2. \A k \in HooksOf(s) : Carries(k)
    BY <2>1 DEF Carries, Claimed
  <2> QED
    BY <1>1, <1>4, <2>2, Undisturbed DEF state
<1>6. CASE SessionOf[h] = s
  <2>1. \A k \in HooksOf(s) \ {h} : hook'[k] = hook[k] /\ (Claimed(k)' <=> Claimed(k))
    BY <1>4 DEF HooksOf, HooksOK, Claimed
  <2>2. hook'[h].kind = kind /\ hook'[h].refs = refs /\ hook'[h].at = 1 /\ ~Claimed(h)'
    BY <1>4 DEF HooksOK, Claimed
  <2>3. \A k \in HooksOf(s) : hook'[k].kind # "briefing"
    <3>1. ~Races(h, kind)
      BY <1>4, <1>6 DEF Blur
    <3>2. \A k \in HooksOf(s) \ {h} : hook[k].kind # "briefing"
      BY <1>6, <3>1 DEF Races, Siblings, HooksOf, Idle
    <3> QED
      BY <2>1, <2>2, <3>2
  <2>4. \A held : Remembers(s, held) => Remembers(s, held)'
    BY <1>1 DEF state, Remembers, HintRefs
  <2>5. \A k \in HooksOf(s) : Claimed(k)' => Claimed(k) /\ hook'[k] = hook[k]
    BY <2>1, <2>2
  <2>6. \A held : Excused(s, held) => \A ref \in held : <<s, ref>> \in early'
    BY <1>4 DEF Excused
  <2>7. owed'[s] => /\ \A ref \in here'[s] : <<s, ref>> \in early'
                    /\ \A k \in HooksOf(s) : \A ref \in hook'[k].refs : <<s, ref>> \in early'
    <3>1. SUFFICES ASSUME owed[s], NEW k \in HooksOf(s)
          PROVE  /\ \A ref \in here[s] : <<s, ref>> \in early'
                 /\ \A ref \in hook'[k].refs : <<s, ref>> \in early'
      BY <1>1, <1>6 DEF state, HooksOf
    <3>2. Excused(s, here[s]) /\ Excused(s, hook[k].refs)
      BY <3>1 DEF OnceIn
    <3> QED
      BY <1>4, <1>6, <2>1, <2>2, <2>6, <3>1, <3>2
  <2>8. ASSUME NEW k \in HooksOf(s), Claimed(k)'
        PROVE  /\ Remembers(s, hook[k].refs)'
               /\ \A ref \in hook'[k].refs \cap here'[s] : <<s, ref>> \in early'
    <3>1. Claimed(k) /\ hook'[k] = hook[k]
      BY <2>5, <2>8
    <3>2. Remembers(s, hook[k].refs) /\ Excused(s, hook[k].refs \cap here[s])
      BY <3>1 DEF OnceIn
    <3> QED
      BY <1>1, <2>4, <2>6, <3>1, <3>2 DEF Remembers, HintRefs
  <2>9. \A j, k \in HooksOf(s) :
            Claimed(j)' /\ Claimed(k)' /\ j # k => hook'[j].refs \cap hook'[k].refs = {}
    BY <2>5 DEF OnceIn
  <2>10. Remembers(s, here[s])'
    BY <1>1, <2>4 DEF OnceIn, Remembers, HintRefs
  <2>11. \A p \in twice' : p[1] = s => p \in early'
    BY <1>1, <1>4 DEF OnceIn
  <2> QED
    BY <2>3, <2>7, <2>8, <2>9, <2>10, <2>11 DEF OnceIn, HooksOf, Excused
<1> QED
  BY <1>5, <1>6

\* A briefing that is taken up alone, in a session that has printed nothing but
\* while its debt stood.
LEMMA AloneOnce ==
  ASSUME HooksOK, StateOK, NEW h \in Hooks, NEW s \in Sessions, s = SessionOf[h],
         \A p \in twice' : p[1] = s => p \in early',
         Remembers(s, here[s])', Excused(s, here[s])', owed'[s] = FALSE,
         \A k \in HooksOf(s) \ {h} : hook[k] = Idle,
         \/ hook' = hook /\ hook[h] = Idle
         \/ \E refs : Take(h, "briefing", refs)
  PROVE  OnceIn(s)'
<1>1. \A k \in HooksOf(s) \ {h} : hook'[k] = Idle
  BY DEF Take, HooksOf, HooksOK
<1>3. hook'[h] = Idle \/ (hook'[h].kind = "briefing" /\ hook'[h].at = 1)
  BY DEF Take, HooksOK
<1>4. \A k \in HooksOf(s) : ~Claimed(k)'
  BY <1>1, <1>3 DEF Claimed, Idle
<1>6. \A k \in HooksOf(s) : hook'[k].kind = "briefing" =>
          \A j \in HooksOf(s) \ {k} : hook'[j] = Idle
  BY <1>1, <1>3 DEF Idle
<1>8. h \in HooksOf(s)
  BY DEF HooksOf
<1> QED
  BY <1>4, <1>6 DEF OnceIn, HooksOf, Excused

LEMMA BriefingOnce ==
  ASSUME HooksOK, StateOK, NEW h \in Hooks, SessionStart(h) \/ DeferredBriefing(h),
         NEW s \in Sessions \ blurred', OnceIn(s)
  PROVE  OnceIn(s)'
<1>1. /\ hook[h] = Idle /\ SessionOf[h] \in Sessions
      /\ hook' = hook \/ \E refs : Take(h, "briefing", refs)
  BY DeliveryAssumption DEF SessionStart, DeferredBriefing, Free
<1>2. CASE SessionOf[h] # s
  <2>1. \A k \in HooksOf(s) : Carries(k)
    BY <1>1, <1>2 DEF HooksOf, HooksOK, Take, Carries, Claimed
  <2>2. /\ here'[s] = here[s] /\ slots'[s] = slots[s] /\ shown'[s] = shown[s]
        /\ owed'[s] = owed[s]
    BY <1>1, <1>2 DEF SessionStart, DeferredBriefing, StateOK
  <2>3. \A p : p[1] = s => (p \in twice' => p \in twice) /\ (p \in early => p \in early')
    BY <1>2 DEF SessionStart, DeferredBriefing
  <2> QED
    BY <1>1, <2>1, <2>2, <2>3, Undisturbed
<1>3. CASE SessionOf[h] = s /\ SessionStart(h)
  <2>1. here'[s] = {} /\ owed'[s] = FALSE /\ \A p \in twice' : p[1] # s
    BY <1>1, <1>3 DEF SessionStart, StateOK
  <2>2. \A k \in HooksOf(s) \ {h} : hook[k] = Idle
    BY <1>3 DEF SessionStart, Siblings, HooksOf
  <2>3. Remembers(s, here[s])' /\ Excused(s, here[s])'
    BY <2>1 DEF Remembers, Excused, HintRefs
  <2> QED
    BY <1>1, <1>3, <2>1, <2>2, <2>3, AloneOnce
<1>4. CASE SessionOf[h] = s /\ DeferredBriefing(h)
  <2>1. owed[s] /\ owed'[s] = FALSE /\ UNCHANGED <<slots, shown, here, twice, early>>
    BY <1>1, <1>4 DEF DeferredBriefing, StateOK
  <2>2. \A k \in HooksOf(s) \ {h} : hook[k] = Idle
    <3>1. ~Races(h, "briefing")
      BY <1>4 DEF DeferredBriefing, Blur
    <3> QED
      BY <1>4, <3>1 DEF Races, Siblings, HooksOf
  <2>3. Excused(s, here[s])
    BY <2>1 DEF OnceIn
  <2>4. Remembers(s, here[s])' /\ Excused(s, here[s])'
    BY <2>1, <2>3 DEF OnceIn, Remembers, Excused, HintRefs
  <2>5. \A p \in twice' : p[1] = s => p \in early'
    BY <2>1 DEF OnceIn
  <2> QED
    BY <1>1, <1>4, <2>1, <2>2, <2>4, <2>5, AloneOnce
<1> QED
  BY <1>2, <1>3, <1>4

\* Its hooks' other steps leave a session alone, or carry what they hold.
LEMMA CarriesOn ==
  ASSUME HooksOK, NEW h \in Hooks,
         \/ Leave(h)
         \/ Go(h) /\ (At(h, "spool") \/ At(h, "ship"))
  PROVE  \A k \in Hooks : Carries(k)
<1>1. CASE Leave(h)
  BY <1>1 DEF Leave, Carries, HooksOK, Claimed
<1>2. CASE Go(h) /\ (At(h, "spool") \/ At(h, "ship"))
  <2>1. hook' = [hook EXCEPT ![h] = [kind |-> hook[h].kind, refs |-> hook[h].refs,
                                     at |-> hook[h].at + 1]]
    BY <1>2, GoMoves
  <2>2. Claimed(h)' => Claimed(h)
    BY <1>2, <2>1, ClaimedAt DEF HooksOK, Claimed
  <2>3. \A k \in Hooks \ {h} : Carries(k)
    BY <2>1 DEF HooksOK, Carries, Claimed
  <2>4. Carries(h)
    BY <1>2, <2>1, <2>2 DEF HooksOK, Carries, At
  <2> QED
    BY <2>3, <2>4
<1> QED
  BY <1>1, <1>2

\* A claim that is won holds nothing the session has printed, or another claimed.
LEMMA WonOnce ==
  ASSUME HooksOK, StateOK, RefsOK, NEW h \in Hooks, At(h, "claim"), Go(h), Remember(h),
         hook[h].kind = "briefing" \/ MayClaim(h),
         UNCHANGED <<owed, here, twice, early>>, NEW s \in Sessions, OnceIn(s)
  PROVE  OnceIn(s)'
<1>1. hook' = [hook EXCEPT ![h] = [kind |-> hook[h].kind, refs |-> hook[h].refs,
                                   at |-> hook[h].at + 1]]
  BY GoMoves
<1>2. hook[h] # Idle /\ hook[h].kind \in {"answer", "notice", "pointer", "briefing"}
  BY DEF At, HooksOK
<1>3. /\ \A t \in Sessions : slots[t] \subseteq slots'[t] /\ shown[t] \subseteq shown'[t]
      /\ hook[h].refs \cap HintRefs \subseteq slots'[SessionOf[h]]
      /\ hook[h].refs \ HintRefs \subseteq shown'[SessionOf[h]]
  BY <1>2, RememberClaims
<1>4. CASE SessionOf[h] # s
  <2>1. \A k \in HooksOf(s) : Carries(k)
    BY <1>1, <1>4 DEF HooksOf, HooksOK, Carries, Claimed
  <2> QED
    BY <1>3, <2>1, Undisturbed
<1>5. CASE SessionOf[h] = s
  <2>1. \A k \in HooksOf(s) \ {h} : hook'[k] = hook[k] /\ (Claimed(k)' <=> Claimed(k))
    BY <1>1 DEF HooksOf, HooksOK, Claimed
  <2>2. hook'[h].refs = hook[h].refs /\ hook'[h].kind = hook[h].kind /\ h \in HooksOf(s)
    BY <1>1, <1>5 DEF HooksOK, HooksOf
  <2>3. \A held : Excused(s, held)' <=> Excused(s, held)
    BY DEF Excused
  <2>4. \A held : Remembers(s, held) => Remembers(s, held)'
    BY <1>3 DEF Remembers, HintRefs
  <2>5. \A ref \in hook[h].refs \cap here[s] : <<s, ref>> \in early
    <3>1. CASE hook[h].kind = "briefing"
      <4>1. Excused(s, here[s])
        BY <2>2, <3>1 DEF OnceIn
      <4> QED
        BY <4>1 DEF Excused
    <3>2. CASE hook[h].kind # "briefing"
      <4>1. hook[h].refs \cap here[s] = {}
        BY <1>2, <1>5, <3>2, MayClaimIsNew DEF OnceIn
      <4> QED
        BY <4>1
    <3> QED
      BY <3>1, <3>2
  <2>6. ASSUME NEW k \in HooksOf(s) \ {h}, Claimed(k)
        PROVE  hook[h].refs \cap hook[k].refs = {}
    <3>1. CASE hook[h].kind = "briefing"
      BY <2>2, <2>6, <3>1 DEF OnceIn, Claimed, Idle
    <3>2. CASE hook[h].kind # "briefing"
      BY <1>2, <1>5, <2>6, <3>2, MayClaimIsNew DEF OnceIn
    <3> QED
      BY <3>1, <3>2
  <2>7. ASSUME NEW k \in HooksOf(s), Claimed(k)'
        PROVE  /\ Remembers(s, hook[k].refs)'
               /\ \A ref \in hook'[k].refs \cap here[s] : <<s, ref>> \in early
    <3>1. CASE k = h
      BY <1>3, <1>5, <2>2, <2>5, <3>1 DEF Remembers, HintRefs
    <3>2. CASE k # h
      <4>1. Claimed(k) /\ hook'[k] = hook[k]
        BY <2>1, <2>7, <3>2
      <4>2. /\ Remembers(s, hook[k].refs)
             /\ \A ref \in hook[k].refs \cap here[s] : <<s, ref>> \in early
        BY <4>1 DEF OnceIn, Excused
      <4> QED
        BY <2>4, <4>1, <4>2 DEF Remembers, HintRefs
    <3> QED
      BY <3>1, <3>2
  <2>8. ASSUME NEW j \in HooksOf(s), NEW k \in HooksOf(s), Claimed(j)', Claimed(k)', j # k
        PROVE  hook'[j].refs \cap hook'[k].refs = {}
    <3>1. CASE j = h
      BY <2>1, <2>2, <2>6, <2>8, <3>1
    <3>2. CASE k = h
      BY <2>1, <2>2, <2>6, <2>8, <3>2
    <3>3. CASE j # h /\ k # h
      BY <2>1, <2>8, <3>3 DEF OnceIn
    <3> QED
      BY <3>1, <3>2, <3>3
  <2>9. ASSUME NEW j \in HooksOf(s), hook'[j].kind = "briefing"
        PROVE  /\ ~owed'[s] /\ Excused(s, here[s])
               /\ \A k \in HooksOf(s) \ {j} : hook'[k] = Idle
    <3>1. hook[j].kind = "briefing"
      BY <2>1, <2>2, <2>9
    <3>2. ~owed[s] /\ Excused(s, here[s]) /\ \A k \in HooksOf(s) \ {j} : hook[k] = Idle
      BY <3>1 DEF OnceIn
    <3>3. j = h
      BY <1>2, <2>2, <3>2
    <3> QED
      BY <2>1, <3>2, <3>3
  <2>10. Remembers(s, here[s])'
    BY <2>4 DEF OnceIn, Remembers, HintRefs
  <2>11. owed'[s] => /\ Excused(s, here[s])
                     /\ \A k \in HooksOf(s) : \A ref \in hook'[k].refs : <<s, ref>> \in early
    <3>1. SUFFICES ASSUME owed[s], NEW k \in HooksOf(s)
          PROVE  /\ Excused(s, here[s])
                 /\ \A ref \in hook'[k].refs : <<s, ref>> \in early
      BY <2>2
    <3>2. Excused(s, here[s]) /\ Excused(s, hook[k].refs)
      BY <3>1 DEF OnceIn
    <3>3. hook'[k].refs = hook[k].refs
      BY <2>1, <2>2
    <3> QED
      BY <3>2, <3>3 DEF Excused
  <2>12. \A p \in twice' : p[1] = s => p \in early'
    BY DEF OnceIn
  <2> QED
    BY <2>7, <2>8, <2>9, <2>10, <2>11, <2>12 DEF OnceIn, HooksOf, Excused
<1> QED
  BY <1>4, <1>5

\* What is printed was claimed, so that no other hook of the session has it.
LEMMA EmitOnce ==
  ASSUME HooksOK, StateOK, NEW h \in Hooks, Emit(h), NEW s \in Sessions, OnceIn(s)
  PROVE  OnceIn(s)'
<1>1. /\ hook' = [hook EXCEPT ![h] = Idle] /\ hook[h] # Idle /\ Claimed(h)
      /\ UNCHANGED <<state, early>> /\ SessionOf[h] \in Sessions
  BY ClaimedAt, DeliveryAssumption DEF Emit, Leave, At
<1>2. CASE SessionOf[h] # s
  <2>1. \A k \in HooksOf(s) : Carries(k)
    BY <1>1, <1>2 DEF HooksOf, HooksOK, Carries, Claimed
  <2>2. here'[s] = here[s] /\ \A p : p[1] = s => (p \in twice' => p \in twice)
    BY <1>2 DEF Emit, StateOK
  <2> QED
    BY <1>1, <2>1, <2>2, Undisturbed DEF state
<1>3. CASE SessionOf[h] = s
  <2>1. h \in HooksOf(s) /\ hook'[h] = Idle
        /\ \A k \in HooksOf(s) \ {h} : hook'[k] = hook[k] /\ (Claimed(k)' <=> Claimed(k))
    BY <1>1, <1>3 DEF HooksOf, HooksOK, Claimed
  <2>2. /\ Remembers(s, hook[h].refs)
        /\ \A ref \in hook[h].refs \cap here[s] : <<s, ref>> \in early
    BY <1>1, <2>1 DEF OnceIn, Excused
  <2>3. /\ here'[s] = here[s] \cup hook[h].refs
        /\ \A p \in twice' : p[1] = s => p \in early'
    <3>1. here'[s] = here[s] \cup hook[h].refs
          /\ twice' = twice \cup ({s} \X (here[s] \cap hook[h].refs))
      BY <1>3 DEF Emit, StateOK
    <3>2. \A p \in twice : p[1] = s => p \in early
      BY DEF OnceIn
    <3> QED
      BY <1>1, <2>2, <3>1, <3>2
  <2>4. \A held : Remembers(s, held)' <=> held \cap HintRefs \subseteq slots[s]
                                          /\ held \ HintRefs \subseteq shown[s]
    BY <1>1 DEF Remembers, HintRefs, state
  <2>5. Remembers(s, here[s])'
    BY <1>1, <2>2, <2>3 DEF OnceIn, Remembers, HintRefs, state
  <2>6. ASSUME NEW k \in HooksOf(s), Claimed(k)'
        PROVE  k # h /\ Claimed(k) /\ hook'[k] = hook[k]
    BY <2>1, <2>6 DEF Claimed, Idle
  <2>7. ASSUME NEW k \in HooksOf(s), Claimed(k)'
        PROVE  /\ Remembers(s, hook[k].refs)'
               /\ \A ref \in hook'[k].refs \cap here'[s] : <<s, ref>> \in early'
    <3>1. /\ Remembers(s, hook[k].refs)
          /\ \A ref \in hook[k].refs \cap here[s] : <<s, ref>> \in early
          /\ hook[k].refs \cap hook[h].refs = {}
      BY <1>1, <2>1, <2>6, <2>7 DEF OnceIn, Excused
    <3> QED
      BY <1>1, <2>3, <2>6, <2>7, <3>1 DEF Remembers, HintRefs, state
  <2>8. \A j, k \in HooksOf(s) :
            Claimed(j)' /\ Claimed(k)' /\ j # k => hook'[j].refs \cap hook'[k].refs = {}
    BY <2>6 DEF OnceIn
  <2>9. \A k \in HooksOf(s) : hook'[k].kind # "briefing"
    <3>1. \A k \in HooksOf(s) \ {h} : hook[k].kind # "briefing"
      BY <1>1, <2>1 DEF OnceIn
    <3> QED
      BY <2>1, <3>1 DEF Idle
  <2>10. owed'[s] => /\ \A ref \in here'[s] : <<s, ref>> \in early'
                     /\ \A k \in HooksOf(s) : \A ref \in hook'[k].refs : <<s, ref>> \in early'
    <3>1. SUFFICES ASSUME owed[s], NEW k \in HooksOf(s)
          PROVE  /\ \A ref \in here'[s] : <<s, ref>> \in early'
                 /\ \A ref \in hook'[k].refs : <<s, ref>> \in early'
      BY <1>1, <2>1 DEF state
    <3>2. Excused(s, here[s]) /\ Excused(s, hook[h].refs) /\ Excused(s, hook[k].refs)
      BY <2>1, <3>1 DEF OnceIn
    <3>3. hook'[k].refs = {} \/ hook'[k].refs = hook[k].refs
      BY <2>1 DEF Idle
    <3> QED
      BY <1>1, <2>3, <3>2, <3>3 DEF Excused
  <2> QED
    BY <2>3, <2>5, <2>7, <2>8, <2>9, <2>10 DEF OnceIn, HooksOf, Excused
<1> QED
  BY <1>2, <1>3

LEMMA OncePreserved ==
  ASSUME NoticesInv, RefsOK, OnceInv, [Next]_vars
  PROVE  OnceInv'
<1>1. HooksOK /\ StateOK
  BY DEF NoticesInv, OnceInv
<1>2. StateOK'
  <2>1. \A h \in Hooks : SessionOf[h] \in Sessions
    BY DeliveryAssumption
  <2>2. ASSUME NEW h \in Hooks, HookStep(h) PROVE StateOK'
    BY <1>1, <2>1, <2>2 DEF StateOK, HookStep, Prompt, SessionStart, DeferredBriefing,
       SpoolStep, ClaimStep, Remember, Ship, Emit, Kill, state, history
  <2>3. CASE ~\E h \in Hooks : HookStep(h)
    BY <1>1, <2>3 DEF StateOK, Next, vars, QuestionStep, NoticeStep, Connector, Tick, Flush,
       state, history
  <2> QED
    BY <2>2, <2>3
<1>3. blurred \subseteq blurred'
  BY DEF Next, vars, history, QuestionStep, NoticeStep, Connector, Tick, Flush, HookStep,
     Prompt, Pick, SessionStart, DeferredBriefing, SpoolStep, ClaimStep, Ship, Emit, Kill, Blur
<1> SUFFICES ASSUME NEW s \in Sessions \ blurred' PROVE OnceIn(s)'
  BY <1>2 DEF OnceInv
<1>4. OnceIn(s)
  BY <1>3 DEF OnceInv
<1>5. ASSUME \A k \in HooksOf(s) : Carries(k), UNCHANGED <<state, here, twice, early>>
      PROVE  OnceIn(s)'
  BY <1>4, <1>5, Undisturbed DEF state
<1>6. ASSUME NEW h \in Hooks, ClaimStep(h) PROVE OnceIn(s)'
  <2>1. CASE /\ hook[h].kind = "briefing" \/ MayClaim(h)
             /\ Remember(h)
             /\ Go(h)
    BY <1>1, <1>4, <1>6, <2>1, WonOnce DEF ClaimStep
  <2>2. CASE Leave(h) /\ UNCHANGED <<slots, shown>>
    BY <1>1, <1>5, <1>6, <2>2, CarriesOn DEF ClaimStep, state, HooksOf
  <2>3. CASE Go(h) /\ blurred' = blurred \cup {SessionOf[h]} /\ UNCHANGED <<slots, shown>>
    <3>1. \A k \in HooksOf(s) : Carries(k)
      BY <1>1, <2>3, GoMoves DEF HooksOf, HooksOK, Carries, Claimed
    <3> QED
      BY <1>5, <1>6, <2>3, <3>1 DEF ClaimStep, state
  <2> QED
    BY <1>6, <2>1, <2>2, <2>3 DEF ClaimStep
<1>7. ASSUME NEW h \in Hooks, SpoolStep(h) \/ Ship(h) \/ Kill(h) PROVE OnceIn(s)'
  <2>1. \A k \in Hooks : Carries(k)
    BY <1>1, <1>7, CarriesOn DEF SpoolStep, Ship, Kill
  <2> QED
    BY <1>5, <1>7, <2>1 DEF SpoolStep, Ship, Kill, history, HooksOf
<1>8. CASE ~\E h \in Hooks : HookStep(h)
  <2>1. UNCHANGED <<hook, state, here, twice, early>>
    BY <1>8 DEF Next, vars, QuestionStep, NoticeStep, Connector, Tick, Flush, history
  <2> QED
    BY <1>5, <2>1 DEF Carries, Claimed
<1>9. ASSUME NEW h \in Hooks, HookStep(h) PROVE OnceIn(s)'
  BY <1>1, <1>4, <1>6, <1>7, <1>9, PromptOnce, BriefingOnce, EmitOnce DEF HookStep
<1> QED
  BY <1>8, <1>9

\* Within one start of a session no answer, notice or pointer is printed twice, by
\* prompts that race or by a prompt after a briefing, but where a briefing ran
\* beside another hook, could not write the state, or repeats what a prompt told
\* while the claim of its debt was refused (rememberHintDelivery,
\* rememberLandedNoticeDelivery, deliverDeferredBriefing).
THEOREM NothingIsPrintedTwice == Spec => []NoneTwice
<1> DEFINE Inv == NoticesInv /\ QuestionsInv /\ RowsOK /\ RefsOK /\ OnceInv
<1>1. Init => Inv
  <2>1. Init => RefsOK
    BY DEF Init, RefsOK, Idle
  <2> QED
    BY <2>1, NoticesInitially, QuestionsInitially, RowsInitially, OnceInitially
<1>2. Inv /\ [Next]_vars => Inv'
  BY NoticesPreserved, QuestionsPreserved, RowsPreserved, RefsPreserved, OncePreserved
<1>3. Inv => NoneTwice
  BY DEF OnceInv, StateOK, OnceIn, NoneTwice
<1> QED
  BY <1>1, <1>2, <1>3, PTL DEF Spec

=============================================================================
