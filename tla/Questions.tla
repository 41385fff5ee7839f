----------------------------- MODULE Questions ------------------------------
(***************************************************************************)
(* The hub's question channel (server/src/services/questions.ts): one      *)
(* teammate asks another, the answer is a claim joined to the question by  *)
(* an edge, and what nobody answered expires.                              *)
(*                                                                         *)
(* The hub's database runs one transaction at a time, so an ask and the    *)
(* second half of an answer are single steps.  The first half of an answer *)
(* is not: the handler reads the clock and then waits for an embedding, and*)
(* everything else may run in between.                                     *)
(***************************************************************************)
EXTENDS HubClock, FiniteSets

CONSTANTS
  Developers,
  Contexts,      \* work contexts a question may be about
  OwnerOf,       \* who owns each
  QuestionIds,
  Claims,        \* claims an answer may be
  None,
  Day,           \* the unit of the daily budget, in ticks
  QuestionTTL,   \* QUESTION_TTL_DAYS
  AnswerWindow,  \* QUESTION_ANSWER_WINDOW_DAYS
  MaxOpen,       \* MAX_OPEN_QUESTIONS_PER_AUTHOR
  MaxPerTarget,  \* MAX_OPEN_QUESTIONS_PER_TARGET
  MaxPerDay      \* MAX_QUESTIONS_PER_AUTHOR_PER_DAY

ASSUME QuestionsAssumption ==
    /\ OwnerOf \in [Contexts -> Developers]
    /\ None \notin Developers \cup Contexts
    /\ {Day, QuestionTTL, AnswerWindow} \subseteq Nat \ {0}
    /\ {MaxOpen, MaxPerTarget, MaxPerDay} \subseteq Nat

VARIABLES
  questions,  \* the questions table
  edges,      \* question_answers: [question, claim, by]
  answering   \* answers whose embedding is awaited: [question, claim, by, at]

questionVars == <<questions, edges, answering>>

NotAsked == [status |-> "none", author |-> None, target |-> None, about |-> None,
             body |-> None, created |-> 0]

QuestionsInit ==
    /\ questions = [q \in QuestionIds |-> NotAsked]
    /\ edges = {}
    /\ answering = {}

Expired(q, at) == questions[q].created + QuestionTTL <= at

\* Open and not yet expired: the status alone is only a cache of this.
Live(q) == questions[q].status = "open" /\ ~Expired(q, now)

AskedBy(d) == {q \in QuestionIds : questions[q].author = d}

LiveOf(d) == {q \in AskedBy(d) : Live(q)}

LiveTo(d, target) == {q \in LiveOf(d) : questions[q].target = target}

\* checkBudgets: the day's rate, the open questions, and those to one teammate.
WithinBudgets(d, target) ==
    /\ Cardinality({q \in AskedBy(d) : questions[q].created + Day > now}) < MaxPerDay
    /\ Cardinality(LiveOf(d)) < MaxOpen
    /\ Cardinality(LiveTo(d, target)) < MaxPerTarget

OpenDuplicate(d, target, about, body) ==
    \E q \in LiveTo(d, target) : questions[q].about = about /\ questions[q].body = body

\* A question that names only a context is addressed to its owner.
Addressee(a) ==
    IF a.target # None THEN a.target
    ELSE IF a.about # None THEN OwnerOf[a.about] ELSE None

\* a is what was asked: [id, author, target, about, body].  The hub stamps the
\* time, also on a question that was spooled and replayed.
Ask(a) ==
    LET target == Addressee(a)
    IN  /\ target \notin {None, a.author}
        /\ ~OpenDuplicate(a.author, target, a.about, a.body)
        /\ WithinBudgets(a.author, target)
        /\ questions[a.id].status = "none"
        /\ questions' = [questions EXCEPT ![a.id] =
              [status |-> "open", author |-> a.author, target |-> target,
               about |-> a.about, body |-> a.body, created |-> now]]
        /\ UNCHANGED <<edges, answering>>

\* expireOwnQuestions, on the asker's own read.
Overdue(d) == {q \in AskedBy(d) : questions[q].status = "open" /\ Expired(q, now)}

ExpireOwn(d) ==
    /\ Overdue(d) # {}
    /\ questions' = [q \in QuestionIds |->
          IF q \in Overdue(d) THEN [questions[q] EXCEPT !.status = "expired"]
          ELSE questions[q]]
    /\ UNCHANGED <<edges, answering>>

\* An answer arrives, from the tool or from a replayed spool: the clock is read,
\* and then the embedding is awaited.
BeginAnswer(q, claim, by) ==
    /\ answering' = answering \cup
          {[question |-> q, claim |-> claim, by |-> by, at |-> now]}
    /\ UNCHANGED <<questions, edges>>

Addressed(q, by) ==
    LET row == questions[q]
    IN  row.target = by \/ (row.about # None /\ OwnerOf[row.about] = by)

\* Seeded fault: only the clock decides, and it was read before the await.
AnswerableByClock(a) ==
    /\ Addressed(a.question, a.by)
    /\ ~Expired(a.question, a.at)

\* findAnswerableQuestion: on the row as it is now, with the clock as it was read.
Answerable(a) ==
    /\ Addressed(a.question, a.by)
    /\ ~Expired(a.question, a.at)
    /\ questions[a.question].status # "expired"

Edge(a) == [question |-> a.question, claim |-> a.claim, by |-> a.by]

\* Claim and edge in one transaction.  The first edge flips the question; later
\* ones still attach; the same one again changes nothing.
FinishAnswer(a) ==
    /\ a \in answering
    /\ answering' = answering \ {a}
    /\ IF questions[a.question].status # "none" /\ Answerable(a)
       THEN /\ edges' = edges \cup {Edge(a)}
            /\ questions' = IF questions[a.question].status = "open"
                            THEN [questions EXCEPT ![a.question].status = "answered"]
                            ELSE questions
       ELSE UNCHANGED <<questions, edges>>

\* A request that died with the hub: nothing was written.
LoseAnswer(a) ==
    /\ a \in answering
    /\ answering' = answering \ {a}
    /\ UNCHANGED <<questions, edges>>

\* What answers wait for d, as far as the question side says it; the caller takes
\* away what a session of d was handed.
AnswersFor(d) ==
    {e.claim : e \in {x \in edges :
        /\ questions[x.question].author = d
        /\ questions[x.question].created + AnswerWindow > now}}

----------------------------------------------------------------------------
(* Correctness.                                                            *)

Row == [status : {"none", "open", "answered", "expired"},
        author : Developers \cup {None}, target : Developers \cup {None},
        about : Contexts \cup {None}, body : {None}, created : Nat]

QuestionsTypeOK ==
    /\ now \in Nat
    /\ questions \in [QuestionIds -> Row]
    /\ edges \subseteq [question : QuestionIds, claim : Claims, by : Developers]
    /\ answering \subseteq [question : QuestionIds, claim : Claims, by : Developers,
                            at : Nat]

\* A question is answered exactly when an answer is attached: nothing open or
\* reported "expired unanswered" holds one, whatever expired during an embedding.
StatusTellsAnswers ==
    \A q \in QuestionIds :
        questions[q].status = "answered" <=> \E e \in edges : e.question = q

=============================================================================
