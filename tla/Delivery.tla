------------------------------ MODULE Delivery ------------------------------
(***************************************************************************)
(* How an answer and an author's notice reach a developer, Me, who works in*)
(* several sessions at once: on a prompt (connector-core flows/hint.ts and *)
(* hints/delivery.ts) or in a briefing (flows/briefing.ts).                *)
(*                                                                         *)
(* Every prompt or session start runs a hook process of its own.  It lists *)
(* what waits on the hub, picks, and then takes a few steps (spool the     *)
(* record, claim it in the session's state file, tell the hub, print)      *)
(* between which other hooks, flushes and the hub run, and in which it may *)
(* be killed.  What the hub lists depends on what it heard.                *)
(***************************************************************************)
EXTENDS Questions, LandedNotices

CONSTANTS
  Me,
  Sessions,   \* of Me, in the one repo
  Hooks,      \* hook processes that may run
  SessionOf,  \* the session each belongs to
  Pointers,   \* unsolicited hints, which compete for the same slots
  MaxHints,   \* MAX_HINTS_PER_SESSION
  Scenarios   \* bound: what teammates do and what goes wrong

ASSUME DeliveryAssumption ==
    /\ Me \in Developers
    /\ SessionOf \in [Hooks -> Sessions]
    /\ MaxHints \in Nat \ {0}
    /\ \A ref \in Claims \cup Pointers : ref \notin Readers \X Commits \X Nat
    /\ \A sc \in Scenarios :
          /\ sc.asks \subseteq [id : QuestionIds, author : Developers,
                                target : Developers \cup {None},
                                about : Contexts \cup {None}, body : {None}]
          /\ sc.answers \subseteq [question : QuestionIds, claim : Claims, by : Developers]
          /\ sc.stops \subseteq [reader : Readers, commits : Seq(Commits)]
          /\ sc.ticks \in Nat
          /\ sc.hooks \subseteq Hooks

VARIABLES
  scenario,  \* what teammates may do, hooks, ticks, and if sessions registered late
  left,      \* how many starts, stops, answers and faults are left
  slots,     \* state file: deliveredHintRefs
  shown,     \* state file: shownLandedNoticeIds
  owed,      \* state file: briefingPending
  hook,      \* what each hook process is at: Idle or [kind, refs, at]
  spool,     \* Me's spooled delivery records, not yet at the hub
  handed,    \* the hub's hint_deliveries: [session, ref]
  seen,      \* history: refs printed
  lost,      \* history: refs a killed hook had spooled
  dropped,   \* history: refs whose record the spool refused
  here,      \* history: refs printed since the session's last start
  twice,     \* history: <<session, ref>> printed more than once since
  early,     \* history: <<session, ref>> taken up while the session's debt stood
  blurred    \* history: sessions whose briefing raced a hook or met a busy lock

hub == <<questionVars, noticeVars, handed>>
state == <<slots, shown, owed>>
history == <<seen, lost, dropped, here, twice, early, blurred>>

vars == <<now, scenario, left, hub, state, hook, spool, history>>

Idle == [kind |-> "none", refs |-> {}, at |-> 0]

Init ==
    /\ now = 0
    /\ QuestionsInit
    /\ NoticesInit
    /\ \E sc \in Scenarios : scenario = sc /\ left = sc.left
    /\ slots = [s \in Sessions |-> {}]
    /\ shown = [s \in Sessions |-> {}]
    /\ owed = [s \in Sessions |-> scenario.owes]
    /\ hook = [h \in Hooks |-> Idle]
    /\ spool = {}
    /\ handed = {}
    /\ seen = {} /\ lost = {} /\ dropped = {}
    /\ here = [s \in Sessions |-> {}]
    /\ twice = {} /\ early = {} /\ blurred = {}

Spend(what) == left[what] > 0 /\ left' = [left EXCEPT ![what] = @ - 1]

----------------------------------------------------------------------------
(* What a hook goes through.                                               *)

\* Seeded fault: a notice is spooled before it is claimed, as a hint is.
SpoolFirst(kind) ==
    CASE kind \in {"answer", "notice"} -> <<"spool", "claim", "ship", "emit">>
      [] OTHER -> <<"spool", "claim", "emit">>

\* The order of the steps.  A hint's record is spooled first, because a racing
\* sibling's copy has the same id; a notice's marks rows told, so it is claimed
\* first.  A briefing is recorded, remembered and printed.
Path(kind) ==
    CASE kind = "answer"  -> <<"spool", "claim", "ship", "emit">>
      [] kind = "notice"  -> <<"claim", "spool", "ship", "emit">>
      [] OTHER            -> <<"spool", "claim", "emit">>

At(h, stage) == hook[h] # Idle /\ Path(hook[h].kind)[hook[h].at] = stage

Go(h) == hook' = [hook EXCEPT ![h].at = @ + 1]
Leave(h) == hook' = [hook EXCEPT ![h] = Idle]
Take(h, kind, refs) == hook' = [hook EXCEPT ![h] = [kind |-> kind, refs |-> refs, at |-> 1]]

Siblings(h) == {k \in Hooks \ {h} : SessionOf[k] = SessionOf[h] /\ hook[k] # Idle}

\* Whether starting h's work puts a briefing beside another hook of its session.
Races(h, kind) == \E k \in Siblings(h) : kind = "briefing" \/ hook[k].kind = "briefing"

Blur(h, kind) == blurred' = IF Races(h, kind) THEN blurred \cup {SessionOf[h]} ELSE blurred

\* The listing: listUndeliveredAnswers and listLandedNotices on the hub.
AnswersWaiting == {c \in AnswersFor(Me) : ~\E d \in handed : d.ref = c}

Free(h) == h \in scenario.hooks /\ hook[h] = Idle

\* A hook takes up what it picked.  A session that owes a briefing gets here only
\* when the claim of that debt met a busy lock (deliverDeferredBriefing says
\* nothing): the debt stands, and the next prompt may still pay it.
Pick(h, kind, refs) ==
    LET s == SessionOf[h]
    IN  /\ Take(h, kind, refs)
        /\ Blur(h, kind)
        /\ IF owed[s] THEN Spend("faults") /\ early' = early \cup ({s} \X refs)
           ELSE UNCHANGED <<left, early>>

\* A prompt asks the hub and picks: an answer before a notice before a pointer,
\* each only when this session has not had it, and nothing once its slots are
\* spent.  A notice waits while the budget spares no room for it.
Prompt(h) ==
    LET s == SessionOf[h]
        answers == AnswersWaiting \ slots[s]
        notices == {NoticesFor(Me, r) \ shown[s] : r \in Readers} \ {{}}
        pointers == Pointers \ slots[s]
    IN  /\ Free(h)
        /\ Cardinality(slots[s]) < MaxHints
        /\ \/ \E a \in answers : Pick(h, "answer", {a})
           \/ answers = {} /\ \E n \in notices : Pick(h, "notice", n)
           \/ answers = {} /\ \E p \in pointers : Pick(h, "pointer", {p})
    /\ UNCHANGED <<now, scenario, hub, state, spool, seen, lost, dropped, here, twice>>

\* What a briefing tells of the waiting notices: all, or what its budget leaves.
Briefed == {n \in {UNION {NoticesFor(Me, r) : r \in R} : R \in SUBSET Readers} : n # {}}

\* SessionStart: the state file is created anew, and the briefing is assembled.
SessionStart(h) ==
    LET s == SessionOf[h]
    IN  /\ Free(h)
        /\ Spend("fires")
        /\ slots' = [slots EXCEPT ![s] = {}]
        /\ shown' = [shown EXCEPT ![s] = {}]
        /\ owed' = [owed EXCEPT ![s] = FALSE]
        /\ here' = [here EXCEPT ![s] = {}]
        /\ twice' = {p \in twice : p[1] # s}
        /\ early' = {p \in early : p[1] # s}
        /\ blurred' = IF Siblings(h) # {} THEN blurred \cup {s} ELSE blurred
        /\ \/ \E n \in Briefed : Take(h, "briefing", n)
           \/ Briefed = {} /\ UNCHANGED hook
    /\ UNCHANGED <<now, scenario, hub, spool, seen, lost, dropped>>

\* deliverDeferredBriefing: a session that registered late owes one.  The debt is
\* claimed under the state lock before anything is assembled.
DeferredBriefing(h) ==
    LET s == SessionOf[h]
    IN  /\ Free(h)
        /\ owed[s]
        /\ owed' = [owed EXCEPT ![s] = FALSE]
        /\ Blur(h, "briefing")
        /\ \/ \E n \in Briefed : Take(h, "briefing", n)
           \/ Briefed = {} /\ UNCHANGED hook
    /\ UNCHANGED <<now, scenario, left, hub, slots, shown, spool, seen, lost, dropped,
                   here, twice, early>>

Record(h) ==
    IF hook[h].kind \in {"notice", "briefing"}
    THEN [told |-> hook[h].refs]
    ELSE [session |-> SessionOf[h], refs |-> hook[h].refs]

\* Seeded fault: the record is not spooled, the post alone is to carry it.
SpoolNothing(h) == UNCHANGED spool

AddToSpool(h) == spool' = spool \cup {Record(h)}

\* A refused append is counted and changes nothing else.
SpoolStep(h) ==
    /\ At(h, "spool")
    /\ Go(h)
    /\ \/ AddToSpool(h) /\ UNCHANGED <<left, dropped>>
       \/ Spend("faults") /\ dropped' = dropped \cup hook[h].refs /\ UNCHANGED spool
    /\ UNCHANGED <<now, scenario, hub, state, seen, lost, here, twice, early, blurred>>

SlotOf(refs) == CHOOSE r \in refs : TRUE

\* Seeded fault: what the pre-check saw is trusted, nothing is checked again.
ClaimsBlindly(h) == TRUE

\* The check of the check-and-set, on the state under its lock.
MayClaim(h) ==
    LET s == SessionOf[h]
    IN  /\ Cardinality(slots[s]) < MaxHints
        /\ SlotOf(hook[h].refs) \notin slots[s]
        /\ hook[h].refs \cap shown[s] = {}

Remember(h) ==
    LET s == SessionOf[h]
        kind == hook[h].kind
    IN  /\ slots' = IF kind = "briefing" THEN slots
                    ELSE [slots EXCEPT ![s] = @ \cup {SlotOf(hook[h].refs)}]
        /\ shown' = IF kind \in {"notice", "briefing"}
                    THEN [shown EXCEPT ![s] = @ \cup hook[h].refs] ELSE shown

\* Unremembered means unprinted, except for a briefing.  A notice is also left
\* when the budget has meanwhile shrunk.
ClaimStep(h) ==
    /\ At(h, "claim")
    /\ \/ /\ hook[h].kind = "briefing" \/ MayClaim(h)
          /\ Remember(h)
          /\ Go(h)
          /\ UNCHANGED <<left, blurred>>
       \/ /\ hook[h].kind # "briefing" /\ ~MayClaim(h)
          /\ Leave(h)
          /\ UNCHANGED <<left, blurred, slots, shown>>
       \/ /\ hook[h].kind = "notice"
          /\ Leave(h)
          /\ UNCHANGED <<left, blurred, slots, shown>>
       \/ /\ Spend("faults")
          /\ IF hook[h].kind = "briefing"
             THEN Go(h) /\ blurred' = blurred \cup {SessionOf[h]}
             ELSE Leave(h) /\ UNCHANGED blurred
          /\ UNCHANGED <<slots, shown>>
    /\ UNCHANGED <<now, scenario, hub, owed, spool, seen, lost, dropped, here, twice,
                   early>>

\* The hub's half: one row per delivery id, or the named rows marked told.
Hear(record) ==
    IF "told" \in DOMAIN record
    THEN rows' = Marked(Me, record.told) /\ UNCHANGED handed
    ELSE /\ handed' = handed \cup {[session |-> record.session, ref |-> r] : r \in record.refs}
         /\ UNCHANGED rows

\* postRecords at once, best effort: the spooled copy follows either way.
Ship(h) ==
    /\ At(h, "ship")
    /\ Go(h)
    /\ Hear(Record(h)) \/ UNCHANGED <<rows, handed>>
    /\ UNCHANGED <<now, scenario, left, questionVars, stops, filings, state,
                   spool, history>>

Emit(h) ==
    LET s == SessionOf[h]
    IN  /\ At(h, "emit")
        /\ Leave(h)
        /\ seen' = seen \cup hook[h].refs
        /\ here' = [here EXCEPT ![s] = @ \cup hook[h].refs]
        /\ twice' = twice \cup ({s} \X (here[s] \cap hook[h].refs))
    /\ UNCHANGED <<now, scenario, left, hub, state, spool, lost, dropped, early, blurred>>

\* The host kills the hook on its deadline, or the machine stops.
Kill(h) ==
    /\ hook[h] # Idle
    /\ Spend("faults")
    /\ Leave(h)
    /\ lost' = lost \cup hook[h].refs
    /\ UNCHANGED <<now, scenario, hub, state, spool, seen, dropped, here, twice, early,
                   blurred>>

\* A flush posts a record; when its answer is lost the record stays for the next.
Flush ==
    /\ \E r \in spool :
          /\ Hear(r)
          /\ \/ spool' = spool \ {r} /\ UNCHANGED left
             \/ Spend("faults") /\ UNCHANGED spool
    /\ UNCHANGED <<now, scenario, questionVars, stops, filings, state, hook,
                   history>>

HookStep(h) ==
    Prompt(h) \/ SessionStart(h) \/ DeferredBriefing(h) \/ SpoolStep(h) \/ ClaimStep(h)
    \/ Ship(h) \/ Emit(h) \/ Kill(h)

----------------------------------------------------------------------------
(* The teammates, the hub and the clock.                                   *)

Connector == <<state, hook, spool, handed, history>>

QuestionStep ==
    /\ \/ (\E a \in scenario.asks : Ask(a)) /\ UNCHANGED left
       \/ (\E d \in Developers : ExpireOwn(d)) /\ UNCHANGED left
       \/ Spend("answers") /\ \E a \in scenario.answers : BeginAnswer(a.question, a.claim, a.by)
       \/ (\E a \in answering : FinishAnswer(a)) /\ UNCHANGED left
       \/ (\E a \in answering : LoseAnswer(a)) /\ Spend("faults")
    /\ UNCHANGED <<now, scenario, noticeVars, Connector>>

\* The reader's spool is flushed; a lost answer leaves the stop for another time.
StopArrives(stop) ==
    /\ IngestStop(stop)
    /\ \/ stops' = stops \ {stop} /\ UNCHANGED left
       \/ Spend("faults") /\ UNCHANGED stops

NoticeStep ==
    /\ \/ Spend("stops") /\ \E st \in scenario.stops : Stop(st.reader, st.commits)
       \/ \E stop \in stops : StopArrives(stop)
       \/ PruneNotices /\ UNCHANGED left
    /\ UNCHANGED <<now, scenario, questionVars, Connector>>

Tick ==
    /\ now < scenario.ticks
    /\ now' = now + 1
    /\ UNCHANGED <<scenario, left, hub, state, hook, spool, history>>

Next == QuestionStep \/ NoticeStep \/ Tick \/ Flush \/ \E h \in Hooks : HookStep(h)

Spec == Init /\ [][Next]_vars

----------------------------------------------------------------------------
(* Correctness.                                                            *)

HintRefs == Claims \cup Pointers

InFlight == UNION {hook[h].refs : h \in Hooks}

\* A notice the hub holds as told was printed for its author, unless the hook was
\* killed on the way: neither a lost claim, nor a refile after seven days, nor a
\* late or repeated delivery spends a notice nobody saw.
ToldWasShown ==
    \A row \in rows : row.told => IdOf(row) \in seen \cup lost \cup InFlight

Owed(ref) ==
    \/ \E r \in spool : ref \in IF "told" \in DOMAIN r THEN r.told ELSE r.refs
    \/ \E d \in handed : d.ref = ref
    \/ ref \notin HintRefs /\ \A row \in rows : IdOf(row) = ref => row.told

\* What was printed, the hub knows or is owed, so that the other sessions fall
\* silent: its record is spooled before it is printed and stays until it is heard.
SeenIsOwed == \A ref \in seen \ dropped : Owed(ref)

\* Within one start of a session no answer, notice or pointer is printed twice, by
\* prompts that race or by a prompt after a briefing.  Only a briefing repeats one:
\* beside another hook, when it cannot write the state, or when a prompt had told
\* it while the claim of the briefing's debt was refused (briefing.ts:414-422), as
\* a briefing does not look at what the session was shown.
NoneTwice == \A p \in twice : p[1] \in blurred \/ p \in early

\* An answer the hub holds as handed to a session was printed, unless a hook was
\* killed: "Answers to MY questions that no session of mine has been handed yet".
HandedWasSeen ==
    \A d \in handed : d.ref \in Claims => d.ref \in seen \cup lost \cup InFlight

=============================================================================
