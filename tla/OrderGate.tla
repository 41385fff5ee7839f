----------------------------- MODULE OrderGate -----------------------------
(***************************************************************************)
(* The hub's causal order (packages/server/src/services): what may be      *)
(* concluded from the positions the connectors hand out.  These are the    *)
(* pure decisions; CausalOrder composes them with the processes that take  *)
(* the positions.                                                          *)
(*                                                                         *)
(* An event is a record with                                               *)
(*   session  the session whose order it belongs to                        *)
(*   epoch    the counter its position was taken from, None when withheld  *)
(*   n        its position, None when withheld                             *)
(*   after    the open end of its window, None when it sent no bracket     *)
(*   kind     "emitted", or "observed" for a position that is only an      *)
(*            upper bound                                                  *)
(* A row of session_events is an event with the `reason` it has (or has    *)
(* not) a position.  A ledger entry is an event with its `provenance`, its *)
(* `version` in the chain and `names`, the scope roles under which it      *)
(* names the path that is asked about.                                     *)
(***************************************************************************)
EXTENDS Naturals, FiniteSets

CONSTANT None  \* an absent position, bracket or epoch

ASSUME NoneIsNoPosition == None \notin Nat

----------------------------------------------------------------------------
(* What the hub stores of a stamp.                                         *)

\* A stamp is [epoch, n, after]; None stands for a refusal.  A bracket above
\* the position it brackets is dropped, never the record.
WindowFloorOf(stamp) ==
    IF stamp.after # None /\ stamp.after <= stamp.n THEN stamp.after ELSE None

\* The tool lane is emitted only with a usable bracket; the git lane never is.
SeqKindFor(source, stamp) ==
    IF source # "git_diff" /\ stamp # None /\ WindowFloorOf(stamp) # None
    THEN "emitted"
    ELSE "observed"

IntentSeqKind(provenance) ==
    IF provenance = "derived" THEN "observed" ELSE "emitted"

Position(stamp, reason) ==
    IF stamp = None
    THEN [epoch |-> None, n |-> None, after |-> None, reason |-> reason]
    ELSE [epoch |-> stamp.epoch, n |-> stamp.n,
          after |-> WindowFloorOf(stamp), reason |-> "sequenced"]

\* A position that a different event of the session already holds is not stored
\* twice: the event keeps its row and loses its position.  A replay of the very
\* event is the row that is there.
Stored(rows, event) ==
    IF event.n # None /\ \E r \in rows : /\ r # event
                                         /\ r.session = event.session
                                         /\ r.epoch = event.epoch
                                         /\ r.n = event.n
    THEN [event EXCEPT !.epoch = None, !.n = None, !.after = None,
                       !.reason = "epoch_conflict"]
    ELSE event

----------------------------------------------------------------------------
(* Whether a session's order may be used at all.                           *)

EpochsOf(rows) == {r.epoch : r \in rows} \ {None}

CausalOrderOf(session, rows) ==
    [session |-> session,
     state   |-> IF \/ \E r \in rows : r.reason = "epoch_conflict"
                    \/ Cardinality(EpochsOf(rows)) > 1
                 THEN "broken"
                 ELSE IF EpochsOf(rows) = {} THEN "unsequenced" ELSE "usable"]

----------------------------------------------------------------------------
(* The gate: may two events be compared, and which came first.             *)

WindowStart(e) == IF e.after # None THEN e.after
                  ELSE IF e.n # None THEN e.n ELSE 0

Known(e) == e.n # None /\ e.epoch # None

SamePoint(a, b) == a.n = b.n /\ WindowStart(a) = WindowStart(b)

\* Seeded fault: no two windows are ever concurrent.
OverlapsNever(a, b) == FALSE

Overlaps(a, b) ==
    /\ ~(a.n < WindowStart(b) \/ b.n < WindowStart(a))
    /\ ~SamePoint(a, b)

\* The first of the six conditions that fails, in the order a reader hears them.
CausalComparisonOf(order, a, b) ==
    IF order.state # "usable" THEN "session_order_unusable"
    ELSE IF a.session # order.session \/ b.session # order.session
    THEN "different_session"
    ELSE IF ~Known(a) \/ ~Known(b) THEN "position_indeterminate"
    ELSE IF a.epoch # b.epoch THEN "epoch_mismatch"
    ELSE IF a.kind # "emitted" \/ b.kind # "emitted" THEN "upper_bound_only"
    ELSE IF Overlaps(a, b) THEN "concurrent"
    ELSE "comparable"

IsOrderable(order, a, b) == CausalComparisonOf(order, a, b) = "comparable"

CompareEvents(order, a, b) ==
    IF ~IsOrderable(order, a, b) THEN "unordered"
    ELSE IF SamePoint(a, b) THEN "same"
    ELSE IF a.n < WindowStart(b) THEN "before" ELSE "after"

Before(order, a, b) == CompareEvents(order, a, b) = "before"

----------------------------------------------------------------------------
(* The edit the ladder is asked about.                                     *)

Earlier(a, b) ==
    \/ WindowStart(a) < WindowStart(b)
    \/ WindowStart(a) = WindowStart(b) /\ a.n <= b.n

\* The rows the read may pick among a path's sightings.  A sighting with no
\* position outranks every other; else the earliest window does.  Rows tied
\* under that rule come in no particular order from the database.
EditEvents(sightings) ==
    LET withheld == {r \in sightings : r.n = None}
    IN  IF withheld # {} THEN withheld
        ELSE {r \in sightings : \A o \in sightings : Earlier(r, o)}

----------------------------------------------------------------------------
(* Was the reason written before the change?                               *)

Answer(timing, reason) == [timing |-> timing, reason |-> reason]

Declared(chain, edit) ==
    {e \in chain : e.provenance = "declared" /\ e.session = edit.session}

RefusedEntries(order, chain, edit) ==
    {e \in Declared(chain, edit) : ~IsOrderable(order, e, edit)}

Naming(order, chain, edit, role) ==
    {e \in Declared(chain, edit) : IsOrderable(order, e, edit) /\ role \in e.names}

\* The entry with the earliest floor, then the lowest version.
EarliestEntry(entries) ==
    CHOOSE e \in entries :
        \A o \in entries :
            \/ WindowStart(e) < WindowStart(o)
            \/ WindowStart(e) = WindowStart(o) /\ e.version <= o.version

SomeBefore(order, entries, edit) ==
    entries # {} /\ Before(order, EarliestEntry(entries), edit)

ExplanationTiming(order, chain, edit) ==
    LET declared == Declared(chain, edit)
        refused  == RefusedEntries(order, chain, edit)
        nonGoal  == Naming(order, chain, edit, "non_goal")
        expected == Naming(order, chain, edit, "expected")
    IN  IF chain = {} THEN Answer("absent", "no_intent")
        ELSE IF \A e \in chain : e.provenance # "declared"
        THEN Answer("absent", "derived_excluded")
        ELSE IF declared = {} THEN Answer("absent", "different_session")
        ELSE IF refused = declared \/ \E e \in refused : e.names # {}
        THEN Answer("absent", "not_comparable")
        ELSE IF nonGoal \cup expected = {} THEN Answer("absent", "scope_not_named")
        ELSE IF SomeBefore(order, nonGoal, edit)
        THEN Answer("post_hoc", "declared_non_goal_edited")
        ELSE IF SomeBefore(order, expected, edit)
        THEN Answer("predeclared", "declared_before")
        ELSE Answer("post_hoc", "declared_after")

=============================================================================
