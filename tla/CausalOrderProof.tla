-------------------------- MODULE CausalOrderProof --------------------------
(***************************************************************************)
(* First, what the hub's order gate and its timing answer guarantee, for   *)
(* every order, every ledger and every edit.  Then that no position of a   *)
(* session's counter is handed out twice, for every set of processes,      *)
(* every block size, every window cap and any number of faults.  The lock  *)
(* is not enough for that: the end deletes the file and a SessionStart     *)
(* that cannot get the lock rewrites it, both while another process is     *)
(* inside.  What carries the proof is that whoever starts a counter starts *)
(* it under an epoch nobody has used (EarlyIsUnused), and that the file,   *)
(* and whatever a holder read from it, are never behind what was handed    *)
(* out under their epoch (Ahead).                                          *)
(***************************************************************************)
EXTENDS CausalOrder, FiniteSetTheorems, WellFoundedInduction, TLAPS

----------------------------------------------------------------------------
(* The order gate and the timing answer.                                   *)

\* The positions and brackets the hub stores: a bracket never stands above its
\* position (WindowFloorOf drops it), nor without one.
WellFormed(e) ==
    /\ e.n \in Nat \cup {None}
    /\ e.after \in Nat \cup {None}
    /\ e.after # None => e.n # None /\ e.after <= e.n

----------------------------------------------------------------------------

\* What seqKindFor and windowFloorOf make of a stamp is well-formed.
LEMMA StoredIsWellFormed ==
  ASSUME NEW stamp, NEW reason,
         stamp # None => stamp.n \in Nat /\ stamp.after \in Nat \cup {None}
  PROVE  WellFormed(Position(stamp, reason))
  BY NoneIsNoPosition DEF WellFormed, Position, WindowFloorOf

\* A comparable pair has positions, and one window wholly before the other.
LEMMA ComparableWindows ==
  ASSUME NEW order, NEW a, NEW b, WellFormed(a), WellFormed(b),
         IsOrderable(order, a, b)
  PROVE  /\ a.n \in Nat /\ WindowStart(a) \in Nat /\ WindowStart(a) <= a.n
         /\ b.n \in Nat /\ WindowStart(b) \in Nat /\ WindowStart(b) <= b.n
         /\ a.n < WindowStart(b) \/ b.n < WindowStart(a) \/ SamePoint(a, b)
  BY NoneIsNoPosition
  DEF WellFormed, IsOrderable, CausalComparisonOf, Known, Overlaps, WindowStart

\* Whether two events may be compared, and why not, does not depend on which
\* of them is asked about first.
THEOREM ComparisonIsSymmetric ==
  ASSUME NEW order, NEW a, NEW b
  PROVE  CausalComparisonOf(order, a, b) = CausalComparisonOf(order, b, a)
  BY DEF CausalComparisonOf, Overlaps, SamePoint

\* An event before another is comparable with it, and ends before it begins.
LEMMA BeforeMeansEnded ==
  ASSUME NEW order, NEW a, NEW b, WellFormed(a), WellFormed(b)
  PROVE  Before(order, a, b) <=> IsOrderable(order, a, b) /\ a.n < WindowStart(b)
<1>1. ASSUME IsOrderable(order, a, b), a.n < WindowStart(b)
      PROVE  Before(order, a, b)
  BY <1>1, ComparableWindows DEF Before, CompareEvents, SamePoint
<1>2. ASSUME Before(order, a, b)
      PROVE  IsOrderable(order, a, b) /\ a.n < WindowStart(b)
  BY <1>2 DEF Before, CompareEvents
<1> QED  BY <1>1, <1>2

\* Happens-before is a strict partial order on what the hub stores.
THEOREM BeforeIsStrictOrder ==
  ASSUME NEW order, NEW a, NEW b, NEW c,
         WellFormed(a), WellFormed(b), WellFormed(c)
  PROVE  /\ ~Before(order, a, a)
         /\ Before(order, a, b) => ~Before(order, b, a)
         /\ Before(order, a, b) /\ Before(order, b, c) => Before(order, a, c)
<1>1. ~Before(order, a, a)
  BY BeforeMeansEnded, ComparableWindows
<1>2. ASSUME Before(order, a, b) PROVE ~Before(order, b, a)
  BY <1>2, BeforeMeansEnded, ComparableWindows
<1>3. ASSUME Before(order, a, b), Before(order, b, c) PROVE Before(order, a, c)
  <2>1. /\ IsOrderable(order, a, b) /\ a.n < WindowStart(b)
        /\ IsOrderable(order, b, c) /\ b.n < WindowStart(c)
    BY <1>3, BeforeMeansEnded
  <2>2. a.n < WindowStart(c) /\ a.n \in Nat /\ WindowStart(a) <= a.n
        /\ WindowStart(c) <= c.n /\ WindowStart(c) \in Nat /\ c.n \in Nat
        /\ WindowStart(a) \in Nat
    BY <2>1, ComparableWindows
  <2>3. ~Overlaps(a, c)
    BY <2>2 DEF Overlaps
  <2>4. IsOrderable(order, a, c)
    BY <2>1, <2>3 DEF IsOrderable, CausalComparisonOf
  <2> QED  BY <2>2, <2>4, BeforeMeansEnded
<1> QED  BY <1>1, <1>2, <1>3

----------------------------------------------------------------------------
(* The entry that stands for its role.                                     *)

\* A nonempty set of naturals has a least element.
LEMMA LeastNatural ==
  ASSUME NEW S \in SUBSET Nat, S # {}
  PROVE  \E m \in S : \A k \in S : m <= k
<1> DEFINE LessThan == {p \in Nat \X Nat : p[1] < p[2]}
<1>1. IsWellFoundedOn(LessThan, Nat)
  BY NatLessThanWellFounded DEF OpToRel
<1>2. PICK m \in S : \A k \in S : <<k, m>> \notin LessThan
  <2> HIDE DEF LessThan
  <2> QED  BY <1>1, WFMin
<1>3. ASSUME NEW k \in S PROVE m <= k
  <2>1. ~(k < m)
    BY <1>2, <<k, m>> \in Nat \X Nat
  <2> QED  BY <2>1
<1> QED  BY <1>3

\* The ledger as the ledger stores it: versions are numbers.
WellFormedChain(ledger) ==
    \A e \in ledger : WellFormed(e) /\ e.version \in Nat

\* A stored event's window starts at a position.
LEMMA WindowStartIsNatural ==
  ASSUME NEW e, WellFormed(e)
  PROVE  WindowStart(e) \in Nat
  BY NoneIsNoPosition DEF WellFormed, WindowStart

\* EarliestEntry picks an entry of the set, and none starts before it.
LEMMA EarliestEntryExists ==
  ASSUME NEW entries, entries # {}, WellFormedChain(entries)
  PROVE  /\ EarliestEntry(entries) \in entries
         /\ \A o \in entries : WindowStart(EarliestEntry(entries)) <= WindowStart(o)
<1> DEFINE Floors == {WindowStart(e) : e \in entries}
<1>1. PICK f \in Floors : \A k \in Floors : f <= k
  <2>1. Floors \in SUBSET Nat /\ Floors # {}
    BY WindowStartIsNatural DEF WellFormedChain
  <2> HIDE DEF Floors
  <2> QED  BY <2>1, LeastNatural
<1> DEFINE Versions == {e.version : e \in {x \in entries : WindowStart(x) = f}}
<1>2. PICK v \in Versions : \A k \in Versions : v <= k
  <2>1. Versions \in SUBSET Nat /\ Versions # {}
    BY <1>1 DEF WellFormedChain
  <2> HIDE DEF Versions
  <2> QED  BY <2>1, LeastNatural
<1>3. PICK e \in entries : WindowStart(e) = f /\ e.version = v
  BY <1>2
<1>4. \A o \in entries : \/ WindowStart(e) < WindowStart(o)
                         \/ WindowStart(e) = WindowStart(o) /\ e.version <= o.version
  <2> TAKE o \in entries
  <2>1. WindowStart(o) \in Nat /\ WindowStart(e) \in Nat /\ f <= WindowStart(o)
    BY <1>1, WindowStartIsNatural DEF WellFormedChain
  <2>2. WindowStart(o) = f => v <= o.version
    BY <1>2
  <2> QED  BY <1>3, <2>1, <2>2
<1>5. /\ EarliestEntry(entries) \in entries
      /\ \A o \in entries :
            \/ WindowStart(EarliestEntry(entries)) < WindowStart(o)
            \/ /\ WindowStart(EarliestEntry(entries)) = WindowStart(o)
               /\ EarliestEntry(entries).version <= o.version
  BY <1>4 DEF EarliestEntry
<1> QED  BY <1>5, WindowStartIsNatural DEF WellFormedChain

----------------------------------------------------------------------------
(* The timing answer.                                                      *)

\* If any comparable entry comes before the edit, the earliest one does: the
\* ladder loses nothing by asking only that one.
LEMMA EarliestDecides ==
  ASSUME NEW order, NEW entries, NEW edit, NEW e \in entries,
         WellFormedChain(entries), WellFormed(edit),
         \A x \in entries : IsOrderable(order, x, edit),
         Before(order, e, edit)
  PROVE  SomeBefore(order, entries, edit)
<1> DEFINE first == EarliestEntry(entries)
<1>1. first \in entries /\ WindowStart(first) <= WindowStart(e)
  BY EarliestEntryExists
<1>2. WellFormed(first) /\ WellFormed(e) /\ IsOrderable(order, first, edit)
  BY <1>1 DEF WellFormedChain
<1> HIDE DEF first
<1>3. /\ WindowStart(e) <= e.n /\ e.n < WindowStart(edit)
      /\ e.n \in Nat /\ WindowStart(e) \in Nat
  BY <1>2, BeforeMeansEnded, ComparableWindows
<1>4. first.n < WindowStart(edit)
  BY <1>1, <1>2, <1>3, ComparableWindows DEF SamePoint
<1>5. Before(order, first, edit)
  BY <1>2, <1>4, BeforeMeansEnded
<1> QED  BY <1>5 DEF SomeBefore, first

\* The entries that name the path are entries of the ledger, all comparable.
LEMMA NamingIsComparable ==
  ASSUME NEW order, NEW ledger, NEW edit, NEW role, WellFormedChain(ledger)
  PROVE  /\ WellFormedChain(Naming(order, ledger, edit, role))
         /\ \A e \in Naming(order, ledger, edit, role) : IsOrderable(order, e, edit)
  BY DEF Naming, Declared, WellFormedChain

\* "Declared before" is earned: an entry that names the path as expected really
\* stands before the edit, and no entry that names it a non-goal does, each of
\* them comparable.
THEOREM PredeclaredIsEarned ==
  ASSUME NEW order, NEW ledger, NEW edit,
         WellFormedChain(ledger), WellFormed(edit),
         ExplanationTiming(order, ledger, edit).timing = "predeclared"
  PROVE  /\ \E e \in Declared(ledger, edit) :
               "expected" \in e.names /\ Before(order, e, edit)
         /\ \A e \in Declared(ledger, edit) :
               "non_goal" \in e.names =>
                  IsOrderable(order, e, edit) /\ ~Before(order, e, edit)
<1> DEFINE nonGoal == Naming(order, ledger, edit, "non_goal")
           expected == Naming(order, ledger, edit, "expected")
<1>1. /\ \A e \in RefusedEntries(order, ledger, edit) : e.names = {}
      /\ ~SomeBefore(order, nonGoal, edit)
      /\ SomeBefore(order, expected, edit)
  BY DEF ExplanationTiming, Answer
<1>2. \E e \in Declared(ledger, edit) : "expected" \in e.names /\ Before(order, e, edit)
  <2>1. /\ expected # {} /\ WellFormedChain(expected)
        /\ Before(order, EarliestEntry(expected), edit)
    BY <1>1, NamingIsComparable DEF SomeBefore
  <2>2. EarliestEntry(expected) \in expected
    BY <2>1, EarliestEntryExists
  <2> QED  BY <2>1, <2>2 DEF Naming
<1>3. ASSUME NEW e \in Declared(ledger, edit), "non_goal" \in e.names
      PROVE  IsOrderable(order, e, edit) /\ ~Before(order, e, edit)
  <2>1. IsOrderable(order, e, edit)
    BY <1>1, <1>3 DEF RefusedEntries
  <2>2. e \in nonGoal
    BY <1>3, <2>1 DEF Naming
  <2> HIDE DEF nonGoal
  <2>3. WellFormedChain(nonGoal) /\ \A x \in nonGoal : IsOrderable(order, x, edit)
    BY NamingIsComparable DEF nonGoal
  <2> QED  BY <1>1, <2>1, <2>2, <2>3, EarliestDecides
<1> QED  BY <1>2, <1>3

\* "Declared after" is earned too: no entry that names the path stands before
\* the edit, and none of them was refused a comparison.
THEOREM DeclaredAfterIsEarned ==
  ASSUME NEW order, NEW ledger, NEW edit, NEW e \in Declared(ledger, edit),
         WellFormedChain(ledger), WellFormed(edit),
         e.names \cap {"expected", "non_goal"} # {},
         ExplanationTiming(order, ledger, edit).reason = "declared_after"
  PROVE  IsOrderable(order, e, edit) /\ ~Before(order, e, edit)
<1>1. /\ \A r \in RefusedEntries(order, ledger, edit) : r.names = {}
      /\ ~SomeBefore(order, Naming(order, ledger, edit, "non_goal"), edit)
      /\ ~SomeBefore(order, Naming(order, ledger, edit, "expected"), edit)
  BY DEF ExplanationTiming, Answer
<1>2. IsOrderable(order, e, edit)
  BY <1>1 DEF RefusedEntries
<1>3. PICK role \in {"expected", "non_goal"} : role \in e.names
  OBVIOUS
<1> DEFINE entries == Naming(order, ledger, edit, role)
<1>4. e \in entries
  BY <1>2, <1>3 DEF Naming
<1>5. ~SomeBefore(order, entries, edit)
  BY <1>1, <1>3
<1>6. WellFormedChain(entries) /\ \A x \in entries : IsOrderable(order, x, edit)
  BY NamingIsComparable
<1> HIDE DEF entries
<1> QED  BY <1>2, <1>4, <1>5, <1>6, EarliestDecides

\* An event without a position is comparable with nothing.
LEMMA WithheldIsRefused ==
  ASSUME NEW order, NEW a, NEW b, a.n = None \/ b.n = None
  PROVE  ~IsOrderable(order, a, b)
  BY DEF IsOrderable, CausalComparisonOf, Known

\* Losing a position never buys a better answer.  An entry that reaches the hub
\* with its position withheld leaves the answer as it is, or turns it into none.
THEOREM WithheldEntryBuysNothing ==
  ASSUME NEW order, NEW ledger, NEW edit, NEW e \in ledger, NEW lost,
         lost.n = None, lost.session = e.session,
         lost.provenance = e.provenance, lost.names = e.names
  PROVE  LET withheld == ExplanationTiming(order, (ledger \ {e}) \cup {lost}, edit)
         IN  \/ withheld = ExplanationTiming(order, ledger, edit)
             \/ withheld.timing = "absent"
<1> DEFINE other == (ledger \ {e}) \cup {lost}
<1>1. lost \in other /\ other # {} /\ ledger # {}
  OBVIOUS
<1>2. (\A x \in ledger : x.provenance # "declared")
      <=> (\A x \in other : x.provenance # "declared")
  OBVIOUS
<1>3. ~IsOrderable(order, lost, edit)
  BY WithheldIsRefused
<1>4. CASE e \notin Declared(ledger, edit)
  <2>1. Declared(other, edit) = Declared(ledger, edit)
    BY <1>4 DEF Declared
  <2>2. /\ RefusedEntries(order, other, edit) = RefusedEntries(order, ledger, edit)
        /\ \A role : Naming(order, other, edit, role) = Naming(order, ledger, edit, role)
    BY <2>1 DEF RefusedEntries, Naming
  <2> HIDE DEF other
  <2>3. ExplanationTiming(order, other, edit) = ExplanationTiming(order, ledger, edit)
    BY <1>1, <1>2, <2>1, <2>2 DEF ExplanationTiming
  <2> QED  BY <2>3 DEF other
<1>5. CASE e \in Declared(ledger, edit) /\ e.names # {}
  <2>1. lost \in RefusedEntries(order, other, edit) /\ lost.names # {}
    BY <1>3, <1>5 DEF RefusedEntries, Declared
  <2> HIDE DEF other
  <2>2. ExplanationTiming(order, other, edit).timing = "absent"
    BY <2>1 DEF ExplanationTiming, Answer
  <2> QED  BY <2>2 DEF other
<1>6. CASE e \in Declared(ledger, edit) /\ e.names = {}
  <2>1. Declared(other, edit) = (Declared(ledger, edit) \ {e}) \cup {lost}
    BY <1>6 DEF Declared
  <2>2. \A role : Naming(order, other, edit, role) = Naming(order, ledger, edit, role)
    BY <1>3, <1>6, <2>1 DEF Naming
  <2>3. (\E x \in RefusedEntries(order, other, edit) : x.names # {})
        <=> (\E x \in RefusedEntries(order, ledger, edit) : x.names # {})
    BY <1>6, <2>1 DEF RefusedEntries
  <2>4. Declared(other, edit) # {} /\ Declared(ledger, edit) # {}
    BY <1>6, <2>1
  <2>5. RefusedEntries(order, ledger, edit) = Declared(ledger, edit)
        => RefusedEntries(order, other, edit) = Declared(other, edit)
    BY <1>3, <2>1 DEF RefusedEntries
  <2> HIDE DEF other
  <2>6. CASE RefusedEntries(order, other, edit) = Declared(other, edit)
    <3>1. ExplanationTiming(order, other, edit).timing = "absent"
      BY <2>6 DEF ExplanationTiming, Answer
    <3> QED  BY <3>1 DEF other
  <2>7. CASE RefusedEntries(order, other, edit) # Declared(other, edit)
    <3>1. ExplanationTiming(order, other, edit) = ExplanationTiming(order, ledger, edit)
      BY <1>1, <1>2, <2>2, <2>3, <2>4, <2>5, <2>7 DEF ExplanationTiming
    <3> QED  BY <3>1 DEF other
  <2> QED  BY <2>6, <2>7
<1> QED  BY <1>4, <1>5, <1>6

\* An edit whose position is withheld gets no answer at all.
THEOREM WithheldEditIsUnanswered ==
  ASSUME NEW order, NEW ledger, NEW edit, edit.n = None
  PROVE  ExplanationTiming(order, ledger, edit).timing = "absent"
<1>1. RefusedEntries(order, ledger, edit) = Declared(ledger, edit)
  BY WithheldIsRefused DEF RefusedEntries
<1> QED  BY <1>1 DEF ExplanationTiming, Answer

----------------------------------------------------------------------------
(* The counter.                                                            *)

\* The phases in which a process has not yet started the counter it may start.
Early == {"idle", "open", "ready", "post", "register", "claim", "publish"}

HandedOut == [epoch : Epoch, n : Nat, by : Process, at : Phase]

Ahead(content) ==
    content # None =>
        \A p \in issued : p.epoch = content.epoch => p.n <= content.n

InUse(epoch) ==
    \/ file # None /\ file.epoch = epoch
    \/ copy # None /\ copy.epoch = epoch
    \/ \E p \in issued : p.epoch = epoch

EarlyIsUnused == \A a \in Process : pc[a] \in Early => ~InUse(a)

OrderInv ==
    /\ issued \subseteq HandedOut
    /\ Ahead(file)
    /\ Ahead(copy)
    /\ EarlyIsUnused
    /\ NoPositionTwice

\* Only a hook opens windows: its call has a key.
OnlyHooksOpen == \A a \in Process : pc[a] = "open" => a \in Hooks

IInv == TypeOK /\ OnlyHooksOpen /\ OrderInv

----------------------------------------------------------------------------
(* The windows keep their type.                                            *)

\* A nonempty set of windows has an oldest.
LEMMA OldestIsAWindow ==
  ASSUME NEW windows \in SUBSET Window, windows # {}
  PROVE  Oldest(windows) \in windows
<1> DEFINE Floors == {w.floor : w \in windows}
<1>1. Floors \in SUBSET Nat /\ Floors # {}
  BY DEF Window
<1>2. PICK m \in Floors : \A k \in Floors : m <= k
  <2> HIDE DEF Floors
  <2> QED  BY <1>1, LeastNatural
<1>3. \E w \in windows : \A v \in windows : w.floor <= v.floor
  BY <1>2
<1> QED  BY <1>3 DEF Oldest

\* A key's floor is a position, or none.
LEMMA WindowFloorType ==
  ASSUME NEW windows \in SUBSET Window, NEW key
  PROVE  WindowFloor(windows, key) \in Nat \cup {None}
<1>1. OwnWindows(windows, key) \in SUBSET Window
  BY DEF OwnWindows
<1>2. CASE OwnWindows(windows, key) # {}
  <2>1. Oldest(OwnWindows(windows, key)) \in Window
    BY <1>1, <1>2, OldestIsAWindow
  <2> QED  BY <2>1, <1>2 DEF WindowFloor, Window
<1> QED  BY <1>2 DEF WindowFloor

\* A close leaves windows.
LEMMA ClosedWindowType ==
  ASSUME NEW windows \in SUBSET Window, NEW key
  PROVE  ClosedWindow(windows, key) \in SUBSET Window
  BY DEF ClosedWindow

\* An open adds one window, and an eviction takes one away.
LEMMA OpenedType ==
  ASSUME NEW windows \in SUBSET Window, NEW key \in Calls, NEW floor \in Nat
  PROVE  Opened(windows, key, floor) \in SUBSET Window
  BY DEF Opened, Window

----------------------------------------------------------------------------
(* Type correctness.                                                       *)

\* A counter just started is a state file.
LEMMA FreshType ==
  ASSUME NEW epoch \in Epoch
  PROVE  Fresh(epoch) \in StateFile
  BY DEF Fresh, StateFile

\* Moving the counter and the windows leaves a state file.
LEMMA CounterType ==
  ASSUME NEW f \in StateFile, NEW n \in Nat, NEW windows \in SUBSET Window
  PROVE  [f EXCEPT !.n = n, !.windows = windows] \in StateFile
  BY DEF StateFile

\* Taking a block keeps the file's type and hands the process a stamp.
LEMMA AllocateType ==
  ASSUME TypeOK, NEW a \in Process, NEW count \in Nat,
         NEW floor, NEW windows, Allocate(a, count, floor, windows),
         copy # None => floor \in Nat \cup {None} /\ windows \in SUBSET Window
  PROVE  /\ file' \in StateFile \cup {None}
         /\ lock' \in Process \cup {None}
         /\ copy' \in StateFile \cup {None}
         /\ took' \in [Process -> StampSet \cup {None}]
<1>1. CASE copy = None
  BY <1>1 DEF Allocate, Write, TypeOK
<1>2. CASE copy # None
  <2>1. copy \in StateFile
    BY <1>2 DEF TypeOK
  <2>2. [copy EXCEPT !.n = @ + count, !.windows = windows] \in StateFile
    <3>1. copy.n + count \in Nat
      BY <2>1 DEF StateFile
    <3> QED  BY <1>2, <2>1, <3>1, CounterType
  <2>3. Stamp(copy.epoch, copy.n + 1, floor) \in StampSet
    BY <1>2, <2>1 DEF StateFile, Stamp, StampSet
  <2> QED  BY <1>2, <2>2, <2>3 DEF Allocate, Write, TypeOK
<1> QED  BY <1>1, <1>2

\* Every step of every process keeps the types.
LEMMA TypeStep ==
  ASSUME TypeOK, OnlyHooksOpen, [Next]_vars
  PROVE  TypeOK' /\ OnlyHooksOpen'
<1> USE CausalOrderAssumption DEF hub
<1>1. CASE UNCHANGED vars
  BY <1>1 DEF vars, TypeOK, OnlyHooksOpen
<1>2. ASSUME NEW a \in Process, Enter(a) PROVE TypeOK' /\ OnlyHooksOpen'
  BY <1>2 DEF Enter, TypeOK, OnlyHooksOpen
<1>3. ASSUME NEW a \in Process, Refused(a) PROVE TypeOK' /\ OnlyHooksOpen'
  BY <1>3 DEF Refused, Goto, AfterSection, Sections, Phase, Fault, state, TypeOK,
              OnlyHooksOpen
<1>4. ASSUME NEW a \in Process, Kill(a) PROVE TypeOK' /\ OnlyHooksOpen'
  BY <1>4 DEF Kill, Goto, Phase, Sections, Fault, TypeOK, OnlyHooksOpen
<1>5. ASSUME NEW a \in Process, OpenToolWindow(a) PROVE TypeOK' /\ OnlyHooksOpen'
  <2>1. a \in Hooks /\ CallOf[a] \in Calls
    BY <1>5 DEF OpenToolWindow, Inside, OnlyHooksOpen
  <2>2. ASSUME copy # None
        PROVE  [copy EXCEPT !.n = @ + 1,
                            !.windows = Opened(@, CallOf[a], copy.n + 1)] \in StateFile
    <3>1. copy \in StateFile
      BY <2>2 DEF TypeOK
    <3>2. Opened(copy.windows, CallOf[a], copy.n + 1) \in SUBSET Window
      BY <2>1, <3>1, OpenedType DEF StateFile
    <3>3. copy.n + 1 \in Nat
      BY <3>1 DEF StateFile
    <3> QED  BY <3>1, <3>2, <3>3, CounterType
  <2>3. file' \in StateFile \cup {None}
    BY <1>5, <2>2 DEF OpenToolWindow, Write, TypeOK
  <2> QED  BY <1>5, <2>3 DEF OpenToolWindow, Write, Goto, Phase, TypeOK, OnlyHooksOpen
<1>6. ASSUME NEW c \in Calls, Edit(c) \/ ToolFails(c) PROVE TypeOK' /\ OnlyHooksOpen'
  BY <1>6 DEF Edit, ToolFails, HooksOf, Phase, state, TypeOK, OnlyHooksOpen
<1>7. ASSUME NEW a \in Process, PostToolUse(a) PROVE TypeOK' /\ OnlyHooksOpen'
  <2>1. file # None => file.seen \in BOOLEAN
    BY DEF TypeOK, StateFile
  <2> QED  BY <1>7, <2>1 DEF PostToolUse, Goto, Phase, Sections, state, TypeOK,
                             OnlyHooksOpen
<1>8. ASSUME NEW a \in Process, Claim(a) PROVE TypeOK' /\ OnlyHooksOpen'
  <2>1. Fresh(a) \in StateFile /\ (copy # None => copy.seen \in BOOLEAN)
    BY FreshType DEF TypeOK, StateFile, Epoch
  <2> QED  BY <1>8, <2>1 DEF Claim, Write, Goto, Phase, Sections, TypeOK, OnlyHooksOpen
<1>9. ASSUME NEW a \in Process,
             \/ AllocateToolSeq(a) \/ CloseWindow(a)
             \/ AllocateOne(a) \/ AllocateLane(a)
      PROVE  TypeOK' /\ OnlyHooksOpen'
  <2>1. copy # None =>
          /\ copy.windows \in SUBSET Window
          /\ WindowFloor(copy.windows, CallOf[a]) \in Nat \cup {None}
          /\ ClosedWindow(copy.windows, CallOf[a]) \in SUBSET Window
    BY WindowFloorType, ClosedWindowType DEF TypeOK, StateFile
  <2>2. /\ file' \in StateFile \cup {None}
        /\ lock' \in Process \cup {None}
        /\ copy' \in StateFile \cup {None}
        /\ took' \in [Process -> StampSet \cup {None}]
    BY <1>9, <2>1, AllocateType
    DEF AllocateToolSeq, CloseWindow, AllocateOne, AllocateLane
  <2> QED  BY <1>9, <2>2
           DEF AllocateToolSeq, CloseWindow, AllocateOne, AllocateLane, Goto, Phase,
               TypeOK, OnlyHooksOpen
<1>10. ASSUME NEW a \in Process, Emit(a) PROVE TypeOK' /\ OnlyHooksOpen'
  BY <1>10 DEF Emit, Goto, Phase, Sections, Fault, state, TypeOK, OnlyHooksOpen
<1>11. ASSUME NEW a \in Process, Book(a) PROVE TypeOK' /\ OnlyHooksOpen'
  <2> DEFINE kept == IF a \in Hooks /\ took[a] = None
                     THEN ClosedWindow(copy.windows, CallOf[a]) ELSE copy.windows
  <2>1. ASSUME copy # None
        PROVE  [copy EXCEPT !.seen = @ \/ ~seen[a], !.windows = kept] \in StateFile
    <3>1. copy \in StateFile /\ copy.seen \in BOOLEAN
      BY <2>1 DEF TypeOK, StateFile
    <3>2. kept \in SUBSET Window
      BY <3>1, ClosedWindowType DEF StateFile
    <3> HIDE DEF kept
    <3> QED  BY <3>1, <3>2 DEF StateFile
  <2>2. file' \in StateFile \cup {None}
    BY <1>11, <2>1 DEF Book, Write, TypeOK
  <2> QED  BY <1>11, <2>2 DEF Book, Write, Goto, Phase, TypeOK, OnlyHooksOpen
<1>12. ASSUME NEW a \in Process,
              \/ PostToolUseFailure(a) \/ Fingerprint(a) \/ Declare(a) \/ Announce(a)
              \/ SessionEnd(a) \/ DeleteState(a) \/ ReportEnd(a) \/ LaneFindsNothing(a)
              \/ PostIntent(a) \/ Register(a)
       PROVE  TypeOK' /\ OnlyHooksOpen'
  <2>1. /\ file' \in {file, None}
        /\ UNCHANGED <<lock, copy, seen, took, wire>>
        /\ UNCHANGED faults \/ Fault
    BY <1>12 DEF PostToolUseFailure, Fingerprint, Declare, Announce, SessionEnd,
                 DeleteState, ReportEnd, LaneFindsNothing, PostIntent, Register, state
  <2>2. \E label \in Phase \ {"open"} : Goto(a, label)
    BY <1>12 DEF PostToolUseFailure, Fingerprint, Declare, Announce, SessionEnd,
                 DeleteState, ReportEnd, LaneFindsNothing, PostIntent, Register, Phase,
                 Sections
  <2>3. context' => open'
    BY <1>12 DEF PostToolUseFailure, Fingerprint, Declare, Announce, SessionEnd,
                 DeleteState, ReportEnd, LaneFindsNothing, PostIntent, Register, hub,
                 TypeOK
  <2> QED  BY <2>1, <2>2, <2>3 DEF Goto, Fault, TypeOK, OnlyHooksOpen
<1>13. ASSUME NEW a \in Process, Stop(a) PROVE TypeOK' /\ OnlyHooksOpen'
  <2>1. file # None => file.seen \in BOOLEAN
    BY DEF TypeOK, StateFile
  <2> QED  BY <1>13, <2>1 DEF Stop, Goto, Phase, Sections, state, TypeOK, OnlyHooksOpen
<1>14. ASSUME NEW a \in Process, SessionStart(a) PROVE TypeOK' /\ OnlyHooksOpen'
  <2>1. CarriedSeqEpoch(a) \in Epoch
    BY DEF CarriedSeqEpoch, TypeOK, StateFile, Epoch
  <2> QED  BY <1>14, <2>1 DEF SessionStart, Goto, Phase, state, TypeOK, OnlyHooksOpen
<1>15. ASSUME NEW a \in Process, Publish(a) PROVE TypeOK' /\ OnlyHooksOpen'
  <2>1. Carried(a, copy) \in StateFile
    BY FreshType DEF Carried, TypeOK, StateFile, Epoch
  <2> QED  BY <1>15, <2>1 DEF Publish, Write, Goto, Phase, TypeOK, OnlyHooksOpen
<1>16. ASSUME NEW a \in Process, PublishUnlocked(a) PROVE TypeOK' /\ OnlyHooksOpen'
  BY <1>16, FreshType DEF PublishUnlocked, Fault, Goto, Phase, TypeOK, OnlyHooksOpen, Epoch
<1>17. CASE Deliver
  <2>1. context' => open'
    BY <1>17 DEF Deliver, Ingest, TypeOK
  <2> QED  BY <1>17, <2>1 DEF Deliver, Fault, state, TypeOK, OnlyHooksOpen
<1> QED  BY <1>1, <1>2, <1>3, <1>4, <1>5, <1>6, <1>7, <1>8, <1>9, <1>10, <1>11, <1>12,
            <1>13, <1>14, <1>15, <1>16, <1>17 DEF Next, Step, HookStep

----------------------------------------------------------------------------
(* The three ways a step touches the counter.                              *)

\* A content that stands at the same position of the same counter as another.
SamePlace(content, other) ==
    /\ other # None
    /\ content.epoch = other.epoch
    /\ content.n = other.n

\* The phases only move on: a process never becomes one that has yet to start.
MovesOn == \A a \in Process : pc'[a] \in Early => pc[a] \in Early

\* A step that hands out nothing, and leaves in the file and with the holder
\* only what was in one of them, disturbs nothing.
LEMMA RewriteKeepsOrder ==
  ASSUME OrderInv, MovesOn, UNCHANGED issued,
         file' # None => SamePlace(file', file) \/ SamePlace(file', copy),
         copy' # None => SamePlace(copy', file) \/ SamePlace(copy', copy)
  PROVE  OrderInv'
<1>1. Ahead(file)' /\ Ahead(copy)'
  BY DEF OrderInv, Ahead, SamePlace
<1>2. \A epoch : InUse(epoch)' => InUse(epoch)
  BY DEF InUse, SamePlace
<1>3. EarlyIsUnused'
  BY <1>2 DEF OrderInv, EarlyIsUnused, MovesOn
<1> QED  BY <1>1, <1>3 DEF OrderInv, NoPositionTwice

\* A counter started by a process that had yet to start one is nobody else's.
LEMMA MintKeepsOrder ==
  ASSUME OrderInv, MovesOn, UNCHANGED issued, NEW a \in Process,
         pc[a] \in Early, pc'[a] \notin Early,
         file' = Fresh(a), copy' \in {copy, None}
  PROVE  OrderInv'
<1>1. \A p \in issued : p.epoch # a
  BY DEF OrderInv, EarlyIsUnused, InUse
<1>2. Ahead(file)' /\ Ahead(copy)'
  BY <1>1 DEF OrderInv, Ahead, Fresh
<1>3. \A epoch : InUse(epoch)' => InUse(epoch) \/ epoch = a
  BY DEF InUse, Fresh
<1>4. EarlyIsUnused'
  BY <1>3 DEF OrderInv, EarlyIsUnused, MovesOn
<1> QED  BY <1>2, <1>4 DEF OrderInv, NoPositionTwice

\* A block taken past the counter the holder read repeats no position, even
\* when the file has been replaced or deleted in the meantime.
LEMMA BlockKeepsOrder ==
  ASSUME OrderInv, MovesOn, TypeOK, NEW a \in Process, NEW count \in Nat,
         copy # None, copy' = None,
         file'.epoch = copy.epoch, file'.n = copy.n + count,
         issued' = issued \cup Positions(copy.epoch, copy.n + 1, count, a)
  PROVE  OrderInv'
<1> DEFINE block == Positions(copy.epoch, copy.n + 1, count, a)
<1>1. copy.epoch \in Epoch /\ copy.n \in Nat
  BY DEF TypeOK, StateFile
<1>2. \A p \in block : /\ p \in HandedOut
                       /\ p.epoch = copy.epoch
                       /\ copy.n < p.n /\ p.n <= copy.n + count
  <2> TAKE p \in block
  <2>1. PICK i \in 1..count :
          p = [epoch |-> copy.epoch, n |-> copy.n + 1 + i - 1, by |-> a, at |-> pc[a]]
    BY DEF Positions
  <2>2. pc[a] \in Phase /\ copy.n + 1 + i - 1 = copy.n + i
    BY <1>1 DEF TypeOK
  <2> QED  BY <1>1, <2>1, <2>2 DEF HandedOut
<1>3. \A p, q \in block : p.n = q.n => p = q
  BY DEF Positions
<1>4. \A p \in issued : p \in HandedOut /\ (p.epoch = copy.epoch => p.n <= copy.n)
  BY DEF OrderInv, Ahead
<1> HIDE DEF block
<1>5. issued' = issued \cup block
  BY DEF block
<1>6. issued' \subseteq HandedOut
  BY <1>2, <1>4, <1>5
<1>7. Ahead(file)' /\ Ahead(copy)'
  <2> SUFFICES ASSUME NEW p \in issued', p.epoch = copy.epoch
               PROVE  p.n <= copy.n + count
    BY DEF Ahead
  <2>1. p.n \in Nat
    BY <1>6 DEF HandedOut
  <2> QED  BY <1>1, <1>2, <1>4, <1>5, <2>1
<1>8. NoPositionTwice'
  <2> SUFFICES ASSUME NEW p \in issued', NEW q \in issued',
                      p.epoch = q.epoch, p.n = q.n
               PROVE  p = q
    BY DEF NoPositionTwice
  <2>1. p.n \in Nat
    BY <1>6 DEF HandedOut
  <2>2. CASE p \in issued /\ q \in issued
    BY <2>2 DEF OrderInv, NoPositionTwice
  <2>3. CASE p \in block /\ q \in block
    BY <1>3, <2>3
  <2>4. CASE (p \in issued /\ q \in block) \/ (p \in block /\ q \in issued)
    BY <1>1, <1>2, <1>4, <2>1, <2>4
  <2> QED  BY <1>5, <2>2, <2>3, <2>4
<1>9. \A epoch : InUse(epoch)' => InUse(epoch)
  BY <1>2, <1>5 DEF InUse
<1>10. EarlyIsUnused'
  BY <1>9 DEF OrderInv, EarlyIsUnused, MovesOn
<1> QED  BY <1>6, <1>7, <1>8, <1>10 DEF OrderInv

----------------------------------------------------------------------------
(* No position twice.                                                      *)

\* A step that neither writes the file nor hands anything out.
LEMMA QuietKeepsOrder ==
  ASSUME OrderInv, MovesOn, UNCHANGED issued,
         file' \in {file, None}, copy' \in {copy, file, None}
  PROVE  OrderInv'
<1>1. file' # None => SamePlace(file', file)
  BY DEF SamePlace
<1>2. copy' # None => SamePlace(copy', file) \/ SamePlace(copy', copy)
  BY DEF SamePlace
<1> QED  BY <1>1, <1>2, RewriteKeepsOrder

\* allocateSeq under the lock, with or without a file.
LEMMA AllocateKeepsOrder ==
  ASSUME OrderInv, MovesOn, TypeOK, NEW a \in Process, NEW count \in Nat,
         NEW floor, NEW windows, Allocate(a, count, floor, windows)
  PROVE  OrderInv'
<1>1. CASE copy = None
  BY <1>1, QuietKeepsOrder DEF Allocate, Write
<1>2. CASE copy # None
  <2>1. copy \in StateFile
    BY <1>2 DEF TypeOK
  <2> DEFINE written == [copy EXCEPT !.n = @ + count, !.windows = windows]
  <2>2. written.epoch = copy.epoch /\ written.n = copy.n + count
    BY <2>1 DEF StateFile
  <2>3. /\ file' = written /\ copy' = None
        /\ issued' = issued \cup Positions(copy.epoch, copy.n + 1, count, a)
    BY <1>2 DEF Allocate, Write
  <2> HIDE DEF written
  <2> QED  BY <1>2, <2>2, <2>3, BlockKeepsOrder
<1> QED  BY <1>1, <1>2

\* Every step of every process keeps what uniqueness rests on.
LEMMA OrderStep ==
  ASSUME TypeOK, OnlyHooksOpen, OrderInv, [Next]_vars
  PROVE  OrderInv'
<1> USE CausalOrderAssumption
<1>1. CASE UNCHANGED vars
  BY <1>1, QuietKeepsOrder DEF vars, MovesOn
<1>2. ASSUME NEW a \in Process, Enter(a) PROVE OrderInv'
  BY <1>2, QuietKeepsOrder DEF Enter, MovesOn, history
<1>3. ASSUME NEW a \in Process, Refused(a) PROVE OrderInv'
  <2>1. MovesOn
    BY <1>3 DEF Refused, Goto, AfterSection, Sections, Early, MovesOn, TypeOK
  <2> QED  BY <1>3, <2>1, QuietKeepsOrder DEF Refused, state, history
<1>4. ASSUME NEW a \in Process, Kill(a) PROVE OrderInv'
  <2>1. MovesOn
    BY <1>4 DEF Kill, Goto, Early, MovesOn, TypeOK
  <2> QED  BY <1>4, <2>1, QuietKeepsOrder DEF Kill, history
<1>5. ASSUME NEW a \in Process, OpenToolWindow(a) PROVE OrderInv'
  <2>1. MovesOn
    BY <1>5 DEF OpenToolWindow, Inside, Goto, Early, MovesOn, TypeOK
  <2>2. CASE copy = None
    BY <1>5, <2>1, <2>2, QuietKeepsOrder DEF OpenToolWindow, Write
  <2>3. CASE copy # None
    <3> DEFINE written == [copy EXCEPT !.n = @ + 1,
                             !.windows = Opened(@, CallOf[a], copy.n + 1)]
    <3>1. written.epoch = copy.epoch /\ written.n = copy.n + 1
      BY <2>3 DEF TypeOK, StateFile
    <3>2. /\ file' = written /\ copy' = None
          /\ issued' = issued \cup Positions(copy.epoch, copy.n + 1, 1, a)
      BY <1>5, <2>3 DEF OpenToolWindow, Write
    <3> HIDE DEF written
    <3> QED  BY <2>1, <2>3, <3>1, <3>2, BlockKeepsOrder
  <2> QED  BY <2>2, <2>3
<1>6. ASSUME NEW c \in Calls, Edit(c) \/ ToolFails(c) PROVE OrderInv'
  <2>1. MovesOn
    BY <1>6 DEF Edit, ToolFails, HooksOf, Process, Early, MovesOn
  <2> QED  BY <1>6, <2>1, QuietKeepsOrder DEF Edit, ToolFails, state, history
<1>7. ASSUME NEW a \in Process, PostToolUse(a) PROVE OrderInv'
  <2>1. MovesOn
    BY <1>7 DEF PostToolUse, Goto, Early, MovesOn, TypeOK
  <2> QED  BY <1>7, <2>1, QuietKeepsOrder DEF PostToolUse, state
<1>8. ASSUME NEW a \in Process, Claim(a) PROVE OrderInv'
  <2>1. MovesOn /\ pc[a] \in Early /\ pc'[a] \notin Early
    BY <1>8 DEF Claim, Inside, Goto, Early, MovesOn, TypeOK
  <2>2. CASE copy = None
    BY <1>8, <2>1, <2>2, MintKeepsOrder DEF Claim, Write, history
  <2>3. CASE copy # None
    BY <1>8, <2>1, <2>3, QuietKeepsOrder DEF Claim, Write, history
  <2> QED  BY <2>2, <2>3
<1>9. ASSUME NEW a \in Process,
             \/ AllocateToolSeq(a) \/ CloseWindow(a)
             \/ AllocateOne(a) \/ AllocateLane(a)
      PROVE  OrderInv'
  <2>1. MovesOn
    BY <1>9 DEF AllocateToolSeq, CloseWindow, AllocateOne, AllocateLane, Goto, Early,
                MovesOn, TypeOK
  <2> QED  BY <1>9, <2>1, AllocateKeepsOrder
           DEF AllocateToolSeq, CloseWindow, AllocateOne, AllocateLane
<1>10. ASSUME NEW a \in Process, Emit(a) PROVE OrderInv'
  <2>1. MovesOn
    BY <1>10 DEF Emit, Goto, Early, MovesOn, TypeOK
  <2> QED  BY <1>10, <2>1, QuietKeepsOrder DEF Emit, state, history
<1>11. ASSUME NEW a \in Process, Book(a) PROVE OrderInv'
  <2>1. MovesOn
    BY <1>11 DEF Book, Inside, Goto, Early, MovesOn, TypeOK
  <2>2. CASE copy = None
    BY <1>11, <2>1, <2>2, QuietKeepsOrder DEF Book, Write, history
  <2>3. CASE copy # None
    <3>1. SamePlace(file', copy) /\ copy' = None /\ UNCHANGED issued
      BY <1>11, <2>3 DEF Book, Write, SamePlace, TypeOK, StateFile, history
    <3> QED  BY <2>1, <3>1, RewriteKeepsOrder
  <2> QED  BY <2>2, <2>3
<1>12. ASSUME NEW a \in Process,
              \/ PostToolUseFailure(a) \/ Fingerprint(a) \/ Declare(a) \/ Announce(a)
              \/ SessionEnd(a) \/ DeleteState(a) \/ ReportEnd(a) \/ LaneFindsNothing(a)
              \/ PostIntent(a) \/ Stop(a)
       PROVE  OrderInv'
  <2>1. file' \in {file, None} /\ UNCHANGED <<copy, issued>>
    BY <1>12 DEF PostToolUseFailure, Fingerprint, Declare, Announce, SessionEnd,
                 DeleteState, ReportEnd, LaneFindsNothing, PostIntent, Stop, state, history
  <2>2. \E label \in Phase \ Early : Goto(a, label)
    BY <1>12 DEF PostToolUseFailure, Fingerprint, Declare, Announce, SessionEnd,
                 DeleteState, ReportEnd, LaneFindsNothing, PostIntent, Stop, Phase, Sections, Early
  <2>3. MovesOn
    BY <2>2 DEF Goto, Early, MovesOn, TypeOK
  <2> QED  BY <2>1, <2>3, QuietKeepsOrder
<1>13. ASSUME NEW a \in Process, SessionStart(a) \/ Register(a) PROVE OrderInv'
  <2>1. MovesOn
    BY <1>13 DEF SessionStart, Register, Goto, Early, MovesOn, TypeOK
  <2> QED  BY <1>13, <2>1, QuietKeepsOrder DEF SessionStart, Register, state, history
<1>14. ASSUME NEW a \in Process, Publish(a) PROVE OrderInv'
  <2>1. MovesOn /\ pc[a] \in Early /\ pc'[a] \notin Early
    BY <1>14 DEF Publish, Inside, Goto, Early, MovesOn, TypeOK
  <2>2. CASE copy = None
    BY <1>14, <2>1, <2>2, MintKeepsOrder DEF Publish, Write, Carried
  <2>3. CASE copy # None
    <3>1. SamePlace(file', copy) /\ copy' = None /\ UNCHANGED issued
      BY <1>14, <2>3 DEF Publish, Write, Carried, SamePlace, TypeOK, StateFile
    <3> QED  BY <2>1, <3>1, RewriteKeepsOrder
  <2> QED  BY <2>2, <2>3
<1>15. ASSUME NEW a \in Process, PublishUnlocked(a) PROVE OrderInv'
  <2>1. MovesOn /\ pc[a] \in Early /\ pc'[a] \notin Early
    BY <1>15 DEF PublishUnlocked, Goto, Early, MovesOn, TypeOK
  <2> QED  BY <1>15, <2>1, MintKeepsOrder DEF PublishUnlocked
<1>16. CASE Deliver
  BY <1>16, QuietKeepsOrder DEF Deliver, state, history, MovesOn
<1> QED  BY <1>1, <1>2, <1>3, <1>4, <1>5, <1>6, <1>7, <1>8, <1>9, <1>10, <1>11, <1>12,
            <1>13, <1>14, <1>15, <1>16 DEF Next, Step, HookStep

\* A session that just opened satisfies the invariant.
LEMMA InitIInv == Init => IInv
<1> SUFFICES ASSUME Init PROVE IInv
  OBVIOUS
<1> USE CausalOrderAssumption
<1>1. Fresh(First) \in StateFile
  BY FreshType DEF Epoch
<1>2. file \in {None, Fresh(First)} /\ lock = None /\ copy = None /\ issued = {}
  BY DEF Init
<1>3. pc \in [Process -> Phase] /\ OnlyHooksOpen
  BY DEF Init, Phase, Sections, OnlyHooksOpen
<1>4. TypeOK
  BY <1>1, <1>2, <1>3 DEF Init, TypeOK, Epoch
<1>5. \A a \in Process : a # First
  OBVIOUS
<1>6. EarlyIsUnused /\ Ahead(file) /\ Ahead(copy)
  BY <1>2, <1>5 DEF EarlyIsUnused, InUse, Ahead, Fresh
<1> QED  BY <1>2, <1>3, <1>4, <1>6 DEF IInv, OrderInv, NoPositionTwice

\* The invariant is inductive.
LEMMA IInvStep == IInv /\ [Next]_vars => IInv'
  BY TypeStep, OrderStep DEF IInv

\* The state file, the copy inside its lock and every process keep their type.
THEOREM TypeCorrect == Spec => []TypeOK
<1>1. IInv => TypeOK
  BY DEF IInv
<1> QED  BY <1>1, InitIInv, IInvStep, PTL DEF Spec

\* A position of a counter goes to one step of one process, whatever lock was
\* refused, whichever process died, and whoever deleted or rewrote the state
\* file under a process that was inside its lock.
THEOREM PositionsAreUnique == Spec => []NoPositionTwice
<1>1. IInv => NoPositionTwice
  BY DEF IInv, OrderInv
<1> QED  BY <1>1, InitIInv, IInvStep, PTL DEF Spec

----------------------------------------------------------------------------
(* The counter as it is promised.                                          *)

\* A block taken past what the holder read is one run of the promised counter.
LEMMA BlockIsTaken ==
  ASSUME IInv, NEW a \in Process, NEW count \in {1, Block}, copy # None,
         issued' = issued \cup Positions(copy.epoch, copy.n + 1, count, a)
  PROVE  Counter!Next
<1> DEFINE first == [epoch |-> copy.epoch, n |-> copy.n + 1, by |-> a, at |-> pc[a]]
<1>1. copy.n \in Nat /\ count \in Nat \ {0}
  BY CausalOrderAssumption DEF IInv, TypeOK, StateFile
<1>2. \A p \in issued : p.n \in Nat /\ (p.epoch = first.epoch => p.n < first.n)
  BY <1>1 DEF IInv, OrderInv, Ahead, HandedOut
<1>3. Counter!Run(first, count) = Positions(copy.epoch, copy.n + 1, count, a)
  <2> DEFINE At(n) == [epoch |-> copy.epoch, n |-> n, by |-> a, at |-> pc[a]]
  <2>1. \A i \in 0..(count - 1) : [first EXCEPT !.n = @ + i] = At(copy.n + 1 + i)
    OBVIOUS
  <2> HIDE DEF first, At
  <2>2. Counter!Run(first, count) = {At(copy.n + 1 + i) : i \in 0..(count - 1)}
    <3>1. Counter!Run(first, count) = {[first EXCEPT !.n = @ + i] : i \in 0..(count - 1)}
      BY DEF Counter!Run
    <3> QED  BY <2>1, <3>1
  <2>3. Positions(copy.epoch, copy.n + 1, count, a)
          = {At(copy.n + 1 + i - 1) : i \in 1..count}
    BY DEF Positions, At
  <2>4. ASSUME NEW i \in 0..(count - 1)
        PROVE  At(copy.n + 1 + i) \in {At(copy.n + 1 + j - 1) : j \in 1..count}
    <3>1. i + 1 \in 1..count /\ copy.n + 1 + (i + 1) - 1 = copy.n + 1 + i
      BY <1>1
    <3> QED  BY <3>1
  <2>5. ASSUME NEW j \in 1..count
        PROVE  At(copy.n + 1 + j - 1) \in {At(copy.n + 1 + i) : i \in 0..(count - 1)}
    <3>1. j - 1 \in 0..(count - 1) /\ copy.n + 1 + (j - 1) = copy.n + 1 + j - 1
      BY <1>1
    <3> QED  BY <3>1
  <2> QED  BY <2>2, <2>3, <2>4, <2>5
<1>4. first \in Positions(copy.epoch, copy.n + 1, count, a)
  <2>1. 1 \in 1..count /\ copy.n + 1 + 1 - 1 = copy.n + 1
    BY <1>1
  <2> QED  BY <2>1 DEF Positions
<1>5. first \in issued' \ issued
  BY <1>1, <1>2, <1>4
<1> HIDE DEF first
<1> QED  BY <1>2, <1>3, <1>5 DEF Counter!Next, Counter!Take

\* Every step takes one run from the counter, or nothing.
LEMMA StepTakes == IInv /\ [Next]_vars => [Counter!Next]_issued
<1> SUFFICES ASSUME IInv, [Next]_vars, issued' # issued PROVE Counter!Next
  OBVIOUS
<1>1. \E a \in Process : \/ OpenToolWindow(a) \/ AllocateToolSeq(a) \/ CloseWindow(a)
                         \/ AllocateOne(a) \/ AllocateLane(a)
  BY DEF vars, Next, Step, HookStep, Enter, Refused, Kill, PostToolUse, Claim,
     PostToolUseFailure, Fingerprint, Emit, LaneFindsNothing, Book, Declare, PostIntent,
     Stop, SessionStart, Register, Publish, PublishUnlocked, Announce, SessionEnd,
     DeleteState, ReportEnd, Edit, ToolFails, Deliver, history
<1>2. \E a \in Process, count \in {1, Block} :
        copy # None /\ issued' = issued \cup Positions(copy.epoch, copy.n + 1, count, a)
  BY <1>1 DEF OpenToolWindow, AllocateToolSeq, CloseWindow, AllocateOne, AllocateLane,
     Allocate
<1> QED  BY <1>2, BlockIsTaken

\* The session's counter implements the promised one: positions under one epoch are
\* handed out in ascending blocks, whoever deletes, rewrites or refuses the state
\* file (allocateSeq, publishSessionState, claimSessionState).
THEOREM CounterImplemented == Spec => CountsUp
<1>1. Init => Counter!Init
  BY DEF Init, Counter!Init
<1> QED  BY <1>1, InitIInv, IInvStep, StepTakes, PTL DEF Spec, CountsUp, Counter!Spec

----------------------------------------------------------------------------
(* What the hub's answer rests on.                                         *)

\* The phases of a process that has taken the stamp it takes, or gone without.
Past == {"emit", "book", "fingerprint", "report", "done"}

\* Which process stands where: the phases of a call, a fire and an end.
Roles ==
    \A a \in Process :
        /\ pc[a] \in {"open", "ready", "post", "failed", "close", "fingerprint", "claim"}
             => a \in Hooks
        /\ pc[a] \in {"register", "announce"} => a \in Hooks \cup Starts
        /\ pc[a] = "publish" => a \in Starts
        /\ pc[a] = "book" => a \in Hooks \cup Stops
        /\ pc[a] = "report" => a \in Ends
        /\ pc[a] \in {"allocate", "emit"} => a \notin Starts

TookOnce == \A a \in Process : pc[a] \notin Past => took[a] = None

\* A call that ran has left its PreToolUse hooks behind, and did not fail.
Ran ==
    \A h \in Hooks :
        /\ pc[h] \in {"open", "ready", "failed", "close", "fingerprint"}
             => preceded[CallOf[h]] = None
        /\ pc[h] \in {"post", "register", "claim", "announce", "allocate", "emit", "book"}
             => preceded[CallOf[h]] # None

\* What stood positioned before an edit keeps its position.
Positioned ==
    /\ preceded \in [Calls -> {None} \cup SUBSET Declarations]
    /\ \A c \in Calls :
         preceded[c] # None => \A d \in preceded[c] : took[d] # None

Progress == Roles /\ TookOnce /\ Ran /\ Positioned

Issued(epoch, n) == \E p \in issued : p.epoch = epoch /\ p.n = n

\* Whatever declaration stands before this floor, the edit of the call found it.
Covers(c, epoch, floor) ==
    preceded[c] # None =>
        \A d \in Declarations :
            took[d] # None /\ took[d].epoch = epoch /\ took[d].n < floor => d \in preceded[c]

WindowsHold(content) ==
    content # None =>
        \A w \in content.windows :
            Issued(content.epoch, w.floor) /\ Covers(w.key, content.epoch, w.floor)

StampsHold ==
    \A a \in Process : took[a] # None =>
        /\ \E p \in issued : p.by = a /\ p.epoch = took[a].epoch /\ p.n = took[a].n
        /\ took[a].n # 0
        /\ took[a].after # None =>
             /\ a \in Hooks
             /\ Issued(took[a].epoch, took[a].after)
             /\ Covers(CallOf[a], took[a].epoch, took[a].after)

\* A call's hooks take their positions after every declaration its edit found.
AfterTheEdit ==
    \A h \in Hooks :
        took[h] # None /\ preceded[CallOf[h]] # None =>
            \A d \in preceded[CallOf[h]] :
                took[d].epoch = took[h].epoch => took[d].n < took[h].n

Brackets == WindowsHold(file) /\ WindowsHold(copy) /\ StampsHold /\ AfterTheEdit

\* The events a process may write, and the one each of them is.
Writes(what, a) ==
    /\ a \in Process /\ pc[a] \in Past
    /\ \/ what = "target" /\ a \in Hooks /\ preceded[CallOf[a]] # None
       \/ what = "target" /\ a \in Stops
       \/ what = "failed" /\ a \in Hooks /\ preceded[CallOf[a]] = None
       \/ what = "intent" /\ a \in Declarations
       \/ what = "ended" /\ a \in Ends

SourceOf(a) == IF a \in Hooks THEN "tool_edit" ELSE "git_diff"

Written(what, a) ==
    Event(what, a,
          IF what \in {"intent", "ended"} THEN "emitted" ELSE SeqKindFor(SourceOf(a), took[a]),
          Position(took[a], "allocation_failed"))

Spooled ==
    {ContextRecord(a) : a \in Epoch}
    \cup [what : {"target", "failed"}, by : Process, source : {"tool_edit", "git_diff"},
          seq : StampSet \cup {None}]

Fits(record) ==
    record.what # "context" =>
        /\ record.what \in {"target", "failed"}
        /\ Writes(record.what, record.by)
        /\ record.source = SourceOf(record.by)
        /\ record.seq = took[record.by]

SpoolHolds == spool \in Seq(Spooled) /\ \A k \in 1..Len(spool) : Fits(spool[k])

RowsHold ==
    /\ open \/ rows = {}
    /\ \A r \in rows :
         \/ /\ r.what = "started" /\ r.reason # "epoch_conflict"
            /\ r.n \in {0, None} /\ r.epoch \in born \cup unfiled \cup {None}
         \/ Writes(r.what, r.by) /\ r = Written(r.what, r.by)

\* An entry of the ledger, as the ledger holds it.
EntryHolds(e) ==
    /\ e.session = "session" /\ e.provenance = "declared" /\ e.kind = "emitted"
    /\ e.names \subseteq Role /\ e.version \in Nat
    /\ e.by \in Declarations /\ pc[e.by] \in Past
    /\ LET stood == Position(took[e.by], "allocation_failed")
       IN  e.epoch = stood.epoch /\ e.n = stood.n /\ e.after = stood.after

ChainHolds == IsFiniteSet(chain) /\ \A e \in chain : EntryHolds(e)

Records == SpoolHolds /\ RowsHold /\ ChainHolds

\* Every epoch in use is a state file's, or was named to the hub for want of one.
Minted ==
    /\ IsFiniteSet(born)
    /\ file # None => file.epoch \in born
    /\ copy # None => copy.epoch \in born
    /\ \A a \in Process :
         /\ took[a] # None => took[a].epoch \in born
         /\ a \notin Starts => wire[a] = a
         /\ pc[a] = "register" => wire[a] \in born \cup unfiled

\* A step that leaves the phases, the stamps and the found declarations alone.
LEMMA ProgressUntouched ==
  ASSUME Progress, UNCHANGED <<pc, took, preceded>>
  PROVE  Progress'
BY DEF Progress, Roles, TookOnce, Ran, Positioned

\* A process moves on by itself.
LEMMA ProgressOfOne ==
  ASSUME TypeOK, Progress, NEW a \in Process, NEW label, Goto(a, label),
         UNCHANGED <<took, preceded>>,
         pc[a] \in Past => label \in Past,
         label \in {"post", "failed", "open"} => FALSE,
         label = "ready" => pc[a] = "open",
         label = "idle" => FALSE,
         label \in {"close", "fingerprint"} =>
            a \in Hooks /\ pc[a] \in {"failed", "close"},
         label = "claim" => a \in Hooks,
         label \in {"register", "announce"} => a \in Hooks \cup Starts,
         label = "publish" => a \in Starts,
         label = "book" => a \in Hooks \cup Stops,
         label = "report" => a \in Ends,
         label \in {"allocate", "emit"} => a \notin Starts,
         a \in Hooks /\ label \in {"register", "claim", "announce", "allocate", "emit", "book"} =>
            pc[a] \in {"post", "register", "claim", "announce", "allocate", "emit", "book"}
  PROVE  Progress'
<1>1. Roles'
  BY DEF Goto, TypeOK, Progress, Roles
<1>2. TookOnce'
  BY DEF Goto, TypeOK, Progress, TookOnce, Past
<1>3. Ran'
  <2> SUFFICES ASSUME NEW h \in Hooks
               PROVE  /\ pc'[h] \in {"open", "ready", "failed", "close", "fingerprint"}
                           => preceded[CallOf[h]] = None
                      /\ pc'[h] \in {"post", "register", "claim", "announce", "allocate", "emit",
                                     "book"}
                           => preceded[CallOf[h]] # None
    BY DEF Ran
  <2>1. CASE h # a
    BY <2>1 DEF Goto, TypeOK, Progress, Ran, Process
  <2>2. CASE h = a
    <3>1. pc'[h] = label
      BY <2>2 DEF Goto, TypeOK
    <3> QED  BY <2>2, <3>1 DEF Progress, Ran
  <2> QED  BY <2>1, <2>2
<1>4. Positioned'
  BY DEF Progress, Positioned
<1> QED  BY <1>1, <1>2, <1>3, <1>4 DEF Progress

\* A process takes its stamp, or goes without one.
LEMMA ProgressOfTaker ==
  ASSUME TypeOK, Progress, NEW a \in Process, NEW label \in {"emit", "fingerprint"},
         Goto(a, label), UNCHANGED preceded, pc[a] \in {"allocate", "close"},
         label = "emit" <=> pc[a] = "allocate",
         \E stamp : took' = [took EXCEPT ![a] = stamp]
  PROVE  Progress'
<1>1. Roles'
  BY DEF Goto, TypeOK, Progress, Roles
<1>2. TookOnce'
  BY DEF Goto, TypeOK, Progress, TookOnce, Past
<1>3. Ran'
  <2> SUFFICES ASSUME NEW h \in Hooks
               PROVE  /\ pc'[h] \in {"open", "ready", "failed", "close", "fingerprint"}
                           => preceded[CallOf[h]] = None
                      /\ pc'[h] \in {"post", "register", "claim", "announce", "allocate", "emit",
                                     "book"}
                           => preceded[CallOf[h]] # None
    BY DEF Ran
  <2>1. CASE h # a
    BY <2>1 DEF Goto, TypeOK, Progress, Ran, Process
  <2>2. CASE h = a
    <3>1. pc'[h] = label
      BY <2>2 DEF Goto, TypeOK
    <3> QED  BY <2>2, <3>1 DEF Progress, Ran
  <2> QED  BY <2>1, <2>2
<1>4. Positioned'
  <2>1. ASSUME NEW d \in Process, took[d] # None PROVE took'[d] = took[d]
    BY <2>1 DEF Progress, TookOnce, Past, TypeOK
  <2> QED  BY <2>1 DEF Progress, Positioned, Process
<1> QED  BY <1>1, <1>2, <1>3, <1>4 DEF Progress

\* The call runs, or fails to: all its hooks move on together.
LEMMA ProgressOfCall ==
  ASSUME TypeOK, Progress, NEW c \in Calls, Edit(c) \/ ToolFails(c)
  PROVE  Progress'
<1> USE CausalOrderAssumption
<1>1. /\ \A a \in Process : a \notin HooksOf(c) => pc'[a] = pc[a]
      /\ \A h \in HooksOf(c) : pc[h] = "ready" /\ pc'[h] \in {"post", "failed"}
      /\ UNCHANGED took
  BY DEF Edit, ToolFails, HooksOf, Process, history, state
<1>2. Roles' /\ TookOnce'
  BY <1>1 DEF Progress, Roles, TookOnce, HooksOf, Process, Past
<1>3. CASE Edit(c)
  <2> DEFINE found == {d \in Declarations : took[d] # None}
  <2>1. found # None
    BY DEF Process
  <2>2. preceded' = [preceded EXCEPT ![c] = found]
    BY <1>3 DEF Edit
  <2>3. \A h \in HooksOf(c) : pc'[h] = "post"
    BY <1>3 DEF Edit, HooksOf, Process
  <2>4. preceded \in [Calls -> {None} \cup SUBSET Declarations]
    BY DEF Progress, Positioned
  <2>5. Ran'
    BY <1>1, <2>1, <2>2, <2>3, <2>4 DEF Progress, Ran, HooksOf, Process
  <2>6. Positioned'
    BY <1>1, <2>2, <2>4 DEF Progress, Positioned
  <2> QED  BY <1>2, <2>5, <2>6 DEF Progress
<1>4. CASE ToolFails(c)
  <2>1. UNCHANGED preceded /\ \A h \in HooksOf(c) : pc'[h] = "failed"
    BY <1>4 DEF ToolFails, HooksOf, Process, history
  <2>2. Ran'
    BY <1>1, <2>1 DEF Progress, Ran, HooksOf, Process
  <2>3. Positioned'
    BY <1>1, <2>1 DEF Progress, Positioned
  <2> QED  BY <1>2, <2>2, <2>3 DEF Progress
<1> QED  BY <1>3, <1>4

LEMMA ProgressStep ==
  ASSUME TypeOK, Progress, [Next]_vars
  PROVE  Progress'
<1> USE CausalOrderAssumption DEF history
<1>1. CASE UNCHANGED vars
  BY <1>1, ProgressUntouched DEF vars
<1>2. CASE Deliver
  BY <1>2, ProgressUntouched DEF Deliver
<1>3. ASSUME NEW c \in Calls, Edit(c) \/ ToolFails(c) PROVE Progress'
  BY <1>3, ProgressOfCall
<1>4. ASSUME NEW a \in Process, Enter(a) PROVE Progress'
  BY <1>4, ProgressUntouched DEF Enter
<1>5. ASSUME NEW a \in Process,
             \/ AllocateToolSeq(a) \/ CloseWindow(a)
             \/ AllocateOne(a) \/ AllocateLane(a)
      PROVE  Progress'
  <2>1. \E stamp : took' = [took EXCEPT ![a] = stamp]
    <3>1. took' = took \/ \E stamp : took' = [took EXCEPT ![a] = stamp]
      BY <1>5 DEF AllocateToolSeq, CloseWindow, AllocateOne, AllocateLane, Allocate
    <3>2. took = [took EXCEPT ![a] = took[a]]
      BY DEF TypeOK
    <3> QED  BY <3>1, <3>2
  <2>2. /\ UNCHANGED preceded
        /\ \/ pc[a] = "allocate" /\ Goto(a, "emit")
           \/ pc[a] = "close" /\ Goto(a, "fingerprint")
    BY <1>5 DEF AllocateToolSeq, CloseWindow, AllocateOne, AllocateLane, Inside
  <2> QED  BY <2>1, <2>2, ProgressOfTaker
<1>6. ASSUME NEW a \in Process, Refused(a) PROVE Progress'
  <2>1. /\ pc[a] \in {"open", "allocate", "book", "close", "claim"}
        /\ AfterSection[pc[a]] = IF pc[a] = "open" THEN "ready" ELSE
                                 IF pc[a] = "allocate" THEN "emit" ELSE
                                 IF pc[a] = "close" THEN "fingerprint" ELSE "done"
        /\ Goto(a, AfterSection[pc[a]]) /\ UNCHANGED <<took, preceded>>
    BY <1>6 DEF Refused, Sections, AfterSection
  <2>2. pc[a] \in {"close", "claim", "open"} => a \in Hooks
    BY DEF Progress, Roles
  <2>3. pc[a] = "allocate" => a \notin Starts
    BY DEF Progress, Roles
  <2> QED  BY <2>1, <2>2, <2>3, ProgressOfOne DEF Past
<1>7. ASSUME NEW a \in Process, Kill(a) PROVE Progress'
  <2>1. pc[a] = "open" => a \in Hooks
    BY DEF Progress, Roles
  <2> QED  BY <1>7, <2>1, ProgressOfOne DEF Kill, Past
<1>8. ASSUME NEW a \in Process, OpenToolWindow(a) PROVE Progress'
  BY <1>8, ProgressOfOne DEF OpenToolWindow, Inside, Past
<1>9. ASSUME NEW a \in Process, PostToolUse(a) PROVE Progress'
  <2>1. a \in Hooks /\ a \notin Starts
    BY <1>9 DEF PostToolUse, Progress, Roles
  <2> QED  BY <1>9, <2>1, ProgressOfOne DEF PostToolUse, Past
<1>10. ASSUME NEW a \in Process, Claim(a) PROVE Progress'
  <2>1. a \in Hooks /\ a \notin Starts
    BY <1>10 DEF Claim, Inside, Progress, Roles
  <2> QED  BY <1>10, <2>1, ProgressOfOne DEF Claim, Inside, Past
<1>11. ASSUME NEW a \in Process, Emit(a) \/ LaneFindsNothing(a) PROVE Progress'
  BY <1>11, ProgressOfOne DEF Emit, LaneFindsNothing, Past
<1>12. ASSUME NEW a \in Process, Book(a) \/ Fingerprint(a) \/ ReportEnd(a) PROVE Progress'
  BY <1>12, ProgressOfOne DEF Book, Fingerprint, ReportEnd, Past
<1>13. ASSUME NEW a \in Process, PostToolUseFailure(a) PROVE Progress'
  <2>1. a \in Hooks /\ pc[a] = "failed" /\ UNCHANGED <<took, preceded>>
    BY <1>13 DEF PostToolUseFailure, Progress, Roles
  <2>2. Goto(a, "done") \/ Goto(a, "close")
    BY <1>13 DEF PostToolUseFailure
  <2> QED  BY <2>1, <2>2, ProgressOfOne DEF Past
<1>14. ASSUME NEW a \in Process, Declare(a) \/ Stop(a) \/ SessionEnd(a) PROVE Progress'
  <2>1. a \notin Starts /\ a \notin Hooks
    BY <1>14 DEF Declare, Stop, SessionEnd
  <2> QED  BY <1>14, <2>1, ProgressOfOne DEF Declare, Stop, SessionEnd, Past
<1>15. ASSUME NEW a \in Process, PostIntent(a) \/ DeleteState(a) PROVE Progress'
  BY <1>15, ProgressOfOne DEF PostIntent, DeleteState, Past
<1>16. ASSUME NEW a \in Process, SessionStart(a) PROVE Progress'
  <2>1. a \notin Hooks
    BY <1>16 DEF SessionStart
  <2> QED  BY <1>16, <2>1, ProgressOfOne DEF SessionStart, Past
<1>17. ASSUME NEW a \in Process, Register(a) PROVE Progress'
  <2>1. /\ UNCHANGED <<took, preceded>> /\ pc[a] = "register" /\ a \in Hooks \cup Starts
        /\ Goto(a, "done") \/ Goto(a, IF a \in Starts THEN "publish" ELSE "claim")
    BY <1>17 DEF Register, Progress, Roles
  <2> QED  BY <2>1, ProgressOfOne DEF Past
<1>18. ASSUME NEW a \in Process, Publish(a) \/ PublishUnlocked(a) PROVE Progress'
  <2>1. a \in Starts /\ pc[a] = "publish" /\ a \notin Hooks
    BY <1>18 DEF Publish, PublishUnlocked, Inside, Progress, Roles
  <2> QED  BY <1>18, <2>1, ProgressOfOne DEF Publish, PublishUnlocked, Past
<1>19. ASSUME NEW a \in Process, Announce(a) PROVE Progress'
  BY <1>19, ProgressOfOne DEF Announce, Past
<1> QED  BY <1>1, <1>2, <1>3, <1>4, <1>5, <1>6, <1>7, <1>8, <1>9, <1>10, <1>11, <1>12,
            <1>13, <1>14, <1>15, <1>16, <1>17, <1>18, <1>19 DEF Next, Step, HookStep

----------------------------------------------------------------------------
(* What a step does to the stamps, the found declarations and the windows. *)

\* A step gives out no stamp, or one: the next position after what the holder read.
Stamps(a) ==
    /\ pc[a] \in {"allocate", "close"} /\ copy # None
    /\ \E count \in {1, Block} :
         issued' = issued \cup Positions(copy.epoch, copy.n + 1, count, a)
    /\ UNCHANGED preceded
    /\ \E floor :
         /\ took' = [took EXCEPT ![a] = Stamp(copy.epoch, copy.n + 1, floor)]
         /\ floor # None => a \in Hooks /\ floor = WindowFloor(copy.windows, CallOf[a])

\* The edit of a call finds the declarations that stand.
Finds(c) ==
    /\ \A h \in HooksOf(c) : pc[h] = "ready"
    /\ preceded' = [preceded EXCEPT ![c] = {d \in Declarations : took[d] # None}]
    /\ UNCHANGED <<took, issued>>

LEMMA StampOrFind ==
  ASSUME [Next]_vars
  PROVE  \/ UNCHANGED <<took, preceded>>
         \/ \E a \in Process : Stamps(a)
         \/ \E c \in Calls : Finds(c)
<1> USE DEF history
<1>1. CASE UNCHANGED vars
  BY <1>1 DEF vars
<1>2. ASSUME NEW c \in Calls, Edit(c) \/ ToolFails(c)
      PROVE  UNCHANGED <<took, preceded>> \/ Finds(c)
  BY <1>2 DEF Edit, ToolFails, Finds
<1>3. ASSUME NEW a \in Process,
             \/ AllocateToolSeq(a) \/ CloseWindow(a)
             \/ AllocateOne(a) \/ AllocateLane(a)
      PROVE  UNCHANGED <<took, preceded>> \/ Stamps(a)
  <2>1. /\ pc[a] \in {"allocate", "close"} /\ UNCHANGED preceded
        /\ \E count \in {1, Block} : \E floor, windows :
             /\ Allocate(a, count, floor, windows)
             /\ floor # None => a \in Hooks /\ floor = WindowFloor(copy.windows, CallOf[a])
    BY <1>3 DEF AllocateToolSeq, CloseWindow, AllocateOne, AllocateLane, Inside
  <2> QED  BY <2>1 DEF Allocate, Stamps
<1>4. ASSUME NEW a \in Process,
             \/ Enter(a) \/ Refused(a) \/ Kill(a) \/ OpenToolWindow(a) \/ PostToolUse(a)
             \/ Claim(a) \/ PostToolUseFailure(a) \/ Fingerprint(a) \/ Emit(a)
             \/ LaneFindsNothing(a) \/ Book(a) \/ Declare(a) \/ PostIntent(a) \/ Stop(a)
             \/ SessionStart(a) \/ Register(a) \/ Publish(a) \/ PublishUnlocked(a)
             \/ Announce(a) \/ SessionEnd(a) \/ DeleteState(a) \/ ReportEnd(a)
      PROVE  UNCHANGED <<took, preceded>>
  BY <1>4 DEF Enter, Refused, Kill, OpenToolWindow, PostToolUse, Claim, PostToolUseFailure,
     Fingerprint, Emit, LaneFindsNothing, Book, Declare, PostIntent, Stop, SessionStart, Register,
     Publish, PublishUnlocked, Announce, SessionEnd, DeleteState, ReportEnd
<1>5. CASE Deliver
  BY <1>5 DEF Deliver
<1> QED  BY <1>1, <1>2, <1>3, <1>4, <1>5 DEF Next, Step, HookStep

\* What is handed out stays handed out.
LEMMA IssuedGrows ==
  ASSUME [Next]_vars
  PROVE  issued \subseteq issued'
<1>1. UNCHANGED issued \/ \E block : issued' = issued \cup block
  BY DEF vars, Next, Step, HookStep, Enter, Refused, Kill, PostToolUse, Claim, OpenToolWindow,
     AllocateToolSeq, CloseWindow, AllocateOne, AllocateLane, Allocate,
     PostToolUseFailure, Fingerprint, Emit, LaneFindsNothing, Book, Declare, PostIntent,
     Stop, SessionStart, Register, Publish, PublishUnlocked, Announce, SessionEnd,
     DeleteState, ReportEnd, Edit, ToolFails, Deliver, history
<1> QED  BY <1>1

\* The windows of a content come from one that stood, or are none, but for the
\* one that a PreToolUse opens.
Descends(content) ==
    \/ content = None
    \/ content.windows = {}
    \/ \E old \in {file, copy} : /\ old # None /\ content.epoch = old.epoch
                                 /\ content.windows \subseteq old.windows
    \/ \E h \in Hooks :
         /\ copy # None /\ pc[h] = "open" /\ content.epoch = copy.epoch
         /\ content.windows \subseteq
              copy.windows \cup {[key |-> CallOf[h], floor |-> copy.n + 1]}
         /\ issued' = issued \cup Positions(copy.epoch, copy.n + 1, 1, h)

LEMMA AllocateDescends ==
  ASSUME TypeOK, NEW a \in Process, NEW count \in Nat, NEW floor, NEW windows,
         Allocate(a, count, floor, windows),
         copy # None => windows \subseteq copy.windows
  PROVE  Descends(file') /\ Descends(copy')
BY DEF Allocate, Write, Descends, TypeOK, StateFile

LEMMA ContentDescends ==
  ASSUME TypeOK, OnlyHooksOpen, [Next]_vars
  PROVE  Descends(file') /\ Descends(copy')
<1> USE CausalOrderAssumption
<1>0. ASSUME file' \in {file, None}, copy' \in {copy, file, None}
      PROVE  Descends(file') /\ Descends(copy')
  BY <1>0 DEF Descends
<1>1. CASE UNCHANGED vars
  BY <1>0, <1>1 DEF vars
<1>2. ASSUME NEW c \in Calls, Edit(c) \/ ToolFails(c) PROVE Descends(file') /\ Descends(copy')
  BY <1>0, <1>2 DEF Edit, ToolFails, state
<1>3. ASSUME NEW a \in Process,
             \/ AllocateToolSeq(a) \/ CloseWindow(a)
             \/ AllocateOne(a) \/ AllocateLane(a)
      PROVE  Descends(file') /\ Descends(copy')
  <2>1. ClosedWindow(copy.windows, CallOf[a]) \subseteq copy.windows
    BY DEF ClosedWindow
  <2>2. \E count \in Nat : \E floor, windows :
          Allocate(a, count, floor, windows) /\ windows \subseteq copy.windows
    BY <1>3, <2>1 DEF AllocateToolSeq, CloseWindow, AllocateOne, AllocateLane
  <2> QED  BY <2>2, AllocateDescends
<1>4. ASSUME NEW a \in Process,
             \/ Enter(a) \/ Refused(a) \/ Kill(a) \/ PostToolUse(a)
             \/ PostToolUseFailure(a) \/ Fingerprint(a) \/ Emit(a)
             \/ LaneFindsNothing(a) \/ Declare(a) \/ PostIntent(a) \/ Stop(a)
             \/ SessionStart(a) \/ Register(a)
             \/ Announce(a) \/ SessionEnd(a) \/ DeleteState(a) \/ ReportEnd(a)
      PROVE  Descends(file') /\ Descends(copy')
  BY <1>0, <1>4 DEF Enter, Refused, Kill, PostToolUse, PostToolUseFailure,
     Fingerprint, Emit, LaneFindsNothing, Declare, PostIntent, Stop, SessionStart, Register,
     Announce, SessionEnd, DeleteState, ReportEnd, state
<1>5. CASE Deliver
  BY <1>0, <1>5 DEF Deliver, state
<1>6. ASSUME NEW a \in Process, OpenToolWindow(a) PROVE Descends(file') /\ Descends(copy')
  <2>1. CASE copy = None
    BY <1>0, <1>6, <2>1 DEF OpenToolWindow, Write
  <2>2. CASE copy # None
    <3> DEFINE all == copy.windows \cup {[key |-> CallOf[a], floor |-> copy.n + 1]}
    <3>1. a \in Hooks /\ pc[a] = "open"
      BY <1>6 DEF OpenToolWindow, Inside, OnlyHooksOpen
    <3>2. Opened(copy.windows, CallOf[a], copy.n + 1) \subseteq all
      BY DEF Opened
    <3>3. /\ file'.epoch = copy.epoch /\ copy' = None
          /\ file'.windows = Opened(copy.windows, CallOf[a], copy.n + 1)
          /\ issued' = issued \cup Positions(copy.epoch, copy.n + 1, 1, a)
      <4> DEFINE opened == Opened(copy.windows, CallOf[a], copy.n + 1)
                 written == [copy EXCEPT !.n = @ + 1, !.windows = opened]
      <4>1. copy \in StateFile
        BY <2>2 DEF TypeOK
      <4> HIDE DEF opened
      <4>2. written.epoch = copy.epoch /\ written.windows = opened
        BY <4>1 DEF StateFile
      <4>3. /\ file' = written /\ copy' = None
            /\ issued' = issued \cup Positions(copy.epoch, copy.n + 1, 1, a)
        BY <1>6, <2>2 DEF OpenToolWindow, Write, opened
      <4> QED  BY <4>2, <4>3 DEF opened
    <3> QED  BY <2>2, <3>1, <3>2, <3>3 DEF Descends
  <2> QED  BY <2>1, <2>2
<1>7. ASSUME NEW a \in Process, Claim(a) \/ Publish(a) \/ PublishUnlocked(a)
      PROVE  Descends(file') /\ Descends(copy')
  <2>1. Fresh(a).windows = {}
    BY DEF Fresh
  <2>2. copy # None => Carried(a, copy).epoch = copy.epoch /\ Carried(a, copy).windows = copy.windows
    BY DEF Carried, TypeOK, StateFile
  <2>3. copy = None => Carried(a, copy) = Fresh(a)
    BY DEF Carried
  <2>4. CASE file' = Fresh(a) /\ copy' \in {copy, None}
    BY <2>1, <2>4 DEF Descends
  <2>5. CASE Claim(a)
    BY <1>0, <2>4, <2>5 DEF Claim, Write
  <2>6. CASE Publish(a)
    BY <2>2, <2>3, <2>4, <2>6 DEF Publish, Write, Descends
  <2>7. CASE PublishUnlocked(a)
    BY <2>4, <2>7 DEF PublishUnlocked
  <2> QED  BY <1>7, <2>5, <2>6, <2>7
<1>8. ASSUME NEW a \in Process, Book(a) PROVE Descends(file') /\ Descends(copy')
  <2>1. CASE copy = None
    BY <1>0, <1>8, <2>1 DEF Book, Write
  <2>2. CASE copy # None
    <3>1. ClosedWindow(copy.windows, CallOf[a]) \subseteq copy.windows
      BY DEF ClosedWindow
    <3>2. file'.epoch = copy.epoch /\ file'.windows \subseteq copy.windows /\ copy' = None
      BY <1>8, <2>2, <3>1 DEF Book, Write, TypeOK, StateFile
    <3> QED  BY <2>2, <3>2 DEF Descends
  <2> QED  BY <2>1, <2>2
<1> QED  BY <1>1, <1>2, <1>3, <1>4, <1>5, <1>6, <1>7, <1>8 DEF Next, Step, HookStep

----------------------------------------------------------------------------
(* The floors and the declarations below them.                             *)

\* The position a stamp names.
LEMMA StampIsIssued ==
  ASSUME TypeOK, NEW a \in Process, NEW count \in {1, Block}, copy # None,
         issued' = issued \cup Positions(copy.epoch, copy.n + 1, count, a)
  PROVE  [epoch |-> copy.epoch, n |-> copy.n + 1, by |-> a, at |-> pc[a]] \in issued'
<1>1. copy.n \in Nat /\ 1 \in 1..count
  BY CausalOrderAssumption DEF TypeOK, StateFile
<1>2. copy.n + 1 + 1 - 1 = copy.n + 1
  BY <1>1
<1> QED  BY <1>1, <1>2 DEF Positions

\* A floor is issued once and for all, and no later declaration stands below it.
LEMMA CoversStays ==
  ASSUME IInv, Progress, [Next]_vars,
         NEW c \in Calls, NEW epoch, NEW floor, Issued(epoch, floor), Covers(c, epoch, floor)
  PROVE  Issued(epoch, floor)' /\ Covers(c, epoch, floor)'
<1>1. Issued(epoch, floor)'
  BY IssuedGrows DEF Issued
<1>2. CASE UNCHANGED <<took, preceded>>
  BY <1>1, <1>2 DEF Covers
<1>3. ASSUME NEW x \in Calls, Finds(x) PROVE Covers(c, epoch, floor)'
  <2>1. preceded \in [Calls -> {None} \cup SUBSET Declarations] /\ UNCHANGED took
    BY <1>3 DEF Finds, Progress, Positioned
  <2>2. preceded'[c] \in {preceded[c], {d \in Declarations : took[d] # None}}
    BY <1>3, <2>1 DEF Finds
  <2> QED  BY <2>1, <2>2 DEF Covers
<1>4. ASSUME NEW a \in Process, Stamps(a) PROVE Covers(c, epoch, floor)'
  <2>1. PICK after : took' = [took EXCEPT ![a] = Stamp(copy.epoch, copy.n + 1, after)]
    BY <1>4 DEF Stamps
  <2>2. copy.n \in Nat /\ (epoch = copy.epoch => floor \in Nat /\ floor <= copy.n)
    BY <1>4 DEF IInv, OrderInv, Ahead, Issued, HandedOut, TypeOK, StateFile, Stamps
  <2>3. ASSUME NEW d \in Declarations, took'[d] # None, took'[d].epoch = epoch,
               took'[d].n < floor
        PROVE  took'[d] = took[d]
    BY <2>1, <2>2, <2>3 DEF Stamp, Process, IInv, TypeOK
  <2> QED  BY <1>4, <2>3 DEF Covers, Stamps
<1> QED  BY <1>1, <1>2, <1>3, <1>4, StampOrFind

\* Whatever stands in the file, or with the holder, after a step has such floors.
LEMMA WindowsStay ==
  ASSUME IInv, Progress, WindowsHold(file), WindowsHold(copy), [Next]_vars,
         NEW content \in StateFile \cup {None}, Descends(content)
  PROVE  content # None =>
           \A w \in content.windows :
              Issued(content.epoch, w.floor)' /\ Covers(w.key, content.epoch, w.floor)'
<1> USE CausalOrderAssumption
<1> SUFFICES ASSUME content # None, NEW w \in content.windows
             PROVE  Issued(content.epoch, w.floor)' /\ Covers(w.key, content.epoch, w.floor)'
  OBVIOUS
<1>1. ASSUME NEW old \in {file, copy}, old # None, content.epoch = old.epoch, w \in old.windows
      PROVE  Issued(content.epoch, w.floor)' /\ Covers(w.key, content.epoch, w.floor)'
  <2>1. w.key \in Calls
    BY <1>1 DEF IInv, TypeOK, StateFile, Window
  <2>2. Issued(content.epoch, w.floor) /\ Covers(w.key, content.epoch, w.floor)
    BY <1>1 DEF WindowsHold
  <2> QED  BY <2>1, <2>2, CoversStays
<1>2. ASSUME NEW h \in Hooks, copy # None, pc[h] = "open", content.epoch = copy.epoch,
             w = [key |-> CallOf[h], floor |-> copy.n + 1],
             issued' = issued \cup Positions(copy.epoch, copy.n + 1, 1, h)
      PROVE  Issued(content.epoch, w.floor)' /\ Covers(w.key, content.epoch, w.floor)'
  <2>1. Issued(content.epoch, w.floor)'
    <3>1. [epoch |-> copy.epoch, n |-> copy.n + 1, by |-> h, at |-> pc[h]] \in issued'
      BY <1>2, StampIsIssued DEF IInv, Process
    <3>2. w.floor = copy.n + 1
      BY <1>2
    <3> QED  BY <1>2, <3>1, <3>2 DEF Issued
  <2>2. preceded[CallOf[h]] = None
    BY <1>2 DEF Progress, Ran
  <2>3. preceded'[CallOf[h]] = None
    <3>1. CASE UNCHANGED preceded
      BY <2>2, <3>1
    <3>2. ASSUME NEW c \in Calls, Finds(c) PROVE preceded'[CallOf[h]] = None
      <4>1. c # CallOf[h]
        BY <1>2, <3>2 DEF Finds, HooksOf
      <4> QED  BY <2>2, <3>2, <4>1 DEF Finds, Progress, Positioned
    <3> QED  BY <3>1, <3>2, StampOrFind DEF Stamps
  <2> QED  BY <1>2, <2>1, <2>3 DEF Covers
<1> QED  BY <1>1, <1>2 DEF Descends

LEMMA StampsStay ==
  ASSUME IInv, Progress, Brackets, [Next]_vars
  PROVE  StampsHold'
<1> USE CausalOrderAssumption
<1> SUFFICES ASSUME NEW a \in Process, took'[a] # None
             PROVE  /\ \E p \in issued' : p.by = a /\ p.epoch = took'[a].epoch /\ p.n = took'[a].n
                    /\ took'[a].n # 0
                    /\ took'[a].after # None =>
                         /\ a \in Hooks
                         /\ Issued(took[a].epoch, took[a].after)'
                         /\ Covers(CallOf[a], took[a].epoch, took[a].after)'
  BY DEF StampsHold
<1>1. CASE took'[a] = took[a]
  <2>1. /\ \E p \in issued' : p.by = a /\ p.epoch = took'[a].epoch /\ p.n = took'[a].n
        /\ took'[a].n # 0
    BY <1>1, IssuedGrows DEF Brackets, StampsHold
  <2>2. ASSUME took[a].after # None
        PROVE  /\ a \in Hooks
               /\ Issued(took[a].epoch, took[a].after)'
               /\ Covers(CallOf[a], took[a].epoch, took[a].after)'
    <3>1. PICK epoch, floor : epoch = took[a].epoch /\ floor = took[a].after
      OBVIOUS
    <3>2. a \in Hooks /\ Issued(epoch, floor) /\ Covers(CallOf[a], epoch, floor)
      BY <1>1, <2>2, <3>1 DEF Brackets, StampsHold
    <3>3. Issued(epoch, floor)' /\ Covers(CallOf[a], epoch, floor)'
      BY <3>2, CoversStays
    <3> QED  BY <1>1, <3>1, <3>2, <3>3 DEF Issued, Covers
  <2> QED  BY <1>1, <2>1, <2>2
<1>2. CASE took'[a] # took[a]
  <2>1. Stamps(a)
    <3>1. ASSUME NEW x \in Process, Stamps(x) PROVE x = a
      BY <1>2, <3>1 DEF Stamps, IInv, TypeOK
    <3> QED  BY <1>2, <3>1, StampOrFind DEF Finds
  <2>2. PICK floor :
          /\ took' = [took EXCEPT ![a] = Stamp(copy.epoch, copy.n + 1, floor)]
          /\ floor # None => a \in Hooks /\ floor = WindowFloor(copy.windows, CallOf[a])
    BY <2>1 DEF Stamps
  <2>3. took'[a] = Stamp(copy.epoch, copy.n + 1, floor)
    BY <2>2 DEF IInv, TypeOK
  <2>4. took'[a].epoch = copy.epoch /\ took'[a].n = copy.n + 1 /\ took'[a].after = floor
    BY <2>3 DEF Stamp
  <2>5. [epoch |-> copy.epoch, n |-> copy.n + 1, by |-> a, at |-> pc[a]] \in issued'
    BY <2>1, StampIsIssued DEF Stamps, IInv
  <2>6. copy.n \in Nat
    BY <2>1 DEF Stamps, IInv, TypeOK, StateFile
  <2>7. ASSUME floor # None
        PROVE  /\ a \in Hooks
               /\ Issued(took[a].epoch, took[a].after)'
               /\ Covers(CallOf[a], took[a].epoch, took[a].after)'
    <3> DEFINE own == OwnWindows(copy.windows, CallOf[a])
    <3>1. own # {} /\ floor = Oldest(own).floor
      BY <2>2, <2>7 DEF WindowFloor
    <3>2. own \in SUBSET Window
      BY <2>1 DEF Stamps, IInv, TypeOK, StateFile, OwnWindows
    <3>3. Oldest(own) \in own
      <4> HIDE DEF own
      <4> QED  BY <3>1, <3>2, OldestIsAWindow
    <3>4. Oldest(own) \in copy.windows /\ Oldest(own).key = CallOf[a]
      BY <3>3 DEF OwnWindows
    <3>5. Issued(copy.epoch, floor) /\ Covers(CallOf[a], copy.epoch, floor)
      BY <2>1, <3>1, <3>4 DEF Brackets, WindowsHold, Stamps
    <3>6. PICK epoch : epoch = copy.epoch
      OBVIOUS
    <3>7. Issued(epoch, floor)' /\ Covers(CallOf[a], epoch, floor)'
      BY <2>2, <2>7, <3>5, <3>6, CoversStays
    <3> QED  BY <2>2, <2>4, <2>7, <3>6, <3>7 DEF Issued, Covers
  <2> QED  BY <2>4, <2>5, <2>6, <2>7
<1> QED  BY <1>1, <1>2

LEMMA AfterTheEditStays ==
  ASSUME IInv, Progress, Brackets, [Next]_vars
  PROVE  AfterTheEdit'
<1> USE CausalOrderAssumption
<1> SUFFICES ASSUME NEW h \in Hooks, took'[h] # None, preceded'[CallOf[h]] # None,
                    NEW d \in preceded'[CallOf[h]], took'[d].epoch = took'[h].epoch
             PROVE  took'[d].n < took'[h].n
  BY DEF AfterTheEdit
<1>1. CASE UNCHANGED <<took, preceded>>
  BY <1>1 DEF Brackets, AfterTheEdit
<1>2. ASSUME NEW c \in Calls, Finds(c) PROVE took'[d].n < took'[h].n
  <2>1. c # CallOf[h]
    BY <1>2 DEF Finds, HooksOf, Progress, TookOnce, Past, Process
  <2>2. preceded'[CallOf[h]] = preceded[CallOf[h]] /\ UNCHANGED took
    BY <1>2, <2>1 DEF Finds, Progress, Positioned
  <2> QED  BY <2>2 DEF Brackets, AfterTheEdit
<1>3. ASSUME NEW a \in Process, Stamps(a) PROVE took'[d].n < took'[h].n
  <2>1. PICK floor : took' = [took EXCEPT ![a] = Stamp(copy.epoch, copy.n + 1, floor)]
    BY <1>3 DEF Stamps
  <2>2. preceded' = preceded /\ copy # None /\ took[a] = None
    BY <1>3 DEF Stamps, Progress, TookOnce, Past
  <2>3. d \in Declarations /\ took[d] # None
    BY <2>2 DEF Progress, Positioned
  <2>4. took'[d] = took[d]
    BY <2>1, <2>2, <2>3 DEF Process, IInv, TypeOK
  <2>5. CASE a = h
    <3>1. took'[h].epoch = copy.epoch /\ took'[h].n = copy.n + 1
      BY <2>1, <2>5 DEF Stamp, IInv, TypeOK, Process
    <3>2. took[d].epoch = copy.epoch => took[d].n \in Nat /\ copy.n \in Nat /\ took[d].n <= copy.n
      BY <2>2, <2>3 DEF Brackets, StampsHold, IInv, OrderInv, Ahead, HandedOut, TypeOK, StateFile,
                        Process
    <3> QED  BY <2>4, <3>1, <3>2
  <2>6. CASE a # h
    <3>1. took'[h] = took[h]
      BY <2>1, <2>6 DEF IInv, TypeOK, Process
    <3> QED  BY <2>2, <2>4, <3>1 DEF Brackets, AfterTheEdit
  <2> QED  BY <2>5, <2>6
<1> QED  BY <1>1, <1>2, <1>3, StampOrFind

LEMMA BracketsStep ==
  ASSUME IInv, Progress, Brackets, [Next]_vars
  PROVE  Brackets'
<1>1. file' \in StateFile \cup {None} /\ copy' \in StateFile \cup {None}
  BY IInvStep DEF IInv, TypeOK
<1>2. Descends(file') /\ Descends(copy')
  BY ContentDescends DEF IInv
<1>3. WindowsHold(file)'
  <2>1. PICK content : content = file'
    OBVIOUS
  <2>2. content # None =>
          \A w \in content.windows :
             Issued(content.epoch, w.floor)' /\ Covers(w.key, content.epoch, w.floor)'
    BY <1>1, <1>2, <2>1, WindowsStay DEF Brackets
  <2> QED  BY <2>1, <2>2 DEF WindowsHold
<1>4. WindowsHold(copy)'
  <2>1. PICK content : content = copy'
    OBVIOUS
  <2>2. content # None =>
          \A w \in content.windows :
             Issued(content.epoch, w.floor)' /\ Covers(w.key, content.epoch, w.floor)'
    BY <1>1, <1>2, <2>1, WindowsStay DEF Brackets
  <2> QED  BY <2>1, <2>2 DEF WindowsHold
<1> QED  BY <1>3, <1>4, StampsStay, AfterTheEditStays DEF Brackets

----------------------------------------------------------------------------
(* The records on their way, the rows and the ledger.                      *)

LEMMA PastStays ==
  ASSUME TypeOK, Progress, [Next]_vars, NEW b \in Process, pc[b] \in Past
  PROVE  pc'[b] \in Past
<1> USE CausalOrderAssumption DEF Past
<1>0. ASSUME NEW a \in Process, NEW label, Goto(a, label), pc[a] \in Past => label \in Past
      PROVE  pc'[b] \in Past
  BY <1>0 DEF Goto, TypeOK
<1>1. CASE UNCHANGED pc
  BY <1>1
<1>2. ASSUME NEW c \in Calls, Edit(c) \/ ToolFails(c) PROVE pc'[b] \in Past
  BY <1>2 DEF Edit, ToolFails, HooksOf
<1>3. ASSUME NEW a \in Process, Refused(a) PROVE pc'[b] \in Past
  <2>1. pc[a] = "book" \/ pc[a] \notin Past
    BY <1>3 DEF Refused, Sections
  <2>2. pc[a] = "book" => Goto(a, "done")
    BY <1>3 DEF Refused, AfterSection
  <2> QED  BY <1>0, <1>3, <2>1, <2>2 DEF Refused
<1>4. ASSUME NEW a \in Process, Kill(a) PROVE pc'[b] \in Past
  BY <1>0, <1>4 DEF Kill
<1>5. ASSUME NEW a \in Process,
             \/ AllocateToolSeq(a) \/ CloseWindow(a)
             \/ AllocateOne(a) \/ AllocateLane(a)
             \/ Emit(a) \/ LaneFindsNothing(a) \/ Book(a) \/ Fingerprint(a) \/ PostIntent(a)
             \/ DeleteState(a) \/ ReportEnd(a)
      PROVE  pc'[b] \in Past
  BY <1>0, <1>5 DEF AllocateToolSeq, CloseWindow, AllocateOne, AllocateLane,
     Emit, LaneFindsNothing, Book, Fingerprint, PostIntent, DeleteState, ReportEnd
<1>6. ASSUME NEW a \in Process,
             \/ OpenToolWindow(a) \/ PostToolUse(a) \/ Claim(a) \/ PostToolUseFailure(a)
             \/ Declare(a) \/ Stop(a) \/ SessionStart(a) \/ Register(a) \/ Publish(a)
             \/ PublishUnlocked(a) \/ Announce(a) \/ SessionEnd(a)
      PROVE  pc'[b] \in Past
  <2>1. pc[a] \notin Past
    BY <1>6 DEF OpenToolWindow, PostToolUse, Claim, PostToolUseFailure, Declare, Stop, SessionStart,
       Register, Publish, PublishUnlocked, Announce, SessionEnd, Inside
  <2>2. \E label : Goto(a, label)
    BY <1>6 DEF OpenToolWindow, PostToolUse, Claim, PostToolUseFailure, Declare, Stop, SessionStart,
       Register, Publish, PublishUnlocked, Announce, SessionEnd
  <2> QED  BY <1>0, <2>1, <2>2
<1>7. ASSUME NEW a \in Process, Enter(a) PROVE pc'[b] \in Past
  BY <1>1, <1>7 DEF Enter
<1> QED  BY <1>1, <1>2, <1>3, <1>4, <1>5, <1>6, <1>7 DEF Next, Step, HookStep, Deliver, vars

\* What a process may write, and what that is, is settled once it is past.
LEMMA WrittenStays ==
  ASSUME TypeOK, Progress, [Next]_vars, NEW what, NEW a, Writes(what, a)
  PROVE  Writes(what, a)' /\ Written(what, a)' = Written(what, a) /\ took'[a] = took[a]
<1> USE CausalOrderAssumption
<1>1. a \in Process /\ pc[a] \in Past /\ pc'[a] \in Past
  BY PastStays DEF Writes
<1>2. took'[a] = took[a]
  <2>1. ASSUME NEW x \in Process, Stamps(x) PROVE took'[a] = took[a]
    <3>1. x # a
      BY <1>1, <2>1 DEF Stamps, Past
    <3> QED  BY <1>1, <2>1, <3>1 DEF Stamps, TypeOK
  <2> QED  BY <2>1, StampOrFind DEF Finds
<1>3. a \in Hooks => preceded'[CallOf[a]] = preceded[CallOf[a]]
  <2>1. ASSUME a \in Hooks, NEW c \in Calls, Finds(c)
        PROVE  preceded'[CallOf[a]] = preceded[CallOf[a]]
    <3>1. c # CallOf[a]
      BY <1>1, <2>1 DEF Finds, HooksOf, Past
    <3> QED  BY <2>1, <3>1 DEF Finds, Progress, Positioned
  <2> QED  BY <2>1, StampOrFind DEF Stamps
<1> QED  BY <1>1, <1>2, <1>3 DEF Writes, Written

\* Two events at one position are one event.
LEMMA OneEventAPosition ==
  ASSUME NoPositionTwice, StampsHold,
         NEW what, NEW a, Writes(what, a), NEW other, NEW b, Writes(other, b),
         Written(what, a).n # None,
         Written(what, a).n = Written(other, b).n,
         Written(what, a).epoch = Written(other, b).epoch
  PROVE  what = other /\ a = b
<1> USE CausalOrderAssumption
<1>1. a \in Process /\ b \in Process
  BY DEF Writes
<1>2. /\ took[a] # None /\ Written(what, a).n = took[a].n /\ Written(what, a).epoch = took[a].epoch
      /\ took[b] # None /\ Written(other, b).n = took[b].n
      /\ Written(other, b).epoch = took[b].epoch
  BY DEF Written, Event, Position
<1>3. PICK p \in issued : p.by = a /\ p.epoch = took[a].epoch /\ p.n = took[a].n
  BY <1>1, <1>2 DEF StampsHold
<1>4. PICK q \in issued : q.by = b /\ q.epoch = took[b].epoch /\ q.n = took[b].n
  BY <1>1, <1>2 DEF StampsHold
<1>5. p.epoch = q.epoch /\ p.n = q.n
  BY <1>2, <1>3, <1>4
<1>6. p = q
  BY <1>5 DEF NoPositionTwice
<1>7. a = b
  BY <1>3, <1>4, <1>6
<1> QED  BY <1>7 DEF Writes

\* So the hub finds nobody else at the position of an event.
LEMMA NoConflict ==
  ASSUME NoPositionTwice, StampsHold, RowsHold, NEW what, NEW a, Writes(what, a)
  PROVE  Stored(rows, Written(what, a)) = Written(what, a)
<1> DEFINE event == Written(what, a)
<1> SUFFICES ASSUME event.n # None, NEW r \in rows, r.epoch = event.epoch, r.n = event.n
             PROVE  r = event
  BY DEF Stored
<1>1. took[a] # None /\ event.n = took[a].n
  BY DEF Written, Event, Position
<1>2. event.n # 0
  BY <1>1 DEF StampsHold, Writes
<1>3. Writes(r.what, r.by) /\ r = Written(r.what, r.by)
  BY <1>2 DEF RowsHold
<1> HIDE DEF event
<1>4. r.what = what /\ r.by = a
  BY <1>3, OneEventAPosition DEF event
<1> QED  BY <1>3, <1>4 DEF event

LEMMA FitsStays ==
  ASSUME TypeOK, Progress, [Next]_vars, NEW record, Fits(record)
  PROVE  Fits(record)'
BY WrittenStays DEF Fits

\* What a hook, a lane or a start adds to the spool fits it.
LEMMA SpoolGrows ==
  ASSUME TypeOK, Progress, [Next]_vars
  PROVE  \/ UNCHANGED spool
         \/ spool # <<>> /\ spool' = Tail(spool)
         \/ \E record \in Spooled : Fits(record) /\ spool' = Append(spool, record)
<1> USE CausalOrderAssumption
<1>1. CASE UNCHANGED vars
  BY <1>1 DEF vars
<1>2. ASSUME NEW c \in Calls, Edit(c) \/ ToolFails(c) PROVE UNCHANGED spool
  BY <1>2 DEF Edit, ToolFails
<1>3. ASSUME NEW a \in Process, Emit(a)
      PROVE  UNCHANGED spool \/ \E record \in Spooled : Fits(record) /\ spool' = Append(spool, record)
  <2> DEFINE record == [what |-> "target", by |-> a, source |-> SourceOf(a), seq |-> took[a]]
  <2>1. UNCHANGED spool \/ spool' = Append(spool, record)
    BY <1>3 DEF Emit, SourceOf
  <2>2. record \in Spooled
    BY DEF Spooled, SourceOf, TypeOK
  <2>3. Writes("target", a)
    BY <1>3 DEF Emit, Writes, Past, Progress, Ran
  <2>4. Fits(record)
    BY <2>3 DEF Fits
  <2> HIDE DEF record
  <2> QED  BY <2>1, <2>2, <2>4
<1>4. ASSUME NEW a \in Process, Fingerprint(a)
      PROVE  UNCHANGED spool \/ \E record \in Spooled : Fits(record) /\ spool' = Append(spool, record)
  <2> DEFINE record == [what |-> "failed", by |-> a, source |-> "tool_edit", seq |-> took[a]]
  <2>1. UNCHANGED spool \/ spool' = Append(spool, record)
    BY <1>4 DEF Fingerprint
  <2>2. record \in Spooled
    BY DEF Spooled, TypeOK
  <2>3. a \in Hooks
    BY <1>4 DEF Fingerprint, Progress, Roles
  <2>4. Writes("failed", a)
    BY <1>4, <2>3 DEF Fingerprint, Writes, Past, Progress, Ran
  <2>5. Fits(record)
    BY <2>3, <2>4 DEF Fits, SourceOf
  <2> HIDE DEF record
  <2> QED  BY <2>1, <2>2, <2>5
<1>5. ASSUME NEW a \in Process, Announce(a)
      PROVE  UNCHANGED spool \/ \E record \in Spooled : Fits(record) /\ spool' = Append(spool, record)
  <2>1. ContextRecord(a) \in Spooled
    BY DEF Spooled, Epoch
  <2>2. Fits(ContextRecord(a))
    BY DEF Fits, ContextRecord
  <2> QED  BY <1>5, <2>1, <2>2 DEF Announce
<1>6. ASSUME NEW a \in Process,
             \/ Enter(a) \/ Refused(a) \/ Kill(a) \/ OpenToolWindow(a) \/ PostToolUse(a)
             \/ Claim(a) \/ PostToolUseFailure(a) \/ AllocateToolSeq(a) \/ CloseWindow(a)
             \/ AllocateOne(a) \/ AllocateLane(a)
             \/ LaneFindsNothing(a) \/ Book(a) \/ Declare(a) \/ PostIntent(a) \/ Stop(a)
             \/ SessionStart(a) \/ Register(a) \/ Publish(a) \/ PublishUnlocked(a)
             \/ SessionEnd(a) \/ DeleteState(a) \/ ReportEnd(a)
      PROVE  UNCHANGED spool
  BY <1>6 DEF Enter, Refused, Kill, OpenToolWindow, PostToolUse, Claim, PostToolUseFailure,
     AllocateToolSeq, CloseWindow, AllocateOne, AllocateLane,
     LaneFindsNothing, Book, Declare, PostIntent, Stop, SessionStart, Register,
     Publish, PublishUnlocked, SessionEnd, DeleteState, ReportEnd
<1>7. CASE Deliver
  BY <1>7 DEF Deliver
<1> QED  BY <1>1, <1>2, <1>3, <1>4, <1>5, <1>6, <1>7 DEF Next, Step, HookStep

LEMMA SpoolStep ==
  ASSUME TypeOK, Progress, SpoolHolds, [Next]_vars
  PROVE  SpoolHolds'
<1>1. spool' \in Seq(Spooled) /\ \A k \in 1..Len(spool') : Fits(spool'[k])
  <2>1. CASE UNCHANGED spool
    BY <2>1 DEF SpoolHolds
  <2>2. CASE spool # <<>> /\ spool' = Tail(spool)
    <3>1. /\ spool' \in Seq(Spooled) /\ Len(spool') = Len(spool) - 1 /\ Len(spool) \in Nat
          /\ \A k \in 1..Len(spool') : spool'[k] = spool[k + 1]
      BY <2>2 DEF SpoolHolds
    <3>2. \A k \in 1..Len(spool') : k + 1 \in 1..Len(spool)
      BY <3>1
    <3> QED  BY <3>1, <3>2 DEF SpoolHolds
  <2>3. ASSUME NEW record \in Spooled, Fits(record), spool' = Append(spool, record)
        PROVE  spool' \in Seq(Spooled) /\ \A k \in 1..Len(spool') : Fits(spool'[k])
    <3>1. /\ spool' \in Seq(Spooled) /\ Len(spool') = Len(spool) + 1 /\ Len(spool) \in Nat
          /\ spool'[Len(spool) + 1] = record
          /\ \A k \in 1..Len(spool) : spool'[k] = spool[k]
      BY <2>3 DEF SpoolHolds
    <3> QED  BY <2>3, <3>1 DEF SpoolHolds
  <2> QED  BY <2>1, <2>2, <2>3, SpoolGrows
<1>2. ASSUME NEW k \in 1..Len(spool') PROVE Fits(spool[k])'
  <2>1. PICK record : record = spool'[k]
    OBVIOUS
  <2>2. Fits(record)'
    BY <1>1, <2>1, FitsStays
  <2> QED  BY <2>1, <2>2 DEF Fits
<1> QED  BY <1>1, <1>2 DEF SpoolHolds

LEMMA MintsGrow ==
  ASSUME [Next]_vars
  PROVE  /\ UNCHANGED born \/ \E a \in Process : born' = born \cup {a}
         /\ UNCHANGED unfiled \/ \E a \in Process : unfiled' = unfiled \cup {a}
  BY DEF vars, Next, Step, HookStep, Enter, Refused, Kill, PostToolUse, Claim, OpenToolWindow,
     AllocateToolSeq, CloseWindow, AllocateOne, AllocateLane,
     PostToolUseFailure, Fingerprint, Emit, LaneFindsNothing, Book, Declare, PostIntent,
     Stop, SessionStart, Register, Publish, PublishUnlocked, Announce, SessionEnd,
     DeleteState, ReportEnd, Edit, ToolFails, Deliver, history

Started(a) ==
    Event("started", a, "emitted", Position(Stamp(wire[a], 0, None), "pre_seq_connector"))

\* What a step writes to the session's events: nothing, the event of a process, or
\* the session's start.
LEMMA RowsGrow ==
  ASSUME TypeOK, Progress, SpoolHolds, [Next]_vars
  PROVE  \/ UNCHANGED rows /\ (open => open')
         \/ open /\ open' /\ \E what, a : Writes(what, a) /\ Record(Written(what, a))
         \/ ~open /\ open' /\ \E a \in Process : pc[a] = "register" /\ Record(Started(a))
<1> USE CausalOrderAssumption DEF hub
<1>1. CASE UNCHANGED vars
  BY <1>1 DEF vars
<1>2. ASSUME NEW c \in Calls, Edit(c) \/ ToolFails(c) PROVE UNCHANGED rows /\ (open => open')
  BY <1>2 DEF Edit, ToolFails
<1>3. ASSUME NEW a \in Process, PostIntent(a)
      PROVE  \/ UNCHANGED rows /\ (open => open')
             \/ open /\ open' /\ \E what, b : Writes(what, b) /\ Record(Written(what, b))
  <2>1. Writes("intent", a)
    BY <1>3 DEF PostIntent, Writes, Past
  <2>2. Written("intent", a)
          = Event("intent", a, IntentSeqKind("declared"), Position(took[a], "allocation_failed"))
    BY DEF Written, IntentSeqKind
  <2> QED  BY <1>3, <2>1, <2>2 DEF PostIntent
<1>4. ASSUME NEW a \in Process, ReportEnd(a)
      PROVE  \/ UNCHANGED rows /\ (open => open')
             \/ open /\ open' /\ \E what, b : Writes(what, b) /\ Record(Written(what, b))
  <2>1. Writes("ended", a)
    BY <1>4 DEF ReportEnd, Writes, Past, Progress, Roles
  <2>2. Written("ended", a)
          = Event("ended", a, "emitted", Position(took[a], "allocation_failed"))
    BY DEF Written
  <2> QED  BY <1>4, <2>1, <2>2 DEF ReportEnd
<1>5. ASSUME NEW a \in Process, Register(a)
      PROVE  \/ UNCHANGED rows /\ (open => open')
             \/ ~open /\ open' /\ \E b \in Process : pc[b] = "register" /\ Record(Started(b))
  BY <1>5 DEF Register, Started
<1>6. ASSUME NEW a \in Process,
             \/ Enter(a) \/ Refused(a) \/ Kill(a) \/ OpenToolWindow(a) \/ PostToolUse(a)
             \/ Claim(a) \/ PostToolUseFailure(a) \/ AllocateToolSeq(a) \/ CloseWindow(a)
             \/ AllocateOne(a) \/ AllocateLane(a) \/ Emit(a) \/ Fingerprint(a)
             \/ LaneFindsNothing(a) \/ Book(a) \/ Declare(a) \/ Stop(a)
             \/ SessionStart(a) \/ Publish(a) \/ PublishUnlocked(a) \/ Announce(a)
             \/ SessionEnd(a) \/ DeleteState(a)
      PROVE  UNCHANGED rows /\ (open => open')
  BY <1>6 DEF Enter, Refused, Kill, OpenToolWindow, PostToolUse, Claim, PostToolUseFailure,
     AllocateToolSeq, CloseWindow, AllocateOne, AllocateLane, Emit, Fingerprint,
     LaneFindsNothing, Book, Declare, Stop, SessionStart,
     Publish, PublishUnlocked, Announce, SessionEnd, DeleteState
<1>7. CASE Deliver
  <2>1. PICK record : record = Head(spool)
    OBVIOUS
  <2>2. Fits(record)
    BY <1>7, <2>1 DEF Deliver, SpoolHolds
  <2>3. UNCHANGED open
    BY <1>7 DEF Deliver
  <2>4. CASE UNCHANGED rows
    BY <2>3, <2>4
  <2>5. CASE ~UNCHANGED rows
    <3>1. /\ record.what # "context" /\ context
          /\ Record(Event(record.what, record.by, SeqKindFor(record.source, record.seq),
                          Position(record.seq, "allocation_failed")))
      BY <1>7, <2>1, <2>5 DEF Deliver, Ingest
    <3>2. /\ Writes(record.what, record.by)
          /\ Record(Written(record.what, record.by))
      BY <2>2, <3>1 DEF Fits, Written
    <3> QED  BY <2>3, <3>1, <3>2 DEF TypeOK
  <2> QED  BY <2>4, <2>5
<1> QED  BY <1>1, <1>2, <1>3, <1>4, <1>5, <1>6, <1>7 DEF Next, Step, HookStep

LEMMA RowsStep ==
  ASSUME IInv, Progress, Brackets, SpoolHolds, RowsHold, Minted, [Next]_vars
  PROVE  RowsHold'
<1> DEFINE Holds(r) == \/ /\ r.what = "started" /\ r.reason # "epoch_conflict"
                          /\ r.n \in {0, None} /\ r.epoch \in born' \cup unfiled' \cup {None}
                       \/ \E what, a : /\ r.what = what /\ r.by = a
                                       /\ Writes(what, a)' /\ r = Written(what, a)'
<1> SUFFICES (open' \/ rows' = {}) /\ \A r \in rows' : Holds(r)
  <2>1. ASSUME NEW r \in rows', Holds(r)
        PROVE  \/ /\ r.what = "started" /\ r.reason # "epoch_conflict"
                  /\ r.n \in {0, None} /\ r.epoch \in born' \cup unfiled' \cup {None}
               \/ Writes(r.what, r.by)' /\ r = Written(r.what, r.by)'
    BY <2>1
  <2> QED  BY <2>1 DEF RowsHold
<1>1. ASSUME NEW what, NEW a, Writes(what, a) PROVE Holds(Written(what, a))
  <2>1. Written(what, a).what = what /\ Written(what, a).by = a
    BY DEF Written, Event
  <2> QED  BY <1>1, <2>1, WrittenStays DEF IInv
<1>2. ASSUME NEW r \in rows PROVE Holds(r)
  <2>1. born \subseteq born' /\ unfiled \subseteq unfiled'
    BY MintsGrow
  <2>2. CASE Writes(r.what, r.by) /\ r = Written(r.what, r.by)
    <3>1. PICK what, a : what = r.what /\ a = r.by
      OBVIOUS
    <3> HIDE DEF Holds
    <3>2. Writes(what, a) /\ r = Written(what, a)
      BY <2>2, <3>1
    <3> QED  BY <1>1, <3>2
  <2> QED  BY <1>2, <2>1, <2>2 DEF RowsHold
<1> HIDE DEF Holds
<1>3. CASE UNCHANGED rows /\ (open => open')
  BY <1>2, <1>3 DEF RowsHold
<1>4. ASSUME open, open', NEW what, NEW a, Writes(what, a), Record(Written(what, a))
      PROVE  (open' \/ rows' = {}) /\ \A r \in rows' : Holds(r)
  <2>1. rows' = rows \cup {Written(what, a)}
    BY <1>4, NoConflict DEF Record, IInv, OrderInv, Brackets
  <2> QED  BY <1>1, <1>2, <1>4, <2>1
<1>5. ASSUME ~open, open', NEW a \in Process, pc[a] = "register", Record(Started(a))
      PROVE  (open' \/ rows' = {}) /\ \A r \in rows' : Holds(r)
  <2>1. rows' = {Started(a)}
    BY <1>5 DEF Record, Stored, RowsHold
  <2>2. Started(a).n \in {0, None} /\ Started(a).reason # "epoch_conflict"
        /\ Started(a).what = "started" /\ Started(a).epoch \in {wire[a], None}
    BY DEF Started, Event, Position, Stamp
  <2>3. wire[a] \in born' \cup unfiled'
    BY <1>5, MintsGrow DEF Minted
  <2> QED  BY <1>5, <2>1, <2>2, <2>3 DEF Holds
<1> QED  BY <1>3, <1>4, <1>5, RowsGrow DEF IInv

LEMMA ChainGrows ==
  ASSUME TypeOK, Progress, [Next]_vars
  PROVE  \/ UNCHANGED chain
         \/ \E d \in Declarations, names \in SUBSET Role :
              /\ pc[d] \in Past
              /\ chain' = chain \cup {Entry(d, names, Position(took[d], "allocation_failed"))}
<1> USE DEF hub
<1>1. ASSUME NEW a \in Process, PostIntent(a)
      PROVE  \/ UNCHANGED chain
             \/ \E d \in Declarations, names \in SUBSET Role :
                  /\ pc[d] \in Past
                  /\ chain' = chain \cup {Entry(d, names, Position(took[d], "allocation_failed"))}
  <2>1. a \in Declarations /\ pc[a] \in Past
    BY <1>1 DEF PostIntent, Past
  <2>2. CASE UNCHANGED chain
    BY <2>2
  <2>3. CASE ~UNCHANGED chain
    <3>1. \E names \in SUBSET Role :
            chain' = chain \cup {Entry(a, names, Position(took[a], "allocation_failed"))}
      BY <1>1, <2>3 DEF PostIntent
    <3> QED  BY <2>1, <3>1
  <2> QED  BY <2>2, <2>3
<1>2. ASSUME UNCHANGED vars \/ Deliver \/ \E c \in Calls : Edit(c) \/ ToolFails(c)
      PROVE  UNCHANGED chain
  BY <1>2 DEF vars, Deliver, Edit, ToolFails
<1>3. ASSUME NEW a \in Process,
             \/ Enter(a) \/ Refused(a) \/ Kill(a) \/ OpenToolWindow(a) \/ PostToolUse(a)
             \/ Claim(a) \/ PostToolUseFailure(a) \/ AllocateToolSeq(a) \/ CloseWindow(a)
             \/ AllocateOne(a) \/ AllocateLane(a) \/ Emit(a) \/ Fingerprint(a)
             \/ LaneFindsNothing(a) \/ Book(a) \/ Declare(a) \/ Stop(a)
             \/ SessionStart(a) \/ Register(a) \/ Publish(a) \/ PublishUnlocked(a) \/ Announce(a)
             \/ SessionEnd(a) \/ DeleteState(a) \/ ReportEnd(a)
      PROVE  UNCHANGED chain
  BY <1>3 DEF Enter, Refused, Kill, OpenToolWindow, PostToolUse, Claim, PostToolUseFailure,
     AllocateToolSeq, CloseWindow, AllocateOne, AllocateLane, Emit, Fingerprint,
     LaneFindsNothing, Book, Declare, Stop, SessionStart, Register,
     Publish, PublishUnlocked, Announce, SessionEnd, DeleteState, ReportEnd
<1> QED  BY <1>1, <1>2, <1>3 DEF Next, Step, HookStep

LEMMA ChainStep ==
  ASSUME TypeOK, Progress, ChainHolds, [Next]_vars
  PROVE  ChainHolds'
<1> USE CausalOrderAssumption
<1>1. ASSUME NEW e, EntryHolds(e) PROVE EntryHolds(e)'
  <2>1. Writes("intent", e.by)
    BY <1>1 DEF EntryHolds, Writes, Process
  <2>2. took'[e.by] = took[e.by] /\ pc'[e.by] \in Past
    BY <2>1, WrittenStays DEF Writes
  <2> QED  BY <1>1, <2>2 DEF EntryHolds
<1>2. CASE UNCHANGED chain
  BY <1>1, <1>2 DEF ChainHolds
<1>3. ASSUME NEW d \in Declarations, NEW names \in SUBSET Role, pc[d] \in Past, NEW e,
             chain' = chain \cup {e}, e = Entry(d, names, Position(took[d], "allocation_failed"))
      PROVE  ChainHolds'
  <2>1. Cardinality(chain) + 1 \in Nat /\ IsFiniteSet(chain')
    BY <1>3, FS_CardinalityType, FS_AddElement DEF ChainHolds
  <2>2. EntryHolds(e)
    BY <1>3, <2>1 DEF EntryHolds, Entry, IntentSeqKind
  <2> QED  BY <1>1, <1>3, <2>1, <2>2 DEF ChainHolds
<1> QED  BY <1>2, <1>3, ChainGrows

\* A content that names the epoch of one that stood, or of a counted creator.
LEMMA ContentIsMinted ==
  ASSUME TypeOK, Progress, Minted, [Next]_vars
  PROVE  /\ file' # None => file'.epoch \in born'
         /\ copy' # None => copy'.epoch \in born'
<1> USE CausalOrderAssumption DEF history
<1>0. ASSUME file' # None => file' = file \/ (copy # None /\ file'.epoch = copy.epoch)
                             \/ file'.epoch \in born',
             copy' \in {copy, file, None}
      PROVE  /\ file' # None => file'.epoch \in born'
             /\ copy' # None => copy'.epoch \in born'
  <2>1. born \subseteq born'
    BY MintsGrow
  <2> QED  BY <1>0, <2>1 DEF Minted
<1>1. CASE UNCHANGED vars
  BY <1>0, <1>1 DEF vars
<1>2. ASSUME NEW c \in Calls, Edit(c) \/ ToolFails(c)
      PROVE  UNCHANGED state
  BY <1>2 DEF Edit, ToolFails
<1>3. ASSUME NEW a \in Process,
             \/ AllocateToolSeq(a) \/ CloseWindow(a)
             \/ AllocateOne(a) \/ AllocateLane(a)
      PROVE  (file' = file \/ (copy # None /\ file'.epoch = copy.epoch)) /\ copy' = None
  <2>1. PICK count, floor, windows : Allocate(a, count, floor, windows)
    BY <1>3 DEF AllocateToolSeq, CloseWindow, AllocateOne, AllocateLane
  <2> DEFINE written == [copy EXCEPT !.n = @ + count, !.windows = windows]
  <2>2. copy # None => written.epoch = copy.epoch
    BY DEF TypeOK, StateFile
  <2>3. copy' = None /\ (file' = file \/ (copy # None /\ file' = written))
    <3> HIDE DEF written
    <3>1. copy # None => Write([copy EXCEPT !.n = @ + count, !.windows = windows])
      BY <2>1 DEF Allocate
    <3>2. copy = None => Write(file)
      BY <2>1 DEF Allocate
    <3> QED  BY <3>1, <3>2 DEF Write, written
  <2> QED  BY <2>2, <2>3
<1>4. ASSUME NEW a \in Process,
             \/ Enter(a) \/ Refused(a) \/ Kill(a) \/ PostToolUse(a)
             \/ PostToolUseFailure(a) \/ Fingerprint(a) \/ Emit(a)
             \/ LaneFindsNothing(a) \/ Declare(a) \/ PostIntent(a) \/ Stop(a)
             \/ SessionStart(a) \/ Register(a)
             \/ Announce(a) \/ SessionEnd(a) \/ DeleteState(a) \/ ReportEnd(a)
      PROVE  file' \in {file, None} /\ copy' \in {copy, file, None}
  BY <1>4 DEF Enter, Refused, Kill, PostToolUse, PostToolUseFailure,
     Fingerprint, Emit, LaneFindsNothing, Declare, PostIntent, Stop, SessionStart, Register,
     Announce, SessionEnd, DeleteState, ReportEnd, state
<1>5. CASE Deliver
  BY <1>0, <1>5 DEF Deliver, state
<1>6. ASSUME NEW a \in Process, OpenToolWindow(a) \/ Book(a)
      PROVE  (file' = file \/ (copy # None /\ file'.epoch = copy.epoch)) /\ copy' = None
  <2> DEFINE opening == [copy EXCEPT !.n = @ + 1,
                                     !.windows = Opened(@, CallOf[a], copy.n + 1)]
             booked == [copy EXCEPT
                !.seen = @ \/ ~seen[a],
                !.windows = IF a \in Hooks /\ took[a] = None
                            THEN ClosedWindow(@, CallOf[a]) ELSE @]
  <2>1. copy # None => copy \in StateFile
    BY DEF TypeOK
  <2>2. copy # None => opening.epoch = copy.epoch /\ booked.epoch = copy.epoch
    BY <2>1 DEF StateFile
  <2>3. OpenToolWindow(a) => copy' = None /\ (file' = file \/ (copy # None /\ file' = opening))
    BY DEF OpenToolWindow, Write
  <2>4. Book(a) => copy' = None /\ (file' = file \/ (copy # None /\ file' = booked))
    BY DEF Book, Write
  <2> QED
    <3> HIDE DEF opening, booked
    <3> QED  BY <1>6, <2>2, <2>3, <2>4
<1>7. ASSUME NEW a \in Process, Claim(a) \/ Publish(a) \/ PublishUnlocked(a)
      PROVE  /\ \/ file' = file \/ (copy # None /\ file'.epoch = copy.epoch)
                \/ file'.epoch \in born'
             /\ copy' \in {copy, None}
  <2>1. CASE Claim(a)
    BY <2>1 DEF Claim, Inside, Write, Fresh, Minted
  <2>2. CASE Publish(a)
    BY <2>2 DEF Publish, Write, Carried, Fresh, TypeOK, StateFile
  <2>3. CASE PublishUnlocked(a)
    BY <2>3 DEF PublishUnlocked, Fresh
  <2> QED  BY <1>7, <2>1, <2>2, <2>3
<1> QED  BY <1>0, <1>1, <1>2, <1>3, <1>4, <1>5, <1>6, <1>7 DEF Next, Step, HookStep, state

\* Only a fire names another epoch than its own, and it names one that stands.
LEMMA WireIsMinted ==
  ASSUME TypeOK, Progress, Minted, [Next]_vars, NEW b \in Process
  PROVE  /\ b \notin Starts => wire'[b] = b
         /\ pc'[b] = "register" => wire'[b] \in born' \cup unfiled'
<1> USE CausalOrderAssumption DEF history
<1>0. born \subseteq born' /\ unfiled \subseteq unfiled'
  BY MintsGrow
<1>1. ASSUME UNCHANGED wire, pc'[b] \in {"register", "claim"} => pc'[b] = pc[b]
      PROVE  /\ b \notin Starts => wire'[b] = b
             /\ pc'[b] = "register" => wire'[b] \in born' \cup unfiled'
  BY <1>0, <1>1 DEF Minted
<1>2. ASSUME UNCHANGED wire, NEW a \in Process, NEW label \in Phase \ {"register", "claim"},
             Goto(a, label)
      PROVE  pc'[b] \in {"register", "claim"} => pc'[b] = pc[b]
  BY <1>2 DEF Goto, TypeOK
<1>3. ASSUME NEW a \in Process, PostToolUse(a)
      PROVE  /\ b \notin Starts => wire'[b] = b
             /\ pc'[b] = "register" => wire'[b] \in born' \cup unfiled'
  <2>1. a \in Hooks /\ a \notin Starts /\ UNCHANGED wire /\ wire[a] = a
    BY <1>3 DEF PostToolUse, Progress, Roles, Minted
  <2>2. CASE b # a
    BY <1>1, <1>3, <2>1, <2>2 DEF PostToolUse, Goto, TypeOK
  <2>3. CASE b = a
    BY <1>3, <2>1, <2>3 DEF PostToolUse, Goto, TypeOK
  <2> QED  BY <2>2, <2>3
<1>4. ASSUME NEW a \in Process, SessionStart(a)
      PROVE  /\ b \notin Starts => wire'[b] = b
             /\ pc'[b] = "register" => wire'[b] \in born' \cup unfiled'
  <2>1. /\ a \in Starts /\ wire' = [wire EXCEPT ![a] = CarriedSeqEpoch(a)]
        /\ pc' = [pc EXCEPT ![a] = "register"]
    BY <1>4 DEF SessionStart, Goto
  <2>2. CarriedSeqEpoch(a) \in born' \cup unfiled'
    BY <1>0, <1>4 DEF SessionStart, CarriedSeqEpoch, Minted
  <2>3. CASE b # a
    BY <1>0, <2>1, <2>3 DEF Minted, TypeOK
  <2>4. CASE b = a
    BY <2>1, <2>2, <2>4 DEF TypeOK
  <2> QED  BY <2>3, <2>4
<1>5. ASSUME NEW a \in Process, Register(a)
      PROVE  /\ b \notin Starts => wire'[b] = b
             /\ pc'[b] = "register" => wire'[b] \in born' \cup unfiled'
  <2>1. /\ UNCHANGED wire /\ pc[a] = "register"
        /\ Goto(a, "done") \/ Goto(a, IF a \in Starts THEN "publish" ELSE "claim")
    BY <1>5 DEF Register
  <2>3. CASE b # a
    BY <1>1, <2>1, <2>3 DEF Goto, TypeOK
  <2>4. CASE b = a
    BY <1>0, <2>1, <2>4 DEF Goto, TypeOK, Minted
  <2> QED  BY <2>3, <2>4
<1>6. CASE UNCHANGED <<wire, pc>>
  BY <1>1, <1>6
<1>7. ASSUME NEW c \in Calls, Edit(c) \/ ToolFails(c)
      PROVE  UNCHANGED wire /\ (pc'[b] \in {"register", "claim"} => pc'[b] = pc[b])
  BY <1>7 DEF Edit, ToolFails
<1>8. ASSUME NEW a \in Process,
             \/ Refused(a) \/ Kill(a) \/ OpenToolWindow(a)
             \/ Claim(a) \/ PostToolUseFailure(a) \/ AllocateToolSeq(a) \/ CloseWindow(a)
             \/ AllocateOne(a) \/ AllocateLane(a) \/ Emit(a) \/ Fingerprint(a)
             \/ LaneFindsNothing(a) \/ Book(a) \/ Declare(a) \/ PostIntent(a) \/ Stop(a)
             \/ Publish(a) \/ PublishUnlocked(a) \/ Announce(a)
             \/ SessionEnd(a) \/ DeleteState(a) \/ ReportEnd(a)
      PROVE  UNCHANGED wire /\ \E label \in Phase \ {"register", "claim"} : Goto(a, label)
  <2>1. UNCHANGED wire
    BY <1>8 DEF Refused, Kill, OpenToolWindow, Claim, PostToolUseFailure,
       AllocateToolSeq, CloseWindow, AllocateOne, AllocateLane, Emit, Fingerprint,
       LaneFindsNothing, Book, Declare, PostIntent, Stop,
       Publish, PublishUnlocked, Announce, SessionEnd, DeleteState, ReportEnd
  <2>2. \E label \in Phase \ {"register", "claim"} : Goto(a, label)
    BY <1>8 DEF Refused, Kill, OpenToolWindow, Claim, PostToolUseFailure,
       AllocateToolSeq, CloseWindow, AllocateOne, AllocateLane, Emit, Fingerprint,
       LaneFindsNothing, Book, Declare, PostIntent, Stop,
       Publish, PublishUnlocked, Announce, SessionEnd, DeleteState, ReportEnd,
       Phase, Sections, AfterSection
  <2> QED  BY <2>1, <2>2
<1> QED
  BY <1>1, <1>2, <1>3, <1>4, <1>5, <1>6, <1>7, <1>8
  DEF Next, Step, HookStep, Enter, Deliver, vars

LEMMA MintedStep ==
  ASSUME TypeOK, Progress, Minted, [Next]_vars
  PROVE  Minted'
<1>1. born \subseteq born' /\ IsFiniteSet(born')
  BY MintsGrow, FS_AddElement DEF Minted
<1>2. ASSUME NEW b \in Process, took'[b] # None PROVE took'[b].epoch \in born'
  <2>1. CASE took'[b] = took[b]
    BY <1>1, <1>2, <2>1 DEF Minted
  <2>2. ASSUME NEW a \in Process, Stamps(a), took'[b] # took[b]
        PROVE  took'[b].epoch \in born'
    BY <1>1, <2>2 DEF Stamps, Stamp, Minted, TypeOK
  <2> QED  BY <2>1, <2>2, StampOrFind DEF Finds
<1> QED  BY <1>1, <1>2, ContentIsMinted, WireIsMinted DEF Minted

----------------------------------------------------------------------------
(* The three answers.                                                      *)

HubInv == IInv /\ Progress /\ Brackets /\ Records /\ Minted

\* A session that just opened satisfies it: nothing was positioned, and what
\* its first SessionStart left is its register and its work context.
LEMMA InitHubInv == Init => HubInv
<1> SUFFICES ASSUME Init PROVE HubInv
  OBVIOUS
<1> USE CausalOrderAssumption
<1>1. IInv
  BY InitIInv
<1>2. /\ took = [a \in Process |-> None] /\ preceded = [c \in Calls |-> None]
      /\ wire = [a \in Process |-> a] /\ chain = {} /\ issued = {} /\ copy = None
      /\ file = None \/ (file = Fresh(First) /\ born = {First})
      /\ born \in {{}, {First}}
  BY DEF Init
<1>3. \A a \in Process : pc[a] \in {"done", "idle", "open"} /\ (pc[a] = "open" => a \in Hooks)
  BY DEF Init
<1>4. Progress
  <2>1. Roles /\ TookOnce
    BY <1>2, <1>3 DEF Roles, TookOnce
  <2>2. \A h \in Hooks : h \in Process /\ CallOf[h] \in Calls /\ preceded[CallOf[h]] = None
    BY <1>2 DEF Process
  <2>3. Ran
    BY <1>3, <2>2 DEF Ran
  <2>4. Positioned
    BY <1>2 DEF Positioned
  <2> QED  BY <2>1, <2>3, <2>4 DEF Progress
<1>5. Brackets
  <2>1. file # None => file.windows = {}
    BY <1>2 DEF Fresh
  <2>2. WindowsHold(file) /\ WindowsHold(copy)
    BY <1>2, <2>1 DEF WindowsHold
  <2>3. StampsHold /\ AfterTheEdit
    BY <1>2 DEF StampsHold, AfterTheEdit, Process
  <2> QED  BY <2>2, <2>3 DEF Brackets
<1>6. Records
  <2>1. ContextRecord(First) \in Spooled
    BY DEF Spooled, Epoch
  <2>2. spool \in {<<>>, <<ContextRecord(First)>>}
    BY DEF Init
  <2>3. SpoolHolds
    <3>1. CASE spool = <<>>
      BY <3>1 DEF SpoolHolds
    <3>2. CASE spool = <<ContextRecord(First)>>
      <4>1. Fits(ContextRecord(First))
        BY DEF Fits, ContextRecord
      <4>2. spool \in Seq(Spooled) /\ Len(spool) = 1 /\ spool[1] = ContextRecord(First)
        <5> HIDE DEF ContextRecord, Spooled
        <5> QED  BY <2>1, <3>2
      <4> QED  BY <4>1, <4>2 DEF SpoolHolds
    <3> QED  BY <2>2, <3>1, <3>2
  <2>4. RowsHold
    BY <1>2, NoneIsNoPosition DEF Init, RowsHold
  <2>5. ChainHolds
    BY <1>2, FS_EmptySet DEF ChainHolds
  <2> QED  BY <2>3, <2>4, <2>5 DEF Records
<1>7. Minted
  <2>1. IsFiniteSet(born)
    <3>1. IsFiniteSet({}) /\ IsFiniteSet({First})
      BY FS_EmptySet, FS_Singleton
    <3> QED  BY <1>2, <3>1
  <2>2. file # None => file.epoch \in born
    BY <1>2 DEF Fresh
  <2> QED  BY <1>2, <1>3, <2>1, <2>2 DEF Minted
<1> QED  BY <1>1, <1>4, <1>5, <1>6, <1>7 DEF HubInv

\* It is inductive.
LEMMA HubInvStep == HubInv /\ [Next]_vars => HubInv'
  BY IInvStep, ProgressStep, BracketsStep, SpoolStep, RowsStep, ChainStep, MintedStep
  DEF HubInv, IInv, OrderInv, Records, Brackets

\* An edit the hub is asked about is a target that a hook or a lane wrote.
LEMMA EditIsWritten ==
  ASSUME HubInv, NEW edit \in Edits
  PROVE  /\ Writes("target", edit.by) /\ edit = Written("target", edit.by)
         /\ edit.session = "session" /\ WellFormed(edit)
<1> USE CausalOrderAssumption
<1>1. edit \in rows /\ edit.what = "target"
  BY DEF Edits, EditEvents, Sightings
<1>2. Writes("target", edit.by) /\ edit = Written("target", edit.by)
  BY <1>1 DEF HubInv, Records, RowsHold
<1>3. edit.session = "session"
  BY <1>2 DEF Written, Event
<1> DEFINE stamp == took[edit.by]
           stood == Position(stamp, "allocation_failed")
<1>4. stamp # None => stamp.n \in Nat /\ stamp.after \in Nat \cup {None}
  BY <1>2 DEF HubInv, IInv, TypeOK, StampSet, Writes
<1>5. edit.n = stood.n /\ edit.after = stood.after
  BY <1>2 DEF Written, Event
<1> HIDE DEF stamp
<1>6. WellFormed(stood)
  BY <1>4, StoredIsWellFormed
<1> QED  BY <1>2, <1>3, <1>5, <1>6 DEF WellFormed

\* Every entry of the ledger is one the answer looks at.
LEMMA LedgerIsDeclared ==
  ASSUME HubInv, NEW edit, edit.session = "session"
  PROVE  WellFormedChain(chain) /\ Declared(chain, edit) = chain
<1>1. ASSUME NEW e \in chain PROVE WellFormed(e) /\ e.version \in Nat
  <2> DEFINE stamp == took[e.by]
             stood == Position(stamp, "allocation_failed")
  <2>1. /\ e.by \in Declarations /\ e.version \in Nat
        /\ e.n = stood.n /\ e.after = stood.after
    BY <1>1 DEF HubInv, Records, ChainHolds, EntryHolds
  <2>2. stamp # None => stamp.n \in Nat /\ stamp.after \in Nat \cup {None}
    BY <2>1 DEF HubInv, IInv, TypeOK, StampSet, Process
  <2> HIDE DEF stamp
  <2>3. WellFormed(stood)
    BY <2>2, StoredIsWellFormed
  <2> QED  BY <2>1, <2>3 DEF WellFormed
<1>2. \A e \in chain : e.provenance = "declared" /\ e.session = edit.session
  BY DEF HubInv, Records, ChainHolds, EntryHolds
<1> QED  BY <1>1, <1>2 DEF WellFormedChain, Declared

\* A declaration the hub can compare with an edit: both took their positions
\* from one counter, and the edit is a hook's, with the bracket it was sent.
LEMMA ComparedWithEdit ==
  ASSUME HubInv, NEW edit \in Edits, NEW e \in chain, NEW order,
         IsOrderable(order, e, edit)
  PROVE  /\ edit.by \in Hooks /\ preceded[CallOf[edit.by]] # None
         /\ took[edit.by] # None /\ took[e.by] # None /\ took[e.by].epoch = took[edit.by].epoch
         /\ e.n = took[e.by].n /\ edit.n = took[edit.by].n
         /\ edit.after # None /\ edit.after = took[edit.by].after
<1> USE CausalOrderAssumption
<1>1. Known(e) /\ Known(edit) /\ e.epoch = edit.epoch /\ edit.kind = "emitted"
  BY DEF IsOrderable, CausalComparisonOf
<1>2. Writes("target", edit.by) /\ edit = Written("target", edit.by)
  BY EditIsWritten
<1>3. /\ took[edit.by] # None /\ edit.n = took[edit.by].n
      /\ edit.epoch = took[edit.by].epoch /\ edit.after = WindowFloorOf(took[edit.by])
      /\ edit.kind = SeqKindFor(SourceOf(edit.by), took[edit.by])
  BY <1>1, <1>2 DEF Known, Written, Event, Position
<1>4. took[e.by] # None /\ e.n = took[e.by].n /\ e.epoch = took[e.by].epoch
  BY <1>1 DEF Known, Position, HubInv, Records, ChainHolds, EntryHolds
<1>5. SourceOf(edit.by) # "git_diff" /\ edit.after # None
  BY <1>1, <1>3 DEF SeqKindFor
<1>6. edit.by \in Hooks
  BY <1>5 DEF SourceOf
<1>7. preceded[CallOf[edit.by]] # None
  BY <1>2, <1>6 DEF Writes, Process
<1>8. edit.after = took[edit.by].after
  BY <1>3, <1>5 DEF WindowFloorOf
<1> QED  BY <1>1, <1>3, <1>4, <1>5, <1>6, <1>7, <1>8

\* The hub finds a declaration before an edit exactly when it was positioned
\* before the call edited the path.
LEMMA BeforeIsForeseen ==
  ASSUME HubInv, NEW edit \in Edits, NEW e \in chain, NEW order,
         IsOrderable(order, e, edit)
  PROVE  Before(order, e, edit) <=> e.by \in preceded[CallOf[edit.by]]
<1> USE CausalOrderAssumption
<1> DEFINE h == edit.by
           d == e.by
<1>1. /\ h \in Hooks /\ preceded[CallOf[h]] # None
      /\ took[h] # None /\ took[d] # None /\ took[d].epoch = took[h].epoch
      /\ e.n = took[d].n /\ edit.n = took[h].n
      /\ edit.after # None /\ edit.after = took[h].after
  BY ComparedWithEdit
<1>2. d \in Declarations /\ d \in Process /\ h \in Process /\ d # h
  BY <1>1 DEF HubInv, Records, ChainHolds, EntryHolds, Process
<1>3. WellFormed(e) /\ WellFormed(edit)
  BY EditIsWritten, LedgerIsDeclared DEF WellFormedChain
<1>4. WindowStart(edit) = took[h].after
  BY <1>1 DEF WindowStart
<1>5. Before(order, e, edit) <=> e.n < WindowStart(edit)
  BY <1>3, BeforeMeansEnded
<1>6. ASSUME e.n < WindowStart(edit) PROVE d \in preceded[CallOf[h]]
  <2>1. Covers(CallOf[h], took[h].epoch, took[h].after)
    BY <1>1, <1>2 DEF HubInv, Brackets, StampsHold
  <2> QED  BY <1>1, <1>2, <1>4, <1>6, <2>1 DEF Covers
<1>7. ASSUME d \in preceded[CallOf[h]] PROVE e.n < WindowStart(edit)
  <2>1. took[d].n < took[h].n
    BY <1>1, <1>2, <1>7 DEF HubInv, Brackets, AfterTheEdit
  <2>2. ~SamePoint(e, edit)
    BY <1>1, <1>3, <2>1, ComparableWindows DEF SamePoint
  <2>3. /\ e.n \in Nat /\ WindowStart(e) \in Nat /\ WindowStart(e) <= e.n
        /\ edit.n \in Nat
        /\ e.n < WindowStart(edit) \/ edit.n < WindowStart(e)
    BY <1>3, <2>2, ComparableWindows
  <2> HIDE DEF h, d
  <2> QED  BY <1>1, <2>1, <2>3
<1> QED  BY <1>5, <1>6, <1>7

----------------------------------------------------------------------------

\* Nothing is called declared before a change that was not: for every set of
\* calls, hooks, declarations, fires, lanes and ends, any block, any cap on the
\* windows, and any number of kills, refused locks and lost calls.
THEOREM PredeclaredHolds == Spec => []PredeclaredIsTrue
<1>1. HubInv => PredeclaredIsTrue
  <2> SUFFICES ASSUME HubInv, NEW edit \in Edits, Timing(edit).timing = "predeclared"
               PROVE  Foreseen(edit, "expected") # {} /\ Foreseen(edit, "non_goal") = {}
    BY DEF PredeclaredIsTrue
  <2>1. WellFormed(edit) /\ WellFormedChain(chain) /\ Declared(chain, edit) = chain
    BY EditIsWritten, LedgerIsDeclared
  <2>2. /\ \E e \in chain : "expected" \in e.names /\ Before(Order, e, edit)
        /\ \A e \in chain : "non_goal" \in e.names =>
                               IsOrderable(Order, e, edit) /\ ~Before(Order, e, edit)
    BY <2>1, PredeclaredIsEarned DEF Timing
  <2>3. PICK e \in chain : "expected" \in e.names /\ Before(Order, e, edit)
    BY <2>2
  <2>4. IsOrderable(Order, e, edit)
    BY <2>1, <2>3, BeforeMeansEnded DEF WellFormedChain
  <2>5. edit.by \in Hooks /\ e.by \in preceded[CallOf[edit.by]]
    BY <2>3, <2>4, ComparedWithEdit, BeforeIsForeseen
  <2>6. ASSUME NEW other \in Foreseen(edit, "non_goal") PROVE FALSE
    <3>1. /\ other \in chain /\ "non_goal" \in other.names
          /\ other.by \in preceded[CallOf[edit.by]]
      BY <2>6 DEF Foreseen
    <3> QED  BY <2>2, <3>1, BeforeIsForeseen
  <2> QED  BY <2>3, <2>5, <2>6 DEF Foreseen
<1> QED  BY <1>1, InitHubInv, HubInvStep, PTL DEF Spec

\* Nor is anything called declared after a change that was declared before it,
\* nor a non-goal edited that was declared one only later.
THEOREM PostHocHolds == Spec => []PostHocIsTrue
<1>1. HubInv => PostHocIsTrue
  <2> SUFFICES ASSUME HubInv, NEW edit \in Edits
               PROVE  /\ Timing(edit).reason = "declared_after" =>
                           Foreseen(edit, "expected") \cup Foreseen(edit, "non_goal") = {}
                      /\ Timing(edit).reason = "declared_non_goal_edited" =>
                           Foreseen(edit, "non_goal") # {}
    BY DEF PostHocIsTrue
  <2>1. WellFormed(edit) /\ WellFormedChain(chain) /\ Declared(chain, edit) = chain
    BY EditIsWritten, LedgerIsDeclared
  <2>2. ASSUME Timing(edit).reason = "declared_after",
               NEW e \in Foreseen(edit, "expected") \cup Foreseen(edit, "non_goal")
        PROVE  FALSE
    <3>1. /\ e \in chain /\ e.names \cap {"expected", "non_goal"} # {}
          /\ e.by \in preceded[CallOf[edit.by]]
      BY <2>2 DEF Foreseen
    <3>2. e \in Declared(chain, edit)
      BY <2>1, <3>1
    <3>3. IsOrderable(Order, e, edit) /\ ~Before(Order, e, edit)
      BY <2>1, <2>2, <3>1, <3>2, DeclaredAfterIsEarned DEF Timing
    <3> QED  BY <3>1, <3>3, BeforeIsForeseen
  <2>3. ASSUME Timing(edit).reason = "declared_non_goal_edited"
        PROVE  Foreseen(edit, "non_goal") # {}
    <3> DEFINE nonGoal == Naming(Order, chain, edit, "non_goal")
    <3>1. SomeBefore(Order, nonGoal, edit)
      BY <2>3 DEF Timing, ExplanationTiming, Answer
    <3>2. PICK e \in nonGoal : Before(Order, e, edit)
      BY <2>1, <3>1, NamingIsComparable, EarliestEntryExists DEF SomeBefore
    <3>3. e \in chain /\ "non_goal" \in e.names /\ IsOrderable(Order, e, edit)
      BY <3>2 DEF Naming, Declared
    <3>4. edit.by \in Hooks /\ e.by \in preceded[CallOf[edit.by]]
      BY <3>2, <3>3, ComparedWithEdit, BeforeIsForeseen
    <3> QED  BY <3>3, <3>4 DEF Foreseen
  <2> QED  BY <2>2, <2>3
<1> QED  BY <1>1, InitHubInv, HubInvStep, PTL DEF Spec

\* The start names a file's epoch, or one that was named for want of a file; every
\* other row names a file's; and none lost its position to another event.  So with
\* one file created, the start alone can break the order.
THEOREM OrderHolds == Spec => []OrderStaysUsable
<1>1. HubInv => OrderStaysUsable
  <2> SUFFICES ASSUME HubInv, ~(Cardinality(born) > 1), ~NamedInVain
               PROVE  Order.state # "broken"
    BY DEF OrderStaysUsable
  <2> USE CausalOrderAssumption
  <2>1. ASSUME NEW r \in rows
        PROVE  r.reason # "epoch_conflict" /\ r.epoch \in born \cup {None}
    <3>1. CASE r.what = "started" /\ r.reason # "epoch_conflict"
               /\ r.epoch \in born \cup unfiled \cup {None}
      BY <3>1 DEF NamedInVain
    <3>2. CASE Writes(r.what, r.by) /\ r = Written(r.what, r.by)
      <4>1. took[r.by] # None => took[r.by].epoch \in born
        BY <3>2 DEF HubInv, Minted, Writes
      <4>2. /\ r.reason = Position(took[r.by], "allocation_failed").reason
            /\ r.epoch = Position(took[r.by], "allocation_failed").epoch
        BY <3>2 DEF Written, Event
      <4> QED  BY <4>1, <4>2 DEF Position
    <3> QED  BY <2>1, <3>1, <3>2 DEF HubInv, Records, RowsHold
  <2>2. EpochsOf(rows) \subseteq born
    BY <2>1 DEF EpochsOf
  <2>3. IsFiniteSet(born)
    BY DEF HubInv, Minted
  <2>4. /\ Cardinality(EpochsOf(rows)) <= Cardinality(born)
        /\ Cardinality(EpochsOf(rows)) \in Nat /\ Cardinality(born) \in Nat
    BY <2>2, <2>3, FS_Subset, FS_CardinalityType
  <2>5. ~(Cardinality(EpochsOf(rows)) > 1)
    BY <2>4
  <2> QED  BY <2>1, <2>5 DEF Order, CausalOrderOf
<1> QED  BY <1>1, InitHubInv, HubInvStep, PTL DEF Spec
=============================================================================
