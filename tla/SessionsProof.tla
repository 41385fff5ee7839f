--------------------------- MODULE SessionsProof ----------------------------
(***************************************************************************)
(* A session on either side of the wire: its row at the hub (HubSessions), *)
(* for any number of requests, passes and restarts, and its registrations, *)
(* lines and edits at the ACP proxy (AcpProxy), for any client script.     *)
(***************************************************************************)
EXTENDS HubSessions, AcpProxy, TLAPS

----------------------------------------------------------------------------
(* The row at the hub.                                                     *)


(* No step takes back an end the session reported.                         *)
LEMMA EndStays == ASSUME Next, life = "ended" PROVE life' = "ended"
<1>1. ASSUME NEW r \in Req, Arrive(r) PROVE life' = "ended"
  BY <1>1 DEF Arrive, row
<1>2. ASSUME NEW r \in Req, Step(r) PROVE life' = "ended"
  <2>1. CASE Reap(r) BY <2>1 DEF Reap
  <2>2. CASE InsertRow(r) BY <2>2 DEF InsertRow, row
  <2>3. CASE Revive(r) BY <2>3 DEF Revive
  <2>4. CASE End(r) BY <2>4 DEF End
  <2>5. CASE Touch(r) \/ Beat(r) \/ TouchHeartbeat(r)
    BY <2>5 DEF Touch, Beat, TouchHeartbeat
  <2>6. CASE SelectStale(r) \/ ReapJournal(r) \/ ReapMark(r) \/ StartJournal(r) \/ StartMark(r)
             \/ ReadExisting(r) \/ ReviveJournal(r)
    BY <2>6 DEF SelectStale, ReapJournal, ReapMark, StartJournal, StartMark, ReadExisting,
                ReviveJournal, row
  <2>7. CASE Look(r) \/ Gate(r) \/ Store(r) \/ LookEnd(r) \/ Balance(r) \/ Withdraw(r)
             \/ EndJournal(r) \/ EndMark(r) \/ EndRemark(r)
    BY <2>7 DEF Look, Gate, Store, LookEnd, Balance, Withdraw, EndJournal, EndMark, EndRemark, row
  <2>8. QED BY <1>2, <2>1, <2>2, <2>3, <2>4, <2>5, <2>6, <2>7 DEF Step
<1>3. CASE Silence BY <1>3 DEF Silence
<1>4. CASE Crash BY <1>4 DEF Crash, row
<1>5. QED BY <1>1, <1>2, <1>3, <1>4 DEF Next

(* For any requests, interleaved in any way: the reported end is final.    *)
THEOREM EndIsFinal == Spec => ReportedEndIsFinal
<1>1. [Next]_vars => [life = "ended" => life' = "ended"]_vars
  BY EndStays DEF vars
<1>2. QED BY <1>1, PTL DEF Spec, ReportedEndIsFinal

(* The parts of the state the refusals depend on, and the answers in it.   *)
Refusals ==
  /\ life \in Lives
  /\ pc \in [Req -> Labels] /\ view \in [Req -> Lives] /\ got \in [Req -> Answers]
  /\ \A r \in Req : pc[r] \in {"done", "lost"} \/ got[r] = "none"
  /\ SilenceCostsNoRecord

LEMMA RefusalsStep == Refusals /\ [Next]_vars => Refusals'
<1> SUFFICES ASSUME Refusals, [Next]_vars PROVE Refusals'
  OBVIOUS
<1> USE DEF Refusals, SilenceCostsNoRecord, Labels, Lives, Answers, Goto, At, Answer
<1>1. ASSUME NEW r \in Req, Arrive(r) PROVE Refusals'
  BY <1>1, HubAssumption DEF Arrive, Kinds, row
<1>2. ASSUME NEW r \in Req, Step(r) PROVE Refusals'
  <2>1. CASE SelectStale(r) \/ Reap(r) \/ ReapJournal(r) \/ ReapMark(r)
    BY <2>1 DEF SelectStale, Reap, ReapJournal, ReapMark, PassEnds, row
  <2>2. CASE InsertRow(r) \/ StartJournal(r) \/ StartMark(r)
    BY <2>2 DEF InsertRow, StartJournal, StartMark, row
  <2>3. CASE ReadExisting(r) BY <2>3 DEF ReadExisting, RepoOrTouch, row
  <2>4. CASE Touch(r) \/ Beat(r) \/ TouchHeartbeat(r)
    BY <2>4 DEF Touch, Beat, TouchHeartbeat
  <2>5. CASE Revive(r) BY <2>5 DEF Revive, AfterRevival, RepoOrTouch
  <2>6. CASE ReviveJournal(r) BY <2>6 DEF ReviveJournal, AfterRevival, RepoOrTouch, row
  <2>7. CASE Look(r) BY <2>7 DEF Look, row
  <2>8. CASE Gate(r) BY <2>8 DEF Gate, row
  <2>9. CASE Store(r) BY <2>9 DEF Store, row
  <2>10. CASE LookEnd(r) \/ End(r) BY <2>10 DEF LookEnd, End, row
  <2>11. CASE Balance(r) \/ Withdraw(r) \/ EndJournal(r) \/ EndMark(r) \/ EndRemark(r)
    BY <2>11 DEF Balance, Withdraw, EndJournal, EndMark, EndRemark, row
  <2>12. QED
    BY <1>2, <2>1, <2>2, <2>3, <2>4, <2>5, <2>6, <2>7, <2>8, <2>9, <2>10, <2>11 DEF Step
<1>3. CASE Silence BY <1>3 DEF Silence, request
<1>4. CASE Crash BY <1>4 DEF Crash, Running, row
<1>5. CASE UNCHANGED vars BY <1>5 DEF vars, row, request
<1>6. QED BY <1>1, <1>2, <1>3, <1>4, <1>5 DEF Next

(* For any requests: a record of a known session is refused only after the *)
(* session reported its own end.                                           *)
THEOREM NoRecordLostToSilence == Spec => []SilenceCostsNoRecord
<1>1. Init => Refusals
  BY DEF Init, Refusals, SilenceCostsNoRecord, Labels, Lives, Answers
<1>2. Refusals => SilenceCostsNoRecord
  BY DEF Refusals
<1>3. QED BY <1>1, <1>2, RefusalsStep, PTL DEF Spec

(* What the ledgers hold: beside Refusals, the rest of TypeOK.             *)
Books ==
  /\ stale \in BOOLEAN /\ cast \in Casts
  /\ journal \in Seq({"start", "end"})
  /\ \A m \in marks :
       /\ m.kind \in {"started", "ended"} /\ m.seq \in Nat \cup {None}
       /\ m.reason \in {"sequenced", "absent", "reaped_end", "epoch_conflict"}
  /\ \A m, n \in marks : m.kind = n.kind /\ m.seq = n.seq => m = n
  /\ silences \in 0..cast.silences /\ crashes \in 0..cast.crashes

LEMMA InsertKeepsBooks ==
  ASSUME Books, UNCHANGED <<stale, journal, bounds>>,
         NEW mark, Insert(mark), mark.kind \in {"started", "ended"}, mark.seq \in Nat \cup {None},
         mark.reason \in {"sequenced", "absent", "reaped_end", "epoch_conflict"}
  PROVE  Books'
BY DEF Books, Insert, bounds

LEMMA BooksStep == Books /\ [Next]_vars => Books'
<1> SUFFICES ASSUME Books, [Next]_vars PROVE Books'
  OBVIOUS
<1>1. ASSUME UNCHANGED <<stale, journal, marks, bounds>> PROVE Books'
  BY <1>1 DEF Books, bounds
<1>2. ASSUME stale' \in BOOLEAN, UNCHANGED <<journal, marks, bounds>> PROVE Books'
  BY <1>2 DEF Books, bounds
<1>3. ASSUME NEW entry \in {"start", "end"}, Appends(entry), UNCHANGED <<stale, marks, bounds>>
      PROVE Books'
  <2>1. journal' \in Seq({"start", "end"})
    BY <1>3 DEF Books, Appends
  <2> QED  BY <1>3, <2>1 DEF Books, bounds
<1>4. ASSUME NEW r \in Req, Arrive(r) PROVE Books'
  BY <1>1, <1>4 DEF Arrive, row
<1>5. ASSUME NEW r \in Req, Step(r) PROVE Books'
  <2>1. CASE SelectStale(r) \/ Reap(r) \/ ReadExisting(r) \/ Look(r) \/ Gate(r) \/ Store(r)
             \/ LookEnd(r) \/ End(r)
    BY <1>1, <2>1 DEF SelectStale, Reap, ReadExisting, Look, Gate, Store, LookEnd, End, row
  <2>2. CASE InsertRow(r) \/ Touch(r) \/ Revive(r) \/ Beat(r) \/ TouchHeartbeat(r)
    BY <1>2, <2>2 DEF InsertRow, Touch, Revive, Beat, TouchHeartbeat, row, Books
  <2>3. CASE ReapJournal(r) \/ StartJournal(r) \/ ReviveJournal(r) \/ Balance(r) \/ EndJournal(r)
    BY <1>3, <2>3 DEF ReapJournal, StartJournal, ReviveJournal, Balance, EndJournal, row
  <2>4. CASE ReapMark(r) \/ StartMark(r) \/ EndRemark(r)
    BY <2>4, InsertKeepsBooks DEF ReapMark, StartMark, EndRemark, row
  <2>5. CASE EndMark(r)
    <3>1. SeqOf[r] \in Nat \cup {None}
      BY HubAssumption
    <3> QED
      BY <1>1, <2>5, <3>1, InsertKeepsBooks DEF EndMark, row
  <2>6. CASE Withdraw(r)
    BY <2>6 DEF Withdraw, row, bounds, Books
  <2> QED
    BY <1>5, <2>1, <2>2, <2>3, <2>4, <2>5, <2>6 DEF Step
<1>6. cast.silences \in Nat /\ cast.crashes \in Nat
  BY HubAssumption DEF Books
<1>7. CASE Silence
  BY <1>6, <1>7 DEF Silence, Books
<1>8. CASE Crash
  BY <1>6, <1>8 DEF Crash, Books, row
<1>9. CASE UNCHANGED vars
  BY <1>1, <1>9 DEF vars, row
<1> QED
  BY <1>4, <1>5, <1>7, <1>8, <1>9 DEF Next

LEMMA InitBooks == Init => Refusals /\ Books
<1> SUFFICES ASSUME Init PROVE Refusals /\ Books
  OBVIOUS
<1>1. Refusals
  BY DEF Init, Refusals, SilenceCostsNoRecord, Labels, Lives, Answers
<1>2. 0 \in 0..cast.silences /\ 0 \in 0..cast.crashes
  BY HubAssumption DEF Init
<1>3. journal \in Seq({"start", "end"})
  BY DEF Init
<1> QED
  BY <1>1, <1>2, <1>3 DEF Init, Books

(* For any requests: every variable keeps its domain, and session_events   *)
(* never holds two rows of one kind and position.                          *)
THEOREM TypeCorrect == Spec => []TypeOK
<1>1. Refusals /\ Books => TypeOK
  BY DEF Refusals, Books, TypeOK
<1>2. QED BY <1>1, InitBooks, RefusalsStep, BooksStep, PTL DEF Spec

(***************************************************************************)
(* Requests that do not overlap, in a hub that has not restarted, follow   *)
(* each other.  Between two of them the ledger tells the row; within one,  *)
(* pc says how far it lags, and which end rows stand.                      *)
(***************************************************************************)
InTurn == crashes = 0 /\ ~cast.overlap

OneAtATime == \A r, s \in Req : Running(r) /\ Running(s) => r = s

Told == journal # <<>> /\ journal[Len(journal)] = "start"

(* Where the row has been closed, or opened, and the ledger not yet told.  *)
OwesEnd == {"reapJournal", "withdraw", "endJournal"}
OwesStart == {"startJournal", "reviveJournal"}

(* The steps of an end request, and those after its UPDATE.                *)
Closing == {"balance", "withdraw", "endJournal", "endMark", "endRemark"}
EndLabels == {"todo", "lookend", "end", "done", "lost"} \cup Closing

Ledger ==
  /\ Alternates
  /\ \A r \in Req :
       /\ pc[r] \in OwesEnd => Told /\ life # "open"
       /\ pc[r] \in OwesStart => ~Told /\ life = "open"
       /\ pc[r] = "end" => view[r] = life /\ life # "none"
       /\ pc[r] \in {"reapJournal", "reapMark"} => life = "reaped"
       /\ pc[r] \in Closing => life = "ended"
  /\ (\A r \in Req : pc[r] \notin OwesEnd \cup OwesStart) => (Told <=> life = "open")

(* Until a reported end is written there are only inferred ones; when that *)
(* end was of a reaped row, it is the only one afterwards.                 *)
Withdrawn ==
  /\ life # "ended" \/ (\E r \in Req : pc[r] \in Closing) =>
       \A m \in Ends : m.reason = "reaped_end"
  /\ \A r \in Req : KindOf[r] = "end" =>
       /\ pc[r] \in EndLabels
       /\ pc[r] \in {"todo", "lookend"} => view[r] = "none"
       /\ view[r] = "reaped" =>
            /\ pc[r] \in {"endJournal", "endMark", "endRemark"} => Ends = {}
            /\ pc[r] = "done" => life = "ended" /\ \E m \in Ends : Ends = {m} /\ m.reason # "reaped_end"
  /\ \A r \in Req : pc[r] # "lost"

TurnInv == InTurn => OneAtATime /\ Ledger /\ Withdrawn

LEMMA EndTold ==
  ASSUME journal \in Seq({"start", "end"}), Alternates, Told, Appends("end")
  PROVE  Alternates' /\ ~Told'
<1> DEFINE n == Len(journal)
<1>1. /\ n \in Nat /\ n # 0 /\ DOMAIN journal = 1..n
      /\ Len(journal') = n + 1 /\ DOMAIN journal' = 1..(n + 1) /\ journal' # <<>>
      /\ journal'[n + 1] = "end" /\ \A k \in 1..n : journal'[k] = journal[k]
  BY DEF Told, Appends
<1>2. n % 2 = 1
  BY <1>1 DEF Told, Alternates
<1>3. (n + 1) % 2 = 0
  BY <1>1, <1>2
<1>4. ASSUME NEW k \in 1..(n + 1)
      PROVE  journal'[k] = (IF k % 2 = 1 THEN "start" ELSE "end")
  <2>1. CASE k = n + 1
    BY <1>1, <1>3, <2>1
  <2>2. CASE k \in 1..n
    BY <1>1, <2>2 DEF Alternates
  <2> QED  BY <1>1, <2>1, <2>2
<1> QED
  BY <1>1, <1>4 DEF Told, Alternates

LEMMA StartTold ==
  ASSUME journal \in Seq({"start", "end"}), Alternates, ~Told, Appends("start")
  PROVE  Alternates' /\ Told'
<1> DEFINE n == Len(journal)
<1>1. /\ n \in Nat /\ DOMAIN journal = 1..n
      /\ Len(journal') = n + 1 /\ DOMAIN journal' = 1..(n + 1) /\ journal' # <<>>
      /\ journal'[n + 1] = "start" /\ \A k \in 1..n : journal'[k] = journal[k]
  BY DEF Appends
<1>2. n % 2 = 0
  <2>1. CASE n = 0
    BY <2>1
  <2>2. CASE n # 0
    <3>1. journal # <<>> /\ n \in 1..n
      BY <1>1, <2>2
    <3>2. journal[n] # "start"
      BY <3>1 DEF Told
    <3>3. n % 2 # 1
      BY <1>1, <3>1, <3>2 DEF Alternates
    <3> QED  BY <1>1, <3>3
  <2> QED  BY <2>1, <2>2
<1>3. (n + 1) % 2 = 1
  BY <1>1, <1>2
<1>4. ASSUME NEW k \in 1..(n + 1)
      PROVE  journal'[k] = (IF k % 2 = 1 THEN "start" ELSE "end")
  <2>1. CASE k = n + 1
    BY <1>1, <1>3, <2>1
  <2>2. CASE k \in 1..n
    BY <1>1, <2>2 DEF Alternates
  <2> QED  BY <1>1, <2>1, <2>2
<1> QED
  BY <1>1, <1>4 DEF Told, Alternates

(* A request that arrives comes alone, and one that takes a step is the    *)
(* only one under way.                                                     *)
LEMMA Alone ==
  ASSUME OneAtATime, NEW r \in Req, Running(r)
  PROVE  \A s \in Req : s # r => pc[s] \in {"todo", "done", "lost"}
BY DEF OneAtATime, Running

LEMMA OneAtATimeStep ==
  ASSUME Refusals, Books, InTurn, OneAtATime, [Next]_vars, InTurn'
  PROVE  OneAtATime'
<1> USE DEF OneAtATime, Running
<1>1. ASSUME NEW r \in Req, Arrive(r) PROVE OneAtATime'
  BY <1>1 DEF Arrive, Quiet, InTurn, Goto, Refusals
<1>2. ASSUME NEW r \in Req, Step(r) PROVE OneAtATime'
  <2>1. Running(r) /\ \A s \in Req : s # r => pc'[s] = pc[s]
    <3> USE DEF Refusals, At, Goto, Answer
    <3>1. CASE SelectStale(r) \/ Reap(r) \/ ReapJournal(r) \/ ReapMark(r)
               \/ InsertRow(r) \/ StartJournal(r) \/ StartMark(r)
      BY <3>1 DEF SelectStale, Reap, ReapJournal, ReapMark, PassEnds, InsertRow, StartJournal,
                  StartMark
    <3>2. CASE ReadExisting(r) \/ Touch(r) \/ Revive(r) \/ ReviveJournal(r)
      BY <3>2 DEF ReadExisting, Touch, Revive, ReviveJournal, AfterRevival, RepoOrTouch
    <3>3. CASE Look(r) \/ Beat(r) \/ Gate(r) \/ Store(r) \/ TouchHeartbeat(r) \/ LookEnd(r)
      BY <3>3 DEF Look, Beat, Gate, Store, TouchHeartbeat, LookEnd
    <3>4. CASE End(r) \/ Balance(r) \/ Withdraw(r) \/ EndJournal(r) \/ EndMark(r) \/ EndRemark(r)
      BY <3>4 DEF End, Balance, Withdraw, EndJournal, EndMark, EndRemark
    <3> QED  BY <1>2, <3>1, <3>2, <3>3, <3>4 DEF Step
  <2> QED  BY <2>1
<1>3. CASE Silence BY <1>3 DEF Silence, request
<1>4. CASE Crash BY <1>4 DEF Crash, InTurn, Books
<1>5. CASE UNCHANGED vars BY <1>5 DEF vars, request
<1> QED  BY <1>1, <1>2, <1>3, <1>4, <1>5 DEF Next

(* A step that leaves the ledger as it is.                                 *)
LEMMA LedgerUntouched ==
  ASSUME Alternates, UNCHANGED journal
  PROVE  Alternates' /\ (Told' <=> Told)
BY DEF Alternates, Told

LEMMA LedgerStep ==
  ASSUME Refusals, Books, InTurn, OneAtATime, Ledger, [Next]_vars, InTurn'
  PROVE  Ledger'
<1> USE DEF Refusals, OwesEnd, OwesStart, Closing, Goto, At, Answer
<1>1. ASSUME NEW r \in Req, Arrive(r) PROVE Ledger'
  <2>1. Alternates' /\ (Told' <=> Told)
    BY <1>1, LedgerUntouched DEF Arrive, Ledger
  <2> QED
    BY <1>1, <2>1, HubAssumption DEF Arrive, Ledger, row, Kinds
<1>2. ASSUME NEW r \in Req, Step(r) PROVE Ledger'
  <2>1. ASSUME Running(r) PROVE \A s \in Req : s # r => pc[s] \in {"todo", "done", "lost"}
    BY <2>1, Alone
  <2>2. ASSUME UNCHANGED journal PROVE Alternates' /\ (Told' <=> Told)
    BY <2>2, LedgerUntouched DEF Ledger
  <2>3. ASSUME Told, Appends("end") PROVE Alternates' /\ ~Told'
    BY <2>3, EndTold DEF Ledger, Books
  <2>4. ASSUME ~Told, Appends("start") PROVE Alternates' /\ Told'
    BY <2>4, StartTold DEF Ledger, Books
  <2> HIDE DEF Answers
  <2>5. CASE SelectStale(r)
    BY <2>1, <2>2, <2>5 DEF SelectStale, PassEnds, Ledger, Running, row
  <2>6. CASE Reap(r)
    BY <2>1, <2>2, <2>6 DEF Reap, PassEnds, Ledger, Running
  <2>7. CASE ReapJournal(r)
    BY <2>1, <2>3, <2>7 DEF ReapJournal, Ledger, Running, row
  <2>8. CASE ReapMark(r)
    BY <2>1, <2>2, <2>8 DEF ReapMark, PassEnds, Ledger, Running, row
  <2>9. CASE InsertRow(r)
    BY <2>1, <2>2, <2>9 DEF InsertRow, Ledger, Running, row
  <2>10. CASE StartJournal(r)
    BY <2>1, <2>4, <2>10 DEF StartJournal, Ledger, Running, row
  <2>11. CASE StartMark(r)
    BY <2>1, <2>2, <2>11 DEF StartMark, Ledger, Running, row
  <2>12. CASE ReadExisting(r)
    BY <2>1, <2>2, <2>12 DEF ReadExisting, RepoOrTouch, Ledger, Running, row
  <2>13. CASE Touch(r) \/ Beat(r) \/ TouchHeartbeat(r)
    BY <2>1, <2>2, <2>13 DEF Touch, Beat, TouchHeartbeat, Ledger, Running, row
  <2>14. CASE Revive(r)
    BY <2>1, <2>2, <2>14 DEF Revive, AfterRevival, RepoOrTouch, Ledger, Running
  <2>15. CASE ReviveJournal(r)
    BY <2>1, <2>4, <2>15 DEF ReviveJournal, AfterRevival, RepoOrTouch, Ledger, Running, row
  <2>16. CASE Look(r) \/ Gate(r) \/ Store(r)
    BY <2>1, <2>2, <2>16 DEF Look, Gate, Store, Ledger, Running, row
  <2>17. CASE LookEnd(r)
    BY <2>1, <2>2, <2>17 DEF LookEnd, Ledger, Running, row
  <2>18. CASE End(r)
    <3>1. /\ Running(r) /\ pc[r] = "end" /\ view[r] = life /\ life # "none"
          /\ Told <=> life = "open"
      BY <2>1, <2>18 DEF End, Ledger, Running
    <3>2. CASE life = "ended"
      BY <2>1, <2>2, <2>18, <3>1, <3>2 DEF End, Ledger
    <3>3. CASE life = "reaped"
      BY <2>1, <2>2, <2>18, <3>1, <3>3 DEF End, Ledger
    <3>4. CASE life = "open"
      BY <2>1, <2>2, <2>18, <3>1, <3>4 DEF End, Ledger
    <3> QED  BY <3>1, <3>2, <3>3, <3>4 DEF Lives
  <2>19. CASE Balance(r)
    BY <2>1, <2>4, <2>19 DEF Balance, Ledger, Running, row
  <2>20. CASE Withdraw(r)
    BY <2>1, <2>2, <2>20 DEF Withdraw, Ledger, Running, row
  <2>21. CASE EndJournal(r)
    BY <2>1, <2>3, <2>21 DEF EndJournal, Ledger, Running, row
  <2>22. CASE EndMark(r) \/ EndRemark(r)
    BY <2>1, <2>2, <2>22 DEF EndMark, EndRemark, Ledger, Running, row
  <2> QED
    BY <1>2, <2>5, <2>6, <2>7, <2>8, <2>9, <2>10, <2>11, <2>12, <2>13, <2>14, <2>15, <2>16, <2>17,
       <2>18, <2>19, <2>20, <2>21, <2>22 DEF Step
<1>3. CASE Silence
  BY <1>3, LedgerUntouched DEF Silence, request, Ledger
<1>4. CASE Crash BY <1>4 DEF Crash, InTurn, Books
<1>5. CASE UNCHANGED vars BY <1>5, LedgerUntouched DEF vars, request, row, Ledger
<1> QED  BY <1>1, <1>2, <1>3, <1>4, <1>5 DEF Next

(* Insert of a mark of the given kind: of Ends it adds at most that one.   *)
LEMMA InsertEnds ==
  ASSUME NEW mark, Insert(mark), mark.kind \in {"started", "ended"}
  PROVE  /\ mark.kind = "started" => Ends' = Ends
         /\ mark.kind = "ended" /\ Ends = {} => Ends' = {mark}
         /\ mark.kind = "ended" => Ends' \subseteq Ends \cup {mark}
BY DEF Insert, Ends

LEMMA WithdrawnStep ==
  ASSUME Refusals, Books, InTurn, OneAtATime, Ledger, Withdrawn, [Next]_vars, InTurn'
  PROVE  Withdrawn'
<1> USE DEF Refusals, Closing, EndLabels, Goto, At, Answer
<1>0. ASSUME UNCHANGED marks PROVE Ends' = Ends
  BY <1>0 DEF Ends
<1>1. ASSUME NEW r \in Req, Arrive(r) PROVE Withdrawn'
  <2>1. /\ pc' = [pc EXCEPT ![r] = pc'[r]] /\ pc[r] = "todo"
        /\ pc'[r] \in {"select", "look", "lookend", "gate"}
        /\ KindOf[r] = "end" => pc'[r] = "lookend"
    BY <1>1, HubAssumption DEF Arrive, Kinds
  <2>2. UNCHANGED <<life, view>> /\ Ends' = Ends
    BY <1>0, <1>1 DEF Arrive, row
  <2> QED
    BY <2>1, <2>2 DEF Withdrawn
<1>2. ASSUME NEW r \in Req, Step(r) PROVE Withdrawn'
  <2>1. ASSUME Running(r) PROVE \A s \in Req : s # r => pc[s] \in {"todo", "done", "lost"}
    BY <2>1, Alone
  <2> HIDE DEF Answers
  <2>2. ASSUME NEW mark, Insert(mark), mark.kind = "ended", Ends = {}
        PROVE  Ends' = {mark}
    BY <2>2, InsertEnds
  <2>5. CASE SelectStale(r)
    BY <1>0, <2>1, <2>5 DEF SelectStale, PassEnds, Withdrawn, Running, row
  <2>6. CASE Reap(r)
    BY <1>0, <2>1, <2>6 DEF Reap, PassEnds, Withdrawn, Running
  <2>7. CASE ReapJournal(r)
    BY <1>0, <2>1, <2>7 DEF ReapJournal, Withdrawn, Running, row
  <2>8. CASE ReapMark(r)
    <3> DEFINE mark == [kind |-> "ended", seq |-> None, reason |-> "reaped_end"]
    <3>1. Ends' \subseteq Ends \cup {mark}
      BY <2>8, InsertEnds DEF ReapMark
    <3>2. mark.reason = "reaped_end"
      OBVIOUS
    <3>3. life = "reaped" /\ life' = life
      BY <2>8 DEF ReapMark, Ledger, row
    <3> HIDE DEF mark
    <3> QED
      BY <2>1, <2>8, <3>1, <3>2, <3>3 DEF ReapMark, PassEnds, Withdrawn, Running, row
  <2>9. CASE InsertRow(r)
    BY <1>0, <2>1, <2>9 DEF InsertRow, Withdrawn, Running, row
  <2>10. CASE StartJournal(r)
    BY <1>0, <2>1, <2>10 DEF StartJournal, Withdrawn, Running, row
  <2>11. CASE StartMark(r)
    <3>1. Ends' = Ends
      BY <2>11, InsertEnds DEF StartMark
    <3> QED
      BY <2>1, <2>11, <3>1 DEF StartMark, Withdrawn, Running, row
  <2>12. CASE ReadExisting(r)
    BY <1>0, <2>1, <2>12 DEF ReadExisting, RepoOrTouch, Withdrawn, Running, row
  <2>13. CASE Touch(r) \/ Beat(r) \/ TouchHeartbeat(r)
    BY <1>0, <2>1, <2>13 DEF Touch, Beat, TouchHeartbeat, Withdrawn, Running, row
  <2>14. CASE Revive(r)
    BY <1>0, <2>1, <2>14 DEF Revive, AfterRevival, RepoOrTouch, Withdrawn, Running
  <2>15. CASE ReviveJournal(r)
    BY <1>0, <2>1, <2>15 DEF ReviveJournal, AfterRevival, RepoOrTouch, Withdrawn, Running, row
  <2>16. CASE Look(r) \/ Gate(r) \/ Store(r)
    BY <1>0, <2>1, <2>16 DEF Look, Gate, Store, Withdrawn, Running, row
  <2>17. CASE LookEnd(r)
    BY <1>0, <2>1, <2>17 DEF LookEnd, Withdrawn, Running, row
  <2>18. CASE End(r)
    BY <1>0, <2>1, <2>18 DEF End, Withdrawn, Running, Ledger
  <2>19. CASE Balance(r)
    BY <1>0, <2>1, <2>19 DEF Balance, Withdrawn, Running, row
  <2>20. CASE Withdraw(r)
    <3>1. Ends' = {m \in Ends : m.reason # "reaped_end"}
      BY <2>20 DEF Withdraw, Ends
    <3>2. Ends' = {}
      BY <2>20, <3>1 DEF Withdraw, Withdrawn
    <3> QED
      BY <2>1, <2>20, <3>2 DEF Withdraw, Withdrawn, Running, row
  <2>21. CASE EndJournal(r)
    BY <1>0, <2>1, <2>21 DEF EndJournal, Withdrawn, Running, row
  <2>22. CASE EndMark(r) /\ SeqOf[r] \in Taken
    BY <1>0, <2>1, <2>22 DEF EndMark, Withdrawn, Running, row
  <2>23. ASSUME pc[r] \in {"endMark", "endRemark"}, Answer(r, "ended"), UNCHANGED <<life, view>>,
                NEW mark, Insert(mark), mark.kind = "ended", mark.reason # "reaped_end"
         PROVE  Withdrawn'
    <3>1. view[r] = "reaped" /\ KindOf[r] = "end" => Ends' = {mark}
      BY <2>2, <2>23 DEF Withdrawn
    <3>2. Running(r) /\ life = "ended"
      BY <2>23 DEF Running, Ledger
    <3>3. ASSUME NEW s \in Req, s # r, KindOf[s] = "end", pc[s] = "done" PROVE view[s] # "reaped"
      <4>1. \A m \in Ends : m.reason = "reaped_end"
        BY <2>23 DEF Withdrawn
      <4> QED  BY <3>3, <4>1 DEF Withdrawn
    <3>4. view[r] = "reaped" /\ KindOf[r] = "end" =>
            \E m \in Ends' : Ends' = {m} /\ m.reason # "reaped_end"
      BY <2>23, <3>1
    <3> QED
      BY <2>1, <2>23, <3>2, <3>3, <3>4 DEF Withdrawn
  <2>24. CASE EndMark(r) /\ SeqOf[r] \notin Taken
    <3> DEFINE mark == [kind |-> "ended", seq |-> SeqOf[r],
                        reason |-> IF SeqOf[r] = None THEN "absent" ELSE "sequenced"]
    <3>1. Insert(mark) /\ mark.kind = "ended" /\ mark.reason # "reaped_end"
      BY <2>24 DEF EndMark
    <3>2. pc[r] = "endMark" /\ Answer(r, "ended") /\ UNCHANGED <<life, view>>
      BY <2>24 DEF EndMark, row
    <3> HIDE DEF mark
    <3> QED  BY <2>23, <3>1, <3>2
  <2>25. CASE EndRemark(r)
    <3> DEFINE mark == [kind |-> "ended", seq |-> None, reason |-> "epoch_conflict"]
    <3>1. Insert(mark) /\ mark.kind = "ended" /\ mark.reason # "reaped_end"
      BY <2>25 DEF EndRemark
    <3>2. pc[r] = "endRemark" /\ Answer(r, "ended") /\ UNCHANGED <<life, view>>
      BY <2>25 DEF EndRemark, row
    <3> HIDE DEF mark
    <3> QED  BY <2>23, <3>1, <3>2
  <2> QED
    BY <1>2, <2>5, <2>6, <2>7, <2>8, <2>9, <2>10, <2>11, <2>12, <2>13, <2>14, <2>15, <2>16, <2>17,
       <2>18, <2>19, <2>20, <2>21, <2>22, <2>24, <2>25 DEF Step
<1>3. CASE Silence
  BY <1>0, <1>3 DEF Silence, request, Withdrawn
<1>4. CASE Crash BY <1>4 DEF Crash, InTurn, Books
<1>5. CASE UNCHANGED vars BY <1>0, <1>5 DEF vars, request, row, Withdrawn
<1> QED  BY <1>1, <1>2, <1>3, <1>4, <1>5 DEF Next

LEMMA TurnInvStep == Refusals /\ Books /\ TurnInv /\ [Next]_vars => TurnInv'
<1> SUFFICES ASSUME Refusals, Books, TurnInv, [Next]_vars, InTurn'
             PROVE  OneAtATime' /\ Ledger' /\ Withdrawn'
  BY DEF TurnInv
<1>1. cast' = cast /\ (crashes' = crashes \/ crashes' = crashes + 1)
  <2>1. ASSUME NEW r \in Req, Arrive(r) PROVE UNCHANGED bounds
    BY <2>1 DEF Arrive
  <2>2. ASSUME NEW r \in Req, Step(r) PROVE UNCHANGED bounds
    BY <2>2 DEF Step, SelectStale, Reap, ReapJournal, ReapMark, InsertRow, StartJournal, StartMark,
                ReadExisting, Touch, Revive, ReviveJournal, Look, Beat, Gate, Store, TouchHeartbeat,
                LookEnd, End, Balance, Withdraw, EndJournal, EndMark, EndRemark
  <2>3. CASE Silence BY <2>3 DEF Silence
  <2>4. CASE Crash BY <2>4 DEF Crash
  <2>5. CASE UNCHANGED vars BY <2>5 DEF vars, bounds
  <2> QED  BY <2>1, <2>2, <2>3, <2>4, <2>5 DEF Next, bounds
<1>2. InTurn
  BY <1>1 DEF InTurn, Books
<1> QED
  BY <1>2, OneAtATimeStep, LedgerStep, WithdrawnStep DEF TurnInv

LEMMA TurnInvHolds == Spec => [](TurnInv /\ Refusals)
<1>1. Init => TurnInv
  BY DEF Init, TurnInv, OneAtATime, Running, Ledger, Alternates, Told, Withdrawn, Ends, OwesEnd,
         OwesStart, Closing, EndLabels
<1>2. QED
  BY <1>1, InitBooks, RefusalsStep, BooksStep, TurnInvStep, PTL DEF Spec

(* For any requests that do not overlap, over any number of silences and   *)
(* reaps: between requests the /api/events ledger alternates starts and    *)
(* ends, and its last entry is a start just when the row is open.          *)
THEOREM LedgerIsTrue == Spec => []LedgerTellsTheRow
<1>1. TurnInv => LedgerTellsTheRow
  BY DEF TurnInv, InTurn, LedgerTellsTheRow, Ledger, Quiet, Running, OwesEnd, OwesStart, Told
<1>2. QED BY <1>1, TurnInvHolds, PTL

(* For any requests that do not overlap: once a session reported the end   *)
(* of a row the reaper had closed, one end row is left, and not a reaped   *)
(* one.                                                                    *)
THEOREM WithdrawalIsTrue == Spec => []InferredEndWithdrawn
<1>1. TurnInv /\ Refusals => InferredEndWithdrawn
  <2> SUFFICES ASSUME TurnInv, Refusals, Quiet, InTurn,
                      NEW r \in Req, KindOf[r] = "end", view[r] = "reaped"
               PROVE  \E m \in Ends : Ends = {m} /\ m.reason # "reaped_end"
    BY DEF InferredEndWithdrawn, InTurn
  <2>1. pc[r] = "done"
    BY DEF TurnInv, Withdrawn, Quiet, Running
  <2> QED
    BY <2>1 DEF TurnInv, Withdrawn
<1>2. QED BY <1>1, TurnInvHolds, PTL

----------------------------------------------------------------------------
(* The proxy's wire, gate, queue and lives, each with what its steps keep. *)


Stages == {"setup", "settle", "take", "record", "tell", "hint", "stopped"}

Said == [kind : {"answer"}, n : Nat, ok : BOOLEAN, version : {Supported, Supported + 1}]
          \cup [kind : {"edit"}, session : Sessions]

Event == [kind : {"line"}, n : Nat] \cup Said

IsNew(n) == script[n].method = "session/new"

\* An answer to line n; the agent granted it.
RepliesTo(event, n) == event.kind = "answer" /\ event.n = n
Grants(event, n) == RepliesTo(event, n) /\ event.ok

\* What the pump has read and written: line by line, and at most one in hand.
WireOK ==
    /\ script \in Seq(Line) /\ HandsOutNew(script)
    /\ sent \in Nat /\ sent <= Len(script)
    /\ toAgent \in Seq([n : Nat, edit : {"none", "mcp", "briefing", "hint"}])
    /\ Len(toAgent) <= sent
    /\ LinesKeepOrder
    /\ held # Nil => /\ held \in [n : Nat, stage : Stages]
                     /\ held.n = Len(toAgent) + 1 /\ held.n <= sent

\* What the agent wrote: it answers what it was sent, each line once.
AnswersOK ==
    /\ fromAgent \in Seq(Said)
    /\ delivered \in Nat /\ delivered <= Len(fromAgent)
    /\ \A k \in 1..Len(fromAgent) : fromAgent[k].kind = "answer" =>
          fromAgent[k].n \in answered \cap (1..Len(toAgent))
    /\ \A j, k \in 1..Len(fromAgent) :
          fromAgent[j].kind = "answer" /\ RepliesTo(fromAgent[k], fromAgent[j].n) => j = k

\* The gate is what the first successful negotiation was, and a line in hand or
\* changed needed it open.
GateOK ==
    /\ \A n \in initPending : n \in 1..Len(script) /\ script[n].method = "initialize"
    /\ negotiated = Nil =>
          /\ FirstNegotiation = {}
          /\ \A n \in 1..Len(toAgent) :
                \/ script[n].method # "initialize"
                \/ n \in initPending
                \/ \E k \in 1..delivered : RepliesTo(fromAgent[k], n)
    /\ negotiated # Nil =>
          \E k \in FirstNegotiation :
              (\A j \in FirstNegotiation : k <= j) /\ fromAgent[k].version = negotiated
    /\ held # Nil /\ held.stage # "stopped" =>
          /\ negotiated = Supported
          /\ IF held.stage = "setup" THEN script[held.n].method \in Setup
             ELSE script[held.n].method = "session/prompt"
          /\ held.stage \in {"take", "record", "tell", "hint"}
                => script[held.n].session \in Connected
    /\ \A i \in 1..Len(toAgent) : toAgent[i].edit # "none" =>
          /\ negotiated = Supported
          /\ script[i].session \in Connected
          /\ toAgent[i].edit = "mcp" <=> script[i].method \in Setup

\* The queue holds what was forwarded and not yet worked off.
ChainOK ==
    /\ chain \in Seq(Event)
    /\ job \in Sessions \cup {Nil}
    /\ pending \subseteq 1..Len(toAgent)
    /\ \A p \in 1..Len(chain) :
          /\ chain[p].kind = "line" => chain[p].n \in 1..Len(toAgent)
          /\ chain[p].kind = "answer" => \E k \in 1..delivered : fromAgent[k] = chain[p]
    /\ \A p, q \in 1..Len(chain) :
          chain[p].kind = "answer" /\ RepliesTo(chain[q], chain[p].n) => p = q

One(b) == IF b THEN 1 ELSE 0

Stage(s, stage) == held # Nil /\ held.stage = stage /\ script[held.n].session = s

\* A life of a session is under way, from the start of its registration.
Begun(s) == s \in Connected /\ (Live(s) \/ job = s)

LifeOK ==
    /\ sessions \in [Sessions -> [status : {"absent", "off", "live", "ended"},
                                  briefing : {"off", "pending", "ready", "empty", "taken"}]]
    /\ \A f \in {lives, ends, stranded, records, told} : f \in [Sessions -> Nat]
    /\ \A s \in Sessions :
          /\ Live(s) => s \in Connected /\ job # s
          /\ lives[s] = ends[s] + stranded[s] + One(Begun(s))
          /\ records[s] + One(Stage(s, "record")) + One(job = s /\ s \in Connected)
               + One(sessions[s].briefing \in {"pending", "ready"}) <= lives[s]
          /\ told[s] + One(Stage(s, "tell")) <= records[s]

\* The engine has not been told what became of this request.
Undispatched(n) ==
    \/ n \notin answered
    \/ \E k \in (delivered + 1)..Len(fromAgent) : RepliesTo(fromAgent[k], n)
    \/ \E p \in 1..Len(chain) : RepliesTo(chain[p], n)

Granted(n) == \E k \in 1..delivered : Grants(fromAgent[k], n)

\* Another line about the session that line n asks for.
Speaks(event, n) ==
    event.kind = "line" /\ event.n # n /\ script[event.n].session = script[n].session

\* Whatever names a session that was created comes after the answer that named it.
FreshOK ==
    \A n \in 1..Len(script) : IsNew(n) =>
        LET s == script[n].session
        IN  /\ Undispatched(n) => sessions[s].status = "absent" /\ job # s
            /\ s \in known => Granted(n)
            /\ \A m \in 1..sent : script[m].session = s /\ m # n => Granted(n)
            /\ \A p, q \in 1..Len(chain) : RepliesTo(chain[p], n) /\ Speaks(chain[q], n) => p < q

ExitOK ==
    /\ proxy \in {"runs", "settling", "ending", "exited"} /\ visited \subseteq Sessions
    /\ proxy \in {"ending", "exited"} /\ ~late =>
          chain = <<>> /\ job = Nil /\ \A s \in visited : ~Live(s)
    /\ proxy \in {"runs", "settling"} => visited = {}
    /\ proxy = "exited" => ToEnd = {}

\* The request of a session that is not lost waits for its answer.
PendingOK ==
    \A n \in 1..Len(toAgent) :
        IsNew(n) /\ Undispatched(n) /\ script[n].session \notin excused =>
            \/ n \in pending
            \/ \E r \in 1..Len(chain) :
                  /\ chain[r].kind = "line" /\ chain[r].n = n
                  /\ \A p \in 1..Len(chain) : RepliesTo(chain[p], n) => r < p

\* What an event does to a session once it is worked off.
Opens(event, s) ==
    \/ event.kind = "line" /\ script[event.n] = [method |-> "session/load", session |-> s]
    \/ /\ event.kind = "answer" /\ event.ok
       /\ script[event.n] = [method |-> "session/new", session |-> s]
Closes(event, s) ==
    event.kind = "line" /\ script[event.n] = [method |-> "session/close", session |-> s]

\* The session will be live once the queue is worked off up to p.
WillStand(s, p) ==
    \/ \E q \in 1..(p - 1) :
          Opens(chain[q], s) /\ \A r \in (q + 1)..(p - 1) : ~Closes(chain[r], s)
    \/ (Live(s) \/ job = s) /\ \A r \in 1..(p - 1) : ~Closes(chain[r], s)

\* The agent has it: it was told to load it, or has said that it made it.
Opened(s) ==
    \E i \in 1..Len(toAgent) : script[i].session = s /\
        (script[i].method = "session/load" \/ (IsNew(i) /\ Granted(i)))

EditsOK ==
    \A k \in 1..Len(fromAgent) : fromAgent[k].kind = "edit" =>
        \E i \in 1..Len(toAgent) :
            /\ script[i].session = fromAgent[k].session
            /\ \/ script[i].method = "session/load"
               \/ IsNew(i) /\ \E j \in 1..(k - 1) : Grants(fromAgent[j], i)

CaptureOK ==
    /\ PendingOK
    /\ EditsOK
    /\ proxy \in {"runs", "settling"} => \A s \in Connected \ excused :
          /\ Standing(s) /\ Opened(s) => WillStand(s, Len(chain) + 1)
          /\ s \in due \ captured => \E p \in 1..Len(chain) :
                chain[p] = [kind |-> "edit", session |-> s] /\ WillStand(s, p)
    /\ proxy \in {"ending", "exited"} /\ ~late =>
          due \cap Connected \subseteq captured \cup excused

ProxyInv ==
    WireOK /\ AnswersOK /\ GateOK /\ ChainOK /\ LifeOK /\ FreshOK /\ ExitOK /\ CaptureOK

----------------------------------------------------------------------------
(* What the steps do to the wire and the queue.                            *)

LEMMA AppendFacts ==
  ASSUME NEW S, NEW q \in Seq(S), NEW e \in S
  PROVE  /\ Append(q, e) \in Seq(S) /\ Len(Append(q, e)) = Len(q) + 1 /\ Len(q) \in Nat
         /\ \A i \in 1..Len(q) : Append(q, e)[i] = q[i]
         /\ Append(q, e)[Len(q) + 1] = e
OBVIOUS

LEMMA TailFacts ==
  ASSUME NEW S, NEW q \in Seq(S), q # <<>>
  PROVE  /\ Tail(q) \in Seq(S) /\ Len(Tail(q)) = Len(q) - 1
         /\ Len(q) \in Nat /\ Len(q) >= 1
         /\ Head(q) = q[1] /\ Head(q) \in S
         /\ \A i \in 1..(Len(q) - 1) : Tail(q)[i] = q[i + 1]
OBVIOUS

\* An event is offered: it is queued, or its session is excused.
Offered(event) ==
    \/ chain' = Append(chain, event) /\ excused' = excused
    \/ chain' = chain /\ excused' = excused \cup {SessionOf(event)}

LEMMA OfferIsOffered ==
  ASSUME NEW event, Offer(event)
  PROVE  Offered(event)
BY DEF Offer, Offered

\* The next line was written, and its copy offered.
Wrote(edit) ==
    /\ proxy = "runs"
    /\ toAgent' = Append(toAgent, [n |-> Len(toAgent) + 1, edit |-> edit])
    /\ held' = Nil
    /\ Offered([kind |-> "line", n |-> Len(toAgent) + 1])

\* The next line is in hand, at a stage.
Held(stage) ==
    /\ held' = [n |-> Len(toAgent) + 1, stage |-> stage]
    /\ UNCHANGED <<toAgent, chain, excused>>

LEMMA ForwardWrites ==
  ASSUME NEW n, n = Len(toAgent) + 1, NEW edit, Forward(n, edit)
  PROVE  Wrote(edit) \/ Held("stopped")
BY OfferIsOffered DEF Forward, Writable, Wrote, Held

LEMMA PumpMoves ==
  ASSUME WireOK, PumpStep
  PROVE  /\ Len(toAgent) + 1 <= sent
         /\ UNCHANGED <<script, sent, known, fromAgent, delivered, answered, negotiated, job,
                        pending, proxy, visited, late, lives, ends, stranded, due,
                        captured>>
         /\ \/ \E edit \in {"none", "mcp", "briefing", "hint"} : Wrote(edit)
            \/ \E stage \in Stages : Held(stage)
<1>1. CASE TakeLine
  <2> DEFINE n == NextLine
             method == script[n].method
             stage == IF method \in Setup THEN "setup"
                      ELSE IF Live(script[n].session) THEN "take" ELSE "settle"
  <2>1. n = Len(toAgent) + 1 /\ n <= sent
    BY <1>1 DEF TakeLine, MayTake, NextLine, WireOK
  <2>2. \/ Hold(n, stage) /\ UNCHANGED <<toAgent, chain, excused>>
        \/ Forward(n, "none")
    BY <1>1 DEF TakeLine
  <2>3. stage \in Stages
    BY DEF Stages
  <2> HIDE DEF n, stage
  <2>4. Wrote("none") \/ Held("stopped") \/ Held(stage)
    BY <2>1, <2>2, ForwardWrites DEF Hold, Held
  <2> QED
    BY <1>1, <2>1, <2>3, <2>4 DEF TakeLine, Pumped, peer, engine, exit, Stages
<1>2. CASE DecideSetup \/ Settle \/ TakeBriefing \/ RecordBriefing \/ TellBriefing \/ DecideHint
  <2>1. held # Nil /\ held.n = Len(toAgent) + 1 /\ held.n <= sent
    BY <1>2 DEF DecideSetup, Settle, TakeBriefing, RecordBriefing, TellBriefing, DecideHint,
       Holding, WireOK
  <2>2. UNCHANGED <<script, sent, known, fromAgent, delivered, answered, negotiated, job,
                    pending, proxy, visited, late, lives, ends, stranded, due,
                        captured>>
    BY <1>2 DEF DecideSetup, Settle, TakeBriefing, RecordBriefing, TellBriefing, DecideHint,
       Pumped, peer, gate, engine, exit, SpendBriefing
  <2>3. \/ \E edit \in {"none", "mcp", "briefing", "hint"} : Forward(held.n, edit)
        \/ \E stage \in Stages : Hold(held.n, stage) /\ UNCHANGED <<toAgent, chain, excused>>
    BY <1>2 DEF DecideSetup, Settle, TakeBriefing, RecordBriefing, TellBriefing, DecideHint,
       Stages
  <2> QED
    BY <2>1, <2>2, <2>3, ForwardWrites DEF Hold, Held, Stages
<1> QED
  BY <1>1, <1>2 DEF PumpStep

LEMMA WireInitially == ProxyInit => WireOK
BY AcpProxyAssumption DEF ProxyInit, WireOK, LinesKeepOrder

LEMMA WirePreserved ==
  ASSUME WireOK, [ProxyNext]_proxyVars
  PROVE  WireOK'
<1> USE DEF WireOK
<1>1. CASE PumpStep
  <2>1. UNCHANGED <<script, sent>> /\ Len(toAgent) + 1 <= sent
    BY <1>1, PumpMoves
  <2>2. ASSUME NEW edit \in {"none", "mcp", "briefing", "hint"}, Wrote(edit) PROVE WireOK'
    <3> DEFINE e == [n |-> Len(toAgent) + 1, edit |-> edit]
               S == [n : Nat, edit : {"none", "mcp", "briefing", "hint"}]
    <3>1. e \in S /\ toAgent \in Seq(S)
      BY AppendFacts
    <3>2. toAgent' = Append(toAgent, e) /\ held' = Nil /\ e.n = Len(toAgent) + 1
      BY <2>2 DEF Wrote
    <3> HIDE DEF e
    <3>3. /\ toAgent' \in Seq(S) /\ Len(toAgent') = Len(toAgent) + 1 /\ Len(toAgent) \in Nat
          /\ \A i \in 1..Len(toAgent) : toAgent'[i] = toAgent[i]
          /\ toAgent'[Len(toAgent) + 1] = e
      BY <3>1, <3>2, AppendFacts
    <3>4. LinesKeepOrder'
      <4> SUFFICES ASSUME NEW i \in 1..Len(toAgent') PROVE toAgent'[i].n = i
        BY DEF LinesKeepOrder
      <4>1. CASE i = Len(toAgent) + 1
        BY <3>2, <3>3, <4>1
      <4>2. CASE i \in 1..Len(toAgent)
        BY <3>3, <4>2 DEF LinesKeepOrder
      <4> QED
        BY <3>3, <4>1, <4>2
    <3>5. Len(toAgent') <= sent'
      BY <2>1, <3>3
    <3> QED
      BY <2>1, <3>2, <3>3, <3>4, <3>5
  <2>3. ASSUME NEW stage \in Stages, Held(stage) PROVE WireOK'
    BY <2>1, <2>3 DEF Held, LinesKeepOrder
  <2> QED
    BY <1>1, <2>2, <2>3, PumpMoves
<1>2. CASE Send
  BY <1>2 DEF Send, LinesKeepOrder
<1>3. CASE ~PumpStep /\ ~Send
  <2>1. UNCHANGED <<script, sent, toAgent, held>>
    BY <1>3 DEF ProxyNext, proxyVars, wire, HangUp, AgentAnswers, AgentEdits, AgentExits,
       HelperLetsGo, Says,
       Deliver, Dispatch, FinishRegister, BriefingLands, ShutdownStep, BeginShutdown,
       EndSettling, EndEach, Exit
  <2> QED
    BY <2>1 DEF LinesKeepOrder
<1> QED
  BY <1>1, <1>2, <1>3

\* What went to the agent stays.
LEMMA ToAgentGrows ==
  ASSUME WireOK, [ProxyNext]_proxyVars
  PROVE  /\ script' = script
         /\ Len(toAgent) \in Nat /\ Len(toAgent') \in Nat /\ Len(toAgent) <= Len(toAgent')
         /\ \A i \in 1..Len(toAgent) : toAgent'[i] = toAgent[i]
<1> USE DEF WireOK
<1>1. CASE PumpStep
  <2>1. script' = script
    BY <1>1, PumpMoves
  <2>2. ASSUME NEW edit \in {"none", "mcp", "briefing", "hint"}, Wrote(edit)
        PROVE  /\ Len(toAgent) \in Nat /\ Len(toAgent') \in Nat /\ Len(toAgent) <= Len(toAgent')
               /\ \A i \in 1..Len(toAgent) : toAgent'[i] = toAgent[i]
    <3> DEFINE e == [n |-> Len(toAgent) + 1, edit |-> edit]
               S == [n : Nat, edit : {"none", "mcp", "briefing", "hint"}]
    <3>1. e \in S /\ toAgent \in Seq(S)
      BY AppendFacts
    <3>2. toAgent' = Append(toAgent, e)
      BY <2>2 DEF Wrote
    <3> HIDE DEF e, S
    <3> QED
      BY <3>1, <3>2, AppendFacts
  <2> QED
    BY <1>1, <2>1, <2>2, PumpMoves DEF Held
<1>2. CASE ~PumpStep
  <2>1. UNCHANGED <<script, toAgent>>
    BY <1>2 DEF ProxyNext, proxyVars, wire, Send, HangUp, AgentAnswers, AgentEdits, AgentExits,
       HelperLetsGo, Says,
       Deliver, Dispatch, FinishRegister, BriefingLands, ShutdownStep, BeginShutdown,
       EndSettling, EndEach, Exit
  <2> QED
    BY <2>1
<1> QED
  BY <1>1, <1>2

LEMMA AnswersInitially == ProxyInit => AnswersOK
BY DEF ProxyInit, AnswersOK, RepliesTo

\* The agent says one thing more: an answer to a line not answered before, or an edit.
Spoke(event) ==
    /\ event \in Said
    /\ fromAgent' = Append(fromAgent, event)
    /\ IF event.kind = "answer"
       THEN /\ event.n \in 1..Len(toAgent) /\ event.n \notin answered
            /\ answered' = answered \cup {event.n}
       ELSE answered' = answered
    /\ UNCHANGED <<script, sent, client, known, held, toAgent, delivered, gate, chain, engine,
                   exit, history>>

LEMMA AgentSpeaks ==
  ASSUME WireOK, AgentAnswers \/ AgentEdits
  PROVE  \E event \in Said : Spoke(event)
<1>1. CASE AgentAnswers
  <2>1. PICK i \in 1..Len(toAgent), ok \in BOOLEAN, version \in {Supported, Supported + 1} :
           LET n == toAgent[i].n
           IN  /\ n \notin answered
               /\ answered' = answered \cup {n}
               /\ Says([kind |-> "answer", n |-> n, ok |-> ok, version |-> version])
    BY <1>1 DEF AgentAnswers
  <2>2. toAgent[i].n = i /\ i \in Nat
    BY DEF WireOK, LinesKeepOrder
  <2> DEFINE e == [kind |-> "answer", n |-> i, ok |-> ok, version |-> version]
  <2>3. e \in Said
    BY <2>2 DEF Said
  <2>4. Spoke(e)
    BY <2>1, <2>2, <2>3 DEF Spoke, Says
  <2> QED
    BY <2>3, <2>4
<1>2. CASE AgentEdits
  <2>1. PICK i \in 1..Len(toAgent) :
           Says([kind |-> "edit", session |-> script[toAgent[i].n].session])
           /\ script[toAgent[i].n].method \in {"session/load", "session/new"}
    BY <1>2 DEF AgentEdits
  <2>2. toAgent[i].n = i /\ i \in 1..Len(script)
    BY DEF WireOK, LinesKeepOrder
  <2> DEFINE e == [kind |-> "edit", session |-> script[i].session]
  <2>3. e \in Said
    BY <2>1, <2>2 DEF Said, WireOK, Line
  <2>4. Spoke(e)
    BY <1>2, <2>1, <2>2, <2>3 DEF Spoke, Says, AgentEdits
  <2> QED
    BY <2>3, <2>4
<1> QED
  BY <1>1, <1>2

\* Who hears the agent, and whom the agent hears: every step but these two leaves the
\* agent's side alone.
LEMMA AgentSideKept ==
  ASSUME WireOK, [ProxyNext]_proxyVars, ~(AgentAnswers \/ AgentEdits)
  PROVE  /\ UNCHANGED <<answered, fromAgent>>
         /\ ~Deliver => delivered' = delivered
<1>1. CASE PumpStep
  BY <1>1, PumpMoves
<1>2. CASE ~PumpStep
  BY <1>2 DEF ProxyNext, proxyVars, wire, peer, Send, HangUp, AgentExits, HelperLetsGo,
     Deliver, Dispatch, FinishRegister, BriefingLands, ShutdownStep, BeginShutdown,
     EndSettling, EndEach, Exit
<1> QED
  BY <1>1, <1>2

LEMMA FromAgentGrows ==
  ASSUME WireOK, AnswersOK, [ProxyNext]_proxyVars
  PROVE  /\ Len(fromAgent) \in Nat /\ Len(fromAgent') \in Nat
         /\ Len(fromAgent) <= Len(fromAgent')
         /\ \A k \in 1..Len(fromAgent) : fromAgent'[k] = fromAgent[k]
         /\ delivered' \in Nat /\ delivered <= delivered' /\ delivered' <= Len(fromAgent')
         /\ answered \subseteq answered'
<1> USE DEF AnswersOK
<1>1. CASE AgentAnswers \/ AgentEdits
  <2>1. PICK event \in Said : Spoke(event)
    BY <1>1, AgentSpeaks
  <2>2. fromAgent' = Append(fromAgent,
  event) /\ delivered' = delivered /\ answered \subseteq answered'
    BY <2>1 DEF Spoke
  <2> QED
    BY <2>2, AppendFacts
<1>2. CASE Deliver
  BY <1>2 DEF Deliver, peer
<1>3. CASE ~(AgentAnswers \/ AgentEdits \/ Deliver)
  BY <1>3, AgentSideKept
<1> QED
  BY <1>1, <1>2, <1>3

LEMMA AnswersPreserved ==
  ASSUME WireOK, AnswersOK, [ProxyNext]_proxyVars
  PROVE  AnswersOK'
<1> USE DEF AnswersOK
<1>1. Len(toAgent) \in Nat /\ Len(toAgent') \in Nat /\ Len(toAgent) <= Len(toAgent')
  BY ToAgentGrows
<1>2. CASE AgentAnswers \/ AgentEdits
  <2>1. PICK event \in Said : Spoke(event)
    BY <1>2, AgentSpeaks
  <2>2. /\ fromAgent' \in Seq(Said) /\ Len(fromAgent') = Len(fromAgent) + 1
        /\ Len(fromAgent) \in Nat
        /\ \A k \in 1..Len(fromAgent) : fromAgent'[k] = fromAgent[k]
        /\ fromAgent'[Len(fromAgent) + 1] = event
    BY <2>1, AppendFacts DEF Spoke
  <2>3. ASSUME NEW k \in 1..Len(fromAgent'), fromAgent'[k].kind = "answer"
        PROVE  fromAgent'[k].n \in answered' \cap (1..Len(toAgent'))
    <3>1. CASE k = Len(fromAgent) + 1
      BY <1>1, <2>1, <2>2, <2>3, <3>1 DEF Spoke
    <3>2. CASE k \in 1..Len(fromAgent)
      <4>1. fromAgent'[k] = fromAgent[k]
        BY <2>2, <3>2
      <4>2. fromAgent[k].n \in answered \cap (1..Len(toAgent))
        BY <2>3, <3>2, <4>1
      <4> QED
        BY <1>1, <2>1, <4>1, <4>2 DEF Spoke
    <3> QED
      BY <2>2, <3>1, <3>2
  <2>4. ASSUME NEW j \in 1..Len(fromAgent'), NEW k \in 1..Len(fromAgent'),
               fromAgent'[j].kind = "answer", RepliesTo(fromAgent'[k], fromAgent'[j].n)
        PROVE  j = k
    <3>1. CASE j \in 1..Len(fromAgent) /\ k \in 1..Len(fromAgent)
      BY <2>2, <2>4, <3>1 DEF RepliesTo
    <3>2. ASSUME NEW i \in 1..Len(fromAgent), fromAgent[i].kind = "answer"
          PROVE  ~(event.kind = "answer" /\ event.n = fromAgent[i].n)
      BY <2>1, <3>2 DEF Spoke
    <3> QED
      BY <2>2, <2>4, <3>1, <3>2 DEF RepliesTo
  <2>5. delivered' \in Nat /\ delivered' <= Len(fromAgent')
    BY <2>1, <2>2 DEF Spoke
  <2> QED
    BY <2>2, <2>3, <2>4, <2>5
<1>3. CASE ~(AgentAnswers \/ AgentEdits)
  <2>1. UNCHANGED <<answered, fromAgent>>
    BY <1>3, AgentSideKept
  <2>2. delivered' \in Nat /\ delivered' <= Len(fromAgent')
    BY FromAgentGrows
  <2> QED
    BY <1>1, <2>1, <2>2 DEF RepliesTo
<1> QED
  BY <1>2, <1>3

----------------------------------------------------------------------------
(* The gate.                                                               *)

\* Named parts of GateOK.
AwaitedAreInits == \A n \in initPending : n \in 1..Len(script) /\ script[n].method = "initialize"

Awaited(n) == n \in initPending \/ \E k \in 1..delivered : RepliesTo(fromAgent[k], n)

NoneNegotiated ==
    negotiated = Nil =>
        /\ FirstNegotiation = {}
        /\ \A n \in 1..Len(toAgent) : script[n].method # "initialize" \/ Awaited(n)

FirstDecided ==
    negotiated # Nil =>
        \E k \in FirstNegotiation :
            (\A j \in FirstNegotiation : k <= j) /\ fromAgent[k].version = negotiated

HeldIsEntitled ==
    held # Nil /\ held.stage # "stopped" =>
        /\ negotiated = Supported
        /\ IF held.stage = "setup" THEN script[held.n].method \in Setup
           ELSE script[held.n].method = "session/prompt"
        /\ held.stage \in {"take", "record", "tell", "hint"}
              => script[held.n].session \in Connected

Entitled(edit, n) ==
    /\ negotiated = Supported
    /\ script[n].session \in Connected
    /\ edit = "mcp" <=> script[n].method \in Setup

EditedAreEntitled ==
    \A i \in 1..Len(toAgent) : toAgent[i].edit # "none" => Entitled(toAgent[i].edit, i)

LEMMA GateParts ==
  GateOK <=> /\ AwaitedAreInits /\ NoneNegotiated /\ FirstDecided
             /\ HeldIsEntitled /\ EditedAreEntitled
BY DEF GateOK, AwaitedAreInits, NoneNegotiated, Awaited, FirstDecided, HeldIsEntitled,
   EditedAreEntitled, Entitled

LEMMA GateInitially == ProxyInit => GateOK
BY DEF ProxyInit, GateOK, FirstNegotiation

\* What the pump writes or takes in hand, it was entitled to.
LEMMA PumpIsEntitled ==
  ASSUME WireOK, HeldIsEntitled, PumpStep, \A s \in Sessions : Live(s) => s \in Connected
  PROVE  /\ HeldIsEntitled'
         /\ \E edit \in {"none", "mcp", "briefing", "hint"} :
               /\ edit # "none" => Entitled(edit, Len(toAgent) + 1)
               /\ Wrote(edit) \/ UNCHANGED toAgent
<1> DEFINE n == Len(toAgent) + 1
<1>0. n <= sent /\ n \in 1..Len(script) /\ UNCHANGED <<script, negotiated>>
  BY PumpMoves DEF WireOK
<1>1. script[n] \in Line
  BY <1>0 DEF WireOK
<1>2. ASSUME NEW edit \in {"none", "mcp", "briefing", "hint"}, Forward(n, edit),
             edit # "none" => Entitled(edit, n)
      PROVE  HeldIsEntitled' /\ \E e \in {"none", "mcp", "briefing", "hint"} :
               /\ e # "none" => Entitled(e, n)
               /\ Wrote(e) \/ UNCHANGED toAgent
  <2>1. Wrote(edit) \/ Held("stopped")
    BY <1>2, ForwardWrites
  <2>2. HeldIsEntitled'
    BY <2>1 DEF HeldIsEntitled, Wrote, Held
  <2> QED
    BY <1>2, <2>1, <2>2 DEF Held
<1>3. ASSUME NEW stage \in Stages, Hold(n, stage), UNCHANGED toAgent,
             negotiated = Supported,
             IF stage = "setup" THEN script[n].method \in Setup
             ELSE script[n].method = "session/prompt",
             stage \in {"take", "record", "tell", "hint"} => script[n].session \in Connected
      PROVE  HeldIsEntitled' /\ \E e \in {"none", "mcp", "briefing", "hint"} :
               /\ e # "none" => Entitled(e, n)
               /\ Wrote(e) \/ UNCHANGED toAgent
  BY <1>0, <1>3 DEF HeldIsEntitled, Hold
<1>4. CASE TakeLine
  <2>1. NextLine = n
    BY <1>4 DEF TakeLine, MayTake, NextLine
  <2>2. CASE GateOpen /\ script[n].method \in Setup \cup {"session/prompt"}
    <3> DEFINE stage == IF script[n].method \in Setup THEN "setup"
                        ELSE IF Live(script[n].session) THEN "take" ELSE "settle"
    <3>1. Hold(n, stage) /\ UNCHANGED toAgent
      BY <1>4, <2>1, <2>2 DEF TakeLine
    <3>2. script[n].session \in Sessions
      BY <1>1, <2>2 DEF Line, Setup
    <3>3. stage \in {"take", "record", "tell", "hint"} => script[n].session \in Connected
      BY <3>2
    <3>4. /\ stage \in Stages
          /\ IF stage = "setup" THEN script[n].method \in Setup
             ELSE script[n].method = "session/prompt"
      BY <2>2 DEF Stages
    <3> HIDE DEF stage
    <3> QED
      BY <1>3, <2>2, <3>1, <3>3, <3>4 DEF GateOpen
  <2>3. CASE ~(GateOpen /\ script[n].method \in Setup \cup {"session/prompt"})
    <3>1. Forward(n, "none")
      BY <1>4, <2>1, <2>3 DEF TakeLine
    <3> QED
      BY <1>2, <3>1
  <2> QED
    BY <2>2, <2>3
<1>5. ASSUME held # Nil, held.stage # "stopped"
      PROVE  /\ held.n = n /\ negotiated = Supported
             /\ IF held.stage = "setup" THEN script[n].method \in Setup
                ELSE script[n].method = "session/prompt"
             /\ held.stage \in {"take", "record", "tell", "hint"}
                   => script[n].session \in Connected
  BY <1>5 DEF WireOK, HeldIsEntitled
<1>6. CASE DecideSetup
  <2>1. held.n = n /\ negotiated = Supported /\ script[n].method \in Setup
    BY <1>5, <1>6 DEF DecideSetup, Holding
  <2>2. \/ script[n].session \in Connected /\ Forward(n, "mcp")
        \/ Forward(n, "none")
    BY <1>6, <2>1 DEF DecideSetup
  <2> QED
    BY <1>2, <2>1, <2>2 DEF Entitled
<1>7. CASE Settle
  <2>1. held.n = n /\ negotiated = Supported /\ script[n].method = "session/prompt"
    BY <1>5, <1>7 DEF Settle, Holding
  <2>2. script[n].session \in Sessions
    BY <1>1, <2>1 DEF Line
  <2>3. \/ Live(script[n].session) /\ Hold(n, "take") /\ UNCHANGED toAgent
        \/ Forward(n, "none")
    BY <1>7, <2>1 DEF Settle
  <2> QED
    BY <1>2, <1>3, <2>1, <2>2, <2>3 DEF Stages
<1>8. CASE TakeBriefing
  <2>1. /\ held.n = n /\ negotiated = Supported /\ script[n].method = "session/prompt"
        /\ script[n].session \in Connected
    BY <1>5, <1>8 DEF TakeBriefing, Holding
  <2>2. \/ Forward(n, "none")
        \/ Hold(n, "record") /\ UNCHANGED toAgent
        \/ Hold(n, "hint") /\ UNCHANGED toAgent
    BY <1>8, <2>1 DEF TakeBriefing
  <2> QED
    BY <1>2, <1>3, <2>1, <2>2 DEF Stages
<1>9. CASE RecordBriefing \/ TellBriefing \/ DecideHint
  <2>1. /\ held.n = n /\ negotiated = Supported /\ script[n].method = "session/prompt"
        /\ script[n].session \in Connected
    BY <1>5, <1>9 DEF RecordBriefing, TellBriefing, DecideHint, Holding
  <2>2. \/ \E edit \in {"none", "briefing", "hint"} : Forward(n, edit)
        \/ Hold(n, "tell") /\ UNCHANGED toAgent
    BY <1>9, <2>1 DEF RecordBriefing, TellBriefing, DecideHint
  <2> QED
    BY <1>2, <1>3, <2>1, <2>2 DEF Stages, Entitled, Setup
<1> QED
  BY <1>4, <1>6, <1>7, <1>8, <1>9 DEF PumpStep

\* The pump only ever notes an initialize it is about to write.
LEMMA PumpAwaits ==
  ASSUME WireOK, PumpStep, HeldIsEntitled
  PROVE  LET n == Len(toAgent) + 1
         IN  /\ initPending \subseteq initPending'
             /\ initPending' \subseteq initPending \cup {m \in {n} : script[m].method = "initialize"}
             /\ toAgent' # toAgent /\ script[n].method = "initialize" => n \in initPending'
<1> DEFINE n == Len(toAgent) + 1
<1>1. CASE TakeLine
  <2>1. NextLine = n
    BY <1>1 DEF TakeLine, MayTake, NextLine
  <2> QED
    BY <1>1, <2>1 DEF TakeLine
<1>2. CASE DecideSetup \/ Settle \/ TakeBriefing \/ RecordBriefing \/ TellBriefing \/ DecideHint
  <2>1. initPending' = initPending
    BY <1>2 DEF DecideSetup, Settle, TakeBriefing, RecordBriefing, TellBriefing, DecideHint, gate
  <2>2. held # Nil /\ held.stage # "stopped" /\ held.n = n
    BY <1>2 DEF DecideSetup, Settle, TakeBriefing, RecordBriefing, TellBriefing, DecideHint,
       Holding, WireOK
  <2>3. script[n].method # "initialize"
    BY <2>2 DEF HeldIsEntitled, Setup
  <2> QED
    BY <2>1, <2>3
<1> QED
  BY <1>1, <1>2 DEF PumpStep

LEMMA GatePreserved ==
  ASSUME WireOK, AnswersOK, GateOK, \A s \in Sessions : Live(s) => s \in Connected,
         [ProxyNext]_proxyVars
  PROVE  GateOK'
<1>0. AwaitedAreInits /\ NoneNegotiated /\ FirstDecided /\ HeldIsEntitled /\ EditedAreEntitled
  BY GateParts
<1> SUFFICES /\ AwaitedAreInits' /\ NoneNegotiated' /\ FirstDecided'
             /\ HeldIsEntitled' /\ EditedAreEntitled'
  BY DEF GateOK, AwaitedAreInits, NoneNegotiated, Awaited, FirstDecided, HeldIsEntitled,
     EditedAreEntitled, Entitled
<1>1. CASE PumpStep
  <2> DEFINE n == Len(toAgent) + 1
  <2>1. UNCHANGED <<script, fromAgent, delivered, negotiated>> /\ n \in 1..Len(script)
    BY <1>1, PumpMoves DEF WireOK
  <2>2. /\ initPending \subseteq initPending'
        /\ initPending' \subseteq initPending \cup {m \in {n} : script[m].method = "initialize"}
        /\ toAgent' # toAgent /\ script[n].method = "initialize" => n \in initPending'
    BY <1>0, <1>1, PumpAwaits
  <2>3. PICK edit \in {"none", "mcp", "briefing", "hint"} :
           /\ edit # "none" => Entitled(edit, n)
           /\ Wrote(edit) \/ UNCHANGED toAgent
    BY <1>0, <1>1, PumpIsEntitled
  <2>4. HeldIsEntitled'
    BY <1>0, <1>1, PumpIsEntitled
  <2>5. \/ UNCHANGED toAgent
        \/ /\ Len(toAgent') = n /\ toAgent'[n].edit = edit
           /\ \A i \in 1..Len(toAgent) : toAgent'[i] = toAgent[i]
           /\ toAgent' # toAgent
    <3>1. CASE Wrote(edit)
      <4> DEFINE e == [n |-> n, edit |-> edit]
                 S == [n : Nat, edit : {"none", "mcp", "briefing", "hint"}]
      <4>1. toAgent \in Seq(S) /\ e.edit = edit
        BY DEF WireOK
      <4>2. e \in S
        BY <4>1
      <4>3. toAgent' = Append(toAgent, e)
        BY <3>1 DEF Wrote
      <4> HIDE DEF e, S
      <4> QED
        BY <4>1, <4>2, <4>3, AppendFacts
    <3> QED
      BY <2>3, <3>1
  <2>6. AwaitedAreInits'
    BY <1>0, <2>1, <2>2 DEF AwaitedAreInits
  <2>7. FirstNegotiation' = FirstNegotiation
    BY <2>1 DEF FirstNegotiation
  <2>8. \A m : Awaited(m) => Awaited(m)'
    BY <2>1, <2>2 DEF Awaited, RepliesTo
  <2>9. NoneNegotiated'
    <3>1. ASSUME negotiated' = Nil PROVE FirstNegotiation' = {}
      BY <1>0, <2>1, <2>7, <3>1 DEF NoneNegotiated
    <3>2. ASSUME negotiated' = Nil, NEW m \in 1..Len(toAgent'), script[m].method = "initialize"
          PROVE  Awaited(m)'
      <4>1. CASE m \in 1..Len(toAgent)
        BY <1>0, <2>1, <2>8, <3>2, <4>1 DEF NoneNegotiated
      <4>2. CASE m = n /\ toAgent' # toAgent
        BY <2>2, <3>2, <4>2 DEF Awaited
      <4> QED
        BY <2>5, <4>1, <4>2 DEF WireOK
    <3> QED
      BY <2>1, <3>1, <3>2 DEF NoneNegotiated
  <2>10. FirstDecided'
    BY <1>0, <2>1, <2>7 DEF FirstDecided
  <2>11. EditedAreEntitled'
    <3> SUFFICES ASSUME NEW i \in 1..Len(toAgent'), toAgent'[i].edit # "none"
                 PROVE  Entitled(toAgent[i].edit, i)'
      BY DEF EditedAreEntitled, Entitled
    <3>1. Entitled(toAgent'[i].edit, i)
      BY <1>0, <2>3, <2>5 DEF EditedAreEntitled, WireOK
    <3> QED
      BY <2>1, <3>1 DEF Entitled
  <2> QED
    BY <2>4, <2>6, <2>9, <2>10, <2>11
<1>2. CASE Deliver
  <2> DEFINE d == delivered + 1
             event == fromAgent[d]
  <2>1. /\ UNCHANGED <<script, held, toAgent, fromAgent>> /\ delivered' = d
        /\ d \in 1..Len(fromAgent) /\ DecideGate(event)
    BY <1>2 DEF Deliver, AnswersOK
  <2>2. event \in Said
    BY <2>1 DEF AnswersOK
  <2>3. FirstNegotiation' = FirstNegotiation \cup
           {k \in {d} : /\ event.kind = "answer" /\ event.ok
                        /\ script[event.n].method = "initialize"}
    BY <2>1 DEF FirstNegotiation, AnswersOK
  <2>4. AwaitedAreInits'
    BY <1>0, <2>1 DEF AwaitedAreInits, DecideGate, gate
  <2>5. CASE negotiated # Nil
    <3>1. UNCHANGED gate
      BY <2>1, <2>5 DEF DecideGate
    <3>2. FirstDecided'
      <4>1. PICK k \in FirstNegotiation :
               (\A j \in FirstNegotiation : k <= j) /\ fromAgent[k].version = negotiated
        BY <1>0, <2>5 DEF FirstDecided
      <4>2. k <= d
        BY <2>1, <4>1 DEF FirstNegotiation, AnswersOK
      <4>3. /\ k \in FirstNegotiation' /\ \A j \in FirstNegotiation' : k <= j
            /\ fromAgent'[k].version = negotiated'
        BY <2>1, <2>3, <3>1, <4>1, <4>2 DEF gate
      <4> QED
        BY <4>3 DEF FirstDecided
    <3>3. NoneNegotiated' /\ HeldIsEntitled' /\ EditedAreEntitled'
      BY <1>0, <2>1, <2>5, <3>1 DEF NoneNegotiated, HeldIsEntitled, EditedAreEntitled,
         Entitled, gate
    <3> QED
      BY <2>4, <3>2, <3>3
  <2>6. CASE negotiated = Nil
    <3>1. HeldIsEntitled' /\ EditedAreEntitled'
      <4>1. negotiated # Supported
        BY <2>6, AcpProxyAssumption DEF Supported
      <4> QED
        BY <1>0, <2>1, <4>1 DEF HeldIsEntitled, EditedAreEntitled, Entitled
    <3>2. FirstNegotiation = {}
      BY <1>0, <2>6 DEF NoneNegotiated
    <3>3. CASE event.kind = "answer" /\ Deciding(event)
      <4>1. negotiated' = event.version /\ negotiated' # Nil
        BY <2>1, <2>2, <2>6, <3>3, AcpProxyAssumption DEF DecideGate, Said, Supported
      <4>2. FirstNegotiation' = {d}
        BY <1>0, <2>3, <3>2, <3>3 DEF Deciding, AwaitedAreInits
      <4>3. d <= d
        BY <2>1
      <4>4. FirstDecided'
        BY <2>1, <4>1, <4>2, <4>3 DEF FirstDecided
      <4>5. NoneNegotiated'
        BY <4>1 DEF NoneNegotiated
      <4> QED
        BY <2>4, <3>1, <4>4, <4>5
    <3>4. CASE ~(event.kind = "answer" /\ Deciding(event))
      <4>1. /\ negotiated' = Nil
            /\ initPending' = IF event.kind = "answer" THEN initPending \ {event.n} ELSE initPending
        BY <2>1, <2>6, <3>4 DEF DecideGate, gate
      <4>2. ~(event.kind = "answer" /\ event.ok /\ script[event.n].method = "initialize")
        <5> SUFFICES ASSUME event.kind = "answer", event.ok,
                            script[event.n].method = "initialize"
                     PROVE  FALSE
          OBVIOUS
        <5>1. event.n \in 1..Len(toAgent)
          BY <2>1 DEF AnswersOK
        <5>2. event.n \notin initPending
          BY <2>6, <3>4 DEF Deciding
        <5>3. PICK k \in 1..delivered : RepliesTo(fromAgent[k], event.n)
          BY <1>0, <2>6, <5>1, <5>2 DEF NoneNegotiated, Awaited
        <5>4. k = d
          BY <2>1, <5>3 DEF AnswersOK
        <5> QED
          BY <5>3, <5>4 DEF AnswersOK
      <4>3. FirstNegotiation' = {}
        BY <2>3, <3>2, <4>2
      <4>4. ASSUME NEW m, Awaited(m) PROVE Awaited(m)'
        <5>1. CASE \E k \in 1..delivered : RepliesTo(fromAgent[k], m)
          BY <2>1, <5>1 DEF Awaited, RepliesTo, AnswersOK
        <5>2. CASE m \in initPending /\ ~(event.kind = "answer" /\ m = event.n)
          BY <4>1, <5>2 DEF Awaited
        <5>3. CASE event.kind = "answer" /\ m = event.n
          <6>1. RepliesTo(fromAgent'[d], m) /\ d \in 1..delivered'
            BY <2>1, <5>3 DEF RepliesTo, AnswersOK
          <6> QED
            BY <2>1, <6>1 DEF Awaited, RepliesTo
        <5> QED
          BY <4>4, <5>1, <5>2, <5>3 DEF Awaited
      <4>5. NoneNegotiated'
        BY <1>0, <2>1, <2>6, <4>3, <4>4 DEF NoneNegotiated
      <4>6. FirstDecided'
        BY <4>1 DEF FirstDecided
      <4> QED
        BY <2>4, <3>1, <4>5, <4>6
    <3> QED
      BY <3>3, <3>4
  <2> QED
    BY <2>5, <2>6
<1>3. CASE ~(PumpStep \/ Deliver)
  <2>1. UNCHANGED <<script, held, toAgent, delivered, negotiated, initPending>>
    BY <1>3 DEF ProxyNext, proxyVars, wire, gate, Send, HangUp, AgentAnswers, AgentEdits,
       AgentExits, HelperLetsGo,
       Says, Dispatch, FinishRegister, BriefingLands, ShutdownStep, BeginShutdown,
       EndSettling, EndEach, Exit
  <2>2. \A k \in 1..delivered : fromAgent'[k] = fromAgent[k]
    BY FromAgentGrows DEF AnswersOK
  <2>3. FirstNegotiation' = FirstNegotiation
    BY <2>1, <2>2 DEF FirstNegotiation
  <2>4. \A m : Awaited(m) => Awaited(m)'
    BY <2>1, <2>2 DEF Awaited, RepliesTo
  <2>5. NoneNegotiated'
    BY <1>0, <2>1, <2>3, <2>4 DEF NoneNegotiated
  <2>6. FirstDecided'
    BY <1>0, <2>1, <2>2, <2>3 DEF FirstDecided, FirstNegotiation
  <2>7. AwaitedAreInits' /\ HeldIsEntitled' /\ EditedAreEntitled'
    BY <1>0, <2>1 DEF AwaitedAreInits, HeldIsEntitled, EditedAreEntitled, Entitled
  <2> QED
    BY <2>5, <2>6, <2>7
<1> QED
  BY <1>1, <1>2, <1>3

----------------------------------------------------------------------------
(* The capture queue.                                                      *)

LEMMA ChainInitially == ProxyInit => ChainOK
BY DEF ProxyInit, ChainOK

LEMMA WroteAppends ==
  ASSUME WireOK, NEW edit \in {"none", "mcp", "briefing", "hint"}, Wrote(edit)
  PROVE  /\ Len(toAgent) \in Nat /\ Len(toAgent') = Len(toAgent) + 1
         /\ \A i \in 1..Len(toAgent) : toAgent'[i] = toAgent[i]
         /\ toAgent'[Len(toAgent) + 1] = [n |-> Len(toAgent) + 1, edit |-> edit]
<1> DEFINE e == [n |-> Len(toAgent) + 1, edit |-> edit]
           S == [n : Nat, edit : {"none", "mcp", "briefing", "hint"}]
<1>1. toAgent \in Seq(S)
  BY DEF WireOK
<1>2. e \in S
  BY <1>1
<1>3. toAgent' = Append(toAgent, e)
  BY DEF Wrote
<1> HIDE DEF e, S
<1>4. /\ Len(toAgent) \in Nat /\ Len(toAgent') = Len(toAgent) + 1
      /\ \A i \in 1..Len(toAgent) : toAgent'[i] = toAgent[i]
      /\ toAgent'[Len(toAgent) + 1] = e
  BY <1>1, <1>2, <1>3, AppendFacts
<1> QED
  BY <1>4 DEF e

\* The pump and the delivery queue what they forwarded; the engine takes the head.
Queues(event) ==
    /\ event \in Event
    /\ \/ /\ PumpStep /\ event = [kind |-> "line", n |-> Len(toAgent) + 1]
          /\ Len(toAgent') = Len(toAgent) + 1
       \/ /\ Deliver /\ event = fromAgent[delivered + 1]
          /\ delivered + 1 \in 1..Len(fromAgent)

LEMMA ChainMoves ==
  ASSUME WireOK, AnswersOK, [ProxyNext]_proxyVars, ~Dispatch
  PROVE  \/ UNCHANGED chain /\ excused \subseteq excused'
         \/ \E event \in Event : Queues(event) /\ Offered(event)
<1>0. Len(toAgent) \in Nat /\ delivered \in Nat
  BY DEF WireOK, AnswersOK
<1>1. CASE PumpStep
  <2>1. ASSUME NEW edit \in {"none", "mcp", "briefing", "hint"}, Wrote(edit)
        PROVE  \E event \in Event : Queues(event) /\ Offered(event)
    <3> DEFINE e == [kind |-> "line", n |-> Len(toAgent) + 1]
    <3>1. e \in Event
      BY <1>0 DEF Event
    <3>2. Queues(e) /\ Offered(e)
      BY <1>1, <2>1, <3>1, WroteAppends DEF Queues, Wrote
    <3> QED
      BY <3>1, <3>2
  <2>2. ASSUME NEW stage \in Stages, Held(stage) PROVE UNCHANGED <<chain, excused>>
    BY <2>2 DEF Held
  <2> QED
    BY <1>1, <2>1, <2>2, PumpMoves
<1>2. CASE Deliver
  <2> DEFINE e == fromAgent[delivered + 1]
  <2>1. e \in Event /\ delivered + 1 \in 1..Len(fromAgent)
    BY <1>2 DEF Deliver, AnswersOK, Event
  <2>2. Offered(e)
    BY <1>2, OfferIsOffered DEF Deliver
  <2>3. Queues(e)
    BY <1>2, <2>1 DEF Queues
  <2> QED
    BY <2>1, <2>2, <2>3
<1>3. CASE ~(PumpStep \/ Deliver)
  BY <1>3 DEF ProxyNext, proxyVars, history, Send, HangUp, AgentAnswers, AgentEdits, AgentExits,
     HelperLetsGo,
       Says, FinishRegister, BriefingLands, ShutdownStep, BeginShutdown,
       EndSettling, EndEach, Exit
<1> QED
  BY <1>1, <1>2, <1>3

\* The queue and what it is told of, as the engine finds them.
ChainPart ==
    /\ chain \in Seq(Event)
    /\ \A p \in 1..Len(chain) :
          /\ chain[p].kind = "line" => chain[p].n \in 1..Len(toAgent)
          /\ chain[p].kind = "answer" => \E k \in 1..delivered : fromAgent[k] = chain[p]
    /\ \A p, q \in 1..Len(chain) :
          chain[p].kind = "answer" /\ RepliesTo(chain[q], chain[p].n) => p = q

WorkPart == job \in Sessions \cup {Nil} /\ pending \subseteq 1..Len(toAgent)

LEMMA ChainParts == ChainOK <=> ChainPart /\ WorkPart
BY DEF ChainOK, ChainPart, WorkPart

LEMMA ChainPartPreserved ==
  ASSUME WireOK, AnswersOK, ChainPart, [ProxyNext]_proxyVars
  PROVE  ChainPart'
<1> USE DEF ChainPart
<1>1. /\ Len(toAgent) \in Nat /\ Len(toAgent') \in Nat /\ Len(toAgent) <= Len(toAgent')
  BY ToAgentGrows
<1>2. /\ delivered \in Nat /\ delivered' \in Nat /\ delivered <= delivered'
      /\ Len(fromAgent) \in Nat /\ delivered <= Len(fromAgent)
      /\ \A k \in 1..Len(fromAgent) : fromAgent'[k] = fromAgent[k]
  BY FromAgentGrows DEF AnswersOK
<1>3. ASSUME NEW event \in Event,
             event.kind = "line" => event.n \in 1..Len(toAgent),
             event.kind = "answer" => \E k \in 1..delivered : fromAgent[k] = event
      PROVE  /\ event.kind = "line" => event.n \in 1..Len(toAgent')
             /\ event.kind = "answer" => \E k \in 1..delivered' : fromAgent'[k] = event
  BY <1>1, <1>2, <1>3
<1>4. CASE UNCHANGED chain
  BY <1>3, <1>4 DEF RepliesTo
<1>5. ASSUME NEW event \in Event, Queues(event), chain' = Append(chain, event)
      PROVE  ChainPart'
  <2>1. /\ chain' \in Seq(Event) /\ Len(chain') = Len(chain) + 1 /\ Len(chain) \in Nat
        /\ \A p \in 1..Len(chain) : chain'[p] = chain[p]
        /\ chain'[Len(chain) + 1] = event
    BY <1>5, AppendFacts
  <2>2. /\ event.kind = "line" => event.n \in 1..Len(toAgent')
        /\ event.kind = "answer" => \E k \in 1..delivered' : fromAgent'[k] = event
    <3>1. CASE PumpStep /\ event = [kind |-> "line", n |-> Len(toAgent) + 1]
               /\ Len(toAgent') = Len(toAgent) + 1
      BY <1>1, <3>1
    <3>2. CASE Deliver /\ event = fromAgent[delivered + 1]
               /\ delivered + 1 \in 1..Len(fromAgent)
      <4>1. delivered' = delivered + 1 /\ fromAgent' = fromAgent /\ event.kind # "line"
        BY <3>2 DEF Deliver, AnswersOK, Said
      <4> QED
        BY <1>2, <3>2, <4>1
    <3> QED
      BY <1>5, <3>1, <3>2 DEF Queues
  <2>3. ASSUME NEW p \in 1..Len(chain')
        PROVE  /\ chain'[p].kind = "line" => chain'[p].n \in 1..Len(toAgent')
               /\ chain'[p].kind = "answer" => \E k \in 1..delivered' : fromAgent'[k] = chain'[p]
    <3>1. CASE p = Len(chain) + 1
      BY <2>1, <2>2, <3>1
    <3>2. CASE p \in 1..Len(chain)
      BY <1>3, <2>1, <3>2
    <3> QED
      BY <2>1, <3>1, <3>2
  <2>4. ASSUME NEW p \in 1..Len(chain), chain[p].kind = "answer"
        PROVE  ~(event.kind = "answer" /\ event.n = chain[p].n)
    <3>1. PICK k \in 1..delivered : fromAgent[k] = chain[p]
      BY <2>4
    <3> SUFFICES ASSUME event.kind = "answer" /\ event.n = chain[p].n PROVE FALSE
      OBVIOUS
    <3>2. event = fromAgent[delivered + 1] /\ delivered + 1 \in 1..Len(fromAgent)
      BY <1>5 DEF Queues
    <3>3. k \in 1..Len(fromAgent)
      BY <1>2
    <3>4. k = delivered + 1
      BY <2>4, <3>1, <3>2, <3>3 DEF AnswersOK, RepliesTo
    <3> QED
      BY <1>2, <3>4
  <2>5. ASSUME NEW p \in 1..Len(chain'), NEW q \in 1..Len(chain'),
               chain'[p].kind = "answer", chain'[q].kind = "answer", chain'[q].n = chain'[p].n
        PROVE  p = q
    <3>1. CASE p = Len(chain) + 1
      BY <2>1, <2>4, <2>5, <3>1
    <3>2. CASE q = Len(chain) + 1
      BY <2>1, <2>4, <2>5, <3>2
    <3>3. CASE p \in 1..Len(chain) /\ q \in 1..Len(chain)
      BY <2>1, <2>5, <3>3 DEF RepliesTo
    <3> QED
      BY <2>1, <3>1, <3>2, <3>3
  <2> QED
    BY <2>1, <2>3, <2>5 DEF RepliesTo
<1>6. CASE Dispatch
  <2>1. chain # <<>> /\ chain' = Tail(chain)
    BY <1>6 DEF Dispatch
  <2>2. /\ chain' \in Seq(Event) /\ Len(chain') = Len(chain) - 1
        /\ Len(chain) \in Nat /\ Len(chain) >= 1
        /\ \A p \in 1..(Len(chain) - 1) : chain'[p] = chain[p + 1]
    BY <2>1, TailFacts
  <2>3. \A p \in 1..Len(chain') : p + 1 \in 1..Len(chain) /\ chain'[p] = chain[p + 1]
    BY <2>2
  <2>4. ASSUME NEW p \in 1..Len(chain')
        PROVE  /\ chain'[p].kind = "line" => chain'[p].n \in 1..Len(toAgent')
               /\ chain'[p].kind = "answer" => \E k \in 1..delivered' : fromAgent'[k] = chain'[p]
    <3>1. p + 1 \in 1..Len(chain) /\ chain'[p] = chain[p + 1]
      BY <2>3
    <3>2. chain[p + 1] \in Event
      BY <3>1
    <3> QED
      BY <1>3, <3>1, <3>2
  <2>5. ASSUME NEW p \in 1..Len(chain'), NEW q \in 1..Len(chain'),
               chain'[p].kind = "answer", chain'[q].kind = "answer", chain'[q].n = chain'[p].n
        PROVE  p = q
    <3>1. p + 1 = q + 1
      BY <2>3, <2>5 DEF RepliesTo
    <3> QED
      BY <3>1
  <2> QED
    BY <2>2, <2>4, <2>5 DEF RepliesTo
<1> QED
  BY <1>4, <1>5, <1>6, ChainMoves DEF Offered

----------------------------------------------------------------------------
(* The lives of a session.                                                 *)

\* Nothing has become of a session whose creation the engine has not heard of.
FreshPart ==
    \A n \in 1..Len(script) : IsNew(n) /\ Undispatched(n) =>
        sessions[script[n].session].status = "absent" /\ job # script[n].session

\* What the event at the head does: a session begins to register, one is ended, or
\* neither.
LEMMA DispatchMoves ==
  ASSUME WireOK, AnswersOK, ChainPart, WorkPart, FreshPart, Dispatch
  PROVE  /\ job = Nil /\ proxy # "exited"
         /\ Head(chain) = chain[1] /\ chain[1] \in Event /\ 1 \in 1..Len(chain)
         /\ pending' \subseteq 1..Len(toAgent)
         /\ \/ UNCHANGED <<job, lives, sessions, ends>>
            \/ \E s \in Sessions : /\ Opens(chain[1], s) /\ ~Live(s)
                                   /\ StartRegister(s) /\ UNCHANGED <<sessions, ends>>
            \/ \E s \in Sessions : /\ Closes(chain[1], s) /\ Live(s)
                                   /\ EndSession(s) /\ UNCHANGED <<job, lives>>
<1> DEFINE event == Head(chain)
           Moves == \/ UNCHANGED <<job, lives, sessions, ends>>
                    \/ \E s \in Sessions : /\ Opens(event, s) /\ ~Live(s)
                                           /\ StartRegister(s) /\ UNCHANGED <<sessions, ends>>
                    \/ \E s \in Sessions : /\ Closes(event, s) /\ Live(s)
                                           /\ EndSession(s) /\ UNCHANGED <<job, lives>>
<1>1. chain \in Seq(Event) /\ chain # <<>> /\ job = Nil /\ proxy # "exited"
  BY DEF Dispatch, ChainPart
<1>2. event = chain[1] /\ event \in Event /\ 1 \in 1..Len(chain)
  BY <1>1, TailFacts
<1>3. /\ event.kind = "line" => event.n \in 1..Len(toAgent)
      /\ event.kind = "answer" =>
            event.n \in 1..Len(toAgent) /\ event.n \in Nat /\ Undispatched(event.n)
  <2>1. event.kind = "line" => event.n \in 1..Len(toAgent)
    BY <1>2 DEF ChainPart
  <2>2. ASSUME event.kind = "answer" PROVE event.n \in 1..Len(toAgent) /\ Undispatched(event.n)
    <3>1. PICK k \in 1..delivered : fromAgent[k] = event
      BY <1>2, <2>2 DEF ChainPart
    <3>2. k \in 1..Len(fromAgent)
      BY DEF AnswersOK
    <3>3. RepliesTo(chain[1], event.n)
      BY <1>2, <2>2 DEF RepliesTo
    <3> QED
      BY <1>2, <2>2, <3>1, <3>2, <3>3 DEF AnswersOK, Undispatched
  <2> QED
    BY <2>1, <2>2
<1>4. \A m \in 1..Len(toAgent) : m \in 1..Len(script) /\ script[m] \in Line
  BY DEF WireOK
<1>5. CASE event.kind = "line" /\ DispatchRequest(event.n)
  <2> DEFINE n == event.n
  <2>1. n \in 1..Len(script) /\ script[n] \in Line
    BY <1>3, <1>4, <1>5
  <2>2. pending' \subseteq 1..Len(toAgent)
    BY <1>3, <1>5 DEF DispatchRequest, Put, WorkPart
  <2>3. CASE script[n].method = "session/load"
    <3> DEFINE s == script[n].session
    <3>1. s \in Sessions /\ script[n] = [method |-> "session/load", session |-> s]
      BY <2>1, <2>3 DEF Line
    <3>2. UNCHANGED <<sessions, ends>>
      BY <1>5, <2>3 DEF DispatchRequest
    <3>3. \/ ~Live(s) /\ StartRegister(s)
          \/ NoWork
      BY <1>5, <2>3 DEF DispatchRequest, LoadRegisters, Live
    <3>4. Opens(event, s)
      BY <1>5, <3>1 DEF Opens
    <3> HIDE DEF s
    <3>5. Moves
      BY <3>1, <3>2, <3>3, <3>4 DEF NoWork
    <3> QED
      BY <1>1, <1>2, <2>2, <3>5
  <2>4. CASE script[n].method = "session/close"
    <3> DEFINE s == script[n].session
    <3>1. s \in Sessions /\ script[n] = [method |-> "session/close", session |-> s]
      BY <2>1, <2>4 DEF Line
    <3>2. NoWork
      BY <1>5, <2>4 DEF DispatchRequest
    <3>3. \/ Live(s) /\ EndSession(s)
          \/ UNCHANGED <<sessions, ends>>
      BY <1>5, <2>4 DEF DispatchRequest
    <3>4. Closes(event, s)
      BY <1>5, <3>1 DEF Closes
    <3> HIDE DEF s
    <3>5. Moves
      BY <3>1, <3>2, <3>3, <3>4 DEF NoWork
    <3> QED
      BY <1>1, <1>2, <2>2, <3>5
  <2>5. CASE script[n].method \notin {"session/load", "session/close"}
    <3>1. NoWork /\ UNCHANGED <<sessions, ends>>
      BY <1>5, <2>5 DEF DispatchRequest
    <3>2. Moves
      BY <3>1 DEF NoWork
    <3> QED
      BY <1>1, <1>2, <2>2, <3>2
  <2> QED
    BY <2>3, <2>4, <2>5
<1>6. CASE event.kind = "answer" /\ DispatchAnswer(event)
  <2> DEFINE n == event.n
             s == script[n].session
  <2>1. n \in 1..Len(script) /\ script[n] \in Line
    BY <1>3, <1>4, <1>6
  <2>2. pending' \subseteq 1..Len(toAgent) /\ UNCHANGED <<sessions, ends>>
    BY <1>6 DEF DispatchAnswer, WorkPart
  <2>3. CASE event.ok /\ IsNew(n) /\ StartRegister(s)
    <3>1. s \in Sessions /\ script[n] = [method |-> "session/new", session |-> s]
      BY <2>1, <2>3 DEF Line, IsNew
    <3>2. ~Live(s)
      BY <1>3, <1>6, <2>1, <2>3 DEF FreshPart, Live
    <3>3. Opens(event, s)
      BY <1>6, <2>3, <3>1 DEF Opens
    <3> HIDE DEF s
    <3>4. Moves
      BY <2>2, <2>3, <3>1, <3>2, <3>3
    <3> QED
      BY <1>1, <1>2, <2>2, <3>4
  <2>4. CASE NoWork
    <3>1. Moves
      BY <2>2, <2>4 DEF NoWork
    <3> QED
      BY <1>1, <1>2, <2>2, <3>1
  <2> QED
    BY <1>6, <2>3, <2>4 DEF DispatchAnswer, IsNew
<1>7. CASE UNCHANGED <<pending, job, lives, sessions, ends>>
  <2>1. Moves
    BY <1>7
  <2> QED
    BY <1>1, <1>2, <1>7, <2>1 DEF WorkPart
<1> QED
  BY <1>5, <1>6, <1>7 DEF Dispatch, DispatchEdit, NoWork, engine

LEMMA WorkPartPreserved ==
  ASSUME WireOK, AnswersOK, ChainPart, WorkPart, FreshPart, [ProxyNext]_proxyVars
  PROVE  WorkPart'
<1>1. Len(toAgent) \in Nat /\ Len(toAgent') \in Nat /\ Len(toAgent) <= Len(toAgent')
  BY ToAgentGrows
<1>2. CASE Dispatch
  BY <1>1, <1>2, DispatchMoves DEF WorkPart, StartRegister
<1>3. CASE FinishRegister
  BY <1>1, <1>3 DEF WorkPart, FinishRegister
<1>4. CASE PumpStep
  <2>1. UNCHANGED <<job, pending>>
    BY <1>4, PumpMoves
  <2> QED
    BY <1>1, <2>1 DEF WorkPart
<1>5. CASE ~(Dispatch \/ FinishRegister \/ PumpStep)
  <2>1. UNCHANGED <<job, pending>>
    BY <1>5 DEF ProxyNext, proxyVars, engine, Send, HangUp, AgentAnswers, AgentEdits, AgentExits,
       HelperLetsGo,
       Says, Deliver, BriefingLands, ShutdownStep, BeginShutdown, EndSettling, EndEach,
       EndSession, Exit
  <2> QED
    BY <1>1, <2>1 DEF WorkPart
<1> QED
  BY <1>2, <1>3, <1>4, <1>5

LifeTypes ==
    /\ sessions \in [Sessions -> [status : {"absent", "off", "live", "ended"},
                                  briefing : {"off", "pending", "ready", "empty", "taken"}]]
    /\ \A f \in {lives, ends, stranded, records, told} : f \in [Sessions -> Nat]

\* The books of one session balance.
Balanced(s) ==
    /\ Live(s) => s \in Connected /\ job # s
    /\ lives[s] = ends[s] + stranded[s] + One(Begun(s))
    /\ records[s] + One(Stage(s, "record")) + One(job = s /\ s \in Connected)
         + One(sessions[s].briefing \in {"pending", "ready"}) <= lives[s]
    /\ told[s] + One(Stage(s, "tell")) <= records[s]

LEMMA LifeParts == LifeOK <=> LifeTypes /\ \A s \in Sessions : Balanced(s)
BY DEF LifeOK, LifeTypes, Balanced

LEMMA LifeInitially == ProxyInit => LifeOK
BY AcpProxyAssumption DEF ProxyInit, LifeOK, Live, Begun, Stage, One, Absent

LEMMA EndTypes ==
  ASSUME LifeTypes, NEW s \in Sessions, EndSession(s)
  PROVE  /\ sessions' \in [Sessions -> [status : {"absent", "off", "live", "ended"},
                                        briefing : {"off", "pending", "ready", "empty", "taken"}]]
         /\ ends' \in [Sessions -> Nat]
<1> USE DEF LifeTypes
<1> DEFINE R == [status : {"absent", "off", "live", "ended"},
                 briefing : {"off", "pending", "ready", "empty", "taken"}]
<1>1. sessions \in [Sessions -> R] /\ sessions[s] \in R
  OBVIOUS
<1>2. [sessions[s] EXCEPT !.status = "ended"] \in R
  BY <1>1
<1>3. sessions' = [sessions EXCEPT ![s] = [sessions[s] EXCEPT !.status = "ended"]]
  BY DEF EndSession
<1>4. sessions' \in [Sessions -> R]
  BY <1>1, <1>2, <1>3
<1>5. ends' \in [Sessions -> Nat]
  BY DEF EndSession
<1> QED
  BY <1>4, <1>5

LEMMA LifeTypesPreserved ==
  ASSUME WireOK, AnswersOK, ChainPart, WorkPart, FreshPart, LifeTypes, [ProxyNext]_proxyVars
  PROVE  LifeTypes'
<1> USE DEF LifeTypes
<1>1. CASE Dispatch
  <2>0. UNCHANGED <<stranded, records, told>>
    BY <1>1 DEF Dispatch
  <2>1. CASE UNCHANGED <<lives, sessions, ends>>
    BY <2>0, <2>1
  <2>2. ASSUME NEW s \in Sessions, StartRegister(s), UNCHANGED <<sessions, ends>>
        PROVE  LifeTypes'
    BY <2>0, <2>2 DEF StartRegister
  <2>3. ASSUME NEW s \in Sessions, EndSession(s), UNCHANGED lives
        PROVE  LifeTypes'
    BY <2>0, <2>3, EndTypes
  <2> QED
    BY <1>1, <2>1, <2>2, <2>3, DispatchMoves
<1>2. CASE FinishRegister
  BY <1>2 DEF FinishRegister
<1>3. CASE \E s \in Sessions : BriefingLands(s)
  BY <1>3 DEF BriefingLands, history
<1>4. CASE EndEach
  <2>1. UNCHANGED <<lives, stranded, records, told>>
    BY <1>4 DEF EndEach
  <2>2. (UNCHANGED <<sessions, ends>>) \/ \E s \in Sessions : EndSession(s)
    BY <1>4 DEF EndEach, ToEnd
  <2> QED
    BY <2>1, <2>2, EndTypes
<1>5. CASE PumpStep
  <2>1. UNCHANGED <<lives, ends, stranded>>
    BY <1>5, PumpMoves
  <2>2. sessions' \in [Sessions -> [status : {"absent", "off", "live", "ended"},
                                  briefing : {"off", "pending", "ready", "empty", "taken"}]]
    <3>1. (UNCHANGED sessions) \/ \E s : SpendBriefing(s)
      BY <1>5 DEF PumpStep, TakeLine, DecideSetup, Settle, TakeBriefing, RecordBriefing,
         TellBriefing, DecideHint, Pumped, engine
    <3>2. ASSUME NEW s, SpendBriefing(s)
          PROVE  sessions' \in [Sessions -> [status : {"absent", "off", "live", "ended"},
                                  briefing : {"off", "pending", "ready", "empty", "taken"}]]
      BY <3>2 DEF SpendBriefing
    <3> QED
      BY <3>1, <3>2
  <2>3. records' \in [Sessions -> Nat] /\ told' \in [Sessions -> Nat]
    BY <1>5 DEF PumpStep, TakeLine, DecideSetup, Settle, TakeBriefing, RecordBriefing,
       TellBriefing, DecideHint, Tell
  <2> QED
    BY <2>1, <2>2, <2>3
<1>6. CASE ~(Dispatch \/ FinishRegister \/ EndEach \/ PumpStep \/ \E s \in Sessions : BriefingLands(s))
  BY <1>6 DEF ProxyNext, proxyVars, engine, history, Send, HangUp, AgentAnswers, AgentEdits,
     AgentExits, HelperLetsGo, Says, Deliver, ShutdownStep, BeginShutdown, EndSettling, Exit
<1> QED
  BY <1>1, <1>2, <1>3, <1>4, <1>5, <1>6

\* The four numbers of a session and what adds to them.
LEMMA OneFacts == \A b \in BOOLEAN : One(b) \in {0, 1} /\ (One(b) = 1 <=> b)
BY DEF One

\* A session's end is begun.
LEMMA EndKeepsBalance ==
  ASSUME LifeTypes, WorkPart, NEW s \in Sessions, NEW r \in Sessions, Balanced(s),
         Live(r), job # r, EndSession(r),
         UNCHANGED <<script, held, job, lives, stranded, records, told>>
  PROVE  Balanced(s)'
<1> USE DEF LifeTypes
<1>1. /\ sessions'[s].briefing = sessions[s].briefing
      /\ sessions'[s].status = IF s = r THEN "ended" ELSE sessions[s].status
      /\ ends'[s] = IF s = r THEN ends[s] + 1 ELSE ends[s]
  BY DEF EndSession
<1>2. \A stage : Stage(s, stage)' <=> Stage(s, stage)
  BY DEF Stage
<1>3. CASE s = r
  <2>1. ~Live(s)' /\ Live(s) /\ job' = job /\ job # s
    BY <1>1, <1>3 DEF Live
  <2>2. lives'[s] = ends'[s] + stranded'[s] + One(Begun(s))'
    BY <1>1, <1>3, <2>1 DEF Balanced, Begun, One
  <2> QED
    BY <1>1, <1>2, <2>1, <2>2 DEF Balanced, One
<1>4. CASE s # r
  BY <1>1, <1>2, <1>4 DEF Balanced, Live, Begun, One
<1> QED
  BY <1>3, <1>4

LEMMA StartKeepsBalance ==
  ASSUME LifeTypes, NEW s \in Sessions, NEW r \in Sessions, Balanced(s),
         ~Live(r), job = Nil, StartRegister(r),
         UNCHANGED <<script, held, sessions, ends, stranded, records, told>>
  PROVE  Balanced(s)'
<1> USE DEF LifeTypes
<1>1. /\ job' = r /\ Nil \notin Sessions
      /\ lives'[s] = IF s = r /\ s \in Connected THEN lives[s] + 1 ELSE lives[s]
  BY AcpProxyAssumption DEF StartRegister
<1>2. \A stage : Stage(s, stage)' <=> Stage(s, stage)
  BY DEF Stage
<1>3. CASE s = r
  BY <1>1, <1>2, <1>3 DEF Balanced, Live, Begun, One
<1>4. CASE s # r
  BY <1>1, <1>2, <1>4 DEF Balanced, Live, Begun, One
<1> QED
  BY <1>3, <1>4

LEMMA PumpKeepsBalance ==
  ASSUME WireOK, LifeTypes, NEW s \in Sessions, Balanced(s), PumpStep
  PROVE  Balanced(s)'
<1> USE DEF LifeTypes
<1>0. UNCHANGED <<script, job, lives, ends, stranded>>
  BY PumpMoves
<1>1. CASE ~(TakeBriefing \/ RecordBriefing \/ TellBriefing)
  <2>1. UNCHANGED <<sessions, records, told>>
    BY <1>1 DEF PumpStep, TakeLine, DecideSetup, Settle, DecideHint, Pumped, engine
  <2>2. held' = Nil \/ held'.stage \notin {"record", "tell"}
    BY <1>1 DEF PumpStep, TakeLine, DecideSetup, Settle, DecideHint, Hold, Forward
  <2>3. ~Stage(s, "record")' /\ ~Stage(s, "tell")'
    BY <2>2 DEF Stage
  <2> QED
    BY <1>0, <2>1, <2>3 DEF Balanced, Live, Begun, One
<1>2. CASE TakeBriefing
  <2> DEFINE r == script[held.n].session
  <2>0. UNCHANGED <<records, told>> /\ held # Nil /\ held.stage = "take"
    BY <1>2 DEF TakeBriefing, Holding
  <2>1. ~Stage(s, "record") /\ ~Stage(s, "tell") /\ ~Stage(s, "tell")'
    BY <1>2, <2>0 DEF TakeBriefing, Forward, Hold, Stage
  <2>2. CASE s = r
    <3>1. CASE sessions[r].briefing = "ready"
      <4>1. \/ sessions'[s].briefing = "taken" /\ sessions'[s].status = sessions[s].status
        BY <1>2, <2>2, <3>1 DEF TakeBriefing, SpendBriefing
      <4> QED
        BY <1>0, <2>0, <2>1, <2>2, <3>1, <4>1 DEF Balanced, Live, Begun, One
    <3>2. CASE sessions[r].briefing # "ready"
      <4>1. ~Stage(s, "record")'
        BY <1>0, <1>2, <3>2 DEF TakeBriefing, Forward, Hold, Stage
      <4>2. /\ sessions'[s].status = sessions[s].status
            /\ sessions'[s].briefing = IF sessions[s].briefing = "empty" /\ sessions'[s] # sessions[s]
                                       THEN "taken" ELSE sessions[s].briefing
        BY <1>2, <2>2, <3>2 DEF TakeBriefing, SpendBriefing
      <4> QED
        BY <1>0, <2>0, <2>1, <4>1, <4>2 DEF Balanced, Live, Begun, One
    <3> QED
      BY <3>1, <3>2
  <2>3. CASE s # r
    <3>1. ~Stage(s, "record")'
      BY <1>0, <1>2, <2>3 DEF TakeBriefing, Forward, Hold, Stage
    <3>2. sessions'[s] = sessions[s]
      BY <1>2, <2>3 DEF TakeBriefing, SpendBriefing
    <3> QED
      BY <1>0, <2>0, <2>1, <3>1, <3>2 DEF Balanced, Live, Begun, One
  <2> QED
    BY <2>2, <2>3
<1>3. CASE RecordBriefing
  <2> DEFINE r == script[held.n].session
  <2>0. /\ UNCHANGED <<sessions, told>> /\ held # Nil /\ held.stage = "record"
        /\ Stage(s, "record") <=> s = r
        /\ ~Stage(s, "tell")
    BY <1>3 DEF RecordBriefing, Holding, Pumped, engine, Stage
  <2>1. CASE records' = [records EXCEPT ![r] = @ + 1] /\ Hold(held.n, "tell")
    <3>1. /\ ~Stage(s, "record")'
          /\ Stage(s, "tell")' => s = r
          /\ records'[s] = IF s = r THEN records[s] + 1 ELSE records[s]
      BY <1>0, <2>1 DEF Stage, Hold
    <3> QED
      BY <1>0, <2>0, <3>1 DEF Balanced, Live, Begun, One
  <2>2. CASE UNCHANGED records /\ Forward(held.n, "none")
    <3>1. ~Stage(s, "record")' /\ ~Stage(s, "tell")'
      BY <2>2 DEF Stage, Forward
    <3> QED
      BY <1>0, <2>0, <2>2, <3>1 DEF Balanced, Live, Begun, One
  <2> QED
    BY <1>3, <2>1, <2>2 DEF RecordBriefing
<1>4. CASE TellBriefing
  <2> DEFINE r == script[held.n].session
  <2>0. /\ UNCHANGED <<sessions, records>> /\ held # Nil /\ held.stage = "tell"
        /\ Stage(s, "tell") <=> s = r
        /\ ~Stage(s, "record")
    BY <1>4 DEF TellBriefing, Holding, Pumped, engine, Stage
  <2>1. ~Stage(s, "record")' /\ ~Stage(s, "tell")'
    BY <1>4 DEF TellBriefing, Stage, Forward
  <2>2. told'[s] = told[s] \/ (s = r /\ told'[s] = told[s] + 1)
    BY <1>4 DEF TellBriefing, Tell
  <2> QED
    BY <1>0, <2>0, <2>1, <2>2 DEF Balanced, Live, Begun, One
<1> QED
  BY <1>1, <1>2, <1>3, <1>4

\* A registration enters its session, or throws and leaves no entry.
Entered ==
    /\ sessions' = [sessions EXCEPT ![job] =
                       IF job \in Connected
                       THEN [status |-> "live", briefing |-> "pending"]
                       ELSE [status |-> "off", briefing |-> "off"]]
    /\ UNCHANGED <<stranded, excused>>

Threw ==
    /\ stranded' = [stranded EXCEPT ![job] = IF job \in Connected THEN @ + 1 ELSE @]
    /\ excused' = excused \cup {job}
    /\ UNCHANGED sessions

LEMMA FinishMoves == ASSUME FinishRegister PROVE job' = Nil /\ (Entered \/ Threw)
BY DEF FinishRegister, Entered, Threw

LEMMA LifePreserved ==
  ASSUME WireOK, AnswersOK, ChainPart, WorkPart, FreshPart, LifeOK, [ProxyNext]_proxyVars
  PROVE  LifeOK'
<1> USE DEF LifeTypes
<1>0. LifeTypes /\ LifeTypes' /\ \A s \in Sessions : Balanced(s)
  BY LifeParts, LifeTypesPreserved
<1> SUFFICES ASSUME NEW s \in Sessions PROVE Balanced(s)'
  BY <1>0 DEF LifeOK, LifeTypes, Balanced
<1>1. CASE Dispatch
  <2>1. UNCHANGED <<script, held, stranded, records, told>> /\ job = Nil
    BY <1>1 DEF Dispatch, wire
  <2>2. CASE UNCHANGED <<job, lives, sessions, ends>>
    BY <1>0, <2>1, <2>2 DEF Balanced, Live, Begun, Stage, One
  <2>3. ASSUME NEW r \in Sessions, ~Live(r), StartRegister(r), UNCHANGED <<sessions, ends>>
        PROVE  Balanced(s)'
    BY <1>0, <2>1, <2>3, StartKeepsBalance
  <2>4. ASSUME NEW r \in Sessions, Live(r), EndSession(r), UNCHANGED <<job, lives>>
        PROVE  Balanced(s)'
    BY <1>0, <2>1, <2>4, EndKeepsBalance DEF Balanced
  <2> QED
    BY <1>1, <2>2, <2>3, <2>4, DispatchMoves
<1>2. CASE FinishRegister
  <2>1. /\ UNCHANGED <<script, held, lives, ends, records, told>> /\ job' = Nil
        /\ job \in Sessions /\ Nil \notin Sessions
    BY <1>2, AcpProxyAssumption DEF FinishRegister, wire, history, WorkPart
  <2>2. CASE Entered
    <3>0. UNCHANGED stranded
      BY <2>2 DEF Entered
    <3>1. CASE s = job
      <4>1. sessions'[s] = IF job \in Connected
                           THEN [status |-> "live", briefing |-> "pending"]
                           ELSE [status |-> "off", briefing |-> "off"]
        BY <1>0, <2>1, <2>2, <3>1 DEF Entered
      <4>2. CASE s \in Connected
        BY <1>0, <2>1, <3>0, <3>1, <4>1, <4>2 DEF Balanced, Live, Begun, Stage, One
      <4>3. CASE s \notin Connected
        BY <1>0, <2>1, <3>0, <3>1, <4>1, <4>3 DEF Balanced, Live, Begun, Stage, One
      <4> QED
        BY <4>2, <4>3
    <3>2. CASE s # job
      <4>1. sessions'[s] = sessions[s]
        BY <1>0, <2>1, <2>2, <3>2 DEF Entered
      <4> QED
        BY <1>0, <2>1, <3>0, <3>2, <4>1 DEF Balanced, Live, Begun, Stage, One
    <3> QED
      BY <3>1, <3>2
  <2>3. CASE Threw
    <3>0. UNCHANGED sessions
      BY <2>3 DEF Threw
    <3>1. stranded'[s] = IF s = job /\ s \in Connected THEN stranded[s] + 1 ELSE stranded[s]
      BY <1>0, <2>1, <2>3 DEF Threw
    <3> QED
      BY <1>0, <2>1, <3>0, <3>1 DEF Balanced, Live, Begun, Stage, One
  <2> QED
    BY <1>2, <2>2, <2>3, FinishMoves
<1>3. ASSUME NEW r \in Sessions, BriefingLands(r) PROVE Balanced(s)'
  <2>1. UNCHANGED <<script, held, job, lives, ends, stranded, records, told>>
    BY <1>3 DEF BriefingLands, wire, history
  <2>2. /\ sessions'[s].status = sessions[s].status
        /\ \/ sessions'[s].briefing = sessions[s].briefing
           \/ sessions[s].briefing = "pending"
    BY <1>0, <1>3 DEF BriefingLands
  <2> QED
    BY <1>0, <2>1, <2>2 DEF Balanced, Live, Begun, Stage, One
<1>4. CASE EndEach
  <2>1. UNCHANGED <<script, held, job, lives, stranded, records, told>>
    BY <1>4 DEF EndEach, wire
  <2>2. CASE UNCHANGED <<sessions, ends>>
    BY <1>0, <2>1, <2>2 DEF Balanced, Live, Begun, Stage, One
  <2>3. ASSUME NEW r \in Sessions, Live(r), EndSession(r) PROVE Balanced(s)'
    BY <1>0, <2>1, <2>3, EndKeepsBalance DEF Balanced
  <2>4. (UNCHANGED <<sessions, ends>>) \/ \E r \in Sessions : Live(r) /\ EndSession(r)
    BY <1>4 DEF EndEach, ToEnd
  <2> QED
    BY <2>2, <2>3, <2>4
<1>5. CASE PumpStep
  BY <1>0, <1>5, PumpKeepsBalance
<1>6. CASE ~(Dispatch \/ FinishRegister \/ EndEach \/ PumpStep \/ \E r \in Sessions : BriefingLands(r))
  <2>1. UNCHANGED <<script, held, job, sessions, lives, ends, stranded, records, told>>
    BY <1>6 DEF ProxyNext, proxyVars, wire, engine, history, Send, HangUp, AgentAnswers,
       AgentEdits, AgentExits, HelperLetsGo, Says, Deliver, ShutdownStep, BeginShutdown,
       EndSettling, Exit
  <2> QED
    BY <1>0, <2>1 DEF Balanced, Live, Begun, Stage, One
<1> QED
  BY <1>1, <1>2, <1>3, <1>4, <1>5, <1>6

----------------------------------------------------------------------------
(* A session that is created.                                              *)

KnownPart ==
    \A n \in 1..Len(script) : IsNew(n) /\ script[n].session \in known => Granted(n)

SentPart ==
    \A n \in 1..Len(script) : \A m \in 1..sent :
        IsNew(n) /\ script[m].session = script[n].session /\ m # n => Granted(n)

QueuePart ==
    \A n \in 1..Len(script) : \A p, q \in 1..Len(chain) :
        IsNew(n) /\ RepliesTo(chain[p], n) /\ Speaks(chain[q], n) => p < q

LEMMA FreshParts == FreshOK <=> FreshPart /\ KnownPart /\ SentPart /\ QueuePart
BY DEF FreshOK, FreshPart, KnownPart, SentPart, QueuePart

LEMMA GrantedStays ==
  ASSUME WireOK, AnswersOK, [ProxyNext]_proxyVars, NEW n, Granted(n)
  PROVE  Granted(n)'
<1>1. PICK k \in 1..delivered : Grants(fromAgent[k], n)
  BY DEF Granted
<1>2. k \in 1..delivered' /\ fromAgent'[k] = fromAgent[k]
  BY FromAgentGrows DEF AnswersOK
<1> QED
  BY <1>1, <1>2 DEF Granted, Grants, RepliesTo

\* A line is named by one creation only.
LEMMA OneCreation ==
  ASSUME WireOK, NEW n \in 1..Len(script), NEW m \in 1..Len(script),
         IsNew(n), IsNew(m), script[m].session = script[n].session
  PROVE  m = n
BY DEF WireOK, HandsOutNew, IsNew

LEMMA NewIsLine ==
  ASSUME WireOK, NEW n \in 1..Len(script), IsNew(n)
  PROVE  /\ script[n].session \in Sessions
         /\ script[n] = [method |-> "session/new", session |-> script[n].session]
<1>1. script[n] \in Line
  BY DEF WireOK
<1> QED
  BY <1>1 DEF Line, IsNew

\* A delivered answer is not about to be delivered.
LEMMA DeliveredOnce ==
  ASSUME AnswersOK, NEW n, NEW j \in 1..delivered, NEW k \in (delivered + 1)..Len(fromAgent),
         RepliesTo(fromAgent[j], n), RepliesTo(fromAgent[k], n)
  PROVE  FALSE
BY DEF AnswersOK, RepliesTo

LEMMA GrantedIsDelivered ==
  ASSUME AnswersOK, NEW n, Granted(n)
  PROVE  n \in answered /\ ~\E k \in (delivered + 1)..Len(fromAgent) : RepliesTo(fromAgent[k], n)
<1>1. PICK j \in 1..delivered : Grants(fromAgent[j], n)
  BY DEF Granted
<1>2. RepliesTo(fromAgent[j], n) /\ j \in 1..Len(fromAgent)
  BY <1>1 DEF Grants, AnswersOK
<1>3. n \in answered
  BY <1>2 DEF AnswersOK, RepliesTo
<1> QED
  BY <1>2, <1>3, DeliveredOnce

\* What the engine was told of, it stays told of.
LEMMA UndispatchedBefore ==
  ASSUME WireOK, AnswersOK, ChainPart, [ProxyNext]_proxyVars, NEW n, Undispatched(n)'
  PROVE  Undispatched(n)
<1> SUFFICES ASSUME n \in answered PROVE Undispatched(n)
  BY DEF Undispatched
<1>0. Len(fromAgent) \in Nat /\ delivered \in Nat /\ chain \in Seq(Event)
  BY DEF AnswersOK, ChainPart
<1>1. n \in answered'
  BY FromAgentGrows
<1>2. CASE \E k \in (delivered' + 1)..Len(fromAgent') : RepliesTo(fromAgent'[k], n)
  <2>1. PICK k \in (delivered' + 1)..Len(fromAgent') : RepliesTo(fromAgent'[k], n)
    BY <1>2
  <2>2. CASE k \in 1..Len(fromAgent)
    <3>1. fromAgent'[k] = fromAgent[k] /\ k \in (delivered + 1)..Len(fromAgent)
      BY <1>0, <2>2, FromAgentGrows
    <3> QED
      BY <2>1, <3>1 DEF Undispatched
  <2>3. CASE k \notin 1..Len(fromAgent)
    <3>1. AgentAnswers \/ AgentEdits
      <4> SUFFICES ASSUME ~(AgentAnswers \/ AgentEdits) PROVE FALSE
        OBVIOUS
      <4>1. fromAgent' = fromAgent
        BY AgentSideKept
      <4> QED
        BY <1>0, <2>3, <4>1, FromAgentGrows
    <3>2. PICK event \in Said : Spoke(event)
      BY <3>1, AgentSpeaks
    <3>3. /\ fromAgent \in Seq(Said) /\ fromAgent' = Append(fromAgent, event)
          /\ delivered' = delivered
      BY <3>2 DEF Spoke, AnswersOK
    <3>4. k = Len(fromAgent) + 1 /\ fromAgent'[k] = event
      BY <1>0, <2>3, <3>3, AppendFacts
    <3>5. event.kind = "answer" /\ event.n = n
      BY <2>1, <3>4 DEF RepliesTo
    <3> QED
      BY <3>2, <3>5 DEF Spoke
  <2> QED
    BY <2>2, <2>3
<1>3. CASE \E p \in 1..Len(chain') : RepliesTo(chain'[p], n)
  <2>1. PICK p \in 1..Len(chain') : RepliesTo(chain'[p], n)
    BY <1>3
  <2>2. CASE Dispatch
    <3>1. chain # <<>> /\ chain' = Tail(chain)
      BY <2>2 DEF Dispatch
    <3>2. p + 1 \in 1..Len(chain) /\ chain'[p] = chain[p + 1]
      BY <1>0, <3>1, TailFacts
    <3> QED
      BY <2>1, <3>2 DEF Undispatched
  <2>3. CASE UNCHANGED chain
    BY <2>1, <2>3 DEF Undispatched
  <2>4. ASSUME NEW event \in Event, Queues(event), chain' = Append(chain, event)
        PROVE  Undispatched(n)
    <3>1. /\ Len(chain') = Len(chain) + 1 /\ Len(chain) \in Nat
          /\ \A i \in 1..Len(chain) : chain'[i] = chain[i]
          /\ chain'[Len(chain) + 1] = event
      BY <1>0, <2>4, AppendFacts
    <3>2. CASE p \in 1..Len(chain)
      BY <2>1, <3>1, <3>2 DEF Undispatched
    <3>3. CASE p = Len(chain) + 1
      <4>1. RepliesTo(event, n)
        BY <2>1, <3>1, <3>3
      <4>2. event = fromAgent[delivered + 1] /\ delivered + 1 \in (delivered + 1)..Len(fromAgent)
        BY <1>0, <2>4, <4>1 DEF Queues, RepliesTo
      <4> QED
        BY <4>1, <4>2 DEF Undispatched
    <3> QED
      BY <3>1, <3>2, <3>3
  <2> QED
    BY <2>2, <2>3, <2>4, ChainMoves DEF Offered
<1> QED
  BY <1>1, <1>2, <1>3 DEF Undispatched

\* Once an answer is at the head and taken, it is dispatched.
LEMMA HeadIsDispatched ==
  ASSUME WireOK, AnswersOK, ChainPart, Dispatch, NEW n, RepliesTo(chain[1], n)
  PROVE  ~Undispatched(n)'
<1>0. Len(fromAgent) \in Nat /\ delivered \in Nat /\ chain \in Seq(Event)
  BY DEF AnswersOK, ChainPart
<1>1. chain # <<>> /\ chain' = Tail(chain) /\ UNCHANGED <<fromAgent, delivered, answered>>
  BY DEF Dispatch, wire, peer
<1>2. /\ 1 \in 1..Len(chain) /\ Len(chain') = Len(chain) - 1
      /\ \A p \in 1..Len(chain') : p + 1 \in 1..Len(chain) /\ chain'[p] = chain[p + 1]
  BY <1>0, <1>1, TailFacts
<1>3. PICK k \in 1..delivered : fromAgent[k] = chain[1]
  BY <1>2 DEF ChainPart, RepliesTo
<1>4. n \in answered
  BY <1>3 DEF RepliesTo, AnswersOK
<1>5. ~\E j \in (delivered + 1)..Len(fromAgent) : RepliesTo(fromAgent[j], n)
  BY <1>3, DeliveredOnce
<1>6. ASSUME NEW p \in 1..Len(chain'), RepliesTo(chain'[p], n) PROVE FALSE
  <2>1. p + 1 \in 1..Len(chain) /\ RepliesTo(chain[p + 1], n)
    BY <1>2, <1>6
  <2>2. chain[1].kind = "answer" /\ chain[1].n = n
    BY DEF RepliesTo
  <2>3. 1 = p + 1
    BY <1>2, <2>1, <2>2 DEF ChainPart
  <2> QED
    BY <2>3
<1> QED
  BY <1>1, <1>4, <1>5, <1>6 DEF Undispatched, RepliesTo

LEMMA FreshInitially == ProxyInit => FreshOK
<1> SUFFICES ASSUME ProxyInit PROVE FreshPart /\ KnownPart /\ SentPart /\ QueuePart
  BY FreshParts
<1>1. WireOK
  BY WireInitially
<1>2. FreshPart
  BY <1>1, NewIsLine, AcpProxyAssumption DEF ProxyInit, FreshPart, Absent
<1>3. KnownPart /\ SentPart /\ QueuePart
  BY DEF ProxyInit, KnownPart, SentPart, QueuePart
<1> QED
  BY <1>2, <1>3

\* A session is not begun before the engine hears that it was created.
LEMMA OpensWhatIsDispatched ==
  ASSUME WireOK, AnswersOK, ChainPart, SentPart, QueuePart, Dispatch,
         NEW n \in 1..Len(script), IsNew(n), Undispatched(n), Undispatched(n)'
  PROVE  ~Opens(chain[1], script[n].session)
<1> DEFINE s == script[n].session
           event == chain[1]
<1>0. 1 \in 1..Len(chain) /\ event \in Event
  BY TailFacts DEF Dispatch, ChainPart
<1>1. s \in Sessions /\ script[n] = [method |-> "session/new", session |-> s]
  BY NewIsLine
<1>2. ASSUME event.kind = "answer", script[event.n] = [method |-> "session/new", session |-> s]
      PROVE  FALSE
  <2>1. PICK k \in 1..delivered : fromAgent[k] = event
    BY <1>0, <1>2 DEF ChainPart
  <2>2. event.n \in 1..Len(script)
    BY <1>2, <2>1 DEF AnswersOK, WireOK
  <2>3. event.n = n
    BY <1>2, <2>2, OneCreation DEF IsNew
  <2> QED
    BY <1>2, <2>3, HeadIsDispatched DEF RepliesTo
<1>3. ASSUME event.kind = "line", script[event.n] = [method |-> "session/load", session |-> s]
      PROVE  FALSE
  <2>1. event.n \in 1..Len(toAgent)
    BY <1>0, <1>3 DEF ChainPart
  <2>2. event.n \in 1..sent /\ event.n # n
    BY <1>1, <1>3, <2>1 DEF WireOK
  <2>3. Granted(n)
    BY <1>3, <2>2 DEF SentPart
  <2>4. PICK p \in 1..Len(chain) : RepliesTo(chain[p], n)
    BY <2>3, GrantedIsDelivered DEF Undispatched
  <2>5. Speaks(event, n)
    BY <1>3, <2>2 DEF Speaks
  <2>6. p < 1
    BY <1>0, <2>4, <2>5 DEF QueuePart
  <2> QED
    BY <2>4, <2>6 DEF ChainPart
<1> QED
  BY <1>2, <1>3 DEF Opens

\* A session's status is left alone except by its registration and its end.
LEMMA StatusKept ==
  ASSUME WireOK, AnswersOK, ChainPart, WorkPart, FreshPart, LifeTypes, [ProxyNext]_proxyVars,
         NEW s \in Sessions, job # s
  PROVE  \/ sessions'[s].status = sessions[s].status /\ (job' # s \/ job' = job)
         \/ Live(s) /\ ~Live(s)' /\ job' = job
         \/ Dispatch /\ Opens(chain[1], s) /\ job' = s /\ sessions' = sessions
<1> USE DEF LifeTypes
<1>0. Nil \notin Sessions
  BY AcpProxyAssumption
<1>1. CASE Dispatch
  <2>1. CASE UNCHANGED <<job, sessions>>
    BY <2>1
  <2>2. ASSUME NEW r \in Sessions, Opens(chain[1], r), StartRegister(r), UNCHANGED sessions
        PROVE  sessions' = sessions /\ job' = r /\ Opens(chain[1], r)
    BY <2>2 DEF StartRegister
  <2>3. ASSUME NEW r \in Sessions, Live(r), EndSession(r), UNCHANGED job
        PROVE  \/ sessions'[s].status = sessions[s].status
               \/ Live(s) /\ ~Live(s)'
    <3>1. sessions'[s].status = IF s = r THEN "ended" ELSE sessions[s].status
      BY <2>3 DEF EndSession
    <3> QED
      BY <2>3, <3>1 DEF Live
  <2> QED
    BY <1>1, <2>1, <2>2, <2>3, DispatchMoves
<1>2. CASE FinishRegister
  BY <1>0, <1>2 DEF FinishRegister
<1>3. ASSUME NEW r \in Sessions, BriefingLands(r)
      PROVE  sessions'[s].status = sessions[s].status /\ job' = job
  BY <1>3 DEF BriefingLands
<1>4. CASE EndEach
  <2>1. CASE UNCHANGED sessions
    BY <1>4, <2>1 DEF EndEach
  <2>2. ASSUME NEW r \in Sessions, Live(r), EndSession(r)
        PROVE  \/ sessions'[s].status = sessions[s].status
               \/ Live(s) /\ ~Live(s)'
    <3>1. sessions'[s].status = IF s = r THEN "ended" ELSE sessions[s].status
      BY <2>2 DEF EndSession
    <3> QED
      BY <2>2, <3>1 DEF Live
  <2> QED
    BY <1>4, <2>1, <2>2 DEF EndEach, ToEnd
<1>5. CASE PumpStep
  <2>1. job' = job
    BY <1>5, PumpMoves
  <2>2. sessions'[s].status = sessions[s].status
    BY <1>5 DEF PumpStep, TakeLine, DecideSetup, Settle, TakeBriefing, RecordBriefing,
       TellBriefing, DecideHint, Pumped, engine, SpendBriefing
  <2> QED
    BY <2>1, <2>2
<1>6. CASE ~(Dispatch \/ FinishRegister \/ EndEach \/ PumpStep \/ \E r \in Sessions : BriefingLands(r))
  BY <1>6 DEF ProxyNext, proxyVars, engine, Send, HangUp, AgentAnswers, AgentEdits,
     AgentExits, HelperLetsGo, Says, Deliver, ShutdownStep, BeginShutdown, EndSettling, Exit
<1> QED
  BY <1>1, <1>2, <1>3, <1>4, <1>5, <1>6

LEMMA FreshPreserved ==
  ASSUME WireOK, AnswersOK, ChainPart, WorkPart, LifeTypes, FreshOK, [ProxyNext]_proxyVars
  PROVE  FreshOK'
<1>0. FreshPart /\ KnownPart /\ SentPart /\ QueuePart
  BY FreshParts
<1>00. script' = script /\ \A n : IsNew(n)' <=> IsNew(n)
  BY ToAgentGrows DEF IsNew
<1> SUFFICES FreshPart' /\ KnownPart' /\ SentPart' /\ QueuePart'
  BY DEF FreshOK, FreshPart, KnownPart, SentPart, QueuePart
<1>1. FreshPart'
  <2> SUFFICES ASSUME NEW n \in 1..Len(script), IsNew(n), Undispatched(n)'
               PROVE  /\ sessions'[script[n].session].status = "absent"
                      /\ job' # script[n].session
    BY <1>00 DEF FreshPart
  <2> DEFINE s == script[n].session
  <2>1. Undispatched(n)
    BY UndispatchedBefore
  <2>2. s \in Sessions
    BY NewIsLine
  <2>3. sessions[s].status = "absent" /\ job # s /\ ~Live(s)
    BY <1>0, <2>1 DEF FreshPart, Live
  <2>4. Dispatch => ~Opens(chain[1], s)
    BY <1>0, <2>1, OpensWhatIsDispatched
  <2> HIDE DEF s
  <2>5. sessions'[s].status = sessions[s].status /\ (job' # s \/ job' = job)
    BY <1>0, <2>2, <2>3, <2>4, StatusKept
  <2> QED
    BY <2>3, <2>5 DEF s
<1>2. KnownPart'
  <2> SUFFICES ASSUME NEW n \in 1..Len(script), IsNew(n), script[n].session \in known'
               PROVE  Granted(n)'
    BY <1>00 DEF KnownPart
  <2> DEFINE s == script[n].session
  <2>1. CASE s \in known
    BY <1>0, <2>1, GrantedStays DEF KnownPart
  <2>2. CASE s \notin known
    <3>1. CASE Send
      <4>1. script[sent + 1].method = "session/load" /\ s = script[sent + 1].session
        BY <2>2, <3>1 DEF Send
      <4>2. s \notin known /\ ~Created(s)
        BY <2>2, <3>1, <4>1 DEF Send
      <4> QED
        BY <4>2, NewIsLine DEF Created
    <3>2. CASE Deliver
      <4> DEFINE event == fromAgent[delivered + 1]
      <4>1. /\ event.kind = "answer" /\ event.ok /\ IsNew(event.n)
            /\ s = script[event.n].session
            /\ delivered' = delivered + 1 /\ fromAgent' = fromAgent
            /\ delivered + 1 \in 1..Len(fromAgent)
        BY <2>2, <3>2 DEF Deliver, IsNew, AnswersOK
      <4>2. event.n \in 1..Len(script)
        BY <4>1 DEF AnswersOK, WireOK
      <4>3. event.n = n
        BY <4>1, <4>2, OneCreation
      <4>4. Grants(fromAgent'[delivered + 1], n) /\ delivered + 1 \in 1..delivered'
        BY <4>1, <4>3 DEF Grants, RepliesTo, AnswersOK
      <4> QED
        BY <4>4 DEF Granted, Grants, RepliesTo
    <3>3. CASE ~(Send \/ Deliver)
      <4>1. known' = known
        <5>1. CASE PumpStep
          BY <5>1, PumpMoves
        <5>2. CASE ~PumpStep
          BY <3>3, <5>2 DEF ProxyNext, proxyVars, wire, HangUp, AgentAnswers, AgentEdits,
             AgentExits, HelperLetsGo,
             Says, Dispatch, FinishRegister, BriefingLands, ShutdownStep, BeginShutdown,
             EndSettling, EndEach, Exit
        <5> QED
          BY <5>1, <5>2
      <4> QED
        BY <2>2, <4>1
    <3> QED
      BY <3>1, <3>2, <3>3
  <2> QED
    BY <2>1, <2>2
<1>3. SentPart'
  <2> SUFFICES ASSUME NEW n \in 1..Len(script), NEW m \in 1..sent', IsNew(n),
                      script[m].session = script[n].session, m # n
               PROVE  Granted(n)'
    BY <1>00 DEF SentPart
  <2> DEFINE s == script[n].session
  <2>1. CASE m \in 1..sent
    BY <1>0, <2>1, GrantedStays DEF SentPart
  <2>2. CASE m \notin 1..sent
    <3>1. Send
      <4> SUFFICES ASSUME ~Send PROVE FALSE
        OBVIOUS
      <4>1. sent' = sent
        <5>1. CASE PumpStep
          BY <5>1, PumpMoves
        <5>2. CASE ~PumpStep
          BY <5>2 DEF ProxyNext, proxyVars, wire, HangUp, AgentAnswers, AgentEdits, AgentExits,
             HelperLetsGo,
             Says, Deliver, Dispatch, FinishRegister, BriefingLands, ShutdownStep, BeginShutdown,
             EndSettling, EndEach, Exit
        <5> QED
          BY <5>1, <5>2
      <4> QED
        BY <2>2, <4>1
    <3>2. m = sent + 1 /\ m \in 1..Len(script)
      BY <2>2, <3>1 DEF Send, WireOK
    <3>3. script[m] \in Line /\ s \in Sessions /\ Nil \notin Sessions
      <4>1. script[m] \in Line
        BY <3>2 DEF WireOK
      <4>2. s \in Sessions
        BY NewIsLine
      <4>3. Nil \notin Sessions
        BY AcpProxyAssumption
      <4> QED
        BY <4>1, <4>2, <4>3
    <3>4. \/ script[m].method \in {"initialize", "session/new"}
          \/ script[m].method = "session/load" /\ ~Created(s)
          \/ s \in known
      BY <3>1, <3>2 DEF Send
    <3>5. script[m].method # "initialize"
      BY <3>3 DEF Line
    <3>6. script[m].method # "session/new"
      BY <3>2, OneCreation DEF IsNew
    <3>7. Created(s)
      BY NewIsLine DEF Created
    <3>8. Granted(n)
      BY <1>0, <3>4, <3>5, <3>6, <3>7 DEF KnownPart
    <3> QED
      BY <3>8, GrantedStays
  <2> QED
    BY <2>1, <2>2
<1>4. QueuePart'
  <2> SUFFICES ASSUME NEW n \in 1..Len(script), IsNew(n),
                      NEW p \in 1..Len(chain'), NEW q \in 1..Len(chain'),
                      RepliesTo(chain'[p], n), Speaks(chain'[q], n)
               PROVE  p < q
    BY <1>00 DEF QueuePart, RepliesTo, Speaks
  <2>0. chain \in Seq(Event)
    BY DEF ChainPart
  <2>1. CASE Dispatch
    <3>1. chain # <<>> /\ chain' = Tail(chain)
      BY <2>1 DEF Dispatch
    <3>2. /\ p + 1 \in 1..Len(chain) /\ chain'[p] = chain[p + 1]
          /\ q + 1 \in 1..Len(chain) /\ chain'[q] = chain[q + 1]
      BY <2>0, <3>1, TailFacts
    <3>3. p + 1 < q + 1
      BY <1>0, <3>2 DEF QueuePart
    <3> QED
      BY <3>3
  <2>2. CASE UNCHANGED chain
    BY <1>0, <2>2 DEF QueuePart
  <2>3. ASSUME NEW event \in Event, Queues(event), chain' = Append(chain, event)
        PROVE  p < q
    <3>1. /\ Len(chain') = Len(chain) + 1 /\ Len(chain) \in Nat
          /\ \A i \in 1..Len(chain) : chain'[i] = chain[i]
          /\ chain'[Len(chain) + 1] = event
      BY <2>0, <2>3, AppendFacts
    <3>2. p # q
      BY DEF RepliesTo, Speaks
    <3>3. CASE p \in 1..Len(chain) /\ q \in 1..Len(chain)
      BY <1>0, <3>1, <3>3 DEF QueuePart
    <3>4. CASE p \in 1..Len(chain) /\ q = Len(chain) + 1
      BY <3>4
    <3>5. CASE p = Len(chain) + 1 /\ q \in 1..Len(chain)
      <4>1. RepliesTo(event, n) /\ Speaks(chain[q], n)
        BY <3>1, <3>5
      <4>2. event = fromAgent[delivered + 1] /\ delivered + 1 \in (delivered + 1)..Len(fromAgent)
        BY <2>3, <4>1 DEF Queues, RepliesTo, AnswersOK
      <4>3. chain[q].n \in 1..sent /\ chain[q].n # n
            /\ script[chain[q].n].session = script[n].session
        BY <3>5, <4>1 DEF Speaks, ChainPart, WireOK
      <4>4. Granted(n)
        BY <1>0, <4>3 DEF SentPart
      <4> QED
        BY <4>1, <4>2, <4>4, GrantedIsDelivered
    <3> QED
      BY <3>1, <3>2, <3>3, <3>4, <3>5
  <2> QED
    BY <2>1, <2>2, <2>3, ChainMoves DEF Offered
<1> QED
  BY <1>1, <1>2, <1>3, <1>4

----------------------------------------------------------------------------
(* Shutdown.                                                               *)

LEMMA ExitInitially == ProxyInit => ExitOK
BY DEF ProxyInit, ExitOK

LEMMA ExitPreserved ==
  ASSUME WireOK, AnswersOK, ChainPart, WorkPart, FreshPart, LifeTypes, ExitOK,
         [ProxyNext]_proxyVars
  PROVE  ExitOK'
<1> USE DEF ExitOK
<1>1. CASE EndEach
  <2>1. PICK r \in ToEnd : /\ visited' = visited \cup {r}
                           /\ IF Live(r) THEN EndSession(r) ELSE UNCHANGED <<sessions, ends>>
    BY <1>1 DEF EndEach
  <2>2. r \in Sessions
    BY <2>1 DEF ToEnd
  <2>3. UNCHANGED <<chain, job, late, proxy>> /\ proxy = "ending"
    BY <1>1 DEF EndEach
  <2>4. \A s \in Sessions : ~Live(s) => ~Live(s)'
    BY <2>1, <2>2 DEF Live, EndSession, LifeTypes
  <2>5. ~Live(r)'
    BY <2>1, <2>2 DEF Live, EndSession, LifeTypes
  <2> QED
    BY <2>1, <2>2, <2>3, <2>4, <2>5
<1>2. CASE BeginShutdown
  BY <1>2 DEF BeginShutdown, engine
<1>4. CASE EndSettling
  <2>1. /\ late' = (late \/ chain # <<>> \/ job # Nil) /\ proxy' = "ending" /\ visited = {}
        /\ UNCHANGED <<chain, job, sessions, visited>>
    BY <1>4 DEF EndSettling, engine
  <2> QED
    BY <2>1
<1>5. CASE Exit
  <2>1. /\ ToEnd = {} /\ proxy = "ending" /\ proxy' = "exited"
        /\ UNCHANGED <<chain, job, sessions, visited, late>>
    BY <1>5 DEF Exit, engine
  <2>2. \A s : Live(s)' <=> Live(s)
    BY <2>1 DEF Live
  <2>3. ToEnd' = {}
    BY <2>1 DEF ToEnd
  <2> QED
    BY <2>1, <2>2, <2>3
<1>3. CASE ~ShutdownStep
  <2>1. UNCHANGED <<proxy, visited, late>>
    <3>1. CASE PumpStep
      BY <3>1, PumpMoves
    <3>2. CASE ~PumpStep
      BY <1>3, <3>2 DEF ProxyNext, proxyVars, exit, Send, HangUp, AgentAnswers, AgentEdits,
         AgentExits, HelperLetsGo, Says, Deliver, Dispatch, FinishRegister, BriefingLands
    <3> QED
      BY <3>1, <3>2
  <2>2. CASE proxy \in {"runs", "settling"}
    BY <2>1, <2>2
  <2>3. CASE proxy = "ending"
    <3>1. ASSUME ~late PROVE chain' = <<>> /\ job' = Nil /\ \A s \in visited : ~Live(s)'
      <4>1. chain = <<>> /\ job = Nil /\ \A s \in visited : ~Live(s)
        BY <2>3, <3>1
      <4>2. ~Dispatch /\ ~FinishRegister
        BY <4>1 DEF Dispatch, FinishRegister
      <4>3. chain' = chain
        <5>1. CASE PumpStep
          BY <2>3, <5>1, PumpMoves DEF Wrote, Held
        <5>2. CASE ~PumpStep
          BY <1>3, <2>3, <4>2, <5>2 DEF ProxyNext, proxyVars, Send, HangUp, AgentAnswers,
             AgentEdits,
             AgentExits, HelperLetsGo, Says, Deliver, BriefingLands
        <5> QED
          BY <5>1, <5>2
      <4>4. job' = job
        <5>1. CASE PumpStep
          BY <5>1, PumpMoves
        <5>2. CASE ~PumpStep
          BY <1>3, <4>2, <5>2 DEF ProxyNext, proxyVars, engine, Send, HangUp, AgentAnswers,
             AgentEdits, AgentExits, HelperLetsGo, Says, Deliver, BriefingLands
        <5> QED
          BY <5>1, <5>2
      <4>5. ASSUME NEW s \in visited PROVE ~Live(s)'
        <5>1. s \in Sessions /\ job # s
          BY <4>1, AcpProxyAssumption
        <5>2. sessions'[s].status = sessions[s].status
          BY <4>1, <4>2, <4>5, <5>1, StatusKept
        <5> QED
          BY <4>1, <5>2 DEF Live
      <4> QED
        BY <4>1, <4>3, <4>4, <4>5
    <3> QED
      BY <2>1, <2>3, <3>1
  <2>4. CASE proxy = "exited"
    <3>1. UNCHANGED <<chain, job, sessions>>
      <4>1. CASE PumpStep
        BY <2>4, <4>1 DEF PumpStep, TakeLine, DecideSetup, Settle, TakeBriefing, RecordBriefing,
           TellBriefing, DecideHint, Holding
      <4>2. CASE ~PumpStep
        BY <1>3, <2>4, <4>2 DEF ProxyNext, proxyVars, engine, Send, HangUp, AgentAnswers,
           AgentEdits, AgentExits, HelperLetsGo, Says, Deliver, Dispatch, FinishRegister,
           BriefingLands
      <4> QED
        BY <4>1, <4>2
    <3> QED
      BY <2>1, <2>4, <3>1 DEF Live, ToEnd
  <2> QED
    BY <2>2, <2>3, <2>4
<1> QED
  BY <1>1, <1>2, <1>3, <1>4, <1>5 DEF ShutdownStep

----------------------------------------------------------------------------
(* Edits and their capture.                                                *)

LEMMA CaptureInitially == ProxyInit => CaptureOK
BY DEF ProxyInit, CaptureOK, PendingOK, EditsOK, Standing

LEMMA ExcusedStay ==
  ASSUME [ProxyNext]_proxyVars
  PROVE  excused \subseteq excused'
<1>1. CASE PumpStep
  BY <1>1 DEF PumpStep, TakeLine, DecideSetup, Settle, TakeBriefing, RecordBriefing, TellBriefing,
     DecideHint, Forward, Offer
<1>2. CASE Dispatch
  BY <1>2 DEF Dispatch, DispatchRequest, DispatchAnswer, DispatchEdit
<1>3. CASE Deliver
  BY <1>3 DEF Deliver, Offer
<1>4. CASE ~(PumpStep \/ Dispatch \/ Deliver)
  BY <1>4 DEF ProxyNext, proxyVars, history, Send, HangUp, AgentAnswers, AgentEdits, AgentExits,
     HelperLetsGo,
     Says, FinishRegister, BriefingLands, ShutdownStep, BeginShutdown, EndSettling, EndEach, Exit
<1> QED
  BY <1>1, <1>2, <1>3, <1>4

LEMMA PendingPreserved ==
  ASSUME WireOK, AnswersOK, ChainPart, WorkPart, PendingOK, [ProxyNext]_proxyVars
  PROVE  PendingOK'
<1>0. script' = script /\ (\A n : IsNew(n)' <=> IsNew(n)) /\ chain \in Seq(Event)
      /\ excused \subseteq excused'
  BY ToAgentGrows, ExcusedStay DEF IsNew, ChainPart
<1> DEFINE Waits(n) ==
              \/ n \in pending
              \/ \E r \in 1..Len(chain) :
                    /\ chain[r].kind = "line" /\ chain[r].n = n
                    /\ \A p \in 1..Len(chain) : RepliesTo(chain[p], n) => r < p
           WaitsNext(n) ==
              \/ n \in pending'
              \/ \E r \in 1..Len(chain') :
                    /\ chain'[r].kind = "line" /\ chain'[r].n = n
                    /\ \A p \in 1..Len(chain') : RepliesTo(chain'[p], n) => r < p
<1> SUFFICES ASSUME NEW n \in 1..Len(toAgent'), IsNew(n), Undispatched(n)',
                    script[n].session \notin excused'
             PROVE  WaitsNext(n)
  BY <1>0 DEF PendingOK, RepliesTo
<1>1. n \in 1..Len(toAgent) => Waits(n)
  BY <1>0, UndispatchedBefore DEF PendingOK
<1>2. CASE Dispatch
  <2> DEFINE event == chain[1]
  <2>0. chain # <<>> /\ chain' = Tail(chain) /\ toAgent' = toAgent
    BY <1>2 DEF Dispatch, wire
  <2>1. /\ 1 \in 1..Len(chain) /\ Head(chain) = event /\ event \in Event
        /\ Len(chain) \in Nat /\ Len(chain') = Len(chain) - 1
        /\ \A p \in 1..Len(chain') : p + 1 \in 1..Len(chain) /\ chain'[p] = chain[p + 1]
    BY <1>0, <2>0, TailFacts
  <2>2. ~RepliesTo(event, n)
    BY <1>2, HeadIsDispatched
  <2>3. \/ event.kind = "line" /\ DispatchRequest(event.n)
        \/ event.kind = "answer" /\ pending' = pending \ {event.n}
        \/ pending' = pending /\ excused' = excused \cup {SessionOf(event)}
        \/ event.kind = "edit" /\ pending' = pending
    BY <1>2, <2>1 DEF Dispatch, DispatchAnswer, DispatchEdit, engine
  <2>4. CASE n \in pending
    <3>1. CASE event.kind = "line" /\ DispatchRequest(event.n)
      <4>1. \/ pending' = pending
            \/ /\ pending' = Put(event.n)
               /\ excused' = excused \cup {script[m].session : m \in Evicted(event.n)}
        BY <3>1 DEF DispatchRequest
      <4>2. CASE n \notin pending'
        <5>1. n \in Evicted(event.n) /\ excused' = excused \cup {script[m].session : m \in Evicted(event.n)}
          BY <2>4, <4>1, <4>2 DEF Evicted
        <5> QED
          BY <5>1
      <4> QED
        BY <4>2
    <3> QED
      BY <2>2, <2>3, <2>4, <3>1 DEF RepliesTo
  <2>5. ASSUME NEW r \in 1..Len(chain), chain[r].kind = "line", chain[r].n = n,
               \A p \in 1..Len(chain) : RepliesTo(chain[p], n) => r < p
        PROVE  WaitsNext(n)
    <3>1. CASE r = 1
      <4>1. event.kind = "line" /\ event.n = n
        BY <2>5, <3>1
      <4>2. ~(excused' = excused \cup {SessionOf(event)})
        BY <4>1 DEF SessionOf
      <4>3. DispatchRequest(n)
        BY <2>3, <4>1, <4>2
      <4>4. /\ pending' = Put(n)
            /\ excused' = excused \cup {script[m].session : m \in Evicted(n)}
        BY <4>3 DEF DispatchRequest, IsNew
      <4>5. n \in Put(n)
        <5> SUFFICES ASSUME n \notin Put(n) PROVE FALSE
          OBVIOUS
        <5>1. n \in Evicted(n)
          BY DEF Evicted
        <5>2. script[n].session \in excused'
          BY <4>4, <5>1
        <5> QED
          BY <5>2
      <4> QED
        BY <4>4, <4>5
    <3>2. CASE r # 1
      <4>1. r - 1 \in 1..Len(chain') /\ chain'[r - 1] = chain[(r - 1) + 1] /\ (r - 1) + 1 = r
        BY <2>1, <3>2
      <4>2. ASSUME NEW p \in 1..Len(chain'), RepliesTo(chain'[p], n) PROVE r - 1 < p
        <5>1. p + 1 \in 1..Len(chain) /\ RepliesTo(chain[p + 1], n)
          BY <2>1, <4>2
        <5>2. r < p + 1
          BY <2>5, <5>1
        <5> QED
          BY <5>2
      <4>3. /\ chain'[r - 1].kind = "line" /\ chain'[r - 1].n = n
            /\ \A p \in 1..Len(chain') : RepliesTo(chain'[p], n) => r - 1 < p
        BY <2>5, <4>1, <4>2
      <4> QED
        BY <4>1, <4>3
    <3> QED
      BY <3>1, <3>2
  <2> QED
    BY <1>1, <2>0, <2>4, <2>5
<1>3. CASE ~Dispatch
  <2>1. pending' = pending
    <3>1. CASE PumpStep
      BY <3>1, PumpMoves
    <3>2. CASE ~PumpStep
      BY <1>3, <3>2 DEF ProxyNext, proxyVars, engine, Send, HangUp, AgentAnswers, AgentEdits,
         AgentExits, HelperLetsGo, Says, Deliver, FinishRegister, BriefingLands, ShutdownStep,
         BeginShutdown,
         EndSettling, EndEach, EndSession, Exit
    <3> QED
      BY <3>1, <3>2
  <2>2. CASE n \in 1..Len(toAgent) /\ UNCHANGED chain
    BY <1>1, <2>1, <2>2
  <2>3. ASSUME NEW event \in Event, Queues(event), chain' = Append(chain, event)
        PROVE  WaitsNext(n)
    <3>1. /\ Len(chain') = Len(chain) + 1 /\ Len(chain) \in Nat
          /\ \A p \in 1..Len(chain) : chain'[p] = chain[p]
          /\ chain'[Len(chain) + 1] = event
      BY <1>0, <2>3, AppendFacts
    <3>2. CASE n \in 1..Len(toAgent)
      <4>1. ASSUME NEW r \in 1..Len(chain), chain[r].kind = "line", chain[r].n = n,
                   \A p \in 1..Len(chain) : RepliesTo(chain[p], n) => r < p
            PROVE  /\ r \in 1..Len(chain') /\ chain'[r].kind = "line" /\ chain'[r].n = n
                   /\ \A p \in 1..Len(chain') : RepliesTo(chain'[p], n) => r < p
        <5>1. ASSUME NEW p \in 1..Len(chain'), RepliesTo(chain'[p], n) PROVE r < p
          <6>1. CASE p \in 1..Len(chain)
            BY <3>1, <4>1, <5>1, <6>1
          <6>2. CASE p = Len(chain) + 1
            BY <3>1, <6>2
          <6> QED
            BY <3>1, <6>1, <6>2
        <5> QED
          BY <3>1, <4>1, <5>1
      <4>2. CASE n \in pending
        BY <2>1, <4>2
      <4>3. CASE n \notin pending
        <5>1. PICK r \in 1..Len(chain) :
                 /\ chain[r].kind = "line" /\ chain[r].n = n
                 /\ \A p \in 1..Len(chain) : RepliesTo(chain[p], n) => r < p
          BY <1>1, <3>2, <4>3
        <5>2. /\ r \in 1..Len(chain') /\ chain'[r].kind = "line" /\ chain'[r].n = n
              /\ \A p \in 1..Len(chain') : RepliesTo(chain'[p], n) => r < p
          BY <4>1, <5>1
        <5> QED
          BY <5>2
      <4> QED
        BY <4>2, <4>3
    <3>3. CASE n \notin 1..Len(toAgent)
      <4>1. Len(toAgent) \in Nat /\ ~Deliver
        BY <3>3 DEF Deliver, WireOK
      <4>2. event = [kind |-> "line", n |-> Len(toAgent) + 1] /\ n = Len(toAgent) + 1
        BY <2>3, <3>3, <4>1 DEF Queues
      <4>3. ASSUME NEW p \in 1..Len(chain'), RepliesTo(chain'[p], n) PROVE FALSE
        <5>1. p \in 1..Len(chain) /\ chain[p].kind = "answer" /\ chain[p].n = n
          BY <3>1, <4>2, <4>3 DEF RepliesTo
        <5>2. PICK k \in 1..delivered : fromAgent[k] = chain[p]
          BY <5>1 DEF ChainPart
        <5>3. n \in 1..Len(toAgent)
          BY <5>1, <5>2 DEF AnswersOK
        <5> QED
          BY <3>3, <5>3
      <4>4. /\ Len(chain) + 1 \in 1..Len(chain')
            /\ chain'[Len(chain) + 1].kind = "line" /\ chain'[Len(chain) + 1].n = n
        BY <3>1, <4>2
      <4> QED
        BY <4>3, <4>4
    <3> QED
      BY <3>2, <3>3
  <2>4. CASE n \notin 1..Len(toAgent) /\ chain' = chain
    <3>1. PumpStep
      <4> SUFFICES ASSUME ~PumpStep PROVE FALSE
        OBVIOUS
      <4>1. toAgent' = toAgent
        BY <1>3 DEF ProxyNext, proxyVars, wire, Send, HangUp, AgentAnswers, AgentEdits,
           AgentExits, HelperLetsGo,
           Says, Deliver, FinishRegister, BriefingLands, ShutdownStep, BeginShutdown,
           EndSettling, EndEach, Exit
      <4> QED
        BY <2>4, <4>1
    <3>2. PICK edit \in {"none", "mcp", "briefing", "hint"} : Wrote(edit)
      BY <2>4, <3>1, PumpMoves DEF Held
    <3>3. n = Len(toAgent) + 1
      BY <2>4, <3>2, WroteAppends
    <3>4. Offered([kind |-> "line", n |-> n])
      BY <3>2, <3>3 DEF Wrote
    <3>5. SessionOf([kind |-> "line", n |-> n]) = script[n].session
      BY DEF SessionOf
    <3>6. [kind |-> "line", n |-> n] \in Event
      BY <3>3 DEF Event, WireOK
    <3>7. chain' # Append(chain, [kind |-> "line", n |-> n])
      BY <1>0, <2>4, <3>6, AppendFacts
    <3> QED
      BY <3>4, <3>5, <3>7 DEF Offered
  <2> QED
    BY <1>3, <2>2, <2>3, <2>4, ChainMoves DEF Offered
<1> QED
  BY <1>2, <1>3

LEMMA EditsPreserved ==
  ASSUME WireOK, AnswersOK, EditsOK, [ProxyNext]_proxyVars
  PROVE  EditsOK'
<1> DEFINE Was(k, s) ==
              \E i \in 1..Len(toAgent) :
                 /\ script[i].session = s
                 /\ \/ script[i].method = "session/load"
                    \/ IsNew(i) /\ \E j \in 1..(k - 1) : Grants(fromAgent[j], i)
           Is(k, s) ==
              \E i \in 1..Len(toAgent') :
                 /\ script[i].session = s
                 /\ \/ script[i].method = "session/load"
                    \/ IsNew(i) /\ \E j \in 1..(k - 1) : Grants(fromAgent'[j], i)
<1>0. /\ script' = script /\ (\A n : IsNew(n)' <=> IsNew(n))
      /\ Len(toAgent) \in Nat /\ Len(toAgent') \in Nat /\ Len(toAgent) <= Len(toAgent')
  BY ToAgentGrows DEF IsNew
<1>1. /\ Len(fromAgent) \in Nat
      /\ \A k \in 1..Len(fromAgent) : fromAgent'[k] = fromAgent[k]
  BY FromAgentGrows
<1> SUFFICES ASSUME NEW k \in 1..Len(fromAgent'), fromAgent'[k].kind = "edit"
             PROVE  Is(k, fromAgent'[k].session)
  BY <1>0 DEF EditsOK, Grants, RepliesTo
<1>2. ASSUME k \in 1..(Len(fromAgent) + 1), NEW s, Was(k, s) PROVE Is(k, s)
  <2>1. \A j \in 1..(k - 1) : fromAgent'[j] = fromAgent[j]
    BY <1>1, <1>2
  <2> QED
    BY <1>0, <1>2, <2>1
<1>3. CASE k \in 1..Len(fromAgent)
  <2>1. fromAgent'[k] = fromAgent[k] /\ k \in 1..(Len(fromAgent) + 1)
    BY <1>1, <1>3
  <2>2. Was(k, fromAgent[k].session)
    BY <1>3, <2>1 DEF EditsOK
  <2> HIDE DEF Was, Is
  <2> QED
    BY <1>2, <2>1, <2>2
<1>4. CASE k \notin 1..Len(fromAgent)
  <2>1. AgentAnswers \/ AgentEdits
    <3> SUFFICES ASSUME ~(AgentAnswers \/ AgentEdits) PROVE FALSE
      OBVIOUS
    <3>1. fromAgent' = fromAgent
      BY AgentSideKept
    <3> QED
      BY <1>4, <3>1
  <2>2. PICK event \in Said : Spoke(event)
    BY <2>1, AgentSpeaks
  <2>3. fromAgent \in Seq(Said) /\ fromAgent' = Append(fromAgent, event)
    BY <2>2 DEF Spoke, AnswersOK
  <2>4. k = Len(fromAgent) + 1 /\ fromAgent'[k] = event
    BY <1>4, <2>3, AppendFacts
  <2>5. AgentEdits
    <3> SUFFICES ASSUME AgentAnswers PROVE FALSE
      BY <2>1
    <3>1. PICK n, ok, version :
             fromAgent' = Append(fromAgent, [kind |-> "answer", n |-> n, ok |-> ok,
             version |-> version])
      BY DEF AgentAnswers, Says
    <3>2. fromAgent'[k].kind = "answer"
      BY <1>1, <2>3, <2>4, <3>1
    <3> QED
      BY <3>2
  <2>6. PICK i \in 1..Len(toAgent) :
           LET n == toAgent[i].n
               l == script[n]
           IN  /\ \/ l.method = "session/load"
                  \/ l.method = "session/new" /\ \E j \in 1..Len(fromAgent) :
                        fromAgent[j].kind = "answer" /\ fromAgent[j].n = n /\ fromAgent[j].ok
               /\ Says([kind |-> "edit", session |-> l.session])
    BY <2>5 DEF AgentEdits
  <2>7. toAgent[i].n = i
    BY DEF WireOK, LinesKeepOrder
  <2>8. fromAgent' = Append(fromAgent, [kind |-> "edit", session |-> script[i].session])
    BY <2>6, <2>7 DEF Says
  <2>9. event.session = script[i].session
    BY <1>1, <2>3, <2>4, <2>8
  <2>10. Was(k, event.session)
    BY <2>4, <2>6, <2>7, <2>9 DEF IsNew, Grants, RepliesTo
  <2> QED
    BY <1>2, <2>4, <2>10
<1> QED
  BY <1>3, <1>4

StandsPart ==
    proxy \in {"runs", "settling"} => \A s \in Connected \ excused :
        Standing(s) /\ Opened(s) => WillStand(s, Len(chain) + 1)

DuePart ==
    proxy \in {"runs", "settling"} => \A s \in Connected \ excused :
        s \in due \ captured => \E p \in 1..Len(chain) :
            chain[p] = [kind |-> "edit", session |-> s] /\ WillStand(s, p)

LatePart ==
    proxy \in {"ending", "exited"} /\ ~late => due \cap Connected \subseteq captured \cup excused

LEMMA CaptureParts == CaptureOK <=> PendingOK /\ EditsOK /\ StandsPart /\ DuePart /\ LatePart
BY DEF CaptureOK, StandsPart, DuePart, LatePart

LEMMA StandingByPosition ==
  ASSUME WireOK, NEW s
  PROVE  Standing(s) <=>
            \E i \in 1..Len(toAgent) :
               /\ script[i].session = s /\ script[i].method \in Setup
               /\ \A j \in 1..Len(toAgent) :
                     script[j] = [method |-> "session/close", session |-> s] => j < i
BY DEF WireOK, LinesKeepOrder, Standing

\* Before shutdown comes to the sessions, a life ends only by an event.
LEMMA LifeContinues ==
  ASSUME WireOK, AnswersOK, ChainPart, WorkPart, FreshPart, LifeTypes, [ProxyNext]_proxyVars,
         ~Dispatch, proxy' \in {"runs", "settling"}, Connected \subseteq Sessions,
         NEW s \in Connected, s \notin excused', Live(s) \/ job = s
  PROVE  Live(s)' \/ job' = s
<1>0. ~EndEach
  BY DEF EndEach
<1>1. CASE FinishRegister
  BY <1>1, FinishMoves DEF Entered, Threw, Live, LifeTypes
<1>2. ASSUME NEW r \in Sessions, BriefingLands(r) PROVE Live(s)' \/ job' = s
  BY <1>2 DEF BriefingLands, Live, LifeTypes
<1>3. CASE PumpStep
  <2>1. job' = job
    BY <1>3, PumpMoves
  <2>2. sessions'[s].status = sessions[s].status
    BY <1>3 DEF PumpStep, TakeLine, DecideSetup, Settle, TakeBriefing, RecordBriefing,
       TellBriefing, DecideHint, Pumped, engine, SpendBriefing, LifeTypes
  <2> QED
    BY <2>1, <2>2 DEF Live
<1>4. CASE ~(FinishRegister \/ PumpStep \/ \E r \in Sessions : BriefingLands(r))
  <2>1. UNCHANGED <<sessions, job>>
    BY <1>0, <1>4 DEF ProxyNext, proxyVars, engine, Send, HangUp, AgentAnswers, AgentEdits,
       AgentExits, HelperLetsGo, Says, Deliver, ShutdownStep, BeginShutdown, EndSettling, Exit
  <2> QED
    BY <2>1 DEF Live
<1> QED
  BY <1>1, <1>2, <1>3, <1>4

LEMMA QueueKept ==
  ASSUME WireOK, AnswersOK, ChainPart, [ProxyNext]_proxyVars, ~Dispatch
  PROVE  /\ Len(chain) \in Nat /\ Len(chain') \in Nat /\ Len(chain) <= Len(chain')
         /\ \A p \in 1..Len(chain) : chain'[p] = chain[p]
<1>1. ASSUME NEW event \in Event, Offered(event)
      PROVE  /\ Len(chain) \in Nat /\ Len(chain') \in Nat /\ Len(chain) <= Len(chain')
             /\ \A p \in 1..Len(chain) : chain'[p] = chain[p]
  BY <1>1, AppendFacts DEF Offered, ChainPart
<1> QED
  BY <1>1, ChainMoves DEF ChainPart

LEMMA WillStandKept ==
  ASSUME WireOK, AnswersOK, ChainPart, WorkPart, FreshPart, LifeTypes, [ProxyNext]_proxyVars,
         ~Dispatch, proxy' \in {"runs", "settling"}, Connected \subseteq Sessions,
         NEW s \in Connected, s \notin excused', NEW p \in 1..(Len(chain) + 1), WillStand(s, p)
  PROVE  WillStand(s, p)'
<1>1. script' = script
  BY ToAgentGrows
<1>2. Len(chain) \in Nat /\ \A q \in 1..(p - 1) : q \in 1..Len(chain) /\ chain'[q] = chain[q]
  BY QueueKept
<1>3. \A q \in 1..(p - 1) : /\ Opens(chain[q], s) => Opens(chain[q], s)'
                            /\ Closes(chain[q], s)' => Closes(chain[q], s)
  BY <1>1, <1>2 DEF Opens, Closes
<1>4. CASE \E q \in 1..(p - 1) :
              Opens(chain[q], s) /\ \A r \in (q + 1)..(p - 1) : ~Closes(chain[r], s)
  <2>1. PICK q \in 1..(p - 1) :
           Opens(chain[q], s) /\ \A r \in (q + 1)..(p - 1) : ~Closes(chain[r], s)
    BY <1>4
  <2>2. Opens(chain[q], s)' /\ \A r \in (q + 1)..(p - 1) : ~Closes(chain[r], s)'
    BY <1>3, <2>1
  <2> QED
    BY <2>2 DEF WillStand
<1>5. CASE (Live(s) \/ job = s) /\ \A r \in 1..(p - 1) : ~Closes(chain[r], s)
  <2>1. Live(s)' \/ job' = s
    BY <1>5, LifeContinues
  <2>2. \A r \in 1..(p - 1) : ~Closes(chain[r], s)'
    BY <1>3, <1>5
  <2> QED
    BY <2>1, <2>2 DEF WillStand
<1> QED
  BY <1>4, <1>5 DEF WillStand

\* An event that opens a session is heeded, unless it was lost.
LEMMA OpensIsHeeded ==
  ASSUME WireOK, AnswersOK, ChainPart, WorkPart, PendingOK, LifeTypes, Dispatch,
         NEW s \in Sessions, s \notin excused, s \notin excused', Opens(chain[1], s)
  PROVE  Live(s)' \/ job' = s
<1> DEFINE event == chain[1]
<1>0. /\ 1 \in 1..Len(chain) /\ Head(chain) = event /\ event \in Event
  BY TailFacts DEF ChainPart, Dispatch
<1>1. script[event.n].session = s /\ event.kind # "edit"
  BY DEF Opens
<1>2. ~(excused' = excused \cup {SessionOf(event)})
  BY <1>1 DEF SessionOf
<1>3. CASE event.kind = "line"
  <2>1. script[event.n] = [method |-> "session/load", session |-> s]
    BY <1>3 DEF Opens
  <2>2. DispatchRequest(event.n)
    BY <1>0, <1>2, <1>3 DEF Dispatch
  <2>3. CASE LoadRegisters(s)
    BY <2>1, <2>2, <2>3 DEF DispatchRequest, StartRegister
  <2>4. CASE ~LoadRegisters(s)
    <3>1. Live(s)
      BY <2>4 DEF LoadRegisters, LifeTypes, Live
    <3>2. sessions' = sessions
      BY <2>1, <2>2 DEF DispatchRequest
    <3> QED
      BY <3>1, <3>2 DEF Live
  <2> QED
    BY <2>3, <2>4
<1>4. CASE event.kind = "answer"
  <2> DEFINE n == event.n
  <2>1. event.ok /\ script[n] = [method |-> "session/new", session |-> s]
    BY <1>4 DEF Opens
  <2>2. DispatchAnswer(event)
    BY <1>0, <1>2, <1>4 DEF Dispatch
  <2>3. RepliesTo(event, n)
    BY <1>4 DEF RepliesTo
  <2>4. PICK k \in 1..delivered : fromAgent[k] = event
    BY <1>0, <1>4 DEF ChainPart
  <2>5. n \in 1..Len(toAgent)
    BY <1>4, <2>4 DEF AnswersOK
  <2>6. Undispatched(n)
    BY <1>0, <2>3 DEF Undispatched
  <2>7. ~\E r \in 1..Len(chain) : \A p \in 1..Len(chain) : RepliesTo(chain[p], n) => r < p
    <3> SUFFICES ASSUME NEW r \in 1..Len(chain),
                        \A p \in 1..Len(chain) : RepliesTo(chain[p], n) => r < p
                 PROVE  FALSE
      OBVIOUS
    <3>1. r < 1
      BY <1>0, <2>3
    <3> QED
      BY <3>1 DEF ChainPart
  <2>8. n \in pending
    <3>1. IsNew(n) /\ script[n].session \notin excused
      BY <2>1 DEF IsNew
    <3>2. n \in pending \/ \E r \in 1..Len(chain) :
                              \A p \in 1..Len(chain) : RepliesTo(chain[p], n) => r < p
      BY <2>5, <2>6, <3>1 DEF PendingOK
    <3> QED
      BY <2>7, <3>2
  <2> QED
    BY <2>1, <2>2, <2>8 DEF DispatchAnswer, StartRegister
<1> QED
  BY <1>1, <1>3, <1>4 DEF Opens

LEMMA WillStandShifts ==
  ASSUME WireOK, AnswersOK, ChainPart, WorkPart, FreshPart, PendingOK, LifeTypes, Dispatch,
         Connected \subseteq Sessions, NEW s \in Connected, s \notin excused, s \notin excused',
         NEW p \in 1..Len(chain), WillStand(s, p + 1)
  PROVE  WillStand(s, p)'
<1>0. chain \in Seq(Event) /\ chain # <<>> /\ chain' = Tail(chain) /\ script' = script /\ job = Nil
  BY DEF Dispatch, ChainPart, wire
<1>1. /\ Len(chain) \in Nat /\ Len(chain') = Len(chain) - 1
      /\ \A q \in 1..Len(chain') : q + 1 \in 1..Len(chain) /\ chain'[q] = chain[q + 1]
  BY <1>0, TailFacts
<1>2. \A q \in 1..(p - 1) : q \in 1..Len(chain')
  BY <1>1
<1>3. ASSUME NEW q \in 1..(p - 1)
      PROVE  /\ Opens(chain[q + 1], s) => Opens(chain[q], s)'
             /\ Closes(chain[q], s)' => Closes(chain[q + 1], s)
  BY <1>0, <1>1, <1>2 DEF Opens, Closes
<1>4. ASSUME Live(s)' \/ job' = s, \A r \in 2..p : ~Closes(chain[r], s) PROVE WillStand(s, p)'
  <2>1. \A r \in 1..(p - 1) : ~Closes(chain[r], s)'
    <3> SUFFICES ASSUME NEW r \in 1..(p - 1) PROVE ~Closes(chain[r], s)'
      OBVIOUS
    <3>1. r + 1 \in 2..p
      OBVIOUS
    <3> QED
      BY <1>3, <1>4, <3>1
  <2> QED
    BY <1>4, <2>1 DEF WillStand
<1>5. CASE \E q \in 1..p : Opens(chain[q], s) /\ \A r \in (q + 1)..p : ~Closes(chain[r], s)
  <2>1. PICK q \in 1..p : Opens(chain[q], s) /\ \A r \in (q + 1)..p : ~Closes(chain[r], s)
    BY <1>5
  <2>2. CASE q = 1
    <3>1. Live(s)' \/ job' = s
      BY <2>1, <2>2, OpensIsHeeded
    <3> QED
      BY <1>4, <2>1, <2>2, <3>1
  <2>3. CASE q # 1
    <3>1. q - 1 \in 1..(p - 1) /\ (q - 1) + 1 = q
      BY <2>3
    <3>2. Opens(chain[q - 1], s)'
      BY <1>3, <2>1, <3>1
    <3>3. ASSUME NEW r \in ((q - 1) + 1)..(p - 1) PROVE ~Closes(chain[r], s)'
      <4>1. r \in 1..(p - 1) /\ r + 1 \in (q + 1)..p
        BY <3>1
      <4> QED
        BY <1>3, <2>1, <4>1
    <3> QED
      BY <3>1, <3>2, <3>3 DEF WillStand
  <2> QED
    BY <2>2, <2>3
<1>6. CASE (Live(s) \/ job = s) /\ \A r \in 1..p : ~Closes(chain[r], s)
  <2>1. Live(s) /\ ~Closes(chain[1], s)
    BY <1>0, <1>6, AcpProxyAssumption
  <2>2. Live(s)'
    <3>1. CASE UNCHANGED sessions
      BY <2>1, <3>1 DEF Live
    <3>2. ASSUME NEW r \in Sessions, Closes(chain[1], r), EndSession(r) PROVE Live(s)'
      <4>1. r # s
        BY <2>1, <3>2
      <4> QED
        BY <2>1, <3>2, <4>1 DEF EndSession, Live, LifeTypes
    <3> QED
      BY <3>1, <3>2, DispatchMoves
  <2> QED
    BY <1>4, <1>6, <2>2
<1>7. (p + 1) - 1 = p
  OBVIOUS
<1> QED
  BY <1>5, <1>6, <1>7 DEF WillStand

LEMMA WillStandPast ==
  ASSUME NEW s, NEW p \in Nat \ {0}, WillStand(s, p)', ~Closes(chain[p], s)'
  PROVE  WillStand(s, p + 1)'
<1>1. CASE \E q \in 1..(p - 1) :
              Opens(chain[q], s)' /\ \A r \in (q + 1)..(p - 1) : ~Closes(chain[r], s)'
  <2>1. PICK q \in 1..(p - 1) :
           Opens(chain[q], s)' /\ \A r \in (q + 1)..(p - 1) : ~Closes(chain[r], s)'
    BY <1>1
  <2>2. q \in 1..((p + 1) - 1) /\ \A r \in (q + 1)..((p + 1) - 1) : ~Closes(chain[r], s)'
    <3> SUFFICES ASSUME NEW r \in (q + 1)..((p + 1) - 1) PROVE ~Closes(chain[r], s)'
      OBVIOUS
    <3>1. r = p \/ r \in (q + 1)..(p - 1)
      OBVIOUS
    <3> QED
      BY <2>1, <3>1
  <2> QED
    BY <2>1, <2>2 DEF WillStand
<1>2. CASE (Live(s) \/ job = s)' /\ \A r \in 1..(p - 1) : ~Closes(chain[r], s)'
  <2>1. \A r \in 1..((p + 1) - 1) : ~Closes(chain[r], s)'
    <3> SUFFICES ASSUME NEW r \in 1..((p + 1) - 1) PROVE ~Closes(chain[r], s)'
      OBVIOUS
    <3>1. r = p \/ r \in 1..(p - 1)
      OBVIOUS
    <3> QED
      BY <1>2, <3>1
  <2> QED
    BY <1>2, <2>1 DEF WillStand
<1> QED
  BY <1>1, <1>2 DEF WillStand

LEMMA WillStandOpened ==
  ASSUME NEW s, NEW p \in Nat \ {0}, Opens(chain[p], s)'
  PROVE  WillStand(s, p + 1)'
<1>1. p \in 1..((p + 1) - 1) /\ \A r \in (p + 1)..((p + 1) - 1) : ~Closes(chain[r], s)'
  OBVIOUS
<1> QED
  BY <1>1 DEF WillStand

LEMMA ProxyMoves ==
  ASSUME WireOK, [ProxyNext]_proxyVars, proxy' \in {"runs", "settling"}
  PROVE  proxy \in {"runs", "settling"}
<1>1. CASE PumpStep
  BY <1>1, PumpMoves
<1>2. CASE ~PumpStep
  BY <1>2 DEF ProxyNext, proxyVars, exit, Send, HangUp, AgentAnswers, AgentEdits, AgentExits,
     HelperLetsGo,
     Says, Deliver, Dispatch, FinishRegister, BriefingLands, ShutdownStep, BeginShutdown,
     EndSettling, EndEach, Exit
<1> QED
  BY <1>1, <1>2

\* What still has to be shown of a step that queues something more.
LEMMA StandsOn ==
  ASSUME WireOK, AnswersOK, ChainPart, WorkPart, FreshPart, LifeTypes, [ProxyNext]_proxyVars,
         ~Dispatch, proxy' \in {"runs", "settling"}, Connected \subseteq Sessions,
         NEW s \in Connected, s \notin excused', WillStand(s, Len(chain) + 1),
         NEW event \in Event, ~Closes(event, s), chain' = chain \/ chain' = Append(chain, event)
  PROVE  WillStand(s, Len(chain) + 1)'
<1>1. PICK p \in Nat : p = Len(chain)
  BY QueueKept
<1>2. WillStand(s, p + 1)'
  BY <1>1, WillStandKept
<1>3. CASE chain' = chain
  BY <1>1, <1>2, <1>3
<1>4. CASE chain' = Append(chain, event)
  <2>1. Len(chain') = p + 1 /\ chain'[p + 1] = event
    BY <1>1, <1>4, AppendFacts DEF ChainPart
  <2>2. ~Closes(chain[p + 1], s)'
    BY <2>1, ToAgentGrows DEF Closes
  <2>3. WillStand(s, (p + 1) + 1)'
    BY <1>2, <2>2, WillStandPast
  <2> QED
    BY <2>1, <2>3
<1> QED
  BY <1>3, <1>4

LEMMA StandsPreserved ==
  ASSUME WireOK, AnswersOK, ChainPart, WorkPart, FreshPart, LifeTypes, PendingOK, StandsPart,
         [ProxyNext]_proxyVars
  PROVE  StandsPart'
<1>0. /\ script' = script /\ (\A n : IsNew(n)' <=> IsNew(n)) /\ WireOK'
      /\ Connected \subseteq Sessions /\ chain \in Seq(Event) /\ Len(toAgent) \in Nat
  BY ToAgentGrows, WirePreserved, AcpProxyAssumption DEF IsNew, ChainPart
<1> SUFFICES ASSUME proxy' \in {"runs", "settling"}, NEW s \in Connected, s \notin excused',
                    Standing(s)', Opened(s)'
             PROVE  WillStand(s, Len(chain) + 1)'
  BY DEF StandsPart
<1>1. s \notin excused /\ proxy \in {"runs", "settling"}
  BY ProxyMoves, ExcusedStay
<1>2. ASSUME Standing(s), Opened(s) PROVE WillStand(s, Len(chain) + 1)
  BY <1>1, <1>2 DEF StandsPart
<1>3. CASE Dispatch
  <2>1. UNCHANGED <<toAgent, fromAgent, delivered>> /\ chain # <<>> /\ chain' = Tail(chain)
    BY <1>3 DEF Dispatch, wire
  <2>2. Standing(s) /\ Opened(s)
    BY <1>0, <2>1 DEF Standing, Opened, Granted, Grants, RepliesTo
  <2>3. PICK p \in 1..Len(chain) : p = Len(chain)
    BY <1>0, <2>1, TailFacts
  <2>4. WillStand(s, p)'
    BY <1>0, <1>1, <1>2, <1>3, <2>2, <2>3, WillStandShifts
  <2>5. Len(chain') + 1 = p
    BY <1>0, <2>1, <2>3, TailFacts
  <2> QED
    BY <2>4, <2>5
<1>4. CASE PumpStep /\ ~Dispatch /\ \E edit \in {"none", "mcp", "briefing", "hint"} : Wrote(edit)
  <2> DEFINE n == Len(toAgent) + 1
             e == [kind |-> "line", n |-> n]
             l == script[n]
  <2>0. PICK edit \in {"none", "mcp", "briefing", "hint"} : Wrote(edit)
    BY <1>4
  <2>1. UNCHANGED <<fromAgent, delivered, answered>> /\ n <= sent
    BY <1>4, PumpMoves
  <2>2. Len(toAgent') = n /\ n \in 1..Len(script)
    BY <2>0, <2>1, WroteAppends DEF WireOK
  <2>3. l \in Line /\ e \in Event
    BY <1>0, <2>2 DEF WireOK, Event
  <2>4. Offered(e) /\ SessionOf(e) = l.session
    BY <2>0 DEF Wrote, SessionOf
  <2>5. PICK i \in 1..n :
           /\ script[i].session = s /\ script[i].method \in Setup
           /\ \A j \in 1..n : script[j] = [method |-> "session/close", session |-> s] => j < i
    <3> DEFINE Stood == \E i \in 1..Len(toAgent') :
                   /\ script'[i].session = s /\ script'[i].method \in Setup
                   /\ \A j \in 1..Len(toAgent') :
                         script'[j] = [method |-> "session/close", session |-> s] => j < i
    <3>1. Stood
      BY <1>0 DEF WireOK, LinesKeepOrder, Standing
    <3> QED
      BY <1>0, <2>2, <3>1
  <2>6. PICK k \in 1..n : script[k].session = s /\
           (script[k].method = "session/load" \/ (IsNew(k) /\ Granted(k)))
    <3>1. PICK k \in 1..Len(toAgent') : script'[k].session = s /\
             (script'[k].method = "session/load" \/ (IsNew(k)' /\ Granted(k)'))
      BY DEF Opened
    <3>2. Granted(k)' => Granted(k)
      BY <2>1 DEF Granted, Grants, RepliesTo
    <3> QED
      BY <1>0, <2>2, <3>1, <3>2
  <2>7. l # [method |-> "session/close", session |-> s]
    BY <2>2, <2>5
  <2>8. ~Closes(e, s)
    BY <2>7 DEF Closes
  <2>9. CASE l = [method |-> "session/load", session |-> s]
    <3>1. chain' = Append(chain, e)
      BY <1>1, <2>4, <2>9 DEF Offered
    <3>2. PICK p \in Nat : p = Len(chain)
      BY QueueKept, <1>4
    <3>3. Len(chain') = p + 1 /\ chain'[p + 1] = e
      BY <1>0, <2>3, <3>1, <3>2, AppendFacts
    <3>4. Opens(chain[p + 1], s)'
      BY <1>0, <2>9, <3>3 DEF Opens
    <3>5. WillStand(s, (p + 1) + 1)'
      <4>1. p + 1 \in Nat \ {0}
        BY <3>2
      <4> QED
        BY <3>4, <4>1, WillStandOpened, Zenon
    <3> QED
      BY <3>3, <3>5
  <2>10. CASE l = [method |-> "session/new", session |-> s]
    <3>1. IsNew(n) /\ l.session = s
      BY <2>10 DEF IsNew
    <3>2. k = n
      <4>1. k \in 1..Len(script)
        BY <2>2
      <4>2. k = n \/ (n < k /\ script[k].method # "session/new")
        BY <2>2, <2>6, <3>1, <4>1 DEF WireOK, HandsOutNew, IsNew
      <4> QED
        BY <2>2, <4>2
    <3>3. Granted(n)
      BY <2>6, <2>10, <3>2
    <3>4. n \in 1..Len(toAgent)
      BY <3>3 DEF Granted, Grants, RepliesTo, AnswersOK
    <3> QED
      BY <1>0, <3>4
  <2>11. CASE ~(l.session = s /\ l.method \in Setup)
    <3>1. i # n /\ k # n
      BY <2>5, <2>6, <2>11 DEF Setup, IsNew
    <3>2. i \in 1..Len(toAgent) /\ k \in 1..Len(toAgent)
      BY <1>0, <3>1
    <3>3. Standing(s)
      <4>1. \A j \in 1..Len(toAgent) :
                script[j] = [method |-> "session/close", session |-> s] => j < i
        BY <1>0, <2>5
      <4> QED
        BY <2>5, <3>2, <4>1, StandingByPosition
    <3>4. Opened(s)
      BY <2>6, <3>2 DEF Opened
    <3>5. WillStand(s, Len(chain) + 1)
      BY <1>2, <3>3, <3>4
    <3>6. chain' = chain \/ chain' = Append(chain, e)
      BY <2>4 DEF Offered
    <3> QED
      BY <1>0, <1>4, <2>3, <2>8, <3>5, <3>6, StandsOn
  <2>12. l.session = s /\ l.method \in Setup =>
            l = [method |-> "session/load", session |-> s] \/ l = [method |-> "session/new",
            session |-> s]
    BY <2>3 DEF Line, Setup
  <2> QED
    BY <2>9, <2>10, <2>11, <2>12
<1>5. CASE Deliver /\ ~Dispatch
  <2> DEFINE d == delivered + 1
             event == fromAgent[d]
  <2>1. /\ UNCHANGED <<toAgent, fromAgent>> /\ delivered' = d /\ d \in 1..Len(fromAgent)
        /\ delivered \in Nat
    BY <1>5 DEF Deliver, AnswersOK
  <2>2. event \in Event /\ event.kind # "line"
    BY <2>1 DEF AnswersOK, Event, Said
  <2>3. Offered(event)
    BY <1>5, OfferIsOffered DEF Deliver
  <2>4. Standing(s)
    BY <1>0, <2>1 DEF Standing
  <2>5. CASE Opened(s)
    <3>1. ~Closes(event, s)
      BY <2>2 DEF Closes
    <3>2. chain' = chain \/ chain' = Append(chain, event)
      BY <2>3 DEF Offered
    <3> QED
      BY <1>0, <1>2, <1>5, <2>2, <2>4, <2>5, <3>1, <3>2, StandsOn
  <2>6. CASE ~Opened(s)
    <3>1. PICK k \in 1..Len(toAgent) : /\ script[k].session = s
                                       /\ IsNew(k) /\ Granted(k)' /\ ~Granted(k)
      BY <1>0, <2>1, <2>6 DEF Opened
    <3>2. Grants(event, k)
      BY <2>1, <3>1 DEF Granted, Grants, RepliesTo
    <3>3. script[k] = [method |-> "session/new", session |-> s]
      BY <3>1, NewIsLine DEF WireOK
    <3>4. Opens(event, s) /\ SessionOf(event) = s
      BY <3>1, <3>2, <3>3 DEF Opens, SessionOf, Grants, RepliesTo
    <3>5. chain' = Append(chain, event)
      BY <2>3, <3>4 DEF Offered
    <3>6. PICK p \in Nat : p = Len(chain)
      BY QueueKept, <1>5
    <3>7. Len(chain') = p + 1 /\ chain'[p + 1] = event
      BY <1>0, <2>2, <3>5, <3>6, AppendFacts
    <3>8. Opens(chain[p + 1], s)'
      BY <1>0, <3>4, <3>7 DEF Opens
    <3>9. WillStand(s, (p + 1) + 1)'
      <4>1. p + 1 \in Nat \ {0}
        BY <3>6
      <4> QED
        BY <3>8, <4>1, WillStandOpened, Zenon
    <3> QED
      BY <3>7, <3>9
  <2> QED
    BY <2>5, <2>6
<1>6. CASE /\ ~(Dispatch \/ Deliver)
           /\ ~(PumpStep /\ \E edit \in {"none", "mcp", "briefing", "hint"} : Wrote(edit))
  <2>1. UNCHANGED <<toAgent, chain, delivered>>
    <3>1. CASE PumpStep
      BY <1>6, <3>1, PumpMoves DEF Held
    <3>2. CASE ~PumpStep
      BY <1>6, <3>2 DEF ProxyNext, proxyVars, wire, Send, HangUp, AgentAnswers, AgentEdits,
         AgentExits, HelperLetsGo,
         Says, FinishRegister, BriefingLands, ShutdownStep, BeginShutdown,
         EndSettling, EndEach, Exit
    <3> QED
      BY <3>1, <3>2
  <2>2. \A k \in 1..delivered : fromAgent'[k] = fromAgent[k]
    BY FromAgentGrows DEF AnswersOK
  <2>3. \A n : Granted(n)' => Granted(n)
    BY <2>1, <2>2 DEF Granted, Grants, RepliesTo
  <2>4. Standing(s) /\ Opened(s)
    BY <1>0, <2>1, <2>3 DEF Standing, Opened
  <2>5. PICK p \in Nat : p = Len(chain)
    BY QueueKept, <1>6
  <2>6. WillStand(s, p + 1)'
    BY <1>0, <1>2, <1>6, <2>4, <2>5, WillStandKept
  <2> QED
    BY <2>1, <2>5, <2>6
<1> QED
  BY <1>3, <1>4, <1>5, <1>6

LEMMA CapturedStay ==
  ASSUME [ProxyNext]_proxyVars
  PROVE  captured \subseteq captured'
<1>1. CASE PumpStep
  BY <1>1 DEF PumpStep, TakeLine, DecideSetup, Settle, TakeBriefing, RecordBriefing, TellBriefing,
     DecideHint, Pumped
<1>2. CASE Dispatch
  BY <1>2 DEF Dispatch, DispatchRequest, DispatchAnswer, DispatchEdit
<1>3. CASE ~(PumpStep \/ Dispatch)
  BY <1>3 DEF ProxyNext, proxyVars, history, Send, HangUp, AgentAnswers, AgentEdits, AgentExits,
     HelperLetsGo,
     Says, Deliver, FinishRegister, BriefingLands, ShutdownStep, BeginShutdown, EndSettling,
     EndEach, Exit
<1> QED
  BY <1>1, <1>2, <1>3

LEMMA DueKept ==
  ASSUME WireOK, [ProxyNext]_proxyVars, ~Deliver
  PROVE  due' = due
<1>1. CASE PumpStep
  BY <1>1, PumpMoves
<1>2. CASE ~PumpStep
  BY <1>2 DEF ProxyNext, proxyVars, history, Send, HangUp, AgentAnswers, AgentEdits, AgentExits,
     HelperLetsGo,
     Says, Dispatch, FinishRegister, BriefingLands, ShutdownStep, BeginShutdown, EndSettling,
     EndEach, Exit
<1> QED
  BY <1>1, <1>2

LEMMA DuePreserved ==
  ASSUME WireOK, AnswersOK, ChainPart, WorkPart, FreshPart, LifeTypes, PendingOK, EditsOK,
         StandsPart, DuePart, [ProxyNext]_proxyVars
  PROVE  DuePart'
<1>0. script' = script /\ Connected \subseteq Sessions /\ chain \in Seq(Event)
  BY ToAgentGrows, AcpProxyAssumption DEF ChainPart
<1> SUFFICES ASSUME proxy' \in {"runs", "settling"}, NEW s \in Connected, s \notin excused',
                    s \in due', s \notin captured'
             PROVE  \E p \in 1..Len(chain') :
                       chain'[p] = [kind |-> "edit", session |-> s] /\ WillStand(s, p)'
  BY DEF DuePart
<1>1. s \notin excused /\ s \notin captured /\ proxy \in {"runs", "settling"}
  BY ProxyMoves, ExcusedStay, CapturedStay
<1>2. ASSUME s \in due
      PROVE  \E p \in 1..Len(chain) :
                chain[p] = [kind |-> "edit", session |-> s] /\ WillStand(s, p)
  BY <1>1, <1>2 DEF DuePart
<1>3. CASE Dispatch
  <2>1. s \in due /\ chain # <<>> /\ chain' = Tail(chain) /\ job = Nil
    BY <1>3, DueKept DEF Dispatch
  <2>2. PICK p \in 1..Len(chain) :
           chain[p] = [kind |-> "edit", session |-> s] /\ WillStand(s, p)
    BY <1>2, <2>1
  <2>3. /\ Head(chain) = chain[1] /\ Len(chain) \in Nat /\ Len(chain') = Len(chain) - 1
        /\ \A i \in 1..(Len(chain) - 1) : chain'[i] = chain[i + 1]
    BY <1>0, <2>1, TailFacts
  <2>4. CASE p = 1
    <3>1. Live(s)
      BY <2>1, <2>2, <2>4, AcpProxyAssumption DEF WillStand
    <3>2. \/ DispatchEdit(s)
          \/ excused' = excused \cup {s}
      BY <1>3, <2>2, <2>3, <2>4 DEF Dispatch, SessionOf
    <3> QED
      BY <3>1, <3>2 DEF DispatchEdit
  <2>5. CASE p # 1
    <3>1. PICK r \in Nat : p = r + 1
      <4>1. p - 1 \in Nat /\ p = (p - 1) + 1
        BY <2>3
      <4> QED
        BY <4>1
    <3>2. r \in 1..Len(chain) /\ r \in 1..Len(chain') /\ chain'[r] = chain[p]
      BY <2>3, <2>5, <3>1
    <3>3. WillStand(s, r)'
      BY <1>0, <1>1, <1>3, <2>2, <3>1, <3>2, WillStandShifts
    <3> QED
      BY <2>2, <3>2, <3>3
  <2> QED
    BY <2>4, <2>5
<1>4. CASE ~Dispatch
  <2>1. /\ Len(chain) \in Nat /\ Len(chain') \in Nat /\ Len(chain) <= Len(chain')
        /\ \A p \in 1..Len(chain) : chain'[p] = chain[p]
    BY <1>4, QueueKept
  <2>2. CASE s \in due
    <3>1. PICK p \in 1..Len(chain) :
             chain[p] = [kind |-> "edit", session |-> s] /\ WillStand(s, p)
      BY <1>2, <2>2
    <3>2. p \in 1..(Len(chain) + 1) /\ p \in 1..Len(chain') /\ chain'[p] = chain[p]
      BY <2>1
    <3>3. WillStand(s, p)'
      BY <1>0, <1>4, <3>1, <3>2, WillStandKept
    <3> QED
      BY <3>1, <3>2, <3>3
  <2>3. CASE s \notin due
    <3> DEFINE d == delivered + 1
               event == fromAgent[d]
    <3>1. Deliver
      BY <2>3, DueKept
    <3>2. d \in 1..Len(fromAgent) /\ event \in Event /\ event \in Said
      BY <3>1 DEF Deliver, AnswersOK, Event
    <3>3. event.kind = "edit" /\ Standing(s) /\ event.session = s
      BY <2>3, <3>1 DEF Deliver
    <3>4. event = [kind |-> "edit", session |-> s]
      BY <3>2, <3>3 DEF Said
    <3>5. Opened(s)
      <4>1. PICK i \in 1..Len(toAgent) :
               /\ script[i].session = s
               /\ \/ script[i].method = "session/load"
                  \/ IsNew(i) /\ \E j \in 1..(d - 1) : Grants(fromAgent[j], i)
        BY <3>2, <3>3 DEF EditsOK
      <4>2. d - 1 = delivered
        BY DEF AnswersOK
      <4> QED
        BY <4>1, <4>2 DEF Opened, Granted
    <3>6. PICK p \in Nat : p = Len(chain) + 1
      BY <2>1
    <3>7. WillStand(s, p)
      BY <1>1, <3>3, <3>5, <3>6 DEF StandsPart
    <3>8. WillStand(s, p)'
      BY <1>0, <1>4, <2>1, <3>6, <3>7, WillStandKept
    <3>9. chain' = Append(chain, event)
      BY <3>1, <3>3, OfferIsOffered DEF Deliver, Offered, SessionOf
    <3>10. p \in 1..Len(chain') /\ chain'[p] = event
      BY <1>0, <3>2, <3>6, <3>9, AppendFacts
    <3> QED
      BY <3>4, <3>8, <3>10
  <2> QED
    BY <2>2, <2>3
<1> QED
  BY <1>3, <1>4

LEMMA LatePreserved ==
  ASSUME WireOK, ExitOK, DuePart, LatePart, ChainPart, [ProxyNext]_proxyVars
  PROVE  LatePart'
<1>0. excused \subseteq excused' /\ captured \subseteq captured'
  BY ExcusedStay, CapturedStay
<1>1. CASE EndSettling
  <2>1. /\ late' = (late \/ chain # <<>> \/ job # Nil) /\ proxy = "settling"
        /\ UNCHANGED <<due, captured, excused>>
    BY <1>1 DEF EndSettling, history
  <2>2. ASSUME ~late' PROVE due \cap Connected \subseteq captured \cup excused
    <3>1. chain = <<>>
      BY <2>1, <2>2
    <3>2. 1..Len(chain) = {}
      BY <3>1
    <3> QED
      BY <2>1, <3>2 DEF DuePart
  <2> QED
    BY <2>1, <2>2 DEF LatePart
<1>2. CASE ~EndSettling
  <2>1. proxy' \in {"ending", "exited"} => proxy \in {"ending", "exited"} /\ late' = late
    <3>1. CASE PumpStep
      BY <3>1, PumpMoves
    <3>2. CASE ~PumpStep
      BY <1>2, <3>2 DEF ProxyNext, proxyVars, exit, Send, HangUp, AgentAnswers, AgentEdits,
         AgentExits, HelperLetsGo, Says, Deliver, Dispatch, FinishRegister, BriefingLands,
         ShutdownStep,
         BeginShutdown, EndEach, Exit
    <3> QED
      BY <3>1, <3>2
  <2>2. proxy \in {"ending", "exited"} => due' = due
    BY DueKept DEF Deliver
  <2> QED
    BY <1>0, <2>1, <2>2 DEF LatePart
<1> QED
  BY <1>1, <1>2

----------------------------------------------------------------------------
(* The theorems.                                                           *)

LEMMA ProxyInitially == ProxyInit => ProxyInv
BY WireInitially, AnswersInitially, GateInitially, ChainInitially, LifeInitially, FreshInitially,
   ExitInitially, CaptureInitially DEF ProxyInv

LEMMA ProxyPreserved ==
  ASSUME ProxyInv, [ProxyNext]_proxyVars
  PROVE  ProxyInv'
<1>1. WireOK /\ AnswersOK /\ GateOK /\ ChainOK /\ LifeOK /\ FreshOK /\ ExitOK /\ CaptureOK
  BY DEF ProxyInv
<1>2. /\ ChainPart /\ WorkPart /\ LifeTypes /\ FreshPart
      /\ PendingOK /\ EditsOK /\ StandsPart /\ DuePart /\ LatePart
  BY <1>1, ChainParts, LifeParts, FreshParts, CaptureParts
<1>3. \A s \in Sessions : Live(s) => s \in Connected
  BY <1>1, LifeParts DEF Balanced
<1>4. WireOK' /\ AnswersOK' /\ GateOK' /\ LifeOK' /\ FreshOK' /\ ExitOK'
  BY <1>1, <1>2, <1>3, WirePreserved, AnswersPreserved, GatePreserved, LifePreserved,
     FreshPreserved, ExitPreserved
<1>5. ChainOK'
  BY <1>1, <1>2, ChainPartPreserved, WorkPartPreserved DEF ChainOK, ChainPart, WorkPart
<1>6. PendingOK' /\ EditsOK' /\ StandsPart' /\ DuePart' /\ LatePart'
  BY <1>1, <1>2, PendingPreserved, EditsPreserved, StandsPreserved, DuePreserved, LatePreserved
<1>7. CaptureOK'
  BY <1>6 DEF CaptureOK, StandsPart, DuePart, LatePart
<1> QED
  BY <1>4, <1>5, <1>7 DEF ProxyInv

LEMMA ProxyInvHolds == ProxySpec => []ProxyInv
BY ProxyInitially, ProxyPreserved, PTL DEF ProxySpec

\* The agent reads what the client sent, in order, without a gap or a repetition.
THEOREM WireKeepsOrder == ProxySpec => []LinesKeepOrder
<1>1. ProxyInv => LinesKeepOrder
  BY DEF ProxyInv, WireOK
<1> QED
  BY <1>1, ProxyInvHolds, PTL

\* No line is changed unless the gate was decided on the supported version.
THEOREM OnlyEntitledEdits == ProxySpec => []EditsAreEntitled
<1>1. ASSUME ProxyInv PROVE EditsAreEntitled
  <2> SUFFICES ASSUME NEW i \in 1..Len(toAgent), toAgent[i].edit # "none"
               PROVE  /\ \E k \in FirstNegotiation :
                            /\ \A j \in FirstNegotiation : k <= j
                            /\ fromAgent[k].version = Supported
                      /\ script[toAgent[i].n].session \in Connected
                      /\ toAgent[i].edit = "mcp" <=> script[toAgent[i].n].method \in Setup
    BY DEF EditsAreEntitled
  <2>1. WireOK /\ AwaitedAreInits /\ FirstDecided /\ EditedAreEntitled
    BY <1>1, GateParts DEF ProxyInv
  <2>2. Entitled(toAgent[i].edit, i) /\ toAgent[i].n = i
    BY <2>1 DEF EditedAreEntitled, WireOK, LinesKeepOrder
  <2>3. negotiated # Nil /\ negotiated = Supported
    BY <2>2, AcpProxyAssumption DEF Entitled, Supported
  <2>4. PICK k \in FirstNegotiation :
           (\A j \in FirstNegotiation : k <= j) /\ fromAgent[k].version = negotiated
    BY <2>1, <2>3 DEF FirstDecided
  <2> QED
    BY <2>2, <2>3, <2>4 DEF Entitled
<1> QED
  BY <1>1, ProxyInvHolds, PTL

\* A briefing is forwarded at most as often as its session was registered.
THEOREM BriefingIsToldOnce == ProxySpec => []BriefingToldOnce
<1>1. ASSUME ProxyInv PROVE BriefingToldOnce
  <2> SUFFICES ASSUME NEW s \in Sessions
               PROVE  told[s] <= records[s] /\ records[s] <= lives[s]
    BY DEF BriefingToldOnce
  <2>1. LifeTypes /\ Balanced(s)
    BY <1>1, LifeParts DEF ProxyInv
  <2> QED
    BY <2>1 DEF LifeTypes, Balanced, One
<1> QED
  BY <1>1, ProxyInvHolds, PTL

\* The registrations of a session and its ends alternate, those counted that threw.
THEOREM LivesAlternate == ProxySpec => []OneLifeAtATime
<1>1. ASSUME ProxyInv PROVE OneLifeAtATime
  <2> SUFFICES ASSUME NEW s \in Sessions
               PROVE  /\ ends[s] + stranded[s] <= lives[s]
                      /\ lives[s] <= ends[s] + stranded[s] + 1
    BY DEF OneLifeAtATime
  <2>1. LifeTypes /\ Balanced(s)
    BY <1>1, LifeParts DEF ProxyInv
  <2> QED
    BY <2>1 DEF LifeTypes, Balanced, One
<1> QED
  BY <1>1, ProxyInvHolds, PTL

\* A shutdown that had the time it needed ended every session.
THEOREM ExitEndsAll == ProxySpec => []ExitLeavesNoneOpen
<1>1. ASSUME ProxyInv PROVE ExitLeavesNoneOpen
  <2> SUFFICES ASSUME proxy = "exited", ~late, NEW s \in Sessions
               PROVE  lives[s] = ends[s] + stranded[s]
    BY DEF ExitLeavesNoneOpen
  <2>1. LifeTypes /\ Balanced(s) /\ ExitOK
    BY <1>1, LifeParts DEF ProxyInv
  <2>2. job # s
    BY <2>1, AcpProxyAssumption DEF ExitOK
  <2>3. ~Live(s)
    BY <2>1 DEF ExitOK, ToEnd, Live
  <2> QED
    BY <2>1, <2>2, <2>3 DEF LifeTypes, Balanced, Begun, One
<1> QED
  BY <1>1, ProxyInvHolds, PTL

\* A worked-off queue has captured every session an edit was due for.
THEOREM EditsAreCaptured == ProxySpec => []StandingEditsAreCaptured
<1>1. ASSUME ProxyInv PROVE StandingEditsAreCaptured
  <2> SUFFICES ASSUME chain = <<>>, ~late, NEW s \in due \cap Connected
               PROVE  s \in captured \cup excused
    BY DEF StandingEditsAreCaptured
  <2>1. DuePart /\ LatePart /\ ExitOK
    BY <1>1, CaptureParts DEF ProxyInv
  <2>2. 1..Len(chain) = {}
    OBVIOUS
  <2> QED
    BY <2>1, <2>2 DEF DuePart, LatePart, ExitOK
<1> QED
  BY <1>1, ProxyInvHolds, PTL

=============================================================================
