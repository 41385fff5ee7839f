--------------------------- MODULE DropLedgerProof ---------------------------
(***************************************************************************)
(* DropLedger for any sessions, drops, sweeping hooks and faults: the      *)
(* files and doctor under-count in the named cases and in no other.        *)
(***************************************************************************)
EXTENDS DropLedger, TLAPS

Files == [exists : BOOLEAN, good : SUBSET Drop, bad : SUBSET Drop,
          torn : Drop \cup {None}, old : BOOLEAN]

Types ==
  /\ ledger \in [Slug -> Files] /\ archive \in [Drop -> Nat]
  /\ pc \in [Drop -> {"todo", "open", "reopen", "write", "rewrite", "stat", "restat",
                      "terminate", "mark", "recorded", "marked", "killed"}]
  /\ gone \in [Drop -> BOOLEAN]
  /\ wpc \in [Sweeper -> {"idle", "live", "data", "fold", "archive", "total", "remove"}]
  /\ on \in [Sweeper -> Slug \cup {None}]
  /\ fold \in [Sweeper -> SUBSET Drop] /\ seen \in [Sweeper -> [Drop -> Nat]]
  /\ late \in SUBSET Drop /\ misread \in SUBSET Drop

\* The entries the files may have lost.
Excused == late \cup misread

\* One sweep at a time.
Alone ==
  /\ \A v, w \in Sweeper : wpc[v] # "idle" /\ wpc[w] # "idle" => v = w
  /\ \A w \in Sweeper : wpc[w] # "idle" => on[w] \in Slug

\* A ledger that is written to exists, unless it was removed since it was
\* opened; a torn line is of a drop that will not be recorded.
Written ==
  /\ \A d \in Drop :
       /\ pc[d] \in {"write", "rewrite"} /\ ~gone[d] => ledger[SlugOf[d]].exists
       /\ pc[d] \in {"stat", "restat"} /\ ~gone[d] => InLedger(d)
       /\ At(d, "recorded") => InLedger(d) \/ archive[d] > 0 \/ d \in Excused
       /\ At(d, "marked") => marker \/ d \in refused
  /\ \A s \in Slug :
       /\ Entries(ledger[s]) # {} => ledger[s].exists
       /\ \A d \in Drop :
            ledger[s].torn = d => pc[d] \in {"terminate", "mark", "marked", "killed"}

\* A sweep has in hand what the ledger holds, and removes it only once the
\* aggregate has it; what is lost to it was misread or is late.
PastRead(w) == wpc[w] \in {"archive", "total", "remove"}

Folding ==
  \A w \in Sweeper :
    /\ ~PastRead(w) => fold[w] = {}
    /\ PastRead(w) =>
         \A d \in Drop :
           SlugOf[d] = on[w] /\ At(d, "recorded") /\ InLedger(d) => d \in fold[w] \cup Excused
    /\ WAt(w, "total") => \A d \in Drop : archive[d] > 0 => seen[w][d] > 0 \/ d \in misread
    /\ WAt(w, "remove") => \A d \in fold[w] : archive[d] > 0

Kept == Types /\ Alone /\ Written /\ Folding

\* A step takes back no outcome of recordDrop and loses no entry but these.
Persists ==
  /\ \A d \in Drop : pc[d] \in {"recorded", "marked"} => pc'[d] = pc[d]
  /\ \A d \in Drop : pc[d] = "recorded" /\ InLedger(d) =>
                      InLedger(d)' \/ archive'[d] > 0 \/ d \in Excused'
  /\ \A d \in Drop : archive[d] > 0 => archive'[d] > 0 \/ d \in Excused'
  /\ Excused \subseteq Excused' /\ refused \subseteq refused' /\ (marker => marker')

LEMMA KeptNeverUnderCounts == Kept => NeverUnderCounts
BY DEF Kept, Written, Excused, NeverUnderCounts, At

LEMMA InitKept == Init => Kept
<1> SUFFICES ASSUME Init PROVE Kept
  OBVIOUS
<1>1. NoLedger \in Files /\ Nothing \in [Drop -> Nat] /\ Entries(NoLedger) = {}
  BY DEF NoLedger, Files, Nothing, Covering, Entries, Unreadable
<1>2. Types
  BY <1>1 DEF Init, Types
<1>3. Alone /\ Folding
  BY DEF Init, Alone, Folding, PastRead, WAt
<1>4. \A s \in Slug : ledger[s] = NoLedger /\ ledger[s].torn = None
  BY DEF Init, NoLedger
<1>5. Written
  BY <1>1, <1>4, DropLedgerAssumption DEF Init, Written, At
<1> QED  BY <1>2, <1>3, <1>5 DEF Kept

\* The entries of a file after an append, whole or short, and its terminator.
Grows(file, d) ==
  /\ Entered(file, d) \in Files /\ Entries(Entered(file, d)) = Entries(file) \cup {d}
  /\ Entered(file, d).torn = None
  /\ file.exists => Entered(file, d).exists
  /\ Terminated(file) \in Files /\ Entries(Terminated(file)) = Entries(file)
  /\ Terminated(file).torn = None /\ Terminated(file).exists
  /\ [file EXCEPT !.torn = d] \in Files
  /\ [file EXCEPT !.torn = d].torn = d
  /\ [file EXCEPT !.torn = d].exists = file.exists
  /\ Entries(file) \ {file.torn} \subseteq Entries([file EXCEPT !.torn = d])
  /\ Entries([file EXCEPT !.torn = d]) \subseteq Entries(file) \cup {d}

LEMMA AppendGrows == \A file \in Files, d \in Drop : Grows(file, d)
<1> SUFFICES ASSUME NEW file \in Files, NEW d \in Drop PROVE Grows(file, d)
  OBVIOUS
<1> USE DropLedgerAssumption DEF Files, Entries, Unreadable
<1>1. Terminated(file) \in Files /\ Entries(Terminated(file)) = Entries(file)
  BY DEF Terminated
<1>2. Terminated(file).torn = None /\ Terminated(file).exists
  BY DEF Terminated
<1>3. CASE file.torn = None
  BY <1>1, <1>2, <1>3 DEF Entered, Grows
<1>4. CASE file.torn # None
  <2>1. Entered(file, d) = [file EXCEPT !.bad = @ \cup {file.torn, d}, !.torn = None]
    BY <1>4 DEF Entered
  <2>2. Entered(file, d) \in Files /\ Entered(file, d).torn = None
        /\ Entered(file, d).exists = file.exists
    <3>1. file.torn \in Drop /\ file.bad \cup {file.torn, d} \in SUBSET Drop
      BY <1>4
    <3> QED  BY <2>1, <3>1
  <2>3. Entries(Entered(file, d)) = Entries(file) \cup {d}
    <3>1. Entries(Entered(file, d)) = file.good \cup (file.bad \cup {file.torn, d})
      BY <2>1
    <3>2. Entries(file) = file.good \cup (file.bad \cup {file.torn})
      BY <1>4
    <3> QED  BY <3>1, <3>2
  <2> QED
    BY <1>1, <1>2, <1>4, <2>2, <2>3 DEF Grows
<1> QED  BY <1>3, <1>4

-----------------------------------------------------------------------------
(* recordDrop                                                               *)

LEMMA RecordKept ==
  ASSUME Kept, NEW d \in Drop, Start(d) \/ RecordStep(d) \/ KillRecorder(d)
  PROVE  Kept' /\ Persists
<1> USE DropLedgerAssumption DEF Kept, Types
<1> DEFINE s == SlugOf[d]
<1>0. /\ s \in Slug /\ ledger[s] \in Files
      /\ ledger[s].torn # d \/ pc[d] \in {"terminate", "mark", "marked", "killed"}
      /\ \A label : Goto(d, label) => pc'[d] = label /\ \A e \in Drop \ {d} : pc'[e] = pc[e]
  BY DEF Written, Goto
<1>1. CASE Start(d) \/ StatLedger(d) \/ MarkUnrecorded(d) \/ KillRecorder(d)
  <2>0. UNCHANGED <<ledger, archive, gone, sweepers, misread>> /\ late \subseteq late'
    BY <1>1 DEF Start, StatLedger, MarkUnrecorded, KillRecorder, store, losses
  <2>1. /\ Types' /\ pc'[d] # pc[d] /\ \A e \in Drop \ {d} : pc'[e] = pc[e]
    <3>1. \E l \in {"open", "recorded", "reopen", "mark", "marked", "killed"} :
            l # pc[d] /\ Goto(d, l)
      BY <1>0, <1>1 DEF Start, StatLedger, MarkUnrecorded, KillRecorder, At, Recording
    <3>2. /\ pc' \in [Drop -> {"todo", "open", "reopen", "write", "rewrite", "stat", "restat",
                               "terminate", "mark", "recorded", "marked", "killed"}]
          /\ pc'[d] # pc[d] /\ \A e \in Drop \ {d} : pc'[e] = pc[e]
      BY <3>1 DEF Goto
    <3>3. late' \in SUBSET Drop
      BY <1>1 DEF Start, StatLedger, MarkUnrecorded, KillRecorder, losses
    <3> QED  BY <2>0, <3>2, <3>3 DEF sweepers
  <2>e. Excused \subseteq Excused'
    BY <2>0 DEF Excused
  <2>2. Alone'
    BY <2>0 DEF Alone, sweepers
  <2>s. /\ pc'[d] = "recorded" => StatLedger(d) /\ pc[d] \in {"stat", "restat"} /\ ~gone[d]
        /\ pc[d] \notin {"recorded", "marked"}
    BY <1>0, <1>1 DEF Start, StatLedger, MarkUnrecorded, KillRecorder, At, Recording
  <2>f. Folding'
    <3>1. \A w \in Sweeper : PastRead(w)' => PastRead(w)
      BY <2>0 DEF PastRead, sweepers
    <3>2. ASSUME NEW w \in Sweeper, PastRead(w), NEW e \in Drop, SlugOf[e] = on[w],
                 pc'[e] = "recorded", InLedger(e)
          PROVE  e \in fold[w] \cup Excused'
      <4>1. CASE e # d
        BY <2>1, <2>e, <3>2, <4>1 DEF Folding, At
      <4>2. CASE e = d
        <5>1. Overlooked(d) => d \in late'
          BY <2>s, <3>2, <4>2 DEF StatLedger
        <5>2. d \notin fold[w] => Overlooked(d)
          BY <3>2, <4>2 DEF Overlooked, PastRead
        <5> QED  BY <4>2, <5>1, <5>2 DEF Excused
      <4> QED  BY <4>1, <4>2
    <3> QED
      BY <2>0, <3>1, <3>2 DEF Folding, PastRead, WAt, At, InLedger, sweepers
  <2>3. Written'
    <3>1. /\ pc'[d] \notin {"write", "rewrite", "stat", "restat", "terminate"}
          /\ pc'[d] = "marked" => marker' \/ d \in refused'
          /\ pc[d] \in {"terminate", "mark"} => pc'[d] \in {"mark", "marked", "killed"}
          /\ pc[d] \notin {"marked", "killed"}
          /\ marker => marker'
          /\ refused \subseteq refused'
      BY <1>0, <1>1 DEF Start, StatLedger, MarkUnrecorded, KillRecorder, store, At, Recording
    <3>2. \A e \in Drop :
            /\ pc'[e] \in {"write", "rewrite"} /\ ~gone'[e] => ledger'[SlugOf[e]].exists
            /\ pc'[e] \in {"stat", "restat"} /\ ~gone'[e] => InLedger(e)'
            /\ pc'[e] = "marked" => marker' \/ e \in refused'
      BY <2>0, <2>1, <3>1 DEF Written, At, InLedger
    <3>3. \A e \in Drop :
            pc'[e] = "recorded" => InLedger(e)' \/ archive'[e] > 0 \/ e \in Excused'
      BY <2>0, <2>1, <2>e, <2>s DEF Written, InLedger, At
    <3>4. \A t \in Slug :
            /\ Entries(ledger'[t]) # {} => ledger'[t].exists
            /\ \A e \in Drop : ledger'[t].torn = e => pc'[e] \in {"terminate", "mark", "marked", "killed"}
      BY <2>0, <2>1, <3>1 DEF Written
    <3> QED
      BY <3>2, <3>3, <3>4 DEF Written, At
  <2>4. Persists
    <3>1. /\ marker => marker'
          /\ refused \subseteq refused'
      BY <1>1 DEF Start, StatLedger, MarkUnrecorded, KillRecorder, store
    <3>2. \A e \in Drop : pc[e] \in {"recorded", "marked"} => pc'[e] = pc[e]
      BY <2>1, <2>s
    <3> QED  BY <2>0, <2>e, <3>1, <3>2 DEF Persists, InLedger
  <2> QED  BY <2>1, <2>2, <2>f, <2>3, <2>4
<1>2. CASE OpenLedger(d) \/ WriteEntry(d) \/ TerminateEntry(d)
  <2>0. /\ UNCHANGED <<archive, marker, refused, sweepers, losses>>
        /\ Recording(d) /\ \A e \in Drop \ {d} : pc'[e] = pc[e]
        /\ pc[d] \in {"open", "reopen", "write", "rewrite", "terminate"}
    BY <1>0, <1>2 DEF OpenLedger, WriteEntry, TerminateEntry, Recording, At
  <2>e. Excused' = Excused
    BY <2>0 DEF losses, Excused
  <2>1. /\ gone' \in [Drop -> BOOLEAN] /\ \A e \in Drop \ {d} : gone'[e] = gone[e]
        /\ pc[d] \in {"write", "rewrite", "terminate"} => gone' = gone
    <3>1. CASE gone' = gone
      BY <3>1
    <3>2. CASE OpenLedger(d) /\ gone' = [gone EXCEPT ![d] = FALSE]
      BY <3>2 DEF OpenLedger, At
    <3> QED  BY <1>2, <3>1, <3>2 DEF OpenLedger, WriteEntry, TerminateEntry
  <2>g. Grows(ledger[s], d)
    BY <1>0, AppendGrows
  <2> DEFINE Outcome(file) ==
        \/ file = [ledger[s] EXCEPT !.exists = TRUE] /\ pc'[d] \in {"write", "rewrite"}
        \/ file = Entered(ledger[s], d) /\ pc'[d] \in {"stat", "restat"}
           /\ ledger[s].exists
        \/ file = [ledger[s] EXCEPT !.torn = d] /\ pc'[d] = "terminate" /\ ledger[s].exists
        \/ file = Terminated(ledger[s]) /\ pc'[d] = "mark"
        \/ file = ledger[s] /\ pc'[d] = "mark"
        \/ file = ledger[s] /\ pc'[d] \in {"stat", "restat", "terminate"} /\ gone'[d]
           /\ ledger[s].torn # d
  <2>2. \E file : ledger' = [ledger EXCEPT ![s] = file] /\ Outcome(file)
    <3>u. ledger = [ledger EXCEPT ![s] = ledger[s]]
      BY <1>0
    <3>1. CASE UNCHANGED ledger /\ pc'[d] = "mark"
      BY <3>1, <3>u
    <3>2. CASE OpenLedger(d) /\ ~(UNCHANGED ledger /\ pc'[d] = "mark")
      <4>1. ledger' = [ledger EXCEPT ![s].exists = TRUE] /\ pc'[d] \in {"write", "rewrite"}
        BY <1>0, <3>2 DEF OpenLedger, At
      <4>2. ledger' = [ledger EXCEPT ![s] = [ledger[s] EXCEPT !.exists = TRUE]]
        BY <4>1
      <4> QED  BY <4>1, <4>2
    <3>3. CASE WriteEntry(d) /\ ~gone[d] /\ pc'[d] # "mark"
      BY <1>0, <3>3 DEF WriteEntry, Written, At
    <3>4. CASE WriteEntry(d) /\ gone[d] /\ pc'[d] # "mark"
      <4>1. UNCHANGED ledger /\ gone' = gone /\ pc'[d] \in {"stat", "restat", "terminate"}
        BY <1>0, <3>4 DEF WriteEntry, At
      <4>2. ledger[s].torn # d
        BY <1>0, <3>4 DEF WriteEntry
      <4> QED  BY <3>4, <3>u, <4>1, <4>2
    <3>5. CASE TerminateEntry(d) /\ ~UNCHANGED ledger
      BY <1>0, <3>5 DEF TerminateEntry
    <3>6. WriteEntry(d) /\ pc'[d] = "mark" => UNCHANGED ledger
      BY <1>0 DEF WriteEntry, At
    <3>7. TerminateEntry(d) => pc'[d] = "mark"
      BY <1>0 DEF TerminateEntry
    <3> QED  BY <1>2, <3>1, <3>2, <3>3, <3>4, <3>5, <3>6, <3>7
  <2>3. PICK file : ledger' = [ledger EXCEPT ![s] = file] /\ Outcome(file)
    BY <2>2
  <2>4. /\ file \in Files
        /\ Entries(ledger[s]) \ {ledger[s].torn} \subseteq Entries(file)
        /\ Entries(file) \subseteq Entries(ledger[s]) \cup {d}
        /\ file.torn \in {ledger[s].torn, None, d}
    <3>1. /\ [ledger[s] EXCEPT !.exists = TRUE] \in Files
          /\ Entries([ledger[s] EXCEPT !.exists = TRUE]) = Entries(ledger[s])
          /\ [ledger[s] EXCEPT !.exists = TRUE].torn = ledger[s].torn
      BY <1>0 DEF Files, Entries, Unreadable
    <3>4. CASE file = [ledger[s] EXCEPT !.exists = TRUE] \/ file = ledger[s]
      BY <1>0, <3>1, <3>4
    <3>5. CASE file = Entered(ledger[s], d) \/ file = Terminated(ledger[s])
      BY <2>g, <3>5 DEF Grows
    <3>6. CASE file = [ledger[s] EXCEPT !.torn = d]
      BY <2>g, <3>6 DEF Grows
    <3> QED  BY <2>3, <3>4, <3>5, <3>6
  <2>5. /\ ledger'[s] = file /\ \A t \in Slug \ {s} : ledger'[t] = ledger[t]
        /\ ledger' \in [Slug -> Files]
    BY <2>3, <2>4
  <2>6. pc'[d] # pc[d] /\ pc'[d] \in {"write", "rewrite", "stat", "restat", "terminate", "mark"}
    BY <1>0, <1>2, <2>3 DEF OpenLedger, WriteEntry, TerminateEntry, At
  <2>7. Types'
    <3>1. pc' \in [Drop -> {"todo", "open", "reopen", "write", "rewrite", "stat", "restat",
                            "terminate", "mark", "recorded", "marked", "killed"}]
      BY <1>2, <2>6 DEF OpenLedger, WriteEntry, TerminateEntry, Goto
    <3> QED  BY <2>0, <2>1, <2>5, <3>1 DEF sweepers, losses
  <2>8. Alone' /\ Folding'
    <3>1. \A e \in Drop : pc'[e] = "recorded" /\ InLedger(e)' => pc[e] = "recorded" /\ InLedger(e)
      BY <2>0, <2>4, <2>5, <2>6 DEF InLedger
    <3> QED
      BY <2>0, <2>e, <3>1 DEF Alone, Folding, PastRead, WAt, At, sweepers, losses
  <2>9. Written'
    <3>1. /\ pc'[d] \in {"write", "rewrite"} => file.exists
          /\ pc'[d] \in {"stat", "restat"} => d \in Entries(file) \/ gone'[d]
          /\ ledger[s].exists => file.exists
          /\ Entries(file) # {} => file.exists
      <4>1. /\ Entries(ledger[s]) # {} => ledger[s].exists
            /\ [ledger[s] EXCEPT !.exists = TRUE].exists
        BY <1>0 DEF Written, Files
      <4>2. CASE file = [ledger[s] EXCEPT !.exists = TRUE] /\ pc'[d] \in {"write", "rewrite"}
        BY <4>1, <4>2
      <4>3. CASE file = Entered(ledger[s], d) /\ ledger[s].exists /\ pc'[d] \in {"stat", "restat"}
        BY <2>g, <4>3 DEF Grows
      <4>4. CASE file = [ledger[s] EXCEPT !.torn = d] /\ ledger[s].exists /\ pc'[d] = "terminate"
        BY <2>g, <4>4 DEF Grows
      <4>5. CASE file = Terminated(ledger[s]) /\ pc'[d] = "mark"
        BY <2>g, <4>5 DEF Grows
      <4>6. CASE file = ledger[s] /\ (pc'[d] = "mark"
                    \/ (pc'[d] \in {"stat", "restat", "terminate"} /\ gone'[d]))
        BY <4>1, <4>6
      <4> QED  BY <2>3, <4>2, <4>3, <4>4, <4>5, <4>6
    <3>2. \A e \in Drop : pc[e] \in {"stat", "restat", "recorded"} => ledger[SlugOf[e]].torn # e
      BY DEF Written
    <3>3. \A e \in Drop \ {d} :
            pc[e] \in {"stat", "restat", "recorded"} /\ InLedger(e) => InLedger(e)'
      BY <2>4, <2>5, <3>2 DEF InLedger
    <3>4. \A e \in Drop :
            /\ pc'[e] \in {"write", "rewrite"} /\ ~gone'[e] => ledger'[SlugOf[e]].exists
            /\ pc'[e] = "marked" => marker' \/ e \in refused'
      BY <2>0, <2>1, <2>5, <2>6, <3>1 DEF Written, At
    <3>5. \A e \in Drop :
            /\ pc'[e] \in {"stat", "restat"} /\ ~gone'[e] => InLedger(e)'
            /\ pc'[e] = "recorded" => InLedger(e)' \/ archive'[e] > 0 \/ e \in Excused'
      BY <2>0, <2>1, <2>e, <2>5, <2>6, <3>1, <3>3 DEF Written, InLedger, At
    <3>6. \A t \in Slug : Entries(ledger'[t]) # {} => ledger'[t].exists
      BY <2>5, <3>1 DEF Written
    <3>7. \A t \in Slug, e \in Drop :
            ledger'[t].torn = e => pc'[e] \in {"terminate", "mark", "marked", "killed"}
      <4>1. ASSUME NEW t \in Slug, ledger'[t].torn = d
            PROVE  pc'[d] \in {"terminate", "mark"}
        <5>1. CASE ledger[t].torn = d
          BY <1>2, <2>0, <2>3, <5>1 DEF Written, OpenLedger, WriteEntry, TerminateEntry, At, Goto
        <5>2. CASE ledger[t].torn # d
          <6>1. t = s /\ file.torn = d
            BY <2>5, <4>1, <5>2
          <6> QED  BY <1>0, <2>3, <2>g, <5>2, <6>1 DEF Files, Grows
        <5> QED  BY <5>1, <5>2
      <4>2. \A t \in Slug, e \in Drop \ {d} : ledger'[t].torn = e => ledger[t].torn = e
        BY <2>4, <2>5
      <4> QED  BY <2>0, <4>1, <4>2 DEF Written
    <3> QED  BY <3>4, <3>5, <3>6, <3>7 DEF Written, At
  <2>10. Persists
    <3>1. \A e \in Drop : pc[e] = "recorded" => e # d /\ ledger[SlugOf[e]].torn # e
      BY <2>0 DEF Written
    <3>2. \A e \in Drop : pc[e] = "recorded" /\ InLedger(e) => InLedger(e)'
      BY <2>4, <2>5, <3>1 DEF InLedger
    <3> QED  BY <2>0, <2>e, <3>2 DEF Persists
  <2> QED  BY <2>7, <2>8, <2>9, <2>10
<1> QED  BY <1>1, <1>2 DEF RecordStep

-----------------------------------------------------------------------------
(* reapOrphanDrops                                                          *)

LEMMA EnterKept ==
  ASSUME Kept, NEW w \in Sweeper, NEW s \in Slug, SweepAge(w, s)
  PROVE  Kept' /\ Persists
<1> USE DropLedgerAssumption DEF Kept, Types
<1>1. /\ UNCHANGED <<store, losses, recorders, fold, seen>>
      /\ \A v \in Sweeper : wpc[v] = "idle" /\ v # w => wpc'[v] = "idle"
      /\ \A v \in Sweeper : wpc[v] = "idle"
      /\ wpc'[w] = "live" /\ on'[w] = s
  BY DEF SweepAge, WGoto, MayEnter, WAt
<1>2. Types'
  BY <1>1 DEF SweepAge, WGoto, store, losses, recorders
<1>3. Alone'
  BY <1>1 DEF Alone, Recording, recorders
<1>4. Written' /\ Persists
  BY <1>1 DEF Written, Persists, Excused, At, InLedger, store, losses, recorders
<1>5. Folding'
  BY <1>1 DEF Folding, PastRead, WAt
<1> QED  BY <1>2, <1>3, <1>4, <1>5

LEMMA SweepKept ==
  ASSUME Kept, NEW w \in Sweeper, SweepStep(w) \/ KillSweeper(w)
  PROVE  Kept' /\ Persists
<1> USE DropLedgerAssumption DEF Kept, Types
<1>1. /\ wpc[w] # "idle" /\ on[w] \in Slug
      /\ \A v \in Sweeper \ {w} : wpc[v] = "idle" /\ wpc'[v] = "idle"
      /\ pc' = pc /\ marker' = marker /\ refused' = refused /\ late' = late
      /\ wpc'[w] = "idle" \/ on' = on
  BY DEF SweepStep, SweepLive, SweepData, FoldLedger, ReadAggregate, WriteAggregate, RemoveLedger,
     KillSweeper, Leave, WGoto, WAt, Alone, store, losses, recorders
<1>2. Alone'
  BY <1>1 DEF Alone
<1>3. wpc' \in [Sweeper -> {"idle", "live", "data", "fold", "archive", "total", "remove"}]
      /\ on' \in [Sweeper -> Slug \cup {None}]
  BY DEF SweepStep, SweepLive, SweepData, FoldLedger, ReadAggregate, WriteAggregate, RemoveLedger,
     KillSweeper, Leave, WGoto
<1>e. misread \subseteq misread' /\ misread' \in SUBSET Drop /\ Excused \subseteq Excused'
  <2>1. Entries(ledger[on[w]]) \in SUBSET Drop
    BY <1>1 DEF Files, Entries, Unreadable
  <2>2. \/ misread' = misread
        \/ misread' = misread \cup Entries(ledger[on[w]])
        \/ misread' = misread \cup Archived
    BY DEF SweepStep, SweepLive, SweepData, FoldLedger, ReadAggregate, WriteAggregate,
       RemoveLedger, KillSweeper, losses
  <2> QED  BY <1>1, <2>1, <2>2 DEF Archived, Excused
<1>o. ASSUME NEW v \in Sweeper \ {w}
      PROVE  ~PastRead(v)' /\ fold'[v] = {} /\ ~WAt(v, "total")' /\ ~WAt(v, "remove")'
  <2>1. fold[v] = {} /\ wpc'[v] = "idle"
    BY <1>1 DEF Folding, PastRead
  <2>2. fold'[v] = fold[v]
    BY DEF SweepStep, SweepLive, SweepData, FoldLedger, ReadAggregate, WriteAggregate,
       RemoveLedger, KillSweeper, Leave
  <2> QED  BY <2>1, <2>2 DEF PastRead, WAt
<1>l. ASSUME Leave(w)
      PROVE  /\ Folding' /\ fold' \in [Sweeper -> SUBSET Drop]
             /\ seen' \in [Sweeper -> [Drop -> Nat]]
  <2>1. Nothing \in [Drop -> Nat]
    BY DEF Nothing, Covering
  <2>2. wpc'[w] = "idle" /\ fold'[w] = {}
    BY <1>l DEF Leave, WGoto
  <2> QED  BY <1>l, <1>o, <2>1, <2>2 DEF Leave, Folding, PastRead, WAt
<1>4. CASE \/ SweepLive(w) \/ SweepData(w) \/ FoldLedger(w) \/ ReadAggregate(w)
           \/ KillSweeper(w) \/ (WriteAggregate(w) /\ Leave(w) /\ UNCHANGED archive)
  <2>1. UNCHANGED <<ledger, archive, recorders>>
    BY <1>4 DEF SweepLive, SweepData, FoldLedger, ReadAggregate, WriteAggregate, KillSweeper, store
  <2>2. Written' /\ Persists
    BY <1>1, <1>e, <2>1 DEF Written, Persists, At, InLedger, recorders
  <2>3. fold' \in [Sweeper -> SUBSET Drop] /\ seen' \in [Sweeper -> [Drop -> Nat]]
    <3>1. Entries(ledger[on[w]]) \in SUBSET Drop
      BY <1>1 DEF Files, Entries, Unreadable
    <3>3. CASE Leave(w)
      BY <1>l, <3>3
    <3>4. CASE FoldLedger(w)
      BY <3>1, <3>4 DEF FoldLedger
    <3>5. CASE ReadAggregate(w)
      <4>1. fold' = fold /\ (seen' = seen \/ seen' = [seen EXCEPT ![w] = archive])
        BY <3>5 DEF ReadAggregate
      <4> QED  BY <4>1
    <3>6. CASE UNCHANGED <<fold, seen>>
      BY <3>6
    <3> QED
      BY <1>4, <3>3, <3>4, <3>5, <3>6 DEF SweepLive, SweepData, KillSweeper
  <2>4. Types'
    BY <1>1, <1>3, <1>e, <2>1, <2>3 DEF recorders
  <2>5. Folding'
    <3>0. ASSUME ~PastRead(w)', fold'[w] = {} PROVE Folding'
      BY <1>o, <3>0 DEF Folding, PastRead, WAt
    <3>1. CASE (SweepLive(w) \/ SweepData(w)) /\ ~Leave(w)
      <4>1. wpc'[w] \in {"data", "fold"} /\ fold' = fold /\ wpc[w] \in {"live", "data"}
        BY <3>1 DEF SweepLive, SweepData, WGoto, WAt
      <4> QED  BY <3>0, <4>1 DEF Folding, PastRead
    <3>2. CASE FoldLedger(w)
      <4>1. /\ on' = on /\ wpc[w] = "fold" /\ fold[w] = {} /\ wpc'[w] \in {"archive", "remove"}
            /\ \/ fold'[w] = Entries(ledger[on[w]])
               \/ misread' = misread \cup Entries(ledger[on[w]])
            /\ wpc'[w] = "remove" => fold'[w] = {}
        BY <3>2 DEF FoldLedger, WGoto, WAt, Folding, PastRead
      <4>2. \A d \in Drop : SlugOf[d] = on[w] /\ InLedger(d) => d \in fold'[w] \cup Excused'
        BY <4>1 DEF InLedger, Excused
      <4>3. /\ PastRead(w)' /\ ~WAt(w, "total")'
            /\ \A d \in Drop : SlugOf[d] = on'[w] /\ InLedger(d)' => d \in fold'[w] \cup Excused'
        BY <2>1, <4>1, <4>2 DEF PastRead, WAt, InLedger
      <4> QED  BY <1>o, <4>1, <4>3 DEF Folding, WAt
    <3>3. CASE ReadAggregate(w)
      <4>1. /\ on' = on /\ fold' = fold /\ wpc[w] = "archive" /\ wpc'[w] = "total"
            /\ seen'[w] = archive \/ Archived \subseteq misread'
        BY <3>3 DEF ReadAggregate, WGoto, WAt
      <4>2. PastRead(w) /\ PastRead(w)' /\ WAt(w, "total")' /\ ~WAt(w, "remove")'
        BY <4>1 DEF PastRead, WAt
      <4>3. \A d \in Drop : archive'[d] > 0 => seen'[w][d] > 0 \/ d \in misread'
        BY <2>1, <4>1 DEF Archived
      <4>4. \A d \in Drop :
              SlugOf[d] = on'[w] /\ At(d, "recorded")' /\ InLedger(d)' => d \in fold'[w] \cup Excused'
        BY <1>1, <1>e, <2>1, <4>1, <4>2 DEF Folding, At, InLedger
      <4> QED  BY <1>o, <4>2, <4>3, <4>4 DEF Folding
    <3>4. CASE Leave(w)
      BY <1>l, <3>4
    <3>5. KillSweeper(w) => Leave(w)
      BY DEF KillSweeper
    <3> QED  BY <1>4, <3>1, <3>2, <3>3, <3>4, <3>5
  <2> QED  BY <1>2, <2>2, <2>4, <2>5
<1>5. CASE WriteAggregate(w) /\ ~(Leave(w) /\ UNCHANGED archive)
  <2>1. /\ archive' = Plus(seen[w], Covering(fold[w])) /\ wpc'[w] = "remove" /\ on' = on
        /\ UNCHANGED <<ledger, recorders, fold, seen, losses>> /\ wpc[w] = "total"
    BY <1>5 DEF WriteAggregate, Leave, WGoto, WAt
  <2>2. archive' \in [Drop -> Nat]
    BY <2>1 DEF Plus, Covering
  <2>3. \A d \in Drop : /\ archive[d] > 0 => archive'[d] > 0 \/ d \in misread
                        /\ d \in fold[w] => archive'[d] > 0
    BY <2>1 DEF Plus, Covering, Folding, WAt
  <2>4. Types'
    BY <1>1, <1>3, <1>e, <2>1, <2>2 DEF recorders
  <2>x. Excused' = Excused /\ misread \subseteq Excused
    BY <2>1 DEF Excused, losses
  <2>5. Written' /\ Persists
    BY <1>1, <2>1, <2>3, <2>x DEF Written, Persists, At, InLedger, recorders
  <2>6. Folding'
    <3>1. PastRead(w) /\ PastRead(w)' /\ ~WAt(w, "total")'
      BY <2>1 DEF PastRead, WAt
    <3>2. \A d \in Drop :
            SlugOf[d] = on'[w] /\ At(d, "recorded")' /\ InLedger(d)' => d \in fold'[w] \cup Excused'
      BY <1>1, <2>1, <2>x, <3>1 DEF Folding, At, InLedger
    <3> QED  BY <1>o, <2>1, <2>3, <3>1, <3>2 DEF Folding
  <2> QED  BY <1>2, <2>4, <2>5, <2>6
<1>6. CASE RemoveLedger(w)
  <2> DEFINE s == on[w]
  <2>1. /\ NoLedger \in Files /\ Entries(NoLedger) = {} /\ NoLedger.torn = None
    BY DEF NoLedger, Files, Entries, Unreadable
  <2>2. /\ archive' = archive /\ Leave(w) /\ losses' = losses
        /\ ledger' = [ledger EXCEPT ![s] = NoLedger]
        /\ \A d \in fold[w] : archive[d] > 0
        /\ PastRead(w)
    BY <1>6 DEF RemoveLedger, WAt, Folding, PastRead
  <2>4. /\ gone' \in [Drop -> BOOLEAN]
        /\ \A d \in Drop : gone[d] => gone'[d]
        /\ \A d \in Drop : SlugOf[d] = s /\ Recording(d) => gone'[d]
    BY <1>6 DEF RemoveLedger
  <2>5. /\ ledger'[s] = NoLedger /\ \A t \in Slug \ {s} : ledger'[t] = ledger[t]
        /\ ledger' \in [Slug -> Files]
    BY <1>1, <2>1, <2>2
  <2>7. Types'
    BY <1>1, <1>3, <1>e, <1>l, <2>2, <2>4, <2>5
  <2>x. Excused' = Excused
    BY <2>2 DEF Excused, losses
  <2>8. \A d \in Drop : At(d, "recorded") /\ InLedger(d) =>
                        InLedger(d)' \/ archive[d] > 0 \/ d \in Excused
    <3> SUFFICES ASSUME NEW d \in Drop, At(d, "recorded"), InLedger(d), SlugOf[d] = s
                 PROVE  archive[d] > 0 \/ d \in Excused
      BY <2>5 DEF InLedger
    <3>1. d \in fold[w] \cup Excused
      BY <2>2 DEF Folding
    <3> QED  BY <2>2, <3>1
  <2>9. Written'
    <3>1. \A d \in Drop :
            /\ pc[d] \in {"write", "rewrite"} /\ ~gone'[d] => ledger'[SlugOf[d]].exists
            /\ pc[d] \in {"stat", "restat"} /\ ~gone'[d] => InLedger(d)'
      BY <2>4, <2>5 DEF Written, Recording, InLedger
    <3>2. \A t \in Slug :
            /\ Entries(ledger'[t]) # {} => ledger'[t].exists
            /\ \A d \in Drop :
                 ledger'[t].torn = d => pc[d] \in {"terminate", "mark", "marked", "killed"}
      BY <2>1, <2>5 DEF Written
    <3>3. \A d \in Drop : pc[d] = "recorded" => InLedger(d)' \/ archive[d] > 0 \/ d \in Excused
      BY <2>8 DEF Written, At
    <3> QED  BY <1>1, <2>2, <2>x, <3>1, <3>2, <3>3 DEF Written, At
  <2>10. Persists
    BY <1>1, <2>2, <2>8, <2>x DEF Persists, At
  <2>11. Folding'
    BY <1>l, <2>2
  <2> QED  BY <1>2, <2>7, <2>9, <2>10, <2>11
<1> QED
  BY <1>4, <1>5, <1>6 DEF SweepStep, SweepLive, SweepData, FoldLedger, ReadAggregate, KillSweeper,
     store

-----------------------------------------------------------------------------
(* The sessions, and doctor                                                 *)

LEMMA AroundKept ==
  ASSUME Kept,
         \/ UNCHANGED <<store, losses, recorders, sweepers>>
         \/ \E s \in Slug : Age(s)
  PROVE  Kept' /\ Persists
<1>1. CASE UNCHANGED <<store, losses, recorders, sweepers>>
  <2>1. UNCHANGED <<ledger, archive, marker, refused, late, misread, pc, gone, wpc, on, fold, seen>>
    BY <1>1 DEF store, losses, recorders, sweepers
  <2> QED
    BY <2>1 DEF Kept, Types, Alone, Written, Folding, PastRead, Persists, Excused, InLedger, At, WAt
<1>2. ASSUME NEW s \in Slug, Age(s)
      PROVE  Kept' /\ Persists
  <2>1. UNCHANGED <<archive, marker, refused, late, misread, pc, gone, wpc, on, fold, seen>>
    BY <1>2 DEF Age, losses, recorders, sweepers
  <2>2. /\ ledger' \in [Slug -> Files]
        /\ \A t \in Slug : /\ Entries(ledger'[t]) = Entries(ledger[t])
                          /\ ledger'[t].exists = ledger[t].exists
                          /\ ledger'[t].torn = ledger[t].torn
    <3> DEFINE aged == [ledger[s] EXCEPT !.old = TRUE]
    <3>1. aged \in Files /\ ledger[s] \in Files
      <4>1. ledger[s] \in Files
        BY DEF Kept, Types
      <4> QED  BY <4>1 DEF Files
    <3>2. /\ aged.exists = ledger[s].exists /\ aged.torn = ledger[s].torn
          /\ aged.good = ledger[s].good /\ aged.bad = ledger[s].bad
      BY <3>1 DEF Files
    <3>3. Entries(aged) = Entries(ledger[s])
      BY <3>2 DEF Entries, Unreadable
    <3>4. ledger' = [ledger EXCEPT ![s] = aged]
      BY <1>2 DEF Age
    <3> HIDE DEF aged
    <3> QED  BY <3>1, <3>2, <3>3, <3>4 DEF Kept, Types
  <2>3. Types' /\ Alone'
    BY <2>1, <2>2 DEF Kept, Types, Alone
  <2>4. Written' /\ Persists
    BY <2>1, <2>2, DropLedgerAssumption DEF Kept, Written, Persists, Excused, InLedger, At
  <2>5. Folding'
    BY <2>1, <2>2, DropLedgerAssumption DEF Kept, Folding, PastRead, Excused, InLedger, At, WAt
  <2> QED  BY <2>3, <2>4, <2>5 DEF Kept
<1> QED  BY <1>1, <1>2

\* What doctor owes is in its report, in the aggregate it has yet to read, or in
\* a ledger it has yet to read, if it was not lost or missed.
Told ==
  /\ report \in [Drop -> Nat] /\ owed \subseteq Drop
  /\ \A d \in owed :
       /\ pc[d] \in {"recorded", "marked"}
       /\ rpc = "ledgers" /\ At(d, "recorded") =>
            \/ report[d] > 0 \/ archive[d] > 0 \/ d \in Excused \cup missed
            \/ SlugOf[d] \in unread /\ InLedger(d)
       /\ rpc \in {"marker", "told"} /\ At(d, "recorded") =>
            report[d] > 0 \/ d \in Excused \cup missed
       /\ rpc = "told" /\ At(d, "marked") => warned \/ d \in refused \cup missed

LEMMA ReaderTells ==
  ASSUME Kept, Told,
         ReadNames \/ ReadArchive \/ ReadMarker \/ Ask \/ \E s \in Slug : ReadLedger(s)
  PROVE  Told'
<1> USE DropLedgerAssumption
<1>0. UNCHANGED <<ledger, archive, pc, marker, refused>> /\ Excused' = Excused
  BY DEF ReadNames, ReadArchive, ReadMarker, Ask, ReadLedger, store, recorders, losses, Excused
<1>1. CASE ReadNames
  <2>1. /\ owed' = {d \in Drop : pc[d] \in {"recorded", "marked"}} /\ report' = Nothing
        /\ \/ rpc' = "ledgers" /\ unread' = {s \in Slug : ledger[s].exists}
           \/ rpc' = "marker" /\ missed' = {d \in Drop : At(d, "recorded")}
    BY <1>1 DEF ReadNames
  <2>2. report' \in [Drop -> Nat]
    BY <2>1 DEF Nothing, Covering
  <2>3. \A d \in Drop : InLedger(d) => ledger[SlugOf[d]].exists
    BY DEF Kept, Written, InLedger
  <2> QED  BY <1>0, <2>1, <2>2, <2>3 DEF Told, Kept, Written, At, InLedger
<1>2. CASE ReadArchive
  <2>1. /\ rpc' = "marker" /\ rpc = "ledgers" /\ unread = {} /\ owed' = owed
        /\ AddsUp(Archived, archive)
    BY <1>2 DEF ReadArchive
  <2>2. /\ report' \in [Drop -> Nat] /\ missed \subseteq missed'
        /\ \A d \in Drop : report[d] > 0 \/ archive[d] > 0 => report'[d] > 0 \/ d \in missed'
    BY <2>1 DEF AddsUp, Archived, Plus, Told, Kept, Types
  <2> QED  BY <1>0, <2>1, <2>2 DEF Told, At
<1>5. CASE ReadMarker
  <2>1. /\ rpc' = "told" /\ rpc = "marker" /\ owed' = owed /\ report' = report
        /\ missed \subseteq missed'
        /\ warned' = marker \/ {d \in owed : At(d, "marked")} \subseteq missed'
    BY <1>5 DEF ReadMarker
  <2>2. \A d \in Drop : At(d, "marked") => marker \/ d \in refused
    BY DEF Kept, Written
  <2> QED  BY <1>0, <2>1, <2>2 DEF Told, At
<1>3. CASE Ask
  BY <1>3 DEF Ask, Told, Nothing, Covering
<1>4. ASSUME NEW s \in Slug, ReadLedger(s)
      PROVE  Told'
  <2>1. /\ rpc' = "ledgers" /\ rpc = "ledgers" /\ unread' = unread \ {s} /\ owed' = owed
        /\ AddsUp(Entries(ledger[s]), Covering(Entries(ledger[s])))
    BY <1>4 DEF ReadLedger
  <2>2. /\ report' \in [Drop -> Nat] /\ missed \subseteq missed'
        /\ \A d \in Drop : report[d] > 0 \/ d \in Entries(ledger[s]) =>
                             report'[d] > 0 \/ d \in missed'
    BY <2>1 DEF AddsUp, Plus, Covering, Told
  <2> QED  BY <1>0, <2>1, <2>2 DEF Told, At, InLedger
<1> QED  BY <1>1, <1>2, <1>3, <1>4, <1>5

LEMMA OthersTell ==
  ASSUME Kept, Told, Persists, UNCHANGED reader
  PROVE  Told'
BY DEF Kept, Types, Told, Persists, At, reader

-----------------------------------------------------------------------------

LEMMA StepKept ==
  ASSUME Kept, Told, [Next]_vars
  PROVE  Kept' /\ Told'
<1>1. ASSUME NEW d \in Drop, Start(d) \/ RecordStep(d) \/ KillRecorder(d)
      PROVE  Kept' /\ Told'
  <2>1. UNCHANGED reader
    BY <1>1 DEF Start, RecordStep, OpenLedger, WriteEntry, StatLedger, TerminateEntry,
       MarkUnrecorded, KillRecorder
  <2> QED  BY <1>1, <2>1, RecordKept, OthersTell
<1>2. ASSUME NEW w \in Sweeper, SweepStep(w) \/ KillSweeper(w)
      PROVE  Kept' /\ Told'
  <2>1. UNCHANGED reader
    BY <1>2 DEF SweepStep, SweepLive, SweepData, FoldLedger, ReadAggregate, WriteAggregate,
       RemoveLedger, KillSweeper
  <2> QED  BY <1>2, <2>1, SweepKept, OthersTell
<1>3. ASSUME NEW w \in Sweeper, NEW s \in Slug, SweepAge(w, s)
      PROVE  Kept' /\ Told'
  <2>1. UNCHANGED reader
    BY <1>3 DEF SweepAge
  <2> QED  BY <1>3, <2>1, EnterKept, OthersTell
<1>4. CASE ReadNames \/ ReadArchive \/ ReadMarker \/ Ask \/ \E s \in Slug : ReadLedger(s)
  <2>1. UNCHANGED <<store, losses, recorders, sweepers>>
    BY <1>4 DEF ReadNames, ReadArchive, ReadMarker, Ask, ReadLedger
  <2> QED  BY <1>4, <2>1, AroundKept, ReaderTells
<1>5. ASSUME NEW s \in Slug, EndSession(s) \/ ResumeSession(s) \/ DataChanges(s) \/ Age(s)
      PROVE  Kept' /\ Told'
  <2>1. /\ UNCHANGED reader
        /\ UNCHANGED <<store, losses, recorders, sweepers>> \/ Age(s)
    BY <1>5 DEF EndSession, ResumeSession, DataChanges, Age
  <2> QED  BY <2>1, AroundKept, OthersTell
<1>6. CASE UNCHANGED vars
  BY <1>6, AroundKept, OthersTell DEF vars
<1> QED  BY <1>1, <1>2, <1>3, <1>4, <1>5, <1>6 DEF Next

LEMMA InitTold == Init => Told
BY DEF Init, Told, Nothing, Covering

LEMMA AlwaysKept == Spec => [](Kept /\ Told)
<1>1. Init => Kept /\ Told
  BY InitKept, InitTold
<1>2. Kept /\ Told /\ [Next]_vars => (Kept /\ Told)'
  BY StepKept
<1> QED  BY <1>1, <1>2, PTL DEF Spec

\* What recordDrop recorded stays in a ledger line or in the aggregate, unless it
\* was recorded behind a sweep that had read the ledger or a sweep failed to read
\* the file it was in; and what it could not record leaves the marker unless that
\* write failed too: for any interleaving of appends, short writes, failed reads,
\* deaths and sweeps.
THEOREM FilesNeverUnderCount == Spec => []NeverUnderCounts
<1>1. Kept /\ Told => NeverUnderCounts
  BY KeptNeverUnderCounts
<1> QED  BY <1>1, AlwaysKept, PTL

\* And what doctor tells covers every drop recorded before it was asked, but for
\* those and for what was in a file it failed to read itself, however a sweep
\* moves entries from the ledgers to the aggregate while it reads.
THEOREM DoctorNeverUnderCount == Spec => []DoctorNeverUnderCounts
<1>1. Kept /\ Told => DoctorNeverUnderCounts
  BY DEF Kept, Written, Told, Excused, DoctorNeverUnderCounts, At
<1> QED  BY <1>1, AlwaysKept, PTL
=============================================================================
