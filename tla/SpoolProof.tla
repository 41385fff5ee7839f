------------------------------ MODULE SpoolProof ------------------------------
(***************************************************************************)
(* What holds of a session's spool for any number of appends, workers and  *)
(* inode numbers, any cap and batch size, and any number of faults.        *)
(***************************************************************************)
EXTENDS Spool, SpoolLock, FiniteSetTheorems, WellFoundedInduction, TLAPS

Labels == {"todo", "open", "write", "stat", "reopen", "rewrite", "restat",
           "terminate", "refuse", "done", "killed"}

WLabels == {"idle", "post", "count", "identify", "move",
            "hold", "safe", "expire", "rmcursor", "unlink", "rescue", "putback"}

FirstOf == [rec : Rec \cup {None}, kind : {"whole", "glued", "frag", "blank", "none"}]

Snapshot == [ino : Ino \cup {None}, first : FirstOf, lines : Seq(Line),
             torn : Rec \cup {None}, offset : Nat, old : BOOLEAN,
             drops : SUBSET (Rec \cup {None})]

SpoolType ==
  /\ path \in Ino \cup {None}
  /\ disk \in [Ino -> Inode]
  /\ cursor \in [ino : Ino \cup {None}, first : FirstOf, offset : Nat]
  /\ live \in BOOLEAN
  /\ pc \in [Rec -> Labels]
  /\ fd \in [Rec -> Ino \cup {None}]
  /\ wpc \in [Worker -> WLabels]
  /\ snap \in [Worker -> Snapshot]
  /\ hnd \in [Worker -> Ino \cup {None}]
  /\ tail \in [Worker -> Seq(Line)]
  /\ acked \subseteq Rec

(* The records the hub has accepted or a drop has counted.                 *)
Heard == delivered \cup counted

(* A line an append made, of which the hub will hear or a drop be counted. *)
Carries(line, r) == line.rec = r /\ line.kind \in {"whole", "glued"}

Holds(lines, r) == \E k \in 1..Len(lines) : Carries(lines[k], r)

(* Up to this position every line is empty or its record is one of these.  *)
SettledUpTo(lines, offset, records) ==
  /\ offset <= Len(lines)
  /\ \A k \in 1..offset : lines[k].kind # "blank" => lines[k].rec \in records

(* What a file may become under its readers: longer, and never with a      *)
(* whole line right behind a tail that was torn.                           *)
Grows(old, inode) ==
  /\ Len(old.lines) <= Len(inode.lines)
  /\ \A k \in 1..Len(old.lines) : inode.lines[k] = old.lines[k]
  /\ old.torn # None =>
       IF Len(inode.lines) = Len(old.lines)
         THEN inode.torn # None
         ELSE inode.lines[Len(old.lines) + 1].kind # "whole"

(* An open handle keeps its inode, and an append that reads its nlink has  *)
(* its line in there.                                                      *)
Handles ==
  \A r \in Rec :
    /\ pc[r] \in {"write", "rewrite", "stat", "restat"} => fd[r] \in Ino
    /\ pc[r] \in {"stat", "restat"} => Holds(disk[fd[r]].lines, r)

(* The flush lock admits one worker at a time.                             *)
OneWorker == \A v, w \in Worker : ~WAt(v, "idle") /\ ~WAt(w, "idle") => v = w

(* A cursor file that exists is the cursor of the file that has the name.  *)
CursorHolds ==
  cursor.ino # None =>
    cursor.ino = path /\ SettledUpTo(disk[path].lines, cursor.offset, Heard)

Named == {"post", "count", "identify", "move", "hold", "safe", "expire", "rmcursor", "unlink"}

(* What a worker knows of the file it read, at each of its steps.          *)
WorkerHolds(w) ==
  LET s == snap[w] IN
  /\ wpc[w] \in Named => path # None /\ s.ino = path
  /\ wpc[w] \in {"safe", "expire", "rmcursor", "unlink"} => hnd[w] = path
  /\ wpc[w] \in {"post", "hold", "safe", "expire", "rmcursor", "unlink"} =>
       Grows(s, disk[path])
  /\ wpc[w] = "rescue" => hnd[w] \in Ino /\ Grows(s, disk[hnd[w]])
  /\ wpc[w] = "post" => Backlog(s)
  /\ wpc[w] \in {"post", "hold", "safe", "expire"} => SettledUpTo(s.lines, s.offset, Heard)
  /\ wpc[w] = "count" => SettledUpTo(disk[path].lines, s.offset, Heard \cup s.drops)
  /\ wpc[w] \in {"identify", "move"} => SettledUpTo(disk[path].lines, s.offset, Heard)
  /\ wpc[w] \in {"rmcursor", "unlink"} => SettledUpTo(s.lines, Len(s.lines), Heard)
  /\ wpc[w] \in {"unlink", "rescue", "putback"} => cursor.ino = None

Workers == \A w \in Worker : WorkerHolds(w)

IInv == SpoolType /\ Handles /\ OneWorker /\ CursorHolds /\ Workers

OnPath(r) == path # None /\ Holds(disk[path].lines, r)

(* In the hands of a reaper, as a line that will come back.                *)
Rescued(r) ==
  \E w \in Worker :
    \/ /\ WAt(w, "rescue")
       /\ \E k \in 1..Len(disk[hnd[w]].lines) :
            k > Len(snap[w].lines) /\ Carries(disk[hnd[w]].lines[k], r)
    \/ WAt(w, "putback") /\ Holds(tail[w], r)

AckedIsKept == \A r \in acked : r \in Heard \/ OnPath(r) \/ Rescued(r)

-----------------------------------------------------------------------------
(* Lines and files.                                                        *)

(* Growth is transitive.                                                   *)
LEMMA GrowsOn ==
  ASSUME NEW a, NEW b, NEW c, Len(a.lines) \in Nat, Len(b.lines) \in Nat, Len(c.lines) \in Nat,
         Grows(a, b), Grows(b, c)
  PROVE  Grows(a, c)
<1>1. /\ Len(a.lines) <= Len(c.lines)
      /\ \A k \in 1..Len(a.lines) : c.lines[k] = a.lines[k]
  BY DEF Grows
<1>2. ASSUME a.torn # None, Len(b.lines) = Len(a.lines)
      PROVE  IF Len(c.lines) = Len(a.lines) THEN c.torn # None
             ELSE c.lines[Len(a.lines) + 1].kind # "whole"
  BY <1>2 DEF Grows
<1>3. ASSUME a.torn # None, Len(b.lines) # Len(a.lines)
      PROVE  IF Len(c.lines) = Len(a.lines) THEN c.torn # None
             ELSE c.lines[Len(a.lines) + 1].kind # "whole"
  BY <1>3 DEF Grows
<1> QED  BY <1>1, <1>2, <1>3 DEF Grows

LEMMA GrowsFromItself == ASSUME NEW f \in Inode PROVE Grows(f, f)
  BY DEF Grows, Inode

(* Appending lines to a file.                                              *)
LEMMA AppendedLine ==
  ASSUME NEW lines \in Seq(Line), NEW line \in Line
  PROVE  /\ Append(lines, line) \in Seq(Line)
         /\ Len(Append(lines, line)) = Len(lines) + 1
         /\ \A k \in 1..Len(lines) : Append(lines, line)[k] = lines[k]
         /\ Append(lines, line)[Len(lines) + 1] = line
  OBVIOUS

LEMMA JoinedLines ==
  ASSUME NEW a \in Seq(Line), NEW b \in Seq(Line)
  PROVE  /\ a \o b \in Seq(Line) /\ Len(a \o b) = Len(a) + Len(b)
         /\ \A k \in 1..(Len(a) + Len(b)) :
              (a \o b)[k] = IF k <= Len(a) THEN a[k] ELSE b[k - Len(a)]
  OBVIOUS

LEMMA ExtendGrows ==
  ASSUME NEW f \in Inode, NEW r \in Rec
  PROVE  /\ Extend(f, r) \in Inode /\ Grows(f, Extend(f, r))
         /\ Holds(Extend(f, r).lines, r)
<1> DEFINE line == [rec |-> r, kind |-> IF f.torn = None THEN "whole" ELSE "glued"]
           more == Append(f.lines, line)
<1>1. line \in Line /\ f.lines \in Seq(Line) /\ Len(f.lines) \in Nat
  BY DEF Line, Inode
<1>2. Extend(f, r) = [lines |-> more, torn |-> None, age |-> "fresh"]
  BY DEF Extend
<1>3. Carries(line, r) /\ (f.torn # None => line.kind # "whole")
  BY DEF Carries
<1> HIDE DEF line
<1>4. /\ more \in Seq(Line) /\ Len(more) = Len(f.lines) + 1
      /\ \A k \in 1..Len(f.lines) : more[k] = f.lines[k]
      /\ more[Len(f.lines) + 1] = line
  BY <1>1, AppendedLine
<1> HIDE DEF more
<1>5. Extend(f, r) \in Inode
  BY <1>2, <1>4 DEF Inode
<1>6. Grows(f, Extend(f, r))
  BY <1>1, <1>2, <1>3, <1>4 DEF Grows
<1>7. Holds(Extend(f, r).lines, r)
  BY <1>1, <1>2, <1>3, <1>4 DEF Holds
<1> QED  BY <1>5, <1>6, <1>7

LEMMA TerminateGrows ==
  ASSUME NEW f \in Inode
  PROVE  Terminate(f) \in Inode /\ Grows(f, Terminate(f))
<1> DEFINE line == IF f.torn = None THEN [rec |-> None, kind |-> "blank"]
                                    ELSE [rec |-> f.torn, kind |-> "frag"]
           more == Append(f.lines, line)
<1>1. line \in Line /\ f.lines \in Seq(Line) /\ Len(f.lines) \in Nat /\ line.kind # "whole"
  BY DEF Line, Inode
<1>2. Terminate(f) = [lines |-> more, torn |-> None, age |-> "fresh"]
  BY DEF Terminate
<1> HIDE DEF line
<1>3. /\ more \in Seq(Line) /\ Len(more) = Len(f.lines) + 1
      /\ \A k \in 1..Len(f.lines) : more[k] = f.lines[k]
      /\ more[Len(f.lines) + 1] = line
  BY <1>1, AppendedLine
<1> HIDE DEF more
<1> QED  BY <1>1, <1>2, <1>3 DEF Grows, Inode

LEMMA TearGrows ==
  ASSUME NEW f \in Inode, NEW r \in Rec
  PROVE  Tear(f, r) \in Inode /\ Grows(f, Tear(f, r))
<1>1. Tear(f, r) \in Inode /\ Tear(f, r).lines = f.lines /\ Tear(f, r).torn = r
  BY DEF Tear, Inode
<1>2. r # None /\ Len(f.lines) \in Nat
  BY SpoolAssumption DEF Inode
<1> QED  BY <1>1, <1>2 DEF Grows

LEMMA NewFileIsEmpty == NewFile \in Inode /\ NewFile.lines = <<>> /\ NewFile.torn = None
<1>1. <<>> \in Seq(Line)
  OBVIOUS
<1> QED  BY <1>1 DEF NewFile, Inode

(* Lines that are put back stand behind the ones the file has, each of     *)
(* them with its record, a whole one glued at most.                        *)
LEMMA JoinGrows ==
  ASSUME NEW f \in Inode, NEW lines \in Seq(Line), lines # <<>>
  PROVE  /\ Join(f, lines) \in Inode /\ Grows(f, Join(f, lines))
         /\ \A r \in Rec : Holds(lines, r) => Holds(Join(f, lines).lines, r)
<1> DEFINE line == [rec |-> IF Head(lines).kind = "blank" THEN f.torn ELSE Head(lines).rec,
                    kind |-> GluedKind(Head(lines).kind)]
           put == IF f.torn = None THEN lines ELSE <<line>> \o Tail(lines)
           more == f.lines \o put
<1>1. /\ Head(lines) = lines[1] /\ lines[1] \in Line /\ Len(lines) \in Nat /\ Len(lines) >= 1
      /\ f.lines \in Seq(Line) /\ Len(f.lines) \in Nat /\ f.torn \in Rec \cup {None}
  BY DEF Inode
<1>2. line \in Line /\ line.kind # "whole"
  BY <1>1 DEF Line, GluedKind
<1>3. \A r \in Rec : Carries(lines[1], r) => Carries(line, r)
  BY <1>1 DEF Carries, GluedKind
<1>4. Join(f, lines) = [lines |-> more, torn |-> None, age |-> "fresh"]
  BY DEF Join
<1> HIDE DEF line
<1>5. /\ put \in Seq(Line) /\ Len(put) = Len(lines)
      /\ \A k \in 2..Len(lines) : put[k] = lines[k]
      /\ put[1] = IF f.torn = None THEN lines[1] ELSE line
  <2>1. CASE f.torn = None
    BY <1>1, <2>1
  <2>2. CASE f.torn # None
    <3>1. <<line>> \in Seq(Line) /\ Len(<<line>>) = 1 /\ <<line>>[1] = line
      BY <1>2
    <3>2. /\ Tail(lines) \in Seq(Line) /\ Len(Tail(lines)) = Len(lines) - 1
          /\ \A k \in 1..(Len(lines) - 1) : Tail(lines)[k] = lines[k + 1]
      BY <1>1
    <3> DEFINE one == <<line>>
               rest == Tail(lines)
    <3>3. /\ one \o rest \in Seq(Line) /\ Len(one \o rest) = Len(one) + Len(rest)
          /\ \A k \in 1..(Len(one) + Len(rest)) :
               (one \o rest)[k] = IF k <= Len(one) THEN one[k] ELSE rest[k - Len(one)]
      BY <3>1, <3>2, JoinedLines
    <3>4. put = one \o rest
      BY <2>2
    <3>5. Len(one) = 1 /\ one[1] = line /\ Len(rest) = Len(lines) - 1
          /\ \A k \in 1..(Len(lines) - 1) : rest[k] = lines[k + 1]
      BY <3>1, <3>2
    <3> HIDE DEF one, rest, put
    <3> QED  BY <1>1, <2>2, <3>3, <3>4, <3>5
  <2> QED  BY <2>1, <2>2
<1> HIDE DEF put
<1>6. /\ more \in Seq(Line) /\ Len(more) = Len(f.lines) + Len(lines)
      /\ \A k \in 1..Len(f.lines) : more[k] = f.lines[k]
      /\ \A k \in 1..Len(lines) : more[Len(f.lines) + k] = put[k]
  BY <1>1, <1>5
<1> HIDE DEF more
<1>7. Join(f, lines) \in Inode
  BY <1>4, <1>6 DEF Inode
<1>8. Grows(f, Join(f, lines))
  <2>1. 1 \in 1..Len(lines) /\ more[Len(f.lines) + 1] = put[1]
    BY <1>1, <1>6
  <2>2. Len(more) > Len(f.lines) /\ (f.torn # None => put[1].kind # "whole")
    BY <1>1, <1>2, <1>5, <1>6
  <2>3. Join(f, lines).lines = more
    BY <1>4
  <2> QED  BY <1>1, <1>6, <2>1, <2>2, <2>3 DEF Grows
<1>9. ASSUME NEW r \in Rec, Holds(lines, r) PROVE Holds(Join(f, lines).lines, r)
  <2>1. PICK k \in 1..Len(lines) : Carries(lines[k], r)
    BY <1>9 DEF Holds
  <2>2. Carries(put[k], r)
    BY <1>1, <1>3, <1>5, <2>1
  <2>3. Len(f.lines) + k \in 1..Len(more) /\ Carries(more[Len(f.lines) + k], r)
    BY <1>1, <1>6, <2>1, <2>2
  <2> QED  BY <1>4, <2>3 DEF Holds
<1> QED  BY <1>7, <1>8, <1>9

(* What a file grew by keeps every record it carries.                      *)
LEMMA GrownHolds ==
  ASSUME NEW f \in Inode, NEW s \in Snapshot, Grows(s, f)
  PROVE  /\ Grown(f, s) \in Seq(Line)
         /\ \A r \in Rec : \A k \in 1..Len(f.lines) :
              k > Len(s.lines) /\ Carries(f.lines[k], r) => Holds(Grown(f, s), r)
<1> DEFINE m == Len(s.lines)
           n == Len(f.lines)
           lines == SubSeq(f.lines, m + 1, n)
           Untie(line) == IF line.kind = "glued" THEN [line EXCEPT !.kind = "whole"]
                                                 ELSE [rec |-> None, kind |-> "blank"]
<1>1. m \in Nat /\ n \in Nat /\ m <= n /\ f.lines \in Seq(Line)
  BY DEF Grows, Inode, Snapshot
<1>2. /\ lines \in Seq(Line) /\ Len(lines) = n - m
      /\ \A k \in 1..(n - m) : lines[k] = f.lines[m + k]
  <2> HIDE DEF m, n
  <2>1. \A k \in (m + 1)..n : f.lines[k] \in Line
    BY <1>1 DEF n
  <2> QED  BY <1>1, <2>1
<1>3. Grown(f, s) = IF s.torn # None /\ lines # <<>>
                      THEN <<Untie(Head(lines))>> \o Tail(lines) ELSE lines
  BY DEF Grown
<1> HIDE DEF lines, m, n
<1>4. CASE ~(s.torn # None /\ lines # <<>>)
  <2>1. ASSUME NEW r \in Rec, NEW k \in 1..n, k > m, Carries(f.lines[k], r)
        PROVE  Holds(lines, r)
    <3>1. k - m \in 1..(n - m) /\ lines[k - m] = f.lines[k]
      BY <1>1, <1>2, <2>1
    <3> QED  BY <1>2, <2>1, <3>1 DEF Holds
  <2> QED  BY <1>2, <1>3, <1>4, <2>1 DEF n, m
<1>5. CASE s.torn # None /\ lines # <<>>
  <2> DEFINE first == Untie(Head(lines))
             rest == Tail(lines)
             one == <<first>>
  <2>1. Len(lines) >= 1 /\ Head(lines) = lines[1] /\ lines[1] \in Line /\ n > m
    BY <1>1, <1>2, <1>5
  <2>2. lines[1] = f.lines[m + 1] /\ f.lines[m + 1].kind # "whole"
    BY <1>1, <1>2, <1>5, <2>1 DEF Grows, m, n
  <2>3. first \in Line
    BY <2>1 DEF Line
  <2>4. \A r \in Rec : Carries(f.lines[m + 1], r) => Carries(first, r)
    BY <2>1, <2>2 DEF Carries, Line
  <2> HIDE DEF first
  <2>5. one \in Seq(Line) /\ Len(one) = 1 /\ one[1] = first
    BY <2>3
  <2>6. /\ rest \in Seq(Line) /\ Len(rest) = (n - m) - 1
        /\ \A k \in 1..((n - m) - 1) : rest[k] = lines[k + 1]
    BY <1>1, <1>2, <2>1
  <2> HIDE DEF one, rest
  <2>7. /\ one \o rest \in Seq(Line) /\ Len(one \o rest) = n - m
        /\ (one \o rest)[1] = first
        /\ \A k \in 2..(n - m) : (one \o rest)[k] = lines[k]
    <3>1. /\ one \o rest \in Seq(Line) /\ Len(one \o rest) = Len(one) + Len(rest)
          /\ \A k \in 1..(Len(one) + Len(rest)) :
               (one \o rest)[k] = IF k <= Len(one) THEN one[k] ELSE rest[k - Len(one)]
      BY <2>5, <2>6, JoinedLines
    <3>2. \A k \in 2..(n - m) : k - 1 \in 1..((n - m) - 1) /\ rest[k - 1] = lines[(k - 1) + 1]
      BY <1>1, <2>6
    <3> QED  BY <1>1, <2>1, <2>5, <2>6, <3>1, <3>2
  <2>8. ASSUME NEW r \in Rec, NEW k \in 1..n, k > m, Carries(f.lines[k], r)
        PROVE  Holds(one \o rest, r)
    <3>1. k - m \in 1..(n - m) /\ lines[k - m] = f.lines[k]
      BY <1>1, <1>2, <2>8
    <3>2. Carries((one \o rest)[k - m], r)
      <4>1. k = m + 1 => (one \o rest)[k - m] = first
        BY <1>1, <2>7
      <4>2. k # m + 1 => (one \o rest)[k - m] = f.lines[k]
        <5>1. k # m + 1 => k - m \in 2..(n - m)
          BY <1>1, <2>8, <3>1
        <5> QED  BY <2>7, <3>1, <5>1
      <4> QED  BY <2>4, <2>8, <4>1, <4>2
    <3> QED  BY <2>7, <3>1, <3>2 DEF Holds
  <2>9. Grown(f, s) = one \o rest
    BY <1>3, <1>5 DEF one, rest, first
  <2> QED  BY <2>7, <2>8, <2>9 DEF n, m
<1> QED  BY <1>4, <1>5

(* A bounded set of naturals has a least and a greatest element.           *)
LEMMA LeastPosition ==
  ASSUME NEW S \in SUBSET Nat, S # {}
  PROVE  \E m \in S : \A k \in S : m <= k
<1> DEFINE LessThan == {p \in Nat \X Nat : p[1] < p[2]}
<1>1. IsWellFoundedOn(LessThan, Nat)
  BY NatLessThanWellFounded DEF OpToRel
<1>2. PICK m \in S : \A k \in S : <<k, m>> \notin LessThan
  <2> HIDE DEF LessThan
  <2> QED  BY <1>1, WFMin
<1>3. ASSUME NEW k \in S PROVE m <= k
  <2>1. ~(k < m)
    BY <1>2, <<k, m>> \in Nat \X Nat
  <2> QED  BY <2>1
<1> QED  BY <1>3

LEMMA GreatestPosition ==
  ASSUME NEW n \in Nat, NEW S \in SUBSET (1..n), S # {}
  PROVE  \E m \in S : \A k \in S : k <= m
<1> DEFINE Bounds == {b \in Nat : \A k \in S : k <= b}
<1>1. Bounds \in SUBSET Nat /\ n \in Bounds
  OBVIOUS
<1>2. PICK m \in Bounds : \A b \in Bounds : m <= b
  <2> HIDE DEF Bounds
  <2> QED  BY <1>1, LeastPosition
<1>3. m \in S
  <2> SUFFICES ASSUME m \notin S PROVE FALSE
    OBVIOUS
  <2>1. PICK k \in S : k <= m /\ k # m
    BY <1>2
  <2>2. m \in Nat /\ m > 0 /\ m - 1 \in Nat
    BY <1>2, <2>1
  <2>3. \A j \in S : j <= m - 1
    BY <1>2, <2>2
  <2> QED  BY <1>2, <2>2, <2>3
<1> QED  BY <1>2, <1>3

(* The batch of a backlog is not empty, and every line up to the one it    *)
(* consumes is in it, was behind the offset already, or is empty.          *)
LEMMA ConsumedIsSent ==
  ASSUME NEW s \in Snapshot, Backlog(s)
  PROVE  /\ Consumed(s) \in 1..Len(s.lines)
         /\ \A k \in 1..Consumed(s) :
              k > s.offset /\ s.lines[k].kind # "blank" => k \in BatchOf(s)
<1> DEFINE n == Len(s.lines)
           pending == LinesBetween(s.lines, s.offset, n)
           UpTo(k) == {j \in pending : j <= k}
<1>1. n \in Nat /\ s.offset \in Nat /\ Batch \in Nat \ {0}
  BY SpoolAssumption DEF Snapshot
<1>2. pending \in SUBSET (1..n) /\ pending # {}
  BY <1>1 DEF LinesBetween, Backlog
<1>3. IsFiniteSet(pending)
  <2>1. IsFiniteSet(1..n)
    BY <1>1, FS_Interval
  <2> HIDE DEF pending, n
  <2> QED  BY <1>2, <2>1, FS_Subset
<1>4. BatchOf(s) = {k \in pending : Cardinality(UpTo(k)) <= Batch}
  BY DEF BatchOf
<1>5. BatchOf(s) # {}
  <2>1. PICK k \in pending : \A j \in pending : k <= j
    BY <1>1, <1>2, LeastPosition
  <2>2. UpTo(k) = {k}
    BY <1>1, <1>2, <2>1
  <2>3. Cardinality(UpTo(k)) <= Batch
    <3>1. Cardinality({k}) = 1
      BY FS_Singleton
    <3> HIDE DEF UpTo
    <3> QED  BY <1>1, <2>2, <3>1
  <2> QED  BY <1>4, <2>1, <2>3
<1>6. BatchOf(s) \in SUBSET (1..n)
  BY <1>2, <1>4
<1>7. Consumed(s) \in BatchOf(s) /\ \A j \in BatchOf(s) : j <= Consumed(s)
  <2>1. \E k \in BatchOf(s) : \A j \in BatchOf(s) : j <= k
    BY <1>1, <1>5, <1>6, GreatestPosition
  <2> QED  BY <2>1 DEF Consumed
<1>8. ASSUME NEW k \in 1..Consumed(s), k > s.offset, s.lines[k].kind # "blank"
      PROVE  k \in BatchOf(s)
  <2>1. Consumed(s) \in 1..n /\ Consumed(s) \in pending
    BY <1>4, <1>6, <1>7
  <2>2. k \in pending
    BY <1>1, <1>8, <2>1 DEF LinesBetween
  <2>3. UpTo(k) \subseteq UpTo(Consumed(s)) /\ UpTo(Consumed(s)) \subseteq pending
    BY <1>1, <1>2, <2>1
  <2>4. IsFiniteSet(UpTo(Consumed(s)))
    BY <1>3, <2>3, FS_Subset
  <2>5. /\ Cardinality(UpTo(k)) <= Cardinality(UpTo(Consumed(s)))
        /\ Cardinality(UpTo(k)) \in Nat /\ Cardinality(UpTo(Consumed(s))) \in Nat
    BY <2>3, <2>4, FS_Subset, FS_CardinalityType
  <2>6. Cardinality(UpTo(Consumed(s))) <= Batch
    BY <1>4, <1>7
  <2> HIDE DEF UpTo, pending
  <2>7. Cardinality(UpTo(k)) <= Batch
    BY <1>1, <2>5, <2>6
  <2> QED  BY <1>4, <2>2, <2>7
<1> QED  BY <1>6, <1>7, <1>8

-----------------------------------------------------------------------------
(* Every step keeps the types, and lets the files in use only grow.        *)

LEMMA FirstLineType == ASSUME NEW f \in Inode PROVE FirstLine(f) \in FirstOf
<1>1. CASE f.lines = <<>>
  BY <1>1 DEF FirstLine, FirstOf
<1>2. CASE f.lines # <<>>
  <2>1. Head(f.lines) \in Line
    BY <1>2 DEF Inode
  <2> QED  BY <1>2, <2>1 DEF FirstLine, FirstOf, Line
<1> QED  BY <1>1, <1>2

LEMMA NoSpoolType == NoSpool \in Snapshot
<1>1. <<>> \in Seq(Line)
  OBVIOUS
<1> QED  BY <1>1 DEF NoSpool, Snapshot, FirstOf

LEMMA ReadSpoolType ==
  ASSUME SpoolType
  PROVE  ReadSpool \in Snapshot
<1>1. CASE path = None
  BY <1>1, NoSpoolType DEF ReadSpool
<1>2. CASE path # None
  <2>1. path \in Ino /\ disk[path] \in Inode /\ FirstLine(disk[path]) \in FirstOf
    BY <1>2, FirstLineType DEF SpoolType
  <2>2. TrustedOffset(path) \in Nat
    BY DEF SpoolType, TrustedOffset
  <2> QED  BY <1>2, <2>1, <2>2 DEF ReadSpool, Snapshot, Inode
<1> QED  BY <1>1, <1>2

(* A step rewrites one file at most: a new one, or one that grows.         *)
LEMMA OneFile ==
  ASSUME SpoolType, Handles, Next
  PROVE  \/ UNCHANGED disk
         \/ \E i \in Ino, f \in Inode : /\ disk' = [disk EXCEPT ![i] = f]
                                        /\ Free(i) \/ Grows(disk[i], f)
<1>1. ASSUME NEW r \in Rec, OpenSpool(r)
      PROVE  \/ UNCHANGED disk
             \/ \E i \in Ino : Free(i) /\ disk' = [disk EXCEPT ![i] = NewFile]
  BY <1>1 DEF OpenSpool, OpenForAppend
<1>2. ASSUME NEW r \in Rec, WriteRecord(r)
      PROVE  \/ UNCHANGED disk
             \/ \E i \in Ino, f \in Inode : disk' = [disk EXCEPT ![i] = f] /\ Grows(disk[i], f)
  <2>1. fd[r] \in Ino /\ disk[fd[r]] \in Inode
    BY <1>2 DEF WriteRecord, Handles, SpoolType
  <2>2. \/ disk' = [disk EXCEPT ![fd[r]] = Extend(disk[fd[r]], r)]
        \/ disk' = [disk EXCEPT ![fd[r]] = Tear(disk[fd[r]], r)]
        \/ UNCHANGED disk
    BY <1>2, <2>1 DEF WriteRecord, SpoolType
  <2> QED  BY <2>1, <2>2, ExtendGrows, TearGrows
<1>3. ASSUME NEW r \in Rec, TerminateFragment(r)
      PROVE  \/ UNCHANGED disk
             \/ \E i \in Ino, f \in Inode : /\ disk' = [disk EXCEPT ![i] = f]
                                            /\ Free(i) \/ Grows(disk[i], f)
  <2> SUFFICES ASSUME NEW i \in Ino, IF path # None THEN i = path ELSE Free(i),
                      disk' = [disk EXCEPT ![i] = Terminate(IF path = None THEN NewFile ELSE @)]
               PROVE  \E f \in Inode : /\ disk' = [disk EXCEPT ![i] = f]
                                       /\ Free(i) \/ Grows(disk[i], f)
    BY <1>3 DEF TerminateFragment
  <2>1. disk[i] \in Inode /\ disk' = [disk EXCEPT ![i] =
                                        Terminate(IF path = None THEN NewFile ELSE disk[i])]
    BY DEF SpoolType
  <2> QED  BY <2>1, TerminateGrows, NewFileIsEmpty
<1>4. ASSUME NEW w \in Worker, PutBack(w)
      PROVE  \/ UNCHANGED disk
             \/ \E i \in Ino, f \in Inode : /\ disk' = [disk EXCEPT ![i] = f]
                                            /\ Free(i) \/ Grows(disk[i], f)
  <2> SUFFICES ASSUME tail[w] # <<>>, NEW i \in Ino, IF path # None THEN i = path ELSE Free(i),
                      disk' = [disk EXCEPT ![i] =
                                 Join(IF path = None THEN NewFile ELSE @, tail[w])]
               PROVE  \E f \in Inode : /\ disk' = [disk EXCEPT ![i] = f]
                                       /\ Free(i) \/ Grows(disk[i], f)
    BY <1>4 DEF PutBack
  <2>1. /\ disk[i] \in Inode /\ tail[w] \in Seq(Line)
        /\ disk' = [disk EXCEPT ![i] = Join(IF path = None THEN NewFile ELSE disk[i], tail[w])]
    BY DEF SpoolType
  <2> QED  BY <2>1, JoinGrows, NewFileIsEmpty
<1>5. ASSUME Age
      PROVE  \E i \in Ino, f \in Inode : disk' = [disk EXCEPT ![i] = f] /\ Grows(disk[i], f)
  <2> DEFINE old == disk[path]
             f == [old EXCEPT !.age = IF @ = "fresh" THEN "quiet" ELSE "old"]
  <2>1. path \in Ino /\ old \in Inode /\ disk' = [disk EXCEPT ![path] = f]
    BY <1>5 DEF Age, SpoolType
  <2>2. f \in Inode /\ f.lines = old.lines /\ f.torn = old.torn
    BY <2>1 DEF Inode
  <2>3. Grows(old, f)
    BY <2>1, <2>2 DEF Grows, Inode
  <2> QED  BY <2>1, <2>2, <2>3
<1>6. ASSUME NEW r \in Rec, Start(r) \/ StatAfterWrite(r) \/ Refuse(r) \/ KillAppender(r)
      PROVE  UNCHANGED disk
  BY <1>6 DEF Start, StatAfterWrite, Refuse, KillAppender, store
<1>7. ASSUME NEW w \in Worker,
             \/ FlushRead(w) \/ FlushStep(w) \/ ReapRead(w) \/ OpenForRemoval(w) \/ CheckSafe(w)
             \/ CountExpired(w) \/ RemoveCursor(w) \/ Unlink(w) \/ ReadTail(w) \/ KillWorker(w)
      PROVE  UNCHANGED disk
  BY <1>7 DEF FlushRead, FlushStep, Post, CountBatch, IdentifyFile, MoveCursor, ReapRead,
     OpenForRemoval, CheckSafe, CountExpired, RemoveCursor, Unlink, ReadTail, KillWorker,
         store
<1>8. CASE EndSession \/ Resume
  BY <1>8 DEF EndSession, Resume, store
<1> QED  BY <1>1, <1>2, <1>3, <1>4, <1>5, <1>6, <1>7, <1>8, NewFileIsEmpty
         DEF Next, AppendStep, ReapStep

LEMMA FilesGrow ==
  ASSUME SpoolType, Handles, [Next]_vars
  PROVE  /\ disk' \in [Ino -> Inode]
         /\ \A i \in Ino : ~Free(i) => Grows(disk[i], disk'[i])
<1>1. CASE UNCHANGED disk
  BY <1>1, GrowsFromItself DEF SpoolType
<1>2. ASSUME NEW i \in Ino, NEW f \in Inode, disk' = [disk EXCEPT ![i] = f],
             Free(i) \/ Grows(disk[i], f)
      PROVE  /\ disk' \in [Ino -> Inode]
             /\ \A j \in Ino : ~Free(j) => Grows(disk[j], disk'[j])
  BY <1>2, GrowsFromItself DEF SpoolType
<1>3. CASE UNCHANGED vars
  BY <1>1, <1>3 DEF vars, store
<1> QED  BY <1>1, <1>2, <1>3, OneFile

(* The name stays with its file until a reaper unlinks it.                 *)
LEMMA NameStays ==
  ASSUME SpoolType, [Next]_vars
  PROVE  /\ path' \in Ino \cup {None}
         /\ path # None => path' = path \/ \E w \in Worker : Unlink(w)
<1>1. ASSUME NEW r \in Rec, Start(r) \/ AppendStep(r) \/ KillAppender(r)
      PROVE  path' \in Ino \cup {None} /\ (path # None => path' = path)
  BY <1>1 DEF Start, AppendStep, OpenSpool, OpenForAppend, WriteRecord, StatAfterWrite,
     TerminateFragment, Refuse, KillAppender, store, SpoolType
<1>2. ASSUME NEW w \in Worker, PutBack(w)
      PROVE  path' \in Ino \cup {None} /\ (path # None => path' = path)
  BY <1>2 DEF PutBack, SpoolType
<1>3. ASSUME NEW w \in Worker, Unlink(w) PROVE path' = None
  BY <1>3 DEF Unlink
<1>4. ASSUME NEW w \in Worker,
             \/ FlushRead(w) \/ FlushStep(w) \/ ReapRead(w) \/ OpenForRemoval(w) \/ CheckSafe(w)
             \/ CountExpired(w) \/ RemoveCursor(w) \/ ReadTail(w) \/ KillWorker(w)
      PROVE  UNCHANGED path
  BY <1>4 DEF FlushRead, FlushStep, Post, CountBatch, IdentifyFile, MoveCursor, ReapRead,
     OpenForRemoval, CheckSafe, CountExpired, RemoveCursor, ReadTail, KillWorker, store
<1>5. EndSession \/ Resume \/ Age \/ UNCHANGED vars => UNCHANGED path
  BY DEF EndSession, Resume, Age, store, vars
<1> QED  BY <1>1, <1>2, <1>3, <1>4, <1>5 DEF Next, ReapStep, SpoolType

(* The drops of a batch, and of a remainder, are records.                  *)
LEMMA SentType ==
  ASSUME NEW s \in Snapshot, NEW kinds
  PROVE  RecordsAt(s.lines, BatchOf(s), kinds) \in SUBSET (Rec \cup {None})
<1>1. \A k \in BatchOf(s) : k \in 1..Len(s.lines)
  <2>1. Len(s.lines) \in Nat /\ s.offset \in Nat
    BY DEF Snapshot
  <2> QED  BY <2>1 DEF BatchOf, LinesBetween
<1>2. \A k \in 1..Len(s.lines) : s.lines[k] \in Line
  BY DEF Snapshot
<1> QED  BY <1>1, <1>2 DEF RecordsAt, Line

LEMMA AppenderType ==
  ASSUME SpoolType, NEW r \in Rec, Start(r) \/ AppendStep(r) \/ KillAppender(r)
  PROVE  pc' \in [Rec -> Labels] /\ fd' \in [Rec -> Ino \cup {None}] /\ acked' \subseteq Rec
<1> USE DEF SpoolType, Goto, At, Returns
<1>1. CASE Start(r)
  BY <1>1 DEF Start, Labels
<1>2. CASE OpenSpool(r)
  BY <1>2 DEF OpenSpool, Labels
<1>3. CASE WriteRecord(r)
  BY <1>3 DEF WriteRecord, Labels
<1>4. CASE StatAfterWrite(r)
  BY <1>4 DEF StatAfterWrite, Labels
<1>5. CASE TerminateFragment(r)
  BY <1>5 DEF TerminateFragment, Labels
<1>6. CASE Refuse(r)
  BY <1>6 DEF Refuse, Labels
<1>7. CASE KillAppender(r)
  BY <1>7 DEF KillAppender, Labels
<1> QED  BY <1>1, <1>2, <1>3, <1>4, <1>5, <1>6, <1>7 DEF AppendStep

WorkerTypes ==
  /\ wpc \in [Worker -> WLabels]
  /\ snap \in [Worker -> Snapshot]
  /\ hnd \in [Worker -> Ino \cup {None}]
  /\ tail \in [Worker -> Seq(Line)]
  /\ cursor \in [ino : Ino \cup {None}, first : FirstOf, offset : Nat]

LEMMA LeaveType ==
  ASSUME SpoolType, NEW w \in Worker, Leave(w), UNCHANGED cursor
  PROVE  WorkerTypes'
<1>1. <<>> \in Seq(Line)
  OBVIOUS
<1> QED  BY <1>1, NoSpoolType DEF Leave, WGoto, SpoolType, WorkerTypes, WLabels

(* What a batch leaves in the snapshot of its worker.                      *)
LEMMA PostedType ==
  ASSUME NEW s \in Snapshot, NEW n \in Nat, NEW d \in SUBSET (Rec \cup {None})
  PROVE  /\ [s EXCEPT !.lines = <<>>, !.offset = n, !.drops = d] \in Snapshot
         /\ [s EXCEPT !.drops = d] \in Snapshot
<1>1. <<>> \in Seq(Line)
  OBVIOUS
<1> QED  BY <1>1 DEF Snapshot

LEMMA WorkerType ==
  ASSUME SpoolType, Workers, NEW w \in Worker,
         FlushRead(w) \/ FlushStep(w) \/ ReapRead(w) \/ ReapStep(w) \/ KillWorker(w)
  PROVE  WorkerTypes'
<1> USE DEF SpoolType, WGoto, WAt, WorkerTypes
<1>1. CASE FlushRead(w)
  BY <1>1, ReadSpoolType DEF FlushRead, WLabels, store
<1>2. CASE Post(w)
  <2> DEFINE s == snap[w]
             sent == RecordsAt(s.lines, BatchOf(s), {"whole"})
             torn == RecordsAt(s.lines, BatchOf(s), {"glued", "frag"})
  <2>1. UNCHANGED cursor
    BY <1>2 DEF Post, store
  <2>2. CASE Leave(w)
    BY <2>1, <2>2, LeaveType
  <2>3. ASSUME NEW rejected \in SUBSET sent,
               snap' = [snap EXCEPT ![w] = [@ EXCEPT !.lines = <<>>, !.offset = Consumed(snap[w]),
                                                     !.drops = torn \cup rejected]],
               WGoto(w, "count"), UNCHANGED <<hnd, tail>>
        PROVE  WorkerTypes'
    <3>1. s \in Snapshot /\ Backlog(s)
      BY <1>2 DEF Post, Workers, WorkerHolds
    <3>2. Consumed(s) \in Nat
      <4>1. Consumed(s) \in 1..Len(s.lines) /\ Len(s.lines) \in Nat
        BY <3>1, ConsumedIsSent DEF Snapshot
      <4> QED  BY <4>1
    <3>3. torn \cup rejected \in SUBSET (Rec \cup {None})
      BY <3>1, SentType
    <3> DEFINE posted == [s EXCEPT !.lines = <<>>, !.offset = Consumed(s),
                                   !.drops = torn \cup rejected]
    <3>4. posted \in Snapshot
      <4> HIDE DEF s, torn
      <4> QED  BY <3>1, <3>2, <3>3, PostedType
    <3>5. snap' = [snap EXCEPT ![w] = posted]
      BY <2>3
    <3> HIDE DEF posted
    <3> QED  BY <2>1, <2>3, <3>4, <3>5 DEF WLabels
  <2> QED  BY <1>2, <2>2, <2>3 DEF Post
<1>3. CASE CountBatch(w)
  BY <1>3 DEF CountBatch, WLabels, store
<1>4. CASE IdentifyFile(w)
  BY <1>4, LeaveType DEF IdentifyFile, WLabels, store
<1>5. CASE MoveCursor(w)
  <2>1. wpc' \in [Worker -> WLabels] /\ snap' \in [Worker -> Snapshot]
        /\ hnd' \in [Worker -> Ino \cup {None}] /\ tail' \in [Worker -> Seq(Line)]
    <3>1. <<>> \in Seq(Line)
      OBVIOUS
    <3> QED  BY <1>5, <3>1, NoSpoolType DEF MoveCursor, Leave, WLabels
  <2>2. cursor' \in [ino : Ino \cup {None}, first : FirstOf, offset : Nat]
    BY <1>5 DEF MoveCursor, Snapshot
  <2> QED  BY <2>1, <2>2
<1>6. CASE ReapRead(w)
  BY <1>6, ReadSpoolType DEF ReapRead, WLabels, store
<1>7. CASE OpenForRemoval(w)
  BY <1>7, LeaveType DEF OpenForRemoval, WLabels, store
<1>8. CASE CheckSafe(w)
  BY <1>8, LeaveType DEF CheckSafe, WLabels, store
<1>9. CASE CountExpired(w)
  BY <1>9 DEF CountExpired, WLabels, store
<1>10. CASE RemoveCursor(w)
  BY <1>10 DEF RemoveCursor, WLabels, NoCursor, FirstOf
<1>11. CASE Unlink(w)
  BY <1>11 DEF Unlink, WLabels
<1>12. CASE ReadTail(w)
  <2>1. UNCHANGED cursor
    BY <1>12 DEF ReadTail, store
  <2>2. CASE Leave(w)
    BY <2>1, <2>2, LeaveType
  <2>3. CASE ~Leave(w)
    <3> DEFINE s == snap[w]
               inode == disk[hnd[w]]
               left == [s EXCEPT !.drops = {inode.torn} \ {None}]
    <3>1. s \in Snapshot /\ inode \in Inode /\ Grows(s, inode)
      BY <1>12 DEF ReadTail, Workers, WorkerHolds
    <3>2. tail' = [tail EXCEPT ![w] = Grown(inode, s)] /\ WGoto(w, "putback") /\ UNCHANGED hnd
      BY <1>12, <2>3 DEF ReadTail
    <3>3. snap' = [snap EXCEPT ![w] = left]
      BY <1>12, <2>3 DEF ReadTail
    <3>4. left \in Snapshot
      <4>1. {inode.torn} \ {None} \in SUBSET (Rec \cup {None})
        BY <3>1 DEF Inode
      <4> HIDE DEF s, inode
      <4> QED  BY <3>1, <4>1, PostedType
    <3>5. Grown(inode, s) \in Seq(Line)
      BY <3>1, GrownHolds
    <3> HIDE DEF left, s, inode
    <3> QED  BY <2>1, <3>2, <3>3, <3>4, <3>5 DEF WLabels
  <2> QED  BY <2>2, <2>3
<1>13. CASE PutBack(w)
  BY <1>13, LeaveType DEF PutBack
<1>14. CASE KillWorker(w)
  BY <1>14, LeaveType DEF KillWorker, store
<1> QED  BY <1>1, <1>2, <1>3, <1>4, <1>5, <1>6, <1>7, <1>8, <1>9, <1>10, <1>11, <1>12,
            <1>13, <1>14 DEF FlushStep, ReapStep

LEMMA TypeStep ==
  ASSUME SpoolType, Handles, Workers, [Next]_vars
  PROVE  SpoolType'
<1>1. disk' \in [Ino -> Inode] /\ path' \in Ino \cup {None}
  BY FilesGrow, NameStays
<1>2. ASSUME NEW r \in Rec, Start(r) \/ AppendStep(r) \/ KillAppender(r)
      PROVE  SpoolType'
  <2>1. UNCHANGED <<cursor, live, workers>>
    BY <1>2 DEF Start, AppendStep, OpenSpool, WriteRecord, StatAfterWrite,
       TerminateFragment, Refuse, KillAppender, store
  <2> QED  BY <1>1, <1>2, <2>1, AppenderType DEF SpoolType, workers
<1>3. ASSUME NEW w \in Worker,
             FlushRead(w) \/ FlushStep(w) \/ ReapRead(w) \/ ReapStep(w) \/ KillWorker(w)
      PROVE  SpoolType'
  <2>1. UNCHANGED <<live, appenders>>
    BY <1>3 DEF FlushRead, FlushStep, Post, CountBatch, IdentifyFile, MoveCursor, ReapRead,
       ReapStep, OpenForRemoval, CheckSafe, CountExpired, RemoveCursor, Unlink, ReadTail,
       PutBack, KillWorker
  <2> QED  BY <1>1, <1>3, <2>1, WorkerType DEF SpoolType, WorkerTypes, appenders
<1>4. EndSession \/ Resume \/ Age \/ UNCHANGED vars
        => live' \in BOOLEAN /\ UNCHANGED <<cursor, appenders, workers>>
  BY DEF EndSession, Resume, Age, vars, store, SpoolType
<1>5. CASE EndSession \/ Resume \/ Age \/ UNCHANGED vars
  BY <1>1, <1>4, <1>5 DEF SpoolType, appenders, workers
<1> QED  BY <1>2, <1>3, <1>5 DEF Next

-----------------------------------------------------------------------------
(* Handles, and the one worker.                                            *)

LEMMA HoldsOn ==
  ASSUME NEW a, NEW b, Len(a.lines) \in Nat, Len(b.lines) \in Nat, Grows(a, b), NEW r,
         Holds(a.lines, r)
  PROVE  Holds(b.lines, r)
  BY DEF Grows, Holds

LEMMA HandlesStep ==
  ASSUME SpoolType, Handles, [Next]_vars
  PROVE  Handles'
<1> DEFINE Kept(r) == /\ pc'[r] \in {"write", "rewrite", "stat", "restat"} => fd'[r] \in Ino
                      /\ pc'[r] \in {"stat", "restat"} => Holds(disk'[fd'[r]].lines, r)
<1>1. ASSUME NEW r \in Rec, pc'[r] = pc[r], fd'[r] = fd[r] PROVE Kept(r)
  <2> SUFFICES ASSUME pc[r] \in {"stat", "restat"} PROVE Holds(disk'[fd[r]].lines, r)
    BY <1>1 DEF Handles
  <2>1. fd[r] \in Ino /\ Holds(disk[fd[r]].lines, r)
    BY DEF Handles
  <2>2. ~Free(fd[r])
    BY DEF Free
  <2>3. Grows(disk[fd[r]], disk'[fd[r]])
    BY <2>1, <2>2, FilesGrow
  <2>4. disk[fd[r]] \in Inode /\ disk'[fd[r]] \in Inode
    BY <2>1, FilesGrow DEF SpoolType
  <2> QED  BY <2>1, <2>3, <2>4, HoldsOn DEF Inode
<1>2. ASSUME NEW r \in Rec, Start(r) \/ AppendStep(r) \/ KillAppender(r)
      PROVE  \A q \in Rec : Kept(q)
  <2> USE DEF SpoolType, Goto, At, Returns
  <2>1. \A q \in Rec \ {r} : pc'[q] = pc[q] /\ fd'[q] = fd[q]
    BY <1>2 DEF Start, AppendStep, OpenSpool, WriteRecord, StatAfterWrite,
       TerminateFragment, Refuse, KillAppender
  <2>2. ASSUME OpenSpool(r) PROVE Kept(r)
    BY <2>2 DEF OpenSpool
  <2>3. ASSUME WriteRecord(r) PROVE Kept(r)
    <3>1. fd[r] \in Ino /\ disk[fd[r]] \in Inode
      BY <2>3 DEF WriteRecord, Handles
    <3>2. CASE disk' = [disk EXCEPT ![fd[r]] = Extend(@, r)] /\ UNCHANGED fd
      <4>1. disk'[fd[r]] = Extend(disk[fd[r]], r)
        BY <3>1, <3>2
      <4>2. Holds(disk'[fd[r]].lines, r)
        BY <3>1, <4>1, ExtendGrows
      <4> QED  BY <3>1, <3>2, <4>2
    <3>3. CASE pc'[r] \in {"terminate", "refuse"}
      BY <3>3
    <3> QED  BY <2>3, <3>2, <3>3 DEF WriteRecord
  <2>4. ASSUME \/ Start(r) \/ StatAfterWrite(r) \/ TerminateFragment(r)
               \/ Refuse(r) \/ KillAppender(r)
        PROVE  Kept(r)
    BY <2>4 DEF Start, StatAfterWrite, TerminateFragment, Refuse, KillAppender
  <2> HIDE DEF Kept
  <2>5. Kept(r)
    BY <1>2, <2>2, <2>3, <2>4 DEF AppendStep
  <2> QED  BY <1>1, <2>1, <2>5
<1>3. ASSUME NEW w \in Worker,
             FlushRead(w) \/ FlushStep(w) \/ ReapRead(w) \/ ReapStep(w) \/ KillWorker(w)
      PROVE  UNCHANGED <<pc, fd>>
  BY <1>3 DEF FlushRead, FlushStep, Post, CountBatch, IdentifyFile, MoveCursor, ReapRead,
     ReapStep, OpenForRemoval, CheckSafe, CountExpired, RemoveCursor, Unlink, ReadTail,
     PutBack, KillWorker, appenders
<1>4. EndSession \/ Resume \/ Age \/ UNCHANGED vars => UNCHANGED <<pc, fd>>
  BY DEF EndSession, Resume, Age, vars, appenders
<1>5. \A r \in Rec : Kept(r)
  <2> HIDE DEF Kept
  <2> QED  BY <1>1, <1>2, <1>3, <1>4 DEF Next
<1> QED  BY <1>5 DEF Handles

(* A worker that is not idle is the one that moves, or nobody enters.      *)
LEMMA OneWorkerStep ==
  ASSUME SpoolType, OneWorker, [Next]_vars
  PROVE  OneWorker'
<1> USE DEF WAt, WGoto, SpoolType
<1>1. CASE UNCHANGED wpc
  BY <1>1 DEF OneWorker
<1>2. ASSUME NEW w \in Worker, FlushRead(w) \/ ReapRead(w)
      PROVE  /\ \A v \in Worker : wpc[v] = "idle"
             /\ \A v \in Worker \ {w} : wpc'[v] = wpc[v]
  BY <1>2 DEF FlushRead, ReapRead, MayEnter
<1>3. ASSUME NEW w \in Worker, FlushStep(w) \/ ReapStep(w) \/ KillWorker(w)
      PROVE  wpc[w] # "idle" /\ \A v \in Worker \ {w} : wpc'[v] = wpc[v]
  BY <1>3 DEF FlushStep, Post, CountBatch, IdentifyFile, MoveCursor,
     ReapStep, OpenForRemoval, CheckSafe, CountExpired, RemoveCursor, Unlink, ReadTail,
     PutBack, KillWorker, Leave
<1>4. ASSUME NEW r \in Rec, Start(r) \/ AppendStep(r) \/ KillAppender(r)
      PROVE  UNCHANGED wpc
  BY <1>4 DEF Start, AppendStep, OpenSpool, WriteRecord, StatAfterWrite,
     TerminateFragment, Refuse, KillAppender, workers
<1>5. EndSession \/ Resume \/ Age \/ UNCHANGED vars => UNCHANGED wpc
  BY DEF EndSession, Resume, Age, vars, workers
<1>6. ASSUME NEW w \in Worker, FlushRead(w) \/ ReapRead(w) PROVE OneWorker'
  BY <1>2, <1>6 DEF OneWorker
<1>7. ASSUME NEW w \in Worker, FlushStep(w) \/ ReapStep(w) \/ KillWorker(w) PROVE OneWorker'
  BY <1>3, <1>7 DEF OneWorker
<1> QED  BY <1>1, <1>4, <1>5, <1>6, <1>7 DEF Next

-----------------------------------------------------------------------------
(* The cursor and the worker.                                              *)

LEMMA HeardGrows == [Next]_vars => Heard \subseteq Heard'
<1> SUFFICES ASSUME [Next]_vars PROVE delivered \subseteq delivered' /\ counted \subseteq counted'
  BY DEF Heard
<1>1. ASSUME NEW r \in Rec, Start(r) \/ AppendStep(r) \/ KillAppender(r)
      PROVE  delivered \subseteq delivered' /\ counted \subseteq counted'
  BY <1>1 DEF Start, AppendStep, OpenSpool, WriteRecord, StatAfterWrite,
     TerminateFragment, Refuse, KillAppender
<1>2. ASSUME NEW w \in Worker, Post(w) \/ CountBatch(w) \/ CountExpired(w) \/ PutBack(w)
      PROVE  delivered \subseteq delivered' /\ counted \subseteq counted'
  BY <1>2 DEF Post, CountBatch, CountExpired, PutBack
<1>3. ASSUME NEW w \in Worker,
             \/ FlushRead(w) \/ IdentifyFile(w) \/ MoveCursor(w) \/ ReapRead(w)
             \/ OpenForRemoval(w) \/ CheckSafe(w) \/ RemoveCursor(w) \/ Unlink(w)
             \/ ReadTail(w) \/ KillWorker(w)
      PROVE  delivered \subseteq delivered' /\ counted \subseteq counted'
  BY <1>3 DEF FlushRead, IdentifyFile, MoveCursor, ReapRead, OpenForRemoval, CheckSafe,
     RemoveCursor, Unlink, ReadTail, KillWorker
<1>4. EndSession \/ Resume \/ Age \/ UNCHANGED vars => UNCHANGED <<delivered, counted>>
  BY DEF EndSession, Resume, Age, vars
<1> QED  BY <1>1, <1>2, <1>3, <1>4 DEF Next, FlushStep, ReapStep

LEMMA CursorMoves ==
  ASSUME [Next]_vars
  PROVE  UNCHANGED cursor \/ \E w \in Worker : MoveCursor(w) \/ RemoveCursor(w)
<1>1. ASSUME NEW r \in Rec, Start(r) \/ AppendStep(r) \/ KillAppender(r)
      PROVE  UNCHANGED cursor
  BY <1>1 DEF Start, AppendStep, OpenSpool, WriteRecord, StatAfterWrite,
     TerminateFragment, Refuse, KillAppender, store
<1>2. ASSUME NEW w \in Worker,
             \/ FlushRead(w) \/ Post(w) \/ CountBatch(w) \/ IdentifyFile(w) \/ ReapRead(w)
             \/ OpenForRemoval(w) \/ CheckSafe(w) \/ CountExpired(w) \/ Unlink(w)
             \/ ReadTail(w) \/ PutBack(w) \/ KillWorker(w)
      PROVE  UNCHANGED cursor
  BY <1>2 DEF FlushRead, Post, CountBatch, IdentifyFile, ReapRead, OpenForRemoval,
      CheckSafe,
     CountExpired, Unlink, ReadTail, PutBack, KillWorker, store
<1>3. EndSession \/ Resume \/ Age \/ UNCHANGED vars => UNCHANGED cursor
  BY DEF EndSession, Resume, Age, vars, store
<1> QED  BY <1>1, <1>2, <1>3 DEF Next, FlushStep, ReapStep

(* What was settled stays settled in a file that grows.                    *)
LEMMA SettledOn ==
  ASSUME NEW a, NEW b, Len(a.lines) \in Nat, Len(b.lines) \in Nat, Grows(a, b),
         NEW n \in Nat, NEW records, NEW more, records \subseteq more,
         SettledUpTo(a.lines, n, records)
  PROVE  SettledUpTo(b.lines, n, more)
<1>1. n <= Len(b.lines)
  BY DEF Grows, SettledUpTo
<1>2. \A k \in 1..n : k \in 1..Len(a.lines) /\ b.lines[k] = a.lines[k]
  BY DEF Grows, SettledUpTo
<1> QED  BY <1>1, <1>2 DEF SettledUpTo

(* The file that has the name, from one step to the next.                  *)
LEMMA NamedGrows ==
  ASSUME SpoolType, Handles, [Next]_vars, path # None
  PROVE  /\ path \in Ino /\ Grows(disk[path], disk'[path])
         /\ Len(disk[path].lines) \in Nat /\ Len(disk'[path].lines) \in Nat
<1>1. path \in Ino /\ ~Free(path)
  BY DEF SpoolType, Free
<1>2. disk[path] \in Inode /\ disk'[path] \in Inode
  BY <1>1, FilesGrow DEF SpoolType
<1> QED  BY <1>1, <1>2, FilesGrow DEF Inode

LEMMA CursorStep ==
  ASSUME IInv, [Next]_vars
  PROVE  CursorHolds'
<1> USE DEF IInv
<1>1. ASSUME UNCHANGED cursor PROVE CursorHolds'
  <2> SUFFICES ASSUME cursor.ino # None
               PROVE  cursor.ino = path' /\ SettledUpTo(disk'[path'].lines, cursor.offset, Heard')
    BY <1>1 DEF CursorHolds
  <2>1. cursor.ino = path /\ SettledUpTo(disk[path].lines, cursor.offset, Heard)
    BY DEF CursorHolds
  <2>2. path' = path
    <3>1. \A w \in Worker : ~Unlink(w)
      BY DEF Unlink, WAt, Workers, WorkerHolds
    <3> QED  BY <2>1, <3>1, NameStays
  <2>3. cursor.offset \in Nat
    BY DEF SpoolType
  <2> QED  BY <2>1, <2>2, <2>3, NamedGrows, SettledOn, HeardGrows
<1>2. ASSUME NEW w \in Worker, MoveCursor(w) PROVE CursorHolds'
  <2>1. /\ cursor' = [ino |-> snap[w].ino, first |-> snap[w].first, offset |-> snap[w].offset]
        /\ UNCHANGED <<path, disk, delivered, counted>> /\ wpc[w] = "move"
    BY <1>2 DEF MoveCursor, WAt
  <2>2. snap[w].ino = path /\ SettledUpTo(disk[path].lines, snap[w].offset, Heard)
    BY <2>1 DEF Workers, WorkerHolds, Named
  <2> QED  BY <2>1, <2>2 DEF CursorHolds, Heard
<1>3. ASSUME NEW w \in Worker, RemoveCursor(w) PROVE CursorHolds'
  BY <1>3 DEF RemoveCursor, NoCursor, CursorHolds
<1> QED  BY <1>1, <1>2, <1>3, CursorMoves

(* The cursor a flush trusts stands behind settled lines.                  *)
LEMMA TrustedIsSettled ==
  ASSUME SpoolType, CursorHolds, path # None
  PROVE  TrustedOffset(path) \in Nat
         /\ SettledUpTo(disk[path].lines, TrustedOffset(path), Heard)
<1>1. path \in Ino /\ Len(disk[path].lines) \in Nat /\ cursor.offset \in Nat
  BY DEF SpoolType, Inode
<1>2. CASE TrustedOffset(path) = 0
  BY <1>1, <1>2 DEF SettledUpTo
<1>3. CASE TrustedOffset(path) # 0
  <2>1. cursor.ino = path /\ TrustedOffset(path) = cursor.offset
    BY <1>3 DEF TrustedOffset
  <2> QED  BY <1>1, <2>1 DEF CursorHolds
<1> QED  BY <1>2, <1>3

(* A worker that rests while somebody else moves.                          *)
LEMMA WorkerRests ==
  ASSUME IInv, [Next]_vars, NEW w \in Worker,
         wpc'[w] = wpc[w], snap'[w] = snap[w], hnd'[w] = hnd[w],
         wpc[w] # "idle" => UNCHANGED cursor /\ (path # None => path' = path)
  PROVE  WorkerHolds(w)'
<1> USE DEF IInv
<1>1. WorkerHolds(w)
  BY DEF Workers
<1> DEFINE s == snap[w]
<1>2. /\ s.offset \in Nat /\ Len(s.lines) \in Nat
      /\ Heard \subseteq Heard' /\ Heard \cup s.drops \subseteq Heard' \cup s.drops
  BY HeardGrows DEF SpoolType, Snapshot
<1>3. CASE wpc[w] \in Named
  <2>1. path # None /\ s.ino = path /\ path' = path
    BY <1>1, <1>3 DEF WorkerHolds, Named
  <2>2. /\ Grows(disk[path], disk'[path])
        /\ Len(disk[path].lines) \in Nat /\ Len(disk'[path].lines) \in Nat
    BY <2>1, NamedGrows
  <2>3. Grows(s, disk[path]) => Grows(s, disk'[path])
    BY <1>2, <2>2, GrowsOn
  <2>4. \A n \in Nat : SettledUpTo(s.lines, n, Heard) => SettledUpTo(s.lines, n, Heard')
    BY <1>2 DEF SettledUpTo
  <2>5. /\ SettledUpTo(disk[path].lines, s.offset, Heard)
             => SettledUpTo(disk'[path].lines, s.offset, Heard')
        /\ SettledUpTo(disk[path].lines, s.offset, Heard \cup s.drops)
             => SettledUpTo(disk'[path].lines, s.offset, Heard' \cup s.drops)
    <3> DEFINE a == disk[path]
               b == disk'[path]
               n == s.offset
    <3>1. ASSUME NEW old, NEW new, old \subseteq new, SettledUpTo(a.lines, n, old)
          PROVE  SettledUpTo(b.lines, n, new)
      <4>1. n \in Nat /\ Grows(a, b) /\ Len(a.lines) \in Nat /\ Len(b.lines) \in Nat
        BY <1>2, <2>2
      <4> HIDE DEF a, b, n
      <4> QED  BY <3>1, <4>1, SettledOn
    <3>2. Heard \subseteq Heard' /\ Heard \cup s.drops \subseteq Heard' \cup s.drops
      BY <1>2
    <3> QED  BY <3>1, <3>2
  <2> HIDE DEF s
  <2>6. wpc[w] \notin {"rescue", "putback"}
    BY <1>3 DEF Named
  <2> QED  BY <1>1, <1>2, <1>3, <2>1, <2>3, <2>4, <2>5, <2>6 DEF WorkerHolds, s, Named
<1>4. CASE wpc[w] = "rescue"
  <2>1. hnd[w] \in Ino /\ Grows(s, disk[hnd[w]]) /\ cursor.ino = None
    BY <1>1, <1>4 DEF WorkerHolds
  <2>2. ~Free(hnd[w])
    BY DEF Free
  <2>3. disk[hnd[w]] \in Inode /\ disk'[hnd[w]] \in Inode
    BY <2>1, FilesGrow DEF SpoolType
  <2>4. /\ Grows(disk[hnd[w]], disk'[hnd[w]])
        /\ Len(disk[hnd[w]].lines) \in Nat /\ Len(disk'[hnd[w]].lines) \in Nat
    BY <2>1, <2>2, <2>3, FilesGrow DEF Inode
  <2>5. Grows(s, disk'[hnd[w]])
    <3> HIDE DEF s
    <3> QED  BY <1>2, <2>1, <2>4, GrowsOn
  <2> QED  BY <1>4, <2>1, <2>5 DEF WorkerHolds, Named
<1>5. CASE wpc[w] \in {"idle", "putback"}
  BY <1>1, <1>5 DEF WorkerHolds, Named
<1> QED  BY <1>3, <1>4, <1>5 DEF SpoolType, WLabels, Named

LEMMA IdleHolds ==
  ASSUME NEW w \in Worker, wpc'[w] = "idle"
  PROVE  WorkerHolds(w)'
  BY DEF WorkerHolds, Named

(* A worker that leaves the lock keeps nothing.                            *)
LEMMA LeaveHolds ==
  ASSUME SpoolType, NEW w \in Worker, Leave(w)
  PROVE  WorkerHolds(w)'
  BY IdleHolds DEF Leave, WGoto, SpoolType

(* What a worker reads of the file that has the name.                      *)
LEMMA ReadHolds ==
  ASSUME SpoolType, CursorHolds, path # None
  PROVE  /\ ReadSpool.ino = path /\ Grows(ReadSpool, disk[path])
         /\ SettledUpTo(ReadSpool.lines, ReadSpool.offset, Heard)
<1>1. disk[path] \in Inode /\ ReadSpool.ino = path /\ ReadSpool.lines = disk[path].lines
      /\ ReadSpool.torn = disk[path].torn /\ ReadSpool.offset = TrustedOffset(path)
  BY DEF ReadSpool, SpoolType
<1>2. Grows(ReadSpool, disk[path])
  BY <1>1 DEF Grows, Inode
<1> QED  BY <1>1, <1>2, TrustedIsSettled

LEMMA FlushHolds ==
  ASSUME IInv, NEW w \in Worker, FlushRead(w) \/ FlushStep(w)
  PROVE  WorkerHolds(w)'
<1> USE DEF IInv, WAt, WGoto
<1>0. WorkerHolds(w) /\ wpc \in [Worker -> WLabels] /\ snap \in [Worker -> Snapshot]
  BY DEF Workers, SpoolType
<1>1. CASE FlushRead(w)
  <2>1. /\ UNCHANGED <<path, disk, delivered, counted>>
        /\ wpc'[w] = "post" /\ snap'[w] = ReadSpool /\ Backlog(ReadSpool)
    BY <1>0, <1>1 DEF FlushRead, store
  <2>2. path # None
    BY <2>1 DEF ReadSpool, NoSpool, Backlog, LinesBetween
  <2>3. /\ ReadSpool.ino = path /\ Grows(ReadSpool, disk[path])
        /\ SettledUpTo(ReadSpool.lines, ReadSpool.offset, Heard)
    BY <2>2, ReadHolds
  <2>4. Heard' = Heard
    BY <2>1 DEF Heard
  <2> HIDE DEF SettledUpTo, Grows, Backlog
  <2> QED  BY <2>1, <2>2, <2>3, <2>4 DEF WorkerHolds, Named
<1>2. CASE Post(w)
  <2> DEFINE s == snap[w]
             sent == RecordsAt(s.lines, BatchOf(s), {"whole"})
             torn == RecordsAt(s.lines, BatchOf(s), {"glued", "frag"})
  <2>1. UNCHANGED <<path, disk, counted>> /\ wpc[w] = "post"
    BY <1>2 DEF Post, store
  <2>2. /\ path # None /\ s.ino = path /\ Grows(s, disk[path])
        /\ Backlog(s) /\ SettledUpTo(s.lines, s.offset, Heard) /\ s \in Snapshot
    BY <1>0, <2>1 DEF WorkerHolds, Named
  <2>3. ASSUME NEW rejected \in SUBSET sent,
               delivered' = delivered \cup (sent \ rejected),
               snap' = [snap EXCEPT ![w] = [@ EXCEPT !.lines = <<>>, !.offset = Consumed(snap[w]),
                                                     !.drops = torn \cup rejected]],
               WGoto(w, "count")
        PROVE  WorkerHolds(w)'
    <3>1. /\ snap'[w].ino = path /\ snap'[w].offset = Consumed(s)
          /\ snap'[w].drops = torn \cup rejected /\ wpc'[w] = "count"
      BY <1>0, <2>2, <2>3 DEF Snapshot
    <3> DEFINE heard == Heard' \cup (torn \cup rejected)
    <3>2. Heard \subseteq heard /\ sent \subseteq heard /\ torn \subseteq heard
      BY <2>1, <2>3 DEF Heard
    <3>3. /\ Consumed(s) \in 1..Len(s.lines)
          /\ \A k \in 1..Consumed(s) :
               k > s.offset /\ s.lines[k].kind # "blank" => k \in BatchOf(s)
      BY <2>2, ConsumedIsSent
    <3>4. s.offset \in Nat /\ Len(s.lines) \in Nat /\ \A k \in 1..Len(s.lines) : s.lines[k] \in Line
      BY <2>2 DEF Snapshot
    <3>5. ASSUME NEW k \in 1..Consumed(s), s.lines[k].kind # "blank"
          PROVE  s.lines[k].rec \in heard
      <4>1. k \in 1..Len(s.lines)
        BY <3>3, <3>4
      <4>2. CASE k <= s.offset
        BY <2>2, <3>2, <3>4, <3>5, <4>1, <4>2 DEF SettledUpTo
      <4>3. CASE k > s.offset
        <5>1. k \in BatchOf(s)
          BY <3>3, <3>5, <4>3
        <5>2. s.lines[k].kind \in {"whole", "glued", "frag"}
          BY <3>4, <3>5, <4>1 DEF Line
        <5>3. s.lines[k].rec \in sent \/ s.lines[k].rec \in torn
          BY <5>1, <5>2 DEF RecordsAt
        <5> QED  BY <3>2, <5>3
      <4> QED  BY <3>4, <4>1, <4>2, <4>3
    <3>6. SettledUpTo(s.lines, Consumed(s), heard)
      BY <3>3, <3>4, <3>5 DEF SettledUpTo
    <3>7. Len(disk[path].lines) \in Nat /\ Consumed(s) \in Nat
      BY <2>2, <3>3, <3>4 DEF SpoolType, Inode
    <3>8. SettledUpTo(disk[path].lines, Consumed(s), heard)
      <4> HIDE DEF heard, s
      <4> QED  BY <2>2, <3>4, <3>6, <3>7, SettledOn
    <3> QED  BY <2>1, <2>2, <3>1, <3>8 DEF WorkerHolds, Named
  <2> QED  BY <1>2, <2>3, LeaveHolds DEF Post
<1>3. CASE CountBatch(w)
  <2>1. /\ UNCHANGED <<path, disk, delivered, snap>> /\ wpc[w] = "count"
        /\ wpc'[w] = "identify" /\ counted' = counted \cup snap[w].drops
    BY <1>0, <1>3 DEF CountBatch, store
  <2>2. Heard' = Heard \cup snap[w].drops
    BY <2>1 DEF Heard
  <2> QED  BY <1>0, <2>1, <2>2 DEF WorkerHolds, Named
<1>4. CASE IdentifyFile(w)
  <2>1. CASE Leave(w)
    BY <2>1, LeaveHolds
  <2>2. CASE ~Leave(w)
    <3>1. /\ UNCHANGED <<path, disk, snap, delivered, counted>> /\ wpc[w] = "identify"
          /\ wpc'[w] = "move"
      BY <1>0, <1>4, <2>2 DEF IdentifyFile, store
    <3>2. Heard' = Heard
      BY <3>1 DEF Heard
    <3> QED  BY <1>0, <3>1, <3>2 DEF WorkerHolds, Named
  <2> QED  BY <2>1, <2>2
<1>5. CASE MoveCursor(w)
  BY <1>5, LeaveHolds DEF MoveCursor
<1> QED  BY <1>1, <1>2, <1>3, <1>4, <1>5 DEF FlushStep

LEMMA ReapHolds ==
  ASSUME IInv, NEW w \in Worker, ReapRead(w) \/ ReapStep(w) \/ KillWorker(w)
  PROVE  WorkerHolds(w)'
<1> USE DEF IInv, WAt, WGoto
<1>0. /\ WorkerHolds(w) /\ wpc \in [Worker -> WLabels] /\ snap \in [Worker -> Snapshot]
      /\ hnd \in [Worker -> Ino \cup {None}] /\ path \in Ino \cup {None}
  BY DEF Workers, SpoolType
<1> DEFINE s == snap[w]
<1>1. CASE ReapRead(w)
  <2>1. /\ UNCHANGED <<path, disk, delivered, counted>>
        /\ wpc'[w] = "hold" /\ snap'[w] = ReadSpool
    BY <1>0, <1>1 DEF ReapRead, store
  <2>2. path # None
    BY <1>1 DEF ReapRead, ReadSpool, NoSpool, IsDelivered
  <2>3. /\ ReadSpool.ino = path /\ Grows(ReadSpool, disk[path])
        /\ SettledUpTo(ReadSpool.lines, ReadSpool.offset, Heard)
    BY <2>2, ReadHolds
  <2>4. Heard' = Heard
    BY <2>1 DEF Heard
  <2> QED  BY <2>1, <2>2, <2>3, <2>4 DEF WorkerHolds, Named
<1>2. ASSUME UNCHANGED <<path, disk, snap, delivered, counted>>,
             \/ wpc[w] = "hold" /\ wpc'[w] = "safe" /\ hnd' = [hnd EXCEPT ![w] = path]
             \/ wpc[w] = "safe" /\ wpc'[w] = "expire" /\ UNCHANGED hnd
      PROVE  WorkerHolds(w)'
  <2>1. Heard' = Heard /\ hnd'[w] = path
    BY <1>0, <1>2 DEF Heard, WorkerHolds
  <2> QED  BY <1>0, <1>2, <2>1 DEF WorkerHolds, Named
<1>3. CASE OpenForRemoval(w)
  BY <1>0, <1>2, <1>3, LeaveHolds DEF OpenForRemoval, store
<1>4. CASE CheckSafe(w)
  <2>1. CASE Leave(w)
    BY <2>1, LeaveHolds
  <2>2. CASE ~Leave(w)
    <3>1. /\ UNCHANGED <<path, disk, snap, hnd, delivered, counted>> /\ wpc[w] = "safe"
          /\ wpc'[w] = IF IsDelivered(s) THEN "rmcursor" ELSE "expire"
      BY <1>0, <1>4, <2>2 DEF CheckSafe, store
    <3>2. CASE ~IsDelivered(s)
      BY <1>2, <3>1, <3>2
    <3>3. CASE IsDelivered(s)
      <4>1. /\ path # None /\ s.ino = path /\ hnd[w] = path /\ Grows(s, disk[path])
            /\ SettledUpTo(s.lines, s.offset, Heard)
        BY <1>0, <3>1 DEF WorkerHolds, Named
      <4>2. s.offset \in Nat /\ Len(s.lines) \in Nat /\ s.offset >= Len(s.lines)
        BY <1>0, <3>3 DEF IsDelivered, Snapshot
      <4>3. SettledUpTo(s.lines, Len(s.lines), Heard)
        BY <4>1, <4>2 DEF SettledUpTo
      <4>4. Heard' = Heard
        BY <3>1 DEF Heard
      <4> QED  BY <3>1, <3>3, <4>1, <4>3, <4>4 DEF WorkerHolds, Named
    <3> QED  BY <3>2, <3>3
  <2> QED  BY <2>1, <2>2
<1>5. CASE CountExpired(w)
  <2> DEFINE left == LinesBetween(s.lines, s.offset, Len(s.lines))
             late == RecordsAt(s.lines, left, {"whole", "glued", "frag"})
  <2>1. /\ UNCHANGED <<path, disk, snap, hnd, delivered>> /\ counted' = counted \cup late
        /\ wpc[w] = "expire" /\ wpc'[w] = "rmcursor"
    BY <1>0, <1>5 DEF CountExpired, store
  <2>2. /\ path # None /\ s.ino = path /\ hnd[w] = path /\ Grows(s, disk[path])
        /\ SettledUpTo(s.lines, s.offset, Heard)
    BY <1>0, <2>1 DEF WorkerHolds, Named
  <2>3. s.offset \in Nat /\ Len(s.lines) \in Nat /\ \A k \in 1..Len(s.lines) : s.lines[k] \in Line
    BY <1>0 DEF Snapshot
  <2>4. Heard' = Heard \cup late
    BY <2>1 DEF Heard
  <2>5. ASSUME NEW k \in 1..Len(s.lines), s.lines[k].kind # "blank"
        PROVE  s.lines[k].rec \in Heard \cup late
    <3>1. CASE k <= s.offset
      BY <2>2, <2>3, <2>5, <3>1 DEF SettledUpTo
    <3>2. CASE k > s.offset
      <4>1. k \in left
        BY <2>3, <2>5, <3>2 DEF LinesBetween
      <4>2. s.lines[k].kind \in {"whole", "glued", "frag"}
        BY <2>3, <2>5 DEF Line
      <4> HIDE DEF left
      <4> QED  BY <4>1, <4>2 DEF RecordsAt
    <3> QED  BY <2>3, <3>1, <3>2
  <2>6. SettledUpTo(s.lines, Len(s.lines), Heard')
    BY <2>3, <2>4, <2>5 DEF SettledUpTo
  <2> QED  BY <2>1, <2>2, <2>6 DEF WorkerHolds, Named
<1>6. CASE RemoveCursor(w)
  <2>1. /\ UNCHANGED <<path, disk, snap, hnd, delivered, counted>> /\ cursor'.ino = None
        /\ wpc[w] = "rmcursor" /\ wpc'[w] = "unlink"
    BY <1>0, <1>6 DEF RemoveCursor, NoCursor
  <2>2. Heard' = Heard
    BY <2>1 DEF Heard
  <2> QED  BY <1>0, <2>1, <2>2 DEF WorkerHolds, Named
<1>7. CASE Unlink(w)
  <2>1. /\ UNCHANGED <<disk, snap, hnd, cursor>> /\ wpc[w] = "unlink" /\ wpc'[w] = "rescue"
    BY <1>0, <1>7 DEF Unlink
  <2>2. path # None /\ hnd[w] = path /\ Grows(s, disk[path]) /\ cursor.ino = None
    BY <1>0, <2>1 DEF WorkerHolds, Named
  <2> QED  BY <1>0, <2>1, <2>2 DEF WorkerHolds, Named
<1>8. CASE ReadTail(w)
  <2>1. CASE Leave(w)
    BY <2>1, LeaveHolds
  <2>2. CASE ~Leave(w)
    <3>1. UNCHANGED cursor /\ wpc[w] = "rescue" /\ wpc'[w] = "putback"
      BY <1>0, <1>8, <2>2 DEF ReadTail, store
    <3> QED  BY <1>0, <3>1 DEF WorkerHolds, Named
  <2> QED  BY <2>1, <2>2
<1>9. CASE PutBack(w) \/ KillWorker(w)
  BY <1>9, LeaveHolds DEF PutBack, KillWorker
<1> QED  BY <1>1, <1>3, <1>4, <1>5, <1>6, <1>7, <1>8, <1>9 DEF ReapStep

LEMMA WorkersStep ==
  ASSUME IInv, [Next]_vars
  PROVE  Workers'
<1> USE DEF IInv, WAt, WGoto, SpoolType
<1> SUFFICES ASSUME NEW w \in Worker PROVE WorkerHolds(w)'
  BY DEF Workers
<1>1. ASSUME NEW r \in Rec, Start(r) \/ AppendStep(r) \/ KillAppender(r)
      PROVE  WorkerHolds(w)'
  <2>1. UNCHANGED <<cursor, workers>> /\ (path # None => path' = path)
    BY <1>1 DEF Start, AppendStep, OpenSpool, OpenForAppend, WriteRecord, StatAfterWrite,
       TerminateFragment, Refuse, KillAppender, store
  <2> QED  BY <2>1, WorkerRests DEF workers
<1>2. CASE EndSession \/ Resume \/ Age \/ UNCHANGED vars
  <2>1. UNCHANGED <<path, cursor, workers>>
    <3>1. EndSession \/ Resume \/ Age \/ UNCHANGED vars => UNCHANGED <<path, cursor, workers>>
      BY DEF EndSession, Resume, Age, vars, store
    <3> QED  BY <1>2, <3>1
  <2> QED  BY <2>1, WorkerRests DEF workers
<1>3. ASSUME NEW v \in Worker,
             FlushRead(v) \/ FlushStep(v) \/ ReapRead(v) \/ ReapStep(v) \/ KillWorker(v)
      PROVE  WorkerHolds(w)'
  <2>1. CASE v = w
    BY <1>3, <2>1, FlushHolds, ReapHolds
  <2>2. CASE v # w
    <3>1. wpc[w] = "idle"
      BY <1>3, <2>2 DEF FlushRead, ReapRead, MayEnter, OneWorker, FlushStep, Post,
          CountBatch,
         IdentifyFile, MoveCursor, ReapStep, OpenForRemoval, CheckSafe, CountExpired,
         RemoveCursor, Unlink, ReadTail, PutBack, KillWorker
    <3>2. wpc'[w] = wpc[w]
      BY <1>3, <2>2 DEF FlushRead, ReapRead, FlushStep, Post, CountBatch,
         IdentifyFile, MoveCursor, ReapStep, OpenForRemoval, CheckSafe, CountExpired,
         RemoveCursor, Unlink, ReadTail, PutBack, KillWorker, Leave
    <3> QED  BY <3>1, <3>2, IdleHolds
  <2> QED  BY <2>1, <2>2
<1> QED  BY <1>1, <1>2, <1>3 DEF Next

-----------------------------------------------------------------------------

LEMMA InitIInv == Init => IInv
<1> SUFFICES ASSUME Init PROVE IInv
  OBVIOUS
<1>1. SpoolType
  <2>1. <<>> \in Seq(Line)
    OBVIOUS
  <2> QED  BY <2>1, NewFileIsEmpty, NoSpoolType
           DEF Init, SpoolType, NoCursor, FirstOf, Labels, WLabels
<1>2. Handles /\ OneWorker /\ CursorHolds
  BY DEF Init, Handles, OneWorker, CursorHolds, NoCursor, WAt
<1>3. Workers
  BY DEF Init, Workers, WorkerHolds, Named
<1> QED  BY <1>1, <1>2, <1>3 DEF IInv

LEMMA IInvStep == IInv /\ [Next]_vars => IInv'
  BY TypeStep, HandlesStep, OneWorkerStep, CursorStep, WorkersStep DEF IInv

(* The cursor that a flush trusts never stands past a line that was        *)
(* neither delivered nor counted, however often the file was reaped and    *)
(* came back, under whichever inode number.                                *)
THEOREM CursorIsSettled == Spec => []CursorSkipsNothing
<1>1. IInv => CursorSkipsNothing
  <2> SUFFICES ASSUME IInv, path # None, NEW k \in 1..TrustedOffset(path),
                      k \in DOMAIN disk[path].lines, disk[path].lines[k].kind # "blank"
               PROVE  disk[path].lines[k].rec \in delivered \cup counted
    BY DEF CursorSkipsNothing
  <2> QED  BY TrustedIsSettled DEF IInv, SettledUpTo, Heard
<1> QED  BY <1>1, InitIInv, IInvStep, PTL DEF Spec

-----------------------------------------------------------------------------
(* Where an acknowledged record is.                                        *)

LEMMA InitAcked == Init => AckedIsKept
  BY DEF Init, AckedIsKept

(* A line of the file that has the name stays there, until its reaper      *)
(* takes it over with the inode; what it does not take over was heard of.  *)
LEMMA OnPathStays ==
  ASSUME IInv, [Next]_vars, NEW r \in Rec, OnPath(r)
  PROVE  r \in Heard' \/ OnPath(r)' \/ Rescued(r)'
<1> USE DEF IInv
<1>1. CASE path' = path
  <2>1. Holds(disk'[path].lines, r)
    BY NamedGrows, HoldsOn DEF OnPath
  <2> QED  BY <1>1, <2>1 DEF OnPath
<1>2. ASSUME NEW w \in Worker, Unlink(w)
      PROVE  r \in Heard' \/ Rescued(r)'
  <2> DEFINE s == snap[w]
  <2>1. /\ UNCHANGED <<disk, snap, hnd, delivered, counted>>
        /\ wpc[w] = "unlink" /\ wpc'[w] = "rescue"
    BY <1>2 DEF Unlink, WAt, WGoto, SpoolType
  <2>2. /\ path # None /\ hnd[w] = path /\ SettledUpTo(s.lines, Len(s.lines), Heard)
        /\ Grows(s, disk[path])
    BY <2>1 DEF Workers, WorkerHolds, Named
  <2>3. PICK k \in 1..Len(disk[path].lines) : Carries(disk[path].lines[k], r)
    BY DEF OnPath, Holds
  <2>4. Len(s.lines) \in Nat /\ Len(disk[path].lines) \in Nat
    BY <2>2 DEF SpoolType, Snapshot, Inode
  <2>5. CASE k <= Len(s.lines)
    <3>1. k \in 1..Len(s.lines) /\ s.lines[k] = disk[path].lines[k]
      BY <2>2, <2>3, <2>4, <2>5 DEF Grows
    <3>2. s.lines[k].kind # "blank" /\ s.lines[k].rec = r
      BY <2>3, <3>1 DEF Carries
    <3>3. r \in Heard
      BY <2>2, <3>1, <3>2 DEF SettledUpTo
    <3> QED  BY <3>3, HeardGrows
  <2>6. CASE k > Len(s.lines)
    BY <2>1, <2>2, <2>3, <2>6 DEF Rescued, WAt
  <2> QED  BY <2>4, <2>5, <2>6
<1> QED  BY <1>1, <1>2, NameStays DEF OnPath

(* A reaper that lives puts back or counts what it took over.              *)
LEMMA RescuedStays ==
  ASSUME IInv, [Next]_vars, ~KillInRescue, NEW r \in Rec, Rescued(r)
  PROVE  r \in Heard' \/ OnPath(r)' \/ Rescued(r)'
<1> USE DEF IInv, WAt
<1>1. PICK w \in Worker :
        \/ /\ wpc[w] = "rescue"
           /\ \E k \in 1..Len(disk[hnd[w]].lines) :
                k > Len(snap[w].lines) /\ Carries(disk[hnd[w]].lines[k], r)
        \/ wpc[w] = "putback" /\ Holds(tail[w], r)
  BY DEF Rescued
<1> DEFINE s == snap[w]
           inode == disk[hnd[w]]
<1>2. /\ wpc[w] = "rescue" => /\ hnd[w] \in Ino /\ Grows(s, inode) /\ inode \in Inode
      /\ s \in Snapshot /\ tail[w] \in Seq(Line)
  BY DEF Workers, WorkerHolds, SpoolType
<1>3. CASE UNCHANGED workers
  <2>1. CASE wpc[w] = "rescue"
    <3>1. PICK k \in 1..Len(inode.lines) : k > Len(s.lines) /\ Carries(inode.lines[k], r)
      BY <1>1, <2>1
    <3>2. ~Free(hnd[w])
      BY DEF Free
    <3>3. Grows(inode, disk'[hnd[w]]) /\ disk'[hnd[w]] \in Inode
      BY <1>2, <2>1, <3>2, FilesGrow
    <3>4. k \in 1..Len(disk'[hnd[w]].lines) /\ disk'[hnd[w]].lines[k] = inode.lines[k]
      BY <1>2, <2>1, <3>1, <3>3 DEF Grows, Inode
    <3> QED  BY <1>3, <2>1, <3>1, <3>4 DEF Rescued, workers
  <2>2. CASE wpc[w] = "putback"
    BY <1>1, <1>3, <2>2 DEF Rescued, workers
  <2> QED  BY <1>1, <2>1, <2>2
<1>4. CASE ReadTail(w)
  <2>1. wpc[w] = "rescue"
    BY <1>4 DEF ReadTail
  <2>2. PICK k \in 1..Len(inode.lines) : k > Len(s.lines) /\ Carries(inode.lines[k], r)
    BY <1>1, <2>1
  <2>3. ~SameSize(inode, s)
    BY <1>2, <2>1, <2>2 DEF SameSize, Inode, Snapshot
  <2>4. tail' = [tail EXCEPT ![w] = Grown(inode, s)] /\ WGoto(w, "putback")
    BY <1>4, <2>3 DEF ReadTail
  <2>5. Holds(Grown(inode, s), r)
    <3> HIDE DEF inode, s
    <3> QED  BY <1>2, <2>1, <2>2, GrownHolds
  <2> HIDE DEF inode, s
  <2> QED  BY <2>4, <2>5 DEF Rescued, WGoto, SpoolType
<1>5. CASE PutBack(w)
  <2>1. wpc[w] = "putback" /\ Holds(tail[w], r)
    BY <1>1, <1>5 DEF PutBack
  <2>2. tail[w] # <<>>
    BY <2>1 DEF Holds
  <2>3. ASSUME NEW i \in Ino, path' = i,
               disk' = [disk EXCEPT ![i] = Join(IF path = None THEN NewFile ELSE @, tail[w])]
        PROVE  OnPath(r)'
    <3> DEFINE f == IF path = None THEN NewFile ELSE disk[i]
    <3>1. disk'[i] = Join(f, tail[w]) /\ f \in Inode
      BY <2>3, NewFileIsEmpty DEF SpoolType
    <3>2. Holds(Join(f, tail[w]).lines, r)
      <4> HIDE DEF f
      <4> QED  BY <1>2, <2>1, <2>2, <3>1, JoinGrows
    <3>3. i # None
      BY SpoolAssumption
    <3> HIDE DEF f
    <3> QED  BY <2>3, <3>1, <3>2, <3>3 DEF OnPath
  <2>4. ASSUME counted' = counted \cup snap[w].drops \cup
                 RecordsAt(tail[w], DOMAIN tail[w], {"whole", "glued", "frag"})
        PROVE  r \in Heard'
    <3>1. PICK k \in 1..Len(tail[w]) : Carries(tail[w][k], r)
      BY <2>1 DEF Holds
    <3>2. k \in DOMAIN tail[w]
      BY <1>2, <3>1
    <3> QED  BY <2>4, <3>1, <3>2 DEF RecordsAt, Carries, Heard
  <2> QED  BY <1>5, <2>3, <2>4 DEF PutBack
<1>6. ASSUME NEW q \in Rec, Start(q) \/ AppendStep(q) \/ KillAppender(q)
      PROVE  UNCHANGED workers
  BY <1>6 DEF Start, AppendStep, OpenSpool, WriteRecord, StatAfterWrite,
     TerminateFragment, Refuse, KillAppender
<1>7. EndSession \/ Resume \/ Age \/ UNCHANGED vars => UNCHANGED workers
  BY DEF EndSession, Resume, Age, vars
<1>8. ASSUME NEW v \in Worker,
             FlushRead(v) \/ FlushStep(v) \/ ReapRead(v) \/ ReapStep(v) \/ KillWorker(v)
      PROVE  v = w /\ (ReadTail(w) \/ PutBack(w))
  <2>1. wpc[w] \in {"rescue", "putback"}
    BY <1>1
  <2>2. v = w
    BY <1>8, <2>1 DEF FlushRead, ReapRead, MayEnter, OneWorker, FlushStep, Post, CountBatch,
       IdentifyFile, MoveCursor, ReapStep, OpenForRemoval, CheckSafe, CountExpired,
       RemoveCursor, Unlink, ReadTail, PutBack, KillWorker
  <2> QED  BY <1>8, <2>1, <2>2
      DEF FlushRead, ReapRead, MayEnter, FlushStep, Post, CountBatch,
       IdentifyFile, MoveCursor, ReapStep, OpenForRemoval, CheckSafe, CountExpired,
       RemoveCursor, Unlink, ReadTail, PutBack, KillWorker
<1> QED  BY <1>3, <1>4, <1>5, <1>6, <1>7, <1>8 DEF Next

(* Only a call whose line is in the file that has the name, or whose drop  *)
(* was counted, returns.                                                   *)
LEMMA NewlyAcked ==
  ASSUME IInv, [Next]_vars, NEW r \in acked' \ acked
  PROVE  r \in Rec /\ (r \in Heard' \/ OnPath(r)')
<1> USE DEF IInv, SpoolType, Goto, At, Returns
<1>1. ASSUME NEW q \in Rec, StatAfterWrite(q), r = q PROVE OnPath(r)'
  <2>1. path = fd[q] /\ UNCHANGED <<path, disk>>
    BY <1>1 DEF StatAfterWrite, store
  <2>2. fd[q] \in Ino /\ Holds(disk[fd[q]].lines, q)
    BY <1>1 DEF StatAfterWrite, Handles
  <2> QED  BY <1>1, <2>1, <2>2, SpoolAssumption DEF OnPath
<1>2. ASSUME NEW q \in Rec, Refuse(q), r = q PROVE r \in Heard'
  BY <1>2 DEF Refuse, Heard
<1>3. ASSUME NEW q \in Rec, Start(q) \/ AppendStep(q) \/ KillAppender(q)
      PROVE  r = q /\ (StatAfterWrite(q) \/ Refuse(q))
  BY <1>3 DEF Start, AppendStep, OpenSpool, WriteRecord, StatAfterWrite,
     TerminateFragment, Refuse, KillAppender
<1>4. ASSUME NEW w \in Worker,
             FlushRead(w) \/ FlushStep(w) \/ ReapRead(w) \/ ReapStep(w) \/ KillWorker(w)
      PROVE  FALSE
  BY <1>4 DEF FlushRead, FlushStep, Post, CountBatch, IdentifyFile, MoveCursor, ReapRead,
     ReapStep, OpenForRemoval, CheckSafe, CountExpired, RemoveCursor, Unlink, ReadTail,
     PutBack, KillWorker, appenders
<1>5. ~(EndSession \/ Resume \/ Age \/ UNCHANGED vars)
  BY DEF EndSession, Resume, Age, vars, appenders
<1> QED  BY <1>1, <1>2, <1>3, <1>4, <1>5 DEF Next

LEMMA AckedStep ==
  ASSUME IInv, AckedIsKept, ~KillInRescue, [Next]_vars
  PROVE  AckedIsKept'
<1>1. ASSUME NEW r \in acked PROVE r \in Heard' \/ OnPath(r)' \/ Rescued(r)'
  <2>1. r \in Rec
    BY DEF IInv, SpoolType
  <2> QED  BY <1>1, <2>1, OnPathStays, RescuedStays, HeardGrows DEF AckedIsKept
<1> QED  BY <1>1, NewlyAcked DEF AckedIsKept

(* While no reaper dies between its unlink and its rescue, a record whose  *)
(* append returned is delivered, counted, waiting in a file a flush will   *)
(* find, or in the hands of a reaper: for any number of appends, workers,  *)
(* torn writes, failed opens and kills elsewhere, any size cap and batch.  *)
THEOREM AckedIsNeverLost ==
  ASSUME ~KillInRescue
  PROVE  Spec => []NoRecordLost
<1> DEFINE Inv == IInv /\ AckedIsKept
<1>1. Inv => NoRecordLost
  <2> SUFFICES ASSUME Inv, NEW r \in acked
               PROVE  r \in delivered \/ r \in counted \/ Waiting(r) \/ InRescue(r)
    BY DEF NoRecordLost
  <2> USE DEF IInv
  <2>1. CASE r \in Heard
    BY <2>1 DEF Heard
  <2>2. CASE OnPath(r)
    <3>1. PICK k \in 1..Len(disk[path].lines) : Carries(disk[path].lines[k], r)
      BY <2>2 DEF OnPath, Holds
    <3>2. /\ TrustedOffset(path) \in Nat
          /\ SettledUpTo(disk[path].lines, TrustedOffset(path), Heard)
      BY <2>2, TrustedIsSettled DEF OnPath
    <3>3. CASE k <= TrustedOffset(path)
      <4>1. k \in 1..TrustedOffset(path)
        BY <3>1, <3>2, <3>3
      <4> QED  BY <3>1, <3>2, <4>1 DEF SettledUpTo, Carries, Heard
    <3>4. CASE k > TrustedOffset(path)
      <4>1. k \in DOMAIN disk[path].lines
        BY <2>2, <3>1 DEF SpoolType, Inode, OnPath
      <4> QED  BY <2>2, <3>1, <3>4, <4>1 DEF Waiting, Carries, OnPath
    <3> QED  BY <3>1, <3>2, <3>3, <3>4
  <2>3. CASE Rescued(r)
    <3>1. PICK w \in Worker :
            \/ /\ WAt(w, "rescue")
               /\ \E k \in 1..Len(disk[hnd[w]].lines) :
                    k > Len(snap[w].lines) /\ Carries(disk[hnd[w]].lines[k], r)
            \/ WAt(w, "putback") /\ Holds(tail[w], r)
      BY <2>3 DEF Rescued
    <3>2. CASE WAt(w, "rescue")
      <4>1. PICK k \in 1..Len(disk[hnd[w]].lines) :
              k > Len(snap[w].lines) /\ Carries(disk[hnd[w]].lines[k], r)
        BY <3>1, <3>2 DEF WAt
      <4>2. hnd[w] \in Ino /\ disk[hnd[w]] \in Inode
        BY <3>2 DEF WAt, Workers, WorkerHolds, SpoolType
      <4>3. k \in DOMAIN disk[hnd[w]].lines
        BY <4>1, <4>2 DEF Inode
      <4> QED  BY <3>2, <4>1, <4>3 DEF InRescue, Carries
    <3>3. CASE WAt(w, "putback")
      <4>1. PICK k \in 1..Len(tail[w]) : Carries(tail[w][k], r)
        BY <3>1, <3>3 DEF WAt, Holds
      <4>2. k \in DOMAIN tail[w]
        BY <4>1 DEF SpoolType
      <4> QED  BY <3>3, <4>1, <4>2 DEF InRescue, Carries
    <3> QED  BY <3>1, <3>2, <3>3
  <2> QED  BY <2>1, <2>2, <2>3 DEF AckedIsKept
<1>2. Init => Inv
  BY InitIInv, InitAcked
<1>3. Inv /\ [Next]_vars => Inv'
  BY IInvStep, AckedStep
<1> QED  BY <1>1, <1>2, <1>3, PTL DEF Spec

-----------------------------------------------------------------------------
(* The flush lock.  MayEnter lets one worker in at a time: what of that    *)
(* the lock file keeps, and until when, for any number of callers.         *)

(* A remembered claim belongs to the process that remembers it, and a      *)
(* thief carries the token of a dead process or an unreadable one.         *)
LockBooks ==
  /\ \A p \in Proc : held[p] # NoOne => ProcOf[held[p]] = p
  /\ \A t \in Task : at[t] \in {"steal", "rm"} /\ seen[t] # NoOne => ~Alive(seen[t])

(* Holders and releasers own the file, thieves only face orphans, and only *)
(* one thief is past its re-check.                                         *)
LockWindows ==
  /\ \A t \in Task : TaskAt(t, "hold") \/ TaskAt(t, "relrm") => CarriesToken(t)
  /\ \A t \in Task : TaskAt(t, "rm") => Orphan
  /\ \A t, u \in Task : TaskAt(t, "rm") /\ TaskAt(u, "rm") => t = u

LockInv == LockType /\ LockBooks /\ (raced \/ LockWindows)

(* The loop counter of acquireLock never passes Retries, and whatever a    *)
(* failed create does next keeps the locals it changes in their domains.   *)
LEMMA CreateFailedType ==
  ASSUME LockType, NEW t \in Task, CreateFailed(t) \/ NextAttempt(t)
  PROVE  /\ at' \in [Task -> LockLabels]
         /\ stole' \in [Task -> BOOLEAN]
         /\ attempt' \in [Task -> 0..Retries]
<1> USE LockAssumption DEF LockType
<1>1. ASSUME NextAttempt(t), attempt[t] < Retries
      PROVE  attempt[t] + 1 \in 0..Retries
  BY <1>1
<1>2. CASE NextAttempt(t)
  BY <1>1, <1>2 DEF NextAttempt, TaskGoto, LockLabels
<1>3. CASE CreateFailed(t)
  BY <1>2, <1>3 DEF CreateFailed, TaskGoto, LockLabels
<1>4. QED BY <1>2, <1>3

(* The initial state: nobody is inside, there is no file.                  *)
LEMMA InitLockInv == LockInit => LockInv
<1> SUFFICES ASSUME LockInit PROVE LockInv
  OBVIOUS
<1>1. LockType
  <2>1. 0 \in 0..Retries
    BY LockAssumption
  <2>2. QED BY <2>1, LockAssumption DEF LockInit, LockType, LockFile, NoFile, LockLabels
<1>2. LockBooks
  BY DEF LockInit, LockBooks
<1>3. LockWindows
  BY DEF LockInit, LockWindows, TaskAt
<1>4. QED BY <1>1, <1>2, <1>3 DEF LockInv

(* Every variable keeps its domain through every step.                     *)
LEMMA LockTypeStep == LockType /\ [LockNext]_lockVars => LockType'
<1> SUFFICES ASSUME LockType, [LockNext]_lockVars PROVE LockType'
  OBVIOUS
<1> USE LockAssumption DEF LockType, LockFile, NoFile, LockLabels, TaskGoto, StealDone
<1>1. ASSUME NEW t \in Task, TaskStep(t) PROVE LockType'
  <2>1. CASE Begin(t) BY <2>1 DEF Begin
  <2>2. CASE Open(t)
    <3>1. CASE Present BY <2>2, <3>1, CreateFailedType DEF Open
    <3>2. CASE ~Present
      <4>1. /\ file' = [by |-> t, written |-> FALSE, aged |-> FALSE]
            /\ at' = [at EXCEPT ![t] = "write"]
            /\ UNCHANGED <<stole, attempt, seen, held, alive, impostor, raced, robbed>>
        BY <2>2, <3>2 DEF Open
      <4>2. QED BY <4>1
    <3>3. QED BY <3>1, <3>2
  <2>3. CASE Write(t) BY <2>3 DEF Write
  <2>4. CASE Check(t)
    <3>1. CASE CarriesToken(t)
      <4>1. Acquired(t) /\ held' = [held EXCEPT ![ProcOf[t]] = t] /\ UNCHANGED <<file, seen, alive, impostor, raced, robbed>>
        BY <2>4, <3>1 DEF Check
      <4>2. 0 \in 0..Retries OBVIOUS
      <4>3. ProcOf[t] \in Proc OBVIOUS
      <4>4. QED BY <4>1, <4>2, <4>3 DEF Acquired
    <3>2. CASE ~CarriesToken(t) BY <2>4, <3>2, CreateFailedType DEF Check
    <3>3. QED BY <3>1, <3>2
  <2>5. CASE Probe(t) BY <2>5, CreateFailedType DEF Probe, Stealable, Present
  <2>6. CASE StealCheck(t) BY <2>6 DEF StealCheck
  <2>7. CASE StealRm(t) BY <2>7 DEF StealRm
  <2>8. CASE Release(t) BY <2>8 DEF Release
  <2>9. CASE ReleaseRm(t) BY <2>9 DEF ReleaseRm
  <2>10. CASE Forget(t) BY <2>10 DEF Forget, Siblings
  <2>11. QED BY <1>1, <2>1, <2>2, <2>3, <2>4, <2>5, <2>6, <2>7, <2>8, <2>9, <2>10
      DEF TaskStep
<1>2. ASSUME NEW t \in Task, WriteFails(t) PROVE LockType'
  BY <1>2, CreateFailedType DEF WriteFails
<1>3. ASSUME NEW p \in Proc, Kill(p) \/ Exit(p) PROVE LockType'
  <2>1. Dies(p) BY <1>3 DEF Kill, Exit
  <2>2. file' \in LockFile
    <3>1. NoFile \in LockFile OBVIOUS
    <3>2. QED BY <1>3, <3>1 DEF Kill, Exit
  <2>3. 0 \in 0..Retries OBVIOUS
  <2>4. attempt' \in [Task -> 0..Retries] BY <2>1, <2>3 DEF Dies
  <2>5. at' \in [Task -> LockLabels] /\ stole' \in [Task -> BOOLEAN] BY <2>1 DEF Dies
  <2>6. seen' \in [Task -> Task \cup {NoOne}] BY <2>1 DEF Dies
  <2>7. /\ held' \in [Proc -> Task \cup {NoOne}]
        /\ alive' \in [Proc -> BOOLEAN]
        /\ impostor' \in SUBSET Proc
        /\ raced' \in BOOLEAN /\ robbed' \in SUBSET Task
    BY <2>1 DEF Dies
  <2>8. QED BY <2>2, <2>4, <2>5, <2>6, <2>7
<1>4. CASE AgeLock BY <1>4 DEF AgeLock
<1>5. CASE UNCHANGED lockVars BY <1>5 DEF lockVars
<1>6. ASSUME NEW p \in Proc, PidReused(p) \/ ImpostorEnds(p) PROVE LockType'
  BY <1>6 DEF PidReused, ImpostorEnds
<1>7. QED BY <1>1, <1>2, <1>3, <1>4, <1>5, <1>6 DEF LockNext

(* Type correctness: every reachable state is in the declared domains.     *)
THEOREM LockTypeCorrect == LockSpec => []LockType
<1>1. LockInit => LockType BY InitLockInv DEF LockInv
<1>2. QED BY <1>1, LockTypeStep, PTL DEF LockSpec

(* A thief is only ever after the token of a process that is gone, and a   *)
(* process only remembers its own claims.                                  *)
LEMMA LockBooksStep == LockType /\ LockBooks /\ [LockNext]_lockVars => LockBooks'
<1> SUFFICES ASSUME LockType, LockBooks, [LockNext]_lockVars PROVE LockBooks'
  OBVIOUS
<1> USE LockAssumption
    DEF LockType, LockFile, LockBooks, Alive, TaskAt, TaskGoto, NextAttempt, CreateFailed
<1>1. ASSUME NEW t \in Task, TaskStep(t) PROVE LockBooks'
  <2>1. CASE Begin(t) BY <2>1 DEF Begin
  <2>2. CASE Open(t) BY <2>2 DEF Open
  <2>3. CASE Write(t) BY <2>3 DEF Write
  <2>4. CASE Check(t) BY <2>4 DEF Check, Acquired
  <2>5. CASE Probe(t) BY <2>5 DEF Probe, Stealable
  <2>6. CASE StealCheck(t) BY <2>6 DEF StealCheck, StealDone
  <2>7. CASE StealRm(t) BY <2>7 DEF StealRm, StealDone
  <2>8. CASE Release(t) BY <2>8 DEF Release
  <2>9. CASE ReleaseRm(t) BY <2>9 DEF ReleaseRm
  <2>10. CASE Forget(t) BY <2>10 DEF Forget
  <2>11. QED BY <1>1, <2>1, <2>2, <2>3, <2>4, <2>5, <2>6, <2>7, <2>8, <2>9, <2>10
      DEF TaskStep
<1>2. ASSUME NEW t \in Task, WriteFails(t) PROVE LockBooks'
  BY <1>2 DEF WriteFails
<1>3. ASSUME NEW p \in Proc, Kill(p) PROVE LockBooks'
  BY <1>3 DEF Kill, Dies
<1>4. ASSUME NEW p \in Proc, Exit(p) PROVE LockBooks'
  BY <1>4 DEF Exit, Dies
<1>5. CASE AgeLock BY <1>5 DEF AgeLock
<1>6. CASE UNCHANGED lockVars BY <1>6 DEF lockVars
<1>7. ASSUME NEW p \in Proc, PidReused(p) \/ ImpostorEnds(p) PROVE LockBooks'
  BY <1>7 DEF PidReused, ImpostorEnds
<1>8. QED BY <1>1, <1>2, <1>3, <1>4, <1>5, <1>6, <1>7 DEF LockNext

(* The race flag only ever rises.                                          *)
LEMMA RacedStays == [LockNext]_lockVars /\ raced => raced'
  BY DEF LockNext, TaskStep, Begin, Open, Write, WriteFails, Check, Probe, StealCheck,
      StealRm, Release, ReleaseRm, Forget, Kill, Exit, Dies, PidReused, ImpostorEnds, AgeLock,
      lockVars

(* The windows stay closed through every step that does not raise the      *)
(* flag.                                                                   *)
LEMMA LockWindowsStep ==
  LockType /\ LockBooks /\ LockWindows /\ [LockNext]_lockVars => raced' \/ LockWindows'
<1> SUFFICES ASSUME LockType, LockBooks, LockWindows, [LockNext]_lockVars, ~raced' PROVE LockWindows'
  OBVIOUS
<1> USE LockAssumption
    DEF LockType, LockFile, NoFile, LockWindows, Alive, TaskAt, TaskGoto, CarriesToken,
        Orphan, Owned, HalfWritten, Present,
        NextAttempt, CreateFailed
<1>1. ASSUME NEW t \in Task, TaskStep(t) PROVE LockWindows'
  <2>1. CASE Begin(t) BY <2>1 DEF Begin
  <2>2. CASE Open(t) BY <2>2 DEF Open
  <2>3. CASE Write(t) BY <2>3 DEF Write
  <2>4. CASE Check(t) BY <2>4 DEF Check, Acquired
  <2>5. CASE Probe(t) BY <2>5 DEF Probe
  <2>6. CASE StealCheck(t)
    BY <2>6 DEF StealCheck, StealDone, CarriesSeen, LockBooks
  <2>7. CASE StealRm(t) BY <2>7 DEF StealRm, StealDone
  <2>8. CASE Release(t) BY <2>8 DEF Release
  <2>9. CASE ReleaseRm(t) BY <2>9 DEF ReleaseRm
  <2>10. CASE Forget(t) BY <2>10 DEF Forget
  <2>11. QED BY <1>1, <2>1, <2>2, <2>3, <2>4, <2>5, <2>6, <2>7, <2>8, <2>9, <2>10
      DEF TaskStep
<1>2. ASSUME NEW t \in Task, WriteFails(t) PROVE LockWindows'
  BY <1>2 DEF WriteFails
<1>3. ASSUME NEW p \in Proc, Kill(p) PROVE LockWindows'
  BY <1>3 DEF Kill, Dies
<1>4. ASSUME NEW p \in Proc, Exit(p) PROVE LockWindows'
  BY <1>4 DEF Exit, Dies, LockBooks
<1>5. CASE AgeLock BY <1>5 DEF AgeLock
<1>6. CASE UNCHANGED lockVars BY <1>6 DEF lockVars
<1>7. ASSUME NEW p \in Proc, PidReused(p) \/ ImpostorEnds(p) PROVE LockWindows'
  BY <1>7 DEF PidReused, ImpostorEnds
<1>8. QED BY <1>1, <1>2, <1>3, <1>4, <1>5, <1>6, <1>7 DEF LockNext

(* The inductive invariant holds throughout.                               *)
LEMMA LockInvHolds == LockSpec => []LockInv
<1>1. LockInv /\ [LockNext]_lockVars => LockInv'
  BY LockTypeStep, LockBooksStep, RacedStays, LockWindowsStep DEF LockInv
<1>2. QED BY InitLockInv, <1>1, PTL DEF LockSpec

(* For any number of callers: as long as no thief passed stealLock's       *)
(* re-check in an unsafe window, withLock runs one action at a time and    *)
(* the file is that action's own.                                          *)
THEOREM LockExclusive == LockSpec => []ExclusiveUnlessRaced
<1>1. LockInv => ExclusiveUnlessRaced
  BY LockAssumption DEF LockInv, LockType, LockFile, LockWindows, ExclusiveUnlessRaced,
      MutualExclusion, CarriesToken
<1>2. QED BY LockInvHolds, <1>1, PTL

(* And until then nothing but its own process takes the file away from a   *)
(* running action.                                                         *)
THEOREM LockKept == LockSpec => HolderKeepsLock
<1> DEFINE Kept == \A t \in Task :
      TaskAt(t, "hold") /\ CarriesToken(t) /\ file' # file /\ ~raced
         => file' = [file EXCEPT !.aged = TRUE] \/ Exit(ProcOf[t])
<1>1. LockInv /\ [LockNext]_lockVars => [Kept]_lockVars
  <2> SUFFICES ASSUME LockInv, LockNext, ~raced,
                      NEW t \in Task, TaskAt(t, "hold"), CarriesToken(t), file' # file
               PROVE  file' = [file EXCEPT !.aged = TRUE] \/ Exit(ProcOf[t])
    OBVIOUS
  <2>1. LockWindows
    BY DEF LockInv
  <2> USE LockAssumption, <2>1
      DEF LockInv, LockType, LockFile, LockWindows, Alive, TaskAt, CarriesToken, Orphan,
          Owned, Present
  <2>2. ASSUME NEW u \in Task, TaskStep(u) \/ WriteFails(u) PROVE FALSE
    <3>1. CASE Open(u) BY <3>1 DEF Open
    <3>2. CASE Write(u) BY <3>2 DEF Write
    <3>3. CASE StealRm(u) BY <3>3 DEF StealRm
    <3>4. CASE ReleaseRm(u) BY <3>4 DEF ReleaseRm
    <3>5. QED
      BY <2>2, <3>1, <3>2, <3>3, <3>4
      DEF TaskStep, Begin, WriteFails, Check, Probe, StealCheck, Release, Forget
  <2>3. ASSUME NEW p \in Proc, Kill(p) \/ Exit(p) PROVE Exit(ProcOf[t])
    BY <2>3 DEF Kill, Exit, LockBooks
  <2>4. CASE AgeLock BY <2>4 DEF AgeLock
  <2>5. ASSUME NEW p \in Proc, PidReused(p) \/ ImpostorEnds(p) PROVE FALSE
    BY <2>5 DEF PidReused, ImpostorEnds
  <2>6. QED BY <2>2, <2>3, <2>4, <2>5 DEF LockNext
<1>2. HolderKeepsLock <=> [][Kept]_lockVars
  BY DEF HolderKeepsLock
<1>3. QED BY LockInvHolds, <1>1, <1>2, PTL DEF LockSpec

(* A process remembers the claim of its running action while the file      *)
(* carries it, unless another of its callers forgot its own meanwhile.     *)
Remembered ==
  \A t \in Task \ robbed : at[t] = "hold" /\ CarriesToken(t) => held[ProcOf[t]] = t

(* process.exit gives back the claim of every action it cuts short, with   *)
(* any number of callers in a process and the one entry heldLocks has for  *)
(* this path: what is left behind was forgotten by a sibling, by no steal, *)
(* no late claim of a sibling and no other exit.                           *)
THEOREM ExitRestores == LockSpec => ExitPutsBack
<1> DEFINE Restored == \A p \in Proc : Exit(p) =>
             \A t \in Task \ robbed : ProcOf[t] = p /\ at[t] = "hold" => ~CarriesToken(t)'
<1>1. LockInit => Remembered
  BY DEF LockInit, Remembered
<1>2. LockType /\ Remembered /\ [LockNext]_lockVars => Remembered'
  <2> SUFFICES ASSUME LockType, Remembered, [LockNext]_lockVars PROVE Remembered'
    OBVIOUS
  <2> USE LockAssumption
      DEF LockType, LockFile, NoFile, Remembered, CarriesToken, TaskAt, TaskGoto, NextAttempt,
          CreateFailed
  <2>1. ASSUME NEW t \in Task, TaskStep(t) PROVE Remembered'
    <3>1. CASE Begin(t) BY <3>1 DEF Begin
    <3>2. CASE Open(t) BY <3>2 DEF Open
    <3>3. CASE Write(t) BY <3>3 DEF Write
    <3>4. CASE Check(t) BY <3>4 DEF Check, Acquired
    <3>5. CASE Probe(t) BY <3>5 DEF Probe
    <3>6. CASE StealCheck(t) BY <3>6 DEF StealCheck, StealDone
    <3>7. CASE StealRm(t) BY <3>7 DEF StealRm, StealDone
    <3>8. CASE Release(t) BY <3>8 DEF Release
    <3>9. CASE ReleaseRm(t) BY <3>9 DEF ReleaseRm
    <3>10. CASE Forget(t) BY <3>10 DEF Forget, Siblings
    <3> QED BY <2>1, <3>1, <3>2, <3>3, <3>4, <3>5, <3>6, <3>7, <3>8, <3>9, <3>10
        DEF TaskStep
  <2>2. ASSUME NEW t \in Task, WriteFails(t) PROVE Remembered'
    BY <2>2 DEF WriteFails
  <2>3. ASSUME NEW p \in Proc, Kill(p) \/ Exit(p) PROVE Remembered'
    <3> SUFFICES ASSUME NEW t \in Task \ robbed', at'[t] = "hold", CarriesToken(t)'
                 PROVE  held'[ProcOf[t]] = t
      OBVIOUS
    <3>1. Dies(p)
      BY <2>3 DEF Kill, Exit
    <3>2. at'[t] = IF ProcOf[t] = p /\ at[t] # "absent" THEN "idle" ELSE at[t]
      BY <3>1 DEF Dies
    <3>3. ProcOf[t] # p /\ at[t] = "hold"
      BY <3>2
    <3>5. t \notin robbed
      BY <3>1, <3>3 DEF Dies
    <3>6. CarriesToken(t)
      BY <2>3 DEF Kill, Exit
    <3>4. held' = [held EXCEPT ![p] = NoOne]
      BY <3>1 DEF Dies
    <3> QED BY <3>3, <3>4, <3>5, <3>6
  <2>6. ASSUME NEW p \in Proc, PidReused(p) \/ ImpostorEnds(p) PROVE Remembered'
    BY <2>6 DEF PidReused, ImpostorEnds
  <2>4. CASE AgeLock BY <2>4 DEF AgeLock
  <2>5. CASE UNCHANGED lockVars BY <2>5 DEF lockVars
  <2> QED BY <2>1, <2>2, <2>3, <2>4, <2>5, <2>6 DEF LockNext
<1>3. LockType /\ Remembered => Restored
  <2> SUFFICES ASSUME LockType, Remembered, NEW p \in Proc, Exit(p),
                      NEW t \in Task \ robbed, ProcOf[t] = p, at[t] = "hold",
                      CarriesToken(t)'
               PROVE  FALSE
    OBVIOUS
  <2>2. CASE CarriesToken(t)
    <3>1. held[p] = t /\ t # NoOne
      BY <2>2, LockAssumption DEF Remembered
    <3> QED BY <3>1, <2>2, LockAssumption DEF Exit, CarriesToken, NoFile
  <2>3. CASE ~CarriesToken(t)
    BY <2>3 DEF Exit, CarriesToken, NoFile
  <2> QED BY <2>2, <2>3
<1>4. LockInit => LockType
  BY InitLockInv DEF LockInv
<1>5. ExitPutsBack <=> [][Restored]_lockVars
  BY DEF ExitPutsBack
<1>6. LockType /\ Remembered /\ [LockNext]_lockVars => [Restored]_lockVars
  BY <1>3
<1> QED BY <1>1, <1>2, <1>4, <1>5, <1>6, LockTypeStep, PTL DEF LockSpec
=============================================================================
