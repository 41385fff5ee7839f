-------------------------------- MODULE Spool --------------------------------
(***************************************************************************)
(* One session's spool file and everybody who touches it: hooks append     *)
(* records without a lock, and workers (a hook that flushes or reaps) send *)
(* its lines to the hub and remove the file once its session is over.      *)
(* Sources: connector-core/src/spool/{append,write,lines,cursor,files,     *)
(* identity,flush,reap}.ts.                                                *)
(*                                                                         *)
(* Files are inodes: an append through an open handle reaches the inode    *)
(* even after the path lost it, and an inode number comes back for a new   *)
(* file once nobody holds the old one, as on ext4.  A record is appended   *)
(* by one call of appendRecords, so the call and its record share a name.  *)
(***************************************************************************)
EXTENDS Naturals, Sequences, FiniteSets

CONSTANTS
  Rec,           \* records, each appended by one call
  Worker,        \* hooks that flush or reap
  Ino,           \* inode numbers
  Cap,           \* MAX_SPOOL_BYTES, counted in lines
  Batch,         \* MAX_INGEST_BATCH
  MaxFaults,     \* how many writes, records, requests and processes may fail
  KillInRescue,  \* TRUE: a reaper may die between its unlink and its rescue
  None           \* no record, no inode

ASSUME SpoolAssumption ==
  /\ Cap \in Nat /\ Batch \in Nat \ {0} /\ MaxFaults \in Nat
  /\ KillInRescue \in BOOLEAN
  /\ None \notin Rec \cup Ino

VARIABLES
  path,      \* the inode the data file's name leads to, or None
  disk,      \* inode contents: complete lines, a torn tail, the age of mtime
  cursor,    \* the cursor file: inode, first line and offset
  live,      \* does the session's state file exist
  pc, fd,    \* each append call: where it is and the inode it has open
  wpc,       \* each worker: where it is
  snap,      \* ... the SessionSpool it read
  hnd,       \* ... the inode it holds open for removal
  tail,      \* ... the lines rescueTail read back
  delivered, \* records the hub has accepted
  counted,   \* records covered by a recordDrop
  acked,     \* records whose appendRecords call returned
  faults     \* failures so far

appenders == <<pc, fd, acked>>
workers == <<wpc, snap, hnd, tail>>
store == <<path, disk, cursor>>
vars == <<store, live, appenders, workers, delivered, counted, faults>>

Fault == faults < MaxFaults /\ faults' = faults + 1

(* A line is a whole record, a record glued behind a torn fragment, a      *)
(* fragment ended by its terminator, or an empty line.                     *)
Line == [rec : Rec \cup {None}, kind : {"whole", "glued", "frag", "blank"}]

Inode == [lines : Seq(Line), torn : Rec \cup {None}, age : {"fresh", "quiet", "old"}]

NewFile == [lines |-> <<>>, torn |-> None, age |-> "fresh"]

Size(file) == Len(file.lines) + (IF file.torn = None THEN 0 ELSE 1)

(* firstLineHash: nothing until one line is complete.                      *)
FirstLine(file) ==
  IF file.lines = <<>> THEN [rec |-> None, kind |-> "none"] ELSE Head(file.lines)

NoCursor == [ino |-> None, first |-> [rec |-> None, kind |-> "none"], offset |-> 0]

(* readCursorOffset: zero unless the cursor names this very file and a     *)
(* position it can have.                                                   *)
TrustedOffset(ino) ==
  IF cursor.ino = ino /\ cursor.first = FirstLine(disk[ino]) /\ cursor.offset <= Size(disk[ino])
    THEN cursor.offset
    ELSE 0

(* readSessionSpool: one file through one handle, then its cursor.         *)
NoSpool == [ino |-> None, first |-> [rec |-> None, kind |-> "none"],
            lines |-> <<>>, torn |-> None, offset |-> 0, old |-> FALSE, drops |-> {}]

ReadSpool ==
  IF path = None
    THEN NoSpool
    ELSE [ino |-> path, first |-> FirstLine(disk[path]), lines |-> disk[path].lines,
          torn |-> disk[path].torn, offset |-> TrustedOffset(path),
          old |-> disk[path].age = "old", drops |-> {}]

(* The file only grows, so its size tells whether it is as it was read.    *)
SameSize(file, s) == Len(file.lines) = Len(s.lines) /\ file.torn = s.torn

SameFile(ino, s) == s.ino = ino /\ s.first = FirstLine(disk[ino])

(* toLines skips empty lines.                                              *)
LinesBetween(lines, from, to) ==
  {k \in (from + 1)..to : k <= Len(lines) /\ lines[k].kind # "blank"}

RecordsAt(lines, ks, kinds) == {lines[k].rec : k \in {j \in ks : lines[j].kind \in kinds}}

(* The positions of the next batch, and how far consuming it moves the     *)
(* cursor (bytesOfLines).                                                  *)
BatchOf(s) ==
  LET pending == LinesBetween(s.lines, s.offset, Len(s.lines))
  IN  {k \in pending : Cardinality({j \in pending : j <= k}) <= Batch}

Consumed(s) == CHOOSE k \in BatchOf(s) : \A j \in BatchOf(s) : j <= k

Backlog(s) == LinesBetween(s.lines, s.offset, Len(s.lines)) # {}

(* One write through a handle: glued to a torn tail if there is one.       *)
Extend(file, r) ==
  [lines |-> Append(file.lines, [rec |-> r, kind |-> IF file.torn = None THEN "whole" ELSE "glued"]),
   torn |-> None, age |-> "fresh"]

Terminate(file) ==
  [lines |-> Append(file.lines,
               IF file.torn = None THEN [rec |-> None, kind |-> "blank"]
                                   ELSE [rec |-> file.torn, kind |-> "frag"]),
   torn |-> None, age |-> "fresh"]

Tear(file, r) == [file EXCEPT !.torn = r, !.age = "fresh"]

(* An inode number is free once no name and no open handle keeps it.       *)
Free(i) == path # i /\ (\A r \in Rec : fd[r] # i) /\ (\A w \in Worker : hnd[w] # i)

(* open(path, "a"): the inode it leads to, created empty when missing.     *)
OpenForAppend(i) ==
  IF path # None
    THEN i = path /\ UNCHANGED <<path, disk>>
    ELSE Free(i) /\ path' = i /\ disk' = [disk EXCEPT ![i] = NewFile]

Init ==
  /\ path = None
  /\ disk = [i \in Ino |-> NewFile]
  /\ cursor = NoCursor
  /\ live = TRUE
  /\ pc = [r \in Rec |-> "todo"]
  /\ fd = [r \in Rec |-> None]
  /\ wpc = [w \in Worker |-> "idle"]
  /\ snap = [w \in Worker |-> NoSpool]
  /\ hnd = [w \in Worker |-> None]
  /\ tail = [w \in Worker |-> <<>>]
  /\ delivered = {} /\ counted = {} /\ acked = {} /\ faults = 0

-----------------------------------------------------------------------------
(* appendRecords                                                           *)

At(r, label) == pc[r] = label
Goto(r, label) == pc' = [pc EXCEPT ![r] = label]
Returns(r) == Goto(r, "done") /\ acked' = acked \cup {r}

(* A hook of a live session has a record to write: the size cap first.     *)
Start(r) ==
  /\ At(r, "todo") /\ live
  /\ Goto(r, IF path # None /\ Size(disk[path]) >= Cap THEN "refuse" ELSE "open")
  /\ UNCHANGED <<store, live, fd, acked, workers, delivered, counted, faults>>

(* The first open, and the second after an orphaned write.                 *)
OpenSpool(r) ==
  /\ pc[r] \in {"open", "reopen"}
  /\ \/ \E i \in Ino : /\ OpenForAppend(i)
                       /\ fd' = [fd EXCEPT ![r] = i]
                       /\ Goto(r, IF At(r, "open") THEN "write" ELSE "rewrite")
                       /\ UNCHANGED faults
     \/ Fault /\ Goto(r, "refuse") /\ fd' = [fd EXCEPT ![r] = None] /\ UNCHANGED <<path, disk>>
  /\ UNCHANGED <<cursor, live, acked, workers, delivered, counted>>

(* handle.write: every byte, fewer bytes, or an error.                     *)
WriteRecord(r) ==
  /\ pc[r] \in {"write", "rewrite"}
  /\ \/ /\ disk' = [disk EXCEPT ![fd[r]] = Extend(@, r)]
        /\ Goto(r, IF At(r, "write") THEN "stat" ELSE "restat")
        /\ UNCHANGED <<fd, faults>>
     \/ /\ Fault
        /\ disk' = [disk EXCEPT ![fd[r]] = Tear(@, r)]
        /\ Goto(r, "terminate")
        /\ fd' = [fd EXCEPT ![r] = None]
     \/ Fault /\ UNCHANGED disk /\ Goto(r, "refuse") /\ fd' = [fd EXCEPT ![r] = None]
  /\ UNCHANGED <<path, cursor, live, acked, workers, delivered, counted>>

(* Seeded fault: the write alone is taken for persisted.                   *)
StatUnlinkedIgnored(r) ==
  /\ pc[r] \in {"stat", "restat"}
  /\ Returns(r)
  /\ fd' = [fd EXCEPT ![r] = None]
  /\ UNCHANGED <<store, live, workers, delivered, counted, faults>>

(* nlink after the write: persisted, or the bytes went to an inode nobody  *)
(* can reach by name; the second time round that is a failure.             *)
StatAfterWrite(r) ==
  /\ pc[r] \in {"stat", "restat"}
  /\ IF path = fd[r]
       THEN Returns(r)
       ELSE Goto(r, IF At(r, "stat") THEN "reopen" ELSE "refuse") /\ UNCHANGED acked
  /\ fd' = [fd EXCEPT ![r] = None]
  /\ UNCHANGED <<store, live, workers, delivered, counted, faults>>

(* The terminator behind a short write, best effort.                       *)
TerminateFragment(r) ==
  /\ At(r, "terminate")
  /\ Goto(r, "refuse")
  /\ \/ \E i \in Ino :
          /\ IF path # None THEN i = path ELSE Free(i)
          /\ path' = i
          /\ disk' = [disk EXCEPT ![i] = Terminate(IF path = None THEN NewFile ELSE @)]
          /\ UNCHANGED faults
     \/ Fault /\ UNCHANGED <<path, disk>>
  /\ UNCHANGED <<cursor, live, fd, acked, workers, delivered, counted>>

(* refuse: recordDrop, whatever the reason, and the call returns.          *)
Refuse(r) ==
  /\ At(r, "refuse")
  /\ counted' = counted \cup {r}
  /\ Returns(r)
  /\ UNCHANGED <<store, live, fd, workers, delivered, faults>>

(* The hook dies anywhere before its call returned.                        *)
KillAppender(r) ==
  /\ pc[r] \notin {"todo", "done", "killed"}
  /\ Fault
  /\ Goto(r, "killed")
  /\ fd' = [fd EXCEPT ![r] = None]
  /\ UNCHANGED <<store, live, acked, workers, delivered, counted>>

-----------------------------------------------------------------------------
(* Workers, inside the flush lock                                          *)

WAt(w, label) == wpc[w] = label
WGoto(w, label) == wpc' = [wpc EXCEPT ![w] = label]

(* A worker leaves the lock and drops what it had in memory.               *)
Leave(w) ==
  /\ WGoto(w, "idle")
  /\ snap' = [snap EXCEPT ![w] = NoSpool]
  /\ hnd' = [hnd EXCEPT ![w] = None]
  /\ tail' = [tail EXCEPT ![w] = <<>>]

(* The flush lock admits one worker at a time, see SpoolLock.              *)
MayEnter(w) == \A v \in Worker : WAt(v, "idle")

(* Seeded fault: only a live session's spool is drained.                   *)
FlushReadLiveOnly(w) ==
  /\ MayEnter(w)
  /\ live
  /\ Backlog(ReadSpool)
  /\ snap' = [snap EXCEPT ![w] = ReadSpool]
  /\ WGoto(w, "post")
  /\ UNCHANGED <<store, live, appenders, hnd, tail, delivered, counted, faults>>

(* drain reads the spool; nothing pending ends the flush.                  *)
FlushRead(w) ==
  /\ MayEnter(w)
  /\ Backlog(ReadSpool)
  /\ snap' = [snap EXCEPT ![w] = ReadSpool]
  /\ WGoto(w, "post")
  /\ UNCHANGED <<store, live, appenders, hnd, tail, delivered, counted, faults>>

(* flushOneBatch posts what parses.  The hub answers per record, or the    *)
(* request fails; a failed request may have been processed all the same.   *)
(* A batch with nothing parsable is not posted at all.                     *)
Post(w) ==
  LET lines == snap[w].lines
      sent  == RecordsAt(lines, BatchOf(snap[w]), {"whole"})
      torn  == RecordsAt(lines, BatchOf(snap[w]), {"glued", "frag"})
  IN
  /\ WAt(w, "post")
  /\ \/ \E rejected \in SUBSET sent :
          /\ delivered' = delivered \cup (sent \ rejected)
          /\ snap' = [snap EXCEPT ![w] = [@ EXCEPT !.lines = <<>>, !.offset = Consumed(snap[w]),
                                                 !.drops = torn \cup rejected]]
          /\ WGoto(w, "count")
          /\ IF rejected = {} THEN UNCHANGED faults ELSE Fault
          /\ UNCHANGED <<hnd, tail>>
     \/ /\ sent # {}
        /\ Fault
        /\ delivered' \in {delivered, delivered \cup sent}
        /\ Leave(w)
  /\ UNCHANGED <<store, live, appenders, counted>>

(* Seeded fault: what the hub refused and what does not parse goes         *)
(* uncounted.                                                              *)
CountBatchSilent(w) ==
  /\ WAt(w, "count")
  /\ WGoto(w, "identify")
  /\ UNCHANGED <<store, live, appenders, snap, hnd, tail, delivered, counted, faults>>

(* The drops of the batch are counted before the cursor moves.             *)
CountBatch(w) ==
  /\ WAt(w, "count")
  /\ counted' = counted \cup snap[w].drops
  /\ WGoto(w, "identify")
  /\ UNCHANGED <<store, live, appenders, snap, hnd, tail, delivered, faults>>

(* writeCursorOffset: only for the file the batch was read from ...        *)
IdentifyFile(w) ==
  /\ WAt(w, "identify")
  /\ IF path # None /\ disk[path].lines # <<>> /\ SameFile(path, snap[w])
       THEN WGoto(w, "move") /\ UNCHANGED <<snap, hnd, tail>>
       ELSE Leave(w)
  /\ UNCHANGED <<store, live, appenders, delivered, counted, faults>>

(* ... and then the atomic rename.                                         *)
MoveCursor(w) ==
  /\ WAt(w, "move")
  /\ cursor' = [ino |-> snap[w].ino, first |-> snap[w].first, offset |-> snap[w].offset]
  /\ Leave(w)
  /\ UNCHANGED <<path, disk, live, appenders, delivered, counted, faults>>

(* reapSlug: not for a live session, and only a file that is delivered in  *)
(* full or too old.                                                        *)
IsDelivered(s) == s.lines # <<>> /\ s.torn = None /\ s.offset >= Len(s.lines)

ReapRead(w) ==
  /\ MayEnter(w)
  /\ ~live
  /\ IsDelivered(ReadSpool) \/ ReadSpool.old
  /\ snap' = [snap EXCEPT ![w] = ReadSpool]
  /\ WGoto(w, "hold")
  /\ UNCHANGED <<store, live, appenders, hnd, tail, delivered, counted, faults>>

OpenForRemoval(w) ==
  /\ WAt(w, "hold")
  /\ IF path = None
       THEN Leave(w)
       ELSE hnd' = [hnd EXCEPT ![w] = path] /\ WGoto(w, "safe") /\ UNCHANGED <<snap, tail>>
  /\ UNCHANGED <<store, live, appenders, delivered, counted, faults>>

(* isSafeToRemove, through the handle; an expired file is counted next.    *)
CheckSafe(w) ==
  LET file == disk[hnd[w]] IN
  /\ WAt(w, "safe")
  /\ IF ~live /\ SameFile(hnd[w], snap[w]) /\ SameSize(file, snap[w]) /\ file.age # "fresh"
       THEN /\ WGoto(w, IF IsDelivered(snap[w]) THEN "rmcursor" ELSE "expire")
            /\ UNCHANGED <<snap, hnd, tail>>
       ELSE Leave(w)
  /\ UNCHANGED <<store, live, appenders, delivered, counted, faults>>

CountExpired(w) ==
  LET s == snap[w] IN
  /\ WAt(w, "expire")
  /\ counted' = counted \cup
       RecordsAt(s.lines, LinesBetween(s.lines, s.offset, Len(s.lines)), {"whole", "glued", "frag"})
  /\ WGoto(w, "rmcursor")
  /\ UNCHANGED <<store, live, appenders, snap, hnd, tail, delivered, faults>>

RemoveCursor(w) ==
  /\ WAt(w, "rmcursor")
  /\ cursor' = NoCursor
  /\ WGoto(w, "unlink")
  /\ UNCHANGED <<path, disk, live, appenders, snap, hnd, tail, delivered, counted, faults>>

(* The name goes, whatever it leads to by now.                             *)
Unlink(w) ==
  /\ WAt(w, "unlink")
  /\ path' = None
  /\ WGoto(w, "rescue")
  /\ UNCHANGED <<disk, cursor, live, appenders, snap, hnd, tail, delivered, counted, faults>>

(* rescueTail stats and reads, through its handle, what the file grew by.  *)
(* Bytes behind a tail that was torn when the file was read are a line of  *)
(* their own once that tail is gone.                                       *)
Grown(file, s) ==
  LET lines == SubSeq(file.lines, Len(s.lines) + 1, Len(file.lines))
      Untie(line) == IF line.kind = "glued" THEN [line EXCEPT !.kind = "whole"]
                                            ELSE [rec |-> None, kind |-> "blank"]
  IN  IF s.torn # None /\ lines # <<>> THEN <<Untie(Head(lines))>> \o Tail(lines) ELSE lines

ReadTail(w) ==
  LET file == disk[hnd[w]] IN
  /\ WAt(w, "rescue")
  /\ IF SameSize(file, snap[w])
       THEN Leave(w)
       ELSE /\ tail' = [tail EXCEPT ![w] = Grown(file, snap[w])]
            /\ snap' = [snap EXCEPT ![w].drops = {file.torn} \ {None}]
            /\ WGoto(w, "putback")
            /\ UNCHANGED hnd
  /\ UNCHANGED <<store, live, appenders, delivered, counted, faults>>

(* A line that lands right behind a torn one: whole, it still parses.      *)
GluedKind(kind) ==
  IF kind = "whole" THEN "glued" ELSE IF kind = "blank" THEN "frag" ELSE kind

(* The lines go behind whatever the path holds by now, or are counted; a   *)
(* torn remainder is counted either way.                                   *)
Join(file, lines) ==
  [lines |-> file.lines \o
      (IF file.torn = None THEN lines
       ELSE <<[rec |-> IF Head(lines).kind = "blank" THEN file.torn ELSE Head(lines).rec,
               kind |-> GluedKind(Head(lines).kind)]>> \o Tail(lines)),
   torn |-> None, age |-> "fresh"]

PutBack(w) ==
  /\ WAt(w, "putback")
  /\ \/ /\ tail[w] # <<>>
        /\ \E i \in Ino :
             /\ IF path # None THEN i = path ELSE Free(i)
             /\ path' = i
             /\ disk' = [disk EXCEPT ![i] = Join(IF path = None THEN NewFile ELSE @, tail[w])]
        /\ counted' = counted \cup snap[w].drops
        /\ UNCHANGED faults
     \/ /\ IF tail[w] = <<>> THEN UNCHANGED faults ELSE Fault
        /\ counted' = counted \cup snap[w].drops \cup
             RecordsAt(tail[w], DOMAIN tail[w], {"whole", "glued", "frag"})
        /\ UNCHANGED <<path, disk>>
  /\ Leave(w)
  /\ UNCHANGED <<cursor, live, appenders, delivered>>

(* The hook is killed inside the lock (its budget, a signal); the lock     *)
(* itself comes back, see SpoolLock.                                       *)
KillWorker(w) ==
  /\ ~WAt(w, "idle")
  /\ wpc[w] \in {"rescue", "putback"} => KillInRescue
  /\ Fault
  /\ Leave(w)
  /\ UNCHANGED <<store, live, appenders, delivered, counted>>

-----------------------------------------------------------------------------
(* The session ends, and the same host session may come back, which always *)
(* appends at least the work context its registration writes.              *)
EndSession ==
  /\ live
  /\ live' = FALSE
  /\ UNCHANGED <<store, appenders, workers, delivered, counted, faults>>

Resume ==
  /\ ~live
  /\ \E r \in Rec : At(r, "todo")
  /\ live' = TRUE
  /\ UNCHANGED <<store, appenders, workers, delivered, counted, faults>>

(* SPOOL_REAP_GRACE_MS pass since the last write, then MAX_SPOOL_AGE_DAYS. *)
Age ==
  /\ path # None
  /\ disk[path].age # "old"
  /\ disk' = [disk EXCEPT ![path].age = IF @ = "fresh" THEN "quiet" ELSE "old"]
  /\ UNCHANGED <<path, cursor, live, appenders, workers, delivered, counted, faults>>

AppendStep(r) ==
  \/ OpenSpool(r) \/ WriteRecord(r) \/ StatAfterWrite(r) \/ TerminateFragment(r) \/ Refuse(r)

FlushStep(w) == Post(w) \/ CountBatch(w) \/ IdentifyFile(w) \/ MoveCursor(w)

ReapStep(w) ==
  \/ OpenForRemoval(w) \/ CheckSafe(w) \/ CountExpired(w)
  \/ RemoveCursor(w) \/ Unlink(w) \/ ReadTail(w) \/ PutBack(w)

Next ==
  \/ \E r \in Rec : Start(r) \/ AppendStep(r) \/ KillAppender(r)
  \/ \E w \in Worker : FlushRead(w) \/ FlushStep(w) \/ ReapRead(w) \/ ReapStep(w) \/ KillWorker(w)
  \/ EndSession \/ Resume \/ Age

Spec == Init /\ [][Next]_vars

(* A running hook gets through its awaits, and hooks keep coming: each of  *)
(* them flushes, so a reaper cannot keep the flush out for good.           *)
Fairness ==
  /\ \A r \in Rec : WF_vars(AppendStep(r))
  /\ \A w \in Worker : WF_vars(FlushStep(w)) /\ WF_vars(ReapStep(w)) /\ SF_vars(FlushRead(w))

FairSpec == Spec /\ Fairness

-----------------------------------------------------------------------------

(* On disk awaiting flush: a line of the file the name leads to, past the  *)
(* offset the next flush will trust.                                       *)
Waiting(r) ==
  /\ path # None
  /\ \E k \in DOMAIN disk[path].lines :
       /\ k > TrustedOffset(path)
       /\ disk[path].lines[k].rec = r
       /\ disk[path].lines[k].kind \in {"whole", "glued"}

(* In the hands of a reaper that has unlinked the file and will put back   *)
(* what it grew by.                                                        *)
InRescue(r) ==
  \E w \in Worker :
    \/ /\ WAt(w, "rescue")
       /\ \E k \in DOMAIN disk[hnd[w]].lines :
            k > Len(snap[w].lines) /\ disk[hnd[w]].lines[k].rec = r
    \/ WAt(w, "putback") /\ \E k \in DOMAIN tail[w] : tail[w][k].rec = r

(* append.ts: a record whose append returned is "on disk awaiting flush,   *)
(* delivered to the hub, or COUNTED as a drop: there is no fourth          *)
(* outcome", except while a living reaper carries it over an unlink.       *)
NoRecordLost ==
  \A r \in acked : r \in delivered \/ r \in counted \/ Waiting(r) \/ InRescue(r)

(* A trusted cursor never stands past a line that was neither delivered    *)
(* nor counted, whichever file it was written for and whichever file has   *)
(* its name or inode number now.                                           *)
CursorSkipsNothing ==
  path # None =>
    \A k \in 1..TrustedOffset(path) :
      k \in DOMAIN disk[path].lines /\ disk[path].lines[k].kind # "blank"
        => disk[path].lines[k].rec \in delivered \cup counted

(* Once the faults are over, every record whose append returned is heard   *)
(* of by the hub or counted: no backlog is stranded behind a cursor, a     *)
(* reap, a torn line or a file that came back.                             *)
EventuallySettled == \A r \in Rec : r \in acked ~> r \in delivered \cup counted
=============================================================================
