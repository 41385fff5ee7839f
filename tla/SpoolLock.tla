------------------------------ MODULE SpoolLock ------------------------------
(***************************************************************************)
(* The file lock of connector-core/src/spool/lock.ts, at the granularity   *)
(* of its file system calls.  Every hook process, MCP server and proxy     *)
(* that shares CROSSCHECK_HOME takes the flush lock and the session-state  *)
(* lock through `withLock`; nothing but the lock file itself orders them.  *)
(*                                                                         *)
(* A Task is one caller inside `withLock`; several tasks may live in one   *)
(* operating-system process (Proc), as they do in the MCP server and the   *)
(* ACP proxy.  A token is minted per acquisition and never reused, and a   *)
(* dead process never comes back, so a token is represented by its task;   *)
(* its pid may come back, as that of a process that has nothing to do with *)
(* the lock.                                                               *)
(***************************************************************************)
EXTENDS Naturals

CONSTANTS
  Task,      \* concurrent callers of withLock on one lock path
  Proc,      \* operating-system processes they run in
  ProcOf,    \* the process of a task
  Crews,     \* bound: which of the callers there are, chosen at the start
  Retries,   \* SPOOL_LOCK_RETRIES, or the session-state lock's own number
  NoOne      \* no creator / no token on disk / nothing remembered

ASSUME LockAssumption ==
  /\ ProcOf \in [Task -> Proc]
  /\ Crews \subseteq SUBSET Task
  /\ Retries \in Nat
  /\ NoOne \notin Task

VARIABLES
  file,     \* the lock file: who created it, is its token written, is it aged
  at,       \* where each task is inside withLock
  stole,    \* is this create the second one of its attempt, after a steal
  attempt,  \* the loop counter of acquireLock
  seen,     \* the token stealableToken returned; NoOne is an unreadable one
  held,     \* heldLocks of each process: the one entry for this path
  alive,    \* is the process in the process table and not a zombie
  impostor, \* dead processes whose pid an unrelated process has by now
  raced,    \* history: a thief was let past its re-check in an unsafe window
  robbed    \* history: holders whose claim a sibling's heldLocks.delete forgot

lockVars == <<file, at, stole, attempt, seen, held, alive, impostor, raced, robbed>>

LockLabels == {"absent", "idle", "open", "write", "check", "probe", "steal", "rm",
           "hold", "relrm", "forget"}

LockFile == [by : Task \cup {NoOne}, written : BOOLEAN, aged : BOOLEAN]

NoFile == [by |-> NoOne, written |-> FALSE, aged |-> FALSE]

Present == file.by # NoOne

Alive(t) == alive[ProcOf[t]]

TaskAt(t, label) == Alive(t) /\ at[t] = label

(* The file carries exactly the token of t.                                *)
CarriesToken(t) == file.by = t /\ file.written

(* What a second read compares: the same text the first read returned.     *)
CarriesSeen(t) ==
  /\ Present
  /\ IF seen[t] = NoOne THEN ~file.written ELSE CarriesToken(seen[t])

(* The creator can still finish what it started with this file.            *)
Owned == Present /\ Alive(file.by) /\ (file.written \/ at[file.by] = "write")

(* The creator is between its open and its write.                          *)
HalfWritten == Owned /\ ~file.written

(* No task will ever release or complete this file: only a thief can.      *)
Orphan == Present /\ ~Owned

(* The claim names a pid that is running again, as somebody else's.        *)
Impersonated == file.written /\ ProcOf[file.by] \in impostor

(* Seeded faults: the age alone authorises a steal; a claim that names no  *)
(* readable process is never taken.                                        *)
StealableByAge == Present /\ file.aged
StealableReadable ==
  Present /\ file.aged /\ file.written /\ ~Alive(file.by) /\ ~Impersonated

(* stealableToken: old, and its holder unreadable, gone or a zombie.       *)
Stealable ==
  /\ Present
  /\ file.aged
  /\ file.written => ~Alive(file.by) /\ ~Impersonated

LockInit ==
  /\ file = NoFile
  /\ \E crew \in Crews : at = [t \in Task |-> IF t \in crew THEN "idle" ELSE "absent"]
  /\ stole = [t \in Task |-> FALSE]
  /\ attempt = [t \in Task |-> 0]
  /\ seen = [t \in Task |-> NoOne]
  /\ held = [p \in Proc |-> NoOne]
  /\ alive = [p \in Proc |-> TRUE] /\ impostor = {}
  /\ raced = FALSE /\ robbed = {}

TaskGoto(t, label) == at' = [at EXCEPT ![t] = label]

(* acquireLock starts with a fresh token; its counter is back at zero      *)
(* since the last call on this task returned.                              *)
Begin(t) ==
  /\ TaskAt(t, "idle")
  /\ TaskGoto(t, "open")
  /\ UNCHANGED <<file, stole, attempt, seen, held, alive, impostor, raced, robbed>>

(* The next round of the loop, or a null token and withLock's fallback.    *)
NextAttempt(t) ==
  /\ stole' = [stole EXCEPT ![t] = FALSE]
  /\ IF attempt[t] < Retries
       THEN attempt' = [attempt EXCEPT ![t] = @ + 1] /\ TaskGoto(t, "open")
       ELSE attempt' = [attempt EXCEPT ![t] = 0] /\ TaskGoto(t, "idle")

(* createLock returned false: look for a stale claim after the first       *)
(* create of an attempt, start the next attempt after the second.          *)
CreateFailed(t) ==
  IF stole[t] THEN NextAttempt(t) ELSE TaskGoto(t, "probe") /\ UNCHANGED <<stole, attempt>>

(* open(path, "wx"): an empty file, or EEXIST.                             *)
Open(t) ==
  /\ TaskAt(t, "open")
  /\ IF Present
       THEN CreateFailed(t) /\ UNCHANGED file
       ELSE /\ file' = [by |-> t, written |-> FALSE, aged |-> FALSE]
            /\ TaskGoto(t, "write")
            /\ UNCHANGED <<stole, attempt>>
  /\ UNCHANGED <<seen, held, alive, impostor, raced, robbed>>

(* handle.writeFile(token): it reaches the inode the open returned, which  *)
(* is the lock file only while nobody removed that file.                   *)
Write(t) ==
  /\ TaskAt(t, "write")
  /\ file' = IF file.by = t THEN [file EXCEPT !.written = TRUE, !.aged = FALSE] ELSE file
  /\ TaskGoto(t, "check")
  /\ UNCHANGED <<stole, attempt, seen, held, alive, impostor, raced, robbed>>

(* The write throws (a full disk): the empty file stays behind.            *)
WriteFails(t) ==
  /\ TaskAt(t, "write")
  /\ CreateFailed(t)
  /\ UNCHANGED <<file, seen, held, alive, impostor, raced, robbed>>

(* acquireLock returns its token.                                          *)
Acquired(t) ==
  /\ TaskGoto(t, "hold")
  /\ stole' = [stole EXCEPT ![t] = FALSE]
  /\ attempt' = [attempt EXCEPT ![t] = 0]

(* Seeded fault: the claim is never remembered.                            *)
CheckForgets(t) ==
  /\ TaskAt(t, "check")
  /\ IF CarriesToken(t) THEN Acquired(t) ELSE CreateFailed(t)
  /\ UNCHANGED <<file, seen, held, alive, impostor, raced, robbed>>

(* The read-back, and rememberHeldLock when it is still our token.         *)
Check(t) ==
  /\ TaskAt(t, "check")
  /\ IF CarriesToken(t)
       THEN Acquired(t) /\ held' = [held EXCEPT ![ProcOf[t]] = t]
       ELSE CreateFailed(t) /\ UNCHANGED held
  /\ UNCHANGED <<file, seen, alive, impostor, raced, robbed>>

(* stealableToken: token and age through one handle, then the pid probe.   *)
Probe(t) ==
  /\ TaskAt(t, "probe")
  /\ IF Stealable
       THEN /\ seen' = [seen EXCEPT ![t] = IF file.written THEN file.by ELSE NoOne]
            /\ TaskGoto(t, "steal")
            /\ UNCHANGED <<stole, attempt>>
       ELSE NextAttempt(t) /\ UNCHANGED seen
  /\ UNCHANGED <<file, held, alive, impostor, raced, robbed>>

(* Whatever stealLock did, acquireLock tries to create once more.          *)
StealDone(t) ==
  /\ TaskGoto(t, "open")
  /\ stole' = [stole EXCEPT ![t] = TRUE]
  /\ seen' = [seen EXCEPT ![t] = NoOne]

(* stealLock's re-read: the token must still be the one observed.  A thief *)
(* is let through in an unsafe window when another thief is already        *)
(* through, or when the file's creator is alive and about to write its     *)
(* token into it.                                                          *)
StealCheck(t) ==
  /\ TaskAt(t, "steal")
  /\ IF CarriesSeen(t)
       THEN /\ TaskGoto(t, "rm")
            /\ raced' = (raced \/ HalfWritten \/ \E u \in Task \ {t} : TaskAt(u, "rm"))
            /\ UNCHANGED <<stole, seen>>
       ELSE StealDone(t) /\ UNCHANGED raced
  /\ UNCHANGED <<file, attempt, held, alive, impostor, robbed>>

(* stealLock's rm, of whatever the path names by now.                      *)
StealRm(t) ==
  /\ TaskAt(t, "rm")
  /\ file' = NoFile
  /\ StealDone(t)
  /\ UNCHANGED <<attempt, held, alive, impostor, raced, robbed>>

(* The action ended, well or not: releaseLock reads the token.             *)
Release(t) ==
  /\ TaskAt(t, "hold")
  /\ TaskGoto(t, IF CarriesToken(t) THEN "relrm" ELSE "forget")
  /\ robbed' = robbed \ {t}
  /\ UNCHANGED <<file, stole, attempt, seen, held, alive, impostor, raced>>

(* releaseLock's rm.                                                       *)
ReleaseRm(t) ==
  /\ TaskAt(t, "relrm")
  /\ file' = NoFile
  /\ TaskGoto(t, "forget")
  /\ UNCHANGED <<stole, attempt, seen, held, alive, impostor, raced, robbed>>

(* The running actions of other callers in the same process.               *)
Siblings(t) == {u \in Task \ {t} : ProcOf[u] = ProcOf[t] /\ at[u] = "hold"}

(* heldLocks.delete(path), in the turn after the rm settled, whoever made  *)
(* the entry.                                                              *)
Forget(t) ==
  /\ TaskAt(t, "forget")
  /\ held' = [held EXCEPT ![ProcOf[t]] = NoOne]
  /\ robbed' = robbed \cup Siblings(t)
  /\ TaskGoto(t, "idle")
  /\ UNCHANGED <<file, stole, attempt, seen, alive, impostor, raced>>

(* SPOOL_LOCK_STALE_MS passed since the last write to the file.            *)
AgeLock ==
  /\ Present
  /\ ~file.aged
  /\ file' = [file EXCEPT !.aged = TRUE]
  /\ UNCHANGED <<at, stole, attempt, seen, held, alive, impostor, raced, robbed>>

(* A process may only die while a caller is left in another one to look at *)
(* what it leaves behind; nothing of its memory survives.                          *)
Dies(p) ==
  LET Reset(f, none) == [t \in Task |-> IF ProcOf[t] = p THEN none ELSE f[t]] IN
  /\ alive[p]
  /\ \E t \in Task : ProcOf[t] # p /\ Alive(t) /\ at[t] # "absent"
  /\ alive' = [alive EXCEPT ![p] = FALSE]
  /\ held' = [held EXCEPT ![p] = NoOne]
  /\ at' = [t \in Task |-> IF ProcOf[t] = p /\ at[t] # "absent" THEN "idle" ELSE at[t]]
  /\ stole' = Reset(stole, FALSE)
  /\ attempt' = Reset(attempt, 0)
  /\ seen' = Reset(seen, NoOne)
  /\ robbed' = {t \in robbed : ProcOf[t] # p}
  /\ UNCHANGED <<impostor, raced>>

(* SIGKILL, an OOM kill, a power loss: no handler runs.                    *)
Kill(p) == Dies(p) /\ UNCHANGED file

(* Seeded fault: the exit handler unlinks without comparing the token.     *)
ExitUnchecked(p) ==
  /\ Dies(p)
  /\ file' = IF held[p] # NoOne THEN NoFile ELSE file

(* process.exit, wherever the tasks are: releaseHeldLocks runs first.      *)
Exit(p) ==
  /\ Dies(p)
  /\ file' = IF held[p] # NoOne /\ CarriesToken(held[p]) THEN NoFile ELSE file

(* The pid of a dead process goes to an unrelated one, which may live long;*)
(* nothing reads a pid but from a claim on disk.                           *)
PidReused(p) ==
  /\ ~alive[p] /\ p \notin impostor
  /\ file.written /\ ProcOf[file.by] = p
  /\ impostor' = impostor \cup {p}
  /\ UNCHANGED <<file, at, stole, attempt, seen, held, alive, raced, robbed>>

ImpostorEnds(p) ==
  /\ p \in impostor
  /\ impostor' = impostor \ {p}
  /\ UNCHANGED <<file, at, stole, attempt, seen, held, alive, raced, robbed>>

TaskStep(t) ==
  \/ Begin(t) \/ Open(t) \/ Write(t) \/ Check(t)
  \/ Probe(t) \/ StealCheck(t) \/ StealRm(t)
  \/ Release(t) \/ ReleaseRm(t) \/ Forget(t)

LockNext ==
  \/ \E t \in Task : TaskStep(t) \/ WriteFails(t)
  \/ \E p \in Proc : Kill(p) \/ Exit(p) \/ PidReused(p) \/ ImpostorEnds(p)
  \/ AgeLock

LockSpec == LockInit /\ [][LockNext]_lockVars

(* A running process keeps running its tasks, and time passes.             *)
LockFairness == WF_lockVars(AgeLock) /\ \A t \in Task : WF_lockVars(TaskStep(t))

FairLockSpec == LockSpec /\ LockFairness

-----------------------------------------------------------------------------

(* Every variable stays in its domain.                                     *)
LockType ==
  /\ file \in LockFile
  /\ at \in [Task -> LockLabels]
  /\ stole \in [Task -> BOOLEAN]
  /\ attempt \in [Task -> 0..Retries]
  /\ seen \in [Task -> Task \cup {NoOne}]
  /\ held \in [Proc -> Task \cup {NoOne}]
  /\ alive \in [Proc -> BOOLEAN]
  /\ impostor \in SUBSET Proc
  /\ raced \in BOOLEAN /\ robbed \in SUBSET Task

(* withLock runs at most one action at a time: lock.ts calls the liveness  *)
(* veto "the whole of the mutual-exclusion guarantee".  It is not: two     *)
(* thieves of one orphan break it (stealLock's read and rm are two calls). *)
MutualExclusion == \A t, u \in Task : TaskAt(t, "hold") /\ TaskAt(u, "hold") => t = u

(* Those windows are the only ones: while no thief passed stealLock's      *)
(* re-check beside another thief or under a creator still writing, at most *)
(* one action runs and its lock file is its own, whatever ages, crashes,   *)
(* exits and failed writes happened before.                                *)
ExclusiveUnlessRaced ==
  raced \/ ( /\ MutualExclusion
             /\ \A t \in Task : TaskAt(t, "hold") => CarriesToken(t) )

(* No step but its own release, or the exit of its own process, takes the  *)
(* file away from a running holder, until the race has happened: neither a *)
(* thief, nor a late releaser, nor the exit handler of another process.    *)
HolderKeepsLock ==
  [][\A t \in Task : TaskAt(t, "hold") /\ CarriesToken(t) /\ file' # file /\ ~raced
       => file' = [file EXCEPT !.aged = TRUE] \/ Exit(ProcOf[t])]_lockVars

(* process.exit puts back the claim of every action it cuts short, so the  *)
(* next hook does not wait SPOOL_LOCK_STALE_MS for it.  heldLocks has one  *)
(* entry a path (lock.ts:429), so there is one way to leave a claim behind *)
(* and no other: a second caller in the process forgot its own claim while *)
(* this action ran, and with it the entry of this one.                     *)
ExitPutsBack ==
  [][\A p \in Proc : Exit(p) =>
       \A t \in Task \ robbed : ProcOf[t] = p /\ at[t] = "hold" => ~CarriesToken(t)']_lockVars

(* A claim nobody will release never wedges the lock for good, but for the *)
(* one case lock.ts:93 admits: as long as its holder's pid is that of an   *)
(* unrelated process, nothing can tell the two apart.                      *)
OrphanRetired == []<>(Orphan => Impersonated)
=============================================================================
