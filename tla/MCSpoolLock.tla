---------------------------- MODULE MCSpoolLock ----------------------------
(* Finite instances of SpoolLock: three callers in processes of their own,  *)
(* or two of one process beside a third.                                    *)
EXTENDS SpoolLock

CONSTANTS a, a2, b, c

Home == [t \in Task |-> IF t = a2 THEN a ELSE t]

Apart == {{a, b, c}}
ApartOrTogether == Apart \cup {{a, a2, b}}

(* No creator is suspended past SPOOL_LOCK_STALE_MS between its open and   *)
(* its write: what is left of the unsafe windows is two thieves.           *)
PromptSpec == LockInit /\ [][LockNext /\ (AgeLock => at[file.by] # "write")]_lockVars
=============================================================================
