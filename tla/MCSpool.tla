------------------------------ MODULE MCSpool ------------------------------
(* Finite instances of Spool.                                              *)
EXTENDS Spool, TLC

CONSTANTS r1, r2, i1, i2, w

Symmetric == Permutations(Rec) \cup Permutations(Ino)

(* The content of an inode nobody can reach any more tells nothing.        *)
Reachable == <<[i \in Ino |-> IF Free(i) THEN NewFile ELSE disk[i]], path, cursor, live,
               appenders, workers, delivered, counted, faults>>
=============================================================================
