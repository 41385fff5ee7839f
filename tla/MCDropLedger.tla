----------------------------- MODULE MCDropLedger -----------------------------
(* A finite instance of DropLedger: two drops of one session, which may end *)
(* and be resumed in between, so that one is in the aggregate when the      *)
(* other is swept, and two hooks whose sweeps the flush lock keeps apart.   *)
EXTENDS DropLedger, TLC

CONSTANTS d1, d2, s1, v, w

OneSession == [d \in Drop |-> s1]

Interchangeable == Permutations(Drop) \cup Permutations(Sweeper)
=============================================================================
