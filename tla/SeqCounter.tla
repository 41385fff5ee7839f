----------------------------- MODULE SeqCounter -----------------------------
(***************************************************************************)
(* What a session's counter promises, and no more: under one epoch every   *)
(* block of positions lies after all that were handed out before it.  So   *)
(* the order of two positions is the order in which they were taken, and   *)
(* none is taken twice.  Which epochs there are, who takes, and what       *)
(* becomes of the file that holds the counter is the implementation's      *)
(* affair; CausalOrder implements this.                                    *)
(***************************************************************************)
EXTENDS Naturals

CONSTANT Sizes  \* how many positions one step may take

VARIABLE issued  \* the positions handed out: records with an epoch and an n

Init == issued = {}

\* The block of a size that starts at a position.
Run(first, size) == {[first EXCEPT !.n = @ + i] : i \in 0..(size - 1)}

Take(first, size) ==
    /\ \A p \in issued : p.epoch = first.epoch => p.n < first.n
    /\ issued' = issued \cup Run(first, size)

\* The first position of a block is one that was not issued before.
Next == \E first \in issued' \ issued, size \in Sizes : Take(first, size)

Spec == Init /\ [][Next]_issued

=============================================================================
