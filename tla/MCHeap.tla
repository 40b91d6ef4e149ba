------------------------------- MODULE MCHeap -------------------------------
(***************************************************************************)
(* Heap for TLC: what may be read where there is no metadata.              *)
(***************************************************************************)
EXTENDS Heap, TLC

MCBasura == {[size |-> 4, isFree |-> FALSE], [size |-> 6, isFree |-> TRUE]}
Simetria == Permutations(Pids)

=============================================================================
