----------------------------- MODULE MCConsola -----------------------------
(***************************************************************************)
(* Consola for TLC.                                                        *)
(***************************************************************************)
EXTENDS Consola

\* Threads are interchangeable: what tells them apart is their number
Simetria == Permutations(Hilos)
=============================================================================
