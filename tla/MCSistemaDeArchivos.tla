------------------------ MODULE MCSistemaDeArchivos ------------------------
(***************************************************************************)
(* SistemaDeArchivos for TLC: what the Kernel may ask.                     *)
(***************************************************************************)
EXTENDS SistemaDeArchivos

\* Within a block, across two blocks; and a write of nothing
MCBuferes == {<<>>, <<"x">>, <<"x", "cero", "x">>}
MCOffsets == {-1, 0, 3}
MCTamanios == {0, 1, 3}

=============================================================================
