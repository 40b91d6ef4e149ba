----------------------------- MODULE MCMemoria -----------------------------
(***************************************************************************)
(* Memoria for TLC, and what it implements.                                *)
(***************************************************************************)
EXTENDS Memoria

Mapeadas == {<<tabla[f].pid, tabla[f].pagina>> : f \in {g \in Frames : tabla[g].pid >= 0}}

\* The store of pages the clients see: the frames, found through the index
contenido ==
  [k \in Mapeadas |-> memoria[buscar_en_indice(k[1], k[2])]]

Almacen == INSTANCE AlmacenPaginas

\* Index, cache and replacement are invisible: the memory process implements the
\* store of pages, whatever the interleaving of its threads.
ImplementaAlmacen == Almacen!Spec
=============================================================================
