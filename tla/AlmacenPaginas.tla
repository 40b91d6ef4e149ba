--------------------------- MODULE AlmacenPaginas ---------------------------
(***************************************************************************)
(* What the memory process promises its clients: a store of pages named by *)
(* a process and a number, in which a read returns the words last written  *)
(* and a page asked for is one the process did not have.  No frames, no    *)
(* index, no cache.                                                        *)
(***************************************************************************)
EXTENDS Integers, Sequences

CONSTANT Tam    \* words in a page

VARIABLES
  contenido,    \* <<pid, page>> -> page, for the pages that exist
  resp          \* the reply sent in the last step, if any

vars == <<contenido, resp>>

Nada == [op |-> "nada", pid |-> 0, pag |-> 0, ini |-> 0, val |-> <<>>]

\* Any request may be refused
Rechazo(r) == [op |-> "error", pid |-> r.pid, pag |-> r.pag, ini |-> r.ini, val |-> <<>>]

Existentes == DOMAIN contenido

Init == contenido = << >> /\ resp = Nada

\* A page appears with whatever was left in its frame; a process that asked for
\* heap is told its number
Mapear ==
  \E k \in DOMAIN contenido' \ Existentes :
    /\ DOMAIN contenido' = Existentes \cup {k}
    /\ \A q \in Existentes : contenido'[q] = contenido[q]
    /\ resp' \in {Nada, [op |-> "heap", pid |-> k[1], pag |-> 0, ini |-> 0, val |-> <<k[2]>>]}

\* Some words of one page change
Escribir ==
  \E k \in Existentes :
    /\ DOMAIN contenido' = Existentes
    /\ \A q \in Existentes \ {k} : contenido'[q] = contenido[q]
    /\ resp'.op \in {"nada", "nuevo"}

Desmapear ==
  \E k \in Existentes :
    /\ contenido' = [q \in Existentes \ {k} |-> contenido[q]]
    /\ resp' = Nada

\* The words read are those of the page
Leer ==
  /\ resp'.op \in {"leer", "obtener"}
  /\ <<resp'.pid, resp'.pag>> \in Existentes
  /\ \A i \in 1 .. Len(resp'.val) :
       resp'.ini + i <= Tam =>
         resp'.val[i] = contenido[<<resp'.pid, resp'.pag>>][resp'.ini + i - 1]
  /\ UNCHANGED contenido

Responder ==
  /\ resp' = Nada \/ resp'.op = "nuevo" \/ resp' = Rechazo(resp')
  /\ UNCHANGED contenido

Next == Mapear \/ Escribir \/ Desmapear \/ Leer \/ Responder

Spec == Init /\ [][Next]_vars
=============================================================================
