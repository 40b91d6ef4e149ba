-------------------------------- MODULE Heap --------------------------------
(***************************************************************************)
(* The heap of the processes (Kernel/Kernel.c, handlers of RESERVAR and    *)
(* LIBERAR).  The Kernel keeps a list of the pages Memoria has given to    *)
(* each process, with the bytes it takes for free, and a list of pointers; *)
(* the blocks of a page are chained by metadata that is in Memoria.        *)
(*                                                                         *)
(* A block is chosen first fit and split.  Freeing one marks it, compacts  *)
(* "the page of the process", which is always the first of its list, and   *)
(* gives that page back if no pointer is left in it.                       *)
(*                                                                         *)
(* The compaction loses the chain after a free block followed by one that  *)
(* is taken, and reads beyond the page after the last one: what is read    *)
(* there is any member of Basura.  Programs ask for sizes that are not     *)
(* negative, and write inside their blocks.                                *)
(***************************************************************************)
EXTENDS Integers, FiniteSets, SequencesExt

CONSTANTS
  Pids,           \* processes
  Espacios,       \* sizes asked for
  tamanio_pagina, \* bytes of a page
  PrimeraPagina,  \* pages of code and stack of a process: number of its first of heap
  MaxPaginas,     \* frames of Memoria left for heap
  MaxLibre,       \* bound on the bytes the Kernel may come to take for free in a page
  Basura          \* what may be read where there is no metadata of the page

tamanio_metadata == 5   \* sizeof(heapMetadata), packed

Metadata == [size : Nat, isFree : BOOLEAN]
Desplazamientos == 0 .. tamanio_pagina - tamanio_metadata
tam_max_disponible == tamanio_pagina - 2 * tamanio_metadata

ASSUME HeapAssumption ==
  /\ Espacios \subseteq Nat /\ PrimeraPagina \in Nat \ {0} /\ MaxPaginas \in Nat /\ MaxLibre \in Nat
  /\ tamanio_pagina \in Nat /\ tamanio_pagina >= 2 * tamanio_metadata
  /\ Basura \subseteq Metadata /\ Basura # {}

VARIABLES
  paginas_heap,  \* [pid, pagina, espacio_libre], with the metadata of its frame in
                 \* Memoria: offset -> [size, isFree]
  heap,          \* process -> its pointers [pagina, offset, size], if it has a list
  vivos,         \* processes that have not ended
  desordenados,  \* processes that have freed a pointer other than the last they were
                 \* given, or had two pages (history)
  rarezas        \* what the code is known to do wrong and has happened (history)

vars == <<paginas_heap, heap, vivos, desordenados, rarezas>>

Paginas == PrimeraPagina .. PrimeraPagina + MaxPaginas - 1
Puntero == [pagina : Paginas, offset : 0 .. tamanio_pagina - 1, size : Nat]
PaginaHeap == [pid : Pids, pagina : Paginas, espacio_libre : Int]

-----------------------------------------------------------------------------
(* The chain of a page *)

PaginaNueva == [c \in {0} |-> [size |-> tamanio_pagina - tamanio_metadata, isFree |-> TRUE]]

\* What is read at c: the metadata there, or anything
EnCadena(meta, c) == c \in DOMAIN meta
Lee(meta, c) == IF EnCadena(meta, c) THEN {meta[c]} ELSE Basura

\* Metadata written at c takes the place of any it overlaps
Escribe(meta, c, m) ==
  [d \in {c} \cup {e \in DOMAIN meta : e + tamanio_metadata <= c \/ c + tamanio_metadata <= e} |->
     IF d = c THEN m ELSE meta[d]]

\* Metadata that is taken into the block before it
Absorbe(meta, c, d, m) == Escribe(Restrict(meta, DOMAIN meta \ {d}), c, m)

Fin(c, m) == c + tamanio_metadata + m.size

\* Mutant: the free block is not made smaller by the one that is cut from it
Partida_SinResta(meta, c, libre, espacio) ==
  Escribe(Escribe(meta, c, [size |-> espacio, isFree |-> FALSE]),
          c + espacio + tamanio_metadata,
          [size |-> libre.size - espacio, isFree |-> TRUE])

\* Mutant: the metadata is discounted twice from the rest
Partida_DosVeces(meta, c, libre, espacio) ==
  Escribe(Escribe(meta, c, [size |-> espacio, isFree |-> FALSE]),
          c + espacio + tamanio_metadata,
          [size |-> libre.size - (espacio + 2 * tamanio_metadata), isFree |-> TRUE])

\* A free block cut in the one asked for and the rest, free
Partida(meta, c, libre, espacio) ==
  Escribe(Escribe(meta, c, [size |-> espacio, isFree |-> FALSE]),
          c + espacio + tamanio_metadata,
          [size |-> libre.size - (espacio + tamanio_metadata), isFree |-> TRUE])

\* alocar: the results of looking for a block from each place on.  The loop has no other
\* end, so with none in the page it goes on beyond it (offset -1).
Hasta(c) == IF c < tamanio_pagina THEN c ELSE tamanio_pagina

alocar(meta, espacio) ==
  LET desde[c \in 0 .. tamanio_pagina] ==
        IF c = tamanio_pagina THEN {[offset |-> -1, meta |-> meta, raro |-> {"fuera"}]}
        ELSE UNION {
          IF m.isFree /\ m.size >= espacio + tamanio_metadata
            THEN {[offset |-> c + tamanio_metadata, meta |-> Partida(meta, c, m, espacio),
                   raro |-> IF EnCadena(meta, c) THEN {} ELSE {"basura"}]}
            ELSE desde[Hasta(Fin(c, m))] : m \in Lee(meta, c)}
  IN  desde[0]

\* Mutant: joined blocks do not count the metadata between them
Unidos_SinMetadata(m, o) == [size |-> m.size + o.size, isFree |-> TRUE]

Unidos(m, o) == [size |-> m.size + tamanio_metadata + o.size, isFree |-> TRUE]

\* A turn of the loop of compactar_pagina, at e.c.  A free block is joined with the next one
\* if that is free too, and a third one is left for another time; if the next one is taken
\* the loop advances twice by the size of the free one.
Compacta(e) ==
  IF e.c >= tamanio_pagina THEN {e}
  ELSE UNION {
    IF ~m.isFree THEN {[e EXCEPT !.c = Fin(e.c, m)]}
    ELSE {IF o.isFree
            THEN [meta  |-> Absorbe(e.meta, e.c, Fin(e.c, m), Unidos(m, o)),
                  libre |-> e.libre + tamanio_metadata,
                  raro  |-> e.raro \cup (IF EnCadena(e.meta, e.c) /\ EnCadena(e.meta, Fin(e.c, m))
                                          THEN {} ELSE {"basura"})
                                   \cup (IF e.c \in Desplazamientos THEN {} ELSE {"fuera"}),
                  c     |-> Fin(e.c, Unidos(m, o))]
            ELSE [e EXCEPT !.c = Fin(Fin(e.c, m), m)]
          : o \in Lee(e.meta, Fin(e.c, m))}
    : m \in Lee(e.meta, e.c)}

\* Each turn advances: with as many as bytes, all have left the page
compactar_pagina(meta, libre) ==
  LET tras[k \in 0 .. tamanio_pagina] ==
        IF k = 0 THEN {[meta |-> meta, libre |-> libre, raro |-> {}, c |-> 0]}
        ELSE UNION {Compacta(e) : e \in tras[k - 1]}
  IN  tras[tamanio_pagina]

-----------------------------------------------------------------------------
(* The lists of the Kernel *)

DeProceso(pags, p) == SelectInSeq(pags, LAMBDA g : g.pid = p)
\* Memoria looks for the frame of a page by its number: the first, if two have it
Marco(pags, p, pagina) == SelectInSeq(pags, LAMBDA g : g.pid = p /\ g.pagina = pagina)
Cuantas(pags, p) == Cardinality({k \in DOMAIN pags : pags[k].pid = p})

ConEspacio(pags, p, espacio) ==
  SelectInSeq(pags, LAMBDA g : g.pid = p /\ g.espacio_libre >= espacio + tamanio_metadata)

\* Mutant: a page is not looked for by the pointers in it
esta_ocupada_Nunca(punteros, pagina) == FALSE

esta_ocupada(punteros, pagina) == \E k \in DOMAIN punteros : punteros[k].pagina = pagina

\* What follows once garbage was taken for a block, or other pages were written, is left out
Atiende(p) ==
  /\ p \in vivos /\ rarezas \subseteq {"otra pagina", "pagina repetida"}
  /\ \A k \in DOMAIN paginas_heap : paginas_heap[k].espacio_libre <= MaxLibre

-----------------------------------------------------------------------------
(* Requests *)

\* remove_page_by_PID, until there is none
SinPaginasDe(pags, p) ==
  LET quedan[k \in 0 .. Len(pags)] ==
        IF k = 0 THEN <<>>
        ELSE IF pags[k].pid = p THEN quedan[k - 1] ELSE Append(quedan[k - 1], pags[k])
  IN  quedan[Len(pags)]

\* end_process, as far as the heap goes: remove_page_by_PID and liberarHeap take what the
\* Kernel has of the process, and Memoria frees all its pages.
Terminar(p) ==
  /\ vivos' = vivos \ {p}
  /\ paginas_heap' = SinPaginasDe(paginas_heap, p)
  /\ heap' = Restrict(heap, DOMAIN heap \ {p})
  /\ UNCHANGED <<desordenados, rarezas>>

PunterosDe(h, p) == IF p \in DOMAIN h THEN h[p] ELSE <<>>

end_process(p) ==
  /\ Atiende(p)
  /\ Terminar(p)

\* A new page of heap: its number is how many pages the process has in Memoria
SOLICITAR_HEAP(p) ==
  Append(paginas_heap,
         [pid |-> p, pagina |-> PrimeraPagina + Cuantas(paginas_heap, p),
          espacio_libre |-> tamanio_pagina - tamanio_metadata, meta |-> PaginaNueva])

\* The block, in page k of the list: the frame is found by number
AlocarEn(pags, p, k, espacio, nuevas) ==
  LET f == Marco(pags, p, pags[k].pagina)
  IN  \E r \in alocar(pags[f].meta, espacio) :
        /\ IF r.offset = -1 \/ r.offset + espacio \notin Desplazamientos
           THEN rarezas' = rarezas \cup nuevas \cup {"fuera"} /\ UNCHANGED <<paginas_heap, heap>>
           ELSE /\ rarezas' = rarezas \cup r.raro \cup nuevas
                /\ paginas_heap' = [[pags EXCEPT ![f].meta = r.meta]
                                      EXCEPT ![k].espacio_libre = @ - (espacio + tamanio_metadata)]
                /\ heap' = [q \in DOMAIN heap \cup {p} |->
                              IF q = p THEN Append(PunterosDe(heap, p), [pagina |-> pags[k].pagina,
                                                                         offset |-> r.offset,
                                                                         size |-> espacio])
                              ELSE heap[q]]

ReservarEnPagina(p, espacio) ==
  /\ Atiende(p) /\ espacio <= tam_max_disponible
  /\ ConEspacio(paginas_heap, p, espacio) # 0
  /\ AlocarEn(paginas_heap, p, ConEspacio(paginas_heap, p, espacio), espacio, {})
  /\ UNCHANGED <<vivos, desordenados>>

ReservarEnPaginaNueva(p, espacio) ==
  /\ Atiende(p) /\ espacio <= tam_max_disponible
  /\ ConEspacio(paginas_heap, p, espacio) = 0
  /\ Len(paginas_heap) < MaxPaginas
  /\ LET pags == SOLICITAR_HEAP(p)
         repetida == Marco(paginas_heap, p, PrimeraPagina + Cuantas(paginas_heap, p)) # 0
     IN  AlocarEn(pags, p, ConEspacio(pags, p, espacio), espacio,
                  IF repetida THEN {"pagina repetida"} ELSE {})
  /\ desordenados' = IF DeProceso(paginas_heap, p) # 0 THEN desordenados \cup {p} ELSE desordenados
  /\ UNCHANGED vivos

\* No frame (-9), or more than a page (-8)
ReservarRechazado(p, espacio) ==
  /\ Atiende(p)
  /\ \/ espacio > tam_max_disponible
     \/ ConEspacio(paginas_heap, p, espacio) = 0 /\ Len(paginas_heap) = MaxPaginas
  /\ Terminar(p)

\* The page whose free bytes grow, which is compacted and may be given back: the first of
\* the process, since the number of the one looked for is only compared with zero
buscar_pagina(p) == DeProceso(paginas_heap, p)

Devueltos(u) == u.size

LiberarMemoria(p, n) ==
  /\ Atiende(p) /\ p \in DOMAIN heap /\ n \in DOMAIN heap[p]
  /\ LET u == heap[p][n]
         resto == RemoveAt(heap[p], n)
         f == Marco(paginas_heap, p, u.pagina)
         k == buscar_pagina(p)
         pags == [paginas_heap EXCEPT
                    ![f].meta = Escribe(@, u.offset - tamanio_metadata,
                                        [size |-> u.size, isFree |-> TRUE])]
         g == Marco(pags, p, pags[k].pagina)
         quitar == ~esta_ocupada(resto, pags[k].pagina)
     IN  /\ \A l \in 1 .. n - 1 : heap[p][l].pagina # u.pagina \/ heap[p][l].offset # u.offset
         /\ \E r \in compactar_pagina(pags[g].meta, pags[k].espacio_libre + Devueltos(u)) :
              LET hechas == [[pags EXCEPT ![g].meta = r.meta] EXCEPT ![k].espacio_libre = r.libre]
              IN  /\ paginas_heap' = IF quitar THEN RemoveAt(hechas, g) ELSE hechas
                  /\ rarezas' = rarezas \cup r.raro
                                \cup (IF pags[k].pagina # u.pagina THEN {"otra pagina"} ELSE {})
         /\ heap' = [heap EXCEPT ![p] = resto]
         /\ desordenados' = IF n # Len(heap[p]) THEN desordenados \cup {p} ELSE desordenados
  /\ UNCHANGED vivos

\* A pointer that does not exist: the process is aborted after its list was taken out to
\* look for it, so liberarHeap finds none and says that nothing was lost (-5)
LiberarRechazado(p) ==
  /\ Atiende(p)
  /\ Terminar(p)

Init ==
  /\ paginas_heap = <<>> /\ heap = <<>> /\ vivos = Pids
  /\ desordenados = {} /\ rarezas = {}

Next ==
  \E p \in Pids :
    \/ \E espacio \in Espacios :
         ReservarEnPagina(p, espacio) \/ ReservarEnPaginaNueva(p, espacio)
           \/ ReservarRechazado(p, espacio)
    \/ p \in DOMAIN heap /\ \E n \in DOMAIN heap[p] : LiberarMemoria(p, n)
    \/ LiberarRechazado(p)
    \/ end_process(p)

Spec == Init /\ [][Next]_vars

-----------------------------------------------------------------------------
(* Properties *)

TypeOK ==
  /\ \A k \in DOMAIN paginas_heap :
       LET g == paginas_heap[k]
       IN  /\ [pid |-> g.pid, pagina |-> g.pagina, espacio_libre |-> g.espacio_libre] \in PaginaHeap
           /\ DOMAIN g.meta \subseteq 0 .. tamanio_pagina - 1
           /\ \A c \in DOMAIN g.meta : g.meta[c] \in Metadata
  /\ DOMAIN heap \subseteq Pids /\ \A p \in DOMAIN heap : heap[p] \in Seq(Puntero)
  /\ vivos \subseteq Pids /\ desordenados \subseteq Pids
  /\ rarezas \subseteq {"fuera", "basura", "otra pagina", "pagina repetida"}

\* The blocks of a page, one after another, fill it
Encadenados(meta) ==
  /\ 0 \in DOMAIN meta
  /\ \A c \in DOMAIN meta : Fin(c, meta[c]) \in DOMAIN meta \cup {tamanio_pagina}
  /\ \A c, d \in DOMAIN meta : c < d => Fin(c, meta[c]) <= d
Tomados(meta) ==
  {<<c + tamanio_metadata, meta[c].size>> : c \in {d \in DOMAIN meta : ~meta[d].isFree}}
Apuntados(punteros, pagina) ==
  {<<u.offset, u.size>> : u \in {v \in Range(punteros) : v.pagina = pagina}}

\* While no garbage was taken for a free block and no page number is repeated, the blocks
\* of every page of heap fill it without overlap, and those taken are the ones the program
\* has a pointer to: whatever was freed, in whatever order, and in whatever page.
Teselado ==
  rarezas \subseteq {"otra pagina"} =>
    \A k \in DOMAIN paginas_heap :
      LET g == paginas_heap[k]
      IN  /\ Encadenados(g.meta)
          /\ Tomados(g.meta) = Apuntados(PunterosDe(heap, g.pid), g.pagina)

LibresEn(meta, c) == IF EnCadena(meta, c) /\ meta[c].isFree THEN meta[c].size ELSE 0
SumaLibre(meta) ==
  LET antes[c \in 0 .. tamanio_pagina] ==
        IF c = 0 THEN 0 ELSE antes[c - 1] + LibresEn(meta, c - 1)
  IN  antes[tamanio_pagina]

\* The bytes the Kernel takes for free are the sum of those of the free blocks, until it
\* counts in one page what was freed in another.
EspacioExacto ==
  rarezas = {} =>
    \A k \in DOMAIN paginas_heap : paginas_heap[k].espacio_libre = SumaLibre(paginas_heap[k].meta)

\* Metadata, pointers and the count of free bytes of a page say the same of it.
PaginasBienFormadas == Teselado /\ EspacioExacto

\* The page of a pointer is one the process has: a page is not given back with something
\* in it.  And while pages are not mistaken, no page without pointers is kept.
PaginasConUso ==
  /\ \A p \in DOMAIN heap : \A n \in DOMAIN heap[p] : Marco(paginas_heap, p, heap[p][n].pagina) # 0
  /\ rarezas = {} => \A k \in DOMAIN paginas_heap :
                       esta_ocupada(PunterosDe(heap, paginas_heap[k].pid), paginas_heap[k].pagina)

\* Programs that free in the reverse order of their requests, and fit in a page, are safe:
\* whatever goes wrong is after one has not.
DisciplinaDePila == rarezas # {} => desordenados # {}

=============================================================================
