------------------------------ MODULE Memoria ------------------------------
(***************************************************************************)
(* The memory process (Memoria/Memoria.c): an inverted page table kept in  *)
(* the first frames of the memory itself, a hash index over it, and a      *)
(* write-through page cache with per-process quota and LRU replacement.    *)
(*                                                                         *)
(* Every connection is served by a thread (thread_proceso) that takes      *)
(* mutex_memoria for one request.  A request that sleeps RETARDO_MEMORIA   *)
(* is two steps, what is done before the usleep and what is done after it; *)
(* the loops of NUEVO_PROCESO and ELIMINAR_PROCESO are one step a turn.    *)
(* A page is Tam words; a word is an integer.                              *)
(***************************************************************************)
EXTENDS Integers, Sequences, FiniteSets

CONSTANTS
  Marcos,       \* MARCOS: frames 0 .. Marcos-1
  MarcosAdmin,  \* frames that hold the page table itself
  Tam,          \* MARCO_SIZE, in words
  Entradas,     \* ENTRADAS_CACHE
  CacheXProc,   \* CACHE_X_PROC
  RefMax,       \* 2^w - 1: the value of t_last_ref that reads as (uint32_t) -1
  Pids,         \* process ids the Kernel hands out
  Paginas,      \* page numbers the clients name
  Valores,      \* words the clients write
  Largos,       \* lengths of the reads, in words
  Scripts,      \* lengths of the scripts the Kernel loads, in words
  Stacks,       \* STACK_SIZE of the Kernel, in pages
  Hilos,        \* the threads: one per connection
  Kernel,       \* the one that serves the Kernel
  Clientes      \* what the clients of this instance may do (see Permite)

\* An ill-behaved request the clients really make, switched on by Clientes:
\*   "pagina_ausente"    a write to a page the process does not have (a dangling
\*                       pointer, or a burst that outlives its process)
\*   "libera"            the Kernel frees the last heap page of a process
\*   "libera_intermedia" the Kernel frees any heap page of a process
\*   "lectura_cruzada"   an instruction that starts in a page and ends in the next
\*   "desconexion"       a connection is closed
Permite(c) == c \in Clientes

ASSUME MemoriaAssumption ==
  /\ Marcos \in Nat \ {0} /\ MarcosAdmin \in 1 .. Marcos
  /\ Tam \in Nat \ {0} /\ Entradas \in Nat /\ CacheXProc \in Nat
  /\ RefMax \in Nat \ {0}
  /\ Pids \subseteq Nat \ {0} /\ Paginas \subseteq Nat /\ Valores \subseteq Int
  /\ Largos \subseteq 1 .. Tam
  /\ Scripts \subseteq Nat \ {0} /\ Stacks \subseteq Nat \ {0}
  /\ Kernel \in Hilos

VARIABLES
  tabla,    \* frame -> entrada_tabla
  indice,   \* hash_index: position -> list of frames
  memoria,  \* frame -> page; -1 and Marcos stand for what lies around the calloc
  cache,    \* entry -> entrada_cache
  admin,    \* entry -> entrada_admin_cache
  mutex,    \* mutex_memoria is locked
  pc,       \* thread -> where it is
  pedido,   \* thread -> the request it serves
  vuelta,   \* thread -> loop variable of the request
  carga,    \* pid -> the NUEVO_PROCESO the Kernel sent for it (history)
  resp      \* the reply sent in the last step, if any

vars == <<tabla, indice, memoria, cache, admin, mutex, pc, pedido, vuelta,
          carga, resp>>

-----------------------------------------------------------------------------
Frames     == 0 .. Marcos - 1
Posiciones == -1 .. Marcos
Slots      == 0 .. Entradas - 1
Pagina     == [0 .. Tam - 1 -> Int]

LIBRE     == -2     \* PID and pagina of a free frame
ADMIN     == -1     \* PID of a frame that holds the table
NADIE     == -1     \* pid and pagina of an empty cache entry
Cabecera  == -9     \* the heapMetadata of a free heap page
EntradaLibre == [pid |-> LIBRE, pagina |-> LIBRE]
EntradaVacia == [pid |-> NADIE, pagina |-> NADIE, contenido |-> [w \in 0 .. Tam - 1 |-> 0]]
AdminVacio   == [pid |-> NADIE, ref |-> RefMax]
SinPedido    == [op |-> "nada", pid |-> 0, pag |-> 0, ini |-> 0, largo |-> 0, val |-> 0]
SinRespuesta == [op |-> "nada", pid |-> 0, pag |-> 0, ini |-> 0, val |-> <<>>]

\* Replies carry the request they answer; a failed one carries no words.
Respuesta(p, v) == [op |-> p.op, pid |-> p.pid, pag |-> p.pag, ini |-> p.ini, val |-> v]
Error(p) == [Respuesta(p, <<>>) EXCEPT !.op = "error"]

Minimo(S) == CHOOSE x \in S : \A y \in S : x <= y
Maximo(S) == CHOOSE x \in S : \A y \in S : x >= y

-----------------------------------------------------------------------------
(* The page table and its index *)

\* atoi of the two numbers written one after the other, modulo the frames
calcular_posicion(pid, pagina) ==
  (pid * (IF pagina < 10 THEN 10 ELSE IF pagina < 100 THEN 100 ELSE 1000) + pagina) % Marcos

Libres == {f \in Frames : tabla[f].pid = LIBRE}

MarcosDe(pid) == {f \in Frames : tabla[f].pid = pid}

marcos_libres == Cardinality(Libres)

paginas_de_proceso(pid) == Cardinality(MarcosDe(pid))

\* The first frame of the list that holds the page, -1 if none does
buscar_en_indice(pid, pagina) ==
  LET lista == indice[calcular_posicion(pid, pagina)]
      hits  == {i \in 1 .. Len(lista) : tabla[lista[i]] = [pid |-> pid, pagina |-> pagina]}
  IN  IF hits = {} THEN -1 ELSE lista[Minimo(hits)]

\* Mutant: takes the frame of the hash without looking whether it is free
PrimerLibre_SinMirar(pos) == pos

\* Linear probing: the first free frame from the position on, then from frame 0
PrimerLibre(pos) ==
  LET adelante == {f \in Libres : f >= pos}
  IN  IF adelante # {} THEN Minimo(adelante) ELSE Minimo(Libres)

\* Mutant: lists the frame under its own number
UbicarPagina_MalIndice(pid, pagina) ==
  LET frame == PrimerLibre(calcular_posicion(pid, pagina))
  IN  /\ Libres # {}
      /\ tabla' = [tabla EXCEPT ![frame] = [pid |-> pid, pagina |-> pagina]]
      /\ indice' = [indice EXCEPT ![frame] = Append(@, frame)]

\* Gives the page a free frame and lists it in the index
UbicarPagina(pid, pagina) ==
  LET pos   == calcular_posicion(pid, pagina)
      frame == PrimerLibre(pos)
  IN  /\ Libres # {}
      /\ tabla' = [tabla EXCEPT ![frame] = [pid |-> pid, pagina |-> pagina]]
      /\ indice' = [indice EXCEPT ![pos] = Append(@, frame)]

\* borrar_de_indice: the list without the first occurrence of the frame
borrar_de_indice(lista, frame) ==
  LET hits == {i \in 1 .. Len(lista) : lista[i] = frame}
      k    == Minimo(hits)
  IN  [i \in 1 .. Len(lista) - 1 |-> IF i < k THEN lista[i] ELSE lista[i + 1]]

\* The entry of the frame becomes free and leaves its index list
LiberarMarco(frame) ==
  LET pos == calcular_posicion(tabla[frame].pid, tabla[frame].pagina)
  IN  /\ tabla' = [tabla EXCEPT ![frame] = EntradaLibre]
      /\ indice' = [indice EXCEPT ![pos] = borrar_de_indice(@, frame)]

-----------------------------------------------------------------------------
(* The cache *)

EnCache(pid, pagina) == {i \in Slots : cache[i].pid = pid /\ cache[i].pagina = pagina}

esta_en_cache(pid, pagina) == EnCache(pid, pagina) # {}

\* buscar_entrada and set_zero_ref keep the last match of their loop
buscar_entrada(pid, pagina) == Maximo(EnCache(pid, pagina))

EntradasDe(pid) == {i \in Slots : cache[i].pid = pid}

cantidad_de_entradas(pid) == Cardinality(EntradasDe(pid))

aumentar_referencias ==
  [i \in Slots |-> IF admin[i].ref = RefMax THEN admin[i]
                   ELSE [admin[i] EXCEPT !.ref = @ + 1]]

\* The entries of S with the greatest t_last_ref; the search starts from 0 and
\* moves on a strictly greater one, so none is found when all of them are 0.
MasViejas(adm, S) ==
  {i \in S : adm[i].ref > 0 /\ \A j \in S : adm[j].ref <= adm[i].ref}

\* The victim is the first of them; without one the C variable is not
\* initialised, and any entry may be overwritten.
Victima(adm, S) ==
  IF MasViejas(adm, S) = {} THEN Slots ELSE {Minimo(MasViejas(adm, S))}

EntradasLibres == {i \in Slots : cache[i].pid = NADIE}

buscar_victima_local(adm, pid) == Victima(adm, {i \in Slots : adm[i].pid = pid})

buscar_victima_global(adm) == Victima(adm, Slots)

\* Mutant: lets a process exceed the quota by one
EntradaElegida_DeMas(adm, pid) ==
  IF cantidad_de_entradas(pid) > CacheXProc THEN buscar_victima_local(adm, pid)
  ELSE IF EntradasLibres # {} THEN {Minimo(EntradasLibres)}
  ELSE buscar_victima_global(adm)

\* The entries insertar_entrada may take for a page of the process
EntradaElegida(adm, pid) ==
  IF cantidad_de_entradas(pid) >= CacheXProc THEN buscar_victima_local(adm, pid)
  ELSE IF EntradasLibres # {} THEN {Minimo(EntradasLibres)}
  ELSE buscar_victima_global(adm)

\* Mutant: does not record the owner in admin_cache
insertar_entrada_SinDuenio(pid, pagina, contenido) ==
  \E aux \in EntradaElegida(aumentar_referencias, pid) :
    /\ cache' = [cache EXCEPT ![aux] =
         [pid |-> pid, pagina |-> pagina, contenido |-> contenido]]
    /\ admin' = [aumentar_referencias EXCEPT ![aux].ref = 0]

\* aumentar_referencias and then insertar_entrada: the whole frame is copied
insertar_entrada(pid, pagina, contenido) ==
  LET adm == aumentar_referencias
  IN  IF Entradas > 0 /\ CacheXProc > 0
      THEN \E aux \in EntradaElegida(adm, pid) :
             /\ cache' = [cache EXCEPT ![aux] =
                  [pid |-> pid, pagina |-> pagina, contenido |-> contenido]]
             /\ admin' = [adm EXCEPT ![aux] = [pid |-> pid, ref |-> 0]]
      ELSE cache' = cache /\ admin' = adm

\* aumentar_referencias and then set_zero_ref of a page that is cached
TocarEntrada(pid, pagina) ==
  admin' = [aumentar_referencias EXCEPT ![buscar_entrada(pid, pagina)].ref = 0]

-----------------------------------------------------------------------------
(* Reading and writing pages *)

\* The page with the words v written from offset on
ConPalabras(pagina, offset, v) ==
  [w \in 0 .. Tam - 1 |->
     IF w \in offset .. offset + Len(v) - 1 THEN v[w - offset + 1] ELSE pagina[w]]

\* The words of a page, and of the frame that follows it in memory when the
\* read crosses the end of the page (lecturaV2 does not look up the next page)
Palabras(frame, ini, largo) ==
  [i \in 1 .. largo |-> IF ini + i <= Tam THEN memoria[frame][ini + i - 1]
                        ELSE memoria[frame + 1][ini + i - 1 - Tam]]

\* Mutant: a page that is cached is written only in its frame
escritura_SinCache(pid, pagina, offset, v) ==
  LET frame == buscar_en_indice(pid, pagina)
      nueva == ConPalabras(memoria[frame], offset, v)
  IN  /\ memoria' = [memoria EXCEPT ![frame] = nueva]
      /\ IF esta_en_cache(pid, pagina)
         THEN cache' = cache /\ TocarEntrada(pid, pagina)
         ELSE insertar_entrada(pid, pagina, nueva)

\* escritura, after its usleep: write-through, also when the page has no frame
escritura(pid, pagina, offset, v) ==
  LET frame == buscar_en_indice(pid, pagina)
      nueva == ConPalabras(memoria[frame], offset, v)
      i     == buscar_entrada(pid, pagina)
  IN  /\ memoria' = [memoria EXCEPT ![frame] = nueva]
      /\ IF esta_en_cache(pid, pagina)
         THEN /\ cache' = [cache EXCEPT ![i].contenido = ConPalabras(@, offset, v)]
              /\ TocarEntrada(pid, pagina)
         ELSE insertar_entrada(pid, pagina, nueva)

-----------------------------------------------------------------------------
(* thread_proceso: taking a request and answering it *)

Ir(t, donde) == pc' = [pc EXCEPT ![t] = donde]

\* The thread has received the code and its parameters and takes the mutex;
\* when the request does not sleep it also releases it in this step.
Atender(t, p, donde) ==
  /\ pc[t] = "recv" /\ ~mutex
  /\ mutex' = (donde # "recv")
  /\ Ir(t, donde)
  /\ pedido' = [pedido EXCEPT ![t] = IF donde = "recv" THEN SinPedido ELSE p]
  /\ vuelta' = [vuelta EXCEPT ![t] = 0]

\* Mutant: unlocks, and serves the same request again
Terminar_Repite(t) == mutex' = FALSE /\ UNCHANGED <<pc, pedido, vuelta>>

\* The request is done: pthread_mutex_unlock and back to recv
Terminar(t) ==
  /\ mutex' = FALSE
  /\ Ir(t, "recv")
  /\ pedido' = [pedido EXCEPT ![t] = SinPedido]
  /\ vuelta' = [vuelta EXCEPT ![t] = 0]

\* LEER (lecturaV2) and OBTENER_VALOR (lectura): served from the cache
LeerEnCache(t, p) ==
  /\ p.ini + p.largo <= Tam
  /\ esta_en_cache(p.pid, p.pag)
  /\ Atender(t, p, "recv")
  /\ LET c == cache[buscar_entrada(p.pid, p.pag)].contenido
     IN  resp' = Respuesta(p, [i \in 1 .. p.largo |-> c[p.ini + i - 1]])
  /\ TocarEntrada(p.pid, p.pag)
  /\ UNCHANGED <<tabla, indice, memoria, cache, carga>>

\* ... or not: the thread sleeps before it looks at the index
LeerSinCache(t, p) ==
  /\ p.ini + p.largo > Tam \/ ~esta_en_cache(p.pid, p.pag)
  /\ Atender(t, p, "lectura")
  /\ resp' = SinRespuesta
  /\ UNCHANGED <<tabla, indice, memoria, cache, admin, carga>>

\* A missing page is answered with -1 to LEER and with nothing to OBTENER_VALOR
\* (its send of a null buffer fails).
LeerTrasRetardo(t) ==
  LET p     == pedido[t]
      frame == buscar_en_indice(p.pid, p.pag)
  IN  /\ pc[t] = "lectura"
      /\ Terminar(t)
      /\ IF frame < 0
         THEN /\ resp' = IF p.op = "leer" THEN Error(p) ELSE SinRespuesta
              /\ UNCHANGED <<cache, admin>>
         ELSE /\ resp' = Respuesta(p, Palabras(frame, p.ini, p.largo))
              /\ insertar_entrada(p.pid, p.pag, memoria[frame])
      /\ UNCHANGED <<tabla, indice, memoria, carga>>

\* GUARDAR_VALOR
GuardarValor(t, p) ==
  /\ Atender(t, p, "escritura")
  /\ resp' = SinRespuesta
  /\ UNCHANGED <<tabla, indice, memoria, cache, admin, carga>>

GuardarTrasRetardo(t) ==
  LET p == pedido[t]
  IN  /\ pc[t] = "escritura"
      /\ escritura(p.pid, p.pag, p.ini, <<p.val>>)
      /\ Terminar(t)
      /\ resp' = SinRespuesta
      /\ UNCHANGED <<tabla, indice, carga>>

-----------------------------------------------------------------------------
(* NUEVO_PROCESO: a script of p.largo words and a stack of p.pag pages *)

\* Pages the script takes
paginas_usadas(p) == p.largo \div Tam + (IF p.largo % Tam > 0 THEN 1 ELSE 0)

PalabraDeScript(pid, i) == 10 * pid + i

\* Mutant: a word too far
Trozo_Corrido(p, i) ==
  [w \in 1 .. (IF i < paginas_usadas(p) - 1 THEN Tam ELSE p.largo % Tam) |->
     PalabraDeScript(p.pid, i * Tam + w + 1)]

\* The words the i-th escritura of the handler copies: a whole page, except for
\* the last one, which copies the remainder of the division
Trozo(p, i) ==
  LET quot  == p.largo \div Tam
      rem   == p.largo % Tam
      largo == IF i < paginas_usadas(p) - 1 THEN Tam ELSE rem
      desde == IF i < paginas_usadas(p) - 1 THEN i * Tam ELSE quot * Tam
  IN  [w \in 1 .. largo |-> PalabraDeScript(p.pid, desde + w)]

\* buscar_espacioV2 refuses the process when there are not enough frames
NuevoProceso(t, p) ==
  LET hay == paginas_usadas(p) + p.pag <= marcos_libres
  IN  /\ Atender(t, p, IF hay THEN "ubicar" ELSE "recv")
      /\ carga' = [carga EXCEPT ![p.pid] = p]
      /\ resp' = IF hay THEN SinRespuesta ELSE Error(p)
      /\ UNCHANGED <<tabla, indice, memoria, cache, admin>>

\* A turn of buscar_espacioV2's loop
UbicarTrasPedido(t) ==
  LET p   == pedido[t]
      fin == vuelta[t] + 1 = paginas_usadas(p) + p.pag
  IN  /\ pc[t] = "ubicar"
      /\ UbicarPagina(p.pid, vuelta[t])
      /\ vuelta' = [vuelta EXCEPT ![t] = IF fin THEN 0 ELSE @ + 1]
      /\ Ir(t, IF fin THEN "cargar" ELSE "ubicar")
      /\ resp' = SinRespuesta
      /\ UNCHANGED <<memoria, cache, admin, mutex, pedido, carga>>

\* A turn of the handler's loop: one escritura, usleep included
CargarScript(t) ==
  LET p == pedido[t]
  IN  /\ pc[t] = "cargar"
      /\ escritura(p.pid, vuelta[t], 0, Trozo(p, vuelta[t]))
      /\ IF vuelta[t] + 1 = paginas_usadas(p)
         THEN Terminar(t) /\ resp' = Respuesta(p, <<paginas_usadas(p) + p.pag>>)
         ELSE /\ vuelta' = [vuelta EXCEPT ![t] = @ + 1]
              /\ resp' = SinRespuesta
              /\ UNCHANGED <<mutex, pc, pedido>>
      /\ UNCHANGED <<tabla, indice, carga>>

-----------------------------------------------------------------------------
(* ELIMINAR_PROCESO, SOLICITAR_HEAP, LIBERAR_PAGINA *)

EliminarProceso(t, p) ==
  /\ Atender(t, p, "finalizar")
  /\ resp' = SinRespuesta
  /\ UNCHANGED <<tabla, indice, memoria, cache, admin, carga>>

\* A turn of finalizar_proceso's loop that finds a frame of the process
FinalizarMarco(t) ==
  LET pid == pedido[t].pid
  IN  /\ pc[t] = "finalizar"
      /\ MarcosDe(pid) # {}
      /\ LiberarMarco(Minimo(MarcosDe(pid)))
      /\ resp' = SinRespuesta
      /\ UNCHANGED <<memoria, cache, admin, mutex, pc, pedido, vuelta, carga>>

\* flush_process goes by the owner in admin_cache, not by the one in cache
FinalizarFin(t) ==
  LET pid == pedido[t].pid
  IN  /\ pc[t] = "finalizar"
      /\ MarcosDe(pid) = {}
      /\ cache' = [i \in Slots |-> IF admin[i].pid = pid THEN EntradaVacia ELSE cache[i]]
      /\ admin' = [i \in Slots |-> IF admin[i].pid = pid THEN AdminVacio ELSE admin[i]]
      /\ Terminar(t)
      /\ resp' = SinRespuesta
      /\ UNCHANGED <<tabla, indice, memoria, carga>>

\* asignar_nueva_pagina: the number of the new page is how many the process has,
\* and its header is written in the frame, not in the cache
SolicitarHeap(t, p) ==
  LET numero == paginas_de_proceso(p.pid)
      frame  == PrimerLibre(calcular_posicion(p.pid, numero))
  IN  /\ Atender(t, p, "recv")
      /\ IF marcos_libres >= 1
         THEN /\ UbicarPagina(p.pid, numero)
              /\ memoria' = [memoria EXCEPT ![frame][0] = Cabecera]
              /\ resp' = Respuesta(p, <<numero>>)
         ELSE /\ resp' = Error(p)
              /\ UNCHANGED <<tabla, indice, memoria>>
      /\ UNCHANGED <<cache, admin, carga>>

\* Mutant: leaves the page in the cache
LiberarPagina_SinCache(t, p) ==
  /\ buscar_en_indice(p.pid, p.pag) >= 0
  /\ Atender(t, p, "recv")
  /\ LiberarMarco(buscar_en_indice(p.pid, p.pag))
  /\ resp' = SinRespuesta
  /\ UNCHANGED <<memoria, cache, admin, carga>>

\* liberar_pagina: empties the cache entries of the page but not their admin_cache
LiberarPagina(t, p) ==
  LET frame == buscar_en_indice(p.pid, p.pag)
  IN  /\ frame >= 0
      /\ Atender(t, p, "recv")
      /\ LiberarMarco(frame)
      /\ cache' = [i \in Slots |-> IF i \in EnCache(p.pid, p.pag)
                                   THEN [cache[i] EXCEPT !.pid = NADIE, !.pagina = NADIE]
                                   ELSE cache[i]]
      /\ resp' = SinRespuesta
      /\ UNCHANGED <<memoria, admin, carga>>

-----------------------------------------------------------------------------
(* Connections and the console *)

\* recv returns 0: the mutex was not taken, yet it is unlocked on the way out
Desconectar(t) ==
  /\ Permite("desconexion")
  /\ pc[t] = "recv"
  /\ Ir(t, "cerrado")
  /\ mutex' = FALSE
  /\ resp' = SinRespuesta
  /\ UNCHANGED <<tabla, indice, memoria, cache, admin, pedido, vuelta, carga>>

\* main accepts a CPU and starts its thread
Conectar(t) ==
  /\ pc[t] = "cerrado"
  /\ Ir(t, "recv")
  /\ resp' = SinRespuesta
  /\ UNCHANGED <<tabla, indice, memoria, cache, admin, mutex, pedido, vuelta, carga>>

\* The console's "flush" command
flush ==
  /\ ~mutex
  /\ cache' = [i \in Slots |-> EntradaVacia]
  /\ admin' = [i \in Slots |-> AdminVacio]
  /\ resp' = SinRespuesta
  /\ UNCHANGED <<tabla, indice, memoria, mutex, pc, pedido, vuelta, carga>>

-----------------------------------------------------------------------------
(* The requests the clients send *)

Creados == {pid \in Pids : carga[pid] # SinPedido}

\* Processes a client may ask about: one that was sent to memory (it may be gone
\* by now: the Kernel's console ends processes while they run), and that no other
\* client is using, for a CPU waits while the Kernel serves its process.
Disponibles ==
  {pid \in Creados : \A t \in Hilos : pedido[t].pid = pid => pedido[t].op = "eliminar"}

Tiene(pid, pagina) == \E f \in Frames : tabla[f] = [pid |-> pid, pagina |-> pagina]

\* Pages of code, which no program writes, and pages that are not of heap
PaginasDeCodigo(pid) == paginas_usadas(carga[pid])
PaginasIniciales(pid) == PaginasDeCodigo(pid) + carga[pid].pag

\* Only LEER is sent with reads that leave the page, from one page of code to the next
Lecturas ==
  {p \in [op : {"leer", "obtener"}, pid : Disponibles, pag : Paginas,
          ini : 0 .. Tam - 1, largo : Largos, val : {0}] :
     \/ p.ini + p.largo <= Tam
     \/ p.op = "leer" /\ Permite("lectura_cruzada") /\ p.pag + 1 < PaginasDeCodigo(p.pid)}

Escrituras ==
  {p \in [op : {"guardar"}, pid : Disponibles, pag : Paginas,
          ini : 0 .. Tam - 1, largo : {1}, val : Valores] :
     \/ Tiene(p.pid, p.pag) /\ p.pag >= PaginasDeCodigo(p.pid)
     \/ ~Tiene(p.pid, p.pag) /\ Permite("pagina_ausente")}

Cargas == [op : {"nuevo"}, pid : Pids \ Creados, pag : Stacks, ini : {0},
           largo : Scripts, val : {0}]

Bajas == [op : {"eliminar"}, pid : Creados, pag : {0}, ini : {0}, largo : {0}, val : {0}]

\* The Kernel asks for heap only for a process that it has loaded
Heaps == {p \in [op : {"heap"}, pid : Disponibles, pag : {0}, ini : {0}, largo : {0}, val : {0}] :
            MarcosDe(p.pid) # {}}

Liberaciones ==
  {p \in [op : {"liberar"}, pid : Disponibles, pag : Paginas, ini : {0}, largo : {0}, val : {0}] :
     /\ p.pag >= PaginasIniciales(p.pid)
     /\ \/ Permite("libera_intermedia")
        \/ Permite("libera") /\ p.pag + 1 = paginas_de_proceso(p.pid)}

PedidoDeCpu(t) ==
  \/ \E p \in Lecturas : LeerEnCache(t, p) \/ LeerSinCache(t, p)
  \/ \E p \in Escrituras : GuardarValor(t, p)

PedidoDeKernel(t) ==
  \/ PedidoDeCpu(t)
  \/ \E p \in Cargas : NuevoProceso(t, p)
  \/ \E p \in Bajas : EliminarProceso(t, p)
  \/ \E p \in Heaps : SolicitarHeap(t, p)
  \/ \E p \in Liberaciones : LiberarPagina(t, p)

Paso(t) ==
  \/ LeerTrasRetardo(t)
  \/ GuardarTrasRetardo(t)
  \/ UbicarTrasPedido(t)
  \/ CargarScript(t)
  \/ FinalizarMarco(t)
  \/ FinalizarFin(t)

Init ==
  /\ tabla = [f \in Frames |-> IF f < MarcosAdmin THEN [pid |-> ADMIN, pagina |-> f]
                               ELSE EntradaLibre]
  /\ indice = [f \in Frames |-> <<>>]
  /\ memoria = [f \in Posiciones |-> [w \in 0 .. Tam - 1 |-> 0]]
  /\ cache = [i \in Slots |-> EntradaVacia]
  /\ admin = [i \in Slots |-> AdminVacio]
  /\ mutex = FALSE
  /\ pc = [t \in Hilos |-> IF t = Kernel THEN "recv" ELSE "cerrado"]
  /\ pedido = [t \in Hilos |-> SinPedido]
  /\ vuelta = [t \in Hilos |-> 0]
  /\ carga = [pid \in Pids |-> SinPedido]
  /\ resp = SinRespuesta

Next ==
  \/ PedidoDeKernel(Kernel)
  \/ \E t \in Hilos \ {Kernel} :
       PedidoDeCpu(t) \/ Desconectar(t) \/ Conectar(t)
  \/ \E t \in Hilos : Paso(t)
  \/ flush

Spec == Init /\ [][Next]_vars

\* The threads are scheduled: one that has taken a request goes on with it
FairSpec == Spec /\ \A t \in Hilos : WF_vars(Paso(t))

-----------------------------------------------------------------------------
(* Properties *)

Codigos == {"nada", "leer", "obtener", "guardar", "nuevo", "eliminar", "heap", "liberar"}
Pedido == [op : Codigos, pid : Nat, pag : Int, ini : Int, largo : Int, val : Int]

TipoTabla ==
  /\ tabla \in [Frames -> [pid : Int, pagina : Int]]
  /\ indice \in [Frames -> Seq(Frames)]

TipoPaginas ==
  /\ memoria \in [Posiciones -> Pagina]
  /\ cache \in [Slots -> [pid : Int, pagina : Int, contenido : Pagina]]
  /\ admin \in [Slots -> [pid : Int, ref : 0 .. RefMax]]

Lugares == {"recv", "cerrado", "lectura", "escritura", "ubicar", "cargar", "finalizar"}

TipoHilos ==
  /\ mutex \in BOOLEAN
  /\ pc \in [Hilos -> Lugares]
  /\ pedido \in [Hilos -> Pedido]
  /\ vuelta \in [Hilos -> Nat]

\* The state keeps its types: t_last_ref stays in its width, the index lists
\* frames, a cached page is a page.
TypeOK == TipoTabla /\ TipoPaginas /\ TipoHilos /\ carga \in [Pids -> Pedido]

De(f) == calcular_posicion(tabla[f].pid, tabla[f].pagina)

\* The hash index lists every frame of a process exactly once, under the position
\* of the page it holds, and lists nothing else: what agregar_frame_en_indice and
\* borrar_de_indice must keep in step with the table, or pages get lost.
IndiceCoherente ==
  /\ \A pos \in Frames : \A i \in 1 .. Len(indice[pos]) :
       /\ tabla[indice[pos][i]].pid >= 0
       /\ De(indice[pos][i]) = pos
       /\ \A j \in 1 .. Len(indice[pos]) : indice[pos][i] = indice[pos][j] => i = j
  /\ \A f \in Frames : tabla[f].pid >= 0 =>
       \E i \in 1 .. Len(indice[De(f)]) : indice[De(f)][i] = f

\* cache and admin_cache agree on the owner of an entry in use, so flush_process,
\* which goes by admin_cache, leaves no page of a dead process behind.
AdminAcorde ==
  \A i \in Slots : cache[i].pid # NADIE => admin[i].pid = cache[i].pid

\* Whenever insertar_entrada has to replace an entry its search finds one: the
\* local variable "victima" is never used uninitialised.
VictimaDefinida ==
  \A pid \in Pids :
    /\ cantidad_de_entradas(pid) >= CacheXProc /\ CacheXProc > 0 =>
         MasViejas(aumentar_referencias, {i \in Slots : admin[i].pid = pid}) # {}
    /\ EntradasLibres = {} /\ Entradas > 0 =>
         MasViejas(aumentar_referencias, Slots) # {}

\* The entry taken by a process that is at its quota is one of its own ("Buscamos
\* una victima local", as insertar_entrada logs it).  Where pages are freed it fails:
\* liberar_pagina leaves the owner in admin_cache, and the search goes by it.
VictimaEsDelProceso ==
  \A pid \in Pids :
    cantidad_de_entradas(pid) >= CacheXProc /\ CacheXProc > 0 =>
      \A v \in buscar_victima_local(aumentar_referencias, pid) : cache[v].pid = pid

\* No process holds more cache entries than CACHE_X_PROC.
CuotaDeCache ==
  CacheXProc > 0 => \A pid \in Pids : cantidad_de_entradas(pid) <= CacheXProc

\* The replacement of insertar_entrada stays inside the process: its search finds an
\* entry, one of the process' own when it is at its quota, and the quota is kept.
ReemplazoLocal == VictimaDefinida /\ VictimaEsDelProceso /\ CuotaDeCache

EnBaja(pid) == \E t \in Hilos : pc[t] = "finalizar" /\ pedido[t].pid = pid

\* What is cached for a page is what its frame holds (write-through), except
\* while finalizar_proceso is still taking the frames of the process.
CacheFiel ==
  \A i \in Slots :
    LET frame == buscar_en_indice(cache[i].pid, cache[i].pagina)
    IN  cache[i].pid # NADIE /\ ~EnBaja(cache[i].pid) /\ frame >= 0 =>
          cache[i].contenido = memoria[frame]

\* Only pages that exist are cached, with the same exception: a dead process
\* keeps no entry of the cache.
CacheSinFantasmas ==
  \A i \in Slots :
    cache[i].pid # NADIE /\ ~EnBaja(cache[i].pid) => Tiene(cache[i].pid, cache[i].pagina)

\* Two frames never hold the same page of a process: asignar_nueva_pagina numbers
\* the new page with the count of pages, which is right only if none is missing.
PaginasUnicas ==
  \A f, g \in Frames : tabla[f] = tabla[g] /\ tabla[f].pid >= 0 => f = g

\* Once NUEVO_PROCESO is over, the pages of code hold the script.
ScriptIntegro ==
  \A f \in Frames :
    LET pid == tabla[f].pid
        pag == tabla[f].pagina
    IN  pid \in Creados /\ (\A t \in Hilos : pc[t] \notin {"ubicar", "cargar"}) =>
          \A w \in 0 .. Tam - 1 :
            pag * Tam + w < carga[pid].largo =>
              memoria[f][w] = PalabraDeScript(pid, pag * Tam + w + 1)

EnSeccion == {t \in Hilos : pc[t] \notin {"recv", "cerrado"}}

\* One thread at a time serves a request, and the mutex is locked while it does.
Exclusion ==
  /\ \A t, u \in EnSeccion : t = u
  /\ mutex = (EnSeccion # {})

\* What the store rests on while its clients are well behaved: one request at a time,
\* a frame for each page, the whole script in its pages, nothing cached of the dead.
AlmacenIntegro == PaginasUnicas /\ ScriptIntegro /\ CacheSinFantasmas /\ Exclusion

\* A page of a live process is never moved to another frame, and the table of
\* frames of the administration is never given away.
MarcosEstables ==
  [][\A f \in Frames :
       tabla[f].pid # LIBRE => tabla'[f] \in {tabla[f], EntradaLibre}
                            /\ (f < MarcosAdmin => tabla'[f] = tabla[f])]_vars

\* A request that has been taken is answered.
PedidoTermina == \A t \in Hilos : pc[t] \notin {"recv", "cerrado"} ~> pc[t] = "recv"
=============================================================================
