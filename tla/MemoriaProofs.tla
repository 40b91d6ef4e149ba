--------------------------- MODULE MemoriaProofs ---------------------------
(***************************************************************************)
(* Theorems about the memory process, for every number of frames, of cache *)
(* entries, of processes and of threads.                                   *)
(***************************************************************************)
EXTENDS Memoria, TLAPS, FiniteSetTheorems, SequenceTheorems, WellFoundedInduction

-----------------------------------------------------------------------------
(* The operators of the module *)

\* A set of naturals that is not empty has a minimum.
LEMMA MinimoEsta ==
  ASSUME NEW S \in SUBSET Nat, S # {}
  PROVE  Minimo(S) \in S /\ \A y \in S : Minimo(S) <= y
<1> DEFINE R == {ss \in Nat \X Nat : ss[1] < ss[2]}
<1>1. R = OpToRel(<, Nat)
  BY DEF OpToRel
<1>2. \A x, y \in Nat : <<y, x>> \notin R => x <= y
  OBVIOUS
<1> HIDE DEF R
<1>3. IsWellFoundedOn(R, Nat)
  BY <1>1, NatLessThanWellFounded
<1>4. PICK x \in S : \A y \in S : <<y, x>> \notin R
  BY <1>3, WFMin
<1>5. \A y \in S : x <= y
  BY <1>2, <1>4
<1> QED
  BY <1>5 DEF Minimo

\* The hash of a page is a position of the index.
LEMMA PosicionEsFrame ==
  ASSUME NEW pid \in Int, NEW pagina \in Int
  PROVE  calcular_posicion(pid, pagina) \in Frames
<1> DEFINE n == pid * (IF pagina < 10 THEN 10 ELSE IF pagina < 100 THEN 100 ELSE 1000) + pagina
<1>1. n \in Int
  OBVIOUS
<1>2. Marcos \in Nat \ {0}
  BY MemoriaAssumption
<1> HIDE DEF n
<1>3. n % Marcos \in 0 .. Marcos - 1
  BY <1>1, <1>2
<1> QED
  BY <1>3 DEF calcular_posicion, Frames, n

\* The pages of a process are counted by a natural number.
LEMMA CuentaEsNat ==
  ASSUME NEW S \in SUBSET Frames
  PROVE  Cardinality(S) \in Nat
<1>1. IsFiniteSet(Frames)
  BY FS_Interval, MemoriaAssumption DEF Frames
<1> QED
  BY <1>1, FS_Subset, FS_CardinalityType

\* Linear probing ends in a free frame when there is one.
LEMMA PrimerLibreEsLibre ==
  ASSUME Libres # {}, NEW pos \in Frames
  PROVE  PrimerLibre(pos) \in Libres
<1> DEFINE adelante == {f \in Libres : f >= pos}
<1>1. Libres \subseteq Nat /\ adelante \subseteq Nat
  BY DEF Libres, Frames
<1>2. CASE adelante = {}
  BY <1>1, <1>2, MinimoEsta DEF PrimerLibre
<1>3. CASE adelante # {}
  BY <1>1, <1>3, MinimoEsta DEF PrimerLibre
<1> QED
  BY <1>2, <1>3

\* What buscar_en_indice returns is -1 or a frame that holds the page.
LEMMA BuscarDevuelveLaPagina ==
  ASSUME TipoTabla, NEW pid \in Int, NEW pagina \in Int
  PROVE  \/ buscar_en_indice(pid, pagina) = -1
         \/ /\ buscar_en_indice(pid, pagina) \in Frames
            /\ tabla[buscar_en_indice(pid, pagina)] = [pid |-> pid, pagina |-> pagina]
<1> DEFINE lista == indice[calcular_posicion(pid, pagina)]
           hits  == {i \in 1 .. Len(lista) : tabla[lista[i]] = [pid |-> pid, pagina |-> pagina]}
<1>1. lista \in Seq(Frames)
  BY PosicionEsFrame DEF TipoTabla
<1>2. hits \subseteq Nat
  BY <1>1, LenProperties
<1>3. CASE hits = {}
  BY <1>3 DEF buscar_en_indice
<1>4. CASE hits # {}
  <2>1. Minimo(hits) \in hits
    BY <1>2, <1>4, MinimoEsta
  <2>2. lista[Minimo(hits)] \in Frames
    BY <2>1, <1>1, ElementOfSeq
  <2> QED
    BY <2>1, <2>2, <1>4 DEF buscar_en_indice
<1> QED
  BY <1>3, <1>4

\* Deleting an element leaves a list of frames, whether it is there or not.
LEMMA BorrarDaLista ==
  ASSUME NEW lista \in Seq(Frames), NEW frame
  PROVE  borrar_de_indice(lista, frame) \in Seq(Frames)
<1> DEFINE n == IF Len(lista) = 0 THEN 0 ELSE Len(lista) - 1
<1>1. Len(lista) \in Nat /\ \A i \in 1 .. Len(lista) : lista[i] \in Frames
  BY LenProperties, ElementOfSeq
<1>2. n \in Nat /\ 1 .. Len(lista) - 1 = 1 .. n
  BY <1>1
<1>3. \A i \in 1 .. n : i \in 1 .. Len(lista) /\ i + 1 \in 1 .. Len(lista)
  BY <1>1
<1>4. borrar_de_indice(lista, frame) \in [1 .. n -> Frames]
  <2> DEFINE k == Minimo({i \in 1 .. Len(lista) : lista[i] = frame})
  <2>1. borrar_de_indice(lista, frame)
          = [i \in 1 .. n |-> IF i < k THEN lista[i] ELSE lista[i + 1]]
    BY <1>2 DEF borrar_de_indice
  <2> HIDE DEF k, n
  <2> QED
    BY <2>1, <1>1, <1>3
<1> HIDE DEF n
<1> QED
  BY <1>2, <1>4, SeqDef

-----------------------------------------------------------------------------
(* The state keeps its types *)

\* The pages that are read and written are pages.
LEMMA PalabrasDePagina ==
  ASSUME NEW pagina \in Pagina, NEW offset \in Int, NEW v \in Seq(Int)
  PROVE  ConPalabras(pagina, offset, v) \in Pagina
<1>1. Len(v) \in Nat /\ \A i \in 1 .. Len(v) : v[i] \in Int
  BY LenProperties, ElementOfSeq
<1>2. \A w \in offset .. offset + Len(v) - 1 : w - offset + 1 \in 1 .. Len(v)
  BY <1>1
<1>3. \A w \in 0 .. Tam - 1 : pagina[w] \in Int
  BY DEF Pagina
<1> QED
  BY <1>1, <1>2, <1>3 DEF ConPalabras, Pagina

\* A page takes a free frame and is listed at its position.
LEMMA TipoUbicar ==
  ASSUME TipoTabla, NEW pid \in Int, NEW pagina \in Int, UbicarPagina(pid, pagina)
  PROVE  TipoTabla'
<1> DEFINE pos == calcular_posicion(pid, pagina)
           frame == PrimerLibre(pos)
<1>1. pos \in Frames
  BY PosicionEsFrame
<1>2. frame \in Frames
  BY <1>1, PrimerLibreEsLibre DEF UbicarPagina, Libres
<1>3. Append(indice[pos], frame) \in Seq(Frames)
  BY <1>1, <1>2, AppendProperties DEF TipoTabla
<1>4. /\ tabla' = [tabla EXCEPT ![frame] = [pid |-> pid, pagina |-> pagina]]
      /\ indice' = [indice EXCEPT ![pos] = Append(indice[pos], frame)]
  BY DEF UbicarPagina
<1> HIDE DEF pos, frame
<1> QED
  BY <1>1, <1>2, <1>3, <1>4 DEF TipoTabla

\* So does giving a frame back (liberar_pagina, finalizar_proceso).
LEMMA TipoLiberar ==
  ASSUME TipoTabla, NEW frame \in Frames, LiberarMarco(frame)
  PROVE  TipoTabla'
<1> DEFINE pos == calcular_posicion(tabla[frame].pid, tabla[frame].pagina)
<1>1. pos \in Frames
  BY PosicionEsFrame DEF TipoTabla
<1>2. borrar_de_indice(indice[pos], frame) \in Seq(Frames)
  BY <1>1, BorrarDaLista DEF TipoTabla
<1>3. /\ tabla' = [tabla EXCEPT ![frame] = EntradaLibre]
      /\ indice' = [indice EXCEPT ![pos] = borrar_de_indice(indice[pos], frame)]
  BY DEF LiberarMarco
<1> HIDE DEF pos
<1> QED
  BY <1>1, <1>2, <1>3 DEF TipoTabla, EntradaLibre, LIBRE

\* Ageing stops at the greatest value of t_last_ref.
LEMMA TipoEnvejecer ==
  ASSUME TipoPaginas
  PROVE  aumentar_referencias \in [Slots -> [pid : Int, ref : 0 .. RefMax]]
<1>1. SUFFICES ASSUME NEW i \in Slots
      PROVE  (IF admin[i].ref = RefMax THEN admin[i] ELSE [admin[i] EXCEPT !.ref = @ + 1])
                \in [pid : Int, ref : 0 .. RefMax]
  BY DEF aumentar_referencias
<1>2. admin[i] \in [pid : Int, ref : 0 .. RefMax]
  BY DEF TipoPaginas
<1>3. RefMax \in Nat
  BY MemoriaAssumption
<1>4. admin[i].ref # RefMax => admin[i].ref + 1 \in 0 .. RefMax
  BY <1>2, <1>3
<1> QED
  BY <1>2, <1>4

TipoCache == /\ cache \in [Slots -> [pid : Int, pagina : Int, contenido : Pagina]]
             /\ admin \in [Slots -> [pid : Int, ref : 0 .. RefMax]]

\* insertar_entrada puts a page in a slot of the cache, whichever the search finds.
LEMMA TipoInsertar ==
  ASSUME TipoPaginas, NEW pid \in Int, NEW pagina \in Int, NEW contenido \in Pagina,
         insertar_entrada(pid, pagina, contenido)
  PROVE  TipoCache'
<1>0. 0 \in 0 .. RefMax
  BY MemoriaAssumption
<1>1. CASE Entradas > 0 /\ CacheXProc > 0
  <2>1. PICK aux : /\ cache' = [cache EXCEPT ![aux] =
                        [pid |-> pid, pagina |-> pagina, contenido |-> contenido]]
                   /\ admin' = [aumentar_referencias EXCEPT ![aux] = [pid |-> pid, ref |-> 0]]
    BY <1>1 DEF insertar_entrada
  <2> QED
    BY <2>1, <1>0, TipoEnvejecer DEF TipoPaginas, TipoCache
<1>2. CASE ~(Entradas > 0 /\ CacheXProc > 0)
  BY <1>2, TipoEnvejecer DEF insertar_entrada, TipoPaginas, TipoCache
<1> QED
  BY <1>1, <1>2

\* Ageing and then resetting an entry (set_zero_ref) keeps the type of admin_cache.
LEMMA TipoTocar ==
  ASSUME TipoPaginas, NEW pid, NEW pagina, TocarEntrada(pid, pagina)
  PROVE  admin' \in [Slots -> [pid : Int, ref : 0 .. RefMax]]
<1> DEFINE i == buscar_entrada(pid, pagina)
<1>1. admin' = [aumentar_referencias EXCEPT ![i].ref = 0]
  BY DEF TocarEntrada
<1>2. 0 \in 0 .. RefMax
  BY MemoriaAssumption
<1> HIDE DEF i
<1> QED
  BY <1>1, <1>2, TipoEnvejecer

\* A write changes a frame, or the word before the frames, and the cache.
LEMMA TipoEscritura ==
  ASSUME TipoTabla, TipoPaginas, NEW pid \in Int, NEW pagina \in Int,
         NEW offset \in Int, NEW v \in Seq(Int), escritura(pid, pagina, offset, v)
  PROVE  TipoPaginas'
<1> DEFINE frame == buscar_en_indice(pid, pagina)
           nueva == ConPalabras(memoria[frame], offset, v)
           i     == buscar_entrada(pid, pagina)
<1>1. frame \in Posiciones
  <2>1. Marcos \in Nat
    BY MemoriaAssumption
  <2>2. frame = -1 \/ frame \in Frames
    BY BuscarDevuelveLaPagina
  <2> HIDE DEF frame
  <2> QED
    BY <2>1, <2>2 DEF Frames, Posiciones
<1>2. nueva \in Pagina
  BY <1>1, PalabrasDePagina DEF TipoPaginas
<1>3. memoria' = [memoria EXCEPT ![frame] = nueva]
  BY DEF escritura
<1>4. CASE esta_en_cache(pid, pagina)
  <2>1. cache' = [cache EXCEPT ![i].contenido = ConPalabras(cache[i].contenido, offset, v)]
    BY <1>4 DEF escritura
  <2>2. i \in Slots => ConPalabras(cache[i].contenido, offset, v) \in Pagina
    BY PalabrasDePagina DEF TipoPaginas
  <2>3. admin' \in [Slots -> [pid : Int, ref : 0 .. RefMax]]
    BY <1>4, TipoTocar DEF escritura
  <2> HIDE DEF i
  <2>4. cache' \in [Slots -> [pid : Int, pagina : Int, contenido : Pagina]]
    BY <2>1, <2>2 DEF TipoPaginas
  <2> HIDE DEF frame, nueva
  <2> QED
    BY <1>1, <1>2, <1>3, <2>3, <2>4 DEF TipoPaginas
<1>5. CASE ~esta_en_cache(pid, pagina)
  <2>1. TipoCache'
    BY <1>2, <1>5, TipoInsertar DEF escritura
  <2> HIDE DEF frame, nueva
  <2> QED
    BY <2>1, <1>1, <1>2, <1>3 DEF TipoPaginas, TipoCache
<1> QED
  BY <1>4, <1>5

\* Taking a request keeps the types of the threads ...
LEMMA TipoAtender ==
  ASSUME TipoHilos, NEW t \in Hilos, NEW p \in Pedido, NEW donde \in Lugares,
         Atender(t, p, donde)
  PROVE  TipoHilos'
<1>1. SinPedido \in Pedido
  BY DEF SinPedido, Pedido, Codigos
<1> QED
  BY <1>1 DEF TipoHilos, Atender, Ir, Lugares

\* ... and so does answering it.
LEMMA TipoTerminar ==
  ASSUME TipoHilos, NEW t \in Hilos, Terminar(t)
  PROVE  TipoHilos'
<1>1. SinPedido \in Pedido
  BY DEF SinPedido, Pedido, Codigos
<1> QED
  BY <1>1 DEF TipoHilos, Terminar, Ir, Lugares

\* Every request the clients send is one.
LEMMA TipoPedidos ==
  /\ Lecturas \subseteq Pedido /\ Escrituras \subseteq Pedido
  /\ Cargas \subseteq Pedido /\ Bajas \subseteq Pedido
  /\ Heaps \subseteq Pedido /\ Liberaciones \subseteq Pedido
<1>0. {0} \subseteq Int /\ {1} \subseteq Int /\ 0 .. Tam - 1 \subseteq Int
  OBVIOUS
<1>1. /\ Creados \subseteq Nat /\ Disponibles \subseteq Nat /\ Pids \ Creados \subseteq Nat
      /\ Paginas \subseteq Int /\ Largos \subseteq Int /\ Valores \subseteq Int
      /\ Stacks \subseteq Int /\ Scripts \subseteq Int
  <2>1. Pids \subseteq Nat
    BY MemoriaAssumption
  <2>2. Creados \subseteq Nat /\ Disponibles \subseteq Nat /\ Pids \ Creados \subseteq Nat
    BY <2>1 DEF Creados, Disponibles
  <2>3. Paginas \subseteq Int /\ Largos \subseteq Int
    BY MemoriaAssumption
  <2>4. Valores \subseteq Int /\ Stacks \subseteq Int /\ Scripts \subseteq Int
    BY MemoriaAssumption
  <2> QED
    BY <2>2, <2>3, <2>4
<1>2. Lecturas \subseteq Pedido
  <2>1. {"leer", "obtener"} \subseteq Codigos
    BY DEF Codigos
  <2>2. [op : {"leer", "obtener"}, pid : Disponibles, pag : Paginas, ini : 0 .. Tam - 1,
            largo : Largos, val : {0}]
          \subseteq Pedido
    BY <1>0, <1>1, <2>1 DEF Pedido
  <2> QED
    BY <2>2 DEF Lecturas
<1>3. Escrituras \subseteq Pedido
  <2>1. {"guardar"} \subseteq Codigos
    BY DEF Codigos
  <2>2. [op : {"guardar"}, pid : Disponibles, pag : Paginas, ini : 0 .. Tam - 1,
            largo : {1}, val : Valores]
          \subseteq Pedido
    BY <1>0, <1>1, <2>1 DEF Pedido
  <2> QED
    BY <2>2 DEF Escrituras
<1>4. Cargas \subseteq Pedido
  <2>1. {"nuevo"} \subseteq Codigos
    BY DEF Codigos
  <2>2. [op : {"nuevo"}, pid : Pids \ Creados, pag : Stacks, ini : {0},
            largo : Scripts, val : {0}]
          \subseteq Pedido
    BY <1>0, <1>1, <2>1 DEF Pedido
  <2> QED
    BY <2>2 DEF Cargas
<1>5. Bajas \subseteq Pedido
  <2>1. {"eliminar"} \subseteq Codigos
    BY DEF Codigos
  <2>2. [op : {"eliminar"}, pid : Creados, pag : {0}, ini : {0}, largo : {0}, val : {0}]
          \subseteq Pedido
    BY <1>0, <1>1, <2>1 DEF Pedido
  <2> QED
    BY <2>2 DEF Bajas
<1>6. Heaps \subseteq Pedido
  <2>1. {"heap"} \subseteq Codigos
    BY DEF Codigos
  <2>2. [op : {"heap"}, pid : Disponibles, pag : {0}, ini : {0}, largo : {0}, val : {0}]
          \subseteq Pedido
    BY <1>0, <1>1, <2>1 DEF Pedido
  <2> QED
    BY <2>2 DEF Heaps
<1>7. Liberaciones \subseteq Pedido
  <2>1. {"liberar"} \subseteq Codigos
    BY DEF Codigos
  <2>2. [op : {"liberar"}, pid : Disponibles, pag : Paginas, ini : {0}, largo : {0}, val : {0}]
          \subseteq Pedido
    BY <1>0, <1>1, <2>1 DEF Pedido
  <2> QED
    BY <2>2 DEF Liberaciones
<1> QED
  BY <1>2, <1>3, <1>4, <1>5, <1>6, <1>7

\* What NUEVO_PROCESO writes is a sequence of words.
LEMMA TrozoEsSecuencia ==
  ASSUME NEW p \in Pedido, NEW i \in Nat
  PROVE  Trozo(p, i) \in Seq(Int)
<1> DEFINE largo == IF i < paginas_usadas(p) - 1 THEN Tam ELSE p.largo % Tam
           desde == IF i < paginas_usadas(p) - 1 THEN i * Tam ELSE (p.largo \div Tam) * Tam
<1>1. /\ Tam \in Nat \ {0} /\ p.largo \in Int /\ p.pid \in Int
  BY MemoriaAssumption DEF Pedido
<1>2. /\ p.largo % Tam \in Nat /\ p.largo \div Tam \in Int
  BY <1>1
<1>3. largo \in Nat
  BY <1>1, <1>2
<1>4. desde \in Int
  BY <1>1, <1>2
<1>5. Trozo(p, i) = [w \in 1 .. largo |-> PalabraDeScript(p.pid, desde + w)]
  BY DEF Trozo
<1> HIDE DEF largo, desde
<1>6. \A w \in 1 .. largo : PalabraDeScript(p.pid, desde + w) \in Int
  BY <1>1, <1>4 DEF PalabraDeScript
<1>7. Trozo(p, i) \in [1 .. largo -> Int]
  BY <1>5, <1>6
<1> QED
  BY <1>3, <1>7, SeqDef

\* The types are kept by a read served from the cache,
LEMMA TipoLeerEnCache ==
  ASSUME TypeOK, NEW t \in Hilos, NEW p \in Pedido, LeerEnCache(t, p)
  PROVE  TypeOK'
<1>1. TipoHilos'
  BY TipoAtender DEF TypeOK, LeerEnCache, Lugares
<1>2. TipoPaginas'
  BY TipoTocar DEF TypeOK, LeerEnCache, TipoPaginas
<1> QED
  BY <1>1, <1>2 DEF TypeOK, LeerEnCache, TipoTabla

\* A request that only takes the mutex.
LEMMA TipoSoloAtender ==
  ASSUME TypeOK, NEW t \in Hilos, NEW p \in Pedido, NEW donde \in Lugares,
         Atender(t, p, donde), UNCHANGED <<tabla, indice, memoria, cache, admin>>,
         carga' \in [Pids -> Pedido]
  PROVE  TypeOK'
BY TipoAtender DEF TypeOK, TipoTabla, TipoPaginas

\* by one that has slept and goes to the frames,
LEMMA TipoLeerTrasRetardo ==
  ASSUME TypeOK, NEW t \in Hilos, LeerTrasRetardo(t)
  PROVE  TypeOK'
<1> DEFINE p == pedido[t]
           frame == buscar_en_indice(p.pid, p.pag)
<1>1. TipoHilos'
  BY TipoTerminar DEF TypeOK, LeerTrasRetardo
<1>2. p \in Pedido /\ p.pid \in Int /\ p.pag \in Int
  BY DEF TypeOK, TipoHilos, Pedido
<1>3. memoria' = memoria
  BY DEF LeerTrasRetardo
<1>4. TipoCache'
  <2>1. CASE frame < 0
    BY <2>1 DEF LeerTrasRetardo, TypeOK, TipoPaginas, TipoCache
  <2>2. CASE ~(frame < 0)
    <3>0. frame = -1 \/ frame \in Frames
      BY <1>2, BuscarDevuelveLaPagina DEF TypeOK
    <3>1. frame \in Frames
      BY <2>2, <3>0
    <3>2. memoria[frame] \in Pagina
      BY <3>1, MemoriaAssumption DEF TypeOK, TipoPaginas, Frames, Posiciones
    <3>3. insertar_entrada(p.pid, p.pag, memoria[frame])
      BY <2>2 DEF LeerTrasRetardo
    <3> HIDE DEF p, frame
    <3> QED
      BY <1>2, <3>2, <3>3, TipoInsertar DEF TypeOK
  <2> QED
    BY <2>1, <2>2
<1>5. TipoPaginas'
  BY <1>3, <1>4 DEF TypeOK, TipoPaginas, TipoCache
<1> QED
  BY <1>1, <1>5 DEF TypeOK, LeerTrasRetardo, TipoTabla

\* by GUARDAR_VALOR once it has slept,
LEMMA TipoGuardarTrasRetardo ==
  ASSUME TypeOK, NEW t \in Hilos, GuardarTrasRetardo(t)
  PROVE  TypeOK'
<1> DEFINE p == pedido[t]
<1>1. p.pid \in Int /\ p.pag \in Int /\ p.ini \in Int /\ p.val \in Int
  BY DEF TypeOK, TipoHilos, Pedido
<1>2. <<p.val>> \in Seq(Int)
  BY <1>1
<1>3. escritura(p.pid, p.pag, p.ini, <<p.val>>)
  BY DEF GuardarTrasRetardo
<1>4. TipoPaginas'
  <2> HIDE DEF p
  <2> QED
    BY <1>1, <1>2, <1>3, TipoEscritura DEF TypeOK
<1>5. TipoHilos'
  BY TipoTerminar DEF TypeOK, GuardarTrasRetardo
<1> QED
  BY <1>4, <1>5 DEF TypeOK, GuardarTrasRetardo, TipoTabla

\* by a turn of buscar_espacioV2,
LEMMA TipoUbicarTrasPedido ==
  ASSUME TypeOK, NEW t \in Hilos, UbicarTrasPedido(t)
  PROVE  TypeOK'
<1>1. pedido[t].pid \in Int /\ vuelta[t] \in Nat
  BY DEF TypeOK, TipoHilos, Pedido
<1>2. TipoTabla'
  BY <1>1, TipoUbicar DEF TypeOK, UbicarTrasPedido
<1>3. TipoHilos'
  BY <1>1 DEF TypeOK, TipoHilos, UbicarTrasPedido, Ir, Lugares
<1> QED
  BY <1>2, <1>3 DEF TypeOK, UbicarTrasPedido, TipoPaginas

\* by a turn of the loop that copies the script,
LEMMA TipoCargarScript ==
  ASSUME TypeOK, NEW t \in Hilos, CargarScript(t)
  PROVE  TypeOK'
<1> DEFINE p == pedido[t]
<1>1. p \in Pedido /\ p.pid \in Int /\ vuelta[t] \in Nat /\ vuelta[t] \in Int
  BY DEF TypeOK, TipoHilos, Pedido
<1>2. Trozo(p, vuelta[t]) \in Seq(Int)
  BY <1>1, TrozoEsSecuencia
<1>3. escritura(p.pid, vuelta[t], 0, Trozo(p, vuelta[t]))
  BY DEF CargarScript
<1>4. TipoPaginas'
  <2> HIDE DEF p
  <2> QED
    BY <1>1, <1>2, <1>3, TipoEscritura DEF TypeOK
<1>5. TipoHilos'
  <2>1. CASE Terminar(t)
    BY <2>1, TipoTerminar DEF TypeOK
  <2>2. CASE vuelta' = [vuelta EXCEPT ![t] = @ + 1] /\ UNCHANGED <<mutex, pc, pedido>>
    BY <1>1, <2>2 DEF TypeOK, TipoHilos
  <2> QED
    BY <2>1, <2>2 DEF CargarScript
<1> QED
  BY <1>4, <1>5 DEF TypeOK, CargarScript, TipoTabla

\* by a turn of finalizar_proceso,
LEMMA TipoFinalizarMarco ==
  ASSUME TypeOK, NEW t \in Hilos, FinalizarMarco(t)
  PROVE  TypeOK'
<1> DEFINE S == MarcosDe(pedido[t].pid)
<1>1. S \subseteq Frames /\ S \in SUBSET Nat /\ S # {}
  BY DEF MarcosDe, Frames, FinalizarMarco
<1>2. Minimo(S) \in Frames
  BY <1>1, MinimoEsta
<1>3. TipoTabla'
  BY <1>2, TipoLiberar DEF TypeOK, FinalizarMarco
<1> QED
  BY <1>3 DEF TypeOK, FinalizarMarco, TipoPaginas, TipoHilos

\* The entry that flush leaves behind
LEMMA TipoVacias ==
  /\ EntradaVacia \in [pid : Int, pagina : Int, contenido : Pagina]
  /\ AdminVacio \in [pid : Int, ref : 0 .. RefMax]
<1>1. RefMax \in 0 .. RefMax
  BY MemoriaAssumption
<1>2. [w \in 0 .. Tam - 1 |-> 0] \in Pagina
  BY DEF Pagina
<1> QED
  BY <1>1, <1>2 DEF EntradaVacia, AdminVacio, NADIE

\* by flush_process, which ends it,
LEMMA TipoFinalizarFin ==
  ASSUME TypeOK, NEW t \in Hilos, FinalizarFin(t)
  PROVE  TypeOK'
<1>1. TipoHilos'
  BY TipoTerminar DEF TypeOK, FinalizarFin
<1>2. TipoPaginas'
  BY TipoVacias DEF TypeOK, TipoPaginas, FinalizarFin
<1> QED
  BY <1>1, <1>2 DEF TypeOK, FinalizarFin, TipoTabla

\* by asignar_nueva_pagina, which also writes the header of the page,
LEMMA TipoSolicitarHeap ==
  ASSUME TypeOK, NEW t \in Hilos, NEW p \in Pedido, SolicitarHeap(t, p)
  PROVE  TypeOK'
<1> DEFINE numero == paginas_de_proceso(p.pid)
           frame == PrimerLibre(calcular_posicion(p.pid, numero))
<1>1. TipoHilos'
  BY TipoAtender DEF TypeOK, SolicitarHeap, Lugares
<1>2. numero \in Int /\ p.pid \in Int
  BY CuentaEsNat DEF paginas_de_proceso, MarcosDe, Pedido
<1>3. CASE marcos_libres >= 1
  <2>1. UbicarPagina(p.pid, numero)
    BY <1>3 DEF SolicitarHeap
  <2>2. TipoTabla'
    BY <1>2, <2>1, TipoUbicar DEF TypeOK
  <2>3. memoria' = [memoria EXCEPT ![frame][0] = Cabecera]
    BY <1>3 DEF SolicitarHeap
  <2>4. memoria' \in [Posiciones -> Pagina]
    <3>0. Cabecera \in Int
      BY DEF Cabecera
    <3>1. ASSUME NEW q \in Pagina PROVE [q EXCEPT ![0] = Cabecera] \in Pagina
      BY <3>0 DEF Pagina
    <3>2. memoria' = [memoria EXCEPT ![frame] = [memoria[frame] EXCEPT ![0] = Cabecera]]
      BY <2>3
    <3> HIDE DEF frame
    <3> QED
      BY <3>1, <3>2 DEF TypeOK, TipoPaginas
  <2> QED
    BY <1>1, <2>2, <2>4 DEF TypeOK, SolicitarHeap, TipoPaginas
<1>4. CASE ~(marcos_libres >= 1)
  BY <1>1, <1>4 DEF TypeOK, SolicitarHeap, TipoTabla, TipoPaginas
<1> QED
  BY <1>3, <1>4

\* by liberar_pagina,
LEMMA TipoLiberarPagina ==
  ASSUME TypeOK, NEW t \in Hilos, NEW p \in Pedido, LiberarPagina(t, p)
  PROVE  TypeOK'
<1> DEFINE frame == buscar_en_indice(p.pid, p.pag)
<1>1. TipoHilos'
  BY TipoAtender DEF TypeOK, LiberarPagina, Lugares
<1>0. p.pid \in Int /\ p.pag \in Int
  BY DEF Pedido
<1>2. frame = -1 \/ frame \in Frames
  BY <1>0, BuscarDevuelveLaPagina DEF TypeOK
<1>3. frame >= 0 /\ LiberarMarco(frame)
  BY DEF LiberarPagina
<1>4. TipoTabla'
  <2> HIDE DEF frame
  <2> QED
    BY <1>2, <1>3, TipoLiberar DEF TypeOK
<1>5. TipoPaginas'
  <2>0. NADIE \in Int
    BY DEF NADIE
  <2>1. ASSUME NEW c \in [pid : Int, pagina : Int, contenido : Pagina]
        PROVE  [c EXCEPT !.pid = NADIE, !.pagina = NADIE]
                 \in [pid : Int, pagina : Int, contenido : Pagina]
    BY <2>0
  <2> QED
    BY <2>1 DEF TypeOK, TipoPaginas, LiberarPagina
<1> QED
  BY <1>1, <1>4, <1>5 DEF TypeOK, LiberarPagina

\* by connections that close and open,
LEMMA TipoConexiones ==
  ASSUME TypeOK, NEW t \in Hilos, Desconectar(t) \/ Conectar(t)
  PROVE  TypeOK'
BY DEF TypeOK, TipoTabla, TipoPaginas, TipoHilos, Desconectar, Conectar, Ir, Lugares

\* by the flush of the console,
LEMMA TipoFlush ==
  ASSUME TypeOK, flush
  PROVE  TypeOK'
BY TipoVacias DEF TypeOK, TipoTabla, TipoPaginas, TipoHilos, flush

\* and main starts with them.
LEMMA TipoInit == Init => TypeOK
<1> SUFFICES ASSUME Init PROVE TypeOK
  OBVIOUS
<1>1. SinPedido \in Pedido
  BY DEF SinPedido, Pedido, Codigos
<1>2. << >> \in Seq(Frames)
  OBVIOUS
<1>3. TipoTabla
  BY <1>2 DEF Init, TipoTabla, Frames, EntradaLibre, LIBRE, ADMIN
<1>4. TipoPaginas
  BY TipoVacias DEF Init, TipoPaginas, Pagina
<1>5. TipoHilos
  BY <1>1 DEF Init, TipoHilos, Lugares
<1> QED
  BY <1>1, <1>3, <1>4, <1>5 DEF Init, TypeOK

\* The types are preserved by every step.
LEMMA TipoNext == TypeOK /\ [Next]_vars => TypeOK'
<1> SUFFICES ASSUME TypeOK, [Next]_vars PROVE TypeOK'
  OBVIOUS
<1>0. /\ "recv" \in Lugares /\ "lectura" \in Lugares /\ "escritura" \in Lugares
      /\ "ubicar" \in Lugares /\ "finalizar" \in Lugares /\ Kernel \in Hilos
  BY MemoriaAssumption DEF Lugares
<1>1. ASSUME NEW t \in Hilos, PedidoDeCpu(t) PROVE TypeOK'
  <2>1. ASSUME NEW p \in Lecturas, LeerEnCache(t, p) PROVE TypeOK'
    BY <2>1, TipoPedidos, TipoLeerEnCache
  <2>2. ASSUME NEW p \in Lecturas, LeerSinCache(t, p) PROVE TypeOK'
    BY <1>0, <2>2, TipoPedidos, TipoSoloAtender DEF LeerSinCache, TypeOK
  <2>3. ASSUME NEW p \in Escrituras, GuardarValor(t, p) PROVE TypeOK'
    BY <1>0, <2>3, TipoPedidos, TipoSoloAtender DEF GuardarValor, TypeOK
  <2> QED
    BY <1>1, <2>1, <2>2, <2>3 DEF PedidoDeCpu
<1>2. CASE PedidoDeKernel(Kernel)
  <2>1. ASSUME NEW p \in Cargas, NuevoProceso(Kernel, p) PROVE TypeOK'
    <3>1. p \in Pedido
      BY TipoPedidos
    <3>2. carga' \in [Pids -> Pedido]
      BY <2>1, <3>1 DEF TypeOK, NuevoProceso
    <3>3. \E donde \in Lugares : Atender(Kernel, p, donde)
      BY <1>0, <2>1 DEF NuevoProceso
    <3> QED
      BY <1>0, <2>1, <3>1, <3>2, <3>3, TipoSoloAtender DEF NuevoProceso
  <2>2. ASSUME NEW p \in Bajas, EliminarProceso(Kernel, p) PROVE TypeOK'
    BY <1>0, <2>2, TipoPedidos, TipoSoloAtender DEF EliminarProceso, TypeOK
  <2>3. ASSUME NEW p \in Heaps, SolicitarHeap(Kernel, p) PROVE TypeOK'
    BY <1>0, <2>3, TipoPedidos, TipoSolicitarHeap
  <2>4. ASSUME NEW p \in Liberaciones, LiberarPagina(Kernel, p) PROVE TypeOK'
    BY <1>0, <2>4, TipoPedidos, TipoLiberarPagina
  <2> QED
    BY <1>0, <1>1, <1>2, <2>1, <2>2, <2>3, <2>4 DEF PedidoDeKernel
<1>3. ASSUME NEW t \in Hilos, Paso(t) PROVE TypeOK'
  BY <1>3, TipoLeerTrasRetardo, TipoGuardarTrasRetardo, TipoUbicarTrasPedido,
     TipoCargarScript, TipoFinalizarMarco, TipoFinalizarFin DEF Paso
<1>4. CASE UNCHANGED vars
  BY <1>4 DEF vars, TypeOK, TipoTabla, TipoPaginas, TipoHilos
<1> QED
  BY <1>1, <1>2, <1>3, <1>4, TipoConexiones, TipoFlush DEF Next

\* The state keeps its types: the table, the index, the pages, the cache and the
\* threads' requests, and t_last_ref never leaves its width.
THEOREM TiposCorrectos == Spec => []TypeOK
BY TipoInit, TipoNext, PTL DEF Spec

-----------------------------------------------------------------------------
(* The index and the table agree *)

\* Deleting the only occurrence of an element shifts those behind it.
LEMMA BorrarCorre ==
  ASSUME NEW lista \in Seq(Frames), NEW k \in 1 .. Len(lista),
         \A i \in 1 .. Len(lista) : lista[i] = lista[k] => i = k
  PROVE  LET b == borrar_de_indice(lista, lista[k])
         IN  /\ Len(b) = Len(lista) - 1
             /\ \A i \in 1 .. Len(b) : b[i] = IF i < k THEN lista[i] ELSE lista[i + 1]
<1> DEFINE b == borrar_de_indice(lista, lista[k])
           hits == {i \in 1 .. Len(lista) : lista[i] = lista[k]}
           n == Len(lista) - 1
<1>1. Len(lista) \in Nat /\ n \in Nat
  BY LenProperties
<1>2. Minimo(hits) = k
  <2>1. hits = {k}
    OBVIOUS
  <2>2. hits \subseteq Nat
    BY <1>1
  <2> QED
    BY <2>1, <2>2, MinimoEsta
<1>3. b = [i \in 1 .. n |-> IF i < k THEN lista[i] ELSE lista[i + 1]]
  BY <1>2 DEF borrar_de_indice
<1> HIDE DEF n, hits
<1>4. DOMAIN b = 1 .. n
  BY <1>3
<1>5. b \in Seq(Frames)
  BY BorrarDaLista
<1>6. Len(b) = n
  BY <1>1, <1>4, <1>5, LenProperties
<1> QED
  BY <1>3, <1>6 DEF n

\* The frame given to a page was in no list, and is appended to its own:
\* the index still agrees with the table.
LEMMA IndiceUbicar ==
  ASSUME TipoTabla, IndiceCoherente, NEW pid \in Nat, NEW pagina \in Int,
         UbicarPagina(pid, pagina)
  PROVE  IndiceCoherente'
<1> DEFINE pos == calcular_posicion(pid, pagina)
           frame == PrimerLibre(pos)
           De2(f) == calcular_posicion(tabla'[f].pid, tabla'[f].pagina)
<1>1. pos \in Frames
  BY PosicionEsFrame
<1>2. frame \in Frames /\ tabla[frame].pid = -2
  BY <1>1, PrimerLibreEsLibre DEF UbicarPagina, Libres, LIBRE
<1>3. /\ tabla' = [tabla EXCEPT ![frame] = [pid |-> pid, pagina |-> pagina]]
      /\ indice' = [indice EXCEPT ![pos] = Append(indice[pos], frame)]
  BY DEF UbicarPagina
<1>4. \A q \in Frames : indice[q] \in Seq(Frames) /\ Len(indice[q]) \in Nat
  BY LenProperties DEF TipoTabla
<1>5. /\ Len(Append(indice[pos], frame)) = Len(indice[pos]) + 1
      /\ \A i \in 1 .. Len(indice[pos]) : Append(indice[pos], frame)[i] = indice[pos][i]
      /\ Append(indice[pos], frame)[Len(indice[pos]) + 1] = frame
  BY <1>1, <1>2, <1>4, AppendProperties
<1>6. tabla'[frame] = [pid |-> pid, pagina |-> pagina]
  BY <1>2, <1>3 DEF TipoTabla
<1>60. De2(frame) = pos
  BY <1>6
<1> HIDE DEF pos, frame
<1>7. \A f \in Frames : f # frame => tabla'[f] = tabla[f]
  BY <1>3 DEF TipoTabla
<1>70. \A f \in Frames : f # frame => De2(f) = De(f)
  BY <1>7 DEF De
<1> HIDE DEF De2
<1>8. \A q \in Frames : \A i \in 1 .. Len(indice[q]) :
        indice[q][i] \in Frames /\ indice[q][i] # frame
  BY <1>2, <1>4, ElementOfSeq DEF IndiceCoherente
<1>9. /\ \A q \in Frames : q # pos => indice'[q] = indice[q]
      /\ indice'[pos] = Append(indice[pos], frame)
  BY <1>1, <1>3 DEF TipoTabla
<1>10. ASSUME NEW q \in Frames, NEW i \in 1 .. Len(indice'[q])
       PROVE  /\ tabla'[indice'[q][i]].pid >= 0
              /\ De2(indice'[q][i]) = q
              /\ \A j \in 1 .. Len(indice'[q]) : indice'[q][i] = indice'[q][j] => i = j
  <2>1. CASE q # pos
    BY <2>1, <1>7, <1>70, <1>8, <1>9 DEF IndiceCoherente
  <2>2. CASE q = pos /\ i = Len(indice[pos]) + 1
    BY <2>2, <1>1, <1>4, <1>5, <1>6, <1>60, <1>8, <1>9
  <2>3. CASE q = pos /\ i # Len(indice[pos]) + 1
    <3>1. i \in 1 .. Len(indice[pos]) /\ indice'[q][i] = indice[pos][i]
      BY <2>3, <1>1, <1>4, <1>5, <1>9
    <3>2. tabla'[indice[pos][i]].pid >= 0 /\ De2(indice[pos][i]) = pos
      BY <3>1, <1>1, <1>7, <1>70, <1>8 DEF IndiceCoherente
    <3>3. \A j \in 1 .. Len(indice'[q]) : indice'[q][i] = indice'[q][j] => i = j
      BY <2>3, <3>1, <1>1, <1>4, <1>5, <1>8, <1>9 DEF IndiceCoherente
    <3> QED
      BY <2>3, <3>1, <3>2, <3>3
  <2> QED
    BY <2>1, <2>2, <2>3
<1>11. ASSUME NEW f \in Frames, tabla'[f].pid >= 0
       PROVE  \E i \in 1 .. Len(indice'[De2(f)]) : indice'[De2(f)][i] = f
  <2>1. CASE f = frame
    BY <2>1, <1>1, <1>4, <1>5, <1>60, <1>9
  <2>2. CASE f # frame
    <3>1. PICK i \in 1 .. Len(indice[De(f)]) : indice[De(f)][i] = f
      BY <2>2, <1>7, <1>11 DEF IndiceCoherente
    <3>2. De(f) \in Frames
      BY PosicionEsFrame DEF De, TipoTabla
    <3>3. CASE De(f) # pos
      BY <2>2, <3>1, <3>2, <3>3, <1>70, <1>9
    <3>4. CASE De(f) = pos
      BY <2>2, <3>1, <3>4, <1>1, <1>4, <1>5, <1>70, <1>9, SMTT(30)
    <3> QED
      BY <3>3, <3>4
  <2> QED
    BY <2>1, <2>2
<1> QED
  BY <1>10, <1>11 DEF IndiceCoherente, De, De2

\* The frame given back was once in the list of its page, and in no other: without
\* it the index agrees.
LEMMA IndiceLiberar ==
  ASSUME TipoTabla, IndiceCoherente, NEW frame \in Frames, tabla[frame].pid >= 0,
         LiberarMarco(frame)
  PROVE  IndiceCoherente'
<1> DEFINE pos == calcular_posicion(tabla[frame].pid, tabla[frame].pagina)
           lista == indice[pos]
           b == borrar_de_indice(lista, frame)
           De2(f) == calcular_posicion(tabla'[f].pid, tabla'[f].pagina)
<1>1. pos \in Frames /\ pos = De(frame)
  BY PosicionEsFrame DEF TipoTabla, De
<1>2. /\ tabla' = [tabla EXCEPT ![frame] = EntradaLibre]
      /\ indice' = [indice EXCEPT ![pos] = b]
  BY DEF LiberarMarco
<1> HIDE DEF pos, b
<1>3. \A q \in Frames : indice[q] \in Seq(Frames) /\ Len(indice[q]) \in Nat
  BY LenProperties DEF TipoTabla
<1>4. PICK k \in 1 .. Len(lista) : lista[k] = frame
  BY <1>1 DEF IndiceCoherente
<1>5. \A i \in 1 .. Len(lista) : lista[i] = frame => i = k
  BY <1>1, <1>4 DEF IndiceCoherente
<1>6. /\ Len(b) = Len(lista) - 1
      /\ \A i \in 1 .. Len(b) : b[i] = IF i < k THEN lista[i] ELSE lista[i + 1]
  <2>1. lista \in Seq(Frames)
    BY <1>1, <1>3
  <2>2. \A i \in 1 .. Len(lista) : lista[i] = lista[k] => i = k
    BY <1>4, <1>5
  <2>3. b = borrar_de_indice(lista, lista[k])
    BY <1>4 DEF b
  <2> HIDE DEF lista
  <2> QED
    BY <2>1, <2>2, <2>3, BorrarCorre
<1>7. /\ tabla'[frame].pid = -2
      /\ \A f \in Frames : f # frame => tabla'[f] = tabla[f]
  BY <1>2 DEF TipoTabla, EntradaLibre, LIBRE
<1>8. \A f \in Frames : f # frame => De2(f) = De(f)
  BY <1>7 DEF De
<1> HIDE DEF De2
<1>9. /\ \A q \in Frames : q # pos => indice'[q] = indice[q]
      /\ indice'[pos] = b
  BY <1>1, <1>2 DEF TipoTabla
<1>10. \A q \in Frames : \A i \in 1 .. Len(indice[q]) : indice[q][i] \in Frames
  BY <1>3, ElementOfSeq
<1>11. ASSUME NEW q \in Frames, NEW i \in 1 .. Len(indice'[q])
       PROVE  /\ tabla'[indice'[q][i]].pid >= 0
              /\ De2(indice'[q][i]) = q
              /\ \A j \in 1 .. Len(indice'[q]) : indice'[q][i] = indice'[q][j] => i = j
  <2>1. CASE q # pos
    <3>1. indice'[q][i] # frame
      BY <2>1, <1>1, <1>9 DEF IndiceCoherente
    <3> QED
      BY <2>1, <3>1, <1>7, <1>8, <1>9, <1>10 DEF IndiceCoherente
  <2>2. CASE q = pos
    <3> DEFINE Antes(j) == IF j < k THEN j ELSE j + 1
    <3>1. /\ i \in 1 .. Len(b)
          /\ \A j \in 1 .. Len(b) : Antes(j) \in 1 .. Len(lista) /\ Antes(j) # k
                                  /\ b[j] = lista[Antes(j)]
      BY <2>2, <1>1, <1>3, <1>4, <1>6, <1>9
    <3>2. \A j \in 1 .. Len(b) : Antes(i) = Antes(j) => i = j
      BY <3>1, <1>1, <1>3, <1>6
    <3> HIDE DEF Antes
    <3>3. b[i] \in Frames /\ b[i] # frame
      BY <3>1, <1>1, <1>5, <1>10
    <3>4. tabla[b[i]].pid >= 0 /\ De(b[i]) = pos
      BY <3>1, <1>1, SMTT(30) DEF IndiceCoherente
    <3>5. \A x, y \in 1 .. Len(lista) : lista[x] = lista[y] => x = y
      BY <1>1 DEF IndiceCoherente
    <3>6. \A j \in 1 .. Len(b) : b[i] = b[j] => i = j
      BY <3>1, <3>2, <3>5
    <3> QED
      BY <2>2, <3>3, <3>4, <3>6, <1>7, <1>8, <1>9
  <2> QED
    BY <2>1, <2>2
<1>12. ASSUME NEW f \in Frames, tabla'[f].pid >= 0
       PROVE  \E i \in 1 .. Len(indice'[De2(f)]) : indice'[De2(f)][i] = f
  <2>1. f # frame
    BY <1>7, <1>12
  <2>2. PICK i \in 1 .. Len(indice[De(f)]) : indice[De(f)][i] = f
    BY <2>1, <1>7, <1>12 DEF IndiceCoherente
  <2>3. De(f) \in Frames
    BY PosicionEsFrame DEF De, TipoTabla
  <2>4. CASE De(f) # pos
    BY <2>1, <2>2, <2>3, <2>4, <1>8, <1>9
  <2>5. CASE De(f) = pos
    <3>1. i \in 1 .. Len(lista) /\ lista[i] = f /\ i # k
      BY <2>1, <2>2, <2>5, <1>4
    <3>2. CASE i < k
      <4>1. i \in 1 .. Len(b) /\ b[i] = f
        BY <3>1, <3>2, <1>1, <1>3, <1>4, <1>6
      <4> QED
        BY <4>1, <2>1, <2>5, <1>8, <1>9
    <3>3. CASE ~(i < k)
      <4>1. i - 1 \in 1 .. Len(b) /\ b[i - 1] = f
        BY <3>1, <3>3, <1>1, <1>3, <1>4, <1>6
      <4> QED
        BY <4>1, <2>1, <2>5, <1>8, <1>9
    <3> QED
      BY <3>2, <3>3
  <2> QED
    BY <2>4, <2>5
<1> QED
  BY <1>11, <1>12 DEF IndiceCoherente, De, De2

\* The only steps that change the table give a page a frame or free a frame of a
\* process; they change the index with it.
LEMMA CambiosDeTabla ==
  ASSUME TypeOK, [Next]_vars
  PROVE  \/ UNCHANGED <<tabla, indice>>
         \/ \E pid \in Nat, pagina \in Int : UbicarPagina(pid, pagina)
         \/ \E frame \in Frames : tabla[frame].pid >= 0 /\ LiberarMarco(frame)
<1> DEFINE Cambio == \/ UNCHANGED <<tabla, indice>>
                     \/ \E pid \in Nat, pagina \in Int : UbicarPagina(pid, pagina)
                     \/ \E frame \in Frames : tabla[frame].pid >= 0 /\ LiberarMarco(frame)
<1>1. ASSUME NEW t \in Hilos, PedidoDeCpu(t) PROVE Cambio
  BY <1>1 DEF PedidoDeCpu, LeerEnCache, LeerSinCache, GuardarValor
<1>2. ASSUME NEW p \in Heaps, SolicitarHeap(Kernel, p) PROVE Cambio
  <2>1. p.pid \in Nat /\ paginas_de_proceso(p.pid) \in Int
    BY TipoPedidos, CuentaEsNat DEF Pedido, paginas_de_proceso, MarcosDe
  <2> QED
    BY <1>2, <2>1 DEF SolicitarHeap
<1>3. ASSUME NEW p \in Liberaciones, LiberarPagina(Kernel, p) PROVE Cambio
  <2> DEFINE frame == buscar_en_indice(p.pid, p.pag)
  <2>1. p.pid \in Nat /\ p.pag \in Int
    BY TipoPedidos DEF Pedido
  <2>2. frame >= 0 /\ LiberarMarco(frame)
    BY <1>3 DEF LiberarPagina
  <2>3. \/ frame = -1
        \/ frame \in Frames /\ tabla[frame] = [pid |-> p.pid, pagina |-> p.pag]
    BY <2>1, BuscarDevuelveLaPagina DEF TypeOK
  <2> HIDE DEF frame
  <2>4. frame \in Frames /\ tabla[frame].pid >= 0
    BY <2>1, <2>2, <2>3
  <2> QED
    BY <2>2, <2>4
<1>4. CASE PedidoDeKernel(Kernel)
  <2>1. Kernel \in Hilos
    BY MemoriaAssumption
  <2> QED
    BY <1>1, <1>2, <1>3, <1>4, <2>1 DEF PedidoDeKernel, NuevoProceso, EliminarProceso
<1>5. ASSUME NEW t \in Hilos, UbicarTrasPedido(t) PROVE Cambio
  BY <1>5 DEF UbicarTrasPedido, TypeOK, TipoHilos, Pedido
<1>6. ASSUME NEW t \in Hilos, FinalizarMarco(t) PROVE Cambio
  <2> DEFINE S == MarcosDe(pedido[t].pid)
  <2>1. pedido[t].pid \in Nat
    BY DEF TypeOK, TipoHilos, Pedido
  <2>2. S \in SUBSET Nat /\ S # {} /\ LiberarMarco(Minimo(S))
    BY <1>6 DEF FinalizarMarco, MarcosDe, Frames
  <2>3. Minimo(S) \in S
    BY <2>2, MinimoEsta
  <2> QED
    BY <2>1, <2>2, <2>3 DEF MarcosDe
<1>7. ASSUME NEW t \in Hilos, Paso(t) PROVE Cambio
  BY <1>5, <1>6, <1>7
  DEF Paso, LeerTrasRetardo, GuardarTrasRetardo, CargarScript, FinalizarFin
<1>8. CASE UNCHANGED vars
  BY <1>8 DEF vars
<1> QED
  BY <1>1, <1>4, <1>7, <1>8 DEF Next, Desconectar, Conectar, flush

\* The index lists exactly the frames of the processes, each at its position,
\* whatever the threads do: borrar_de_indice always finds what it has to remove.
THEOREM IndiceSiempreCoherente == Spec => []IndiceCoherente
<1>1. Init => IndiceCoherente
  BY DEF Init, IndiceCoherente, EntradaLibre, LIBRE, ADMIN
<1>2. TypeOK /\ IndiceCoherente /\ [Next]_vars => IndiceCoherente'
  <2> SUFFICES ASSUME TypeOK, IndiceCoherente, [Next]_vars PROVE IndiceCoherente'
    OBVIOUS
  <2>1. CASE UNCHANGED <<tabla, indice>>
    BY <2>1 DEF IndiceCoherente, De
  <2>2. ASSUME NEW pid \in Nat, NEW pagina \in Int, UbicarPagina(pid, pagina)
        PROVE  IndiceCoherente'
    BY <2>2, IndiceUbicar DEF TypeOK
  <2>3. ASSUME NEW frame \in Frames, tabla[frame].pid >= 0, LiberarMarco(frame)
        PROVE  IndiceCoherente'
    BY <2>3, IndiceLiberar DEF TypeOK
  <2> QED
    BY <2>1, <2>2, <2>3, CambiosDeTabla
<1> QED
  BY <1>1, <1>2, TiposCorrectos, PTL DEF Spec

-----------------------------------------------------------------------------
(* Frames do not move *)

\* The frames of the administration are marked so, which is why linear probing
\* never takes one of them.
AdminReservado == \A f \in Frames : f < MarcosAdmin => tabla[f].pid = ADMIN

\* What a step may do to the table
SinMudanzas ==
  \A f \in Frames :
    tabla[f].pid # LIBRE => tabla'[f] \in {tabla[f], EntradaLibre}
                         /\ (f < MarcosAdmin => tabla'[f] = tabla[f])

\* A page is placed in a frame that held none, so no page moves.
LEMMA UbicarNoMuda ==
  ASSUME TypeOK, AdminReservado, NEW pid \in Nat, NEW pagina \in Int,
         UbicarPagina(pid, pagina)
  PROVE  SinMudanzas
<1> DEFINE frame == PrimerLibre(calcular_posicion(pid, pagina))
<1>1. frame \in Libres
  BY PosicionEsFrame, PrimerLibreEsLibre DEF UbicarPagina
<1>2. tabla' = [tabla EXCEPT ![frame] = [pid |-> pid, pagina |-> pagina]]
  BY DEF UbicarPagina
<1> HIDE DEF frame
<1>3. \A f \in Frames : f # frame => tabla'[f] = tabla[f]
  BY <1>2 DEF TypeOK, TipoTabla
<1> QED
  BY <1>1, <1>3 DEF SinMudanzas, Libres

\* A frame that is given back was of a process: it is emptied, and no other changes.
LEMMA LiberarNoMuda ==
  ASSUME TypeOK, AdminReservado, NEW frame \in Frames, tabla[frame].pid >= 0,
         LiberarMarco(frame)
  PROVE  SinMudanzas
<1>1. tabla' = [tabla EXCEPT ![frame] = EntradaLibre]
  BY DEF LiberarMarco
<1>2. /\ tabla'[frame] = EntradaLibre
      /\ \A f \in Frames : f # frame => tabla'[f] = tabla[f]
  BY <1>1 DEF TypeOK, TipoTabla
<1>3. ~(frame < MarcosAdmin)
  BY DEF AdminReservado, ADMIN
<1> QED
  BY <1>2, <1>3 DEF SinMudanzas

\* No step of the memory process moves a page.
LEMMA NadieMuda == TypeOK /\ AdminReservado /\ [Next]_vars => SinMudanzas
<1> SUFFICES ASSUME TypeOK, AdminReservado, [Next]_vars PROVE SinMudanzas
  OBVIOUS
<1>1. CASE UNCHANGED <<tabla, indice>>
  BY <1>1 DEF SinMudanzas
<1> QED
  BY <1>1, UbicarNoMuda, LiberarNoMuda, CambiosDeTabla

\* A page of a live process never changes frame, and the frames of the page table
\* are never given to a process.
THEOREM PaginasNoSeMudan == Spec => MarcosEstables
<1>1. Init => AdminReservado
  BY DEF Init, AdminReservado
<1>2. TypeOK /\ AdminReservado /\ [Next]_vars => AdminReservado'
  BY NadieMuda DEF SinMudanzas, AdminReservado, ADMIN, LIBRE
<1>3. TypeOK /\ AdminReservado /\ [Next]_vars => [SinMudanzas]_vars
  BY NadieMuda
<1>4. Spec => [][SinMudanzas]_vars
  BY <1>1, <1>2, <1>3, TiposCorrectos, PTL DEF Spec
<1> QED
  BY <1>4 DEF MarcosEstables, SinMudanzas

-----------------------------------------------------------------------------
(* The cache and its administration agree *)

\* insertar_entrada records the same owner in cache and in admin_cache.
LEMMA InsertarAcorde ==
  ASSUME TypeOK, AdminAcorde, NEW pid, NEW pagina, NEW contenido,
         insertar_entrada(pid, pagina, contenido)
  PROVE  AdminAcorde'
<1>1. aumentar_referencias \in [Slots -> [pid : Int, ref : 0 .. RefMax]]
  BY TipoEnvejecer DEF TypeOK
<1>2. \A i \in Slots : aumentar_referencias[i].pid = admin[i].pid
  BY DEF TypeOK, TipoPaginas, aumentar_referencias
<1>3. CASE Entradas > 0 /\ CacheXProc > 0
  <2>1. PICK aux : /\ cache' = [cache EXCEPT ![aux] =
                        [pid |-> pid, pagina |-> pagina, contenido |-> contenido]]
                   /\ admin' = [aumentar_referencias EXCEPT ![aux] = [pid |-> pid, ref |-> 0]]
    BY <1>3 DEF insertar_entrada
  <2> QED
    BY <1>1, <1>2, <2>1 DEF TypeOK, TipoPaginas, AdminAcorde
<1>4. CASE ~(Entradas > 0 /\ CacheXProc > 0)
  BY <1>2, <1>4 DEF insertar_entrada, AdminAcorde
<1> QED
  BY <1>3, <1>4

\* Ageing and resetting t_last_ref does not change the owner.
LEMMA TocarAcorde ==
  ASSUME TypeOK, NEW pid, NEW pagina, TocarEntrada(pid, pagina)
  PROVE  \A i \in Slots : admin'[i].pid = admin[i].pid
<1> DEFINE k == buscar_entrada(pid, pagina)
<1>1. aumentar_referencias \in [Slots -> [pid : Int, ref : 0 .. RefMax]]
  BY TipoEnvejecer DEF TypeOK
<1>2. \A i \in Slots : aumentar_referencias[i].pid = admin[i].pid
  BY DEF TypeOK, TipoPaginas, aumentar_referencias
<1>3. admin' = [aumentar_referencias EXCEPT ![k].ref = 0]
  BY DEF TocarEntrada
<1> HIDE DEF k
<1> QED
  BY <1>1, <1>2, <1>3

\* A write changes the words of an entry or inserts one: owners still agree.
LEMMA EscribirAcorde ==
  ASSUME TypeOK, AdminAcorde, NEW pid, NEW pagina, NEW offset, NEW v,
         escritura(pid, pagina, offset, v)
  PROVE  AdminAcorde'
<1>1. CASE esta_en_cache(pid, pagina)
  <2> DEFINE k == buscar_entrada(pid, pagina)
             nuevo == ConPalabras(cache[k].contenido, offset, v)
  <2>1. cache' = [cache EXCEPT ![k].contenido = nuevo]
    BY <1>1 DEF escritura
  <2>2. \A i \in Slots : admin'[i].pid = admin[i].pid
    BY <1>1, TocarAcorde DEF escritura
  <2> HIDE DEF k, nuevo
  <2>3. \A i \in Slots : cache'[i].pid = cache[i].pid
    BY <2>1 DEF TypeOK, TipoPaginas
  <2> QED
    BY <2>2, <2>3 DEF AdminAcorde
<1>2. CASE ~esta_en_cache(pid, pagina)
  BY <1>2, InsertarAcorde DEF escritura
<1> QED
  BY <1>1, <1>2

\* liberar_pagina empties entries of cache and none of admin_cache: those left in use agree.
LEMMA LiberarPaginaAcorde ==
  ASSUME TypeOK, AdminAcorde, NEW t, NEW p, LiberarPagina(t, p)
  PROVE  AdminAcorde'
<1>1. ASSUME NEW i \in Slots PROVE cache'[i].pid \in {NADIE, cache[i].pid}
  BY DEF TypeOK, TipoPaginas, LiberarPagina
<1>2. admin' = admin
  BY DEF LiberarPagina
<1> QED
  BY <1>1, <1>2 DEF AdminAcorde

\* cache and admin_cache name the same owner for every entry in use, whatever is
\* inserted, replaced, freed or flushed; so flush_process leaves nothing of a
\* process behind.
THEOREM CacheYAdminAcordes == Spec => []AdminAcorde
<1>1. Init => AdminAcorde
  BY DEF Init, AdminAcorde, EntradaVacia
<1>2. TypeOK /\ AdminAcorde /\ [Next]_vars => AdminAcorde'
  <2> SUFFICES ASSUME TypeOK, AdminAcorde, [Next]_vars PROVE AdminAcorde'
    OBVIOUS
  <2>1. CASE UNCHANGED <<cache, admin>>
    BY <2>1 DEF AdminAcorde
  <2>2. ASSUME NEW t, NEW p, LeerEnCache(t, p) PROVE AdminAcorde'
    BY <2>2, TocarAcorde DEF LeerEnCache, AdminAcorde
  <2>3. ASSUME NEW t \in Hilos, PedidoDeCpu(t) PROVE AdminAcorde'
    BY <2>1, <2>2, <2>3 DEF PedidoDeCpu, LeerSinCache, GuardarValor
  <2>4. CASE PedidoDeKernel(Kernel)
    <3>1. Kernel \in Hilos
      BY MemoriaAssumption
    <3> QED
      BY <2>1, <2>3, <2>4, <3>1, LiberarPaginaAcorde
      DEF PedidoDeKernel, NuevoProceso, EliminarProceso, SolicitarHeap
  <2>5. ASSUME NEW t \in Hilos, LeerTrasRetardo(t) PROVE AdminAcorde'
    BY <2>1, <2>5, InsertarAcorde DEF LeerTrasRetardo
  <2>6. ASSUME NEW t \in Hilos, GuardarTrasRetardo(t) \/ CargarScript(t) PROVE AdminAcorde'
    BY <2>6, EscribirAcorde DEF GuardarTrasRetardo, CargarScript
  <2>7. ASSUME NEW t \in Hilos, FinalizarFin(t) PROVE AdminAcorde'
    BY <2>7 DEF FinalizarFin, AdminAcorde, EntradaVacia, AdminVacio
  <2>8. ASSUME NEW t \in Hilos, Paso(t) PROVE AdminAcorde'
    BY <2>1, <2>5, <2>6, <2>7, <2>8 DEF Paso, UbicarTrasPedido, FinalizarMarco
  <2>9. CASE flush
    BY <2>9 DEF flush, AdminAcorde, EntradaVacia
  <2>10. ASSUME NEW t \in Hilos, Desconectar(t) \/ Conectar(t) PROVE AdminAcorde'
    BY <2>1, <2>10 DEF Desconectar, Conectar
  <2>11. CASE UNCHANGED vars
    BY <2>1, <2>11 DEF vars
  <2> QED
    BY <2>3, <2>4, <2>8, <2>9, <2>10, <2>11 DEF Next
<1> QED
  BY <1>1, <1>2, TiposCorrectos, PTL DEF Spec

-----------------------------------------------------------------------------
(* Mutual exclusion *)

\* How a step moves the threads: one takes the mutex, one releases it, one stays
\* where it is inside the section, or a connection is made.
Entra(t) == /\ ~mutex /\ pc[t] = "recv"
            /\ \E donde \in Lugares \ {"cerrado"} :
                 pc' = [pc EXCEPT ![t] = donde] /\ mutex' = (donde # "recv")
Sale(t) == t \in EnSeccion /\ pc' = [pc EXCEPT ![t] = "recv"] /\ mutex' = FALSE
Sigue(t) == /\ t \in EnSeccion /\ mutex' = mutex
            /\ \E donde \in Lugares \ {"recv", "cerrado"} : pc' = [pc EXCEPT ![t] = donde]
Conecta(t) == pc[t] = "cerrado" /\ pc' = [pc EXCEPT ![t] = "recv"] /\ mutex' = mutex

\* What a step may do to the places of the threads and to the mutex, when no connection closes.
LEMMA CambiosDeHilos ==
  ASSUME TypeOK, ~Permite("desconexion"), [Next]_vars
  PROVE  \/ UNCHANGED <<pc, mutex>>
         \/ \E t \in Hilos : Entra(t) \/ Sale(t) \/ Sigue(t) \/ Conecta(t)
<1> DEFINE Mueve == \/ UNCHANGED <<pc, mutex>>
                    \/ \E t \in Hilos : Entra(t) \/ Sale(t) \/ Sigue(t) \/ Conecta(t)
<1>0. Kernel \in Hilos
  BY MemoriaAssumption
<1>1. ASSUME NEW t \in Hilos, NEW p, NEW donde \in Lugares \ {"cerrado"}, Atender(t, p, donde)
      PROVE  Entra(t)
  BY <1>1 DEF Atender, Ir, Entra
<1>2. ASSUME NEW t \in Hilos, PedidoDeCpu(t) PROVE Entra(t)
  <2>1. ASSUME NEW p, LeerEnCache(t, p) \/ LeerSinCache(t, p) \/ GuardarValor(t, p)
        PROVE  \E donde \in Lugares \ {"cerrado"} : Atender(t, p, donde)
    BY <2>1 DEF LeerEnCache, LeerSinCache, GuardarValor, Lugares
  <2> QED
    BY <1>1, <1>2, <2>1 DEF PedidoDeCpu
<1>3. CASE PedidoDeKernel(Kernel)
  <2>1. ASSUME NEW p, \/ NuevoProceso(Kernel, p) \/ EliminarProceso(Kernel, p)
                      \/ SolicitarHeap(Kernel, p) \/ LiberarPagina(Kernel, p)
        PROVE  \E donde \in Lugares \ {"cerrado"} : Atender(Kernel, p, donde)
    BY <2>1 DEF NuevoProceso, EliminarProceso, SolicitarHeap, LiberarPagina, Lugares
  <2> QED
    BY <1>0, <1>1, <1>2, <1>3, <2>1 DEF PedidoDeKernel
<1>4. ASSUME NEW t \in Hilos, Paso(t) PROVE Mueve
  <2>1. CASE LeerTrasRetardo(t) \/ GuardarTrasRetardo(t) \/ FinalizarFin(t)
    <3>1. Sale(t)
      BY <2>1 DEF LeerTrasRetardo, GuardarTrasRetardo, FinalizarFin, Terminar, Ir, Sale, EnSeccion
    <3> QED
      BY <3>1
  <2>2. CASE UbicarTrasPedido(t)
    <3>1. Sigue(t)
      BY <2>2 DEF UbicarTrasPedido, Ir, Sigue, EnSeccion, Lugares
    <3> QED
      BY <3>1
  <2>3. CASE CargarScript(t)
    <3>1. Sale(t) \/ UNCHANGED <<pc, mutex>>
      BY <2>3 DEF CargarScript, Terminar, Ir, Sale, EnSeccion
    <3> QED
      BY <3>1
  <2>4. CASE FinalizarMarco(t)
    BY <2>4 DEF FinalizarMarco
  <2> QED
    BY <1>4, <2>1, <2>2, <2>3, <2>4 DEF Paso
<1>5. ASSUME NEW t \in Hilos, Conectar(t) PROVE Conecta(t)
  BY <1>5 DEF Conectar, Conecta, Ir
<1>6. CASE flush \/ UNCHANGED vars
  BY <1>6 DEF flush, vars
<1> QED
  BY <1>0, <1>2, <1>3, <1>4, <1>5, <1>6 DEF Next, Desconectar

\* While no connection is closed, mutex_memoria does its work: at most one thread
\* serves a request, and the mutex is locked exactly while one does.
THEOREM ExclusionSinDesconexion ==
  ASSUME ~Permite("desconexion")
  PROVE  Spec => []Exclusion
<1>1. Init => Exclusion
  BY DEF Init, Exclusion, EnSeccion
<1>2. TypeOK /\ Exclusion /\ [Next]_vars => Exclusion'
  <2> SUFFICES ASSUME TypeOK, Exclusion, [Next]_vars PROVE Exclusion'
    OBVIOUS
  <2>1. pc \in [Hilos -> Lugares]
    BY DEF TypeOK, TipoHilos
  <2>2. CASE UNCHANGED <<pc, mutex>>
    BY <2>2 DEF Exclusion, EnSeccion
  <2>3. ASSUME NEW t \in Hilos, Entra(t) PROVE Exclusion'
    <3>1. EnSeccion = {}
      BY <2>3 DEF Entra, Exclusion
    <3>2. PICK donde \in Lugares \ {"cerrado"} :
            pc' = [pc EXCEPT ![t] = donde] /\ mutex' = (donde # "recv")
      BY <2>3 DEF Entra
    <3>3. EnSeccion' = IF donde = "recv" THEN {} ELSE {t}
      BY <2>1, <3>1, <3>2 DEF EnSeccion
    <3> QED
      BY <3>2, <3>3 DEF Exclusion
  <2>4. ASSUME NEW t \in Hilos, Sale(t) PROVE Exclusion'
    <3>1. EnSeccion = {t}
      BY <2>4 DEF Sale, Exclusion
    <3>2. EnSeccion' = {}
      BY <2>1, <2>4, <3>1 DEF Sale, EnSeccion
    <3> QED
      BY <2>4, <3>2 DEF Sale, Exclusion
  <2>5. ASSUME NEW t \in Hilos, Sigue(t) PROVE Exclusion'
    <3>1. EnSeccion = {t}
      BY <2>5 DEF Sigue, Exclusion
    <3>2. EnSeccion' = {t}
      BY <2>1, <2>5, <3>1 DEF Sigue, EnSeccion
    <3> QED
      BY <2>5, <3>1, <3>2 DEF Sigue, Exclusion
  <2>6. ASSUME NEW t \in Hilos, Conecta(t) PROVE Exclusion'
    <3>1. EnSeccion' = EnSeccion
      BY <2>1, <2>6 DEF Conecta, EnSeccion
    <3> QED
      BY <2>6, <3>1 DEF Conecta, Exclusion
  <2> QED
    BY <2>2, <2>3, <2>4, <2>5, <2>6, CambiosDeHilos
<1> QED
  BY <1>1, <1>2, TiposCorrectos, PTL DEF Spec

-----------------------------------------------------------------------------
(* The replacement *)

\* Ageing raises every t_last_ref above 0, for RefMax is at least 1, and no owner.
LEMMA EnvejecerSube ==
  ASSUME TypeOK
  PROVE  \A i \in Slots : /\ aumentar_referencias[i].ref > 0
                          /\ aumentar_referencias[i].pid = admin[i].pid
<1> SUFFICES ASSUME NEW i \in Slots
             PROVE  /\ aumentar_referencias[i].ref > 0
                    /\ aumentar_referencias[i].pid = admin[i].pid
  OBVIOUS
<1>1. aumentar_referencias[i] = IF admin[i].ref = RefMax THEN admin[i]
                                ELSE [admin[i] EXCEPT !.ref = @ + 1]
  BY DEF aumentar_referencias
<1>2. admin[i] \in [pid : Int, ref : 0 .. RefMax] /\ RefMax \in Nat \ {0}
  BY MemoriaAssumption DEF TypeOK, TipoPaginas
<1> QED
  BY <1>1, <1>2

\* Among entries that have aged there is an oldest one.
LEMMA HayMasVieja ==
  ASSUME TypeOK, NEW S \in SUBSET Slots, S # {}
  PROVE  MasViejas(aumentar_referencias, S) # {}
<1> DEFINE adm == aumentar_referencias
           faltan == {RefMax - adm[i].ref : i \in S}
<1>1. \A i \in S : adm[i].ref \in 0 .. RefMax /\ adm[i].ref > 0
  BY TipoEnvejecer, EnvejecerSube DEF TypeOK
<1>2. RefMax \in Nat
  BY MemoriaAssumption
<1> HIDE DEF adm
<1>3. faltan \in SUBSET Nat /\ faltan # {}
  BY <1>1, <1>2
<1>4. Minimo(faltan) \in faltan /\ \A y \in faltan : Minimo(faltan) <= y
  BY <1>3, MinimoEsta
<1>5. PICK i \in S : Minimo(faltan) = RefMax - adm[i].ref
  BY <1>4
<1>6. \A j \in S : adm[j].ref <= adm[i].ref
  <2> SUFFICES ASSUME NEW j \in S PROVE adm[j].ref <= adm[i].ref
    OBVIOUS
  <2>1. RefMax - adm[i].ref <= RefMax - adm[j].ref
    BY <1>4, <1>5
  <2> QED
    BY <2>1, <1>1, <1>2
<1>7. i \in MasViejas(adm, S)
  BY <1>1, <1>6 DEF MasViejas
<1> QED
  BY <1>7 DEF adm

\* So the search of insertar_entrada ends in an entry of those it looks at.
LEMMA VictimaEsta ==
  ASSUME TypeOK, NEW S \in SUBSET Slots, S # {}
  PROVE  Victima(aumentar_referencias, S) \subseteq S
<1>0. S \subseteq Nat /\ MasViejas(aumentar_referencias, S) \subseteq S
  <2>1. Slots \subseteq Nat
    BY DEF Slots
  <2> QED
    BY <2>1 DEF MasViejas
<1>1. MasViejas(aumentar_referencias, S) \in SUBSET Nat
  BY <1>0
<1>2. Minimo(MasViejas(aumentar_referencias, S)) \in MasViejas(aumentar_referencias, S)
  BY <1>1, HayMasVieja, MinimoEsta
<1> QED
  BY <1>0, <1>2, HayMasVieja DEF Victima

\* The entries of the cache are counted.
LEMMA EntradasContadas ==
  ASSUME NEW S \in SUBSET Slots
  PROVE  IsFiniteSet(S) /\ Cardinality(S) \in Nat
<1>1. IsFiniteSet(Slots)
  BY FS_Interval, MemoriaAssumption DEF Slots
<1> QED
  BY <1>1, FS_Subset, FS_CardinalityType

\* A process that has entries has them in admin_cache too.
LEMMA QuienTieneEntradas ==
  ASSUME TypeOK, AdminAcorde, NEW pid \in Nat, cantidad_de_entradas(pid) >= CacheXProc,
         CacheXProc > 0
  PROVE  \E i \in Slots : cache[i].pid = pid /\ admin[i].pid = pid
<1>1. EntradasDe(pid) # {}
  <2>1. EntradasDe(pid) = {} => cantidad_de_entradas(pid) = 0
    BY FS_EmptySet DEF cantidad_de_entradas
  <2> QED
    BY <2>1, MemoriaAssumption
<1>2. PICK i \in EntradasDe(pid) : TRUE
  BY <1>1
<1> QED
  BY <1>2 DEF EntradasDe, AdminAcorde, NADIE

\* The variable "victima" of the two searches is always set: whenever an entry has to
\* be replaced one is found, also when its owner has freed pages.
THEOREM SiempreHayVictima == Spec => []VictimaDefinida
<1>1. TypeOK /\ AdminAcorde => VictimaDefinida
  <2> SUFFICES ASSUME TypeOK, AdminAcorde, NEW pid \in Pids
               PROVE  /\ cantidad_de_entradas(pid) >= CacheXProc /\ CacheXProc > 0 =>
                           MasViejas(aumentar_referencias, {i \in Slots : admin[i].pid = pid}) # {}
                      /\ EntradasLibres = {} /\ Entradas > 0 =>
                           MasViejas(aumentar_referencias, Slots) # {}
    BY DEF VictimaDefinida
  <2>1. ASSUME cantidad_de_entradas(pid) >= CacheXProc, CacheXProc > 0
        PROVE  MasViejas(aumentar_referencias, {i \in Slots : admin[i].pid = pid}) # {}
    <3>1. pid \in Nat
      BY MemoriaAssumption
    <3>2. {i \in Slots : admin[i].pid = pid} # {}
      BY <2>1, <3>1, QuienTieneEntradas
    <3> QED
      BY <3>2, HayMasVieja
  <2>2. ASSUME Entradas > 0 PROVE MasViejas(aumentar_referencias, Slots) # {}
    <3>1. 0 \in Slots
      BY <2>2, MemoriaAssumption DEF Slots
    <3> QED
      BY <3>1, HayMasVieja
  <2> QED
    BY <2>1, <2>2
<1> QED
  BY <1>1, TiposCorrectos, CacheYAdminAcordes, PTL

\* While nobody frees pages, the owner of an entry in admin_cache is the one in cache,
\* in the empty ones too; and the quota is kept.
MismoDuenio == \A i \in Slots : admin[i].pid = cache[i].pid
CuotaDeTodos == CacheXProc > 0 => \A pid \in Nat : cantidad_de_entradas(pid) <= CacheXProc

\* insertar_entrada records the owner twice, and takes an entry of the process when
\* it is at its quota.
LEMMA InsertarEnCuota ==
  ASSUME TypeOK, MismoDuenio, CuotaDeTodos, NEW pid \in Nat, NEW pagina, NEW contenido,
         insertar_entrada(pid, pagina, contenido)
  PROVE  MismoDuenio' /\ CuotaDeTodos'
<1> DEFINE adm == aumentar_referencias
<1>1. /\ adm \in [Slots -> [pid : Int, ref : 0 .. RefMax]]
      /\ \A i \in Slots : adm[i].pid = cache[i].pid
  BY TipoEnvejecer, EnvejecerSube DEF TypeOK, MismoDuenio
<1>2. CASE Entradas > 0 /\ CacheXProc > 0
  <2>1. PICK aux \in EntradaElegida(adm, pid) :
          /\ cache' = [cache EXCEPT ![aux] =
               [pid |-> pid, pagina |-> pagina, contenido |-> contenido]]
          /\ admin' = [adm EXCEPT ![aux] = [pid |-> pid, ref |-> 0]]
    BY <1>2 DEF insertar_entrada
  <2>2. \A i \in Slots : /\ cache'[i].pid = IF i = aux THEN pid ELSE cache[i].pid
                         /\ admin'[i].pid = IF i = aux THEN pid ELSE adm[i].pid
    BY <2>1, <1>1 DEF TypeOK, TipoPaginas
  <2>3. MismoDuenio'
    BY <2>2, <1>1 DEF MismoDuenio
  <2>4. ASSUME NEW q \in Nat PROVE cantidad_de_entradas(q)' <= CacheXProc
    <3>0. /\ IsFiniteSet(EntradasDe(q)) /\ cantidad_de_entradas(q) \in Nat
          /\ cantidad_de_entradas(q) <= CacheXProc /\ CacheXProc \in Nat
      BY <1>2, EntradasContadas, MemoriaAssumption
      DEF EntradasDe, cantidad_de_entradas, CuotaDeTodos
    <3>1. CASE EntradasDe(q)' \subseteq EntradasDe(q)
      <4>1. Cardinality(EntradasDe(q)') \in Nat
            /\ Cardinality(EntradasDe(q)') <= Cardinality(EntradasDe(q))
        BY <3>0, <3>1, FS_Subset, FS_CardinalityType
      <4> QED
        BY <4>1, <3>0 DEF cantidad_de_entradas
    <3>2. CASE q = pid /\ cantidad_de_entradas(pid) < CacheXProc
      <4>1. EntradasDe(q)' \subseteq EntradasDe(q) \cup {aux}
        BY <2>2 DEF EntradasDe
      <4>2. /\ IsFiniteSet(EntradasDe(q) \cup {aux})
            /\ Cardinality(EntradasDe(q) \cup {aux}) <= Cardinality(EntradasDe(q)) + 1
            /\ Cardinality(EntradasDe(q) \cup {aux}) \in Nat
        <5>1. /\ IsFiniteSet(EntradasDe(q) \cup {aux})
              /\ Cardinality(EntradasDe(q) \cup {aux})
                   = IF aux \in EntradasDe(q) THEN Cardinality(EntradasDe(q))
                     ELSE Cardinality(EntradasDe(q)) + 1
          BY <3>0, FS_AddElement
        <5> QED
          BY <5>1, <3>0, FS_CardinalityType DEF cantidad_de_entradas
      <4>3. Cardinality(EntradasDe(q)') \in Nat
            /\ Cardinality(EntradasDe(q)') <= Cardinality(EntradasDe(q) \cup {aux})
        BY <4>1, <4>2, FS_Subset, FS_CardinalityType
      <4> QED
        BY <3>0, <3>2, <4>2, <4>3 DEF cantidad_de_entradas
    <3>3. CASE q = pid /\ ~(cantidad_de_entradas(pid) < CacheXProc)
      <4>1. cantidad_de_entradas(pid) >= CacheXProc
        BY <3>0, <3>3
      <4> DEFINE S == {i \in Slots : adm[i].pid = pid}
      <4>2. S = EntradasDe(pid)
        BY <1>1 DEF EntradasDe
      <4>3. S # {}
        <5>1. AdminAcorde
          BY DEF MismoDuenio, AdminAcorde
        <5> QED
          BY <5>1, <4>1, <4>2, <1>2, QuienTieneEntradas DEF EntradasDe
      <4>4. aux \in S
        BY <4>1, <4>3, <2>1, VictimaEsta DEF EntradaElegida, buscar_victima_local
      <4>5. EntradasDe(q)' = EntradasDe(q)
        BY <2>2, <3>3, <4>2, <4>4 DEF EntradasDe
      <4> QED
        BY <3>1, <4>5
    <3>4. CASE q # pid
      <4>1. EntradasDe(q)' \subseteq EntradasDe(q)
        BY <2>2, <3>4 DEF EntradasDe
      <4> QED
        BY <3>1, <4>1
    <3> QED
      BY <3>2, <3>3, <3>4
  <2> QED
    BY <2>3, <2>4 DEF CuotaDeTodos
<1>3. CASE ~(Entradas > 0 /\ CacheXProc > 0)
  <2>1. cache' = cache /\ admin' = adm
    BY <1>3 DEF insertar_entrada
  <2> QED
    BY <2>1, <1>1 DEF MismoDuenio, CuotaDeTodos, cantidad_de_entradas, EntradasDe
<1> QED
  BY <1>2, <1>3

\* Steps that leave the owners where they are, or empty entries
LEMMA VaciarEnCuota ==
  ASSUME TypeOK, CuotaDeTodos,
         \A i \in Slots : cache'[i].pid \in {NADIE, cache[i].pid}
  PROVE  CuotaDeTodos'
<1> SUFFICES ASSUME CacheXProc > 0, NEW q \in Nat
             PROVE  cantidad_de_entradas(q)' <= CacheXProc
  BY DEF CuotaDeTodos
<1>1. EntradasDe(q)' \subseteq EntradasDe(q)
  BY DEF EntradasDe, NADIE
<1>2. /\ IsFiniteSet(EntradasDe(q)) /\ Cardinality(EntradasDe(q)) \in Nat
      /\ Cardinality(EntradasDe(q)) <= CacheXProc
  BY EntradasContadas DEF EntradasDe, cantidad_de_entradas, CuotaDeTodos
<1>3. /\ Cardinality(EntradasDe(q)') \in Nat
      /\ Cardinality(EntradasDe(q)') <= Cardinality(EntradasDe(q))
  BY <1>1, <1>2, FS_Subset, FS_CardinalityType
<1> QED
  BY <1>2, <1>3, MemoriaAssumption DEF cantidad_de_entradas

\* A write puts its page in the cache like a read, or changes words of an entry.
LEMMA EscribirEnCuota ==
  ASSUME TypeOK, MismoDuenio, CuotaDeTodos, NEW pid \in Nat, NEW pagina, NEW offset, NEW v,
         escritura(pid, pagina, offset, v)
  PROVE  MismoDuenio' /\ CuotaDeTodos'
<1>1. CASE esta_en_cache(pid, pagina)
  <2> DEFINE k == buscar_entrada(pid, pagina)
             nuevo == ConPalabras(cache[k].contenido, offset, v)
  <2>1. cache' = [cache EXCEPT ![k].contenido = nuevo]
    BY <1>1 DEF escritura
  <2>2. \A i \in Slots : admin'[i].pid = admin[i].pid
    BY <1>1, TocarAcorde DEF escritura
  <2> HIDE DEF k, nuevo
  <2>3. \A i \in Slots : cache'[i].pid = cache[i].pid
    BY <2>1 DEF TypeOK, TipoPaginas
  <2> QED
    BY <2>2, <2>3, VaciarEnCuota DEF MismoDuenio
<1>2. CASE ~esta_en_cache(pid, pagina)
  BY <1>2, InsertarEnCuota DEF escritura
<1> QED
  BY <1>1, <1>2

\* While nobody frees pages the replacement stays inside the process, whatever the
\* threads do, closed connections and writes to missing pages included: the victim of a
\* process at its quota is an entry of its own, and no process exceeds CACHE_X_PROC.
THEOREM ReemplazoDentroDelProceso ==
  ASSUME ~Permite("libera"), ~Permite("libera_intermedia")
  PROVE  Spec => []ReemplazoLocal
<1> DEFINE Inv == MismoDuenio /\ CuotaDeTodos
<1>1. ASSUME Init PROVE Inv
  <2>1. \A i \in Slots : cache[i].pid = -1 /\ admin[i].pid = -1
    BY <1>1 DEF Init, EntradaVacia, AdminVacio, NADIE
  <2>2. ASSUME NEW q \in Nat PROVE cantidad_de_entradas(q) = 0
    <3>1. EntradasDe(q) = {}
      BY <2>1 DEF EntradasDe
    <3> QED
      BY <3>1, FS_EmptySet DEF cantidad_de_entradas
  <2> QED
    BY <2>1, <2>2, MemoriaAssumption DEF MismoDuenio, CuotaDeTodos
<1>2. TypeOK /\ Inv /\ [Next]_vars => Inv'
  <2> SUFFICES ASSUME TypeOK, MismoDuenio, CuotaDeTodos, [Next]_vars PROVE Inv'
    OBVIOUS
  <2>0. \A t \in Hilos : pedido[t].pid \in Nat
    BY DEF TypeOK, TipoHilos, Pedido
  <2>1. CASE UNCHANGED <<cache, admin>>
    BY <2>1, VaciarEnCuota DEF MismoDuenio
  <2>2. ASSUME NEW t, NEW p, LeerEnCache(t, p) PROVE Inv'
    <3>1. \A i \in Slots : admin'[i].pid = admin[i].pid
      BY <2>2, TocarAcorde DEF LeerEnCache
    <3> QED
      BY <2>2, <3>1, VaciarEnCuota DEF MismoDuenio, LeerEnCache
  <2>3. ASSUME NEW t \in Hilos, PedidoDeCpu(t) PROVE Inv'
    BY <2>1, <2>2, <2>3 DEF PedidoDeCpu, LeerSinCache, GuardarValor
  <2>4. CASE PedidoDeKernel(Kernel)
    <3>1. Kernel \in Hilos
      BY MemoriaAssumption
    <3>2. Liberaciones = {}
      BY DEF Liberaciones
    <3> QED
      BY <2>1, <2>3, <2>4, <3>1, <3>2
      DEF PedidoDeKernel, NuevoProceso, EliminarProceso, SolicitarHeap
  <2>5. ASSUME NEW t \in Hilos, LeerTrasRetardo(t) PROVE Inv'
    BY <2>0, <2>1, <2>5, InsertarEnCuota DEF LeerTrasRetardo
  <2>6. ASSUME NEW t \in Hilos, GuardarTrasRetardo(t) \/ CargarScript(t) PROVE Inv'
    BY <2>0, <2>6, EscribirEnCuota DEF GuardarTrasRetardo, CargarScript
  <2>7. ASSUME NEW t \in Hilos, FinalizarFin(t) PROVE Inv'
    <3>1. \A i \in Slots : cache'[i].pid \in {NADIE, cache[i].pid}
      BY <2>7 DEF FinalizarFin, EntradaVacia
    <3>2. MismoDuenio'
      BY <2>7 DEF FinalizarFin, MismoDuenio, EntradaVacia, AdminVacio
    <3> QED
      BY <3>1, <3>2, VaciarEnCuota
  <2>8. ASSUME NEW t \in Hilos, Paso(t) PROVE Inv'
    BY <2>1, <2>5, <2>6, <2>7, <2>8 DEF Paso, UbicarTrasPedido, FinalizarMarco
  <2>9. CASE flush
    <3>1. \A i \in Slots : cache'[i].pid \in {NADIE, cache[i].pid}
      BY <2>9 DEF flush, EntradaVacia
    <3>2. MismoDuenio'
      BY <2>9 DEF flush, MismoDuenio, EntradaVacia, AdminVacio
    <3> QED
      BY <3>1, <3>2, VaciarEnCuota
  <2>10. ASSUME NEW t \in Hilos, Desconectar(t) \/ Conectar(t) PROVE Inv'
    BY <2>1, <2>10 DEF Desconectar, Conectar
  <2>11. CASE UNCHANGED vars
    BY <2>1, <2>11 DEF vars
  <2> QED
    BY <2>3, <2>4, <2>8, <2>9, <2>10, <2>11 DEF Next
<1>3. TypeOK /\ Inv => VictimaEsDelProceso /\ CuotaDeCache
  <2> SUFFICES ASSUME TypeOK, Inv PROVE VictimaEsDelProceso /\ CuotaDeCache
    OBVIOUS
  <2>1. Pids \subseteq Nat
    BY MemoriaAssumption
  <2>2. CuotaDeCache
    BY <2>1 DEF CuotaDeCache, CuotaDeTodos
  <2>3. ASSUME NEW pid \in Pids, cantidad_de_entradas(pid) >= CacheXProc, CacheXProc > 0,
               NEW v \in buscar_victima_local(aumentar_referencias, pid)
        PROVE  cache[v].pid = pid
    <3> DEFINE S == {i \in Slots : aumentar_referencias[i].pid = pid}
    <3>1. \A i \in Slots : aumentar_referencias[i].pid = cache[i].pid
      BY EnvejecerSube DEF MismoDuenio
    <3>2. AdminAcorde
      BY DEF MismoDuenio, AdminAcorde
    <3>3. S # {}
      BY <2>1, <2>3, <3>1, <3>2, QuienTieneEntradas
    <3>4. v \in S
      BY <2>3, <3>3, VictimaEsta DEF buscar_victima_local
    <3> QED
      BY <3>1, <3>4
  <2> QED
    BY <2>2, <2>3 DEF VictimaEsDelProceso
<1>4. TypeOK /\ Inv /\ VictimaDefinida => ReemplazoLocal
  BY <1>3 DEF ReemplazoLocal
<1> HIDE DEF Inv
<1> QED
  BY <1>1, <1>2, <1>4, TiposCorrectos, SiempreHayVictima, PTL DEF Spec

=============================================================================
