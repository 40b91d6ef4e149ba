---------------------- MODULE SistemaDeArchivosProofs ----------------------
(***************************************************************************)
(* Theorems about the file server, for every number and size of blocks,    *)
(* every set of paths and requests, and any number of restarts.            *)
(***************************************************************************)
EXTENDS SistemaDeArchivos, TLAPS, FiniteSetTheorems, SequenceTheorems, WellFoundedInduction

-----------------------------------------------------------------------------
(* Numbers *)

\* A set of naturals that is not empty has a minimum.
LEMMA HayMinimo ==
  ASSUME NEW S \in SUBSET Nat, S # {}
  PROVE  \E x \in S : \A y \in S : x <= y
<1> DEFINE R == {ss \in Nat \X Nat : ss[1] < ss[2]}
<1>1. R = OpToRel(<, Nat)
  BY DEF OpToRel
<1>2. \A x, y \in Nat : <<y, x>> \notin R => x <= y
  OBVIOUS
<1> HIDE DEF R
<1>3. IsWellFoundedOn(R, Nat)
  BY <1>1, NatLessThanWellFounded
<1>4. PICK x \in S : \A y \in S : <<y, x>> \notin R
  BY <1>3, WFMin
<1> QED
  BY <1>2, <1>4

\* Quotient and remainder of a natural number.
LEMMA Division ==
  ASSUME NEW x \in Nat, NEW T \in Nat \ {0}
  PROVE  /\ x \div T \in Nat
         /\ (x \div T) * T <= x /\ x < (x \div T) * T + T
<1>1. x \div T \in Int /\ x = T * (x \div T) + (x % T) /\ x % T \in 0 .. T - 1
  OBVIOUS
<1> DEFINE q == x \div T
<1>2. q \in Int /\ T * q <= x /\ x < T * q + T /\ T * q = q * T
  BY <1>1
<1> HIDE DEF q
<1>3. q >= 0
  <2>1. SUFFICES ASSUME q <= -1 PROVE FALSE
    BY <1>2
  <2>2. T * q <= -T
    BY <2>1, <1>2
  <2> QED
    BY <2>2, <1>2
<1> QED
  BY <1>2, <1>3 DEF q

\* There is only one quotient.
LEMMA DivisionUnica ==
  ASSUME NEW x \in Nat, NEW T \in Nat \ {0}, NEW q \in Int, q * T <= x, x < q * T + T
  PROVE  q = x \div T
<1> DEFINE p == x \div T
<1>1. p \in Nat /\ p * T <= x /\ x < p * T + T
  BY Division
<1> HIDE DEF p
<1>2. ~(q < p)
  <2>1. SUFFICES ASSUME q + 1 <= p PROVE FALSE
    BY <1>1
  <2>2. (q + 1) * T <= p * T /\ (q + 1) * T = q * T + T
    BY <2>1, <1>1
  <2> QED
    BY <2>2, <1>1
<1>3. ~(p < q)
  <2>1. SUFFICES ASSUME p + 1 <= q PROVE FALSE
    BY <1>1
  <2>2. (p + 1) * T <= q * T /\ (p + 1) * T = p * T + T
    BY <2>1, <1>1
  <2> QED
    BY <2>2, <1>1
<1> QED
  BY <1>1, <1>2, <1>3 DEF p

\* There are blocks, and they are not empty.
LEMMA TamanioPositivo ==
  TAMANIO_BLOQUES \in Nat \ {0} /\ CANTIDAD_BLOQUES \in Nat \ {0}
BY DiscoAssumption

\* When the first block is too small for the request, the pieces go block by block.
Parte(offset, size, hecho) ==
  hecho > 0 => size + offset - (offset \div TAMANIO_BLOQUES) * TAMANIO_BLOQUES > TAMANIO_BLOQUES

\* The pieces of a request tile it (blocks_to_process, fs.h:28-60): each begins where
\* the last one ended, stays inside a block and inside the request, and is not empty;
\* the one that ends the request is in UltimoBloque, and none is beyond it.
THEOREM TrozoExacto ==
  ASSUME NEW offset \in Nat, NEW size \in Nat, NEW hecho \in Nat, hecho < size,
         Parte(offset, size, hecho)
  PROVE  LET t == Trozo(offset, size, hecho)
         IN  /\ t \in [id : Nat, offset : Desplazamientos, size : Nat \ {0}]
             /\ t.id * TAMANIO_BLOQUES + t.offset = offset + hecho
             /\ t.offset + t.size <= TAMANIO_BLOQUES
             /\ hecho + t.size <= size
             /\ t.id <= UltimoBloque(offset, size)
             /\ hecho + t.size = size => t.id = UltimoBloque(offset, size)
             /\ Parte(offset, size, hecho + t.size) \/ hecho + t.size = size
<1> DEFINE T == TAMANIO_BLOQUES
           p == offset \div T
           q == (offset + hecho) \div T
           u == UltimoBloque(offset, size)
           t == Trozo(offset, size, hecho)
           e == size + offset - p * T <= T
<1>1. T \in Nat \ {0}
  BY TamanioPositivo
<1>2. p \in Nat /\ p * T <= offset /\ offset < p * T + T
  BY <1>1, Division
<1>3. q \in Nat /\ q * T <= offset + hecho /\ offset + hecho < q * T + T
  <2>1. offset + hecho \in Nat
    OBVIOUS
  <2> QED
    BY <1>1, <2>1, Division
<1>4. u \in Nat /\ u * T <= offset + size - 1 /\ offset + size - 1 < u * T + T
  <2>1. offset + size - 1 \in Nat
    OBVIOUS
  <2> QED
    BY <1>1, <2>1, Division DEF UltimoBloque
<1>5. hecho > 0 => ~e
  BY <1>1, <1>2 DEF Parte
<1>6. Desplazamientos = 0 .. T - 1
  BY DEF Desplazamientos
<1>a. CASE e
  <2>1. t = [id |-> p, offset |-> offset - p * T, size |-> size] /\ hecho = 0
    BY <1>5, <1>a DEF Trozo
  <2>2. p = u
    <3>1. p * T <= offset + size - 1 /\ offset + size - 1 < p * T + T /\ offset + size - 1 \in Nat
      BY <1>1, <1>2, <1>a
    <3> HIDE DEF p
    <3>2. p = (offset + size - 1) \div T
      BY <1>1, <1>2, <3>1, DivisionUnica
    <3> QED
      BY <3>2 DEF UltimoBloque
  <2> HIDE DEF p, q, u, t, T
  <2>3. t.id = p /\ t.offset = offset - p * T /\ t.size = size
    BY <2>1
  <2>4. p * T \in Int
    BY <1>1, <1>2
  <2>5. offset - p * T \in Desplazamientos
    BY <1>1, <1>2, <1>6, <2>4
  <2>6. t \in [id : Nat, offset : Desplazamientos, size : Nat \ {0}]
    BY <1>2, <2>1, <2>5
  <2>7. p * T + (offset - p * T) = offset + hecho /\ offset - p * T + size <= T
    BY <1>1, <1>2, <1>a, <2>1, <2>4
  <2> QED
    BY <1>4, <2>1, <2>2, <2>3, <2>6, <2>7 DEF T, t, u
<1>b. CASE ~e
  <2> DEFINE d == offset + hecho - q * T
             r == size - hecho
             c == IF r <= T - d THEN r ELSE T - d
  <2>1. t = [id |-> q, offset |-> d, size |-> c]
    BY <1>b DEF Trozo
  <2>2. q * T \in Int /\ d \in Desplazamientos /\ r \in Nat \ {0}
    BY <1>1, <1>3, <1>6
  <2>3. c \in Nat \ {0} /\ d + c <= T /\ c <= r /\ (c # r => d + c = T)
    BY <1>1, <1>6, <2>2
  <2>4. q <= u
    <3> HIDE DEF p, q, u
    <3>1. SUFFICES ASSUME u + 1 <= q PROVE FALSE
      BY <1>3, <1>4
    <3>2. (u + 1) * T <= q * T /\ (u + 1) * T = u * T + T /\ u * T \in Int
      BY <1>1, <1>3, <1>4, <3>1
    <3>3. u * T + T <= offset + hecho
      BY <1>1, <1>3, <3>2
    <3>4. offset + size - 1 < u * T + T
      BY <1>4
    <3> QED
      BY <1>1, <3>2, <3>3, <3>4
  <2>5. c = r => q = u
    <3>1. SUFFICES ASSUME c = r PROVE q = u
      OBVIOUS
    <3>2. q * T <= offset + size - 1 /\ offset + size - 1 < q * T + T /\ offset + size - 1 \in Nat
      BY <1>1, <1>3, <2>2, <2>3, <3>1
    <3> HIDE DEF q
    <3>3. q = (offset + size - 1) \div T
      BY <1>1, <1>3, <3>2, DivisionUnica
    <3> QED
      BY <3>3 DEF UltimoBloque
  <2>6. Parte(offset, size, hecho + c)
    BY <1>1, <1>2, <1>b DEF Parte
  <2>7. q * T + d = offset + hecho /\ hecho + c <= size /\ (hecho + c = size => c = r)
    BY <2>2, <2>3
  <2> HIDE DEF p, q, u, t, T, d, r, c
  <2>8. t.id = q /\ t.offset = d /\ t.size = c
    BY <2>1
  <2>9. t \in [id : Nat, offset : Desplazamientos, size : Nat \ {0}]
    BY <1>3, <2>1, <2>2, <2>3
  <2> QED
    BY <2>3, <2>4, <2>5, <2>6, <2>7, <2>8, <2>9 DEF T, t, u
<1> QED
  BY <1>a, <1>b

-----------------------------------------------------------------------------
(* The inductive invariant *)

\* A file that is on disk is either empty and without format, or complete.
ArchivosBien ==
  \A r \in DOMAIN archivos :
    /\ ~archivos[r].valido => archivos[r].array = <<>> /\ archivos[r].tamanio = 0
    /\ archivos[r].valido => Len(archivos[r].array) > 0
    /\ archivos[r].tamanio <= TAMANIO_BLOQUES * Len(archivos[r].array)

\* The request being served can be finished: there are blocks for what it still lacks.
PedidoBien ==
  pedido # Nada =>
    /\ vivo /\ pedido.ruta \in DOMAIN archivos
    /\ pedido.faltan <= Cardinality(Libres(bitmap))
    /\ pedido.hecho <= Len(pedido.datos)
    /\ pedido.hecho < Len(pedido.datos) =>
         /\ Parte(pedido.offset, Len(pedido.datos), pedido.hecho)
         /\ UltimoBloque(pedido.offset, Len(pedido.datos)) < Len(pedido.array) + pedido.faltan
    /\ Len(pedido.array) + pedido.faltan > 0
    /\ pedido.tamanio <= TAMANIO_BLOQUES * (Len(pedido.array) + pedido.faltan)

IInv == TypeOK /\ ArchivosBien /\ PedidoBien /\ BloquesConDuenio

\* The first free block is a free block.
LEMMA PrimerBloqueLibre ==
  ASSUME NEW ocupados, Libres(ocupados) # {}
  PROVE  primer_bloque_libre(ocupados) \in Libres(ocupados)
<1>1. Libres(ocupados) \in SUBSET Nat
  BY TamanioPositivo DEF Libres, Bloques
<1> QED
  BY <1>1, HayMinimo DEF primer_bloque_libre

\* There is a finite number of free blocks, and taking one leaves one less.
LEMMA UnLibreMenos ==
  ASSUME NEW ocupados
  PROVE  /\ IsFiniteSet(Libres(ocupados)) /\ Cardinality(Libres(ocupados)) \in Nat
         /\ Cardinality(Libres(ocupados)) > 0 => Libres(ocupados) # {}
         /\ \A b \in Libres(ocupados) :
              Cardinality(Libres(ocupados \cup {b})) = Cardinality(Libres(ocupados)) - 1
<1>1. IsFiniteSet(Bloques)
  BY FS_Interval, TamanioPositivo DEF Bloques
<1>2. IsFiniteSet(Libres(ocupados))
  BY <1>1, FS_Subset DEF Libres
<1>3. \A b \in Libres(ocupados) : Libres(ocupados \cup {b}) = Libres(ocupados) \ {b}
  BY DEF Libres
<1> QED
  BY <1>2, <1>3, FS_CardinalityType, FS_EmptySet, FS_RemoveElement

\* The last byte of a request is before the end of its last block.
LEMMA UltimoAlcanza ==
  ASSUME NEW offset \in Nat, NEW size \in Nat \ {0}
  PROVE  /\ UltimoBloque(offset, size) \in Nat
         /\ \A n \in Nat : UltimoBloque(offset, size) < n => offset + size <= TAMANIO_BLOQUES * n
<1> DEFINE T == TAMANIO_BLOQUES
           u == UltimoBloque(offset, size)
<1>1. T \in Nat \ {0}
  BY TamanioPositivo
<1>2. u \in Nat /\ u * T <= offset + size - 1 /\ offset + size - 1 < u * T + T
  <2>1. offset + size - 1 \in Nat
    OBVIOUS
  <2> QED
    BY <1>1, <2>1, Division DEF UltimoBloque
<1> HIDE DEF T, u
<1>3. ASSUME NEW n \in Nat, u < n
      PROVE  offset + size <= T * n
  <2>1. u + 1 <= n /\ (u + 1) * T <= n * T /\ (u + 1) * T = u * T + T /\ n * T = T * n
    BY <1>1, <1>2, <1>3
  <2>2. u * T \in Int /\ T * n \in Int
    BY <1>1, <1>2
  <2> QED
    BY <1>1, <1>2, <2>1, <2>2
<1> QED
  BY <1>2, <1>3 DEF T, u

-----------------------------------------------------------------------------
(* The steps *)

\* At the start there are no files.
LEMMA InicioBien == Init => IInv
<1> SUFFICES ASSUME Init PROVE IInv
  OBVIOUS
<1>1. DOMAIN archivos = {}
  BY DEF Init
<1>2. bloques \in [Bloques -> [Desplazamientos -> Bytes]]
  BY DEF Init, Bytes
<1>3. bitmap = {} /\ pedido = Nada /\ codigo = 0 /\ vivo = TRUE /\ reinicios = 0 /\ desacuerdo = FALSE
  BY DEF Init
<1>4. TypeOK
  <2>1. /\ DOMAIN archivos \subseteq Rutas
        /\ archivos \in [DOMAIN archivos -> [valido : BOOLEAN, tamanio : Nat, array : Seq(Bloques)]]
    BY <1>1 DEF Init
  <2>2. bitmap \subseteq Bloques /\ pedido \in EnCurso \cup {Nada}
    BY <1>3
  <2>3. codigo \in Int /\ reinicios \in Nat
    BY <1>3
  <2>4. vivo \in BOOLEAN /\ desacuerdo \in BOOLEAN
    BY <1>3, Zenon
  <2> QED
    BY <1>2, <2>1, <2>2, <2>3, <2>4, Zenon DEF TypeOK
<1>5. ArchivosBien /\ PedidoBien
  BY <1>1 DEF Init, ArchivosBien, PedidoBien
<1>6. BloquesConDuenio
  BY <1>1 DEF Init, BloquesConDuenio
<1> QED
  BY <1>4, <1>5, <1>6 DEF IInv

\* A step that leaves the disk and the request alone.
LEMMA Quieto ==
  ASSUME IInv, UNCHANGED <<disco, pedido, desacuerdo>>, vivo' = vivo,
         codigo' \in Int, reinicios' \in Nat
  PROVE  IInv'
<1> USE DEF disco
<1>1. TypeOK'
  BY DEF IInv, TypeOK
<1>2. ArchivosBien' /\ PedidoBien'
  BY DEF IInv, ArchivosBien, PedidoBien, Libres
<1>3. BloquesConDuenio'
  BY DEF IInv, BloquesConDuenio, Lista
<1> QED
  BY <1>1, <1>2, <1>3 DEF IInv

\* The codes are integers.
LEMMA CodigosEnteros ==
  ASSUME NEW r, NEW o, NEW s
  PROVE  CodigoDeLectura(r, o, s) \in {1, -14, -15, -16, -20}
         /\ CodigoDeEscritura(r, o, s) \in {1, -14, -15, -16, -20}
BY DEF CodigoDeLectura, CodigoDeEscritura

\* A read changes nothing.
LEMMA LeerBien ==
  ASSUME IInv, NEW r \in Rutas, NEW o \in Offsets, NEW s \in Tamanios, Leer(r, o, s)
  PROVE  IInv'
<1>1. codigo' \in Int /\ pedido' = pedido
  BY CodigosEnteros DEF Leer, Responder, Atiende
<1> QED
  BY <1>1, Quieto DEF Leer, disco, historia, IInv, TypeOK

\* A file that goes leaves its blocks, and no other file had them.
LEMMA DeleteBien ==
  ASSUME IInv, Atiende, NEW r \in Rutas, exist(r), delete_archivo(r),
         pedido' = Nada, codigo' \in Int, UNCHANGED <<bloques, vivo, reinicios, desacuerdo>>
  PROVE  IInv'
<1>1. DOMAIN archivos' = DOMAIN archivos \ {r} /\ \A p \in DOMAIN archivos' : archivos'[p] = archivos[p]
  BY DEF delete_archivo, SinArchivo
<1>2. pedido = Nada /\ vivo
  BY DEF Atiende
<1>3. bitmap' = bitmap \ Range(archivos[r].array)
  BY DEF delete_archivo, validar_archivo, IInv, ArchivosBien, Range, exist
<1>4. TypeOK'
  <2>1. archivos' \in [DOMAIN archivos' -> [valido : BOOLEAN, tamanio : Nat, array : Seq(Bloques)]]
    BY DEF delete_archivo, SinArchivo, IInv, TypeOK
  <2> QED
    BY <1>1, <1>2, <1>3, <2>1 DEF IInv, TypeOK
<1>5. ArchivosBien' /\ PedidoBien'
  BY <1>1 DEF IInv, ArchivosBien, PedidoBien
<1>6. BloquesConDuenio'
  <2>1. SUFFICES ASSUME ~desacuerdo PROVE BloquesConDuenio'
    BY DEF BloquesConDuenio
  <2>2. /\ bitmap = UNION {Range(archivos[p].array) : p \in DOMAIN archivos}
        /\ \A p \in DOMAIN archivos : IsInjective(archivos[p].array)
        /\ \A p, s \in DOMAIN archivos : p # s => Range(archivos[p].array) \cap Range(archivos[s].array) = {}
    BY <1>2, <2>1 DEF IInv, BloquesConDuenio, Lista
  <2>3. bitmap' = UNION {Range(archivos'[p].array) : p \in DOMAIN archivos'}
    BY <1>1, <1>3, <2>2 DEF exist
  <2> QED
    BY <1>1, <2>2, <2>3 DEF BloquesConDuenio, Lista
<1> QED
  BY <1>4, <1>5, <1>6 DEF IInv

\* VALIDAR_MSG and DEL_MSG.
LEMMA ValidarBien ==
  ASSUME IInv, NEW r \in Rutas, Validar(r)
  PROVE  IInv'
<1>1. pedido' = Nada /\ codigo' \in Int /\ Atiende /\ UNCHANGED <<bloques, vivo, reinicios, desacuerdo>>
  BY DEF Validar, Responder
<1>2. CASE validar_archivo(r) \/ ~exist(r)
  <2>1. archivos' = archivos /\ bitmap' = bitmap
    <3>1. CASE validar_archivo(r)
      BY <3>1 DEF Validar
    <3>2. CASE ~exist(r)
      <4>1. ~validar_archivo(r)
        BY <3>2 DEF validar_archivo
      <4>2. archivos' = SinArchivo(r) /\ bitmap' = bitmap
        BY <4>1 DEF Validar, delete_archivo
      <4>3. DOMAIN archivos \ {r} = DOMAIN archivos
        BY <3>2 DEF exist
      <4>4. archivos = [p \in DOMAIN archivos |-> archivos[p]]
        BY DEF IInv, TypeOK
      <4> QED
        BY <4>2, <4>3, <4>4 DEF SinArchivo
    <3> QED
      BY <1>2, <3>1, <3>2
  <2> QED
    BY <1>1, <2>1, Quieto DEF disco, Atiende, IInv, TypeOK
<1>3. CASE ~validar_archivo(r) /\ exist(r)
  BY <1>1, <1>3, DeleteBien DEF Validar
<1> QED
  BY <1>2, <1>3

LEMMA BorrarBien ==
  ASSUME IInv, NEW r \in Rutas, Borrar(r)
  PROVE  IInv'
<1>1. pedido' = Nada /\ codigo' \in Int /\ Atiende /\ UNCHANGED <<bloques, vivo, reinicios, desacuerdo>>
  BY DEF Borrar, Responder
<1>2. CASE exist(r)
  BY <1>1, <1>2, DeleteBien DEF Borrar
<1>3. CASE ~exist(r)
  BY <1>1, <1>3, Quieto DEF Borrar, disco, Atiende, IInv, TypeOK
<1> QED
  BY <1>2, <1>3

\* A new file has no blocks yet, and there is one for it.
LEMMA CrearBien ==
  ASSUME IInv, NEW r \in Rutas, Crear(r)
  PROVE  IInv'
<1>1. CASE exist(r) \/ Libres(bitmap) = {}
  <2>1. pedido' = pedido /\ codigo' \in Int /\ archivos' = archivos
    BY <1>1 DEF Crear, Responder, Atiende
  <2> QED
    BY <2>1, Quieto DEF Crear, disco, historia, IInv, TypeOK
<1>2. CASE ~exist(r) /\ Libres(bitmap) # {}
  <2> DEFINE p1 == [ruta |-> r, tamanio |-> 0, faltan |-> 1, array |-> <<>>,
                    offset |-> 0, hecho |-> 0, datos |-> <<>>]
  <2>1. /\ archivos' = [p \in DOMAIN archivos \cup {r} |-> IF p = r THEN SinFormato ELSE archivos[p]]
        /\ pedido' = p1 /\ pedido = Nada /\ vivo
        /\ UNCHANGED <<bitmap, bloques, codigo, vivo, reinicios, desacuerdo>>
    BY <1>2 DEF Crear, Atiende, historia
  <2>2. p1 \in EnCurso
    BY DEF EnCurso
  <2>3. TypeOK'
    <3>1. SinFormato \in [valido : BOOLEAN, tamanio : Nat, array : Seq(Bloques)]
      BY DEF SinFormato
    <3>2. archivos' \in [DOMAIN archivos' -> [valido : BOOLEAN, tamanio : Nat, array : Seq(Bloques)]]
      BY <2>1, <3>1 DEF IInv, TypeOK
    <3> QED
      BY <2>1, <2>2, <3>2 DEF IInv, TypeOK
  <2>4. /\ DOMAIN archivos' = DOMAIN archivos \cup {r}
        /\ archivos'[r] = SinFormato
        /\ \A p \in DOMAIN archivos : p # r /\ archivos'[p] = archivos[p]
    BY <1>2, <2>1 DEF exist
  <2>5. ArchivosBien'
    <3>1. SUFFICES ASSUME NEW p \in DOMAIN archivos'
                   PROVE  /\ ~archivos'[p].valido => archivos'[p].array = <<>> /\ archivos'[p].tamanio = 0
                          /\ archivos'[p].valido => Len(archivos'[p].array) > 0
                          /\ archivos'[p].tamanio <= TAMANIO_BLOQUES * Len(archivos'[p].array)
      BY DEF ArchivosBien
    <3>2. CASE p = r
      BY <2>4, <3>2, TamanioPositivo DEF SinFormato
    <3>3. CASE p \in DOMAIN archivos
      BY <2>4, <3>3 DEF IInv, ArchivosBien
    <3> QED
      BY <2>4, <3>2, <3>3
  <2>6. PedidoBien'
    <3>1. Cardinality(Libres(bitmap)) >= 1
      BY <1>2, UnLibreMenos, FS_EmptySet
    <3> QED
      BY <2>1, <2>4, <3>1, TamanioPositivo DEF PedidoBien, Libres
  <2>7. BloquesConDuenio'
    <3>1. SUFFICES ASSUME ~desacuerdo PROVE BloquesConDuenio'
      BY <2>1 DEF BloquesConDuenio
    <3>2. pedido' # Nada
      BY <2>1, <2>2, PedidoAssumption
    <3>3. \A p \in DOMAIN archivos' : Lista(p)' = IF p = r THEN <<>> ELSE Lista(p)
      BY <2>1, <2>4, <3>2 DEF Lista
    <3>4. Range(<<>>) = {} /\ IsInjective(<<>>)
      BY DEF Range, IsInjective
    <3>5. /\ bitmap = UNION {Range(Lista(p)) : p \in DOMAIN archivos}
          /\ \A p \in DOMAIN archivos : IsInjective(Lista(p))
          /\ \A p, s \in DOMAIN archivos : p # s => Range(Lista(p)) \cap Range(Lista(s)) = {}
      BY <2>1, <3>1 DEF IInv, BloquesConDuenio
    <3>6. bitmap' = UNION {Range(Lista(p)') : p \in DOMAIN archivos'}
      BY <2>1, <2>4, <3>3, <3>4, <3>5
    <3>7. \A p \in DOMAIN archivos' : IsInjective(Lista(p)')
      BY <2>4, <3>3, <3>4, <3>5
    <3>8. \A p, s \in DOMAIN archivos' : p # s => Range(Lista(p)') \cap Range(Lista(s)') = {}
      BY <2>4, <3>3, <3>4, <3>5
    <3> QED
      BY <3>6, <3>7, <3>8 DEF BloquesConDuenio
  <2> QED
    BY <2>3, <2>5, <2>6, <2>7 DEF IInv
<1> QED
  BY <1>1, <1>2

\* A write begins when there are blocks for all of it.
LEMMA EscribirBien ==
  ASSUME IInv, NEW r \in Rutas, NEW o \in Offsets, NEW b \in Buferes, Escribir(r, o, b)
  PROVE  IInv'
<1> DEFINE c == CodigoDeEscritura(r, o, Len(b))
           f == BloquesNecesarios(archivos[r].array, o, Len(b))
           p1 == [ruta |-> r, tamanio |-> Maximo(archivos[r].tamanio, o + Len(b)),
                  faltan |-> Maximo(0, f), array |-> archivos[r].array,
                  offset |-> o, hecho |-> 0, datos |-> b]
<1>1. c \in {1, -14, -15, -16, -20}
  BY CodigosEnteros
<1>2. CASE c < 0
  <2>1. RechazarEscritura(c) /\ UNCHANGED <<vivo, reinicios, desacuerdo>> /\ pedido = Nada
    <3>1. ~(c > 0)
      BY <1>1, <1>2
    <3> QED
      BY <3>1 DEF Escribir, Atiende
  <2> QED
    BY <1>1, <2>1, Quieto DEF RechazarEscritura, Responder, IInv, TypeOK
<1>3. CASE c = 1
  <2>1. /\ pedido' = p1 /\ pedido = Nada /\ vivo
        /\ UNCHANGED <<disco, codigo, vivo, reinicios, desacuerdo>>
    BY <1>3 DEF Escribir, Atiende
  <2>2. /\ r \in DOMAIN archivos /\ archivos[r].valido
        /\ ~(Len(b) < 1) /\ ~(o < 0)
        /\ ~(Cardinality(Libres(bitmap)) < f)
    <3>1. validar_archivo(r)
      BY <1>3 DEF CodigoDeEscritura
    <3>2. ~(Len(b) < 1) /\ ~(o < 0)
      BY <1>3, <3>1 DEF CodigoDeEscritura
    <3>3. ~(Cardinality(Libres(bitmap)) < f)
      BY <1>3, <3>1, <3>2 DEF CodigoDeEscritura
    <3> QED
      BY <3>1, <3>2, <3>3 DEF validar_archivo, exist
  <2>3. b \in Seq(Bytes) /\ Len(b) \in Nat \ {0} /\ o \in Nat
    BY <2>2, PedidoAssumption, DiscoAssumption
  <2>4. /\ archivos[r].array \in Seq(Bloques) /\ archivos[r].tamanio \in Nat
        /\ Len(archivos[r].array) \in Nat
    BY <2>2 DEF IInv, TypeOK
  <2> DEFINE u == UltimoBloque(o, Len(b))
             n == Len(archivos[r].array)
  <2>5. u \in Nat /\ \A k \in Nat : u < k => o + Len(b) <= TAMANIO_BLOQUES * k
    BY <2>3, UltimoAlcanza
  <2>6. f = u + 1 - n
    BY DEF BloquesNecesarios
  <2> HIDE DEF u, n, f
  <2>7. Maximo(0, f) \in Nat /\ n + Maximo(0, f) > u /\ Maximo(0, f) <= Cardinality(Libres(bitmap))
    <3>1. Cardinality(Libres(bitmap)) \in Nat
      BY UnLibreMenos
    <3>2. n \in Nat /\ f = u + 1 - n /\ u \in Nat
      BY <2>4, <2>5, <2>6 DEF n
    <3> QED
      BY <2>2, <3>1, <3>2 DEF Maximo
  <2>8. Maximo(archivos[r].tamanio, o + Len(b)) \in Nat
    BY <2>3, <2>4 DEF Maximo
  <2>9. p1 \in EnCurso
    BY <2>3, <2>4, <2>7, <2>8 DEF EnCurso
  <2>10. TypeOK'
    BY <2>1, <2>9 DEF IInv, TypeOK, disco
  <2>11. ArchivosBien'
    BY <2>1 DEF IInv, ArchivosBien, disco
  <2>12. PedidoBien'
    <3>1. archivos[r].tamanio <= TAMANIO_BLOQUES * n /\ n > 0 /\ n \in Nat
      BY <2>2, <2>4 DEF IInv, ArchivosBien, n
    <3> DEFINE m == n + Maximo(0, f)
    <3>2. m \in Nat /\ n <= m /\ u < m
      BY <2>7, <3>1
    <3>3. TAMANIO_BLOQUES * n <= TAMANIO_BLOQUES * m
      BY <3>1, <3>2, TamanioPositivo
    <3>4. o + Len(b) <= TAMANIO_BLOQUES * m
      BY <2>5, <3>2
    <3>5. Maximo(archivos[r].tamanio, o + Len(b)) <= TAMANIO_BLOQUES * m
      BY <2>3, <2>4, <3>1, <3>2, <3>3, <3>4, TamanioPositivo DEF Maximo
    <3>6. Parte(o, Len(b), 0)
      BY DEF Parte
    <3>7. m > 0
      BY <3>1, <3>2
    <3> QED
      BY <2>1, <2>2, <2>3, <2>7, <3>2, <3>5, <3>6, <3>7 DEF PedidoBien, disco, Libres, u, n
  <2>13. BloquesConDuenio'
    <3>1. \A p \in DOMAIN archivos : Lista(p)' = Lista(p)
      BY <2>1 DEF Lista, disco
    <3> QED
      BY <2>1, <3>1 DEF IInv, BloquesConDuenio, disco
  <2> QED
    BY <2>10, <2>11, <2>12, <2>13 DEF IInv
<1> QED
  BY <1>1, <1>2, <1>3

\* A request being served has its types, and its file is on disk.
LEMMA PedidoTipos ==
  ASSUME IInv, Sirve
  PROVE  /\ pedido \in EnCurso /\ vivo /\ pedido.ruta \in DOMAIN archivos
         /\ Len(pedido.datos) \in Nat /\ Len(pedido.array) \in Nat
BY DEF IInv, TypeOK, PedidoBien, Sirve, EnCurso

\* The block that is taken was nobody's.
LEMMA AgregarBien ==
  ASSUME IInv, AgregarBloque
  PROVE  IInv'
<1> DEFINE b == primer_bloque_libre(bitmap)
           p1 == [pedido EXCEPT !.array = Append(@, b), !.faltan = @ - 1]
<1>1. Sirve /\ pedido.faltan > 0
  BY DEF AgregarBloque
<1>2. /\ bitmap' = bitmap \cup {b} /\ pedido' = p1
      /\ UNCHANGED <<archivos, bloques, codigo, vivo, reinicios, desacuerdo>>
  BY DEF AgregarBloque, historia
<1>3. pedido \in EnCurso /\ vivo /\ pedido.ruta \in DOMAIN archivos /\ Len(pedido.array) \in Nat
  BY <1>1, PedidoTipos
<1>4. pedido # Nada /\ pedido.faltan \in Nat /\ pedido.array \in Seq(Bloques)
  BY <1>1, <1>3 DEF Sirve, EnCurso
<1>5. b \in Libres(bitmap)
  <2>1. pedido.faltan <= Cardinality(Libres(bitmap))
    BY <1>4 DEF IInv, PedidoBien
  <2>2. Libres(bitmap) # {}
    BY <1>1, <1>4, <2>1, UnLibreMenos
  <2> QED
    BY <2>2, PrimerBloqueLibre
<1>6. b \in Bloques /\ b \notin bitmap
  BY <1>5 DEF Libres
<1> HIDE DEF b
<1>7. /\ p1.array = Append(pedido.array, b) /\ p1.faltan = pedido.faltan - 1
      /\ p1.ruta = pedido.ruta /\ p1.tamanio = pedido.tamanio /\ p1.datos = pedido.datos
      /\ p1.offset = pedido.offset /\ p1.hecho = pedido.hecho
  BY <1>3 DEF EnCurso
<1>8. p1 \in EnCurso
  <2>1. Append(pedido.array, b) \in Seq(Bloques) /\ pedido.faltan - 1 \in Nat
    BY <1>1, <1>4, <1>6
  <2> QED
    BY <1>3, <2>1 DEF EnCurso
<1>9. Len(p1.array) = Len(pedido.array) + 1 /\ Range(p1.array) = Range(pedido.array) \cup {b}
      /\ DOMAIN pedido.array = 1 .. Len(pedido.array)
      /\ DOMAIN p1.array = 1 .. Len(pedido.array) + 1
      /\ p1.array[Len(pedido.array) + 1] = b
      /\ \A k \in 1 .. Len(pedido.array) : p1.array[k] = pedido.array[k]
  <2>1. /\ Len(p1.array) = Len(pedido.array) + 1
        /\ DOMAIN pedido.array = 1 .. Len(pedido.array)
        /\ DOMAIN p1.array = 1 .. Len(pedido.array) + 1
        /\ p1.array[Len(pedido.array) + 1] = b
        /\ \A k \in 1 .. Len(pedido.array) : p1.array[k] = pedido.array[k]
    BY <1>4, <1>6, <1>7
  <2>2. 1 .. Len(pedido.array) + 1 = (1 .. Len(pedido.array)) \cup {Len(pedido.array) + 1}
    BY <1>3
  <2>3. Range(p1.array) = Range(pedido.array) \cup {b}
    BY <2>1, <2>2 DEF Range
  <2> QED
    BY <2>1, <2>3
<1> HIDE DEF p1
<1>10. TypeOK'
  <2>1. bitmap' \subseteq Bloques /\ pedido' \in EnCurso \cup {Nada}
    BY <1>2, <1>6, <1>8 DEF IInv, TypeOK
  <2> QED
    BY <1>2, <2>1 DEF IInv, TypeOK
<1>11. ArchivosBien'
  BY <1>2 DEF IInv, ArchivosBien
<1>12. PedidoBien'
  <2>1. Cardinality(Libres(bitmap')) = Cardinality(Libres(bitmap)) - 1
        /\ Cardinality(Libres(bitmap)) \in Nat
    BY <1>2, <1>5, UnLibreMenos
  <2>2. Len(p1.array) + p1.faltan = Len(pedido.array) + pedido.faltan
    BY <1>3, <1>4, <1>7, <1>9
  <2>3. pedido.faltan <= Cardinality(Libres(bitmap))
    BY <1>4 DEF IInv, PedidoBien
  <2>4. p1.faltan <= Cardinality(Libres(bitmap'))
    BY <1>4, <1>7, <2>1, <2>3
  <2> QED
    BY <1>2, <1>3, <1>4, <1>7, <2>2, <2>4 DEF IInv, PedidoBien, Libres
<1>13. BloquesConDuenio'
  <2>1. SUFFICES ASSUME ~desacuerdo PROVE BloquesConDuenio'
    BY <1>2 DEF BloquesConDuenio
  <2>2. pedido' # Nada
    BY <1>2, <1>8, PedidoAssumption
  <2> PICK r : r = pedido.ruta
    OBVIOUS
  <2>3. Lista(r) = pedido.array /\ Lista(r)' = p1.array
    BY <1>2, <1>4, <1>7, <2>2 DEF Lista
  <2>4. \A p \in DOMAIN archivos : p # r => Lista(p)' = Lista(p)
    BY <1>2, <1>7 DEF Lista
  <2>5. /\ bitmap = UNION {Range(Lista(p)) : p \in DOMAIN archivos}
        /\ \A p \in DOMAIN archivos : IsInjective(Lista(p))
        /\ \A p, s \in DOMAIN archivos : p # s => Range(Lista(p)) \cap Range(Lista(s)) = {}
    BY <1>3, <2>1 DEF IInv, BloquesConDuenio
  <2>6. r \in DOMAIN archivos
    BY <1>3
  <2>7. \A p \in DOMAIN archivos : b \notin Range(Lista(p))
    BY <1>6, <2>5
  <2>8. bitmap' = UNION {Range(Lista(p)') : p \in DOMAIN archivos'}
    BY <1>2, <1>9, <2>3, <2>4, <2>5, <2>6
  <2>9. IsInjective(p1.array)
    <3>1. IsInjective(pedido.array)
      BY <2>3, <2>5, <2>6
    <3>2. \A k \in 1 .. Len(pedido.array) : pedido.array[k] # b
      BY <1>9, <2>3, <2>6, <2>7 DEF Range
    <3>3. 1 .. Len(pedido.array) + 1 = (1 .. Len(pedido.array)) \cup {Len(pedido.array) + 1}
      BY <1>3
    <3> QED
      BY SMTT(20), <1>9, <3>1, <3>2, <3>3 DEF IsInjective
  <2>10. \A p \in DOMAIN archivos' : IsInjective(Lista(p)')
    BY <1>2, <2>3, <2>4, <2>5, <2>9
  <2>11. \A p, s \in DOMAIN archivos' : p # s => Range(Lista(p)') \cap Range(Lista(s)') = {}
    BY <1>2, <1>9, <2>3, <2>4, <2>5, <2>6, <2>7
  <2> QED
    BY <2>8, <2>10, <2>11 DEF BloquesConDuenio
<1> QED
  BY <1>10, <1>11, <1>12, <1>13 DEF IInv

\* A piece is written inside a block that the file has.
LEMMA EscribirTrozoBien ==
  ASSUME IInv, EscribirTrozo
  PROVE  IInv'
<1> DEFINE size == Len(pedido.datos)
           t == Trozo(pedido.offset, size, pedido.hecho)
           p1 == [pedido EXCEPT !.hecho = @ + t.size]
<1>1. Sirve /\ pedido.faltan = 0 /\ pedido.hecho < size
  BY DEF EscribirTrozo, Escribe
<1>2. /\ bloques' = ConTrozo(pedido.array[t.id + 1], t, pedido.datos, pedido.hecho)
      /\ pedido' = p1
      /\ UNCHANGED <<bitmap, archivos, codigo, vivo, reinicios, desacuerdo>>
  BY DEF EscribirTrozo, historia
<1>3. /\ pedido \in EnCurso /\ vivo /\ pedido.ruta \in DOMAIN archivos
      /\ size \in Nat /\ Len(pedido.array) \in Nat
  BY <1>1, PedidoTipos
<1>4. /\ pedido # Nada /\ pedido.offset \in Nat /\ pedido.hecho \in Nat
      /\ pedido.datos \in Seq(Bytes)
  BY <1>1, <1>3 DEF Sirve, EnCurso
<1>5. Parte(pedido.offset, size, pedido.hecho)
      /\ UltimoBloque(pedido.offset, size) < Len(pedido.array) + pedido.faltan
  BY <1>1, <1>4 DEF IInv, PedidoBien
<1>6. /\ t \in [id : Nat, offset : Desplazamientos, size : Nat \ {0}]
      /\ pedido.hecho + t.size <= size
      /\ Parte(pedido.offset, size, pedido.hecho + t.size) \/ pedido.hecho + t.size = size
  BY <1>1, <1>3, <1>4, <1>5, TrozoExacto
<1> HIDE DEF size, t
<1>7. t.size \in Nat /\ t.offset \in Nat
  BY <1>6, TamanioPositivo DEF Desplazamientos
<1>8. /\ p1.hecho = pedido.hecho + t.size /\ p1.array = pedido.array
      /\ p1.faltan = pedido.faltan /\ p1.ruta = pedido.ruta /\ p1.tamanio = pedido.tamanio
      /\ p1.datos = pedido.datos /\ p1.offset = pedido.offset
  BY <1>3 DEF EnCurso
<1>9. p1 \in EnCurso
  <2>1. pedido.hecho + t.size \in Nat
    BY <1>4, <1>7
  <2> QED
    BY <1>3, <2>1 DEF EnCurso
<1> HIDE DEF p1
<1>10. bloques' \in [Bloques -> [Desplazamientos -> Bytes]]
  <2> DEFINE dato(d) == pedido.datos[pedido.hecho + d - t.offset + 1]
  <2>1. \A d \in Desplazamientos : d \in t.offset .. t.offset + t.size - 1 => dato(d) \in Bytes
    <3>1. SUFFICES ASSUME NEW d \in t.offset .. t.offset + t.size - 1
                   PROVE  dato(d) \in Bytes
      OBVIOUS
    <3>2. pedido.hecho + t.size <= size /\ d \in Int /\ t.offset <= d /\ d <= t.offset + t.size - 1
      BY <1>6, <1>7, <3>1
    <3>3. pedido.hecho + d - t.offset + 1 \in 1 .. size
      BY SMTT(20), <1>3, <1>4, <1>7, <3>2
    <3> QED
      BY <1>4, <3>3 DEF size
  <2>2. bloques \in [Bloques -> [Desplazamientos -> Bytes]]
    BY DEF IInv, TypeOK
  <2> HIDE DEF dato
  <2>3. \A blk \in Bloques :
          [d \in Desplazamientos |-> IF d \in t.offset .. t.offset + t.size - 1
                                       THEN dato(d) ELSE bloques[blk][d]]
          \in [Desplazamientos -> Bytes]
    BY <2>1, <2>2
  <2> QED
    BY <1>2, <2>2, <2>3 DEF ConTrozo, dato
<1>11. TypeOK'
  BY <1>2, <1>9, <1>10 DEF IInv, TypeOK
<1>12. ArchivosBien'
  BY <1>2 DEF IInv, ArchivosBien
<1>13. PedidoBien'
  <2>1. p1.hecho <= Len(p1.datos)
    BY <1>6, <1>8 DEF size
  <2>2. p1.hecho < Len(p1.datos) => Parte(p1.offset, Len(p1.datos), p1.hecho)
    BY <1>6, <1>8, <1>3, <1>4, <1>7 DEF size
  <2> QED
    BY <1>2, <1>3, <1>4, <1>5, <1>8, <2>1, <2>2 DEF IInv, PedidoBien, Libres, size
<1>14. BloquesConDuenio'
  <2>1. pedido' # Nada
    BY <1>2, <1>9, PedidoAssumption
  <2>2. \A p \in DOMAIN archivos : Lista(p)' = Lista(p)
    BY <1>2, <1>4, <1>8, <2>1 DEF Lista
  <2> QED
    BY <1>2, <2>2 DEF IInv, BloquesConDuenio
<1> QED
  BY <1>11, <1>12, <1>13, <1>14 DEF IInv

\* The file that is saved has all its blocks.
LEMMA GuardarBien ==
  ASSUME IInv, Guardar
  PROVE  IInv'
<1>1. Sirve /\ pedido.faltan = 0
  BY DEF Guardar, Termina
<1> DEFINE nuevo == Completo(pedido.tamanio, pedido.array)
<1>2. /\ archivos' = [archivos EXCEPT ![pedido.ruta] = nuevo]
      /\ pedido' = Nada /\ codigo' = 1
      /\ UNCHANGED <<bitmap, bloques, vivo, reinicios, desacuerdo>>
  BY DEF Guardar, Responder, historia
<1>3. pedido \in EnCurso /\ vivo /\ pedido.ruta \in DOMAIN archivos /\ Len(pedido.array) \in Nat
  BY <1>1, PedidoTipos
<1>4. pedido # Nada /\ pedido.array \in Seq(Bloques) /\ pedido.tamanio \in Nat
  BY <1>1, <1>3 DEF Sirve, EnCurso
<1> PICK r : r = pedido.ruta
  OBVIOUS
<1>5. /\ nuevo.array = pedido.array /\ nuevo.tamanio = pedido.tamanio /\ nuevo.valido = TRUE
      /\ nuevo \in [valido : BOOLEAN, tamanio : Nat, array : Seq(Bloques)]
  BY <1>4 DEF Completo
<1> HIDE DEF nuevo
<1>6. /\ DOMAIN archivos' = DOMAIN archivos /\ archivos'[r] = nuevo
      /\ \A p \in DOMAIN archivos : p # r => archivos'[p] = archivos[p]
      /\ archivos' \in [DOMAIN archivos' -> [valido : BOOLEAN, tamanio : Nat, array : Seq(Bloques)]]
  BY <1>2, <1>3, <1>5 DEF IInv, TypeOK
<1>7. TypeOK'
  BY <1>2, <1>6 DEF IInv, TypeOK
<1>8. Len(nuevo.array) > 0 /\ nuevo.tamanio <= TAMANIO_BLOQUES * Len(nuevo.array)
  BY <1>1, <1>3, <1>4, <1>5 DEF IInv, PedidoBien
<1>9. ArchivosBien'
  <2>1. SUFFICES ASSUME NEW p \in DOMAIN archivos'
                 PROVE  /\ ~archivos'[p].valido => archivos'[p].array = <<>> /\ archivos'[p].tamanio = 0
                        /\ archivos'[p].valido => Len(archivos'[p].array) > 0
                        /\ archivos'[p].tamanio <= TAMANIO_BLOQUES * Len(archivos'[p].array)
    BY DEF ArchivosBien
  <2>2. CASE p = r
    BY <1>5, <1>6, <1>8, <2>2
  <2>3. CASE p # r
    BY <1>6, <2>3 DEF IInv, ArchivosBien
  <2> QED
    BY <2>2, <2>3
<1>10. PedidoBien'
  BY <1>2 DEF PedidoBien
<1>11. BloquesConDuenio'
  <2>1. \A p \in DOMAIN archivos : Lista(p)' = Lista(p)
    BY <1>2, <1>4, <1>5, <1>6 DEF Lista
  <2> QED
    BY <1>2, <1>6, <2>1 DEF IInv, BloquesConDuenio
<1> QED
  BY <1>7, <1>9, <1>10, <1>11 DEF IInv

\* What the server leaves behind when it stops.
LEMMA CaidaBien ==
  ASSUME IInv, Caida
  PROVE  IInv'
<1>1. vivo' = FALSE /\ pedido' = Nada /\ UNCHANGED <<disco, codigo, reinicios, desacuerdo>>
  BY DEF Caida, historia
<1>2. TypeOK'
  <2>1. vivo' \in BOOLEAN
    BY <1>1
  <2> QED
    BY <1>1, <2>1 DEF IInv, TypeOK, disco
<1>3. ArchivosBien' /\ PedidoBien'
  BY <1>1 DEF IInv, ArchivosBien, PedidoBien, disco
<1>4. BloquesConDuenio'
  BY <1>1 DEF BloquesConDuenio
<1> QED
  BY <1>2, <1>3, <1>4 DEF IInv

\* A restart that finds no complete file finds a bitmap that agrees with the disk.
LEMMA ReiniciarBien ==
  ASSUME IInv, Reiniciar
  PROVE  IInv'
<1>1. /\ vivo' = TRUE /\ ~vivo /\ reinicios' = reinicios + 1 /\ bitmap' = {}
      /\ UNCHANGED <<archivos, bloques, pedido, codigo>>
  BY DEF Reiniciar
<1>2. desacuerdo' = (desacuerdo \/ \E r \in DOMAIN archivos : archivos[r].valido)
  BY DEF Reiniciar
<1>3. pedido = Nada
  BY <1>1 DEF IInv, PedidoBien
<1>4. TypeOK'
  <2>1. reinicios' \in Nat
    BY <1>1 DEF IInv, TypeOK
  <2>2. vivo' \in BOOLEAN
    BY <1>1
  <2>3. desacuerdo' \in BOOLEAN
    <3>1. desacuerdo \in BOOLEAN
      BY DEF IInv, TypeOK
    <3> QED
      BY <1>2, <3>1
  <2>4. bitmap' \subseteq Bloques
    BY <1>1
  <2> QED
    BY <1>1, <2>1, <2>2, <2>3, <2>4 DEF IInv, TypeOK
<1>5. ArchivosBien' /\ PedidoBien'
  BY <1>1, <1>3 DEF IInv, ArchivosBien, PedidoBien
<1>6. BloquesConDuenio'
  <2>1. SUFFICES ASSUME ~desacuerdo' PROVE BloquesConDuenio'
    BY DEF BloquesConDuenio
  <2>2. \A r \in DOMAIN archivos : ~archivos[r].valido
    BY <1>2, <2>1
  <2>3. \A r \in DOMAIN archivos : Lista(r)' = <<>>
    BY <1>1, <1>3, <2>2 DEF IInv, ArchivosBien, Lista
  <2>4. Range(<<>>) = {} /\ IsInjective(<<>>)
    BY DEF Range, IsInjective
  <2> QED
    BY <1>1, <2>3, <2>4 DEF BloquesConDuenio
<1> QED
  BY <1>4, <1>5, <1>6 DEF IInv

\* Every step keeps the invariant.
LEMMA PasoBien ==
  ASSUME IInv, [Next]_vars
  PROVE  IInv'
<1>1. CASE UNCHANGED vars
  BY <1>1, Quieto DEF vars, historia, disco, IInv, TypeOK
<1>2. CASE Pedido
  BY <1>2, ValidarBien, CrearBien, BorrarBien, LeerBien, EscribirBien DEF Pedido
<1>3. CASE AgregarBloque \/ EscribirTrozo \/ Guardar \/ Caida \/ Reiniciar
  BY <1>3, AgregarBien, EscribirTrozoBien, GuardarBien, CaidaBien, ReiniciarBien
<1> QED
  BY <1>1, <1>2, <1>3 DEF Next

-----------------------------------------------------------------------------
(* The theorems *)

\* The invariant holds of every behaviour of the file server.
LEMMA SiempreBien == Spec => []IInv
<1>1. IInv /\ [Next]_vars => IInv'
  BY PasoBien
<1> QED
  BY InicioBien, <1>1, PTL DEF Spec

\* The disk and the request being served keep their types (create_archivo,
\* guardar_datos, delete_archivo, and restarts).
THEOREM TiposDelDisco == Spec => []TypeOK
<1>1. IInv => TypeOK
  BY DEF IInv
<1> QED
  BY SiempreBien, <1>1, PTL

\* While no restart has found files, no block is shared and no block is lost, for any
\* number of files, blocks and requests (primer_bloque_libre, agregarBloque,
\* cleanBloques, fs.h:217-447).
THEOREM CadaBloqueConSuDuenio == Spec => []BloquesConDuenio
<1>1. IInv => BloquesConDuenio
  BY DEF IInv
<1> QED
  BY SiempreBien, <1>1, PTL

\* Wherever the server stops, no file on disk is longer than its blocks (guardar_datos,
\* fs.h:553-607).
THEOREM TamanioSiempreCubierto == Spec => []TamanioCubierto
<1>1. IInv => TamanioCubierto
  BY DEF IInv, ArchivosBien, TamanioCubierto
<1> QED
  BY SiempreBien, <1>1, PTL

\* A refused request leaves the disk alone (guardar_datos and obtener_datos,
\* fs.h:500-607).
THEOREM RechazarNoToca == Spec => RechazoSinEfecto
<1>1. ASSUME [Next]_vars, codigo' # codigo, codigo' < 0
      PROVE  pedido = Nada /\ UNCHANGED disco
  <2>1. ASSUME NEW r \in Rutas, NEW o \in Offsets, NEW s \in Tamanios, Leer(r, o, s)
        PROVE  pedido = Nada /\ UNCHANGED disco
    BY <2>1 DEF Leer, Atiende
  <2>2. ASSUME NEW r \in Rutas, NEW o \in Offsets, NEW b \in Buferes, Escribir(r, o, b)
        PROVE  pedido = Nada /\ UNCHANGED disco
    BY <2>2 DEF Escribir, Atiende, RechazarEscritura
  <2>3. ASSUME NEW r \in Rutas, Validar(r) \/ Borrar(r) \/ Crear(r)
        PROVE  FALSE
    BY <1>1, <2>3 DEF Validar, Borrar, Crear, Responder
  <2>4. CASE AgregarBloque \/ EscribirTrozo \/ Guardar \/ Caida \/ Reiniciar \/ UNCHANGED vars
    BY <1>1, <2>4 DEF AgregarBloque, EscribirTrozo, Guardar, Responder, Caida, Reiniciar, vars
  <2> QED
    BY <1>1, <2>1, <2>2, <2>3, <2>4 DEF Next, Pedido
<1>2. [Next]_vars => [codigo' # codigo /\ codigo' < 0 => pedido = Nada /\ UNCHANGED disco]_vars
  BY <1>1
<1> QED
  BY <1>2, PTL DEF Spec, RechazoSinEfecto

\* A read that is answered never looks for a block the file does not have, whatever the
\* restarts: its pieces index the list of blocks within bounds (obtener_datos,
\* fs.h:500-541).
THEOREM LecturaDentro ==
  ASSUME IInv, NEW r \in Rutas, NEW o \in Int, NEW s \in Int,
         CodigoDeLectura(r, o, s) = 1,
         NEW hecho \in Nat, hecho < s, Parte(o, s, hecho)
  PROVE  Trozo(o, s, hecho).id + 1 \in 1 .. Len(archivos[r].array)
<1>1. validar_archivo(r)
  BY DEF CodigoDeLectura
<1>2. s >= 1
  BY <1>1 DEF CodigoDeLectura
<1>3. o >= 0
  BY <1>1, <1>2 DEF CodigoDeLectura
<1>4. ~(archivos[r].tamanio - s - o < 0)
  BY <1>1, <1>2, <1>3 DEF CodigoDeLectura
<1> DEFINE n == Len(archivos[r].array)
           u == UltimoBloque(o, s)
           t == Trozo(o, s, hecho)
           T == TAMANIO_BLOQUES
<1>5. n \in Nat /\ archivos[r].tamanio \in Nat /\ archivos[r].tamanio <= T * n
  BY <1>1 DEF validar_archivo, exist, IInv, TypeOK, ArchivosBien
<1>6. t.id \in Nat /\ t.id <= u
  BY <1>2, <1>3, TrozoExacto
<1>7. u \in Nat /\ u * T <= o + s - 1
  <2>1. o + s - 1 \in Nat
    BY <1>2, <1>3
  <2> QED
    BY <2>1, Division, TamanioPositivo DEF UltimoBloque
<1>8. T \in Nat \ {0}
  BY TamanioPositivo
<1> HIDE DEF n, u, t, T
<1>9. u < n
  <2>1. SUFFICES ASSUME n <= u PROVE FALSE
    BY <1>5, <1>7
  <2>2. n * T <= u * T /\ n * T = T * n /\ T * n \in Int /\ u * T \in Int
    BY <1>5, <1>7, <1>8, <2>1
  <2> QED
    BY <1>4, <1>5, <1>7, <2>2
<1>10. t.id + 1 \in 1 .. n
  BY <1>5, <1>6, <1>7, <1>9
<1> QED
  BY <1>10 DEF n, t

-----------------------------------------------------------------------------
(* What is read is what was written *)

\* Where byte p of a file is: the block of its list, and the place in that block.
Bloque(p) == p \div TAMANIO_BLOQUES
Dentro(p) == p - (p \div TAMANIO_BLOQUES) * TAMANIO_BLOQUES

\* The bytes of the request being served that are still to be written.
Pendiente(r, p) ==
  /\ pedido # Nada /\ pedido.ruta = r
  /\ p \in pedido.offset + pedido.hecho .. pedido.offset + Len(pedido.datos) - 1

\* A byte that was written is in its place, or is about to be put there.
EnSuLugar(r, p) ==
  IF Pendiente(r, p)
    THEN escrito[r][p] = pedido.datos[p - pedido.offset + 1]
    ELSE /\ Bloque(p) + 1 \in 1 .. Len(Lista(r))
         /\ bloques[Lista(r)[Bloque(p) + 1]][Dentro(p)] = escrito[r][p]

EscritoTipos == DOMAIN escrito = Rutas /\ \A r \in Rutas : DOMAIN escrito[r] \subseteq Nat

\* Only a complete file has bytes written.
EscritoEnValidos ==
  ~desacuerdo => \A r \in Rutas : DOMAIN escrito[r] # {} => r \in DOMAIN archivos /\ archivos[r].valido

EscritoEnSuLugar ==
  ~desacuerdo /\ vivo => \A r \in Rutas : \A p \in DOMAIN escrito[r] : EnSuLugar(r, p)

EscritoBien == EscritoTipos /\ EscritoEnValidos /\ EscritoEnSuLugar

LEMMA DondeEsta ==
  ASSUME NEW p \in Nat
  PROVE  /\ Bloque(p) \in Nat /\ Dentro(p) \in Desplazamientos
         /\ Bloque(p) * TAMANIO_BLOQUES \in Nat
         /\ Bloque(p) * TAMANIO_BLOQUES + Dentro(p) = p
<1> DEFINE T == TAMANIO_BLOQUES
           q == p \div T
<1>1. T \in Nat \ {0}
  BY TamanioPositivo
<1>2. q \in Nat /\ q * T <= p /\ p < q * T + T
  BY <1>1, Division
<1> HIDE DEF q
<1>3. q * T \in Nat
  BY <1>1, <1>2
<1>4. p - q * T \in 0 .. T - 1
  BY <1>1, <1>2, <1>3
<1> QED
  BY <1>2, <1>3, <1>4 DEF Bloque, Dentro, Desplazamientos, q

\* The bytes of a piece are those of its request, one after the other, in one block.
LEMMA BytesDelTrozo ==
  ASSUME NEW offset \in Nat, NEW size \in Nat, NEW hecho \in Nat, hecho < size,
         Parte(offset, size, hecho), NEW p \in Nat,
         NEW t, t = Trozo(offset, size, hecho)
  PROVE  /\ p \in offset + hecho .. offset + hecho + t.size - 1
              <=> Bloque(p) = t.id /\ Dentro(p) \in t.offset .. t.offset + t.size - 1
         /\ Bloque(p) = t.id => Dentro(p) - t.offset = p - offset - hecho
<1> DEFINE T == TAMANIO_BLOQUES
           b == Bloque(p)
           d == Dentro(p)
           i == t.id
           o == t.offset
           n == t.size
<1>1. T \in Nat \ {0}
  BY TamanioPositivo
<1>2. /\ i \in Nat /\ o \in 0 .. T - 1 /\ n \in Nat \ {0}
      /\ i * T + o = offset + hecho /\ o + n <= T
  BY TrozoExacto DEF Desplazamientos
<1>3. b \in Nat /\ d \in 0 .. T - 1 /\ b * T \in Nat /\ b * T + d = p
  BY DondeEsta DEF Desplazamientos
<1>4. i * T \in Nat
  BY <1>1, <1>2
<1>5. ASSUME p \in offset + hecho .. offset + hecho + n - 1
      PROVE  b = i
  <2>1. p >= i * T + o /\ p <= i * T + o + n - 1
    BY <1>2, <1>4, <1>5
  <2>2. i * T <= p /\ p < i * T + T
    BY <1>1, <1>2, <1>4, <2>1
  <2>3. i = p \div T
    BY <1>1, <1>2, <2>2, DivisionUnica
  <2> QED
    BY <2>3 DEF Bloque
<1> HIDE DEF b, d, i, o, n, T
<1>6. ASSUME b = i
      PROVE  d - o = p - offset - hecho
  BY <1>1, <1>2, <1>3, <1>4, <1>6
<1>7. ASSUME b = i
      PROVE  p \in offset + hecho .. offset + hecho + n - 1 <=> d \in o .. o + n - 1
  <2>1. p = d + (offset + hecho - o) /\ d \in Int /\ o \in Int /\ n \in Int
    BY <1>1, <1>2, <1>3, <1>6, <1>7
  <2>2. ASSUME NEW c \in Int, c = offset + hecho - o
        PROVE  d + c \in o + c .. o + c + n - 1 <=> d \in o .. o + n - 1
    BY <2>1
  <2>3. offset + hecho - o \in Int /\ o + (offset + hecho - o) = offset + hecho
    BY <2>1
  <2> QED
    BY <2>1, <2>2, <2>3
<1> QED
  BY <1>5, <1>6, <1>7 DEF b, d, i, o, n

\* At first nothing has been written.
LEMMA EscritoInicio == Init => EscritoBien
<1> SUFFICES ASSUME Init PROVE EscritoBien
  OBVIOUS
<1>1. escrito = [r \in Rutas |-> <<>>]
  BY DEF Init
<1>2. DOMAIN escrito = Rutas /\ \A r \in Rutas : DOMAIN escrito[r] = {}
  BY <1>1
<1> QED
  BY <1>2 DEF EscritoBien, EscritoTipos, EscritoEnValidos, EscritoEnSuLugar

\* A step that leaves the files, the bytes and the request alone.
LEMMA EscritoQuieto ==
  ASSUME EscritoBien, archivos' = archivos, bloques' = bloques, pedido' = pedido,
         vivo' = vivo, escrito' = escrito, desacuerdo' = desacuerdo
  PROVE  EscritoBien'
BY DEF EscritoBien, EscritoTipos, EscritoEnValidos, EscritoEnSuLugar, EnSuLugar, Pendiente, Lista

\* A file that goes takes what was written with it.
LEMMA EscritoBorra ==
  ASSUME IInv, EscritoBien, Atiende, NEW r \in Rutas, delete_archivo(r),
         pedido' = Nada, bloques' = bloques, vivo' = vivo, desacuerdo' = desacuerdo
  PROVE  EscritoBien'
<1>1. /\ DOMAIN archivos' = DOMAIN archivos \ {r}
      /\ \A q \in DOMAIN archivos' : archivos'[q] = archivos[q]
  BY DEF delete_archivo, SinArchivo
<1>2. /\ DOMAIN escrito' = Rutas /\ DOMAIN escrito'[r] = {}
      /\ \A q \in Rutas : q # r => escrito'[q] = escrito[q]
  BY DEF delete_archivo, EscritoBien, EscritoTipos
<1>3. pedido = Nada
  BY DEF Atiende
<1>4. EscritoTipos'
  BY <1>2 DEF EscritoBien, EscritoTipos
<1>5. EscritoEnValidos'
  BY <1>1, <1>2 DEF EscritoBien, EscritoEnValidos
<1>6. EscritoEnSuLugar'
  <2>1. SUFFICES ASSUME ~desacuerdo, vivo, NEW q \in Rutas, NEW p \in DOMAIN escrito'[q]
                 PROVE  EnSuLugar(q, p)'
    BY DEF EscritoEnSuLugar
  <2>2. q # r /\ escrito'[q] = escrito[q] /\ p \in DOMAIN escrito[q]
    BY <1>2, <2>1
  <2>3. q \in DOMAIN archivos
    BY <2>1, <2>2 DEF EscritoBien, EscritoEnValidos
  <2>4. EnSuLugar(q, p)
    BY <2>1, <2>2 DEF EscritoBien, EscritoEnSuLugar
  <2>5. archivos'[q] = archivos[q]
    BY <1>1, <2>2, <2>3
  <2> QED
    BY <1>3, <2>2, <2>4, <2>5 DEF EnSuLugar, Pendiente, Lista
<1> QED
  BY <1>4, <1>5, <1>6 DEF EscritoBien

\* VALIDAR_MSG, DEL_MSG and READ_MSG.
LEMMA EscritoValidar ==
  ASSUME IInv, EscritoBien, NEW r \in Rutas, Validar(r)
  PROVE  EscritoBien'
<1>1. pedido' = Nada /\ Atiende /\ bloques' = bloques /\ vivo' = vivo /\ desacuerdo' = desacuerdo
  BY DEF Validar, Responder
<1>2. CASE validar_archivo(r)
  BY <1>1, <1>2, EscritoQuieto DEF Validar, Atiende
<1>3. CASE ~validar_archivo(r)
  BY <1>1, <1>3, EscritoBorra DEF Validar
<1> QED
  BY <1>2, <1>3

LEMMA EscritoBorrar ==
  ASSUME IInv, EscritoBien, NEW r \in Rutas, Borrar(r)
  PROVE  EscritoBien'
<1>1. pedido' = Nada /\ Atiende /\ bloques' = bloques /\ vivo' = vivo /\ desacuerdo' = desacuerdo
  BY DEF Borrar, Responder
<1>2. CASE ~exist(r)
  BY <1>1, <1>2, EscritoQuieto DEF Borrar, Atiende
<1>3. CASE exist(r)
  BY <1>1, <1>3, EscritoBorra DEF Borrar
<1> QED
  BY <1>2, <1>3

LEMMA EscritoLeer ==
  ASSUME EscritoBien, NEW r \in Rutas, NEW o, NEW s, Leer(r, o, s)
  PROVE  EscritoBien'
BY EscritoQuieto DEF Leer, Responder, Atiende, disco, historia

\* A new file has nothing written.
LEMMA EscritoCrear ==
  ASSUME IInv, EscritoBien, NEW r \in Rutas, Crear(r)
  PROVE  EscritoBien'
<1>1. CASE exist(r) \/ Libres(bitmap) = {}
  BY <1>1, EscritoQuieto DEF Crear, Responder, Atiende, historia
<1>2. CASE ~(exist(r) \/ Libres(bitmap) = {})
  <2>1. /\ DOMAIN archivos' = DOMAIN archivos \cup {r} /\ r \notin DOMAIN archivos
        /\ \A q \in DOMAIN archivos : archivos'[q] = archivos[q]
    BY <1>2 DEF Crear, exist
  <2>2. /\ bloques' = bloques /\ vivo' = vivo /\ escrito' = escrito /\ desacuerdo' = desacuerdo
        /\ pedido = Nada
    BY DEF Crear, Atiende, historia
  <2>3. pedido'.ruta = r
    BY <1>2 DEF Crear
  <2>4. EscritoTipos'
    BY <2>2 DEF EscritoBien, EscritoTipos
  <2>5. EscritoEnValidos'
    BY <2>1, <2>2 DEF EscritoBien, EscritoEnValidos
  <2>6. EscritoEnSuLugar'
    <3>1. SUFFICES ASSUME ~desacuerdo, vivo, NEW q \in Rutas, NEW p \in DOMAIN escrito[q]
                   PROVE  EnSuLugar(q, p)'
      BY <2>2 DEF EscritoEnSuLugar
    <3>2. q \in DOMAIN archivos /\ q # r
      BY <2>1, <3>1 DEF EscritoBien, EscritoEnValidos
    <3>3. EnSuLugar(q, p)
      BY <3>1 DEF EscritoBien, EscritoEnSuLugar
    <3>4. archivos'[q] = archivos[q]
      BY <2>1, <3>2
    <3> QED
      BY <2>2, <2>3, <3>2, <3>3, <3>4 DEF EnSuLugar, Pendiente, Lista
  <2> QED
    BY <2>4, <2>5, <2>6 DEF EscritoBien
<1> QED
  BY <1>1, <1>2

\* What a write is about to put is all its own.
LEMMA EscritoEscribir ==
  ASSUME IInv, EscritoBien, NEW r \in Rutas, NEW o \in Offsets, NEW b \in Buferes, Escribir(r, o, b)
  PROVE  EscritoBien'
<1> DEFINE c == CodigoDeEscritura(r, o, Len(b))
           z == o + Len(b) - 1
<1>1. c \in {1, -14, -15, -16, -20}
  BY CodigosEnteros
<1>2. CASE c < 0
  <2>1. RechazarEscritura(c) /\ escrito' = escrito /\ vivo' = vivo /\ desacuerdo' = desacuerdo
        /\ pedido = Nada
    <3>1. ~(c > 0)
      BY <1>1, <1>2
    <3> QED
      BY <3>1 DEF Escribir, Atiende
  <2>2. archivos' = archivos /\ bloques' = bloques /\ pedido' = pedido
    BY <2>1 DEF RechazarEscritura, Responder, disco
  <2> QED
    BY <2>1, <2>2, EscritoQuieto
<1>3. CASE c = 1
  <2>1. /\ archivos' = archivos /\ bloques' = bloques /\ vivo' = vivo /\ desacuerdo' = desacuerdo
        /\ pedido = Nada
        /\ pedido'.ruta = r /\ pedido'.array = archivos[r].array
        /\ pedido'.offset = o /\ pedido'.hecho = 0 /\ pedido'.datos = b
    BY <1>3 DEF Escribir, Atiende, disco
  <2>2. escrito' = IF desacuerdo THEN escrito ELSE [escrito EXCEPT ![r] =
                     [p \in DOMAIN @ \cup o .. z |-> IF p \in o .. z THEN b[p - o + 1] ELSE @[p]]]
    BY <1>3 DEF Escribir
  <2>3. validar_archivo(r) /\ ~(o < 0)
    <3>1. validar_archivo(r)
      BY <1>3 DEF CodigoDeEscritura
    <3>2. ~(Len(b) < 1)
      BY <1>3, <3>1 DEF CodigoDeEscritura
    <3> QED
      BY <1>3, <3>1, <3>2 DEF CodigoDeEscritura
  <2>4. o \in Nat /\ Len(b) \in Nat
    BY <2>3, DiscoAssumption, PedidoAssumption
  <2>5. /\ DOMAIN escrito' = Rutas
        /\ \A q \in Rutas : q # r => escrito'[q] = escrito[q]
    BY <2>2 DEF EscritoBien, EscritoTipos
  <2> HIDE DEF z
  <2>6. ~desacuerdo =>
          /\ DOMAIN escrito'[r] = DOMAIN escrito[r] \cup o .. z
          /\ \A p \in DOMAIN escrito'[r] :
               escrito'[r][p] = IF p \in o .. z THEN b[p - o + 1] ELSE escrito[r][p]
    BY <2>2 DEF EscritoBien, EscritoTipos
  <2>7. EscritoTipos'
    <3>1. o .. z \subseteq Nat
      BY <2>4 DEF z
    <3>2. DOMAIN escrito'[r] \subseteq Nat
      <4>1. CASE desacuerdo
        BY <2>2, <4>1 DEF EscritoBien, EscritoTipos
      <4>2. CASE ~desacuerdo
        BY <2>6, <3>1, <4>2 DEF EscritoBien, EscritoTipos
      <4> QED
        BY <4>1, <4>2
    <3> QED
      BY <2>5, <3>2 DEF EscritoBien, EscritoTipos
  <2>8. EscritoEnValidos'
    BY <2>1, <2>3, <2>5 DEF EscritoBien, EscritoEnValidos, validar_archivo, exist
  <2>9. EscritoEnSuLugar'
    <3>1. SUFFICES ASSUME ~desacuerdo, vivo, NEW q \in Rutas, NEW p \in DOMAIN escrito'[q]
                   PROVE  EnSuLugar(q, p)'
      BY <2>1 DEF EscritoEnSuLugar
    <3>2. pedido' # Nada
      <4> DEFINE f == BloquesNecesarios(archivos[r].array, o, Len(b))
                 m == Maximo(archivos[r].tamanio, o + Len(b))
      <4>1. pedido' = [ruta |-> r, tamanio |-> m, faltan |-> Maximo(0, f),
                       array |-> archivos[r].array, offset |-> o, hecho |-> 0, datos |-> b]
        BY <1>3 DEF Escribir
      <4>2. /\ archivos[r].array \in Seq(Bloques) /\ archivos[r].tamanio \in Nat
            /\ Len(archivos[r].array) \in Nat
        BY <2>3 DEF validar_archivo, exist, IInv, TypeOK
      <4>3. m \in Nat
        BY <2>4, <4>2 DEF Maximo
      <4>4. UltimoBloque(o, Len(b)) \in Int
        BY <2>4, TamanioPositivo DEF UltimoBloque
      <4>5. f \in Int
        <5> PICK u, l : u = UltimoBloque(o, Len(b)) /\ l = Len(archivos[r].array)
          OBVIOUS
        <5>1. u \in Int /\ l \in Int
          BY <4>2, <4>4
        <5>2. \A x, y \in Int : x + 1 - y \in Int
          OBVIOUS
        <5>3. u + 1 - l \in Int
          BY <5>1, <5>2, Zenon
        <5> QED
          BY <5>3 DEF BloquesNecesarios
      <4> HIDE DEF f, m
      <4>6. Maximo(0, f) \in Nat
        BY <4>5 DEF Maximo
      <4>7. pedido' \in EnCurso
        BY <2>4, <4>1, <4>2, <4>3, <4>6, PedidoAssumption DEF EnCurso
      <4> QED
        BY <4>7, PedidoAssumption
    <3>3. CASE q = r /\ p \in o .. z
      <4>1. escrito'[r][p] = b[p - o + 1]
        BY <2>6, <3>1, <3>3
      <4>2. Pendiente(r, p)'
        BY <2>1, <2>4, <3>2, <3>3 DEF Pendiente, z
      <4> QED
        BY <2>1, <3>3, <4>1, <4>2 DEF EnSuLugar
    <3>4. CASE ~(q = r /\ p \in o .. z)
      <4>1. p \in DOMAIN escrito[q] /\ escrito'[q][p] = escrito[q][p]
        BY <2>5, <2>6, <3>1, <3>4
      <4>2. EnSuLugar(q, p)
        BY <3>1, <4>1 DEF EscritoBien, EscritoEnSuLugar
      <4>3. ~Pendiente(q, p)' /\ ~Pendiente(q, p)
        BY <2>1, <2>4, <3>4 DEF Pendiente, z
      <4>4. Lista(q)' = Lista(q)
        BY <2>1, <3>2 DEF Lista
      <4> QED
        BY <2>1, <4>1, <4>2, <4>3, <4>4 DEF EnSuLugar
    <3> QED
      BY <3>3, <3>4
  <2> QED
    BY <2>7, <2>8, <2>9 DEF EscritoBien
<1> QED
  BY <1>1, <1>2, <1>3

\* A new block goes behind those a file has.
LEMMA EscritoAgregar ==
  ASSUME IInv, EscritoBien, AgregarBloque
  PROVE  EscritoBien'
<1> DEFINE b == primer_bloque_libre(bitmap)
<1>1. Sirve
  BY DEF AgregarBloque
<1>2. pedido \in EnCurso /\ pedido # Nada /\ pedido.array \in Seq(Bloques)
  BY <1>1, PedidoTipos DEF Sirve, EnCurso
<1>3. /\ pedido' = [pedido EXCEPT !.array = Append(@, b), !.faltan = @ - 1]
      /\ archivos' = archivos /\ bloques' = bloques /\ vivo' = vivo
      /\ escrito' = escrito /\ desacuerdo' = desacuerdo
  BY DEF AgregarBloque, historia
<1> HIDE DEF b
<1>4. /\ pedido'.array = Append(pedido.array, b) /\ pedido'.ruta = pedido.ruta
      /\ pedido'.offset = pedido.offset /\ pedido'.hecho = pedido.hecho /\ pedido'.datos = pedido.datos
  BY <1>2, <1>3 DEF EnCurso
<1>5. pedido' # Nada
  <2>1. b \in Bloques
    <3>1. pedido.faltan <= Cardinality(Libres(bitmap)) /\ pedido.faltan > 0 /\ pedido.faltan \in Nat
      BY <1>1, <1>2 DEF AgregarBloque, IInv, PedidoBien, EnCurso
    <3>2. Libres(bitmap) # {}
      BY <3>1, UnLibreMenos
    <3> QED
      BY <3>2, PrimerBloqueLibre DEF Libres, b
  <2>2. Append(pedido.array, b) \in Seq(Bloques) /\ pedido.faltan - 1 \in Nat
    BY <1>1, <1>2, <2>1 DEF AgregarBloque, EnCurso
  <2>3. pedido' \in EnCurso
    BY <1>2, <1>3, <2>2 DEF EnCurso
  <2> QED
    BY <2>3, PedidoAssumption
<1>6. \A q : \A k \in 1 .. Len(Lista(q)) :
        k \in 1 .. Len(Lista(q)') /\ Lista(q)'[k] = Lista(q)[k]
  <2>1. /\ Len(Append(pedido.array, b)) = Len(pedido.array) + 1 /\ Len(pedido.array) \in Nat
        /\ \A k \in 1 .. Len(pedido.array) : Append(pedido.array, b)[k] = pedido.array[k]
    BY <1>2
  <2> SUFFICES ASSUME NEW q, NEW k \in 1 .. Len(Lista(q))
               PROVE  k \in 1 .. Len(Lista(q)') /\ Lista(q)'[k] = Lista(q)[k]
    OBVIOUS
  <2>2. CASE q = pedido.ruta
    <3>1. Lista(q) = pedido.array /\ Lista(q)' = Append(pedido.array, b)
      BY <1>2, <1>4, <1>5, <2>2 DEF Lista
    <3> QED
      BY <2>1, <3>1
  <2>3. CASE q # pedido.ruta
    <3>1. Lista(q)' = Lista(q)
      BY <1>2, <1>3, <1>4, <1>5, <2>3 DEF Lista
    <3> QED
      BY <3>1
  <2> QED
    BY <2>2, <2>3
<1>7. EscritoEnSuLugar'
  <2>1. SUFFICES ASSUME ~desacuerdo, vivo, NEW q \in Rutas, NEW p \in DOMAIN escrito[q]
                 PROVE  EnSuLugar(q, p)'
    BY <1>3 DEF EscritoEnSuLugar
  <2>2. EnSuLugar(q, p)
    BY <2>1 DEF EscritoBien, EscritoEnSuLugar
  <2>3. Pendiente(q, p)' <=> Pendiente(q, p)
    BY <1>2, <1>4, <1>5 DEF Pendiente
  <2>4. CASE Pendiente(q, p)
    BY <1>3, <1>4, <2>2, <2>3, <2>4 DEF EnSuLugar
  <2>5. CASE ~Pendiente(q, p)
    <3>1. Bloque(p) + 1 \in 1 .. Len(Lista(q)) /\ bloques[Lista(q)[Bloque(p) + 1]][Dentro(p)] = escrito[q][p]
      BY <2>2, <2>5 DEF EnSuLugar
    <3>2. Bloque(p) + 1 \in 1 .. Len(Lista(q)') /\ Lista(q)'[Bloque(p) + 1] = Lista(q)[Bloque(p) + 1]
      BY <1>6, <3>1
    <3> QED
      BY <1>3, <2>3, <2>5, <3>1, <3>2 DEF EnSuLugar
  <2> QED
    BY <2>4, <2>5
<1>8. EscritoTipos' /\ EscritoEnValidos'
  BY <1>3 DEF EscritoBien, EscritoTipos, EscritoEnValidos
<1> QED
  BY <1>7, <1>8 DEF EscritoBien

\* What is left of a request after a piece of n bytes.
LEMMA Tramos ==
  ASSUME NEW o \in Nat, NEW c \in Nat, NEW n \in Nat, NEW s \in Nat, c + n <= s, n > 0, NEW p \in Nat
  PROVE  /\ p \in o + (c + n) .. o + s - 1
              <=> p \in o + c .. o + s - 1 /\ ~(p \in o + c .. o + c + n - 1)
         /\ p \in o + c .. o + c + n - 1 => p \in o + c .. o + s - 1
OBVIOUS

\* A piece puts its bytes where they belong, and touches no other byte of any file.
LEMMA EscritoTrozo ==
  ASSUME IInv, EscritoBien, EscribirTrozo
  PROVE  EscritoBien'
<1> DEFINE size == Len(pedido.datos)
           w == pedido.ruta
<1> PICK t : t = Trozo(pedido.offset, size, pedido.hecho)
  OBVIOUS
<1>1. Sirve /\ pedido.faltan = 0 /\ pedido.hecho < size
  BY DEF EscribirTrozo, Escribe
<1>2. /\ bloques' = ConTrozo(pedido.array[t.id + 1], t, pedido.datos, pedido.hecho)
      /\ pedido' = [pedido EXCEPT !.hecho = @ + t.size]
      /\ archivos' = archivos /\ vivo' = vivo /\ escrito' = escrito /\ desacuerdo' = desacuerdo
  BY DEF EscribirTrozo, historia
<1>3. /\ pedido \in EnCurso /\ vivo /\ w \in DOMAIN archivos
      /\ size \in Nat /\ Len(pedido.array) \in Nat
  BY <1>1, PedidoTipos
<1>4. /\ pedido # Nada /\ pedido.offset \in Nat /\ pedido.hecho \in Nat
      /\ pedido.array \in Seq(Bloques)
  BY <1>1, <1>3 DEF Sirve, EnCurso
<1>5. Parte(pedido.offset, size, pedido.hecho)
      /\ UltimoBloque(pedido.offset, size) < Len(pedido.array) + pedido.faltan
  BY <1>1, <1>4 DEF IInv, PedidoBien
<1> HIDE DEF size
<1>6. /\ t.id \in Nat /\ t.offset \in Nat /\ t.size \in Nat \ {0} /\ t.id <= UltimoBloque(pedido.offset, size)
      /\ pedido.hecho + t.size <= size
  BY <1>1, <1>3, <1>4, <1>5, TrozoExacto, TamanioPositivo DEF Desplazamientos
<1>7. t.id + 1 \in 1 .. Len(pedido.array)
  <2> PICK u, i, l : u = UltimoBloque(pedido.offset, size) /\ i = t.id /\ l = Len(pedido.array)
    OBVIOUS
  <2>1. u \in Int
    BY <1>3, <1>4, TamanioPositivo DEF UltimoBloque
  <2>2. u < l + 0 /\ i <= u
    BY <1>1, <1>5, <1>6
  <2>3. i \in Nat /\ l \in Nat
    BY <1>3, <1>6
  <2>4. i + 1 \in 1 .. l
    BY <2>1, <2>2, <2>3
  <2> QED
    BY <2>4
<1> DEFINE propio(p) == p \in pedido.offset + pedido.hecho .. pedido.offset + pedido.hecho + t.size - 1
<1>8. \A p \in Nat :
        /\ propio(p) <=> Bloque(p) = t.id /\ Dentro(p) \in t.offset .. t.offset + t.size - 1
        /\ Bloque(p) = t.id => Dentro(p) - t.offset = p - pedido.offset - pedido.hecho
        /\ Bloque(p) \in Nat /\ Dentro(p) \in Desplazamientos
  <2> SUFFICES ASSUME NEW p \in Nat
               PROVE  /\ propio(p) <=> Bloque(p) = t.id /\ Dentro(p) \in t.offset .. t.offset + t.size - 1
                      /\ Bloque(p) = t.id => Dentro(p) - t.offset = p - pedido.offset - pedido.hecho
                      /\ Bloque(p) \in Nat /\ Dentro(p) \in Desplazamientos
    OBVIOUS
  <2>1. Bloque(p) \in Nat /\ Dentro(p) \in Desplazamientos
    BY DondeEsta
  <2> PICK o, c : o = pedido.offset /\ c = pedido.hecho
    OBVIOUS
  <2>2. o \in Nat /\ c \in Nat /\ c < size /\ Parte(o, size, c) /\ t = Trozo(o, size, c)
    BY <1>1, <1>4, <1>5
  <2>3. /\ p \in o + c .. o + c + t.size - 1
             <=> Bloque(p) = t.id /\ Dentro(p) \in t.offset .. t.offset + t.size - 1
        /\ Bloque(p) = t.id => Dentro(p) - t.offset = p - o - c
    BY <1>3, <2>2, BytesDelTrozo
  <2> QED
    BY <2>1, <2>3
<1>9. /\ pedido'.hecho = pedido.hecho + t.size /\ pedido'.array = pedido.array
      /\ pedido'.ruta = w /\ pedido'.datos = pedido.datos /\ pedido'.offset = pedido.offset
  BY <1>2, <1>3 DEF EnCurso
<1>10. pedido' # Nada
  <2>1. pedido.hecho + t.size \in Nat
    BY <1>4, <1>6
  <2>2. pedido' \in EnCurso
    BY <1>2, <1>3, <2>1 DEF EnCurso
  <2> QED
    BY <2>2, PedidoAssumption
<1> PICK k : k = pedido.array[t.id + 1]
  OBVIOUS
<1>11. k \in Bloques
  BY <1>4, <1>7
<1>12. /\ \A j \in Bloques : j # k => bloques'[j] = bloques[j]
       /\ \A d \in Desplazamientos :
            bloques'[k][d] = IF d \in t.offset .. t.offset + t.size - 1
                               THEN pedido.datos[pedido.hecho + d - t.offset + 1] ELSE bloques[k][d]
  <2>1. bloques \in [Bloques -> [Desplazamientos -> Bytes]]
    BY DEF IInv, TypeOK
  <2> QED
    BY <1>2, <1>11, <2>1 DEF ConTrozo
<1>13. \A q : Lista(q)' = Lista(q)
  BY <1>2, <1>4, <1>9, <1>10 DEF Lista
<1>14. Lista(w) = pedido.array
  BY <1>4 DEF Lista
<1>20. \A q, p : p \in Nat =>
          /\ q = w /\ propio(p) => Pendiente(q, p)
          /\ Pendiente(q, p)' <=> Pendiente(q, p) /\ ~(q = w /\ propio(p))
  <2> SUFFICES ASSUME NEW q, NEW p \in Nat
               PROVE  /\ q = w /\ propio(p) => Pendiente(q, p)
                      /\ Pendiente(q, p)' <=> Pendiente(q, p) /\ ~(q = w /\ propio(p))
    OBVIOUS
  <2> PICK o, c, n : o = pedido.offset /\ c = pedido.hecho /\ n = t.size
    OBVIOUS
  <2>1. o \in Nat /\ c \in Nat /\ n \in Nat /\ c + n <= size /\ n > 0
    BY <1>4, <1>6
  <2>2. /\ Pendiente(q, p) <=> q = w /\ p \in o + c .. o + size - 1
        /\ Pendiente(q, p)' <=> q = w /\ p \in o + (c + n) .. o + size - 1
    BY <1>4, <1>9, <1>10 DEF Pendiente, size
  <2>3. propio(p) <=> p \in o + c .. o + c + n - 1
    OBVIOUS
  <2> HIDE DEF propio
  <2>4. p \in o + (c + n) .. o + size - 1 <=> p \in o + c .. o + size - 1 /\ ~(p \in o + c .. o + c + n - 1)
    BY <1>3, <2>1, Tramos
  <2>5. p \in o + c .. o + c + n - 1 => p \in o + c .. o + size - 1
    BY <1>3, <2>1, Tramos
  <2> QED
    BY <2>2, <2>3, <2>4, <2>5
<1> HIDE DEF propio
<1>15. EscritoTipos' /\ EscritoEnValidos'
  BY <1>2 DEF EscritoBien, EscritoTipos, EscritoEnValidos
<1>16. EscritoEnSuLugar'
  <2>1. SUFFICES ASSUME ~desacuerdo, vivo, NEW q \in Rutas, NEW p \in DOMAIN escrito[q]
                 PROVE  EnSuLugar(q, p)'
    BY <1>2 DEF EscritoEnSuLugar
  <2>2. EnSuLugar(q, p)
    BY <2>1 DEF EscritoBien, EscritoEnSuLugar
  <2>3. p \in Nat /\ q \in DOMAIN archivos
    BY <2>1 DEF EscritoBien, EscritoTipos, EscritoEnValidos
  <2>4. /\ \A r \in DOMAIN archivos : IsInjective(Lista(r))
        /\ \A r, s \in DOMAIN archivos : r # s => Range(Lista(r)) \cap Range(Lista(s)) = {}
    BY <2>1 DEF IInv, BloquesConDuenio
  <2>5. CASE q = w /\ propio(p)
    <3>1. Pendiente(q, p) /\ ~Pendiente(q, p)'
      BY <1>20, <2>3, <2>5
    <3>2. escrito[q][p] = pedido.datos[p - pedido.offset + 1]
      BY <2>2, <3>1 DEF EnSuLugar
    <3>3. Bloque(p) = t.id /\ Dentro(p) \in t.offset .. t.offset + t.size - 1
          /\ Dentro(p) - t.offset = p - pedido.offset - pedido.hecho /\ Dentro(p) \in Desplazamientos
      BY <1>8, <2>3, <2>5
    <3>4. bloques'[k][Dentro(p)] = pedido.datos[pedido.hecho + Dentro(p) - t.offset + 1]
      BY <1>12, <3>3
    <3>5. pedido.hecho + Dentro(p) - t.offset + 1 = p - pedido.offset + 1
      <4> PICK o, c, d, e : o = pedido.offset /\ c = pedido.hecho /\ d = Dentro(p) /\ e = t.offset
        OBVIOUS
      <4>1. o \in Int /\ c \in Int /\ d \in Int /\ e \in Int /\ d - e = p - o - c
        <5>1. o \in Int /\ c \in Int /\ e \in Int
          BY <1>4, <1>6
        <5>2. d \in Int
          BY <3>3, TamanioPositivo DEF Desplazamientos
        <5>3. d - e = p - o - c
          BY <3>3
        <5> QED
          BY <5>1, <5>2, <5>3
      <4>2. c + d - e + 1 = p - o + 1
        BY <2>3, <4>1
      <4> QED
        BY <4>2
    <3>6. bloques'[k][Dentro(p)] = escrito[q][p]
      BY <3>2, <3>4, <3>5
    <3>7. Lista(q)' = pedido.array
      BY <1>13, <1>14, <2>5
    <3>8. Bloque(p) + 1 \in 1 .. Len(pedido.array) /\ pedido.array[Bloque(p) + 1] = k
      BY <1>7, <3>3
    <3> QED
      BY <1>2, <3>1, <3>6, <3>7, <3>8 DEF EnSuLugar
  <2>6. CASE ~(q = w /\ propio(p)) /\ Pendiente(q, p)
    <3>1. Pendiente(q, p)'
      BY <1>20, <2>3, <2>6
    <3> QED
      BY <1>2, <1>9, <2>2, <2>6, <3>1 DEF EnSuLugar
  <2>7. CASE ~(q = w /\ propio(p)) /\ ~Pendiente(q, p)
    <3> DEFINE j == Lista(q)[Bloque(p) + 1]
    <3>1. ~Pendiente(q, p)'
      BY <1>20, <2>3, <2>7
    <3>2. Bloque(p) + 1 \in 1 .. Len(Lista(q)) /\ bloques[j][Dentro(p)] = escrito[q][p]
      BY <2>2, <2>7 DEF EnSuLugar
    <3>3. Lista(q) \in Seq(Bloques)
      BY <1>4, <2>3 DEF Lista, IInv, TypeOK
    <3>4. j \in Bloques /\ j \in Range(Lista(q))
      BY <3>2, <3>3 DEF Range
    <3>5. bloques'[j][Dentro(p)] = bloques[j][Dentro(p)]
      <4>1. CASE j # k
        BY <1>12, <3>4, <4>1
      <4>2. CASE j = k
        <5>1. k \in Range(Lista(w))
          BY <1>4, <1>7, <1>14 DEF Range
        <5>2. q = w
          BY <1>3, <2>3, <2>4, <3>4, <4>2, <5>1
        <5>3. Bloque(p) + 1 = t.id + 1
          <6>1. Lista(w)[Bloque(p) + 1] = Lista(w)[t.id + 1]
            BY <1>14, <4>2, <5>2
          <6>2. Bloque(p) + 1 \in DOMAIN Lista(w) /\ t.id + 1 \in DOMAIN Lista(w)
            BY <1>4, <1>7, <1>14, <3>2, <5>2
          <6> QED
            BY <1>3, <2>4, <6>1, <6>2 DEF IsInjective
        <5>4. Bloque(p) = t.id
          BY <1>6, <1>8, <2>3, <5>3
        <5>5. Dentro(p) \notin t.offset .. t.offset + t.size - 1 /\ Dentro(p) \in Desplazamientos
          BY <1>8, <2>3, <2>7, <5>2, <5>4
        <5> QED
          BY <1>12, <4>2, <5>5
      <4> QED
        BY <4>1, <4>2
    <3> QED
      BY <1>2, <1>13, <3>1, <3>2, <3>5 DEF EnSuLugar
  <2> QED
    BY <2>5, <2>6, <2>7
<1> QED
  BY <1>15, <1>16 DEF EscritoBien

\* A file that is saved has all its bytes written.
LEMMA EscritoGuardar ==
  ASSUME IInv, EscritoBien, Guardar
  PROVE  EscritoBien'
<1> DEFINE nuevo == Completo(pedido.tamanio, pedido.array)
           w == pedido.ruta
<1>1. Sirve /\ pedido.hecho = Len(pedido.datos)
  BY DEF Guardar, Termina
<1>2. /\ archivos' = [archivos EXCEPT ![w] = nuevo] /\ pedido' = Nada
      /\ bloques' = bloques /\ vivo' = vivo /\ escrito' = escrito /\ desacuerdo' = desacuerdo
  BY DEF Guardar, Responder, historia
<1>3. pedido # Nada /\ w \in DOMAIN archivos /\ pedido.offset \in Nat /\ Len(pedido.datos) \in Nat
  BY <1>1, PedidoTipos DEF Sirve, EnCurso
<1>4. nuevo.array = pedido.array /\ nuevo.valido = TRUE
  BY DEF Completo
<1> HIDE DEF nuevo
<1>5. /\ DOMAIN archivos' = DOMAIN archivos /\ archivos'[w] = nuevo
      /\ \A q \in DOMAIN archivos : q # w => archivos'[q] = archivos[q]
  BY <1>2, <1>3
<1>6. EscritoTipos'
  BY <1>2 DEF EscritoBien, EscritoTipos
<1>7. EscritoEnValidos'
  BY <1>2, <1>4, <1>5 DEF EscritoBien, EscritoEnValidos
<1>8. EscritoEnSuLugar'
  <2>1. SUFFICES ASSUME ~desacuerdo, vivo, NEW q \in Rutas, NEW p \in DOMAIN escrito[q]
                 PROVE  EnSuLugar(q, p)'
    BY <1>2 DEF EscritoEnSuLugar
  <2>2. EnSuLugar(q, p)
    BY <2>1 DEF EscritoBien, EscritoEnSuLugar
  <2>3. q \in DOMAIN archivos
    BY <2>1 DEF EscritoBien, EscritoEnValidos
  <2>4. ~Pendiente(q, p)
    <3> PICK o, n : o = pedido.offset /\ n = Len(pedido.datos)
      OBVIOUS
    <3>1. o \in Nat /\ n \in Nat
      BY <1>3
    <3>2. ~(p \in o + n .. o + n - 1)
      BY <3>1
    <3> QED
      BY <1>1, <3>2 DEF Pendiente
  <2>5. ~Pendiente(q, p)'
    BY <1>2 DEF Pendiente
  <2>6. Lista(q)' = Lista(q)
    BY <1>2, <1>3, <1>4, <1>5, <2>3 DEF Lista
  <2> QED
    BY <1>2, <2>2, <2>4, <2>5, <2>6 DEF EnSuLugar
<1> QED
  BY <1>6, <1>7, <1>8 DEF EscritoBien

\* The server stops; and a restart that goes on with the history finds nothing written.
LEMMA EscritoCaida ==
  ASSUME EscritoBien, Caida
  PROVE  EscritoBien'
<1>1. vivo' = FALSE /\ archivos' = archivos /\ escrito' = escrito /\ desacuerdo' = desacuerdo
  BY DEF Caida, disco, historia
<1> QED
  BY <1>1 DEF EscritoBien, EscritoTipos, EscritoEnValidos, EscritoEnSuLugar

LEMMA EscritoReiniciar ==
  ASSUME EscritoBien, Reiniciar
  PROVE  EscritoBien'
<1>1. /\ archivos' = archivos
      /\ desacuerdo' = (desacuerdo \/ \E r \in DOMAIN archivos : archivos[r].valido)
      /\ escrito' = IF desacuerdo' THEN [r \in Rutas |-> <<>>] ELSE escrito
  BY DEF Reiniciar
<1>2. CASE desacuerdo'
  <2>1. DOMAIN escrito' = Rutas /\ \A r \in Rutas : DOMAIN escrito'[r] = {}
    BY <1>1, <1>2
  <2> QED
    BY <1>2, <2>1 DEF EscritoBien, EscritoTipos, EscritoEnValidos, EscritoEnSuLugar
<1>3. CASE ~desacuerdo'
  <2>1. escrito' = escrito /\ ~desacuerdo /\ \A r \in DOMAIN archivos : ~archivos[r].valido
    BY <1>1, <1>3
  <2>2. \A r \in Rutas : DOMAIN escrito[r] = {}
    BY <2>1 DEF EscritoBien, EscritoEnValidos
  <2> QED
    BY <1>1, <2>1, <2>2 DEF EscritoBien, EscritoTipos, EscritoEnValidos, EscritoEnSuLugar
<1> QED
  BY <1>2, <1>3

\* Every step leaves each byte that was written in its place.
LEMMA EscritoSigue ==
  ASSUME IInv, EscritoBien, [Next]_vars
  PROVE  EscritoBien'
<1>1. CASE UNCHANGED vars
  BY <1>1, EscritoQuieto DEF vars, disco, historia
<1>2. CASE Pedido
  BY <1>2, EscritoValidar, EscritoCrear, EscritoBorrar, EscritoLeer, EscritoEscribir DEF Pedido
<1>3. CASE AgregarBloque \/ EscribirTrozo \/ Guardar \/ Caida \/ Reiniciar
  BY <1>3, EscritoAgregar, EscritoTrozo, EscritoGuardar, EscritoCaida, EscritoReiniciar
<1> QED
  BY <1>1, <1>2, <1>3 DEF Next

LEMMA EscritoSiempre == Spec => []EscritoBien
BY EscritoInicio, EscritoSigue, SiempreBien, PTL DEF Spec

\* Byte p of a file, as it is on disk.
ByteEn(r, p) == bloques[archivos[r].array[Bloque(p) + 1]][Dentro(p)]

\* The bytes of a read from its first h bytes on.
RestoLeido(r, o, s, h) == [k \in 1 .. s - h |-> ByteEn(r, o + h + k - 1)]

\* What obtener_datos gets with one piece.
Leido(r, o, s, h) ==
  LET t == Trozo(o, s, h) IN readFromBlock(archivos[r].array[t.id + 1], t)

\* A piece is read byte by byte from where they are.
LEMMA LeidoExacto ==
  ASSUME NEW r, NEW o \in Nat, NEW s \in Nat, NEW h \in Nat, h < s, Parte(o, s, h),
         NEW n, n = Trozo(o, s, h).size
  PROVE  /\ n \in Nat \ {0} /\ h + n <= s
         /\ Leido(r, o, s, h) = [k \in 1 .. n |-> ByteEn(r, o + h + k - 1)]
<1> PICK t : t = Trozo(o, s, h)
  OBVIOUS
<1>1. n \in Nat \ {0} /\ h + n <= s /\ t.offset \in Nat /\ t.size = n
  BY TrozoExacto, TamanioPositivo DEF Desplazamientos
<1>2. ASSUME NEW k \in 1 .. n
      PROVE  bloques[archivos[r].array[t.id + 1]][t.offset + k - 1] = ByteEn(r, o + h + k - 1)
  <2> PICK p, d, e : p = o + h + k - 1 /\ d = Dentro(p) /\ e = t.offset
    OBVIOUS
  <2>1. p \in Nat /\ p \in o + h .. o + h + n - 1 /\ p - o - h = k - 1
    BY <1>1, <1>2
  <2>2. Bloque(p) = t.id /\ d - e = p - o - h
    BY <1>1, <2>1, BytesDelTrozo
  <2>3. d \in Int /\ e \in Int
    <3>1. Dentro(p) \in Desplazamientos
      BY <2>1, DondeEsta
    <3> QED
      BY <1>1, <3>1, TamanioPositivo DEF Desplazamientos
  <2>4. d - e = k - 1
    BY <2>1, <2>2, Zenon
  <2>5. d = e + k - 1
    BY <2>3, <2>4
  <2> QED
    BY <2>2, <2>5 DEF ByteEn
<1>3. Leido(r, o, s, h) = [k \in 1 .. n |-> bloques[archivos[r].array[t.id + 1]][t.offset + k - 1]]
  BY <1>1, Zenon DEF Leido, readFromBlock
<1> QED
  BY <1>1, <1>2, <1>3

\* A function on 1 .. n is a sequence of length n.
LEMMA EsSecuencia ==
  ASSUME NEW S, NEW n \in Nat, NEW f \in [1 .. n -> S]
  PROVE  f \in Seq(S) /\ Len(f) = n
OBVIOUS

\* Two sequences are joined into a third.
LEMMA Junta ==
  ASSUME NEW S, NEW a \in Seq(S), NEW b \in Seq(S), NEW c \in Seq(S),
         NEW n \in Nat, NEW m \in Nat, Len(a) = n, Len(b) = m, Len(c) = n + m,
         \A k \in 1 .. n : a[k] = c[k], \A k \in 1 .. m : b[k] = c[n + k]
  PROVE  a \o b = c
<1> PICK d : d = a \o b
  OBVIOUS
<1>1. /\ d \in Seq(S) /\ Len(d) = n + m
      /\ \A i \in 1 .. n + m : d[i] = IF i <= n THEN a[i] ELSE b[i - n]
  BY ConcatProperties
<1>2. ASSUME NEW i \in 1 .. n + m
      PROVE  d[i] = c[i]
  <2>1. CASE i <= n
    <3>1. i \in 1 .. n
      BY <2>1
    <3> QED
      BY <1>1, <2>1, <3>1
  <2>2. CASE ~(i <= n)
    <3>1. i - n \in 1 .. m /\ n + (i - n) = i
      BY <2>2
    <3> QED
      BY <1>1, <2>2, <3>1
  <2> QED
    BY <2>1, <2>2
<1>3. d = c
  BY <1>1, <1>2, SeqEqual
<1> QED
  BY <1>3

BytesDe(r) == {ByteEn(r, p) : p \in Nat}

RestoBien(r, o, s, h) ==
  /\ RestoLeido(r, o, s, h) \in Seq(BytesDe(r)) /\ Len(RestoLeido(r, o, s, h)) = s - h
  /\ \A k \in 1 .. s - h : RestoLeido(r, o, s, h)[k] = ByteEn(r, o + h + k - 1)

\* What is left of a read is a sequence of bytes.
LEMMA RestoEsSecuencia ==
  ASSUME NEW r, NEW o \in Nat, NEW s \in Nat, NEW h \in Nat, h <= s
  PROVE  RestoBien(r, o, s, h)
<1> PICK m : m = s - h
  OBVIOUS
<1>1. m \in Nat /\ \A k \in 1 .. m : o + h + k - 1 \in Nat
  OBVIOUS
<1>2. \A k \in 1 .. m : ByteEn(r, o + h + k - 1) \in BytesDe(r)
  BY <1>1 DEF BytesDe
<1>3. RestoLeido(r, o, s, h) = [k \in 1 .. m |-> ByteEn(r, o + h + k - 1)]
  BY DEF RestoLeido
<1>4. RestoLeido(r, o, s, h) \in [1 .. m -> BytesDe(r)]
  BY <1>2, <1>3
<1>5. RestoLeido(r, o, s, h) \in Seq(BytesDe(r)) /\ Len(RestoLeido(r, o, s, h)) = m
  BY <1>1, <1>4, EsSecuencia
<1> QED
  BY <1>3, <1>5 DEF RestoBien

Detras(r, o, s, h) == IF h >= s THEN <<>> ELSE RestoLeido(r, o, s, h)

\* A piece, and the bytes behind it.
LEMMA LeidoYResto ==
  ASSUME NEW r, NEW o \in Nat, NEW s \in Nat, NEW h \in Nat, h < s, Parte(o, s, h)
  PROVE  Leido(r, o, s, h) \o Detras(r, o, s, h + Trozo(o, s, h).size) = RestoLeido(r, o, s, h)
<1>n. PICK n : n = Trozo(o, s, h).size
  OBVIOUS
<1>r. PICK resto : resto = Detras(r, o, s, h + n)
  OBVIOUS
<1>s. PICK S : S = BytesDe(r)
  OBVIOUS
<1>a. PICK a : a = Leido(r, o, s, h)
  OBVIOUS
<1>c. PICK c : c = RestoLeido(r, o, s, h)
  OBVIOUS
<1>m. PICK m : m = s - h - n
  OBVIOUS
<1>1. n \in Nat \ {0} /\ h + n <= s /\ a = [k \in 1 .. n |-> ByteEn(r, o + h + k - 1)]
  BY <1>n, <1>a, LeidoExacto
<1>2. n \in Nat /\ h + n <= s /\ n # 0
  BY <1>1
<1>3. m \in Nat /\ n + m = s - h
  BY <1>2, <1>m
<1>4. c \in Seq(S) /\ Len(c) = n + m /\ \A k \in 1 .. n + m : c[k] = ByteEn(r, o + h + k - 1)
  <2>1. RestoBien(r, o, s, h)
    <3>1. h <= s
      OBVIOUS
    <3> QED
      BY <3>1, RestoEsSecuencia
  <2> QED
    BY <1>3, <1>s, <1>c, <2>1 DEF RestoBien
<1>5. a \in Seq(S) /\ Len(a) = n /\ \A k \in 1 .. n : a[k] = c[k]
  <2>1. \A k \in 1 .. n : o + h + k - 1 \in Nat /\ k \in 1 .. n + m
    BY <1>2, <1>3
  <2>2. a \in [1 .. n -> S]
    BY <1>1, <1>s, <2>1 DEF BytesDe
  <2>3. \A k \in 1 .. n : a[k] = c[k]
    BY <1>1, <1>4, <2>1
  <2> QED
    BY <1>2, <2>2, <2>3, EsSecuencia
<1>6. resto \in Seq(S) /\ Len(resto) = m /\ \A k \in 1 .. m : resto[k] = c[n + k]
  <2>1. CASE h + n >= s
    <3>1. resto = <<>>
      BY <1>r, <2>1 DEF Detras
    <3>2. m = 0
      BY <1>2, <1>m, <2>1
    <3>3. resto \in Seq(S) /\ Len(resto) = 0
      BY <3>1, EmptySeq
    <3> QED
      BY <3>2, <3>3
  <2>2. CASE ~(h + n >= s)
    <3>g. PICK g : g = h + n
      OBVIOUS
    <3>1. g \in Nat /\ g <= s /\ s - g = m
      BY <1>2, <1>m, <2>2, <3>g
    <3>2. resto = RestoLeido(r, o, s, g)
      BY <1>r, <2>2, <3>g DEF Detras
    <3>3. resto \in Seq(S) /\ Len(resto) = m /\ \A k \in 1 .. m : resto[k] = ByteEn(r, o + g + k - 1)
      <4>1. g \in Nat /\ g <= s
        BY <3>1
      <4>2. RestoBien(r, o, s, g)
        BY <4>1, RestoEsSecuencia
      <4> QED
        BY <1>s, <3>1, <3>2, <4>2 DEF RestoBien
    <3>4. \A k \in 1 .. m : o + g + k - 1 = o + h + (n + k) - 1 /\ n + k \in 1 .. n + m
      BY <1>2, <1>3, <3>g
    <3>5. \A k \in 1 .. m : resto[k] = c[n + k]
      BY <1>4, <3>3, <3>4
    <3> QED
      BY <3>3, <3>5
  <2> QED
    BY <2>1, <2>2
<1>7. a \o resto = c
  BY <1>2, <1>3, <1>4, <1>5, <1>6, Junta
<1> QED
  BY <1>7, <1>n, <1>r, <1>a, <1>c, Zenon

\* What the function of obtener_datos satisfies.
Ecuacion(r, o, s, f) ==
  f = [hecho \in Nat |->
         IF hecho >= s THEN <<>>
         ELSE LET t == Trozo(o, s, hecho)
              IN  readFromBlock(archivos[r].array[t.id + 1], t) \o f[hecho + t.size]]

\* And is the same said point by point.
LEMMA EcuacionPuntual ==
  ASSUME NEW r, NEW o, NEW s, NEW f
  PROVE  Ecuacion(r, o, s, f) <=>
           /\ f = [h \in Nat |-> f[h]]
           /\ \A h \in Nat : f[h] = IF h >= s THEN <<>>
                                    ELSE Leido(r, o, s, h) \o f[h + Trozo(o, s, h).size]
BY Zenon DEF Ecuacion, Leido

\* A request that does not fit in its first block is cut in pieces, each of them a Parte.
LEMMA LecturaPorPartes ==
  ASSUME NEW r, NEW o \in Nat, NEW s \in Nat, \A h \in Nat : Parte(o, s, h)
  PROVE  \E f : Ecuacion(r, o, s, f)
<1>f. PICK f : f = [h \in Nat |-> IF h >= s THEN <<>> ELSE RestoLeido(r, o, s, h)]
  OBVIOUS
<1>1. f = [h \in Nat |-> f[h]] /\ \A h \in Nat : f[h] = IF h >= s THEN <<>> ELSE RestoLeido(r, o, s, h)
  BY <1>f, Zenon
<1>2. ASSUME NEW h \in Nat, ~(h >= s)
      PROVE  f[h] = Leido(r, o, s, h) \o f[h + Trozo(o, s, h).size]
  <2>n. PICK n : n = Trozo(o, s, h).size
    OBVIOUS
  <2>1. h < s /\ Parte(o, s, h)
    BY <1>2
  <2>2. n \in Nat
    BY <2>1, <2>n, LeidoExacto
  <2>3. h + n \in Nat
    BY <2>2
  <2>4. f[h + n] = IF h + n >= s THEN <<>> ELSE RestoLeido(r, o, s, h + n)
    BY <1>1, <2>3, Zenon
  <2>5. Leido(r, o, s, h) \o f[h + n] = RestoLeido(r, o, s, h)
    <3>1. Leido(r, o, s, h) \o Detras(r, o, s, h + n) = RestoLeido(r, o, s, h)
      BY <2>1, <2>n, LeidoYResto
    <3> QED
      BY <2>4, <3>1 DEF Detras
  <2>6. f[h] = RestoLeido(r, o, s, h)
    BY <1>1, <1>2, Zenon
  <2> QED
    BY <2>n, <2>5, <2>6, Zenon
<1>3. Ecuacion(r, o, s, f)
  BY <1>1, <1>2, EcuacionPuntual, Zenon
<1> QED
  BY <1>3

\* One that fits is one piece.
LEMMA LecturaEntera ==
  ASSUME NEW r, NEW o \in Nat, NEW s \in Nat,
         s + o - (o \div TAMANIO_BLOQUES) * TAMANIO_BLOQUES <= TAMANIO_BLOQUES
  PROVE  \E f : Ecuacion(r, o, s, f)
<1>f. PICK f : f = [h \in Nat |-> IF h >= s THEN <<>> ELSE Leido(r, o, s, h) \o <<>>]
  OBVIOUS
<1>1. f = [h \in Nat |-> f[h]] /\ \A h \in Nat : f[h] = IF h >= s THEN <<>> ELSE Leido(r, o, s, h) \o <<>>
  BY <1>f, Zenon
<1>2. ASSUME NEW h \in Nat, ~(h >= s)
      PROVE  f[h] = Leido(r, o, s, h) \o f[h + Trozo(o, s, h).size]
  <2>1. Trozo(o, s, h).size = s
    BY DEF Trozo
  <2>2. h + s \in Nat /\ h + s >= s
    OBVIOUS
  <2>3. f[h + s] = <<>>
    BY <1>1, <2>2, Zenon
  <2>4. f[h] = Leido(r, o, s, h) \o <<>>
    BY <1>1, <1>2, Zenon
  <2> QED
    BY <2>1, <2>3, <2>4, Zenon
<1>3. Ecuacion(r, o, s, f)
  BY <1>1, <1>2, EcuacionPuntual, Zenon
<1> QED
  BY <1>3

LEMMA HayLectura ==
  ASSUME NEW r, NEW o \in Nat, NEW s \in Nat
  PROVE  \E f : Ecuacion(r, o, s, f)
<1>x. PICK x : x = s + o - (o \div TAMANIO_BLOQUES) * TAMANIO_BLOQUES
  OBVIOUS
<1>1. x \in Int
  BY <1>x, Division, TamanioPositivo
<1>2. CASE x <= TAMANIO_BLOQUES
  BY <1>x, <1>2, LecturaEntera
<1>3. CASE ~(x <= TAMANIO_BLOQUES)
  <2>1. \A h \in Nat : Parte(o, s, h)
    BY <1>1, <1>x, <1>3, TamanioPositivo DEF Parte
  <2> QED
    BY <2>1, LecturaPorPartes
<1> QED
  BY <1>2, <1>3

\* There is only one way to read: from any place on, what is left.
LEMMA LecturaUnica ==
  ASSUME NEW r, NEW o \in Nat, NEW s \in Nat \ {0}, NEW f, Ecuacion(r, o, s, f)
  PROVE  f[0] = RestoLeido(r, o, s, 0)
<1>1. \A h \in Nat : f[h] = IF h >= s THEN <<>>
                             ELSE Leido(r, o, s, h) \o f[h + Trozo(o, s, h).size]
  BY EcuacionPuntual
<1>2. ASSUME NEW h \in Nat, h < s, Parte(o, s, h),
             LET g == h + Trozo(o, s, h).size
             IN  g < s => f[g] = RestoLeido(r, o, s, g)
      PROVE  f[h] = RestoLeido(r, o, s, h)
  <2>n. PICK n : n = Trozo(o, s, h).size
    OBVIOUS
  <2>1. n \in Nat
    BY <1>2, <2>n, LeidoExacto
  <2>2. h + n \in Nat /\ ~(h >= s) /\ (~(h + n >= s) => h + n < s)
    BY <1>2, <2>1
  <2>3. f[h] = Leido(r, o, s, h) \o f[h + n]
    BY <1>1, <2>n, <2>2, Zenon
  <2>4. f[h + n] = IF h + n >= s THEN <<>> ELSE RestoLeido(r, o, s, h + n)
    BY <1>1, <1>2, <2>n, <2>2, Zenon
  <2>5. Leido(r, o, s, h) \o f[h + n] = RestoLeido(r, o, s, h)
    <3>1. Leido(r, o, s, h) \o Detras(r, o, s, h + n) = RestoLeido(r, o, s, h)
      BY <1>2, <2>n, LeidoYResto
    <3> QED
      BY <2>4, <3>1 DEF Detras
  <2> QED
    BY <2>3, <2>5
<1>3. Parte(o, s, 0)
  BY DEF Parte
<1>x. PICK x : x = s + o - (o \div TAMANIO_BLOQUES) * TAMANIO_BLOQUES
  OBVIOUS
<1>4. x \in Int
  BY <1>x, Division, TamanioPositivo
<1>5. CASE x <= TAMANIO_BLOQUES
  <2>1. Trozo(o, s, 0).size = s
    BY <1>x, <1>5 DEF Trozo
  <2>2. ~(0 + s < s) /\ 0 < s
    OBVIOUS
  <2> QED
    BY <1>2, <1>3, <2>1, <2>2
<1>6. CASE ~(x <= TAMANIO_BLOQUES)
  <2>1. \A h \in Nat : Parte(o, s, h)
    BY <1>4, <1>x, <1>6, TamanioPositivo DEF Parte
  <2> DEFINE Malos == {m \in 1 .. s : f[s - m] # RestoLeido(r, o, s, s - m)}
  <2>2. ASSUME Malos # {}
        PROVE  FALSE
    <3>1. Malos \in SUBSET Nat
      OBVIOUS
    <3> HIDE DEF Malos
    <3>2. PICK m \in Malos : \A y \in Malos : m <= y
      BY <2>2, <3>1, HayMinimo
    <3>3. m \in 1 .. s /\ f[s - m] # RestoLeido(r, o, s, s - m)
      BY <3>2 DEF Malos
    <3>h. PICK h : h = s - m
      OBVIOUS
    <3>4. h \in Nat /\ h < s /\ f[h] # RestoLeido(r, o, s, h)
      BY <3>3, <3>h
    <3>n. PICK n : n = Trozo(o, s, h).size
      OBVIOUS
    <3>5. n \in Nat \ {0} /\ h + n <= s
      BY <2>1, <3>4, <3>n, LeidoExacto
    <3>6. h + n < s /\ f[h + n] # RestoLeido(r, o, s, h + n)
      BY <1>2, <2>1, <3>4, <3>n
    <3>k. PICK k : k = s - (h + n)
      OBVIOUS
    <3>7. k \in 1 .. s /\ s - k = h + n /\ k < m
      BY <3>3, <3>h, <3>4, <3>5, <3>6, <3>k
    <3>8. k \in Malos
      BY <3>6, <3>7 DEF Malos
    <3>9. m <= k
      BY <3>2, <3>8
    <3> QED
      BY <3>3, <3>7, <3>9
  <2>3. s \in 1 .. s /\ s - s = 0
    OBVIOUS
  <2>4. s \notin Malos
    BY <2>2
  <2> QED
    BY <2>3, <2>4
<1> QED
  BY <1>5, <1>6

\* obtener_datos returns the bytes from o to o + s - 1, in order.
LEMMA LecturaExacta ==
  ASSUME NEW r, NEW o \in Nat, NEW s \in Nat \ {0}
  PROVE  obtener_datos(r, o, s) = RestoLeido(r, o, s, 0)
<1>d. PICK d : d = CHOOSE f : Ecuacion(r, o, s, f)
  OBVIOUS
<1>1. Ecuacion(r, o, s, d)
  BY <1>d, HayLectura
<1>2. obtener_datos(r, o, s) = d[0]
  BY <1>d, Zenon DEF obtener_datos, Ecuacion
<1> QED
  BY <1>1, <1>2, LecturaUnica

\* Until a restart finds files, whatever is read back is what was last written there, in
\* any file, from any place, of any length, whatever was written, created or deleted
\* meanwhile and wherever the server stopped (obtener_datos, guardar_datos,
\* blocks_to_process, fs.h:28-60, 500-607).
THEOREM LoLeidoEsLoEscrito == Spec => []ContenidoFiel
<1>1. IInv /\ EscritoBien => ContenidoFiel
  <2> SUFFICES ASSUME IInv, EscritoBien, ~desacuerdo, vivo, pedido = Nada,
                      NEW r \in Rutas, NEW o \in Offsets, NEW s \in Tamanios,
                      CodigoDeLectura(r, o, s) = 1
               PROVE  /\ Len(obtener_datos(r, o, s)) = s
                      /\ \A k \in 1 .. s : o + k - 1 \in DOMAIN escrito[r] =>
                           obtener_datos(r, o, s)[k] = escrito[r][o + k - 1]
    BY Zenon DEF ContenidoFiel
  <2>1. o \in Nat /\ s \in Nat \ {0}
    <3>1. validar_archivo(r)
      BY DEF CodigoDeLectura
    <3>2. ~(s < 1)
      BY <3>1 DEF CodigoDeLectura
    <3>3. ~(o < 0)
      BY <3>1, <3>2 DEF CodigoDeLectura
    <3> QED
      BY <3>2, <3>3, DiscoAssumption
  <2>2. obtener_datos(r, o, s) = RestoLeido(r, o, s, 0)
    BY <2>1, LecturaExacta
  <2>3. RestoBien(r, o, s, 0)
    BY <2>1, RestoEsSecuencia
  <2>4. ASSUME NEW k \in 1 .. s, o + k - 1 \in DOMAIN escrito[r]
        PROVE  ByteEn(r, o + k - 1) = escrito[r][o + k - 1]
    <3>p. PICK p : p = o + k - 1
      OBVIOUS
    <3>1. EnSuLugar(r, p)
      BY <2>4, <3>p DEF EscritoBien, EscritoEnSuLugar
    <3>2. ~Pendiente(r, p) /\ Lista(r) = archivos[r].array
      BY DEF Pendiente, Lista
    <3>3. ByteEn(r, p) = escrito[r][p]
      BY <3>1, <3>2 DEF EnSuLugar, ByteEn
    <3> QED
      BY <3>p, <3>3
  <2>5. Len(RestoLeido(r, o, s, 0)) = s
        /\ \A k \in 1 .. s : RestoLeido(r, o, s, 0)[k] = ByteEn(r, o + k - 1)
    <3>1. s - 0 = s /\ \A k \in 1 .. s : o + 0 + k - 1 = o + k - 1
      BY <2>1
    <3> QED
      BY <2>3, <3>1 DEF RestoBien
  <2> QED
    BY <2>2, <2>4, <2>5
<1> QED
  BY <1>1, SiempreBien, EscritoSiempre, PTL

=============================================================================
