------------------------- MODULE SistemaDeArchivos -------------------------
(***************************************************************************)
(* The file server (FileSystem/fs.h, FileSystem/FileSystem.c): a bitmap of *)
(* blocks, the blocks, and for each path a metadata file with its size and *)
(* its list of blocks.                                                     *)
(*                                                                         *)
(* The server answers one request of the Kernel at a time.  What it leaves *)
(* on disk is written in several steps, and it may stop between any two:   *)
(* it ends by itself when the Kernel disconnects, and the mapped bitmap,   *)
(* the blocks and the metadata stay as they are.                           *)
(* The text of a metadata file is abstracted to what is read back from it. *)
(***************************************************************************)
EXTENDS Integers, Sequences, FiniteSets, Functions

CONSTANTS
  Rutas,             \* paths of files
  CANTIDAD_BLOQUES,  \* blocks, and bits of the bitmap
  TAMANIO_BLOQUES,   \* bytes of a block
  Buferes,           \* what the Kernel may ask to write: sequences of bytes
  Offsets,           \* offsets it may send
  Tamanios,          \* sizes it may ask to read
  Cero,              \* the byte new blocks are filled with
  MaxReinicios,      \* bound on the restarts of the server
  Nada               \* no request being served

Bloques == 0 .. CANTIDAD_BLOQUES - 1
Desplazamientos == 0 .. TAMANIO_BLOQUES - 1

ASSUME DiscoAssumption ==
  /\ CANTIDAD_BLOQUES \in Nat \ {0} /\ TAMANIO_BLOQUES \in Nat \ {0}
  /\ Offsets \subseteq Int /\ Tamanios \subseteq Int /\ MaxReinicios \in Nat

Bytes == {Cero} \cup UNION {Range(b) : b \in Buferes}

\* The requests whose file is being built: the local variables of create_archivo and
\* of guardar_datos.  faltan blocks are still to be taken, and hecho bytes are written.
EnCurso ==
  [ruta : Rutas, tamanio : Nat, faltan : Nat, array : Seq(Bloques),
   offset : Nat, hecho : Nat, datos : Seq(Bytes)]

ASSUME PedidoAssumption ==
  /\ Nada \notin EnCurso
  /\ \A b \in Buferes : b \in Seq(Bytes)

VARIABLES
  bitmap,       \* the blocks whose bit is on
  archivos,     \* path -> [valido, tamanio, array], for the paths that exist
  bloques,      \* block -> its bytes
  pedido,       \* the request being served, or Nada
  codigo,       \* the last code sent to the Kernel
  vivo,         \* the server runs
  reinicios,    \* restarts so far
  escrito,      \* path -> position -> the byte last written there (history, until
                \* desacuerdo)
  desacuerdo    \* a restart has found files on disk (history)

disco == <<bitmap, archivos, bloques>>
historia == <<escrito, desacuerdo>>
vars == <<disco, pedido, codigo, vivo, reinicios, historia>>

Maximo(a, b) == IF a >= b THEN a ELSE b

-----------------------------------------------------------------------------
(* Operations on files *)

\* The file create_archivo has opened and not yet saved: without BLOQUES nor TAMANIO
SinFormato == [valido |-> FALSE, tamanio |-> 0, array |-> <<>>]
Completo(tamanio, array) == [valido |-> TRUE, tamanio |-> tamanio, array |-> array]

exist(r) == r \in DOMAIN archivos
validar_archivo(r) == exist(r) /\ archivos[r].valido

Libres(ocupados) == Bloques \ ocupados
primer_bloque_libre(ocupados) ==
  CHOOSE b \in Libres(ocupados) : \A c \in Libres(ocupados) : b <= c

\* blocks_to_process cuts size bytes from offset into pieces, one a block: the piece
\* that follows the first hecho bytes
Trozo(offset, size, hecho) ==
  LET primero == offset \div TAMANIO_BLOQUES
      entra == size + offset - primero * TAMANIO_BLOQUES <= TAMANIO_BLOQUES
      id == (offset + hecho) \div TAMANIO_BLOQUES
      dentro == offset + hecho - id * TAMANIO_BLOQUES
      resto == size - hecho
  IN  IF entra
        THEN [id |-> primero, offset |-> offset - primero * TAMANIO_BLOQUES, size |-> size]
        ELSE [id |-> id, offset |-> dentro,
              size |-> IF resto <= TAMANIO_BLOQUES - dentro THEN resto ELSE TAMANIO_BLOQUES - dentro]

\* Where the last piece is (TrozoExacto of the proofs)
UltimoBloque(offset, size) == (offset + size - 1) \div TAMANIO_BLOQUES

readFromBlock(bloque, t) == [k \in 1 .. t.size |-> bloques[bloque][t.offset + k - 1]]
ConTrozo(bloque, t, datos, hecho) ==
  [bloques EXCEPT ![bloque] =
     [d \in Desplazamientos |-> IF d \in t.offset .. t.offset + t.size - 1
                                  THEN datos[hecho + d - t.offset + 1] ELSE @[d]]]

CodigoDeLectura(r, offset, size) ==
  IF ~validar_archivo(r) THEN -20
  ELSE IF size < 1 THEN -14
  ELSE IF offset < 0 THEN -15
  ELSE IF archivos[r].tamanio - size - offset < 0 THEN -16
  ELSE 1

\* The bytes obtener_datos joins, piece after piece
obtener_datos(r, offset, size) ==
  LET desde[hecho \in Nat] ==
        IF hecho >= size THEN <<>>
        ELSE LET t == Trozo(offset, size, hecho)
             IN  readFromBlock(archivos[r].array[t.id + 1], t) \o desde[hecho + t.size]
  IN  desde[0]

\* Blocks a write needs beyond those the file has
BloquesNecesarios(array, offset, size) == UltimoBloque(offset, size) + 1 - Len(array)

CodigoDeEscritura(r, offset, size) ==
  IF ~validar_archivo(r) THEN -20
  ELSE IF size < 1 THEN -14
  ELSE IF offset < 0 THEN -15
  ELSE IF Cardinality(Libres(bitmap)) <
            BloquesNecesarios(archivos[r].array, offset, size) THEN -16
  ELSE 1

-----------------------------------------------------------------------------
(* Requests.  A request that changes nothing is one step; the others begin,  *)
(* go on (AgregarBloque, EscribirTrozo) and are saved.                       *)

Responder(c) == codigo' = c /\ pedido' = Nada

Atiende == vivo /\ pedido = Nada

\* READ_MSG; the bytes sent are obtener_datos
Leer(r, offset, size) ==
  /\ Atiende
  /\ Responder(CodigoDeLectura(r, offset, size))
  /\ UNCHANGED <<disco, vivo, reinicios, historia>>

SinArchivo(r) == [p \in DOMAIN archivos \ {r} |-> archivos[p]]

\* Mutant: the bits of the blocks stay on
delete_archivo_SinLimpiar(r) ==
  /\ archivos' = SinArchivo(r)
  /\ UNCHANGED bitmap
  /\ escrito' = [escrito EXCEPT ![r] = <<>>]

\* delete_archivo: a file without format goes, and keeps its bits
delete_archivo(r) ==
  /\ archivos' = SinArchivo(r)
  /\ bitmap' = IF validar_archivo(r) THEN bitmap \ Range(archivos[r].array) ELSE bitmap
  /\ escrito' = [escrito EXCEPT ![r] = <<>>]

\* VALIDAR_MSG: a file that is not valid is deleted
Validar(r) ==
  /\ Atiende
  /\ Responder(IF validar_archivo(r) THEN 1 ELSE 0)
  /\ IF validar_archivo(r) THEN UNCHANGED <<archivos, bitmap, escrito>> ELSE delete_archivo(r)
  /\ UNCHANGED <<bloques, vivo, reinicios, desacuerdo>>

\* DEL_MSG
Borrar(r) ==
  /\ Atiende
  /\ Responder(IF exist(r) THEN 1 ELSE 0)
  /\ IF exist(r) THEN delete_archivo(r) ELSE UNCHANGED <<archivos, bitmap, escrito>>
  /\ UNCHANGED <<bloques, vivo, reinicios, desacuerdo>>

\* CREAR_MSG, as far as fopen
Crear(r) ==
  /\ Atiende
  /\ IF exist(r) \/ Libres(bitmap) = {}
       THEN Responder(0) /\ UNCHANGED archivos
       ELSE /\ archivos' = [p \in DOMAIN archivos \cup {r} |->
                              IF p = r THEN SinFormato ELSE archivos[p]]
            /\ pedido' = [ruta |-> r, tamanio |-> 0, faltan |-> 1, array |-> <<>>,
                          offset |-> 0, hecho |-> 0, datos |-> <<>>]
            /\ UNCHANGED codigo
  /\ UNCHANGED <<bitmap, bloques, vivo, reinicios, historia>>

RechazarEscritura(c) == Responder(c) /\ UNCHANGED disco

\* WRITE_MSG, as far as the count of the blocks that are missing
Escribir(r, offset, bufer) ==
  /\ Atiende
  /\ LET size == Len(bufer)
         c == CodigoDeEscritura(r, offset, size)
     IN  \/ /\ c < 0
            /\ RechazarEscritura(c)
            /\ UNCHANGED escrito
         \/ /\ c > 0
            /\ pedido' = [ruta |-> r, tamanio |-> Maximo(archivos[r].tamanio, offset + size),
                          faltan |-> Maximo(0, BloquesNecesarios(archivos[r].array, offset, size)),
                          array |-> archivos[r].array,
                          offset |-> offset, hecho |-> 0, datos |-> bufer]
            /\ escrito' = IF desacuerdo THEN escrito ELSE [escrito EXCEPT ![r] =
                 [p \in DOMAIN @ \cup offset .. offset + size - 1 |->
                    IF p \in offset .. offset + size - 1 THEN bufer[p - offset + 1] ELSE @[p]]]
            /\ UNCHANGED <<disco, codigo>>
  /\ UNCHANGED <<vivo, reinicios, desacuerdo>>

Sirve == vivo /\ pedido # Nada

\* agregarBloque and bitarray_set_bit
AgregarBloque ==
  /\ Sirve /\ pedido.faltan > 0
  /\ LET b == primer_bloque_libre(bitmap)
     IN  /\ bitmap' = bitmap \cup {b}
         /\ pedido' = [pedido EXCEPT !.array = Append(@, b), !.faltan = @ - 1]
  /\ UNCHANGED <<archivos, bloques, codigo, vivo, reinicios, historia>>

Escribe == Sirve /\ pedido.faltan = 0 /\ pedido.hecho < Len(pedido.datos)
Termina == Sirve /\ pedido.faltan = 0 /\ pedido.hecho = Len(pedido.datos)

\* Mutant: every piece is written from the start of the buffer
EscribirTrozo_SinAvanzar ==
  /\ Escribe
  /\ LET t == Trozo(pedido.offset, Len(pedido.datos), pedido.hecho)
     IN  /\ bloques' = ConTrozo(pedido.array[t.id + 1], t, pedido.datos, 0)
         /\ pedido' = [pedido EXCEPT !.hecho = @ + t.size]
  /\ UNCHANGED <<bitmap, archivos, codigo, vivo, reinicios, historia>>

\* writeToBlock with the next piece
EscribirTrozo ==
  /\ Escribe
  /\ LET t == Trozo(pedido.offset, Len(pedido.datos), pedido.hecho)
     IN  /\ bloques' = ConTrozo(pedido.array[t.id + 1], t, pedido.datos, pedido.hecho)
         /\ pedido' = [pedido EXCEPT !.hecho = @ + t.size]
  /\ UNCHANGED <<bitmap, archivos, codigo, vivo, reinicios, historia>>

\* Mutant: the size is saved, the list of blocks is not
Guardar_SinBloques ==
  /\ Termina
  /\ archivos' = [archivos EXCEPT ![pedido.ruta] =
                     Completo(pedido.tamanio, archivos[pedido.ruta].array)]
  /\ Responder(1)
  /\ UNCHANGED <<bitmap, bloques, vivo, reinicios, historia>>

\* Archivo_guardar, and the answer
Guardar ==
  /\ Termina
  /\ archivos' = [archivos EXCEPT ![pedido.ruta] = Completo(pedido.tamanio, pedido.array)]
  /\ Responder(1)
  /\ UNCHANGED <<bitmap, bloques, vivo, reinicios, historia>>

\* The Kernel disconnects, or the process dies in the middle of a request
Caida ==
  /\ vivo /\ reinicios < MaxReinicios
  /\ vivo' = FALSE /\ pedido' = Nada
  /\ UNCHANGED <<disco, codigo, reinicios, historia>>

\* main again.  sizeFile opens a path it never builds, so the size of Bitmap.bin is
\* never the expected one and create_binFile fills it with zeros; 0.bin exists, and
\* the blocks stay.
Reiniciar ==
  /\ ~vivo
  /\ vivo' = TRUE /\ reinicios' = reinicios + 1
  /\ bitmap' = {}
  /\ desacuerdo' = (desacuerdo \/ \E r \in DOMAIN archivos : archivos[r].valido)
  /\ escrito' = IF desacuerdo' THEN [r \in Rutas |-> <<>>] ELSE escrito
  /\ UNCHANGED <<archivos, bloques, pedido, codigo>>

Init ==
  /\ bitmap = {} /\ archivos = <<>>
  /\ bloques = [b \in Bloques |-> [d \in Desplazamientos |-> Cero]]
  /\ pedido = Nada /\ codigo = 0 /\ vivo = TRUE /\ reinicios = 0
  /\ escrito = [r \in Rutas |-> <<>>] /\ desacuerdo = FALSE

Pedido ==
  \E r \in Rutas :
    \/ Validar(r) \/ Crear(r) \/ Borrar(r)
    \/ \E o \in Offsets : \/ \E s \in Tamanios : Leer(r, o, s)
                          \/ \E b \in Buferes : Escribir(r, o, b)

Next == Pedido \/ AgregarBloque \/ EscribirTrozo \/ Guardar \/ Caida \/ Reiniciar

Spec == Init /\ [][Next]_vars

-----------------------------------------------------------------------------
(* Properties *)

\* Types of the disk and of the request being served.
TypeOK ==
  /\ bitmap \subseteq Bloques
  /\ DOMAIN archivos \subseteq Rutas
  /\ archivos \in [DOMAIN archivos -> [valido : BOOLEAN, tamanio : Nat, array : Seq(Bloques)]]
  /\ bloques \in [Bloques -> [Desplazamientos -> Bytes]]
  /\ pedido \in EnCurso \cup {Nada}
  /\ codigo \in Int /\ vivo \in BOOLEAN /\ reinicios \in Nat /\ desacuerdo \in BOOLEAN

\* The list of blocks of a path: the one being built, or the saved one.
Lista(r) == IF pedido # Nada /\ pedido.ruta = r THEN pedido.array ELSE archivos[r].array

\* As long as no restart has found files, a block is on one list, once, and the bitmap
\* says exactly which blocks are on some list: none is shared and none is lost, also in
\* the middle of create_archivo and guardar_datos, and after deletions
\* (primer_bloque_libre, agregarBloque, cleanBloques, fs.h:217-420).
BloquesConDuenio ==
  ~desacuerdo /\ vivo =>
    /\ bitmap = UNION {Range(Lista(r)) : r \in DOMAIN archivos}
    /\ \A r \in DOMAIN archivos : IsInjective(Lista(r))
    /\ \A r, s \in DOMAIN archivos : r # s => Range(Lista(r)) \cap Range(Lista(s)) = {}

\* What is on disk never promises bytes it has no block for, wherever the server was
\* stopped and however often it was restarted (guardar_datos saves size and list of
\* blocks together, and last, fs.h:553-607).
TamanioCubierto ==
  \A r \in DOMAIN archivos :
    /\ archivos[r].tamanio <= TAMANIO_BLOQUES * Len(archivos[r].array)
    /\ archivos[r].valido => Len(archivos[r].array) > 0

\* As long as no restart has found files, whatever is read back is what was last
\* written there: pieces, blocks and offsets of obtener_datos and guardar_datos agree,
\* and no other file's writes show (fs.h:28-60, 500-607).
ContenidoFiel ==
  ~desacuerdo /\ vivo /\ pedido = Nada =>
    \A r \in Rutas, o \in Offsets, s \in Tamanios :
      CodigoDeLectura(r, o, s) = 1 =>
        LET leido == obtener_datos(r, o, s)
        IN  /\ Len(leido) = s
            /\ \A k \in 1 .. s : o + k - 1 \in DOMAIN escrito[r] => leido[k] = escrito[r][o + k - 1]

\* A request that is refused leaves the disk as it was, however far it got: a write
\* that finds too few blocks has taken none (guardar_datos, fs.h:575-581; obtener_datos).
RechazoSinEfecto ==
  [][codigo' # codigo /\ codigo' < 0 => pedido = Nada /\ UNCHANGED disco]_vars

=============================================================================
