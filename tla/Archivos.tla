------------------------------ MODULE Archivos ------------------------------
(***************************************************************************)
(* The files a process has open (Kernel/Kernel.c): a table of descriptors  *)
(* for each process, which name entries of one global table by their       *)
(* position, and the requests they become to the file server.              *)
(*                                                                         *)
(* The thread of the Kernel that serves the CPUs opens, reads, writes,     *)
(* moves, closes and deletes; the thread of its console may end a process  *)
(* meanwhile.  Opening a file is two steps here, since no lock covers it.  *)
(* The server itself (SistemaDeArchivos) is the set of paths on disk and   *)
(* an arbitrary answer; what is read and written is left out.              *)
(***************************************************************************)
EXTENDS Integers, FiniteSets, SequencesExt

CONSTANTS
  Rutas,        \* paths of files
  MaxPid,       \* bound on the processes created
  MaxAbiertos,  \* bound on the files a process opens in its life
  Posiciones,   \* positions a program moves a cursor to
  Permisos,     \* sets of permissions a program asks for
  Nada          \* no file, or no file being opened

FD_INICIAL_ARCHIVOS == 3
Fds == 0 .. FD_INICIAL_ARCHIVOS + MaxAbiertos
Pids == 1 .. MaxPid

\* The local variables of execute_open
Apertura == [pid : Pids, ruta : Rutas, flags : Permisos, referencia : 1 .. Cardinality(Rutas)]

ASSUME ArchivosAssumption ==
  /\ MaxPid \in Nat /\ MaxAbiertos \in Nat /\ Posiciones \subseteq Int
  /\ Permisos \subseteq SUBSET {"creacion", "lectura", "escritura"}
  /\ IsFiniteSet(Rutas) /\ Nada \notin Rutas /\ Nada \notin Apertura

VARIABLES
  pid,         \* the last process created, a global of Kernel.c
  vivos,       \* processes that are not in state Exit
  activos,     \* processes a CPU may still send requests of
  tabla_de_archivos_por_proceso,  \* [pid, current_fd, lista_de_archivos]
  tabla_global_de_archivos,       \* [ruta, instancias]
  abriendo,    \* the local variables of execute_open after the global table, or Nada
  enDisco,     \* paths that exist in the file server
  caido,       \* the Kernel has followed a pointer to no entry
  ultimo,      \* the last step, if it asked the file server and went well, or was a fault
               \* (history)
  rarezas      \* what the code is known to do wrong and has happened (history)

tablas == tabla_de_archivos_por_proceso
global == tabla_global_de_archivos
vars == <<pid, vivos, activos, tablas, global, abriendo, enDisco, caido, ultimo, rarezas>>

\* A descriptor.  Its ruta is not kept by the code: it is the file it was opened for.
Descriptor ==
  [fd : Fds, flags : Permisos, offset : Posiciones \cup {0},
   referencia : 1 .. Cardinality(Rutas), ruta : Rutas]
TablaDeProceso ==
  [pid : Pids, current_fd : Fds, lista_de_archivos : Seq(Descriptor)]

SinPedido == [op |-> "ninguno", pid |-> 0, fd |-> 0, ruta |-> Nada]

\* What the two tables become, with the code a function of the Kernel returns
Estado == [tablas |-> tablas, global |-> global, caido |-> caido,
           rarezas |-> rarezas, codigo |-> 0]

\* Position of the table of process p, and of a descriptor in a list; 0 if none
TablaDe(ts, p) == SelectInSeq(ts, LAMBDA t : t.pid = p)
Buscar(lista, fd) == SelectInSeq(lista, LAMBDA d : d.fd = fd)

-----------------------------------------------------------------------------
(* Closing *)

\* Mutant: the entry nobody has open stays
Soltar_SinQuitar(s, ref) ==
  [s EXCEPT !.global[ref].instancias = @ - 1, !.codigo = 1]

\* Mutant: an entry that another process has open is removed
Soltar_Ajeno(s, ref) ==
  IF ref \notin DOMAIN s.global THEN [s EXCEPT !.caido = TRUE]
  ELSE IF s.global[ref].instancias <= 2
  THEN [s EXCEPT !.global = RemoveAt(@, ref), !.codigo = 1,
                 !.rarezas = IF ref < Len(s.global) THEN @ \cup {"desplazada"} ELSE @]
  ELSE [s EXCEPT !.global[ref].instancias = @ - 1, !.codigo = 1]

\* The entry of a file that is closed.  Removing it moves those behind it, and the
\* descriptors that name them by position do not know.
Soltar(s, ref) ==
  IF ref \notin DOMAIN s.global THEN [s EXCEPT !.caido = TRUE]
  ELSE IF s.global[ref].instancias = 1
  THEN [s EXCEPT !.global = RemoveAt(@, ref), !.codigo = 1,
                 !.rarezas = IF ref < Len(s.global) THEN @ \cup {"desplazada"} ELSE @]
  ELSE [s EXCEPT !.global[ref].instancias = @ - 1, !.codigo = 1]

execute_close(s, p, fd) ==
  LET t == TablaDe(s.tablas, p)
      k == IF t = 0 THEN 0 ELSE Buscar(s.tablas[t].lista_de_archivos, fd)
  IN  IF s.caido THEN s
      ELSE IF t = 0 THEN [s EXCEPT !.codigo = -2]
      ELSE IF k = 0 THEN [s EXCEPT !.codigo = -12]
      ELSE Soltar([s EXCEPT !.tablas[t].lista_de_archivos = RemoveAt(@, k)],
                  s.tablas[t].lista_de_archivos[k].referencia)

\* The descriptor at position j when the loop gets there, if the list is still that long
CerrarUno(r, t, p, j) ==
  LET lista == r.tablas[t].lista_de_archivos
  IN  IF j > Len(lista) THEN r ELSE execute_close(r, p, lista[j].fd)

\* The loop, as many times as the list was long at first
CerrarTodos(s, t, p) ==
  LET n == Len(s.tablas[t].lista_de_archivos)
      tras[j \in 0 .. n] == IF j = 0 THEN s ELSE CerrarUno(tras[j - 1], t, p, j)
  IN  tras[n]

\* The table that is read, and removed at the end, is that of the last process created;
\* the descriptors that are closed are those of p with the same numbers.  When it is the
\* same table it shrinks as it is read, so every other descriptor is skipped.
borrarTablaDeArchivos(s, p) ==
  LET t == TablaDe(s.tablas, pid)
      fin == CerrarTodos(s, t, p)
      ajena == IF p # pid THEN {"tabla ajena"} ELSE {}
  IN  IF t = 0 THEN [s EXCEPT !.rarezas = @ \cup ajena]
      ELSE IF fin.caido THEN fin
      ELSE [fin EXCEPT !.tablas = RemoveAt(@, t),
                       !.rarezas = @ \cup ajena \cup
                          (IF fin.tablas[t].lista_de_archivos # <<>> THEN {"fuga"} ELSE {})]

\* end_process, as far as the files go: nothing if the process is in Exit already
end_process(s, p) == IF p \in vivos THEN borrarTablaDeArchivos(s, p) ELSE s

Queda(s) ==
  /\ tabla_de_archivos_por_proceso' = s.tablas /\ tabla_global_de_archivos' = s.global
  /\ caido' = s.caido /\ rarezas' = s.rarezas

-----------------------------------------------------------------------------
(* Requests of a CPU *)

Atiende(p) == ~caido /\ abriendo = Nada /\ p \in activos

\* The CPU is answered; anota is what the request was to the file server
Contesta(s, anota) ==
  /\ Queda(s) /\ ultimo' = anota
  /\ UNCHANGED <<vivos, activos>>

\* abort_process: the CPU is told that there was an error, and the process is ended
Aborta(s, p) ==
  /\ \E r \in {end_process(s, p)} : Queda(r)
  /\ vivos' = vivos \ {p} /\ activos' = activos \ {p}
  /\ ultimo' = SinPedido

\* The table obtener_tabla_archivos_proceso returns: when the process has none, a
\* variable that was never written, which is a pointer a previous call left or a fault.
TablasPosibles(p) ==
  LET t == TablaDe(tablas, p) IN IF t # 0 THEN {t} ELSE {0} \cup DOMAIN tablas

Muere(op, p, fd) ==
  Contesta([Estado EXCEPT !.caido = TRUE], [op |-> op, pid |-> p, fd |-> fd, ruta |-> Nada])

\* Mutant: the position is that of the last entry
EnGlobal_Ultima(ruta) ==
  LET i == SelectInSeq(global, LAMBDA a : a.ruta = ruta)
  IN  IF i # 0 THEN <<[global EXCEPT ![i].instancias = @ + 1], Len(global)>>
      ELSE <<Append(global, [ruta |-> ruta, instancias |-> 1]), Len(global) + 1>>

\* The global table with one more instance of a file, and the position of its entry
EnGlobal(ruta) ==
  LET i == SelectInSeq(global, LAMBDA a : a.ruta = ruta)
  IN  IF i # 0 THEN <<[global EXCEPT ![i].instancias = @ + 1], i>>
      ELSE <<Append(global, [ruta |-> ruta, instancias |-> 1]), Len(global) + 1>>

\* execute_open: the file server is asked, and may fail to create the file
execute_open(p, ruta, flags) ==
  /\ Atiende(p)
  /\ \A t \in TablasPosibles(p) \ {0} : tablas[t].current_fd < FD_INICIAL_ARCHIVOS + MaxAbiertos
  /\ UNCHANGED pid
  /\ \/ /\ ruta \in enDisco \/ "creacion" \in flags
        /\ enDisco' = enDisco \cup {ruta}
        /\ \E g \in {EnGlobal(ruta)} :
             /\ abriendo' = [pid |-> p, ruta |-> ruta, referencia |-> g[2], flags |-> flags]
             /\ tabla_global_de_archivos' = g[1]
        /\ ultimo' = SinPedido
        /\ UNCHANGED <<vivos, activos, tabla_de_archivos_por_proceso, caido, rarezas>>
     \/ /\ ruta \notin enDisco
        /\ Aborta(Estado, p)
        /\ UNCHANGED <<enDisco, abriendo>>

\* The tables with a descriptor more in one of them
MasDescriptor(x, d) == [x EXCEPT !.current_fd = d.fd, !.lista_de_archivos = Append(@, d)]
ConDescriptor(ts, t, d) == [ts EXCEPT ![t] = MasDescriptor(@, d)]

\* The end of execute_open: the descriptor
RegistrarApertura ==
  /\ ~caido /\ abriendo # Nada
  /\ \E t \in TablasPosibles(abriendo.pid) :
       IF t = 0 THEN Muere("abrir", abriendo.pid, 0)
       ELSE LET fd == tablas[t].current_fd + 1
                d == [fd |-> fd, flags |-> abriendo.flags, offset |-> 0,
                      referencia |-> abriendo.referencia, ruta |-> abriendo.ruta]
                s == [Estado EXCEPT !.tablas = ConDescriptor(@, t, d),
                                    !.rarezas = IF tablas[t].pid = abriendo.pid THEN @
                                                ELSE @ \cup {"tabla de otro"}]
            IN  /\ fd \in Fds
                /\ Contesta(s, SinPedido)
  /\ abriendo' = Nada
  /\ UNCHANGED <<pid, enDisco>>

\* The descriptor is searched in the table of the process, or in the one found in its place
move_cursor(p, fd, position) ==
  /\ Atiende(p)
  /\ UNCHANGED <<pid, abriendo, enDisco>>
  /\ \/ fd < 3 /\ Aborta(Estado, p)
     \/ /\ fd >= 3
        /\ \E t \in TablasPosibles(p) :
             IF t = 0 THEN Muere("mover", p, fd)
             ELSE LET k == Buscar(tablas[t].lista_de_archivos, fd)
                  IN  IF k = 0 THEN Aborta(Estado, p)
                      ELSE Contesta([Estado EXCEPT !.tablas[t].lista_de_archivos[k].offset = position],
                                    SinPedido)

\* A request to the file server about the file a descriptor names: with no entry at its
\* position, the Kernel follows a null pointer.
Pedir(d, op, p, fd) ==
  IF d.referencia \notin DOMAIN global THEN Muere(op, p, fd)
  ELSE Contesta(Estado, [op |-> op, pid |-> p, fd |-> fd, ruta |-> global[d.referencia].ruta])

\* The file server may fail (-14)
PedirLectura(d, p, fd) ==
  \/ Pedir(d, "leer", p, fd)
  \/ d.referencia \in DOMAIN global /\ Aborta(Estado, p)

\* The errors for a descriptor that is not valid, not open or not for reading are set and
\* overwritten by the answer of the server.  With none open for fd, the descriptor is a
\* variable never written: what an earlier call left, or a fault.
execute_read(p, fd) ==
  /\ Atiende(p)
  /\ UNCHANGED <<pid, abriendo, enDisco>>
  /\ \E t \in TablasPosibles(p) :
       IF t = 0 THEN Muere("leer", p, fd)
       ELSE LET k == Buscar(tablas[t].lista_de_archivos, fd)
                restos == UNION {Range(tablas[u].lista_de_archivos) : u \in DOMAIN tablas}
            IN  \/ k # 0 /\ PedirLectura(tablas[t].lista_de_archivos[k], p, fd)
                \/ k = 0 /\ Muere("leer", p, fd)
                \/ k = 0 /\ \E d \in restos : PedirLectura(d, p, fd)

PuedeEscribir(d) == "escritura" \in d.flags

\* Descriptor 1 is the Consola of the process, and 3 is none: nothing is written and no
\* error is given.  Any answer of the server that is not zero, so its errors too, is taken
\* as a success.
execute_write(p, fd) ==
  /\ Atiende(p)
  /\ UNCHANGED <<pid, abriendo, enDisco>>
  /\ \/ fd \in {1, 3} /\ Contesta(Estado, SinPedido)
     \/ fd \in {0, 2} /\ Aborta(Estado, p)
     \/ /\ fd > FD_INICIAL_ARCHIVOS
        /\ \E t \in TablasPosibles(p) :
             IF t = 0 THEN Muere("escribir", p, fd)
             ELSE LET k == Buscar(tablas[t].lista_de_archivos, fd)
                      d == tablas[t].lista_de_archivos[k]
                  IN  IF k = 0 THEN Aborta(Estado, p)
                      ELSE IF ~PuedeEscribir(d) THEN Aborta(Estado, p)
                      ELSE Pedir(d, "escribir", p, fd)

\* Closing descriptor 1 does nothing
CerrarArchivo(p, fd) ==
  /\ Atiende(p)
  /\ UNCHANGED <<pid, abriendo, enDisco>>
  /\ \E s \in {IF fd = 1 THEN [Estado EXCEPT !.codigo = 1] ELSE execute_close(Estado, p, fd)} :
       IF s.codigo < 0 THEN Aborta(s, p) ELSE Contesta(s, SinPedido)

\* Mutant: a file that several processes have open can be deleted
UnicaInstancia_NoMira(ref) == TRUE

UnicaInstancia(ref) == global[ref].instancias = 1

\* Deleting a file takes it from the disk and leaves its descriptor and its entry.  The
\* errors are returned in an unsigned variable: they are sent to the CPU, which ends the
\* process later, and never abort it here.
execute_delete(p, fd) ==
  /\ Atiende(p)
  /\ UNCHANGED <<pid, abriendo>>
  /\ LET t == TablaDe(tablas, p)
         k == IF t = 0 THEN 0 ELSE Buscar(tablas[t].lista_de_archivos, fd)
         ref == tablas[t].lista_de_archivos[k].referencia
     IN  \/ /\ k # 0 => ref \in DOMAIN global
            /\ Contesta(Estado, SinPedido)        \* -2, -12, -15 or -16
            /\ UNCHANGED enDisco
         \/ /\ k # 0 /\ ref \notin DOMAIN global
            /\ Muere("borrar", p, fd) /\ UNCHANGED enDisco
         \/ /\ k # 0 /\ ref \in DOMAIN global
            /\ UnicaInstancia(ref)
            /\ Contesta(Estado, [op |-> "borrar", pid |-> p, fd |-> fd, ruta |-> global[ref].ruta])
            /\ enDisco' = enDisco \ {global[ref].ruta}

-----------------------------------------------------------------------------
(* Life of the processes *)

create_PCB ==
  /\ ~caido /\ abriendo = Nada /\ pid < MaxPid
  /\ pid' = pid + 1
  /\ vivos' = vivos \cup {pid'} /\ activos' = activos \cup {pid'}
  /\ tabla_de_archivos_por_proceso' =
       Append(tablas, [pid |-> pid', current_fd |-> FD_INICIAL_ARCHIVOS, lista_de_archivos |-> <<>>])
  /\ ultimo' = SinPedido
  /\ UNCHANGED <<tabla_global_de_archivos, abriendo, enDisco, caido, rarezas>>

\* The end of a process, by the thread that serves the CPUs and the Consolas
Terminar(p) ==
  /\ Atiende(p)
  /\ \E s \in {end_process(Estado, p)} : Queda(s)
  /\ vivos' = vivos \ {p} /\ activos' = activos \ {p}
  /\ ultimo' = SinPedido
  /\ UNCHANGED <<pid, abriendo, enDisco>>

\* The command of the Kernel's console that ends a process.  It takes it out of the
\* queues, but one that a CPU is executing goes on asking.
finish_process(p) ==
  /\ ~caido /\ p \in vivos
  /\ \E s \in {end_process(Estado, p)} : Queda(s)
  /\ vivos' = vivos \ {p} /\ activos' \in {activos, activos \ {p}}
  /\ abriendo # Nada => activos' = activos
  /\ ultimo' = SinPedido
  /\ UNCHANGED <<pid, abriendo, enDisco>>

Init ==
  /\ pid = 0 /\ vivos = {} /\ activos = {}
  /\ tabla_de_archivos_por_proceso = <<>> /\ tabla_global_de_archivos = <<>>
  /\ abriendo = Nada /\ enDisco \in SUBSET Rutas
  /\ caido = FALSE /\ ultimo = SinPedido /\ rarezas = {}

Next ==
  \/ create_PCB
  \/ RegistrarApertura
  \/ \E p \in Pids :
       \/ \E ruta \in Rutas, flags \in Permisos : execute_open(p, ruta, flags)
       \/ \E fd \in Fds :
            \/ \E position \in Posiciones : move_cursor(p, fd, position)
            \/ execute_read(p, fd)
            \/ execute_write(p, fd)
            \/ CerrarArchivo(p, fd)
            \/ execute_delete(p, fd)
       \/ Terminar(p)
       \/ finish_process(p)

Spec == Init /\ [][Next]_vars

-----------------------------------------------------------------------------
(* Properties *)

TypeOK ==
  /\ pid \in 0 .. MaxPid /\ vivos \subseteq 1 .. pid /\ activos \subseteq 1 .. pid
  /\ tabla_de_archivos_por_proceso \in Seq(TablaDeProceso)
  /\ tabla_global_de_archivos \in Seq([ruta : Rutas, instancias : Nat \ {0}])
  /\ abriendo \in Apertura \cup {Nada}
  /\ enDisco \subseteq Rutas /\ caido \in BOOLEAN
  /\ ultimo \in [op : {"ninguno", "abrir", "mover", "leer", "escribir", "borrar"},
                 pid : 0 .. MaxPid, fd : Fds, ruta : Rutas \cup {Nada}]
  /\ rarezas \subseteq {"desplazada", "fuga", "tabla ajena", "tabla de otro"}

DescriptoresDe(p) == UNION {Range(t.lista_de_archivos) : t \in {u \in Range(tablas) : u.pid = p}}

\* Where an entry of the global table is named from
Nombres(i) ==
  {n \in (DOMAIN tablas) \X (1 .. MaxAbiertos * MaxPid) :
     LET lista == tablas[n[1]].lista_de_archivos
     IN  n[2] \in DOMAIN lista /\ lista[n[2]].referencia = i}
Instancias(i) ==
  Cardinality(Nombres(i)) + (IF abriendo # Nada /\ abriendo.referencia = i THEN 1 ELSE 0)

\* Until an entry that is not the last leaves the global table, every descriptor, and the
\* one being made, names the entry of the file it was opened for: an entry is not removed
\* while a descriptor names it, whoever closes and whatever is ended meanwhile
\* (execute_open, execute_close, borrarTablaDeArchivos).
DescriptorFiel ==
  "desplazada" \notin rarezas =>
    /\ \A p \in Pids : \A d \in DescriptoresDe(p) :
         d.referencia \in DOMAIN global /\ global[d.referencia].ruta = d.ruta
    /\ abriendo # Nada =>
         abriendo.referencia \in DOMAIN global /\ global[abriendo.referencia].ruta = abriendo.ruta

\* An entry counts at least the descriptors that name it, and exactly those unless a
\* table was thrown away with descriptors in it.
CuentaDeInstancias ==
  "desplazada" \notin rarezas /\ ~caido =>
    \A i \in DOMAIN global :
      /\ Instancias(i) <= global[i].instancias
      /\ "fuga" \notin rarezas => Instancias(i) = global[i].instancias

\* While only the last process created has ended, the processes alive are those that have
\* a table (create_PCB, borrarTablaDeArchivos).
TablaDeCadaUno ==
  "tabla ajena" \notin rarezas /\ ~caido => vivos = {t.pid : t \in Range(tablas)}

\* A request to the file server that the CPU is told went well is about the file that the
\* process has open with that descriptor, and a write is of one opened for writing, unless
\* an entry moved or the process has not its own table.
PedidoJustificado ==
  /\ ultimo.ruta # Nada /\ "desplazada" \notin rarezas
  /\ TablaDe(tablas, ultimo.pid) # 0
  /\ Buscar(tablas[TablaDe(tablas, ultimo.pid)].lista_de_archivos, ultimo.fd) = 0
       => ultimo.op # "leer"
  => \E d \in DescriptoresDe(ultimo.pid) :
       /\ d.fd = ultimo.fd /\ d.ruta = ultimo.ruta
       /\ ultimo.op = "escribir" => "escritura" \in d.flags

\* The three tables agree: each process has its own, a descriptor stands for the file
\* it was opened for, in the tables and in what is asked of the file server, and the
\* global table counts who names each entry.
TablasAcordes ==
  TablaDeCadaUno /\ DescriptorFiel /\ CuentaDeInstancias /\ PedidoJustificado

\* A file leaves the disk only when one descriptor has it open, in all the processes.
BorradoSinOtros ==
  [][\A ruta \in enDisco \ enDisco' : "desplazada" \notin rarezas =>
       Cardinality({n \in Pids \X UNION {DescriptoresDe(q) : q \in Pids} :
                      n[2] \in DescriptoresDe(n[1]) /\ n[2].ruta = ruta}) = 1]_vars

\* The Kernel follows no null pointer for a descriptor that is open in the table of its
\* process, until an entry moves.
KernelEnPie ==
  caido => \/ "desplazada" \in rarezas
           \/ TablaDe(tablas, ultimo.pid) = 0
           \/ /\ ultimo.op = "leer"
              /\ Buscar(tablas[TablaDe(tablas, ultimo.pid)].lista_de_archivos, ultimo.fd) = 0

=============================================================================
