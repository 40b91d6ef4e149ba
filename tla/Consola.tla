------------------------------ MODULE Consola ------------------------------
(***************************************************************************)
(* The Consola (Consola/Consola.c) and the end of its connections in the   *)
(* Kernel (Kernel/Kernel.c).                                               *)
(*                                                                         *)
(* Each program has a thread and a connection of its own; the command end  *)
(* opens one more.  The threads are told apart by a number that is the     *)
(* size of the list of threads plus one, and leave the list looking for    *)
(* that number, element by element, each under a separate lock.  In the    *)
(* Kernel, main serves one message of a connection at a time; what the     *)
(* processes do there is reduced to what the Consola gets to know.         *)
(***************************************************************************)
EXTENDS Integers, Sequences, FiniteSets, SequencesExt

CONSTANTS
  Hilos,           \* threads: the programs the user starts
  Fin,             \* the connection of the command end
  Cpus,            \* how many CPUs there are
  PidPrevios,      \* programs that came and went before
  MaxImpresiones,  \* lines the programs print
  MaxOrdenes,      \* commands end, dcon or exit the user gives
  Nada             \* buscar_consola_de_proceso found none (-1)

ASSUME ConsolaAssumption ==
  /\ IsFiniteSet(Hilos) /\ Fin \notin Hilos
  /\ Nada \notin Hilos \cup {Fin}
  /\ {Cpus, PidPrevios, MaxImpresiones, MaxOrdenes} \subseteq Nat

Conexiones == Hilos \cup {Fin}

Pids == PidPrevios + 1 .. PidPrevios + Cardinality(Hilos)

VARIABLES
  consola,      \* the process: "viva", "caida" (a null element of the list) or "salio"
  hilo,         \* the threads: where each is, its number, its program...
  thread_list,
  principal,    \* main: where it is, and its loop over the list
  conexion,     \* the connections, as the Consola leaves them
  alKernel,     \* what the Consola has sent and the Kernel has not read
  kernel,       \* see Estructuras
  rarezas,      \* what has happened that the code does not expect (see Rarezas)
  veces         \* lines printed and disconnections so far (bounds the instance)

vars == <<consola, hilo, thread_list, principal, conexion, alKernel, kernel, rarezas, veces>>

\*   "numero repetido"   a thread is given the number of another one
\*   "a la vez"          two threads walk the list, and one may remove meanwhile
\*   "cruzada"           a handshake is answered when another connection came later
\*   "dos marcas"        a process that is to be ended is to be ended again
\*   "aborto de un marcado"   a burst fails in a process that is to be ended
\*   "rechazo desde New" memory has no room for a program that was told its pid
Rarezas == {"numero repetido", "a la vez", "cruzada", "dos marcas",
            "aborto de un marcado", "rechazo desde New"}

\* What follows the code 5: the length of the line, and its text
Largo == 100
Texto == 200

\* Codes and process ids share the connection
Mensajes == {-1, 0, 1, 5, 6, 7, Largo, Texto} \cup Pids

Estructuras ==
  [vivo           : BOOLEAN,
   newfd          : Conexiones \cup {Nada},                    \* the last accepted
   lista_consolas : Seq([sock : Conexiones, proceso : Nat]),
   borrar         : Seq([proceso : Pids, exit_code : {-6, -7}, \* procesos_a_borrar
                         connection : BOOLEAN, askeadora : Conexiones]),
   pid            : Nat,
   nuevos         : Seq([pid : Pids, fd : Conexiones]),        \* new_queue
   estado         : [Pids -> {"NoExiste", "New", "Listo", "Exec", "Exit"}],
   fd_consola     : [Pids -> Hilos \cup {Nada}],               \* whose program it is
   terminados     : SUBSET Pids,                               \* ended some time
   canal          : [Conexiones -> Seq(Mensajes)],             \* sent to the Consola
   rotas          : SUBSET Conexiones]                         \* sent to after closing

EnBlanco ==
  [vivo |-> TRUE, newfd |-> Nada, lista_consolas |-> <<>>, borrar |-> <<>>,
   pid |-> PidPrevios, nuevos |-> <<>>, estado |-> [p \in Pids |-> "NoExiste"],
   fd_consola |-> [p \in Pids |-> Nada], terminados |-> {},
   canal |-> [c \in Conexiones |-> <<>>], rotas |-> {}]

Lugares == {"libre", "espera_pid", "recibe", "lee_texto",
            "remueve", "mira", "saca", "fin"}

\* Between list_add and the end of remover_de_lista
EnLista == {"recibe", "lee_texto", "remueve", "mira", "saca"}

Remueven == {h \in Hilos : hilo[h].en \in {"mira", "saca"}}

Vivos == {h \in Hilos : hilo[h].en \notin {"libre", "fin"}}

Rareza(nombre, cuando) == rarezas' = IF cuando THEN rarezas \cup {nombre} ELSE rarezas

-----------------------------------------------------------------------------
(* The Kernel *)

\* The Kernel falls, and what it kept with it
Muere(k) == [EnBlanco EXCEPT !.vivo = FALSE, !.canal = k.canal, !.terminados = Pids]

\* Mutant: any entry will do
buscar_consola_de_proceso_Primera(k, p) ==
  IF k.lista_consolas = <<>> THEN Nada ELSE k.lista_consolas[1].sock

buscar_consola_de_proceso(k, p) ==
  LET I == {i \in DOMAIN k.lista_consolas : k.lista_consolas[i].proceso = p}
  IN  IF I = {} THEN Nada ELSE k.lista_consolas[Min(I)].sock

\* A send to a connection that the other end has closed is lost; the next one
\* raises SIGPIPE, and the Kernel does not handle it
Envia(k, c, mensajes) ==
  IF c = Nada \/ conexion[c] = "quitada" THEN k
  ELSE IF conexion[c] = "abierta" THEN [k EXCEPT !.canal[c] = @ \o mensajes]
  ELSE IF c \in k.rotas THEN Muere(k)
  ELSE [k EXCEPT !.rotas = @ \cup {c}]

\* Mutant: only the one who asked is told
end_process_SinAvisar(k, p, exit_code, sock, conectada) ==
  IF k.estado[p] = "Exit"
  THEN IF conectada /\ exit_code = -7 THEN Envia(k, sock, <<0>>) ELSE k
  ELSE LET sin == [k EXCEPT !.estado[p] = "Exit", !.terminados = @ \cup {p}]
       IN  IF conectada THEN Envia(sin, sock, <<1>>) ELSE sin

\* The Consola of the process is told 6 or 7, and who asked for its end 1; 0 when
\* it had already ended.  A process of New stays in new_queue.
end_process(k, p, exit_code, sock, conectada) ==
  IF k.estado[p] = "Exit"
  THEN IF conectada /\ exit_code = -7 THEN Envia(k, sock, <<0>>) ELSE k
  ELSE LET sin    == [k EXCEPT !.estado[p] = "Exit", !.terminados = @ \cup {p}]
           codigo == IF exit_code = 0 THEN 6 ELSE 7
       IN  IF conectada
           THEN Envia(Envia(sin, buscar_consola_de_proceso(sin, p), <<codigo>>), sock, <<1>>)
           ELSE sin

Marcas(p) == {i \in DOMAIN kernel.borrar : kernel.borrar[i].proceso = p}

proceso_para_borrar(p) == Marcas(p) # {}

\* Mutant: the exit code without its sign
Marcar_SinSigno(k, p, exit_code, conectada, c) ==
  [k EXCEPT !.borrar = Append(@, [proceso |-> p, exit_code |-> -exit_code,
                                  connection |-> conectada, askeadora |-> c])]

Marcar(k, p, exit_code, conectada, c) ==
  [k EXCEPT !.borrar = Append(@, [proceso |-> p, exit_code |-> exit_code,
                                  connection |-> conectada, askeadora |-> c])]

\* What the Kernel does leaves the Consola where it is
DelKernel == kernel.vivo /\ UNCHANGED <<consola, hilo, thread_list, principal>>

\* main has read the first message of the connection
Lee(c, mensaje) ==
  /\ conexion[c] \in {"abierta", "cerrada"}
  /\ alKernel[c] # <<>> /\ Head(alKernel[c])[1] = mensaje
  /\ alKernel' = [alKernel EXCEPT ![c] = Tail(@)]
  /\ UNCHANGED <<conexion, veces>>

sock_accept_new_connection(c) ==
  /\ DelKernel
  /\ alKernel[c] # <<>> /\ Head(alKernel[c])[1] = "connect"
  /\ alKernel' = [alKernel EXCEPT ![c] = Tail(@)]
  /\ kernel' = [kernel EXCEPT !.newfd = c]
  /\ UNCHANGED <<conexion, rarezas, veces>>

\* What is listed is the last connection accepted, not the one that speaks
Handshake(c) ==
  /\ DelKernel /\ Lee(c, "handshake")
  /\ kernel' = [kernel EXCEPT !.lista_consolas =
                                Append(@, [sock |-> kernel.newfd, proceso |-> 0])]
  /\ Rareza("cruzada", kernel.newfd # c)

Posiciones(c) == {i \in DOMAIN kernel.lista_consolas : kernel.lista_consolas[i].sock = c}

\* create_PCB: the connection of the program is listed again, with its pid.  It
\* does not look whether there is one.
create_PCB(c) ==
  [kernel EXCEPT
     !.pid = @ + 1, !.fd_consola[kernel.pid + 1] = c,
     !.lista_consolas = Append(RemoveAt(@, Min(Posiciones(c))),
                               [sock |-> c, proceso |-> kernel.pid + 1])]

\* A script arrives: it is admitted, refused by memory, or waits in New; the
\* Consola is told its pid, or -1.  With planning off there is no process.
NuevoPrograma(c) ==
  /\ DelKernel /\ Lee(c, "script")
  /\ LET k == create_PCB(c)
         p == k.pid
     IN  IF Posiciones(c) = {} THEN kernel' = Muere(kernel)
         ELSE \/ kernel' = Envia([k EXCEPT !.estado[p] = "Listo"], c, <<p>>)
              \/ kernel' = Envia([k EXCEPT !.estado[p] = "Exit", !.terminados = @ \cup {p}],
                                 c, <<-1>>)
              \/ kernel' = Envia([k EXCEPT !.estado[p] = "New",
                                           !.nuevos = Append(@, [pid |-> p, fd |-> c])],
                                 c, <<p>>)
              \/ kernel' = Envia(kernel, c, <<-1>>)
  /\ UNCHANGED rarezas

\* guardado_en_memoria for a process of New: its Consola is told the pid again
AdmitirDeNew ==
  /\ DelKernel /\ kernel.nuevos # <<>>
  /\ LET n == Head(kernel.nuevos)
         k == [kernel EXCEPT !.nuevos = Tail(@)]
     IN  \/ /\ kernel' = Envia([k EXCEPT !.estado[n.pid] = "Listo"], n.fd, <<n.pid>>)
            /\ UNCHANGED rarezas
         \/ /\ kernel' = Envia([k EXCEPT !.estado[n.pid] = "Exit",
                                         !.terminados = @ \cup {n.pid}], n.fd, <<-1>>)
            /\ Rareza("rechazo desde New", TRUE)
  /\ UNCHANGED <<conexion, alKernel, veces>>

Despachar(p) ==
  /\ DelKernel /\ kernel.estado[p] = "Listo"
  /\ Cardinality({q \in Pids : kernel.estado[q] = "Exec"}) < Cpus
  /\ kernel' = [kernel EXCEPT !.estado[p] = "Exec"]
  /\ UNCHANGED <<conexion, alKernel, rarezas, veces>>

\* execute_write on descriptor 1
Imprimir(p) ==
  /\ DelKernel /\ kernel.estado[p] = "Exec" /\ veces.impresiones < MaxImpresiones
  /\ kernel' = Envia(kernel, buscar_consola_de_proceso(kernel, p), <<5, Largo, Texto>>)
  /\ veces' = [veces EXCEPT !.impresiones = @ + 1]
  /\ UNCHANGED <<conexion, alKernel, rarezas>>

\* The first mark of the process says how it ends and who is told
PorMarca(p) ==
  LET i    == Min(Marcas(p))
      peide == kernel.borrar[i]
  IN  end_process([kernel EXCEPT !.borrar = RemoveAt(@, i)], p, peide.exit_code,
                  IF peide.exit_code = -7 THEN peide.askeadora
                  ELSE buscar_consola_de_proceso(kernel, p),
                  peide.connection)

FinDeRafaga(p) ==
  /\ DelKernel /\ kernel.estado[p] = "Exec"
  /\ kernel' = IF proceso_para_borrar(p) THEN PorMarca(p)
               ELSE [kernel EXCEPT !.estado[p] = "Listo"]
  /\ UNCHANGED <<conexion, alKernel, rarezas, veces>>

Finalizado(p) ==
  /\ DelKernel /\ kernel.estado[p] = "Exec"
  /\ kernel' = IF proceso_para_borrar(p) THEN PorMarca(p)
               ELSE end_process(kernel, p, 0, buscar_consola_de_proceso(kernel, p), TRUE)
  /\ UNCHANGED <<conexion, alKernel, rarezas, veces>>

\* abort_process, a burst that fails or a CPU that is gone: nobody looks at the
\* marks, but for abort_process, which tells no Consola when the mark is not the
\* first of the list
Abortar(p) ==
  /\ DelKernel /\ kernel.estado[p] = "Exec"
  /\ \E avisa \in {TRUE, ~(proceso_para_borrar(p) /\ Min(Marcas(p)) > 1)} :
       kernel' = end_process(kernel, p, -20, buscar_consola_de_proceso(kernel, p), avisa)
  /\ Rareza("aborto de un marcado", proceso_para_borrar(p))
  /\ UNCHANGED <<conexion, alKernel, veces>>

\* Ends the process, or marks it while it executes
Terminar(k, p, exit_code, conectada, c) ==
  IF k.estado[p] = "Exec" THEN Marcar(k, p, exit_code, conectada, c)
  ELSE end_process(k, p, exit_code, c, conectada)

SegundaMarca(p) ==
  Rareza("dos marcas", p \in Pids /\ kernel.estado[p] = "Exec" /\ proceso_para_borrar(p))

EliminarProceso(c) ==
  /\ DelKernel /\ Lee(c, "eliminar")
  /\ LET p == Head(alKernel[c])[2]
     IN  kernel' = Terminar(kernel, p, -7, TRUE, c) /\ SegundaMarca(p)

\* Mutant: the process that executes is not marked
Desconectar_SinMarcar(c) ==
  /\ DelKernel /\ conexion[c] = "cerrada" /\ alKernel[c] = <<>>
  /\ conexion' = [conexion EXCEPT ![c] = "quitada"]
  /\ LET i == Min(Posiciones(c))
         p == kernel.lista_consolas[i].proceso
         k == [kernel EXCEPT !.lista_consolas = RemoveAt(@, i), !.rotas = @ \ {c}]
     IN  /\ kernel' = IF Posiciones(c) = {} THEN Muere(kernel)
                      ELSE IF p \in Pids /\ kernel.estado[p] # "Exec"
                      THEN end_process(k, p, -6, c, FALSE) ELSE k
         /\ UNCHANGED rarezas
  /\ UNCHANGED <<alKernel, veces>>

\* 0 bytes from a connection: its program is ended.  A connection that is not
\* listed is looked up all the same, and the -1 found is followed as a pointer.
Desconectar(c) ==
  /\ DelKernel /\ conexion[c] = "cerrada" /\ alKernel[c] = <<>>
  /\ conexion' = [conexion EXCEPT ![c] = "quitada"]
  /\ LET i == Min(Posiciones(c))
         p == kernel.lista_consolas[i].proceso
         k == [kernel EXCEPT !.lista_consolas = RemoveAt(@, i), !.rotas = @ \ {c}]
     IN  IF Posiciones(c) = {}
         THEN kernel' = Muere(kernel) /\ UNCHANGED rarezas
         ELSE /\ kernel' = IF p \in Pids THEN Terminar(k, p, -6, FALSE, c) ELSE k
              /\ SegundaMarca(p)
  /\ UNCHANGED <<alKernel, veces>>

DeLaConexion(c) ==
  \/ sock_accept_new_connection(c) \/ Handshake(c) \/ NuevoPrograma(c)
  \/ EliminarProceso(c) \/ Desconectar(c)

FinDeTurno(p) == FinDeRafaga(p) \/ Finalizado(p) \/ Abortar(p)

-----------------------------------------------------------------------------
(* The Consola: the threads *)

DeLaConsola == consola = "viva" /\ UNCHANGED <<consola, kernel, veces>>

Libre == [en |-> "libre", numero |-> 0, pid |-> 0, i |-> 0, dimension |-> 0,
          avisado |-> FALSE]

Va(h, lugar) == hilo' = [hilo EXCEPT ![h].en = lugar]

\* The thread ends, and its hilo_t is freed
Acabado == [Libre EXCEPT !.en = "fin"]

Deja(h) == hilo' = [hilo EXCEPT ![h] = Acabado]

Abre(c, mensajes) ==
  /\ conexion' = [conexion EXCEPT ![c] = "abierta"]
  /\ alKernel' = [alKernel EXCEPT ![c] = <<<<"connect">>, <<"handshake">>>> \o mensajes]

Corta(C) == conexion' = [c \in Conexiones |-> IF c \in C /\ conexion[c] = "abierta"
                                              THEN "cerrada" ELSE conexion[c]]

Cierra(c) == Corta({c})

EnMenu == principal.en = "menu"

EnReposo(lugar) == [en |-> lugar, i |-> 0, dimension |-> 0, sale |-> FALSE]

NumeroNuevo == Len(thread_list) + 1

\* The number is that of another thread when one of them is not listed yet, or
\* when one listed before it has left.  The thread connects, shakes hands and sends
\* the script; when the file is missing it ends and leaves its connection open.
\* (What it does first nobody sees before the Kernel accepts the connection.)
iniciar_programa(h) ==
  /\ DeLaConsola /\ EnMenu /\ hilo[h].en = "libre" /\ kernel.vivo
  /\ \/ /\ Abre(h, <<<<"script">>>>)
        /\ hilo' = [hilo EXCEPT ![h].en = "espera_pid", ![h].numero = NumeroNuevo]
     \/ Abre(h, <<>>) /\ Deja(h)
  /\ Rareza("numero repetido", \E g \in Vivos : hilo[g].numero = NumeroNuevo)
  /\ UNCHANGED <<thread_list, principal>>

\* recv: the next message, or 0 bytes after a shutdown or when the Kernel is gone
HayMensaje(h) == kernel.canal[h] # <<>>

SinOtroExtremo(h) == conexion[h] # "abierta" \/ ~kernel.vivo

CeroBytes(h) == kernel.canal[h] = <<>> /\ SinOtroExtremo(h)

\* One step of a thread that reads
Recibe(h) ==
  /\ consola = "viva" /\ UNCHANGED consola
  /\ kernel' = IF HayMensaje(h) THEN [kernel EXCEPT !.canal[h] = Tail(@)] ELSE kernel
  /\ UNCHANGED <<veces, rarezas, principal, alKernel>>

\* Listed only once the pid has come
RecibirPid(h) ==
  /\ hilo[h].en = "espera_pid" /\ Recibe(h)
  /\ \/ /\ HayMensaje(h) /\ Head(kernel.canal[h]) > 0
        /\ hilo' = [hilo EXCEPT ![h].en = "recibe", ![h].pid = Head(kernel.canal[h])]
        /\ thread_list' = Append(thread_list, h)
        /\ UNCHANGED conexion
     \/ /\ CeroBytes(h) \/ (HayMensaje(h) /\ Head(kernel.canal[h]) <= 0)
        /\ Deja(h) /\ Cierra(h)
        /\ UNCHANGED thread_list

\* The loop of script_thread: 5 prints, 6 and 7 end, anything else is ignored
CodigoRecibido(h) ==
  /\ hilo[h].en = "recibe" /\ Recibe(h) /\ HayMensaje(h)
  /\ LET codigo == Head(kernel.canal[h])
     IN  hilo' = CASE codigo = 5 -> [hilo EXCEPT ![h].en = "lee_texto"]
                   [] codigo \in {6, 7} -> [hilo EXCEPT ![h].en = "remueve",
                                                        ![h].avisado = TRUE]
                   [] OTHER -> hilo
  /\ UNCHANGED <<thread_list, conexion>>

\* The length and the text of a line
MensajeRecibido(h) ==
  /\ consola = "viva" /\ hilo[h].en = "lee_texto" /\ Len(kernel.canal[h]) > 1
  /\ kernel' = [kernel EXCEPT !.canal[h] = SubSeq(@, 3, Len(@))]
  /\ Va(h, "recibe")
  /\ UNCHANGED <<consola, thread_list, principal, conexion, alKernel, rarezas, veces>>

SinConexion(h) ==
  /\ \/ hilo[h].en = "recibe" /\ CeroBytes(h)
     \/ hilo[h].en = "lee_texto" /\ Len(kernel.canal[h]) < 2 /\ SinOtroExtremo(h)
  /\ DeLaConsola
  /\ Va(h, "remueve")
  /\ UNCHANGED <<thread_list, principal, conexion, alKernel, rarezas>>

\* The rest of script_thread, once remover_de_lista is done
Cerrar(h) == Deja(h) /\ Cierra(h) /\ kernel' = [kernel EXCEPT !.canal[h] = <<>>]

\* remover_de_lista: the size of the list, then an element at a time, then the
\* removal, each under thlist_mutex but not together
PasoEnLista == consola = "viva" /\ UNCHANGED <<consola, principal, alKernel, veces>>

Mira(h, i) ==
  /\ hilo' = [hilo EXCEPT ![h].en = "mira", ![h].i = i, ![h].dimension =
                             IF hilo[h].en = "mira" THEN @ ELSE Len(thread_list)]
  /\ UNCHANGED <<conexion, kernel>>

TomarDimension(h) ==
  /\ hilo[h].en = "remueve" /\ PasoEnLista
  /\ IF thread_list = <<>> THEN Cerrar(h) ELSE Mira(h, 1)
  /\ Rareza("a la vez", Remueven # {} \/ principal.en = "dcon")
  /\ UNCHANGED thread_list

\* The element of a thread that has ended is freed memory: any number
Coincide(g, h) == IF hilo[g].en = "fin" THEN BOOLEAN
                  ELSE {hilo[g].numero = hilo[h].numero}

\* The Consola falls: every thread with it, and every connection is closed
Caen(como) ==
  /\ consola' = como
  /\ hilo' = [h \in Hilos |-> IF hilo[h].en = "libre" THEN hilo[h]
                              ELSE Acabado]
  /\ Corta(Conexiones)
  /\ principal' = EnReposo("fin")
  /\ thread_list' = <<>>
  /\ kernel' = [kernel EXCEPT !.canal = [c \in Conexiones |-> <<>>]]
  /\ UNCHANGED <<alKernel, rarezas>>

\* list_get past the end of the list is NULL, and it is followed
MirarEntrada(h) ==
  LET i == hilo[h].i
  IN  /\ hilo[h].en = "mira" /\ consola = "viva"
      /\ \/ i > Len(thread_list) /\ Caen("caida") /\ UNCHANGED veces
         \/ /\ i <= Len(thread_list) /\ PasoEnLista
            /\ \/ /\ TRUE \in Coincide(thread_list[i], h)
                  /\ Va(h, "saca") /\ UNCHANGED <<conexion, kernel>>
               \/ /\ FALSE \in Coincide(thread_list[i], h)
                  /\ IF i = hilo[h].dimension THEN Cerrar(h) ELSE Mira(h, i + 1)
            /\ UNCHANGED <<thread_list, rarezas>>

\* Mutant: the position counted from one
SacarEntrada_Corrida(h) ==
  /\ hilo[h].en = "saca" /\ PasoEnLista
  /\ thread_list' = IF hilo[h].i < Len(thread_list) THEN RemoveAt(thread_list, hilo[h].i + 1)
                    ELSE thread_list
  /\ Cerrar(h)
  /\ UNCHANGED rarezas

\* list_remove of a position that is not there any more does nothing
SacarEntrada(h) ==
  /\ hilo[h].en = "saca" /\ PasoEnLista
  /\ thread_list' = IF hilo[h].i <= Len(thread_list) THEN RemoveAt(thread_list, hilo[h].i)
                    ELSE thread_list
  /\ Cerrar(h)
  /\ UNCHANGED rarezas

Paso(h) ==
  \/ RecibirPid(h) \/ CodigoRecibido(h) \/ MensajeRecibido(h) \/ SinConexion(h)
  \/ TomarDimension(h) \/ MirarEntrada(h) \/ SacarEntrada(h)

-----------------------------------------------------------------------------
(* The Consola: main *)

\* A command that the instance allows: after the first, only while nothing odd has
\* happened
Orden ==
  /\ veces.ordenes < MaxOrdenes /\ (veces.ordenes = 0 \/ rarezas = {})
  /\ veces' = [veces EXCEPT !.ordenes = @ + 1]

\* end: a connection for the request, and main waits for the answer
finalizar_programa(p) ==
  /\ consola = "viva" /\ EnMenu /\ Orden /\ UNCHANGED <<consola, kernel>>
  /\ kernel.vivo /\ conexion[Fin] = "nada" /\ p <= kernel.pid
  /\ Abre(Fin, <<<<"eliminar", p>>>>)
  /\ principal' = EnReposo("espera")
  /\ UNCHANGED <<hilo, thread_list, rarezas>>

RecibirRespuesta ==
  /\ consola = "viva" /\ principal.en = "espera"
  /\ HayMensaje(Fin) \/ CeroBytes(Fin)
  /\ kernel' = [kernel EXCEPT !.canal[Fin] = <<>>]
  /\ principal' = EnReposo("menu")
  /\ Cierra(Fin)
  /\ UNCHANGED <<consola, hilo, thread_list, alKernel, rarezas, veces>>

\* dcon, and exit when there is something in the list
desconectar_consola(saliendo) ==
  /\ consola = "viva" /\ EnMenu /\ thread_list # <<>>
  /\ Orden
  /\ principal' = [en |-> "dcon", i |-> 1, dimension |-> Len(thread_list), sale |-> saliendo]
  /\ Rareza("a la vez", Remueven # {})
  /\ UNCHANGED <<consola, hilo, thread_list, conexion, alKernel, kernel>>

Alcanzadas(h) == IF hilo[h].en = "fin" THEN {{}} \cup {{g} : g \in Hilos} ELSE {{h}}

\* shutdown of one connection of the list.  That of a thread that has ended is
\* freed memory: nothing is closed, or any of the connections.  After the last one,
\* exit ends the program.
DesconectarHilo ==
  LET i == principal.i
      ultimo == i = principal.dimension
  IN  /\ consola = "viva" /\ principal.en = "dcon" /\ UNCHANGED veces
      /\ \/ i > Len(thread_list) /\ Caen("caida")
         \/ /\ i <= Len(thread_list) /\ ultimo /\ principal.sale
            /\ Caen("salio")
         \/ /\ i <= Len(thread_list) /\ ~(ultimo /\ principal.sale)
            /\ \E C \in Alcanzadas(thread_list[i]) : Corta(C)
            /\ principal' = IF ultimo THEN EnReposo("menu") ELSE [principal EXCEPT !.i = i + 1]
            /\ UNCHANGED <<consola, hilo, thread_list, alKernel, kernel, rarezas>>

\* exit, with nothing in the list
Salir ==
  /\ consola = "viva" /\ EnMenu /\ thread_list = <<>> /\ Orden
  /\ Caen("salio")

MainSigue == RecibirRespuesta \/ DesconectarHilo

-----------------------------------------------------------------------------
Init ==
  /\ consola = "viva"
  /\ hilo = [h \in Hilos |-> Libre]
  /\ thread_list = <<>>
  /\ principal = EnReposo("menu")
  /\ conexion = [c \in Conexiones |-> "nada"]
  /\ alKernel = [c \in Conexiones |-> <<>>]
  /\ kernel = EnBlanco
  /\ rarezas = {}
  /\ veces = [impresiones |-> 0, ordenes |-> 0]

Next ==
  \/ \E c \in Conexiones : DeLaConexion(c)
  \/ AdmitirDeNew
  \/ \E p \in Pids : Despachar(p) \/ Imprimir(p) \/ FinDeTurno(p) \/ finalizar_programa(p)
  \/ \E h \in Hilos : iniciar_programa(h) \/ Paso(h)
  \/ MainSigue \/ Salir
  \/ \E saliendo \in BOOLEAN : desconectar_consola(saliendo)

Spec == Init /\ [][Next]_vars

-----------------------------------------------------------------------------
TypeOK ==
  /\ consola \in {"viva", "caida", "salio"}
  /\ hilo \in [Hilos -> [en : Lugares, numero : Nat, pid : Pids \cup {0}, i : Nat,
                         dimension : Nat, avisado : BOOLEAN]]
  /\ thread_list \in Seq(Hilos)
  /\ principal \in [en : {"menu", "espera", "dcon", "fin"}, i : Nat, dimension : Nat,
                    sale : BOOLEAN]
  /\ conexion \in [Conexiones -> {"nada", "abierta", "cerrada", "quitada"}]
  /\ \A c \in Conexiones : Len(alKernel[c]) <= 3
  /\ kernel \in Estructuras
  /\ rarezas \subseteq Rarezas

\* The list is the threads that run a program, each once, unless a number was
\* repeated or two threads walked the list at a time (script_thread and
\* remover_de_lista, Consola.c): thlist, thnum, dcon and exit go by it.
ListaExacta ==
  consola = "viva" /\ rarezas \cap {"numero repetido", "a la vez"} = {} =>
    /\ ToSet(thread_list) = {h \in Hilos : hilo[h].en \in EnLista}
    /\ IsInjective(thread_list)

\* The Consola only falls when two threads walk the list at a time.
CaidaPorLaLista == consola = "caida" => "a la vez" \in rarezas

\* The list can be gone by: it is exact, and walking it does no harm.
ListaSegura == ListaExacta /\ CaidaPorLaLista

\* A thread that says that its program has finished, or was aborted, is right: the
\* Kernel has ended it (codes 6 and 7 of end_process).
FinVerdadero == \A h \in Hilos : hilo[h].avisado => hilo[h].pid \in kernel.terminados

\* No program outlives its connection: once the Kernel has seen it closed, by dcon,
\* exit or a fall of the Consola, the program has been ended or will be when its burst
\* ends, unless handshakes were crossed.
NoQuedaHuerfano ==
  kernel.vivo /\ "cruzada" \notin rarezas =>
    \A p \in Pids : \A h \in Hilos :
      kernel.fd_consola[p] = h /\ conexion[h] = "quitada" =>
        p \in kernel.terminados \/ (kernel.estado[p] = "Exec" /\ proceso_para_borrar(p))

\* A thread does not wait for ever for a program that is over: the code that says so
\* is on its way.  Not so when memory refused the program after its pid was told, or
\* when its burst failed while it was to be ended.
AvisoEnCamino ==
  kernel.vivo /\ rarezas \cap {"rechazo desde New", "aborto de un marcado"} = {} =>
    \A h \in Hilos :
      /\ hilo[h].en \in {"recibe", "lee_texto"} /\ conexion[h] = "abierta"
      /\ hilo[h].pid \in kernel.terminados
      => ToSet(kernel.canal[h]) \cap {6, 7} # {}

\* The command end does not hold the Consola for ever: the request, its mark on a
\* process that executes, or the answer is there.  Not so when the process was to be
\* ended already, or failed before it could be.
RespuestaEnCamino ==
  /\ principal.en = "espera" /\ kernel.vivo
  /\ rarezas \cap {"dos marcas", "aborto de un marcado"} = {}
  => \/ alKernel[Fin] # <<>> \/ kernel.canal[Fin] # <<>>
     \/ \E i \in DOMAIN kernel.borrar :
          kernel.borrar[i].askeadora = Fin /\ kernel.estado[kernel.borrar[i].proceso] = "Exec"

\* Nobody waits in vain: neither a thread for the end of its program nor the operator
\* for the end he asked for.
NadieEsperaEnVano == AvisoEnCamino /\ RespuestaEnCamino
=============================================================================
