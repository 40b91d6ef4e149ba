-------------------------------- MODULE Cpu ---------------------------------
(***************************************************************************)
(* A CPU (CPU/CPU.c) and the Kernel's end of its connection.               *)
(*                                                                         *)
(* The planner thread of the Kernel sends a process; the CPU executes its  *)
(* lines, each a few primitives the parser calls, and for some of them     *)
(* asks the main thread of the Kernel and waits for the answer; at the end *)
(* of the burst it gives the process back, or gives nothing back when the  *)
(* Kernel has aborted it.  Both threads of the Kernel write on the same    *)
(* connection, nothing on it says whom a word is for, and SIGUSR1 may come *)
(* at any moment: desfasada records that an end has read a word as         *)
(* something else than what was sent, and rarezas the known causes.        *)
(***************************************************************************)
EXTENDS Pila, Pcb, FiniteSets

CONSTANTS
  Pids,             \* processes: one that ends is followed by the next one
  Quantums,         \* quantum the Kernel may be configured with; -1 is FIFO
  MaxPrimitivas,    \* bound on the primitives of a line
  indice_de_codigo, \* the lines of the program
  Etiquetas,        \* its table of labels
  Nada

\* A process, as the Kernel and the CPU keep it
Pcbs ==
  {p \in [pid : Pids, page_counter : Int, program_counter : Posiciones,
          cantidad_de_instrucciones : Nat, indice_de_codigo : Seq(Nat \X Nat),
          lista_de_etiquetas : Seq(Range(Etiquetas)), estado : Seq({"Exec"}), exit_code : Int,
          primerPaginaStack : Int, stackPointer : Int, tamanioStack : Int,
          stack_index : Seq(Registro)] :
     p.cantidad_de_instrucciones = Len(p.indice_de_codigo)}

Pedidos == {"obtenerValorCompartida", "asignarValorCompartida", "wait", "signal", "reservar",
            "liberar", "abrir", "borrar", "cerrar", "moverCursor", "escribir", "leer"}

\* The program counter is a position, also past the last line; a process that ends is not
\* followed by itself.
ASSUME CpuAssumption ==
  /\ Quantums \subseteq Int /\ MaxPrimitivas \in Nat \ {0}
  /\ indice_de_codigo \in Seq(Nat \X Nat) /\ Etiquetas \in Seq(Range(Etiquetas))
  /\ 0 .. Len(indice_de_codigo) \subseteq Posiciones
  /\ \A p \in Pids : Pids # {p}
  /\ Nada \notin Pedidos /\ Nada \notin Pcbs
  /\ Falta \notin Nat

cantidad_de_instrucciones == Len(indice_de_codigo)

VARIABLES
  nuevaPCB,         \* the PCB the CPU received, or Nada before; its counters and stack are
                    \* program_counter, stackPointer and stack_index
  program_counter,
  quantum,          \* quantum left, negative in FIFO
  cpu,              \* ociosa, ejecutando, recv (waits for an answer), muerta, or
                    \* colgada: Memoria never answers it
  primitivas,       \* primitives the line being executed may still call
  banderas,         \* excepcionMemoria, programaTerminado, procesoBloqueado,
                    \* procesoAbortado: the flags that are on
  desconectarCPU,   \* SIGUSR1 came during the burst
  esperado,         \* the request whose answer is awaited
  aCpu, aKernel,    \* the connection, in each direction
  kernel,           \* what the Kernel knows: libre, ejecuta, bloquea (waits for the
                    \* PCB after a wait), cerrada
  pcbKernel,        \* the PCB the Kernel has, the next one it sends
  el_quantum,       \* the quantum of the configuration
  desfasada,        \* an end has read something else than what was sent (history)
  rarezas           \* what is known to put the ends out of step (history)

delCpu == <<nuevaPCB, program_counter, quantum, cpu, primitivas, banderas,
            desconectarCPU, esperado>>
delKernel == <<kernel, pcbKernel, el_quantum>>
conexion == <<aCpu, aKernel>>
historia == <<desfasada, rarezas>>
vars == <<pila, delCpu, delKernel, conexion, historia>>

Banderas == {"excepcionMemoria", "programaTerminado", "procesoBloqueado", "procesoAbortado"}
\* create_PCB: what the Kernel sends of a new process
create_PCB(p) ==
  [pid |-> p, page_counter |-> primerPaginaStack + tamanioStack, program_counter |-> 0,
   cantidad_de_instrucciones |-> cantidad_de_instrucciones,
   indice_de_codigo |-> indice_de_codigo, lista_de_etiquetas |-> Etiquetas,
   estado |-> <<"Exec">>, exit_code |-> 0, primerPaginaStack |-> primerPaginaStack,
   stackPointer |-> 0, tamanioStack |-> tamanioStack, stack_index |-> <<>>]
Siguiente(p) == CHOOSE q \in Pids : q # p \/ Pids = {p}

\* The PCB as it is now in the CPU
Actual == [nuevaPCB EXCEPT !.program_counter = program_counter,
                           !.stackPointer = stackPointer, !.stack_index = stack_index]

Despacho(q, p) == [tipo |-> "despacho", quantum |-> q, pcb |-> send_PCBV2(p)]
Respuesta(op, v, extra) == [tipo |-> "respuesta", op |-> op, valor |-> v, extra |-> extra]
Pedido(op) == [tipo |-> "pedido", op |-> op]
Devuelve(codigo, p) == [tipo |-> "pcb", codigo |-> codigo, pcb |-> send_PCBV2(p)]
DevuelveConError(codigo, p) == [tipo |-> "error", codigo |-> codigo, pcb |-> send_PCBV2(p)]

Envia(canal, m) == canal' = Append(canal, m)

-----------------------------------------------------------------------------
(* The burst *)

\* The CPU is idle until the whole PCB has come.  What an idle CPU finds is always a
\* process: it has waited for the answer of each request it made.  Bound: what a CPU
\* executes after one of rarezas is not followed, only what it reads.
RecibirProceso ==
  /\ rarezas = {}
  /\ cpu = "ociosa" /\ aCpu # <<>> /\ aCpu[1].tipo = "despacho"
  /\ \E p \in {recibirPCBV2(aCpu[1].pcb).pcb} :
       /\ nuevaPCB' = p
       /\ program_counter' = p.program_counter
       /\ stackPointer' = p.stackPointer /\ stack_index' = p.stack_index
       /\ IF p.stack_index = <<>> THEN bases' = <<>> /\ perdidos' = 0
                                  ELSE UNCHANGED <<bases, perdidos>>
  /\ quantum' = aCpu[1].quantum
  /\ aCpu' = Tail(aCpu)
  /\ cpu' = "ejecutando" /\ primitivas' = 0 /\ banderas' = {}
  /\ UNCHANGED <<desconectarCPU, esperado, aKernel, delKernel, historia>>

Sigue ==
  /\ cpu = "ejecutando" /\ primitivas = 0 /\ banderas = {}
  /\ IF quantum < 0 THEN program_counter < cantidad_de_instrucciones ELSE quantum > 0

soloCpu == <<nuevaPCB, desconectarCPU, esperado, conexion, delKernel, historia>>

\* Memoria sends the line.  Past the last one there is no index: only FIFO looks.
obtener_instruccion ==
  /\ Sigue /\ program_counter < cantidad_de_instrucciones
  /\ program_counter' = program_counter + 1
  /\ primitivas' = MaxPrimitivas
  /\ quantum' = IF quantum < 0 THEN quantum ELSE quantum - 1
  /\ UNCHANGED <<pila, cpu, banderas, soloCpu>>

\* Memoria answers an error alone, which obtener_instruccion takes as the first of two
\* words; past the program, the line asked for is anything.
InstruccionPerdida ==
  /\ Sigue
  /\ cpu' \in IF program_counter < cantidad_de_instrucciones THEN {"colgada"}
                                                            ELSE {"colgada", "muerta"}
  /\ UNCHANGED <<pila, program_counter, quantum, primitivas, banderas, soloCpu>>

\* analizadorLinea returns
TerminaLinea ==
  /\ cpu = "ejecutando" /\ primitivas > 0
  /\ primitivas' = 0
  /\ UNCHANGED <<pila, program_counter, quantum, cpu, banderas, soloCpu>>

-----------------------------------------------------------------------------
(* Primitives that do not ask the Kernel *)

EnLinea == cpu = "ejecutando" /\ primitivas > 0
Gasta == primitivas' = primitivas - 1

Levanta(b) == banderas' = banderas \cup {b}

twt_definirVariable(i) ==
  /\ EnLinea /\ Gasta
  /\ \/ Definir(i) /\ UNCHANGED banderas
     \/ Desborda /\ Levanta("excepcionMemoria") /\ UNCHANGED pila
  /\ UNCHANGED <<program_counter, quantum, cpu, soloCpu>>

\* A primitive that looks at the last frame: without one the CPU reads through NULL and
\* dies
MiraMarco ==
  /\ EnLinea /\ Gasta
  /\ cpu' = IF stack_index = <<>> THEN "muerta" ELSE cpu
  /\ UNCHANGED <<pila, program_counter, quantum, banderas, soloCpu>>

\* What it answers, an address or -1, is not kept; twt_retornar assigns to the address
\* of RetornoVivo and waits for no answer
twt_obtenerPosicionVariable == MiraMarco
twt_retornar == MiraMarco

\* Only an address Memoria refuses changes anything here.  twt_asignar, which waits for
\* no answer, changes nothing.
twt_dereferenciar ==
  /\ EnLinea /\ Gasta
  /\ Levanta("excepcionMemoria")
  /\ UNCHANGED <<pila, program_counter, quantum, cpu, soloCpu>>

twt_irAlLabel(posicion) ==
  /\ EnLinea /\ Gasta
  /\ program_counter' = posicion
  /\ UNCHANGED <<pila, quantum, cpu, banderas, soloCpu>>

twt_llamarConRetorno(posicion, donde) ==
  /\ EnLinea /\ Gasta
  /\ Llamar(program_counter, donde)
  /\ program_counter' = posicion
  /\ UNCHANGED <<quantum, cpu, banderas, soloCpu>>

PrimeraDeLinea == primitivas = MaxPrimitivas

\* A line of its own.  Without a frame, the end of the program is marked and the CPU dies
\* freeing it.
twt_finalizar ==
  /\ EnLinea /\ PrimeraDeLinea /\ primitivas' = 0
  /\ \/ /\ Finalizar
        /\ IF Ultimo = 1
             THEN Levanta("programaTerminado") /\ UNCHANGED program_counter
             ELSE program_counter' = stack_index[Ultimo].ret_pos /\ UNCHANGED banderas
        /\ UNCHANGED cpu
     \/ /\ stack_index = <<>>
        /\ cpu' = "muerta"
        /\ UNCHANGED <<pila, program_counter, banderas>>
  /\ UNCHANGED <<quantum, soloCpu>>

-----------------------------------------------------------------------------
(* Primitives that ask the Kernel.  A line reads any number of shared        *)
(* variables, and asks for one other operation at the most, the last thing   *)
(* it does; WAIT and SIGNAL are lines of their own.                          *)

Pide(op, quedan) ==
  /\ EnLinea
  /\ Envia(aKernel, Pedido(op))
  /\ esperado' = op /\ cpu' = "recv" /\ primitivas' = quedan
  /\ rarezas' = IF "procesoAbortado" \in banderas
                  THEN rarezas \cup {"pedido tras un aborto"} ELSE rarezas
  /\ UNCHANGED <<pila, nuevaPCB, program_counter, quantum, banderas, desconectarCPU,
                 aCpu, delKernel, desfasada>>

twt_obtenerValorCompartida == Pide("obtenerValorCompartida", primitivas - 1)
\* Mutant: the CPU goes on without the answer, as if nothing could go wrong
twt_asignarValorCompartida_SinEsperar ==
  /\ EnLinea
  /\ Envia(aKernel, Pedido("asignarValorCompartida"))
  /\ primitivas' = 0
  /\ UNCHANGED <<pila, nuevaPCB, program_counter, quantum, cpu, banderas, desconectarCPU,
                 esperado, aCpu, delKernel, historia>>

twt_asignarValorCompartida == Pide("asignarValorCompartida", 0)
twt_wait == PrimeraDeLinea /\ Pide("wait", 0)

twt_signal == PrimeraDeLinea /\ Pide("signal", 0)
twt_reservar == Pide("reservar", 0)
twt_liberar == Pide("liberar", 0)
twt_abrir == Pide("abrir", 0)
twt_borrar == Pide("borrar", 0)
twt_cerrar == Pide("cerrar", 0)
twt_moverCursor == Pide("moverCursor", 0)
twt_escribir == "excepcionMemoria" \notin banderas /\ Pide("escribir", 0)
twt_leer == Pide("leer", 0)

\* The answers that abort: a zero does for those that only want a yes
Rechazo(op, valor) ==
  IF op \in {"obtenerValorCompartida", "wait", "signal"} THEN valor <= 0 ELSE valor < 0

RecibirRespuesta ==
  /\ cpu = "recv" /\ aCpu # <<>> /\ aCpu[1].tipo = "respuesta"
  /\ IF Rechazo(esperado, aCpu[1].valor) THEN Levanta("procesoAbortado")
     ELSE IF esperado = "wait" /\ aCpu[1].extra < 0 THEN Levanta("procesoBloqueado")
     ELSE UNCHANGED banderas
  /\ desfasada' = (desfasada \/ aCpu[1].op # esperado)
  /\ aCpu' = Tail(aCpu)
  /\ esperado' = Nada /\ cpu' = "ejecutando"
  /\ UNCHANGED <<pila, nuevaPCB, program_counter, quantum, primitivas, desconectarCPU,
                 aKernel, delKernel, rarezas>>

\* The quantum of another process is read as the answer
RecibirAjeno ==
  /\ cpu = "recv" /\ aCpu # <<>> /\ aCpu[1].tipo = "despacho"
  /\ desfasada' = TRUE
  /\ cpu' = "colgada"
  /\ UNCHANGED <<pila, nuevaPCB, program_counter, quantum, primitivas, banderas,
                 desconectarCPU, esperado, conexion, delKernel, rarezas>>

-----------------------------------------------------------------------------
(* The end of the burst: the first of these whose condition holds            *)

Fin == cpu = "ejecutando" /\ primitivas = 0 /\ ~Sigue

TrasRafaga == cpu' = IF desconectarCPU THEN "muerta" ELSE "ociosa"
soloRafaga == <<pila, nuevaPCB, program_counter, quantum, primitivas, banderas,
                desconectarCPU, esperado, aCpu, delKernel, desfasada>>

FinTerminado ==
  /\ Fin /\ "programaTerminado" \in banderas
  /\ Envia(aKernel, Devuelve(10, Actual))
  /\ TrasRafaga
  /\ UNCHANGED <<soloRafaga, rarezas>>

\* After SIGUSR1 the process is given back as failed
FinBloqueado ==
  /\ Fin /\ "programaTerminado" \notin banderas /\ "procesoBloqueado" \in banderas
  /\ IF desconectarCPU
       THEN /\ Envia(aKernel, DevuelveConError(-17, Actual))
            /\ rarezas' = rarezas \cup {"baja al bloquearse"}
       ELSE /\ Envia(aKernel, Devuelve(10, Actual))
            /\ UNCHANGED rarezas
  /\ TrasRafaga
  /\ UNCHANGED soloRafaga

\* Mutant: an aborted process whose quantum ends is given back
FinDeQuantum_SinMirar ==
  /\ Fin /\ banderas \cap {"programaTerminado", "procesoBloqueado"} = {} /\ quantum = 0
  /\ Envia(aKernel, IF desconectarCPU THEN DevuelveConError(-17, Actual)
                                      ELSE Devuelve(13, Actual))
  /\ TrasRafaga
  /\ UNCHANGED <<soloRafaga, rarezas>>

FinDeQuantum ==
  /\ Fin /\ banderas = {} /\ quantum = 0
  /\ Envia(aKernel, IF desconectarCPU THEN DevuelveConError(-17, Actual)
                                      ELSE Devuelve(13, Actual))
  /\ TrasRafaga
  /\ UNCHANGED <<soloRafaga, rarezas>>

\* Mutant: the burst ends and the Kernel is not told of the exception
FinExcepcion_Callado ==
  /\ Fin /\ "excepcionMemoria" \in banderas
  /\ banderas \cap {"programaTerminado", "procesoBloqueado"} = {}
  /\ TrasRafaga
  /\ UNCHANGED <<soloRafaga, aKernel, rarezas>>

FinExcepcion ==
  /\ Fin /\ "excepcionMemoria" \in banderas
  /\ banderas \cap {"programaTerminado", "procesoBloqueado"} = {}
  /\ Envia(aKernel, DevuelveConError(-5, Actual))
  /\ rarezas' = IF "procesoAbortado" \in banderas
                  THEN rarezas \cup {"excepcion tras un aborto"} ELSE rarezas
  /\ TrasRafaga
  /\ UNCHANGED soloRafaga

\* The Kernel has aborted the process, or (FIFO) its lines have run out before its end
FinSinAviso ==
  /\ Fin
  /\ \/ banderas = {"procesoAbortado"}
     \/ banderas = {} /\ quantum < 0
  /\ rarezas' = IF banderas = {} THEN rarezas \cup {"programa sin end"} ELSE rarezas
  /\ TrasRafaga
  /\ UNCHANGED <<soloRafaga, aKernel>>

\* manejador_SIGUSR1: an idle CPU goes at once, whatever is on its way to it
manejador_SIGUSR1 ==
  /\ \/ cpu = "ociosa" /\ cpu' = "muerta" /\ UNCHANGED desconectarCPU
     \/ cpu \in {"ejecutando", "recv"} /\ desconectarCPU' = TRUE /\ UNCHANGED cpu
  /\ UNCHANGED <<pila, nuevaPCB, program_counter, quantum, primitivas, banderas, esperado,
                 conexion, delKernel, historia>>

-----------------------------------------------------------------------------
(* The Kernel: its planner thread sends, its main thread does the rest       *)

soloKernel == <<pila, delCpu, el_quantum>>

\* A CPU that executes nothing is given the next process, quantum and PCB
Despachar ==
  /\ kernel = "libre"
  /\ Envia(aCpu, Despacho(el_quantum, pcbKernel))
  /\ kernel' = "ejecuta"
  /\ UNCHANGED <<soloKernel, pcbKernel, aKernel, historia>>

Escucha(tipo) == kernel \in {"libre", "ejecuta", "bloquea"} /\ aKernel # <<>> /\ aKernel[1].tipo = tipo
Atiende(ops) == Escucha("pedido") /\ kernel # "bloquea" /\ aKernel[1].op \in ops
Consume == aKernel' = Tail(aKernel)

\* end_process of what the CPU was executing: it is free, and another process is next
Desocupa ==
  /\ kernel' = "libre"
  /\ pcbKernel' = IF kernel = "ejecuta" THEN create_PCB(Siguiente(pcbKernel.pid)) ELSE pcbKernel

Contesta(valor, extra) ==
  /\ Envia(aCpu, Respuesta(aKernel[1].op, valor, extra))
  /\ Consume
  /\ UNCHANGED <<soloKernel, historia>>

abort_process == Desocupa /\ Contesta(-1, 0)

\* All that succeed are answered with something positive
AtenderBien ==
  /\ Atiende(Pedidos)
  /\ Contesta(1, 0)
  /\ UNCHANGED <<kernel, pcbKernel>>

AtenderMal ==
  /\ Atiende(Pedidos \ {"borrar"})
  /\ abort_process

\* WAIT of a semaphore that is taken: the main thread waits there for the PCB
AtenderWait ==
  /\ Atiende({"wait"})
  /\ Contesta(1, -1)
  /\ kernel' = "bloquea"
  /\ UNCHANGED pcbKernel

\* The error of execute_delete is kept in a variable without sign: the CPU is sent it and
\* the process is not aborted
AtenderBorrarMal ==
  /\ Atiende({"borrar"})
  /\ aCpu' = Append(aCpu, Respuesta("borrar", -2, 0))
  /\ Consume
  /\ rarezas' = rarezas \cup {"borrar rechazado"}
  /\ UNCHANGED <<soloKernel, kernel, pcbKernel, desfasada>>

\* PROCESO_FINALIZADO_CORRECTAMENTE (10), unless a wait is waiting for it
RecibirTerminado ==
  /\ Escucha("pcb") /\ kernel # "bloquea" /\ aKernel[1].codigo = 10
  /\ Desocupa /\ Consume
  /\ UNCHANGED <<soloKernel, aCpu, historia>>

\* FIN_DE_RAFAGA (13), and the PCB a wait waits for
RecibirPCB ==
  /\ Escucha("pcb") /\ aKernel[1].codigo = IF kernel = "bloquea" THEN 10 ELSE 13
  /\ kernel' = "libre"
  /\ pcbKernel' \in {recibirPCBV2(aKernel[1].pcb).pcb}
  /\ Consume
  /\ UNCHANGED <<soloKernel, aCpu, historia>>

\* PROCESO_FINALIZO_ERRONEAMENTE (22); a wait takes its 22 as the 10 of a PCB, and the
\* error code as the pid
RecibirError ==
  /\ Escucha("error")
  /\ IF kernel = "bloquea"
       THEN /\ desfasada' = TRUE /\ kernel' = "varada"
            /\ UNCHANGED <<pcbKernel, aKernel>>
       ELSE Desocupa /\ Consume /\ UNCHANGED desfasada
  /\ UNCHANGED <<soloKernel, aCpu, rarezas>>

\* recv answers 0: the CPU has gone, and the process it had ends
Desconexion ==
  /\ kernel \in {"libre", "ejecuta"} /\ cpu = "muerta" /\ aKernel = <<>>
  /\ kernel' = "cerrada"
  /\ pcbKernel' = IF kernel = "ejecuta" THEN create_PCB(Siguiente(pcbKernel.pid)) ELSE pcbKernel
  /\ aCpu' = <<>>
  /\ UNCHANGED <<soloKernel, aKernel, historia>>

\* Another CPU is started
Conectar ==
  /\ kernel = "cerrada"
  /\ kernel' = "libre" /\ cpu' = "ociosa"
  /\ nuevaPCB' = Nada /\ quantum' = 0 /\ primitivas' = 0 /\ banderas' = {}
  /\ desconectarCPU' = FALSE /\ esperado' = Nada /\ rarezas' = {}
  /\ UNCHANGED <<pila, program_counter, pcbKernel, el_quantum, conexion, desfasada>>

-----------------------------------------------------------------------------
Init ==
  /\ InitPila
  /\ nuevaPCB = Nada /\ pcbKernel \in {create_PCB(p) : p \in Pids}
  /\ el_quantum \in Quantums
  /\ program_counter = 0 /\ quantum = 0
  /\ cpu = "ociosa" /\ primitivas = 0 /\ banderas = {}
  /\ desconectarCPU = FALSE /\ esperado = Nada
  /\ aCpu = <<>> /\ aKernel = <<>>
  /\ kernel = "libre"
  /\ desfasada = FALSE /\ rarezas = {}

Primitiva ==
  \/ \E i \in Ids : twt_definirVariable(i)
  \/ \E n \in Posiciones : twt_irAlLabel(n)
  \/ \E n \in Posiciones, donde \in CeldasActuales : twt_llamarConRetorno(n, donde)
  \/ twt_obtenerPosicionVariable \/ twt_dereferenciar \/ twt_finalizar \/ twt_retornar
  \/ twt_obtenerValorCompartida \/ twt_asignarValorCompartida \/ twt_wait \/ twt_signal
  \/ twt_reservar \/ twt_liberar \/ twt_abrir \/ twt_borrar \/ twt_cerrar
  \/ twt_moverCursor \/ twt_escribir \/ twt_leer

Rafaga ==
  \/ obtener_instruccion \/ InstruccionPerdida \/ Primitiva \/ TerminaLinea
  \/ FinTerminado \/ FinBloqueado \/ FinDeQuantum \/ FinExcepcion \/ FinSinAviso

Recepcion == RecibirProceso \/ RecibirRespuesta \/ RecibirAjeno

HiloPrincipal ==
  \/ AtenderBien \/ AtenderMal \/ AtenderWait \/ AtenderBorrarMal
  \/ RecibirTerminado \/ RecibirPCB \/ RecibirError \/ Desconexion

Next ==
  \/ Rafaga \/ Recepcion \/ manejador_SIGUSR1
  \/ HiloPrincipal \/ Despachar \/ Conectar

\* The CPU executes and reads, and the Kernel serves its connections; nothing obliges a
\* process to be ready, nor a CPU to be started.
Fairness == WF_vars(Rafaga) /\ WF_vars(Recepcion) /\ WF_vars(HiloPrincipal)

Spec == Init /\ [][Next]_vars /\ Fairness

-----------------------------------------------------------------------------
(* Properties *)

TypeOK ==
  /\ TypeOKPila /\ stackPointer <= tamanioStack * tamanioPagina
  /\ program_counter \in Posiciones /\ quantum \in Int
  /\ cpu \in {"ociosa", "ejecutando", "recv", "colgada", "muerta"}
  /\ kernel \in {"libre", "ejecuta", "bloquea", "varada", "cerrada"}
  /\ banderas \subseteq Banderas /\ primitivas \in 0 .. MaxPrimitivas
  /\ esperado \in Pedidos \cup {Nada} /\ (cpu = "recv" => esperado # Nada)
  /\ desconectarCPU \in BOOLEAN /\ desfasada \in BOOLEAN
  /\ (nuevaPCB # Nada => nuevaPCB \in Pcbs) /\ pcbKernel \in Pcbs /\ el_quantum \in Quantums
  /\ (cpu \in {"ejecutando", "recv"} => nuevaPCB # Nada)

Desfases == {"baja al bloquearse", "pedido tras un aborto"}

\* A word is read as something else than what was sent only after one of two things:
\* SIGUSR1 during a burst that blocks, and a line that goes on asking after the Kernel
\* has aborted its process.
EnFase == desfasada => rarezas \cap Desfases # {}

EnCamino(tipos) == {i \in DOMAIN aKernel : aKernel[i].tipo \in tipos}

\* The two ends agree on what the CPU does.  A process the Kernel takes for executing is
\* in one place only: on its way, in the CPU, or on its way back; and a CPU it takes for
\* free executes nothing but the end of a line it has aborted.
Acuerdo ==
  rarezas = {} =>
    LET yendo == {i \in DOMAIN aCpu : aCpu[i].tipo = "despacho"}
        vuelve == EnCamino({"pcb", "error"})
        dentro == cpu \in {"ejecutando", "recv", "colgada"}
    IN  /\ kernel = "ejecuta" =>
             \/ cpu = "muerta"
             \/ Cardinality(yendo) + Cardinality(vuelve)
                  + (IF dentro /\ nuevaPCB # Nada /\ nuevaPCB.pid = pcbKernel.pid THEN 1 ELSE 0) = 1
        /\ kernel = "libre" /\ dentro =>
             "procesoAbortado" \in banderas \/ (cpu = "recv" /\ aCpu # <<>>)
        /\ kernel = "libre" => vuelve = {}

\* The PCB arrives as it was sent, in both directions: the Kernel has what the CPU left,
\* and the CPU began with what the Kernel had.
PcbIntegro ==
  rarezas = {} /\ nuevaPCB # Nada /\ nuevaPCB.pid = pcbKernel.pid =>
    /\ kernel = "ejecuta" /\ cpu \in {"ejecutando", "recv"} => nuevaPCB = pcbKernel
    /\ kernel = "libre" /\ cpu = "ociosa" /\ aKernel = <<>> => pcbKernel = Actual

\* A CPU that waits for an answer of the Kernel does not wait for ever (abort_process and
\* the end of each handler): though what it reads may be meant for something else.
RespuestaLlega == cpu = "recv" ~> cpu # "recv"

\* With a quantum, the process a CPU was given always comes back or ends, unless Memoria
\* leaves the CPU without an answer, or one of rarezas has happened: nothing else makes
\* the Kernel wait for a burst for ever.
RafagaTermina ==
  kernel = "ejecuta" /\ el_quantum >= 0 ~>
    kernel # "ejecuta" \/ cpu = "colgada" \/ rarezas # {}

\* Nobody waits for ever: neither the CPU for an answer nor the Kernel for a burst.
ProtocoloAvanza == RespuestaLlega /\ RafagaTermina
=============================================================================
