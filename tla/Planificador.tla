---------------------------- MODULE Planificador ----------------------------
(***************************************************************************)
(* The life of the processes in the Kernel (Kernel/Kernel.c): admission,   *)
(* dispatch, semaphores, and the ways a process may be ended.              *)
(*                                                                         *)
(* Three threads share its structures: main, which serves one message of a *)
(* Consola or a CPU at a time (select), planificacion, and menu, the       *)
(* console of the operator.  A handler is one step, except where a thread  *)
(* looks at something, lets the others in and then acts on what it saw:    *)
(* those are two steps.  A message and its handler are one step.           *)
(***************************************************************************)
EXTENDS Integers, Sequences, FiniteSets, SequencesExt

CONSTANTS
  MaxPid,        \* programs the Consolas start
  CPUs,
  Semaforos,     \* SEM_IDS
  Inicial,       \* SEM_INIT
  GradoInicial,  \* GRADO_MULTIPROG
  Grados,        \* what the operator may change it to
  MaxValor,      \* a program does not signal a semaphore beyond this value
  MaxBajas,      \* requests to end a process from outside
  Ordenes        \* what may end or disturb a process in this instance (see Permite)

\*   "rechazo"            memory refuses a program
\*   "eliminar"           a Consola asks to end a process
\*   "desconexion_consola", "desconexion_cpu"   a connection is closed
\*   "error"              a CPU reports that the program failed
\*   "inexistente"        a program names a semaphore that does not exist
\*   "end", "plan", "grado"   the commands of the operator
Permite(orden) == orden \in Ordenes

Pids == 1 .. MaxPid

Nada == "Nada"   \* the wait_reciente of a process that has not waited

ASSUME PlanificadorAssumption ==
  /\ MaxPid \in Nat \ {0} /\ MaxValor \in Nat /\ MaxBajas \in Nat
  /\ Inicial \in Nat
  /\ GradoInicial \in Nat \ {0} /\ Grados \subseteq Nat \ {0}
  /\ Nada \notin Semaforos
  /\ 0 \notin CPUs

VARIABLES
  kernel,        \* the structures of the processes (see Estructuras)
  new_queue,     \* processes that wait to be admitted
  pid,           \* the last process id given
  plan_go,       \* planning is on
  grado,         \* data_config.grado_multiprog
  despertador,   \* mutex_planificacion is unlocked: the planner may go on
  planificador,  \* planificacion: where it is, and the process it admits
  principal,     \* main: where it is, and the process it deals with
  menu,          \* menu: where it is, and the degree it sets
  lista_cpus,    \* the CPUs connected, in order
  en_ejecucion,  \* lista_en_ejecucion: the CPUs in use
  proceso,       \* CPU -> cpu->proceso, what the Kernel thinks it executes
  corre,         \* CPU -> the process whose PCB the CPU really holds
  copia,         \* processes whose PCB in circulation is not the one first created
  consolas,      \* processes whose Consola is connected
  bajas          \* requests to end a process so far (bounds the instance)

vars == <<kernel, new_queue, pid, plan_go, grado, despertador, planificador,
          principal, menu, lista_cpus, en_ejecucion, proceso, corre, copia, consolas,
          bajas>>

hilos == <<planificador, principal, menu>>
cpus == <<lista_cpus, en_ejecucion, proceso, corre, copia>>
externo == <<consolas, bajas>>

-----------------------------------------------------------------------------
(* The structures of the processes, and the functions that update them.    *)

Estados == {"NoExiste", "Nuevo", "Ready", "Exec", "Block", "Exit"}

Estructuras ==
  [estado   : [Pids -> Estados],                       \* the PCB in todos_los_procesos
   ready    : Seq(Pids),                               \* ready_queue
   cola     : [Semaforos -> Seq(Pids)],                \* cola_de_bloqueados
   valor    : [Semaforos -> Int],
   reciente : [Pids -> Semaforos \cup {Nada}],         \* waits_recientes
   borrar   : [Pids -> Nat],                           \* procesos_a_borrar
   actuales : Int]                                     \* procesos_actuales

\* Mutant: the first of the list, at position 0, does not count
proceso_para_borrar_Corrido(k, p) == k.borrar[p] > 1

proceso_para_borrar(k, p) == k.borrar[p] > 0

desmarcar(k, p) == IF proceso_para_borrar(k, p) THEN [k EXCEPT !.borrar[p] = @ - 1] ELSE k

\* Mutant: wakes the process and leaves it in the queue
signal_SinSacar(k, s) ==
  LET p == Head(k.cola[s])
  IN  IF k.cola[s] = <<>> THEN [k EXCEPT !.valor[s] = @ + 1]
      ELSE [k EXCEPT !.valor[s] = @ + 1, !.estado[p] = "Ready", !.reciente[p] = s,
                     !.ready = Append(@, p)]

\* The first process that waits becomes ready; one that is marked is dropped
signal(k, s) ==
  LET p    == Head(k.cola[s])
      sube == [k EXCEPT !.valor[s] = @ + 1]
      saca == [sube EXCEPT !.cola[s] = Tail(@)]
  IN  IF k.cola[s] = <<>> THEN sube
      ELSE IF proceso_para_borrar(k, p) THEN saca
      ELSE [saca EXCEPT !.estado[p] = "Ready", !.reciente[p] = s, !.ready = Append(@, p)]

\* Takes the process out of the queue it waits in and signals that semaphore
remove_from_semaphore(k, p) ==
  LET S == {s \in Semaforos : Contains(k.cola[s], p)}
      s == CHOOSE x \in S : TRUE
  IN  IF S = {} THEN k ELSE signal([k EXCEPT !.cola[s] = RemoveFirst(@, p)], s)

\* By the state of the process.  A process not yet admitted is "Nuevo" and the
\* code looks for "New": it stays in new_queue.  (remove_PCB_from_specific_queue
\* removes every occurrence; there is at most one, as UnaCopia says.)
remove_from_queue(k, p) ==
  CASE k.estado[p] = "Ready" -> [k EXCEPT !.ready = RemoveFirst(@, p)]
    [] k.estado[p] = "Block" -> remove_from_semaphore(k, p)
    [] OTHER -> k

\* Mutant: does not count the process out
end_process_SinContar(k, p) ==
  IF k.estado[p] \in {"NoExiste", "Exit"} THEN k
  ELSE [remove_from_queue([k EXCEPT !.reciente[p] = Nada], p) EXCEPT !.estado[p] = "Exit"]

\* Nothing is done to a process that has already finished
end_process(k, p) ==
  IF k.estado[p] \in {"NoExiste", "Exit"} THEN k
  ELSE [remove_from_queue([k EXCEPT !.reciente[p] = Nada], p)
          EXCEPT !.estado[p] = "Exit", !.actuales = @ - 1]

\* The handlers that kill a process give back its wait_reciente first
signal_reciente(k, p) ==
  IF k.reciente[p] = Nada THEN k ELSE signal(k, k.reciente[p])

\* guardado_en_memoria, once memory has answered
guardado_en_memoria(k, p, hay) ==
  IF hay THEN [k EXCEPT !.estado[p] = "Ready", !.ready = Append(@, p), !.actuales = @ + 1]
  ELSE [k EXCEPT !.estado[p] = "Exit"]

Respuestas == IF Permite("rechazo") THEN BOOLEAN ELSE {TRUE}

\* procesos_actuales < grado_multiprog: an int and a uint32_t, compared unsigned
HayLugar == kernel.actuales >= 0 /\ kernel.actuales < grado

proceso_en_ejecucion(p) == \E c \in en_ejecucion : proceso[c] = p

Marcar(p) == kernel' = [kernel EXCEPT !.borrar[p] = @ + 1]

\* One of the requests to end a process that the instance allows
Baja == bajas < MaxBajas /\ bajas' = bajas + 1

\* pthread_mutex_unlock(&mutex_planificacion), locked or not
Despertar == despertador' = TRUE

-----------------------------------------------------------------------------
(* planificacion *)

Planifica(en, p) == planificador' = [en |-> en, pid |-> p]

\* Busy-waits while planning is off
MirarPlan ==
  /\ planificador.en = "mirar" /\ plan_go
  /\ Planifica("esperar", 0)
  /\ UNCHANGED <<kernel, new_queue, pid, plan_go, grado, despertador, principal, menu,
                 cpus, externo>>

Esperar ==
  /\ planificador.en = "esperar" /\ despertador
  /\ despertador' = FALSE
  /\ Planifica("admitir", 0)
  /\ UNCHANGED <<kernel, new_queue, pid, plan_go, grado, principal, menu, cpus, externo>>

\* Mutant: takes the process out of New before it looks at the degree
Admitir_SacaAntes ==
  /\ planificador.en = "admitir"
  /\ IF new_queue = <<>> THEN UNCHANGED new_queue ELSE new_queue' = Tail(new_queue)
  /\ IF new_queue # <<>> /\ HayLugar THEN Planifica("guardar", Head(new_queue))
     ELSE Planifica("despachar", 0)
  /\ UNCHANGED <<kernel, pid, plan_go, grado, despertador, principal, menu, cpus, externo>>

\* One process a turn; mutex_new_queue is held until memory has answered
Admitir ==
  /\ planificador.en = "admitir"
  /\ IF new_queue # <<>> /\ HayLugar
     THEN new_queue' = Tail(new_queue) /\ Planifica("guardar", Head(new_queue))
     ELSE UNCHANGED new_queue /\ Planifica("despachar", 0)
  /\ UNCHANGED <<kernel, pid, plan_go, grado, despertador, principal, menu, cpus, externo>>

GuardarDeNew ==
  /\ planificador.en = "guardar"
  /\ \E hay \in Respuestas :
       kernel' = guardado_en_memoria(kernel, planificador.pid, hay)
  /\ Planifica("despachar", 0)
  /\ UNCHANGED <<new_queue, pid, plan_go, grado, despertador, principal, menu, cpus, externo>>

\* Positions of the CPUs that are not in use
CpusLibres == {i \in DOMAIN lista_cpus : lista_cpus[i] \notin en_ejecucion}

buscar_cpu_libre == lista_cpus[Min(CpusLibres)]

\* The first ready process goes to the first free CPU.  "Exec" is written in the
\* PCB that circulates: from the second burst on, not the one the Kernel lists.
Despachar ==
  LET p == Head(kernel.ready)
      c == buscar_cpu_libre
  IN  /\ planificador.en = "despachar"
      /\ IF kernel.ready # <<>> /\ CpusLibres # {}
         THEN /\ en_ejecucion' = en_ejecucion \cup {c}
              /\ proceso' = [proceso EXCEPT ![c] = p]
              /\ corre' = [corre EXCEPT ![c] = p]
              /\ kernel' = [kernel EXCEPT !.ready = Tail(@),
                              !.estado[p] = IF p \in copia THEN @ ELSE "Exec"]
         ELSE UNCHANGED <<kernel, en_ejecucion, proceso, corre>>
      /\ Planifica("mirar", 0)
      /\ UNCHANGED <<new_queue, pid, plan_go, grado, despertador, principal, menu,
                     lista_cpus, copia, externo>>

PasoPlanificacion == MirarPlan \/ Esperar \/ Admitir \/ GuardarDeNew \/ Despachar

-----------------------------------------------------------------------------
(* main: programs that arrive *)

EnSelect == principal.en = "select"

Principal(en, p) == principal' = [en |-> en, pid |-> p]

\* create_PCB, and the first look at the degree of multiprogramming
NuevoPrograma ==
  /\ EnSelect /\ plan_go /\ pid < MaxPid
  /\ pid' = pid + 1
  /\ kernel' = [kernel EXCEPT !.estado[pid + 1] = "Nuevo"]
  /\ consolas' = consolas \cup {pid + 1}
  /\ Principal(IF HayLugar THEN "guardar" ELSE "encolar", pid + 1)
  /\ UNCHANGED <<new_queue, plan_go, grado, despertador, planificador, menu, cpus, bajas>>

\* Planning is off: the Consola is told -1
RechazarPrograma ==
  /\ EnSelect /\ ~plan_go
  /\ Despertar
  /\ UNCHANGED <<kernel, new_queue, pid, plan_go, grado, hilos, cpus, externo>>

GuardarPrograma ==
  /\ principal.en = "guardar"
  /\ \E hay \in Respuestas :
       kernel' = guardado_en_memoria(kernel, principal.pid, hay)
  /\ Principal("select", 0)
  /\ Despertar
  /\ UNCHANGED <<new_queue, pid, plan_go, grado, planificador, menu, cpus, externo>>

\* Waits for mutex_new_queue
EncolarPrograma ==
  /\ principal.en = "encolar" /\ planificador.en # "guardar"
  /\ new_queue' = Append(new_queue, principal.pid)
  /\ Principal("select", 0)
  /\ Despertar
  /\ UNCHANGED <<kernel, pid, plan_go, grado, planificador, menu, cpus, externo>>

-----------------------------------------------------------------------------
(* main: processes that are ended from outside *)

\* ELIMINAR_PROCESO: marks a process that executes, or goes on to end it
Eliminar(p) ==
  /\ Permite("eliminar") /\ EnSelect /\ Baja
  /\ IF proceso_en_ejecucion(p)
     THEN Marcar(p) /\ UNCHANGED principal
     ELSE Principal("eliminar", p) /\ UNCHANGED kernel
  /\ UNCHANGED <<new_queue, pid, plan_go, grado, despertador, planificador, menu, cpus, consolas>>

\* buscar_conexion_de_proceso: the first CPU whose process is this one
ConexionDe(p) == {i \in DOMAIN lista_cpus : proceso[lista_cpus[i]] = p}

EliminarAhora ==
  LET p == principal.pid
  IN  /\ principal.en = "eliminar"
      /\ kernel' = end_process(signal_reciente(kernel, p), p)
      /\ proceso' = IF ConexionDe(p) = {} THEN proceso
                    ELSE [proceso EXCEPT ![lista_cpus[Min(ConexionDe(p))]] = 0]
      /\ Principal("select", 0)
      /\ Despertar
      /\ UNCHANGED <<new_queue, pid, plan_go, grado, planificador, menu, lista_cpus,
                     en_ejecucion, corre, copia, externo>>

\* The Consola of the process is gone
DesconectarConsola(p) ==
  /\ Permite("desconexion_consola") /\ EnSelect /\ p \in consolas
  /\ consolas' = consolas \ {p}
  /\ IF kernel.estado[p] = "Exit" THEN UNCHANGED <<kernel, principal>>
     ELSE IF proceso_en_ejecucion(p) THEN Marcar(p) /\ UNCHANGED principal
     ELSE Principal("caida", p) /\ UNCHANGED kernel
  /\ UNCHANGED <<new_queue, pid, plan_go, grado, despertador, planificador, menu, cpus, bajas>>

CaidaDeConsola ==
  LET p == principal.pid
  IN  /\ principal.en = "caida"
      /\ kernel' = end_process(signal_reciente(kernel, p), p)
      /\ Principal("select", 0)
      /\ Despertar
      /\ UNCHANGED <<new_queue, pid, plan_go, grado, planificador, menu, cpus, externo>>

ConectarCpu(c) ==
  /\ EnSelect /\ ~Contains(lista_cpus, c)
  /\ lista_cpus' = Append(lista_cpus, c)
  /\ proceso' = [proceso EXCEPT ![c] = 0]
  /\ Despertar
  /\ UNCHANGED <<kernel, new_queue, pid, plan_go, grado, hilos, en_ejecucion, corre,
                 copia, externo>>

\* What the CPU was executing is ended; only then it leaves lista_en_ejecucion
DesconectarCpu(c) ==
  LET p == proceso[c]
  IN  /\ Permite("desconexion_cpu") /\ EnSelect /\ Contains(lista_cpus, c)
      /\ IF p = 0 THEN UNCHANGED <<kernel, en_ejecucion, despertador>>
         ELSE /\ kernel' = end_process(signal_reciente(kernel, p), p)
              /\ en_ejecucion' = en_ejecucion \ {c}
              /\ Despertar
      /\ lista_cpus' = RemoveFirst(lista_cpus, c)
      /\ proceso' = [proceso EXCEPT ![c] = 0]
      /\ corre' = [corre EXCEPT ![c] = 0]
      /\ UNCHANGED <<new_queue, pid, plan_go, grado, hilos, copia, externo>>

-----------------------------------------------------------------------------
(* main: the messages of a CPU about the process it executes *)

DeCpu(c) == EnSelect /\ corre[c] # 0

\* Mutant: leaves the CPU in lista_en_ejecucion
LiberarCpu_SinSacar(c) ==
  /\ proceso' = [proceso EXCEPT ![c] = 0]
  /\ corre' = [corre EXCEPT ![c] = 0]
  /\ UNCHANGED en_ejecucion

\* The CPU leaves lista_en_ejecucion and its process is set to 0
LiberarCpu(c) ==
  /\ en_ejecucion' = en_ejecucion \ {c}
  /\ proceso' = [proceso EXCEPT ![c] = 0]
  /\ corre' = [corre EXCEPT ![c] = 0]

\* FIN_DE_RAFAGA: the PCB received is put in ready, unless the process was marked
FinDeRafaga(c) ==
  LET p == corre[c]
  IN  /\ DeCpu(c)
      /\ kernel' = IF proceso_para_borrar(kernel, p) THEN end_process(desmarcar(kernel, p), p)
                   ELSE [kernel EXCEPT !.estado[p] = "Ready", !.ready = Append(@, p)]
      /\ copia' = copia \cup {p}
      /\ LiberarCpu(c)
      /\ Despertar
      /\ UNCHANGED <<new_queue, pid, plan_go, grado, hilos, lista_cpus, externo>>

\* PROCESO_FINALIZADO_CORRECTAMENTE
Finalizado(c) ==
  LET p == corre[c]
  IN  /\ DeCpu(c)
      /\ kernel' = end_process(desmarcar(kernel, p), p)
      /\ LiberarCpu(c)
      /\ Despertar
      /\ UNCHANGED <<new_queue, pid, plan_go, grado, hilos, lista_cpus, copia, externo>>

\* PROCESO_FINALIZO_ERRONEAMENTE: leaves the mark
FinErroneo(c) ==
  /\ Permite("error") /\ DeCpu(c)
  /\ kernel' = end_process(kernel, corre[c])
  /\ LiberarCpu(c)
  /\ Despertar
  /\ UNCHANGED <<new_queue, pid, plan_go, grado, hilos, lista_cpus, copia, externo>>

\* WAIT of a process that was marked: it is ended, and the CPU told so
WaitMarcado(c) ==
  LET p == corre[c]
  IN  /\ DeCpu(c) /\ proceso_para_borrar(kernel, p)
      /\ kernel' = end_process(desmarcar(kernel, p), p)
      /\ LiberarCpu(c)
      /\ Despertar
      /\ UNCHANGED <<new_queue, pid, plan_go, grado, hilos, lista_cpus, copia, externo>>

\* WAIT of a semaphore that is available: the CPU is taken out of
\* lista_en_ejecucion and put back
WaitPasa(c, s) ==
  /\ DeCpu(c) /\ ~proceso_para_borrar(kernel, corre[c])
  /\ kernel.valor[s] > 0
  /\ kernel' = [kernel EXCEPT !.valor[s] = @ - 1]
  /\ Despertar
  /\ UNCHANGED <<new_queue, pid, plan_go, grado, hilos, cpus, externo>>

\* ... or not: the handler waits for the PCB and queues it
WaitBloquea(c, s) ==
  LET p == corre[c]
  IN  /\ DeCpu(c) /\ ~proceso_para_borrar(kernel, p)
      /\ kernel.valor[s] <= 0
      /\ kernel' = [kernel EXCEPT !.valor[s] = @ - 1, !.estado[p] = "Block",
                                  !.cola[s] = Append(@, p)]
      /\ copia' = copia \cup {p}
      /\ LiberarCpu(c)
      /\ Despertar
      /\ UNCHANGED <<new_queue, pid, plan_go, grado, hilos, lista_cpus, externo>>

\* SIGNAL
Signal(c, s) ==
  /\ DeCpu(c) /\ kernel.valor[s] < MaxValor
  /\ kernel' = signal(kernel, s)
  /\ Despertar
  /\ UNCHANGED <<new_queue, pid, plan_go, grado, hilos, cpus, externo>>

\* WAIT or SIGNAL of a semaphore that does not exist: abort_process is given the
\* global pid, not the process of the CPU, and leaves cpu->proceso as it was
Inexistente(c) ==
  /\ Permite("inexistente") /\ DeCpu(c)
  /\ kernel' = end_process(kernel, pid)
  /\ en_ejecucion' = en_ejecucion \ {c}
  /\ corre' = [corre EXCEPT ![c] = 0]
  /\ Despertar
  /\ UNCHANGED <<new_queue, pid, plan_go, grado, hilos, lista_cpus, proceso, copia, externo>>

-----------------------------------------------------------------------------
(* menu *)

EnMenu == menu.en = "comando"

\* "end": whatever the process is doing
finish_process(p) ==
  /\ Permite("end") /\ EnMenu /\ Baja
  /\ kernel' = end_process(kernel, p)
  /\ Despertar
  /\ UNCHANGED <<new_queue, pid, plan_go, grado, hilos, cpus, consolas>>

\* "plan"
AlternarPlan ==
  /\ Permite("plan") /\ EnMenu
  /\ plan_go' = ~plan_go
  /\ UNCHANGED <<kernel, new_queue, pid, grado, despertador, hilos, cpus, externo>>

\* "grado" and "qsleep" stop planning for the change, and then start it
set_multiprog(g) ==
  /\ Permite("grado") /\ EnMenu
  /\ plan_go' = FALSE
  /\ menu' = [en |-> "cambiar", grado |-> g]
  /\ UNCHANGED <<kernel, new_queue, pid, grado, despertador, planificador, principal,
                 cpus, externo>>

\* Mutant: does not wake the planner for the processes that fit now
CambiarGrado_SinDespertar ==
  /\ menu.en = "cambiar"
  /\ grado' = menu.grado
  /\ plan_go' = TRUE
  /\ menu' = [en |-> "comando", grado |-> 0]
  /\ UNCHANGED <<kernel, new_queue, pid, despertador, planificador, principal, cpus, externo>>

CambiarGrado ==
  /\ menu.en = "cambiar"
  /\ grado' = menu.grado
  /\ plan_go' = TRUE
  /\ despertador' = (despertador \/ kernel.actuales < menu.grado)
  /\ menu' = [en |-> "comando", grado |-> 0]
  /\ UNCHANGED <<kernel, new_queue, pid, planificador, principal, cpus, externo>>

-----------------------------------------------------------------------------
Init ==
  /\ kernel = [estado   |-> [p \in Pids |-> "NoExiste"],
               ready    |-> <<>>,
               cola     |-> [s \in Semaforos |-> <<>>],
               valor    |-> [s \in Semaforos |-> Inicial],
               reciente |-> [p \in Pids |-> Nada],
               borrar   |-> [p \in Pids |-> 0],
               actuales |-> 0]
  /\ new_queue = <<>>
  /\ pid = 0
  /\ plan_go = TRUE
  /\ grado = GradoInicial
  /\ despertador = TRUE
  /\ planificador = [en |-> "mirar", pid |-> 0]
  /\ principal = [en |-> "select", pid |-> 0]
  /\ menu = [en |-> "comando", grado |-> 0]
  /\ lista_cpus = <<>>
  /\ en_ejecucion = {}
  /\ proceso = [c \in CPUs |-> 0]
  /\ corre = [c \in CPUs |-> 0]
  /\ copia = {}
  /\ consolas = {}
  /\ bajas = 0

\* A message after which the CPU no longer holds the process
FinDeTurno(c) ==
  \/ FinDeRafaga(c) \/ Finalizado(c) \/ FinErroneo(c) \/ WaitMarcado(c)
  \/ \E s \in Semaforos : WaitBloquea(c, s)
  \/ Inexistente(c)

DuranteElTurno(c) == \E s \in Semaforos : WaitPasa(c, s) \/ Signal(c, s)

\* The second half of a handler of main
SeguirPrincipal == GuardarPrograma \/ EncolarPrograma \/ EliminarAhora \/ CaidaDeConsola

Next ==
  \/ PasoPlanificacion
  \/ NuevoPrograma \/ RechazarPrograma
  \/ SeguirPrincipal
  \/ \E p \in 1 .. pid : Eliminar(p) \/ DesconectarConsola(p) \/ finish_process(p)
  \/ \E c \in CPUs : ConectarCpu(c) \/ DesconectarCpu(c) \/ FinDeTurno(c) \/ DuranteElTurno(c)
  \/ AlternarPlan \/ CambiarGrado
  \/ \E g \in Grados : set_multiprog(g)

Spec == Init /\ [][Next]_vars

\* The threads run, the CPUs connect, and a burst ends (a quantum, or a program,
\* is finite)
Fairness ==
  /\ WF_vars(PasoPlanificacion)
  /\ WF_vars(SeguirPrincipal)
  /\ WF_vars(CambiarGrado)
  /\ \A c \in CPUs : WF_vars(ConectarCpu(c)) /\ WF_vars(FinDeTurno(c))

FairSpec == Spec /\ Fairness

-----------------------------------------------------------------------------
(* Properties *)

\* The structures keep their types; in particular procesos_a_borrar is never
\* asked to give back a mark it does not have.
TypeOK ==
  /\ kernel \in Estructuras
  /\ new_queue \in Seq(Pids)
  /\ pid \in 0 .. MaxPid
  /\ plan_go \in BOOLEAN /\ despertador \in BOOLEAN
  /\ grado \in Nat
  /\ planificador \in [en : {"mirar", "esperar", "admitir", "guardar", "despachar"},
                       pid : 0 .. MaxPid]
  /\ principal \in [en : {"select", "guardar", "encolar", "eliminar", "caida"},
                    pid : 0 .. MaxPid]
  /\ menu \in [en : {"comando", "cambiar"}, grado : Nat]
  /\ lista_cpus \in Seq(CPUs)
  /\ en_ejecucion \subseteq CPUs
  /\ proceso \in [CPUs -> 0 .. MaxPid]
  /\ corre \in [CPUs -> 0 .. MaxPid]
  /\ copia \subseteq Pids
  /\ consolas \subseteq Pids
  /\ bajas \in 0 .. MaxBajas

\* Where the PCB of a process may be: the queues, a CPU, or the hands of a thread
EnReady(p)   == Contains(kernel.ready, p)
Bloqueado(p) == \E s \in Semaforos : Contains(kernel.cola[s], p)
Corriendo(p) == \E c \in CPUs : corre[c] = p
EnManos(p)   == \/ planificador.en = "guardar" /\ planificador.pid = p
                \/ principal.en \in {"guardar", "encolar"} /\ principal.pid = p
EnNew(p)     == Contains(new_queue, p) \/ EnManos(p)
Admitido(p)  == EnReady(p) \/ Bloqueado(p) \/ Corriendo(p)

SinRepetidos(q) == \A i, j \in DOMAIN q : q[i] = q[j] => i = j

\* A process is in one place at most, however it is killed, woken or sent back:
\* once in one queue, or on one CPU.  Two copies of a PCB would execute twice.
UnaCopia ==
  /\ SinRepetidos(kernel.ready) /\ SinRepetidos(new_queue)
  /\ \A s \in Semaforos : SinRepetidos(kernel.cola[s])
  /\ \A c, d \in CPUs : corre[c] = corre[d] /\ corre[c] # 0 => c = d
  /\ \A p \in Pids :
       /\ \A s, r \in Semaforos :
            Contains(kernel.cola[s], p) /\ Contains(kernel.cola[r], p) => s = r
       /\ EnReady(p) => ~Bloqueado(p) /\ ~Corriendo(p) /\ ~EnNew(p)
       /\ Bloqueado(p) => ~Corriendo(p) /\ ~EnNew(p)
       /\ Corriendo(p) => ~EnNew(p)
       /\ Contains(new_queue, p) => ~EnManos(p)

\* A process that has not finished is somewhere: no handler drops the PCB of one
\* that is alive (as abort_process does when it ends another one instead).
SinPerdidos ==
  \A p \in 1 .. pid : kernel.estado[p] # "Exit" => Admitido(p) \/ EnNew(p)

\* procesos_actuales counts the processes admitted and not finished.
CuentaExacta == kernel.actuales = Cardinality({p \in Pids : Admitido(p)})

\* A negative semaphore counts the processes that wait for it; nobody waits for
\* one that is not negative.
SemaforoExacto ==
  \A s \in Semaforos :
    Len(kernel.cola[s]) = IF kernel.valor[s] < 0 THEN -kernel.valor[s] ELSE 0

\* The Kernel knows what each CPU executes: the CPU is in use, with that process.
CpuAcorde ==
  \A c \in CPUs : corre[c] # 0 => c \in en_ejecucion /\ proceso[c] = corre[c]

\* A CPU in use executes something: none is lost to the planner.
CpuEnUso == \A c \in en_ejecucion : corre[c] # 0

\* The planner waits for mutex_planificacion, and no thread is about to unlock it
Dormido == planificador.en = "esperar" /\ ~despertador /\ EnSelect /\ menu.en = "comando"

\* The planner does not sleep over a ready process with every CPU idle, although
\* a wake-up that comes while one is pending is lost and each serves one process.
ReadyJustificado ==
  Dormido /\ kernel.ready # <<>> /\ lista_cpus # <<>> => \E c \in CPUs : corre[c] # 0

\* The same of a process in New when there is room for it, also when the operator
\* makes room.  (When memory refuses the process it takes from New, the planner is
\* not woken for the next one: that needs "rechazo".  With no CPU connected a turn
\* that admits one leaves the others for the turn that a CPU brings.)
NewJustificado ==
  Dormido /\ new_queue # <<>> /\ HayLugar /\ lista_cpus # <<>> => \E c \in CPUs : corre[c] # 0

\* Nobody waits for the planner while it sleeps for want of a wake-up.
EsperaJustificada == ReadyJustificado /\ NewJustificado

\* main and the planner compare procesos_actuales with the degree and count their
\* process only when memory has answered, each on its own: the degree is exceeded,
\* but by one process at most, whatever the order of arrivals and answers.
GradoAcotado == Cardinality({p \in Pids : Admitido(p)}) <= grado + 1

\* While nobody ends a process from outside, the books of the Kernel are exact: the
\* counter of the degree, the semaphores, and what each CPU executes.
LibrosExactos == CuentaExacta /\ GradoAcotado /\ SemaforoExacto /\ CpuAcorde

\* A process in ready gets a CPU, or is ended.
ReadyCorre ==
  \A p \in Pids : EnReady(p) ~> Corriendo(p) \/ kernel.estado[p] = "Exit"

\* A process marked to be ended when its burst ends is ended.
MarcaSeCumple ==
  \A p \in Pids : kernel.borrar[p] > 0 ~> kernel.estado[p] = "Exit" /\ ~Corriendo(p)
=============================================================================
