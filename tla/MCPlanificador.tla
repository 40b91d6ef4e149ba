--------------------------- MODULE MCPlanificador ---------------------------
(***************************************************************************)
(* Planificador for TLC, and what it implements.                           *)
(***************************************************************************)
EXTENDS Planificador

\* The state of a process is where its PCB is, whatever estado says
LugarDe(p) ==
  CASE p > pid -> "NoExiste"
    [] EnNew(p) -> "New"
    [] EnReady(p) -> "Ready"
    [] Corriendo(p) -> "Exec"
    [] Bloqueado(p) -> "Block"
    [] OTHER -> "Exit"

Ciclo ==
  INSTANCE CicloDeVida WITH
    lugar  <- [p \in Pids |-> LugarDe(p)],
    cuenta <- [s \in Semaforos |-> IF kernel.valor[s] > 0 THEN kernel.valor[s] ELSE 0],
    cola   <- kernel.cola

\* While no process is killed from outside, the three threads implement the
\* diagram of states and counting semaphores.
ImplementaCiclo == Ciclo!Spec
=============================================================================
