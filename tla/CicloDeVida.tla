---------------------------- MODULE CicloDeVida -----------------------------
(***************************************************************************)
(* What the Kernel promises of its processes when nobody kills them: each  *)
(* goes through New, Ready, Exec, Block and Exit along the arrows of the   *)
(* diagram of states, and the semaphores are counting semaphores that hand *)
(* each signal to the process that has waited the longest.                 *)
(***************************************************************************)
EXTENDS Integers, Sequences

CONSTANTS Pids, Semaforos, Inicial

VARIABLES
  lugar,    \* process -> state
  cuenta,   \* semaphore -> signals not taken
  cola      \* semaphore -> processes that wait, in order

vars == <<lugar, cuenta, cola>>

Init ==
  /\ lugar = [p \in Pids |-> "NoExiste"]
  /\ cuenta = [s \in Semaforos |-> Inicial]
  /\ cola = [s \in Semaforos |-> <<>>]

\* The arrows that no semaphore is part of
Flechas == {<<"NoExiste", "New">>, <<"New", "Ready">>, <<"New", "Exit">>,
            <<"Ready", "Exec">>, <<"Exec", "Ready">>, <<"Exec", "Exit">>}

Mover(p) ==
  /\ \E f \in Flechas : lugar[p] = f[1] /\ lugar' = [lugar EXCEPT ![p] = f[2]]
  /\ UNCHANGED <<cuenta, cola>>

Pasar(p, s) ==
  /\ lugar[p] = "Exec" /\ cuenta[s] > 0
  /\ cuenta' = [cuenta EXCEPT ![s] = @ - 1]
  /\ UNCHANGED <<lugar, cola>>

Bloquear(p, s) ==
  /\ lugar[p] = "Exec" /\ cuenta[s] = 0
  /\ lugar' = [lugar EXCEPT ![p] = "Block"]
  /\ cola' = [cola EXCEPT ![s] = Append(@, p)]
  /\ UNCHANGED cuenta

Despertar(p, s) ==
  /\ lugar[p] = "Exec" /\ cola[s] # <<>>
  /\ lugar' = [lugar EXCEPT ![Head(cola[s])] = "Ready"]
  /\ cola' = [cola EXCEPT ![s] = Tail(@)]
  /\ UNCHANGED cuenta

Dejar(p, s) ==
  /\ lugar[p] = "Exec" /\ cola[s] = <<>>
  /\ cuenta' = [cuenta EXCEPT ![s] = @ + 1]
  /\ UNCHANGED <<lugar, cola>>

Next ==
  \E p \in Pids :
    \/ Mover(p)
    \/ \E s \in Semaforos : Pasar(p, s) \/ Bloquear(p, s) \/ Despertar(p, s) \/ Dejar(p, s)

Spec == Init /\ [][Next]_vars
=============================================================================
