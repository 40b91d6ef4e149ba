------------------------- MODULE PlanificadorProofs -------------------------
(***************************************************************************)
(* Theorems about the life of the processes in the Kernel, for any number  *)
(* of programs, CPUs and semaphores and any way of ending a process.  And  *)
(* when nobody ends one from outside: the books of the Kernel are exact,   *)
(* and its three threads implement the diagram of states.                  *)
(***************************************************************************)
EXTENDS MCPlanificador, TLAPS, SequenceTheorems, FiniteSetTheorems, WellFoundedInduction

-----------------------------------------------------------------------------
(* Queues *)

\* list_add: the process is in the queue, once if it was not there.
LEMMA AlFinal ==
  ASSUME NEW S, NEW q \in Seq(S), NEW p \in S
  PROVE  /\ Append(q, p) \in Seq(S)
         /\ \A x : Contains(Append(q, p), x) => Contains(q, x) \/ x = p
         /\ SinRepetidos(q) /\ ~Contains(q, p) => SinRepetidos(Append(q, p))
<1>1. /\ Append(q, p) \in Seq(S)
      /\ Len(Append(q, p)) = Len(q) + 1
      /\ \A i \in 1 .. Len(q) : Append(q, p)[i] = q[i]
      /\ Append(q, p)[Len(q) + 1] = p
  BY AppendProperties
<1>2. /\ Len(q) \in Nat
      /\ DOMAIN q = 1 .. Len(q)
      /\ DOMAIN Append(q, p) = 1 .. Len(q) + 1
  BY <1>1, LenProperties
<1> QED
  BY <1>1, <1>2 DEF Contains, SinRepetidos

\* queue_pop: the first one leaves the queue.
LEMMA DelPrincipio ==
  ASSUME NEW S, NEW q \in Seq(S), q # <<>>
  PROVE  /\ Head(q) \in S /\ Tail(q) \in Seq(S)
         /\ Contains(q, Head(q))
         /\ \A x : Contains(Tail(q), x) => Contains(q, x)
         /\ SinRepetidos(q) => SinRepetidos(Tail(q)) /\ ~Contains(Tail(q), Head(q))
<1>1. /\ Head(q) \in S /\ Tail(q) \in Seq(S)
      /\ Len(Tail(q)) = Len(q) - 1
      /\ \A i \in 1 .. Len(Tail(q)) : Tail(q)[i] = q[i + 1]
      /\ Head(q) = q[1]
  BY HeadTailProperties
<1>2. /\ Len(q) \in Nat \ {0}
      /\ DOMAIN q = 1 .. Len(q)
      /\ DOMAIN Tail(q) = 1 .. Len(q) - 1
  BY <1>1, LenProperties, EmptySeq
<1> QED
  BY <1>1, <1>2 DEF Contains, SinRepetidos

\* list_add: the queue has one process more, the one added.
LEMMA AlFinalExacto ==
  ASSUME NEW S, NEW q \in Seq(S), NEW p \in S
  PROVE  /\ Len(Append(q, p)) = Len(q) + 1
         /\ \A x : Contains(Append(q, p), x) <=> Contains(q, x) \/ x = p
<1>1. /\ Append(q, p) \in Seq(S)
      /\ Len(Append(q, p)) = Len(q) + 1
      /\ \A i \in 1 .. Len(q) : Append(q, p)[i] = q[i]
      /\ Append(q, p)[Len(q) + 1] = p
  BY AppendProperties
<1>2. /\ Len(q) \in Nat
      /\ DOMAIN q = 1 .. Len(q)
      /\ DOMAIN Append(q, p) = 1 .. Len(q) + 1
  BY <1>1, LenProperties
<1>3. \A x : Contains(q, x) => Contains(Append(q, p), x)
  BY <1>1, <1>2 DEF Contains
<1>4. Contains(Append(q, p), p)
  BY <1>1, <1>2 DEF Contains
<1> QED
  BY <1>1, <1>3, <1>4, AlFinal

\* queue_pop: the queue has one process less, the first.
LEMMA DelPrincipioExacto ==
  ASSUME NEW S, NEW q \in Seq(S), q # <<>>
  PROVE  /\ Len(Tail(q)) = Len(q) - 1 /\ Len(q) \in Nat \ {0}
         /\ SinRepetidos(q) => \A x : Contains(Tail(q), x) <=> Contains(q, x) /\ x # Head(q)
<1>1. /\ Head(q) \in S /\ Tail(q) \in Seq(S)
      /\ Len(Tail(q)) = Len(q) - 1
      /\ \A i \in 1 .. Len(Tail(q)) : Tail(q)[i] = q[i + 1]
      /\ Head(q) = q[1]
  BY HeadTailProperties
<1>2. /\ Len(q) \in Nat \ {0}
      /\ DOMAIN q = 1 .. Len(q)
      /\ DOMAIN Tail(q) = 1 .. Len(q) - 1
  BY <1>1, LenProperties, EmptySeq
<1>3. ASSUME NEW x, Contains(q, x), x # Head(q) PROVE Contains(Tail(q), x)
  <2>1. PICK i \in 1 .. Len(q) : q[i] = x
    BY <1>2, <1>3 DEF Contains
  <2>2. i - 1 \in 1 .. Len(q) - 1 /\ (i - 1) + 1 = i
    BY <1>1, <1>2, <1>3, <2>1
  <2>3. Tail(q)[i - 1] = x
    BY <1>1, <2>1, <2>2
  <2> QED
    BY <1>1, <1>2, <2>2, <2>3 DEF Contains
<1> QED
  BY <1>1, <1>2, <1>3, DelPrincipio

\* A position that satisfies a condition has a first one.
LEMMA HayPrimero ==
  ASSUME NEW I \in SUBSET Nat, I # {}
  PROVE  Min(I) \in I
<1> DEFINE R == {par \in Nat \X Nat : par[1] < par[2]}
<1>1. R = OpToRel(<, Nat)
  BY DEF OpToRel
<1>2. \A x, y \in Nat : <<y, x>> \notin R => x <= y
  OBVIOUS
<1> HIDE DEF R
<1>3. IsWellFoundedOn(R, Nat)
  BY <1>1, NatLessThanWellFounded
<1>4. PICK x \in I : \A y \in I : <<y, x>> \notin R
  BY <1>3, WFMin
<1> QED
  BY <1>2, <1>4 DEF Min

\* list_remove_by_condition: the others stay, in order.
LEMMA DelMedio ==
  ASSUME NEW S, NEW q \in Seq(S), NEW p
  PROVE  /\ RemoveFirst(q, p) \in Seq(S)
         /\ \A x : Contains(RemoveFirst(q, p), x) => Contains(q, x)
         /\ \A x : Contains(q, x) /\ x # p => Contains(RemoveFirst(q, p), x)
         /\ SinRepetidos(q) => SinRepetidos(RemoveFirst(q, p)) /\ ~Contains(RemoveFirst(q, p), p)
<1>1. CASE ~Contains(q, p)
  BY <1>1 DEF Contains, RemoveFirst
<1>2. CASE Contains(q, p)
  <2> DEFINE I == {i \in 1 .. Len(q) : q[i] = p}
             k == SelectInSeq(q, LAMBDA v : v = p)
             antes   == SubSeq(q, 1, k - 1)
             despues == SubSeq(q, k + 1, Len(q))
  <2>1. Len(q) \in Nat /\ q \in [1 .. Len(q) -> S]
    BY LenProperties
  <2>2. I # {} /\ I \in SUBSET Nat
    BY <1>2, <2>1 DEF Contains
  <2>3. k = Min(I)
    BY <2>2 DEF SelectInSeq
  <2>4. k \in 1 .. Len(q) /\ q[k] = p
    <3>1. k \in I
      BY <2>2, <2>3, HayPrimero
    <3> QED
      BY <3>1
  <2>5. RemoveFirst(q, p) = antes \o despues
    BY <1>2 DEF RemoveFirst, RemoveAt, Contains
  <2> HIDE DEF k
  <2>6. /\ antes \in Seq(S) /\ Len(antes) = k - 1
        /\ \A i \in 1 .. k - 1 : antes[i] = q[i]
    <3>1. k - 1 \in Int /\ \A i \in 1 .. k - 1 : q[i] \in S
      BY <2>1, <2>4
    <3> QED
      BY <3>1, <2>4, SubSeqProperties
  <2>7. /\ despues \in Seq(S) /\ Len(despues) = Len(q) - k
        /\ \A i \in 1 .. Len(q) - k : despues[i] = q[k + i]
    <3>1. k + 1 \in Int /\ Len(q) \in Int /\ \A i \in k + 1 .. Len(q) : q[i] \in S
      BY <2>1, <2>4
    <3>2. /\ SubSeq(q, k + 1, Len(q)) \in Seq(S)
          /\ Len(SubSeq(q, k + 1, Len(q))) = IF k + 1 <= Len(q) THEN Len(q) - (k + 1) + 1 ELSE 0
          /\ \A i \in 1 .. Len(q) - (k + 1) + 1 : SubSeq(q, k + 1, Len(q))[i] = q[k + 1 + i - 1]
      BY <3>1, SubSeqProperties
    <3> HIDE DEF despues
    <3>3. /\ despues \in Seq(S)
          /\ Len(despues) = IF k + 1 <= Len(q) THEN Len(q) - (k + 1) + 1 ELSE 0
          /\ \A i \in 1 .. Len(q) - (k + 1) + 1 : despues[i] = q[k + 1 + i - 1]
      BY <3>2 DEF despues
    <3>4. Len(despues) = Len(q) - k
      <4>1. Len(q) \in Int /\ k \in Int /\ k <= Len(q)
        BY <2>1, <2>4
      <4>2. Len(despues) = IF k + 1 <= Len(q) THEN Len(q) - (k + 1) + 1 ELSE 0
        BY <3>3
      <4> QED
        BY <4>1, <4>2
    <3>5. ASSUME NEW i \in 1 .. Len(q) - k PROVE despues[i] = q[k + i]
      <4>1. i \in 1 .. Len(q) - (k + 1) + 1 /\ k + 1 + i - 1 = k + i
        BY <2>1, <2>4
      <4> QED
        BY <4>1, <3>3
    <3> QED
      BY <3>3, <3>4, <3>5
  <2> HIDE DEF antes, despues
  <2> DEFINE r == antes \o despues
  <2>8. /\ r \in Seq(S) /\ Len(r) = Len(q) - 1
        /\ \A i \in 1 .. Len(q) - 1 : r[i] = IF i <= k - 1 THEN antes[i] ELSE despues[i - (k - 1)]
    <3>1. /\ r \in Seq(S) /\ Len(r) = Len(antes) + Len(despues)
          /\ \A i \in 1 .. Len(antes) + Len(despues) :
               r[i] = IF i <= Len(antes) THEN antes[i] ELSE despues[i - Len(antes)]
      BY <2>6, <2>7, ConcatProperties
    <3>2. Len(antes) + Len(despues) = Len(q) - 1
      BY <2>1, <2>4, <2>6, <2>7
    <3> QED
      BY <3>1, <3>2, <2>6
  <2> HIDE DEF r
  <2>9. \A i \in 1 .. Len(q) - 1 : r[i] = IF i < k THEN q[i] ELSE q[i + 1]
    <3> SUFFICES ASSUME NEW i \in 1 .. Len(q) - 1
                 PROVE  r[i] = IF i < k THEN q[i] ELSE q[i + 1]
      OBVIOUS
    <3>1. CASE i < k
      BY <3>1, <2>1, <2>4, <2>6, <2>8
    <3>2. CASE ~(i < k)
      <4>1. i - (k - 1) \in 1 .. Len(q) - k /\ k + (i - (k - 1)) = i + 1
        BY <3>2, <2>1, <2>4
      <4> QED
        BY <4>1, <3>2, <2>1, <2>4, <2>7, <2>8
    <3> QED
      BY <3>1, <3>2
  <2>10. DOMAIN r = 1 .. Len(q) - 1 /\ DOMAIN q = 1 .. Len(q)
    BY <2>8, LenProperties
  <2>11. \A x : Contains(r, x) => Contains(q, x)
    BY <2>1, <2>4, <2>8, <2>9 DEF Contains
  <2>12. SinRepetidos(q) => SinRepetidos(r)
    <3> SUFFICES ASSUME SinRepetidos(q), NEW i \in 1 .. Len(q) - 1, NEW j \in 1 .. Len(q) - 1,
                        r[i] = r[j]
                 PROVE  i = j
      BY <2>10 DEF SinRepetidos
    <3> DEFINE f(n) == IF n < k THEN n ELSE n + 1
    <3>1. f(i) \in DOMAIN q /\ f(j) \in DOMAIN q
      BY <2>1, <2>4, <2>10
    <3>2. q[f(i)] = q[f(j)]
      BY <2>9
    <3>3. f(i) = f(j)
      BY <3>1, <3>2 DEF SinRepetidos
    <3> QED
      BY <3>3, <2>1, <2>4
  <2>13. ASSUME NEW x, Contains(q, x), x # p PROVE Contains(r, x)
    <3>1. PICK i \in 1 .. Len(q) : q[i] = x
      BY <2>10, <2>13 DEF Contains
    <3>2. CASE i < k
      BY <2>1, <2>4, <2>9, <2>10, <3>1, <3>2 DEF Contains
    <3>3. CASE i > k
      <4>1. i - 1 \in 1 .. Len(q) - 1 /\ ~(i - 1 < k) /\ (i - 1) + 1 = i
        BY <2>1, <2>4, <3>1, <3>3
      <4>2. r[i - 1] = x
        BY <2>9, <3>1, <4>1
      <4> QED
        BY <2>10, <4>1, <4>2 DEF Contains
    <3> QED
      BY <2>1, <2>4, <2>13, <3>1, <3>2, <3>3
  <2>14. SinRepetidos(q) => ~Contains(r, p)
    <3> SUFFICES ASSUME SinRepetidos(q), NEW i \in 1 .. Len(q) - 1, r[i] = p
                 PROVE  FALSE
      BY <2>10 DEF Contains
    <3> DEFINE n == IF i < k THEN i ELSE i + 1
    <3>1. n \in DOMAIN q /\ k \in DOMAIN q /\ n # k
      BY <2>1, <2>4, <2>10
    <3>2. q[n] = q[k]
      BY <2>4, <2>9
    <3> QED
      BY <3>1, <3>2 DEF SinRepetidos
  <2> QED
    BY <2>5, <2>8, <2>11, <2>12, <2>13, <2>14 DEF r
<1> QED
  BY <1>1, <1>2

-----------------------------------------------------------------------------
(* The structures of the processes *)

\* Processes whose PCB is in ready or waits for a semaphore
Esperan(k) == {p \in Pids : Contains(k.ready, p) \/ \E s \in Semaforos : Contains(k.cola[s], p)}

\* Each of them is in one queue, once
Orden(k) ==
  /\ SinRepetidos(k.ready)
  /\ \A s \in Semaforos : SinRepetidos(k.cola[s])
  /\ \A s, r \in Semaforos : \A p \in Pids :
       Contains(k.cola[s], p) /\ Contains(k.cola[r], p) => s = r
  /\ \A s \in Semaforos : \A p \in Pids : Contains(k.ready, p) => ~Contains(k.cola[s], p)

\* A function that ends, wakes or counts processes and puts nobody new in a queue
Conserva(k, m) ==
  /\ m \in Estructuras
  /\ Orden(k) => Orden(m)
  /\ Esperan(m) \subseteq Esperan(k)

\* Such functions compose.
LEMMA Componen ==
  ASSUME NEW k, NEW m, NEW n, Conserva(k, m), Conserva(m, n)
  PROVE  Conserva(k, n)
BY DEF Conserva

\* One that leaves the queues alone is one of them.
LEMMA SinColas ==
  ASSUME NEW k, NEW m \in Estructuras, m.ready = k.ready, m.cola = k.cola
  PROVE  Conserva(k, m)
BY DEF Conserva, Orden, Esperan

\* Fields of the structures keep their types when they are assigned.
LEMMA Asignaciones ==
  ASSUME NEW k \in Estructuras
  PROVE  /\ \A p \in Pids : \A e \in Estados : [k EXCEPT !.estado[p] = e] \in Estructuras
         /\ \A q \in Seq(Pids) : [k EXCEPT !.ready = q] \in Estructuras
         /\ \A s \in Semaforos : \A q \in Seq(Pids) : [k EXCEPT !.cola[s] = q] \in Estructuras
         /\ \A s \in Semaforos : \A n \in Int : [k EXCEPT !.valor[s] = n] \in Estructuras
         /\ \A p \in Pids : \A s \in Semaforos \cup {Nada} :
              [k EXCEPT !.reciente[p] = s] \in Estructuras
         /\ \A p \in Pids : \A n \in Nat : [k EXCEPT !.borrar[p] = n] \in Estructuras
         /\ \A n \in Int : [k EXCEPT !.actuales = n] \in Estructuras
<1>1. ASSUME NEW p \in Pids, NEW e \in Estados PROVE [k EXCEPT !.estado[p] = e] \in Estructuras
  BY DEF Estructuras
<1>2. ASSUME NEW q \in Seq(Pids) PROVE [k EXCEPT !.ready = q] \in Estructuras
  BY DEF Estructuras
<1>3. ASSUME NEW s \in Semaforos, NEW q \in Seq(Pids) PROVE [k EXCEPT !.cola[s] = q] \in Estructuras
  BY DEF Estructuras
<1>4. ASSUME NEW s \in Semaforos, NEW n \in Int PROVE [k EXCEPT !.valor[s] = n] \in Estructuras
  BY DEF Estructuras
<1>5. ASSUME NEW p \in Pids, NEW s \in Semaforos \cup {Nada}
      PROVE  [k EXCEPT !.reciente[p] = s] \in Estructuras
  BY DEF Estructuras
<1>6. ASSUME NEW p \in Pids, NEW n \in Nat PROVE [k EXCEPT !.borrar[p] = n] \in Estructuras
  BY DEF Estructuras
<1>7. ASSUME NEW n \in Int PROVE [k EXCEPT !.actuales = n] \in Estructuras
  BY DEF Estructuras
<1> QED
  BY <1>1, <1>2, <1>3, <1>4, <1>5, <1>6, <1>7

\* Taking the first of a queue, or one from the middle, and dropping it.
LEMMA SacarDeCola ==
  ASSUME NEW k \in Estructuras, NEW s \in Semaforos, NEW q \in Seq(Pids),
         \A x : Contains(q, x) => Contains(k.cola[s], x),
         SinRepetidos(k.cola[s]) => SinRepetidos(q)
  PROVE  Conserva(k, [k EXCEPT !.cola[s] = q])
<1> DEFINE m == [k EXCEPT !.cola[s] = q]
<1>1. m \in Estructuras
  BY Asignaciones
<1>2. /\ m.ready = k.ready
      /\ \A r \in Semaforos : m.cola[r] = IF r = s THEN q ELSE k.cola[r]
  BY DEF Estructuras
<1> HIDE DEF m
<1>3. \A r \in Semaforos : \A x : Contains(m.cola[r], x) => Contains(k.cola[r], x)
  BY <1>2
<1>4. \A r \in Semaforos : SinRepetidos(k.cola[r]) => SinRepetidos(m.cola[r])
  BY <1>2
<1>5. Orden(k) => Orden(m)
  BY <1>2, <1>3, <1>4 DEF Orden
<1>6. Esperan(m) \subseteq Esperan(k)
  BY <1>2, <1>3 DEF Esperan
<1> QED
  BY <1>1, <1>5, <1>6 DEF Conserva, m

\* The same of ready.
LEMMA SacarDeReady ==
  ASSUME NEW k \in Estructuras, NEW q \in Seq(Pids),
         \A x : Contains(q, x) => Contains(k.ready, x),
         SinRepetidos(k.ready) => SinRepetidos(q)
  PROVE  Conserva(k, [k EXCEPT !.ready = q])
<1> DEFINE m == [k EXCEPT !.ready = q]
<1>1. m \in Estructuras
  BY Asignaciones
<1>2. m.ready = q /\ m.cola = k.cola
  BY DEF Estructuras
<1> HIDE DEF m
<1>3. Orden(k) => Orden(m)
  BY <1>2 DEF Orden
<1>4. Esperan(m) \subseteq Esperan(k)
  BY <1>2 DEF Esperan
<1> QED
  BY <1>1, <1>3, <1>4 DEF Conserva, m

\* A process that waits nowhere is put in ready.
LEMMA PonerEnReady ==
  ASSUME NEW k \in Estructuras, NEW m \in Estructuras, NEW p \in Pids, p \notin Esperan(k),
         m.ready = Append(k.ready, p), m.cola = k.cola
  PROVE  /\ Orden(k) => Orden(m)
         /\ Esperan(m) \subseteq Esperan(k) \cup {p}
<1>1. k.ready \in Seq(Pids)
  BY DEF Estructuras
<1>2. ~Contains(k.ready, p) /\ \A s \in Semaforos : ~Contains(k.cola[s], p)
  BY DEF Esperan
<1>3. /\ \A x : Contains(m.ready, x) => Contains(k.ready, x) \/ x = p
      /\ SinRepetidos(k.ready) => SinRepetidos(m.ready)
  BY <1>1, <1>2, AlFinal
<1>4. Orden(k) => Orden(m)
  BY <1>2, <1>3 DEF Orden
<1>5. Esperan(m) \subseteq Esperan(k) \cup {p}
  BY <1>3 DEF Esperan
<1> QED
  BY <1>4, <1>5

\* A process that waits nowhere is put in the queue of a semaphore.
LEMMA PonerEnCola ==
  ASSUME NEW k \in Estructuras, NEW m \in Estructuras, NEW p \in Pids, p \notin Esperan(k),
         NEW s \in Semaforos, m.ready = k.ready,
         \A r \in Semaforos : m.cola[r] = IF r = s THEN Append(k.cola[s], p) ELSE k.cola[r]
  PROVE  /\ Orden(k) => Orden(m)
         /\ Esperan(m) \subseteq Esperan(k) \cup {p}
<1>1. k.cola[s] \in Seq(Pids)
  BY DEF Estructuras
<1>2. ~Contains(k.ready, p) /\ \A r \in Semaforos : ~Contains(k.cola[r], p)
  BY DEF Esperan
<1>3. /\ \A x : Contains(m.cola[s], x) => Contains(k.cola[s], x) \/ x = p
      /\ SinRepetidos(k.cola[s]) => SinRepetidos(m.cola[s])
  BY <1>1, <1>2, AlFinal
<1>4. \A r \in Semaforos : r # s => m.cola[r] = k.cola[r]
  OBVIOUS
<1>5. Orden(k) => Orden(m)
  BY <1>2, <1>3, <1>4 DEF Orden
<1>6. Esperan(m) \subseteq Esperan(k) \cup {p}
  BY <1>3, <1>4 DEF Esperan
<1> QED
  BY <1>5, <1>6

-----------------------------------------------------------------------------
(* The functions of the Kernel over them *)

\* A process that waits nowhere is in no queue to be removed from.
LEMMA DeNingunaCola ==
  ASSUME NEW k \in Estructuras, NEW p \in Pids, p \notin Esperan(k)
  PROVE  remove_from_queue(k, p) = k
<1>1. ~Contains(k.ready, p) /\ {s \in Semaforos : Contains(k.cola[s], p)} = {}
  BY DEF Esperan
<1>2. RemoveFirst(k.ready, p) = k.ready
  BY <1>1 DEF RemoveFirst, Contains
<1>3. remove_from_semaphore(k, p) = k
  BY <1>1 DEF remove_from_semaphore
<1>4. [k EXCEPT !.ready = k.ready] = k
  BY DEF Estructuras
<1> QED
  BY <1>2, <1>3, <1>4 DEF remove_from_queue

\* signal hands the PCB of the first process that waits to ready, or drops it.
LEMMA SignalConserva ==
  ASSUME NEW k \in Estructuras, NEW s \in Semaforos
  PROVE  Conserva(k, signal(k, s))
<1> DEFINE p    == Head(k.cola[s])
           sube == [k EXCEPT !.valor[s] = @ + 1]
           saca == [sube EXCEPT !.cola[s] = Tail(@)]
           m    == [saca EXCEPT !.estado[p] = "Ready", !.reciente[p] = s,
                                !.ready = Append(@, p)]
<1>1. sube \in Estructuras /\ sube.ready = k.ready /\ sube.cola = k.cola
  <2>1. k.valor[s] + 1 \in Int
    BY DEF Estructuras
  <2>2. sube \in Estructuras
    BY <2>1, Asignaciones
  <2> QED
    BY <2>2 DEF Estructuras
<1>2. Conserva(k, sube)
  BY <1>1, SinColas
<1>3. CASE k.cola[s] = <<>>
  BY <1>2, <1>3 DEF signal
<1>4. CASE k.cola[s] # <<>>
  <2> HIDE DEF sube
  <2>1. k.cola[s] \in Seq(Pids)
    BY DEF Estructuras
  <2>2. /\ p \in Pids /\ Tail(k.cola[s]) \in Seq(Pids)
        /\ Contains(k.cola[s], p)
        /\ \A x : Contains(Tail(k.cola[s]), x) => Contains(k.cola[s], x)
        /\ SinRepetidos(k.cola[s]) => SinRepetidos(Tail(k.cola[s])) /\ ~Contains(Tail(k.cola[s]), p)
    BY <1>4, <2>1, DelPrincipio
  <2>3. saca = [sube EXCEPT !.cola[s] = Tail(k.cola[s])]
    BY <1>1
  <2>4. Conserva(sube, saca)
    BY <1>1, <2>2, <2>3, SacarDeCola
  <2>5. Conserva(k, saca)
    BY <1>2, <2>4, Componen
  <2>6. /\ saca \in Estructuras /\ saca.ready = k.ready
        /\ \A r \in Semaforos : saca.cola[r] = IF r = s THEN Tail(k.cola[s]) ELSE k.cola[r]
    BY <1>1, <2>3, <2>4 DEF Conserva, Estructuras
  <2> HIDE DEF saca
  <2>7. p \in Esperan(k)
    BY <2>2 DEF Esperan
  <2>8. Orden(k) => p \notin Esperan(saca)
    BY <2>2, <2>6 DEF Orden, Esperan
  <2>9. m \in Estructuras
    <3> HIDE DEF p
    <3>1. Append(saca.ready, p) \in Seq(Pids)
      BY <2>2, <2>6, AlFinal DEF Estructuras
    <3>2. "Ready" \in Estados
      BY DEF Estados
    <3>3. [saca EXCEPT !.estado[p] = "Ready"] \in Estructuras
      BY <2>2, <2>6, <3>2, Asignaciones
    <3> QED
      BY <2>2, <2>6, <3>1, <3>2 DEF Estructuras
  <2>10. m.ready = Append(saca.ready, p) /\ m.cola = saca.cola
    BY <2>6 DEF Estructuras
  <2> HIDE DEF m
  <2>11. Orden(k) => Orden(m)
    BY <2>2, <2>5, <2>6, <2>8, <2>9, <2>10, PonerEnReady DEF Conserva
  <2>12. Esperan(m) \subseteq Esperan(k)
    <3>1. saca.ready \in Seq(Pids)
      BY <2>6 DEF Estructuras
    <3>2. \A x : Contains(m.ready, x) => Contains(saca.ready, x) \/ x = p
      BY <2>2, <2>10, <3>1, AlFinal
    <3>3. Esperan(m) \subseteq Esperan(saca) \cup {p}
      BY <2>10, <3>2 DEF Esperan
    <3> QED
      BY <2>5, <2>7, <3>3 DEF Conserva
  <2>13. Conserva(k, m)
    BY <2>9, <2>11, <2>12 DEF Conserva
  <2> QED
    BY <1>4, <2>5, <2>13 DEF signal, saca, sube, m
<1> QED
  BY <1>3, <1>4

\* The process that is ended leaves the queue it waits in; another may be woken.
LEMMA SemaforoConserva ==
  ASSUME NEW k \in Estructuras, NEW p \in Pids
  PROVE  Conserva(k, remove_from_semaphore(k, p))
<1> DEFINE S == {s \in Semaforos : Contains(k.cola[s], p)}
           s == CHOOSE x \in S : TRUE
           m == [k EXCEPT !.cola[s] = RemoveFirst(k.cola[s], p)]
<1>1. CASE S = {}
  BY <1>1, SinColas DEF remove_from_semaphore
<1>2. CASE S # {}
  <2>1. s \in Semaforos
    BY <1>2
  <2>2. remove_from_semaphore(k, p) = signal(m, s)
    BY <1>2 DEF remove_from_semaphore
  <2> HIDE DEF s
  <2>3. k.cola[s] \in Seq(Pids)
    BY <2>1 DEF Estructuras
  <2>4. Conserva(k, m)
    BY <2>1, <2>3, DelMedio, SacarDeCola
  <2>5. m \in Estructuras
    BY <2>4 DEF Conserva
  <2> HIDE DEF m
  <2>6. Conserva(m, signal(m, s))
    BY <2>1, <2>5, SignalConserva
  <2> QED
    BY <2>2, <2>4, <2>6, Componen
<1> QED
  BY <1>1, <1>2

\* The same whatever its state is.
LEMMA ColaConserva ==
  ASSUME NEW k \in Estructuras, NEW p \in Pids
  PROVE  Conserva(k, remove_from_queue(k, p))
<1>1. Conserva(k, k)
  BY SinColas
<1>2. CASE k.estado[p] = "Ready"
  <2>1. k.ready \in Seq(Pids)
    BY DEF Estructuras
  <2>2. Conserva(k, [k EXCEPT !.ready = RemoveFirst(k.ready, p)])
    BY <2>1, DelMedio, SacarDeReady
  <2> QED
    BY <1>2, <2>2 DEF remove_from_queue
<1>3. CASE k.estado[p] = "Block"
  BY <1>3, SemaforoConserva DEF remove_from_queue
<1>4. CASE k.estado[p] \notin {"Ready", "Block"}
  BY <1>1, <1>4 DEF remove_from_queue
<1> QED
  BY <1>2, <1>3, <1>4

\* Ending a process puts nobody new in a queue.
LEMMA TerminarConserva ==
  ASSUME NEW k \in Estructuras, NEW p \in Pids
  PROVE  Conserva(k, end_process(k, p))
<1> DEFINE sin == [k EXCEPT !.reciente[p] = Nada]
           m   == remove_from_queue(sin, p)
           n   == [m EXCEPT !.estado[p] = "Exit", !.actuales = @ - 1]
<1>1. Conserva(k, k)
  BY SinColas
<1>2. sin \in Estructuras /\ sin.ready = k.ready /\ sin.cola = k.cola
  BY Asignaciones DEF Estructuras
<1>3. Conserva(k, sin)
  BY <1>2, SinColas
<1> HIDE DEF sin
<1>4. Conserva(sin, m)
  BY <1>2, ColaConserva
<1>5. Conserva(k, m) /\ m \in Estructuras
  BY <1>3, <1>4, Componen DEF Conserva
<1> HIDE DEF m
<1>6. n \in Estructuras /\ n.ready = m.ready /\ n.cola = m.cola
  <2> DEFINE x == [m EXCEPT !.estado[p] = "Exit"]
  <2>1. x \in Estructuras /\ x.ready = m.ready /\ x.cola = m.cola /\ x.actuales = m.actuales
    <3>1. "Exit" \in Estados
      BY DEF Estados
    <3>2. x \in Estructuras
      BY <1>5, <3>1, Asignaciones
    <3> QED
      BY <1>5, <3>2 DEF Estructuras
  <2>2. n = [x EXCEPT !.actuales = m.actuales - 1]
    BY <1>5, <2>1 DEF Estructuras
  <2>3. m.actuales - 1 \in Int
    BY <1>5 DEF Estructuras
  <2> HIDE DEF x, n
  <2>4. n \in Estructuras
    BY <2>1, <2>2, <2>3, Asignaciones
  <2> QED
    BY <2>1, <2>2, <2>4 DEF Estructuras
<1>7. Conserva(k, n)
  BY <1>5, <1>6, SinColas, Componen
<1> QED
  BY <1>1, <1>7 DEF end_process, m, sin

\* Nor does giving back the semaphore it last took,
LEMMA RecienteConserva ==
  ASSUME NEW k \in Estructuras, NEW p \in Pids
  PROVE  Conserva(k, signal_reciente(k, p))
<1>1. Conserva(k, k)
  BY SinColas
<1>2. k.reciente[p] \in Semaforos \cup {Nada}
  BY DEF Estructuras
<1> QED
  BY <1>1, <1>2, SignalConserva DEF signal_reciente

\* nor both,
LEMMA MatarConserva ==
  ASSUME NEW k \in Estructuras, NEW p \in Pids
  PROVE  Conserva(k, end_process(signal_reciente(k, p), p))
<1>1. Conserva(k, signal_reciente(k, p)) /\ signal_reciente(k, p) \in Estructuras
  BY RecienteConserva DEF Conserva
<1> QED
  BY <1>1, TerminarConserva, Componen

Marcado(k, p) == [k EXCEPT !.borrar[p] = @ + 1]

\* nor marking it or taking its mark off,
LEMMA MarcaConserva ==
  ASSUME NEW k \in Estructuras, NEW p \in Pids
  PROVE  Conserva(k, Marcado(k, p)) /\ Conserva(k, desmarcar(k, p))
<1> DEFINE mas   == [k EXCEPT !.borrar[p] = @ + 1]
           menos == [k EXCEPT !.borrar[p] = @ - 1]
<1>1. k.borrar[p] \in Nat
  BY DEF Estructuras
<1>2. mas \in Estructuras /\ (k.borrar[p] > 0 => menos \in Estructuras)
  <2>1. k.borrar[p] + 1 \in Nat /\ (k.borrar[p] > 0 => k.borrar[p] - 1 \in Nat)
    BY <1>1
  <2> QED
    BY <2>1, Asignaciones
<1>3. mas.ready = k.ready /\ mas.cola = k.cola /\ menos.ready = k.ready /\ menos.cola = k.cola
  BY DEF Estructuras
<1>4. Conserva(k, k) /\ Conserva(k, mas) /\ (k.borrar[p] > 0 => Conserva(k, menos))
  BY <1>2, <1>3, SinColas
<1> QED
  BY <1>4 DEF desmarcar, proceso_para_borrar, Marcado

\* nor ending one that was marked.
LEMMA TerminarMarcadoConserva ==
  ASSUME NEW k \in Estructuras, NEW p \in Pids
  PROVE  Conserva(k, end_process(desmarcar(k, p), p))
<1>1. Conserva(k, desmarcar(k, p)) /\ desmarcar(k, p) \in Estructuras
  BY MarcaConserva DEF Conserva
<1> QED
  BY <1>1, TerminarConserva, Componen

\* A process that memory has accepted, and that waits nowhere yet, goes to ready.
LEMMA GuardarAdmite ==
  ASSUME NEW k \in Estructuras, NEW p \in Pids, NEW hay \in BOOLEAN,
         NEW m, m = guardado_en_memoria(k, p, hay)
  PROVE  /\ m \in Estructuras
         /\ p \notin Esperan(k) => /\ Orden(k) => Orden(m)
                                  /\ Esperan(m) \subseteq Esperan(k) \cup {p}
<1> DEFINE si == [k EXCEPT !.estado[p] = "Ready", !.ready = Append(@, p), !.actuales = @ + 1]
           no == [k EXCEPT !.estado[p] = "Exit"]
<1>1. Append(k.ready, p) \in Seq(Pids)
  BY AlFinal DEF Estructuras
<1>2. si \in Estructuras /\ si.ready = Append(k.ready, p) /\ si.cola = k.cola
  <2>1. k.estado \in [Pids -> Estados] /\ "Ready" \in Estados /\ k.actuales + 1 \in Int
    BY DEF Estructuras, Estados
  <2> HIDE DEF si
  <2>2. /\ si = [k EXCEPT !.estado = [k.estado EXCEPT ![p] = "Ready"],
                       !.ready = Append(k.ready, p), !.actuales = k.actuales + 1]
        /\ [k.estado EXCEPT ![p] = "Ready"] \in [Pids -> Estados]
    BY <2>1 DEF si, Estructuras
  <2> QED
    BY <1>1, <2>1, <2>2 DEF Estructuras
<1>3. no \in Estructuras /\ no.ready = k.ready /\ no.cola = k.cola
  BY DEF Estructuras, Estados
<1>4. Conserva(k, no)
  BY <1>3, SinColas
<1> HIDE DEF si, no
<1>5. p \notin Esperan(k) => /\ Orden(k) => Orden(si)
                            /\ Esperan(si) \subseteq Esperan(k) \cup {p}
  BY <1>2, PonerEnReady
<1> QED
  BY <1>2, <1>3, <1>4, <1>5 DEF guardado_en_memoria, Conserva, si, no

-----------------------------------------------------------------------------
(* Types *)

\* Every process that is somewhere has been created: the handlers look in
\* todos_los_procesos for nobody else.
Conocidos ==
  /\ Esperan(kernel) \subseteq 1 .. pid
  /\ \A p \in Pids : Contains(new_queue, p) => p <= pid
  /\ \A c \in CPUs : corre[c] \in 0 .. pid
  /\ planificador.en = "guardar" => planificador.pid \in 1 .. pid
  /\ principal.en # "select" => principal.pid \in 1 .. pid

\* The processes created are processes of the instance.
LEMMA CreadosEnPids ==
  ASSUME TypeOK
  PROVE  1 .. pid \subseteq Pids
BY PlanificadorAssumption DEF TypeOK, Pids

\* The planner keeps the types,
LEMMA TipoPlanificacion ==
  ASSUME TypeOK, Conocidos, PasoPlanificacion
  PROVE  TypeOK'
<1>1. CASE MirarPlan
  BY <1>1, PlanificadorAssumption DEF TypeOK, MirarPlan, Planifica, cpus, externo
<1>2. CASE Esperar
  <2>1. despertador' \in BOOLEAN
    BY <1>2 DEF Esperar
  <2>2. UNCHANGED <<kernel, new_queue, pid, plan_go, grado, principal, menu, lista_cpus,
                    en_ejecucion, proceso, corre, copia, consolas, bajas>>
    BY <1>2 DEF Esperar, cpus, externo
  <2>3. planificador' = [en |-> "admitir", pid |-> 0]
    BY <1>2 DEF Esperar, Planifica
  <2> QED
    BY <2>1, <2>2, <2>3, PlanificadorAssumption DEF TypeOK
<1>3. CASE Admitir
  <2>1. new_queue # <<>> => Head(new_queue) \in Pids /\ Tail(new_queue) \in Seq(Pids)
    BY HeadTailProperties DEF TypeOK
  <2>2. \/ new_queue # <<>> /\ new_queue' = Tail(new_queue) /\ Planifica("guardar", Head(new_queue))
        \/ new_queue' = new_queue /\ Planifica("despachar", 0)
    BY <1>3 DEF Admitir
  <2>3. UNCHANGED <<kernel, pid, plan_go, grado, despertador, principal, menu, lista_cpus,
                    en_ejecucion, proceso, corre, copia, consolas, bajas>>
    BY <1>3 DEF Admitir, cpus, externo
  <2>4. planificador' \in [en : {"mirar", "esperar", "admitir", "guardar", "despachar"},
                          pid : 0 .. MaxPid]
    BY <2>1, <2>2, PlanificadorAssumption DEF Planifica, Pids
  <2>5. new_queue' \in Seq(Pids)
    BY <2>1, <2>2 DEF TypeOK
  <2> QED
    BY <2>3, <2>4, <2>5 DEF TypeOK
<1>4. CASE GuardarDeNew
  <2>1. planificador.pid \in Pids
    BY <1>4, CreadosEnPids DEF GuardarDeNew, Conocidos
  <2>2. kernel' \in Estructuras
    <3>1. PICK hay \in BOOLEAN : kernel' = guardado_en_memoria(kernel, planificador.pid, hay)
      BY <1>4 DEF GuardarDeNew, Respuestas
    <3> QED
      BY <2>1, <3>1, GuardarAdmite DEF TypeOK
  <2> QED
    BY <1>4, <2>2, PlanificadorAssumption DEF TypeOK, GuardarDeNew, Planifica, cpus, externo
<1>5. CASE Despachar
  <2> DEFINE p == Head(kernel.ready)
             c == buscar_cpu_libre
  <2>1. CASE kernel.ready # <<>> /\ CpusLibres # {}
    <3>1. kernel.ready \in Seq(Pids) /\ kernel.estado \in [Pids -> Estados]
      BY DEF TypeOK, Estructuras
    <3>2. p \in Pids /\ Tail(kernel.ready) \in Seq(Pids)
      BY <2>1, <3>1, HeadTailProperties
    <3>3. c \in CPUs
      <4>1. lista_cpus \in Seq(CPUs) /\ DOMAIN lista_cpus = 1 .. Len(lista_cpus)
        BY LenProperties DEF TypeOK
      <4>2. CpusLibres \in SUBSET Nat
        BY <4>1 DEF CpusLibres
      <4>3. Min(CpusLibres) \in DOMAIN lista_cpus
        BY <2>1, <4>2, HayPrimero DEF CpusLibres
      <4> QED
        BY <4>1, <4>3, ElementOfSeq DEF buscar_cpu_libre
    <3> HIDE DEF p, c
    <3>4. kernel' \in Estructuras
      <4> DEFINE e == IF p \in copia THEN kernel.estado[p] ELSE "Exec"
                 m == [kernel EXCEPT !.ready = Tail(kernel.ready)]
      <4>1. e \in Estados
        BY <3>1, <3>2 DEF Estados
      <4>2. m \in Estructuras /\ m.estado = kernel.estado
        BY <3>2 DEF TypeOK, Estructuras
      <4>3. kernel' = [m EXCEPT !.estado[p] = e]
        BY <1>5, <2>1 DEF Despachar, TypeOK, Estructuras, p
      <4> HIDE DEF e, m
      <4> QED
        BY <3>2, <4>1, <4>2, <4>3, Asignaciones
    <3>5. /\ en_ejecucion' = en_ejecucion \cup {c}
          /\ proceso' = [proceso EXCEPT ![c] = p]
          /\ corre' = [corre EXCEPT ![c] = p]
      BY <1>5, <2>1 DEF Despachar, p, c
    <3>6. planificador' = [en |-> "mirar", pid |-> 0]
      BY <1>5, <2>1 DEF Despachar, Planifica
    <3>7. UNCHANGED <<new_queue, pid, plan_go, grado, despertador, principal, menu,
                      lista_cpus, copia, consolas, bajas>>
      BY <1>5, <2>1 DEF Despachar, externo
    <3>8. en_ejecucion' \subseteq CPUs
      BY <3>3, <3>5 DEF TypeOK
    <3>9. proceso' \in [CPUs -> 0 .. MaxPid] /\ corre' \in [CPUs -> 0 .. MaxPid]
      <4>1. p \in 0 .. MaxPid
        BY <3>2 DEF Pids
      <4>2. proceso \in [CPUs -> 0 .. MaxPid] /\ corre \in [CPUs -> 0 .. MaxPid]
        BY DEF TypeOK
      <4> QED
        BY <3>5, <4>1, <4>2
    <3> QED
      BY <3>4, <3>6, <3>7, <3>8, <3>9, PlanificadorAssumption DEF TypeOK
  <2>2. CASE ~(kernel.ready # <<>> /\ CpusLibres # {})
    BY <1>5, <2>2, PlanificadorAssumption DEF TypeOK, Despachar, Planifica, externo
  <2> QED
    BY <2>1, <2>2
<1> QED
  BY <1>1, <1>2, <1>3, <1>4, <1>5 DEF PasoPlanificacion

\* the programs that arrive,
LEMMA TipoProgramas ==
  ASSUME TypeOK, Conocidos,
         NuevoPrograma \/ RechazarPrograma \/ GuardarPrograma \/ EncolarPrograma
  PROVE  TypeOK'
<1>1. CASE NuevoPrograma
  <2>1. pid + 1 \in Pids /\ pid' = pid + 1
    BY <1>1, PlanificadorAssumption DEF NuevoPrograma, TypeOK, Pids
  <2>2. kernel' \in Estructuras
    BY <1>1, <2>1, Asignaciones DEF NuevoPrograma, TypeOK, Estados
  <2> QED
    BY <1>1, <2>1, <2>2, PlanificadorAssumption, SMTT(30)
    DEF TypeOK, NuevoPrograma, Principal, cpus, Pids
<1>2. CASE RechazarPrograma
  BY <1>2 DEF TypeOK, RechazarPrograma, Despertar, hilos, cpus, externo
<1>3. CASE GuardarPrograma
  <2>1. principal.pid \in Pids
    BY <1>3, CreadosEnPids DEF GuardarPrograma, Conocidos
  <2>2. kernel' \in Estructuras
    <3>1. PICK hay \in BOOLEAN : kernel' = guardado_en_memoria(kernel, principal.pid, hay)
      BY <1>3 DEF GuardarPrograma, Respuestas
    <3> QED
      BY <2>1, <3>1, GuardarAdmite DEF TypeOK
  <2> QED
    BY <1>3, <2>2, PlanificadorAssumption
    DEF TypeOK, GuardarPrograma, Principal, Despertar, cpus, externo
<1>4. CASE EncolarPrograma
  <2>1. principal.pid \in Pids
    BY <1>4, CreadosEnPids DEF EncolarPrograma, Conocidos
  <2>2. Append(new_queue, principal.pid) \in Seq(Pids)
    BY <2>1, AlFinal DEF TypeOK
  <2> QED
    BY <1>4, <2>2, PlanificadorAssumption
    DEF TypeOK, EncolarPrograma, Principal, Despertar, cpus, externo
<1> QED
  BY <1>1, <1>2, <1>3, <1>4

\* the requests to end a process and the connections,
LEMMA TipoBajas ==
  ASSUME TypeOK, Conocidos,
         \/ EliminarAhora \/ CaidaDeConsola
         \/ \E p \in 1 .. pid : Eliminar(p) \/ DesconectarConsola(p) \/ finish_process(p)
         \/ \E c \in CPUs : ConectarCpu(c) \/ DesconectarCpu(c)
  PROVE  TypeOK'
<1>0. bajas < MaxBajas => bajas + 1 \in 0 .. MaxBajas
  BY PlanificadorAssumption DEF TypeOK
<1>1. ASSUME NEW p \in 1 .. pid, Eliminar(p) PROVE TypeOK'
  <2>1. p \in Pids /\ p \in 0 .. MaxPid
    BY CreadosEnPids DEF Pids
  <2>2. kernel' \in Estructuras
    <3>1. kernel' = kernel \/ kernel' = Marcado(kernel, p)
      BY <1>1 DEF Eliminar, Marcar, Marcado
    <3> QED
      BY <2>1, <3>1, MarcaConserva DEF TypeOK, Conserva
  <2> QED
    BY <1>0, <1>1, <2>1, <2>2, SMTT(30) DEF TypeOK, Eliminar, Baja, Principal, cpus
<1>2. ASSUME NEW p \in 1 .. pid, DesconectarConsola(p) PROVE TypeOK'
  <2>1. p \in Pids /\ p \in 0 .. MaxPid
    BY CreadosEnPids DEF Pids
  <2>2. kernel' \in Estructuras
    <3>1. kernel' = kernel \/ kernel' = Marcado(kernel, p)
      BY <1>2 DEF DesconectarConsola, Marcar, Marcado
    <3> QED
      BY <2>1, <3>1, MarcaConserva DEF TypeOK, Conserva
  <2> QED
    BY <1>2, <2>1, <2>2 DEF TypeOK, DesconectarConsola, Principal, cpus
<1>3. ASSUME NEW p \in 1 .. pid, finish_process(p) PROVE TypeOK'
  <2>1. p \in Pids
    BY CreadosEnPids
  <2>2. kernel' \in Estructuras
    BY <1>3, <2>1, TerminarConserva DEF finish_process, TypeOK, Conserva
  <2> QED
    BY <1>0, <1>3, <2>2 DEF TypeOK, finish_process, Baja, Despertar, hilos, cpus
<1>4. CASE EliminarAhora
  <2> DEFINE p == principal.pid
             c == lista_cpus[Min(ConexionDe(p))]
  <2>1. p \in Pids
    BY <1>4, CreadosEnPids DEF EliminarAhora, Conocidos
  <2>2. kernel' \in Estructuras
    BY <1>4, <2>1, MatarConserva DEF EliminarAhora, TypeOK, Conserva
  <2>3. proceso' \in [CPUs -> 0 .. MaxPid]
    <3>1. proceso' = proceso \/ proceso' = [proceso EXCEPT ![c] = 0]
      BY <1>4 DEF EliminarAhora
    <3>2. 0 \in 0 .. MaxPid /\ proceso \in [CPUs -> 0 .. MaxPid]
      BY PlanificadorAssumption DEF TypeOK
    <3> HIDE DEF p, c
    <3> QED
      BY <3>1, <3>2
  <2> QED
    BY <1>4, <2>2, <2>3, PlanificadorAssumption
    DEF TypeOK, EliminarAhora, Principal, Despertar, externo
<1>5. CASE CaidaDeConsola
  <2>1. principal.pid \in Pids
    BY <1>5, CreadosEnPids DEF CaidaDeConsola, Conocidos
  <2>2. kernel' \in Estructuras
    BY <1>5, <2>1, MatarConserva DEF CaidaDeConsola, TypeOK, Conserva
  <2> QED
    BY <1>5, <2>2, PlanificadorAssumption
    DEF TypeOK, CaidaDeConsola, Principal, Despertar, cpus, externo
<1>6. ASSUME NEW c \in CPUs, ConectarCpu(c) PROVE TypeOK'
  <2>1. Append(lista_cpus, c) \in Seq(CPUs)
    BY AlFinal DEF TypeOK
  <2> QED
    BY <1>6, <2>1, PlanificadorAssumption DEF TypeOK, ConectarCpu, Despertar, hilos, externo
<1>7. ASSUME NEW c \in CPUs, DesconectarCpu(c) PROVE TypeOK'
  <2>1. proceso[c] # 0 => proceso[c] \in Pids
    BY DEF TypeOK, Pids
  <2>2. kernel' \in Estructuras
    BY <1>7, <2>1, MatarConserva DEF DesconectarCpu, TypeOK, Conserva
  <2>3. RemoveFirst(lista_cpus, c) \in Seq(CPUs)
    BY DelMedio DEF TypeOK
  <2> QED
    <3>1. en_ejecucion' \subseteq CPUs
      BY <1>7 DEF DesconectarCpu, TypeOK
    <3>2. despertador' \in BOOLEAN
      BY <1>7 DEF DesconectarCpu, TypeOK, Despertar
    <3>3. /\ lista_cpus' = RemoveFirst(lista_cpus, c)
          /\ proceso' = [proceso EXCEPT ![c] = 0]
          /\ corre' = [corre EXCEPT ![c] = 0]
          /\ UNCHANGED <<new_queue, pid, plan_go, grado, planificador, principal, menu, copia,
                         consolas, bajas>>
      BY <1>7 DEF DesconectarCpu, hilos, externo
    <3> QED
      BY <2>2, <2>3, <3>1, <3>2, <3>3, PlanificadorAssumption DEF TypeOK
<1> QED
  BY <1>1, <1>2, <1>3, <1>4, <1>5, <1>6, <1>7

\* the messages of the CPUs,
LEMMA TipoCpus ==
  ASSUME TypeOK, Conocidos, NEW c \in CPUs, FinDeTurno(c) \/ DuranteElTurno(c)
  PROVE  TypeOK'
<1> DEFINE p == corre[c]
<1>1. p \in Pids
  <2>1. DeCpu(c)
    BY DEF FinDeTurno, DuranteElTurno, FinDeRafaga, Finalizado, FinErroneo, WaitMarcado,
           WaitPasa, WaitBloquea, Signal, Inexistente
  <2> QED
    BY <2>1 DEF TypeOK, Pids, DeCpu
<1>2. pid \in Pids
  BY <1>1 DEF Conocidos, TypeOK, Pids
<1>3. ASSUME LiberarCpu(c)
      PROVE  /\ en_ejecucion' \subseteq CPUs
             /\ proceso' \in [CPUs -> 0 .. MaxPid]
             /\ corre' \in [CPUs -> 0 .. MaxPid]
  BY <1>3, PlanificadorAssumption DEF LiberarCpu, TypeOK
<1>4. ASSUME kernel' \in Estructuras, copia' \subseteq Pids, LiberarCpu(c), Despertar,
             UNCHANGED <<new_queue, pid, plan_go, grado, hilos, lista_cpus, externo>>
      PROVE  TypeOK'
  <2>1. despertador' \in BOOLEAN
    BY <1>4 DEF Despertar
  <2> QED
    BY <1>3, <1>4, <2>1 DEF TypeOK, hilos, externo
<1>5. copia \cup {p} \subseteq Pids /\ copia \subseteq Pids
  BY <1>1 DEF TypeOK
<1>6. /\ end_process(desmarcar(kernel, p), p) \in Estructuras
      /\ end_process(kernel, p) \in Estructuras
      /\ end_process(kernel, pid) \in Estructuras
  BY <1>1, <1>2, TerminarConserva, TerminarMarcadoConserva DEF TypeOK, Conserva
<1> HIDE DEF p
<1>7. CASE FinDeRafaga(c)
  <2> DEFINE m == [kernel EXCEPT !.estado[p] = "Ready"]
             n == [m EXCEPT !.ready = Append(kernel.ready, p)]
  <2>1. m \in Estructuras /\ m.ready = kernel.ready
    BY <1>1, Asignaciones DEF TypeOK, Estados, Estructuras
  <2>2. Append(kernel.ready, p) \in Seq(Pids)
    BY <1>1, AlFinal DEF TypeOK, Estructuras
  <2>3. kernel' = end_process(desmarcar(kernel, p), p) \/ kernel' = n
    BY <1>7 DEF FinDeRafaga, p, TypeOK, Estructuras
  <2> HIDE DEF m
  <2>4. n \in Estructuras
    BY <2>1, <2>2, Asignaciones
  <2> QED
    BY <1>4, <1>5, <1>6, <1>7, <2>3, <2>4 DEF FinDeRafaga, p
<1>8. CASE Finalizado(c)
  BY <1>4, <1>5, <1>6, <1>8 DEF Finalizado, p
<1>9. CASE FinErroneo(c)
  BY <1>4, <1>5, <1>6, <1>9 DEF FinErroneo, p
<1>10. CASE WaitMarcado(c)
  BY <1>4, <1>5, <1>6, <1>10 DEF WaitMarcado, p
<1>11. ASSUME NEW s \in Semaforos, WaitBloquea(c, s) PROVE TypeOK'
  <2> DEFINE m == [kernel EXCEPT !.valor[s] = kernel.valor[s] - 1]
             n == [m EXCEPT !.estado[p] = "Block"]
             q == Append(kernel.cola[s], p)
  <2>1. /\ kernel \in Estructuras
        /\ kernel.valor[s] - 1 \in Int /\ "Block" \in Estados
        /\ q \in Seq(Pids)
    BY <1>1, AlFinal, SMTT(30) DEF TypeOK, Estados, Estructuras
  <2>2. m \in Estructuras
    BY <2>1, Asignaciones
  <2> HIDE DEF m
  <2>3. n \in Estructuras
    BY <1>1, <2>1, <2>2, Asignaciones
  <2>4. kernel' = [n EXCEPT !.cola[s] = q]
    BY <1>11, <2>1 DEF WaitBloquea, Estructuras, m, p
  <2> HIDE DEF n, q
  <2>5. kernel' \in Estructuras
    BY <2>1, <2>3, <2>4, Asignaciones
  <2> QED
    BY <1>4, <1>5, <1>11, <2>5 DEF WaitBloquea, p
<1>12. CASE Inexistente(c)
  <2>1. /\ kernel' \in Estructuras /\ en_ejecucion' \subseteq CPUs
        /\ corre' \in [CPUs -> 0 .. MaxPid]
    BY <1>6, <1>12, PlanificadorAssumption DEF Inexistente, TypeOK
  <2>2. despertador' \in BOOLEAN
    BY <1>12 DEF Inexistente, Despertar
  <2> QED
    BY <1>12, <2>1, <2>2 DEF TypeOK, Inexistente, hilos, externo
<1>13. ASSUME NEW s \in Semaforos, WaitPasa(c, s) \/ Signal(c, s) PROVE TypeOK'
  <2>1. kernel.valor[s] - 1 \in Int
    BY DEF TypeOK, Estructuras
  <2>2. [kernel EXCEPT !.valor[s] = kernel.valor[s] - 1] \in Estructuras
    BY <2>1, Asignaciones DEF TypeOK
  <2>3. signal(kernel, s) \in Estructuras
    BY SignalConserva DEF Conserva, TypeOK
  <2>4. kernel' \in Estructuras
    BY <1>13, <2>2, <2>3 DEF WaitPasa, Signal
  <2>5. despertador' \in BOOLEAN
    BY <1>13 DEF WaitPasa, Signal, Despertar
  <2> QED
    BY <1>13, <2>4, <2>5 DEF TypeOK, WaitPasa, Signal, hilos, cpus, externo
<1> QED
  BY <1>7, <1>8, <1>9, <1>10, <1>11, <1>12, <1>13 DEF FinDeTurno, DuranteElTurno

\* and the commands of the operator.
LEMMA TipoMenu ==
  ASSUME TypeOK, AlternarPlan \/ CambiarGrado \/ \E g \in Grados : set_multiprog(g)
  PROVE  TypeOK'
<1>1. CASE AlternarPlan
  <2>1. plan_go' \in BOOLEAN
    BY <1>1 DEF AlternarPlan
  <2> QED
    BY <1>1, <2>1 DEF TypeOK, AlternarPlan, hilos, cpus, externo
<1>2. CASE CambiarGrado
  <2>1. plan_go' \in BOOLEAN
    BY <1>2 DEF CambiarGrado
  <2>2. despertador' \in BOOLEAN
    BY <1>2 DEF CambiarGrado
  <2>3. grado' \in Nat /\ menu' \in [en : {"comando", "cambiar"}, grado : Nat]
    BY <1>2 DEF CambiarGrado, TypeOK
  <2>4. UNCHANGED <<kernel, new_queue, pid, planificador, principal, lista_cpus,
                    en_ejecucion, proceso, corre, copia, consolas, bajas>>
    BY <1>2 DEF CambiarGrado, cpus, externo
  <2> QED
    BY <2>1, <2>2, <2>3, <2>4 DEF TypeOK
<1>3. ASSUME NEW g \in Grados, set_multiprog(g) PROVE TypeOK'
  <2>1. plan_go' \in BOOLEAN
    BY <1>3 DEF set_multiprog
  <2>2. g \in Nat
    BY PlanificadorAssumption
  <2> QED
    BY <1>3, <2>1, <2>2 DEF TypeOK, set_multiprog, cpus, externo
<1> QED
  BY <1>1, <1>2, <1>3

\* No step of the Kernel breaks the types.
LEMMA TipoPaso ==
  ASSUME TypeOK, Conocidos, [Next]_vars
  PROVE  TypeOK'
<1>1. CASE UNCHANGED vars
  BY <1>1 DEF vars, TypeOK
<1> QED
  BY <1>1, TipoPlanificacion, TipoProgramas, TipoBajas, TipoCpus, TipoMenu
  DEF Next, SeguirPrincipal

-----------------------------------------------------------------------------
(* One copy of each PCB *)

TienePlanificacion(p) == planificador.en = "guardar" /\ planificador.pid = p
TieneMain(p) == principal.en \in {"guardar", "encolar"} /\ principal.pid = p

\* UnaCopia, made inductive: nor do the two threads that admit processes hold the
\* same one.  Nothing is said of the state written in the PCB, which is not reliable.
Ubicados ==
  /\ Orden(kernel)
  /\ SinRepetidos(new_queue)
  /\ \A c, d \in CPUs : corre[c] = corre[d] /\ corre[c] # 0 => c = d
  /\ \A p \in Pids :
       /\ p \in Esperan(kernel) => ~Corriendo(p) /\ ~EnNew(p)
       /\ Corriendo(p) => ~EnNew(p)
       /\ Contains(new_queue, p) => ~EnManos(p)
       /\ ~(TienePlanificacion(p) /\ TieneMain(p))

IInv == TypeOK /\ Conocidos /\ Ubicados

\* Those are the places of UnaCopia.
LEMMA UbicadosUnaCopia ==
  ASSUME TypeOK, Ubicados
  PROVE  UnaCopia
BY DEF Ubicados, UnaCopia, Orden, Esperan, EnReady, Bloqueado

\* A step that puts no process anywhere, and only takes some out, keeps the places.
LEMMA SoloQuitar ==
  ASSUME TypeOK, Conocidos, Ubicados, Conserva(kernel, kernel'),
         \A c \in CPUs : corre'[c] \in {corre[c], 0},
         new_queue' = new_queue, pid' = pid,
         planificador'.en = "guardar" => planificador' = planificador,
         principal'.en \in {"guardar", "encolar"} => principal' = principal,
         principal'.en # "select" => principal'.pid \in 1 .. pid
  PROVE  Conocidos' /\ Ubicados'
<1>1. Orden(kernel') /\ Esperan(kernel') \subseteq Esperan(kernel)
  BY DEF Ubicados, Conserva
<1>2. \A p : EnManos(p)' => EnManos(p)
  BY DEF EnManos
<1>3. \A p : EnNew(p)' => EnNew(p)
  BY <1>2 DEF EnNew
<1>4. \A p \in Pids : Corriendo(p)' => Corriendo(p)
  BY DEF Corriendo, Pids
<1>5. \A p : (TienePlanificacion(p)' => TienePlanificacion(p)) /\ (TieneMain(p)' => TieneMain(p))
  BY DEF TienePlanificacion, TieneMain
<1>6. \A c, d \in CPUs : corre'[c] = corre'[d] /\ corre'[c] # 0 => c = d
  BY DEF Ubicados
<1>7. Ubicados'
  BY <1>1, <1>2, <1>3, <1>4, <1>5, <1>6 DEF Ubicados
<1>8. \A c \in CPUs : corre'[c] \in 0 .. pid
  <2>1. 0 \in 0 .. pid
    BY PlanificadorAssumption DEF TypeOK
  <2> QED
    BY <2>1 DEF Conocidos
<1>9. Conocidos'
  BY <1>1, <1>8 DEF Conocidos
<1> QED
  BY <1>7, <1>9

\* The steps that only wait, look, mark, wake, or end a process.
LEMMA PasosQueQuitan ==
  ASSUME IInv,
         \/ MirarPlan \/ Esperar \/ RechazarPrograma
         \/ EliminarAhora \/ CaidaDeConsola
         \/ \E p \in 1 .. pid : Eliminar(p) \/ DesconectarConsola(p) \/ finish_process(p)
         \/ \E c \in CPUs : \/ ConectarCpu(c) \/ DesconectarCpu(c) \/ Finalizado(c)
                            \/ FinErroneo(c) \/ WaitMarcado(c) \/ Inexistente(c)
                            \/ \E s \in Semaforos : WaitPasa(c, s) \/ Signal(c, s)
         \/ AlternarPlan \/ CambiarGrado \/ \E g \in Grados : set_multiprog(g)
  PROVE  Conocidos' /\ Ubicados'
<1>1. TypeOK /\ Conocidos /\ Ubicados /\ kernel \in Estructuras
  BY DEF IInv, TypeOK
<1>2. Conserva(kernel, kernel)
  BY <1>1, SinColas
<1>3. /\ 1 .. pid \subseteq Pids
      /\ \A c \in CPUs : /\ corre[c] # 0 => corre[c] \in Pids /\ pid \in Pids
                         /\ proceso[c] # 0 => proceso[c] \in Pids
  <2>1. pid \in Nat /\ MaxPid \in Nat /\ pid <= MaxPid
    BY <1>1, PlanificadorAssumption DEF TypeOK
  <2>2. ASSUME NEW c \in CPUs, corre[c] # 0 PROVE corre[c] \in Pids /\ pid \in Pids
    <3>1. corre[c] \in 0 .. pid
      BY <1>1 DEF Conocidos
    <3> QED
      BY <2>1, <2>2, <3>1 DEF Pids
  <2>3. ASSUME NEW c \in CPUs, proceso[c] # 0 PROVE proceso[c] \in Pids
    <3>1. proceso[c] \in 0 .. MaxPid
      BY <1>1 DEF TypeOK
    <3> QED
      BY <2>3, <3>1, <2>1 DEF Pids
  <2> QED
    BY <1>1, <2>2, <2>3, CreadosEnPids
<1>4. CASE MirarPlan \/ Esperar
  <2>1. /\ UNCHANGED <<kernel, corre, new_queue, pid, principal>>
        /\ planificador'.en # "guardar"
    BY <1>4 DEF MirarPlan, Esperar, Planifica, cpus
  <2> QED
    BY <1>1, <1>2, <2>1, SoloQuitar DEF Conocidos
<1>5. ASSUME UNCHANGED <<corre, new_queue, pid, planificador, principal>>,
             Conserva(kernel, kernel')
      PROVE  Conocidos' /\ Ubicados'
  BY <1>1, <1>5, SoloQuitar DEF Conocidos
<1>6. ASSUME UNCHANGED <<corre, new_queue, pid, planificador>>, Conserva(kernel, kernel'),
             principal'.en \in {"select", "eliminar", "caida"},
             principal'.en # "select" => principal'.pid \in 1 .. pid
      PROVE  Conocidos' /\ Ubicados'
  BY <1>1, <1>6, SoloQuitar
<1>7. CASE RechazarPrograma \/ AlternarPlan \/ CambiarGrado
  BY <1>2, <1>5, <1>7 DEF RechazarPrograma, AlternarPlan, CambiarGrado, hilos, cpus
<1>8. ASSUME NEW g \in Grados, set_multiprog(g) PROVE Conocidos' /\ Ubicados'
  BY <1>2, <1>5, <1>8 DEF set_multiprog, cpus
<1>9. CASE EliminarAhora \/ CaidaDeConsola
  <2>1. principal.pid \in Pids
    BY <1>1, <1>3, <1>9 DEF EliminarAhora, CaidaDeConsola, Conocidos
  <2>2. Conserva(kernel, end_process(signal_reciente(kernel, principal.pid), principal.pid))
    BY <1>1, <2>1, MatarConserva
  <2>3. principal'.en = "select"
    BY <1>9 DEF EliminarAhora, CaidaDeConsola, Principal
  <2> QED
    BY <1>6, <1>9, <2>2, <2>3 DEF EliminarAhora, CaidaDeConsola, cpus
<1>10. ASSUME NEW p \in 1 .. pid, Eliminar(p) \/ DesconectarConsola(p)
       PROVE  Conocidos' /\ Ubicados'
  <2>1. kernel' = kernel \/ kernel' = Marcado(kernel, p)
    BY <1>10 DEF Eliminar, DesconectarConsola, Marcar, Marcado
  <2>2. Conserva(kernel, kernel')
    BY <1>1, <1>2, <1>3, <2>1, MarcaConserva
  <2>3. \/ principal' = principal
        \/ principal'.en \in {"eliminar", "caida"} /\ principal'.pid = p
    BY <1>10 DEF Eliminar, DesconectarConsola, Principal
  <2>4. UNCHANGED <<corre, new_queue, pid, planificador>>
    BY <1>10 DEF Eliminar, DesconectarConsola, cpus
  <2> QED
    BY <1>5, <1>6, <2>2, <2>3, <2>4
<1>11. ASSUME NEW p \in 1 .. pid, finish_process(p) PROVE Conocidos' /\ Ubicados'
  BY <1>1, <1>3, <1>5, <1>11, TerminarConserva DEF finish_process, hilos, cpus
<1>12. ASSUME NEW c \in CPUs, ConectarCpu(c) PROVE Conocidos' /\ Ubicados'
  BY <1>2, <1>5, <1>12 DEF ConectarCpu, hilos
<1>13. ASSUME NEW c \in CPUs, corre' = [corre EXCEPT ![c] = 0], Conserva(kernel, kernel'),
              UNCHANGED <<new_queue, pid, hilos>>
       PROVE  Conocidos' /\ Ubicados'
  <2>1. \A d \in CPUs : corre'[d] \in {corre[d], 0}
    BY <1>1, <1>13 DEF TypeOK
  <2> QED
    BY <1>1, <1>13, <2>1, SoloQuitar DEF hilos, Conocidos
<1>14. ASSUME NEW c \in CPUs, DesconectarCpu(c) PROVE Conocidos' /\ Ubicados'
  <2>1. Conserva(kernel, kernel')
    BY <1>1, <1>2, <1>3, <1>14, MatarConserva DEF DesconectarCpu
  <2> QED
    BY <1>13, <1>14, <2>1 DEF DesconectarCpu
<1>15. ASSUME NEW c \in CPUs, Finalizado(c) \/ FinErroneo(c) \/ WaitMarcado(c) \/ Inexistente(c)
       PROVE  Conocidos' /\ Ubicados'
  <2>1. corre[c] \in Pids /\ pid \in Pids
    BY <1>3, <1>15 DEF Finalizado, FinErroneo, WaitMarcado, Inexistente, DeCpu
  <2>2. /\ Conserva(kernel, end_process(desmarcar(kernel, corre[c]), corre[c]))
        /\ Conserva(kernel, end_process(kernel, corre[c]))
        /\ Conserva(kernel, end_process(kernel, pid))
    BY <1>1, <2>1, TerminarConserva, TerminarMarcadoConserva
  <2>3. Conserva(kernel, kernel')
    BY <1>15, <2>2 DEF Finalizado, FinErroneo, WaitMarcado, Inexistente
  <2> QED
    BY <1>13, <1>15, <2>3 DEF Finalizado, FinErroneo, WaitMarcado, Inexistente, LiberarCpu
<1>16. ASSUME NEW c \in CPUs, NEW s \in Semaforos, WaitPasa(c, s) PROVE Conocidos' /\ Ubicados'
  <2> DEFINE m == [kernel EXCEPT !.valor[s] = kernel.valor[s] - 1]
  <2>1. m \in Estructuras
    <3>1. kernel.valor[s] - 1 \in Int
      BY <1>1 DEF Estructuras
    <3> QED
      BY <1>1, <3>1, Asignaciones
  <2>2. m.ready = kernel.ready /\ m.cola = kernel.cola
    BY <1>1 DEF Estructuras
  <2>3. kernel' = m
    BY <1>16 DEF WaitPasa
  <2> HIDE DEF m
  <2>4. Conserva(kernel, kernel')
    BY <1>1, <2>1, <2>2, <2>3, SinColas
  <2> QED
    BY <1>5, <1>16, <2>4 DEF WaitPasa, hilos, cpus
<1>17. ASSUME NEW c \in CPUs, NEW s \in Semaforos, Signal(c, s) PROVE Conocidos' /\ Ubicados'
  BY <1>1, <1>5, <1>17, SignalConserva DEF Signal, hilos, cpus
<1> QED
  BY <1>4, <1>7, <1>8, <1>9, <1>10, <1>11, <1>12, <1>14, <1>15, <1>16, <1>17

\* New to the hands of the planner: the process leaves new_queue.
LEMMA PasoAdmitir ==
  ASSUME IInv, Admitir
  PROVE  Conocidos' /\ Ubicados'
<1>1. TypeOK /\ Conocidos /\ Ubicados
  BY DEF IInv
<1>2. Conserva(kernel, kernel)
  BY <1>1, SinColas DEF TypeOK
<1>3. UNCHANGED <<kernel, corre, pid, principal>>
  BY DEF Admitir, cpus
<1>4. CASE new_queue' = new_queue /\ planificador'.en = "despachar"
  BY <1>1, <1>2, <1>3, <1>4, SoloQuitar DEF Conocidos
<1>5. CASE /\ new_queue # <<>> /\ new_queue' = Tail(new_queue)
           /\ planificador' = [en |-> "guardar", pid |-> Head(new_queue)]
  <2> DEFINE p == Head(new_queue)
  <2>1. /\ p \in Pids /\ Contains(new_queue, p)
        /\ \A x : Contains(new_queue', x) => Contains(new_queue, x)
        /\ SinRepetidos(new_queue') /\ ~Contains(new_queue', p)
    BY <1>1, <1>5, DelPrincipio DEF TypeOK, Ubicados
  <2>2. p \in 1 .. pid
    BY <1>1, <2>1 DEF Conocidos, Pids, TypeOK
  <2>3. planificador' = [en |-> "guardar", pid |-> p] /\ planificador.en = "admitir"
    BY <1>5 DEF Admitir
  <2> HIDE DEF p
  <2>4. \A x : TieneMain(x)' <=> TieneMain(x)
    BY <1>3 DEF TieneMain
  <2>5. \A x : EnManos(x)' => x = p \/ TieneMain(x)
    BY <1>3, <2>3 DEF EnManos, TieneMain
  <2>6. EnNew(p) /\ ~EnManos(p) /\ ~TieneMain(p)
    BY <1>1, <2>1 DEF EnNew, Ubicados, EnManos, TieneMain
  <2>7. \A x : TieneMain(x) => EnManos(x)
    BY DEF EnManos, TieneMain
  <2>8. \A x : EnNew(x)' => EnNew(x)
    BY <2>1, <2>5, <2>6, <2>7 DEF EnNew
  <2>9. \A x \in Pids : Contains(new_queue, x)' => ~EnManos(x)'
    BY <1>1, <2>1, <2>5, <2>7 DEF Ubicados
  <2>10. \A x \in Pids : ~(TienePlanificacion(x)' /\ TieneMain(x)')
    BY <2>3, <2>4, <2>6 DEF TienePlanificacion
  <2>11. \A x : Corriendo(x)' <=> Corriendo(x)
    BY <1>3 DEF Corriendo
  <2>12. Ubicados'
    BY <1>1, <1>3, <2>1, <2>8, <2>9, <2>10, <2>11 DEF Ubicados
  <2>13. Conocidos'
    BY <1>1, <1>3, <2>1, <2>2, <2>3 DEF Conocidos
  <2> QED
    BY <2>12, <2>13
<1> QED
  BY <1>4, <1>5 DEF Admitir, Planifica

\* The hands of a thread to ready: it lets go of the process.
LEMMA PasoGuardar ==
  ASSUME IInv, NEW p \in 1 .. pid, EnManos(p),
         p \notin Esperan(kernel) => /\ Orden(kernel) => Orden(kernel')
                                   /\ Esperan(kernel') \subseteq Esperan(kernel) \cup {p},
         UNCHANGED <<corre, new_queue, pid>>,
         \/ TienePlanificacion(p) /\ planificador'.en = "despachar" /\ UNCHANGED principal
         \/ TieneMain(p) /\ principal'.en = "select" /\ UNCHANGED planificador
  PROVE  Conocidos' /\ Ubicados'
<1>1. TypeOK /\ Conocidos /\ Ubicados
  BY DEF IInv
<1>2. p \in Pids
  BY <1>1, CreadosEnPids
<1>3. EnNew(p)
  BY DEF EnNew
<1>4. p \notin Esperan(kernel) /\ ~Corriendo(p) /\ ~Contains(new_queue, p)
  BY <1>1, <1>2, <1>3 DEF Ubicados
<1>5. Orden(kernel') /\ Esperan(kernel') \subseteq Esperan(kernel) \cup {p}
  BY <1>1, <1>4 DEF Ubicados
<1>6. \A x : EnManos(x) <=> TienePlanificacion(x) \/ TieneMain(x)
  BY DEF EnManos, TienePlanificacion, TieneMain
<1>7. \A x : EnManos(x)' <=> TienePlanificacion(x)' \/ TieneMain(x)'
  BY DEF EnManos, TienePlanificacion, TieneMain
<1>8. \A x : /\ TienePlanificacion(x)' => TienePlanificacion(x)
             /\ TieneMain(x)' => TieneMain(x)
  BY DEF TienePlanificacion, TieneMain
<1>9. ~EnManos(p)'
  <2>1. ~(TienePlanificacion(p) /\ TieneMain(p))
    BY <1>1, <1>2 DEF Ubicados
  <2> QED
    BY <1>7, <2>1 DEF TienePlanificacion, TieneMain
<1>10. ~EnNew(p)'
  BY <1>4, <1>9 DEF EnNew
<1>11. \A x : EnNew(x)' => EnNew(x)
  BY <1>6, <1>7, <1>8 DEF EnNew
<1>12. \A x : Corriendo(x)' <=> Corriendo(x)
  BY DEF Corriendo
<1>13. \A x \in Pids : x \in Esperan(kernel') => ~Corriendo(x)' /\ ~EnNew(x)'
  BY <1>1, <1>4, <1>5, <1>10, <1>11, <1>12 DEF Ubicados
<1>14. Ubicados'
  BY <1>1, <1>5, <1>6, <1>7, <1>8, <1>11, <1>12, <1>13 DEF Ubicados
<1>15. Conocidos'
  <2>1. Esperan(kernel') \subseteq 1 .. pid
    BY <1>1, <1>5 DEF Conocidos
  <2>2. planificador'.en = "guardar" => planificador'.pid \in 1 .. pid
    BY <1>1 DEF Conocidos
  <2>3. principal'.en # "select" => principal'.pid \in 1 .. pid
    BY <1>1 DEF Conocidos
  <2> QED
    BY <1>1, <2>1, <2>2, <2>3 DEF Conocidos
<1> QED
  BY <1>14, <1>15

\* Ready to a CPU that is free.
LEMMA PasoDespachar ==
  ASSUME IInv, Despachar
  PROVE  Conocidos' /\ Ubicados'
<1>1. TypeOK /\ Conocidos /\ Ubicados /\ kernel \in Estructuras
  BY DEF IInv, TypeOK
<1>2. /\ UNCHANGED <<new_queue, pid, principal>>
      /\ planificador' = [en |-> "mirar", pid |-> 0]
  BY DEF Despachar, Planifica
<1>3. CASE kernel.ready # <<>> /\ CpusLibres # {}
  <2> DEFINE p == Head(kernel.ready)
             c == buscar_cpu_libre
             e == [kernel.estado EXCEPT ![p] = IF p \in copia THEN @ ELSE "Exec"]
  <2>1. kernel.ready \in Seq(Pids)
    BY <1>1 DEF Estructuras
  <2>2. /\ p \in Pids /\ Contains(kernel.ready, p)
        /\ \A x : Contains(Tail(kernel.ready), x) => Contains(kernel.ready, x)
        /\ SinRepetidos(Tail(kernel.ready)) /\ ~Contains(Tail(kernel.ready), p)
    BY <1>1, <1>3, <2>1, DelPrincipio DEF Ubicados, Orden
  <2>3. kernel'.ready = Tail(kernel.ready) /\ kernel'.cola = kernel.cola
    BY <1>1, <1>3 DEF Despachar, Estructuras
  <2>4. corre' = [corre EXCEPT ![c] = p]
    BY <1>3 DEF Despachar
  <2> HIDE DEF p, c
  <2>5. Orden(kernel')
    BY <1>1, <2>2, <2>3 DEF Ubicados, Orden
  <2>6. p \in Esperan(kernel) /\ Esperan(kernel') \subseteq Esperan(kernel) \ {p}
    BY <1>1, <2>2, <2>3 DEF Ubicados, Orden, Esperan
  <2>7. ~Corriendo(p) /\ ~EnNew(p) /\ p \in 1 .. pid
    BY <1>1, <2>2, <2>6 DEF Ubicados, Conocidos
  <2>8. \A d \in CPUs : corre'[d] = IF d = c THEN p ELSE corre[d]
    BY <1>1, <2>4 DEF TypeOK
  <2>9. \A d \in CPUs : corre[d] # p
    BY <2>7 DEF Corriendo
  <2>10. \A d, f \in CPUs : corre'[d] = corre'[f] /\ corre'[d] # 0 => d = f
    BY <1>1, <2>8, <2>9 DEF Ubicados
  <2>11. \A x : Corriendo(x)' => Corriendo(x) \/ x = p
    BY <2>8 DEF Corriendo
  <2>12. \A x : /\ EnManos(x)' => EnManos(x)
                /\ TienePlanificacion(x)' => TienePlanificacion(x)
                /\ TieneMain(x)' => TieneMain(x)
    BY <1>2 DEF EnManos, TienePlanificacion, TieneMain
  <2>13. \A x : EnNew(x)' => EnNew(x)
    BY <1>2, <2>12 DEF EnNew
  <2>14. \A x \in Pids : /\ x \in Esperan(kernel') => ~Corriendo(x)' /\ ~EnNew(x)'
                         /\ Corriendo(x)' => ~EnNew(x)'
    BY <1>1, <2>6, <2>7, <2>11, <2>13 DEF Ubicados
  <2>15. Ubicados'
    BY <1>1, <1>2, <2>5, <2>10, <2>12, <2>14 DEF Ubicados
  <2>16. \A d \in CPUs : corre'[d] \in 0 .. pid
    <3>1. p \in 0 .. pid
      BY <2>7
    <3> QED
      BY <1>1, <2>8, <3>1 DEF Conocidos
  <2>17. Conocidos'
    BY <1>1, <1>2, <2>6, <2>16 DEF Conocidos
  <2> QED
    BY <2>15, <2>17
<1>4. CASE ~(kernel.ready # <<>> /\ CpusLibres # {})
  <2>1. kernel' = kernel /\ corre' = corre
    BY <1>4 DEF Despachar
  <2>2. Conserva(kernel, kernel')
    BY <1>1, <2>1, SinColas
  <2>3. planificador'.en # "guardar"
    BY <1>2
  <2> QED
    BY <1>1, <1>2, <2>1, <2>2, <2>3, SoloQuitar DEF Conocidos
<1> QED
  BY <1>3, <1>4

\* The two threads that admit: guardado_en_memoria.
LEMMA PasosGuardar ==
  ASSUME IInv, GuardarDeNew \/ GuardarPrograma
  PROVE  Conocidos' /\ Ubicados'
<1>1. TypeOK /\ Conocidos /\ kernel \in Estructuras
  BY DEF IInv, TypeOK
<1>2. CASE GuardarDeNew
  <2> DEFINE p == planificador.pid
  <2>1. p \in 1 .. pid /\ p \in Pids
    BY <1>1, <1>2, CreadosEnPids DEF GuardarDeNew, Conocidos
  <2>2. PICK hay \in BOOLEAN : kernel' = guardado_en_memoria(kernel, p, hay)
    BY <1>2 DEF GuardarDeNew, Respuestas
  <2>3. EnManos(p) /\ TienePlanificacion(p)
    BY <1>2 DEF GuardarDeNew, EnManos, TienePlanificacion
  <2>4. planificador'.en = "despachar" /\ UNCHANGED <<corre, new_queue, pid, principal>>
    BY <1>2 DEF GuardarDeNew, Planifica, cpus
  <2> HIDE DEF p
  <2> QED
    BY <1>1, <2>1, <2>2, <2>3, <2>4, GuardarAdmite, PasoGuardar
<1>3. CASE GuardarPrograma
  <2> DEFINE p == principal.pid
  <2>1. p \in 1 .. pid /\ p \in Pids
    BY <1>1, <1>3, CreadosEnPids DEF GuardarPrograma, Conocidos
  <2>2. PICK hay \in BOOLEAN : kernel' = guardado_en_memoria(kernel, p, hay)
    BY <1>3 DEF GuardarPrograma, Respuestas
  <2>3. EnManos(p) /\ TieneMain(p)
    BY <1>3 DEF GuardarPrograma, EnManos, TieneMain
  <2>4. principal'.en = "select" /\ UNCHANGED <<corre, new_queue, pid, planificador>>
    BY <1>3 DEF GuardarPrograma, Principal, cpus
  <2> HIDE DEF p
  <2> QED
    BY <1>1, <2>1, <2>2, <2>3, <2>4, GuardarAdmite, PasoGuardar
<1> QED
  BY <1>2, <1>3

\* create_PCB: the process is new, so it is nowhere else.
LEMMA PasoNuevo ==
  ASSUME IInv, NuevoPrograma
  PROVE  Conocidos' /\ Ubicados'
<1>1. TypeOK /\ Conocidos /\ Ubicados /\ kernel \in Estructuras
  BY DEF IInv, TypeOK
<1> DEFINE p == pid + 1
<1>2. /\ pid \in Nat /\ p \in Pids /\ pid' = p /\ p \notin 1 .. pid /\ p \notin 0 .. pid
      /\ 1 .. pid \subseteq 1 .. p /\ 0 .. pid \subseteq 0 .. p /\ p \in 1 .. p
  BY <1>1, PlanificadorAssumption, SMTT(30) DEF TypeOK, NuevoPrograma, Pids
<1>3. /\ UNCHANGED <<new_queue, corre, planificador>>
      /\ principal.en = "select"
      /\ principal'.en \in {"guardar", "encolar"} /\ principal'.pid = p
  BY DEF NuevoPrograma, Principal, EnSelect, cpus
<1>4. kernel'.ready = kernel.ready /\ kernel'.cola = kernel.cola
  BY <1>1 DEF NuevoPrograma, Estructuras
<1>5. Orden(kernel') /\ Esperan(kernel') = Esperan(kernel)
  BY <1>1, <1>4 DEF Ubicados, Orden, Esperan
<1>6. /\ p \notin Esperan(kernel) /\ ~Contains(new_queue, p) /\ ~Corriendo(p)
      /\ ~TienePlanificacion(p)
  <2>1. ~Contains(new_queue, p)
    <3>1. ~(p <= pid)
      BY <1>2
    <3> QED
      BY <1>1, <1>2, <3>1 DEF Conocidos
  <2> QED
    BY <1>1, <1>2, <2>1 DEF Conocidos, Corriendo, TienePlanificacion
<1> HIDE DEF p
<1>7. \A x : /\ TieneMain(x)' => x = p
             /\ TienePlanificacion(x)' <=> TienePlanificacion(x)
             /\ Corriendo(x)' <=> Corriendo(x)
             /\ EnManos(x)' => EnManos(x) \/ x = p
             /\ EnManos(x) => EnManos(x)'
  BY <1>3 DEF TieneMain, TienePlanificacion, Corriendo, EnManos
<1>8. \A x : EnNew(x)' => EnNew(x) \/ x = p
  BY <1>3, <1>7 DEF EnNew
<1>9. \A x \in Pids :
        /\ x \in Esperan(kernel') => ~Corriendo(x)' /\ ~EnNew(x)'
        /\ Corriendo(x)' => ~EnNew(x)'
        /\ Contains(new_queue', x) => ~EnManos(x)'
        /\ ~(TienePlanificacion(x)' /\ TieneMain(x)')
  BY <1>1, <1>3, <1>5, <1>6, <1>7, <1>8 DEF Ubicados
<1>10. Ubicados'
  BY <1>1, <1>3, <1>5, <1>9 DEF Ubicados
<1>11. /\ Esperan(kernel') \subseteq 1 .. p
       /\ \A c \in CPUs : corre'[c] \in 0 .. p
       /\ planificador'.en = "guardar" => planificador'.pid \in 1 .. p
       /\ principal'.en # "select" => principal'.pid \in 1 .. p
  BY <1>1, <1>2, <1>3, <1>5 DEF Conocidos
<1>12. \A x \in Pids : Contains(new_queue', x) => x <= p
  <2>1. \A x \in Pids : x <= pid => x <= p
    BY <1>2 DEF p, Pids
  <2> QED
    BY <1>1, <1>3, <2>1 DEF Conocidos
<1>13. Conocidos'
  BY <1>2, <1>11, <1>12 DEF Conocidos
<1> QED
  BY <1>10, <1>13

\* The hands of main to New.
LEMMA PasoEncolar ==
  ASSUME IInv, EncolarPrograma
  PROVE  Conocidos' /\ Ubicados'
<1>1. TypeOK /\ Conocidos /\ Ubicados /\ kernel \in Estructuras
  BY DEF IInv, TypeOK
<1> DEFINE p == principal.pid
<1>2. p \in 1 .. pid /\ p \in Pids /\ p <= pid
  BY <1>1, CreadosEnPids DEF EncolarPrograma, Conocidos, TypeOK
<1>3. /\ UNCHANGED <<kernel, corre, pid, planificador>>
      /\ planificador.en # "guardar"
      /\ new_queue' = Append(new_queue, p)
      /\ principal'.en = "select"
      /\ EnManos(p)
  BY DEF EncolarPrograma, Principal, cpus, EnManos
<1> HIDE DEF p
<1>4. EnNew(p) /\ ~Contains(new_queue, p) /\ p \notin Esperan(kernel) /\ ~Corriendo(p)
  BY <1>1, <1>2, <1>3 DEF EnNew, Ubicados
<1>5. /\ \A x : Contains(new_queue', x) => Contains(new_queue, x) \/ x = p
      /\ SinRepetidos(new_queue')
  BY <1>1, <1>2, <1>3, <1>4, AlFinal DEF TypeOK, Ubicados
<1>6. \A x : /\ ~EnManos(x)' /\ ~TienePlanificacion(x)'
             /\ Corriendo(x)' <=> Corriendo(x)
  BY <1>3 DEF EnManos, TienePlanificacion, Corriendo
<1>7. \A x : EnNew(x)' => EnNew(x)
  BY <1>4, <1>5, <1>6 DEF EnNew
<1>8. Ubicados'
  BY <1>1, <1>3, <1>5, <1>6, <1>7 DEF Ubicados
<1>9. Conocidos'
  BY <1>1, <1>2, <1>3, <1>5 DEF Conocidos
<1> QED
  BY <1>8, <1>9

\* A CPU lets go of its process, which goes to ready or to the queue of a semaphore.
LEMMA PasoDeCpu ==
  ASSUME IInv, NEW c \in CPUs, corre[c] # 0,
         corre[c] \notin Esperan(kernel) =>
            /\ Orden(kernel) => Orden(kernel')
            /\ Esperan(kernel') \subseteq Esperan(kernel) \cup {corre[c]},
         corre' = [corre EXCEPT ![c] = 0],
         UNCHANGED <<new_queue, pid, hilos>>
  PROVE  Conocidos' /\ Ubicados'
<1>1. TypeOK /\ Conocidos /\ Ubicados /\ kernel \in Estructuras
  BY DEF IInv, TypeOK
<1> DEFINE p == corre[c]
<1>2. /\ p \in 0 .. pid /\ p # 0 /\ pid \in Nat /\ Corriendo(p)
      /\ corre \in [CPUs -> 0 .. MaxPid]
  BY <1>1, PlanificadorAssumption DEF Conocidos, TypeOK, Corriendo
<1>3. \A d \in CPUs : corre'[d] = IF d = c THEN 0 ELSE corre[d]
  BY <1>2
<1> HIDE DEF p
<1>4. p \in 1 .. pid /\ p \in Pids /\ 0 \in 0 .. pid
  <2>1. p \in 1 .. pid /\ 0 \in 0 .. pid
    BY <1>2
  <2> QED
    BY <1>1, <2>1, CreadosEnPids
<1>5. p \notin Esperan(kernel) /\ ~EnNew(p)
  BY <1>1, <1>2, <1>4 DEF Ubicados
<1>6. Orden(kernel') /\ Esperan(kernel') \subseteq Esperan(kernel) \cup {p}
  BY <1>1, <1>5 DEF Ubicados, p
<1>7. \A x : /\ EnManos(x)' <=> EnManos(x)
             /\ TienePlanificacion(x)' <=> TienePlanificacion(x)
             /\ TieneMain(x)' <=> TieneMain(x)
  BY DEF EnManos, TienePlanificacion, TieneMain, hilos
<1>8. \A x : EnNew(x)' <=> EnNew(x)
  BY <1>7 DEF EnNew
<1>9. \A x \in Pids : Corriendo(x)' => Corriendo(x) /\ x # p
  <2> SUFFICES ASSUME NEW x \in Pids, NEW d \in CPUs, corre'[d] = x
               PROVE  Corriendo(x) /\ x # p
    BY DEF Corriendo
  <2>1. x # 0
    BY DEF Pids
  <2>2. d # c /\ corre[d] = x
    BY <1>3, <2>1
  <2>3. x # p
    BY <1>1, <1>2, <2>2 DEF Ubicados, p
  <2> QED
    BY <2>2, <2>3 DEF Corriendo
<1>10. \A d, f \in CPUs : corre'[d] = corre'[f] /\ corre'[d] # 0 => d = f
  BY <1>1, <1>3 DEF Ubicados
<1>11. \A x \in Pids : x \in Esperan(kernel') => ~Corriendo(x)' /\ ~EnNew(x)'
  BY <1>1, <1>5, <1>6, <1>8, <1>9 DEF Ubicados
<1>12. Ubicados'
  BY <1>1, <1>6, <1>7, <1>8, <1>9, <1>10, <1>11 DEF Ubicados
<1>13. Conocidos'
  <2>1. Esperan(kernel') \subseteq 1 .. pid
    BY <1>1, <1>4, <1>6 DEF Conocidos
  <2>2. \A d \in CPUs : corre'[d] \in 0 .. pid
    BY <1>1, <1>3, <1>4 DEF Conocidos
  <2> QED
    BY <1>1, <2>1, <2>2 DEF Conocidos, hilos
<1> QED
  BY <1>12, <1>13

\* FIN_DE_RAFAGA, and the WAIT that blocks.
LEMMA PasosDeCpu ==
  ASSUME IInv, NEW c \in CPUs, FinDeRafaga(c) \/ \E s \in Semaforos : WaitBloquea(c, s)
  PROVE  Conocidos' /\ Ubicados'
<1> DEFINE p == corre[c]
<1>1. TypeOK /\ Conocidos /\ Ubicados /\ kernel \in Estructuras
  BY DEF IInv, TypeOK
<1>2. /\ p # 0 /\ corre' = [corre EXCEPT ![c] = 0]
      /\ UNCHANGED <<new_queue, pid, hilos>>
  BY DEF FinDeRafaga, WaitBloquea, DeCpu, LiberarCpu
<1>3. p \in Pids
  BY <1>1, <1>2 DEF TypeOK, Pids
<1>4. kernel' \in Estructuras
  BY <1>1, TipoCpus DEF FinDeTurno, TypeOK
<1>5. CASE FinDeRafaga(c)
  <2>1. CASE proceso_para_borrar(kernel, p)
    <3>1. kernel' = end_process(desmarcar(kernel, p), p)
      BY <1>5, <2>1 DEF FinDeRafaga
    <3>2. Conserva(kernel, kernel')
      BY <1>1, <1>3, <3>1, TerminarMarcadoConserva
    <3> QED
      BY <1>2, <3>2, PasoDeCpu DEF Conserva
  <2>2. CASE ~proceso_para_borrar(kernel, p)
    <3>1. kernel'.ready = Append(kernel.ready, p) /\ kernel'.cola = kernel.cola
      BY <1>1, <1>5, <2>2 DEF FinDeRafaga, Estructuras
    <3> HIDE DEF p
    <3>2. p \notin Esperan(kernel) => /\ Orden(kernel) => Orden(kernel')
                                     /\ Esperan(kernel') \subseteq Esperan(kernel) \cup {p}
      BY <1>1, <1>3, <1>4, <3>1, PonerEnReady
    <3> QED
      BY <1>2, <3>2, PasoDeCpu DEF p
  <2> QED
    BY <2>1, <2>2
<1>6. ASSUME NEW s \in Semaforos, WaitBloquea(c, s) PROVE Conocidos' /\ Ubicados'
  <2>1. /\ kernel'.ready = kernel.ready
        /\ \A r \in Semaforos :
             kernel'.cola[r] = IF r = s THEN Append(kernel.cola[s], p) ELSE kernel.cola[r]
    BY <1>1, <1>6 DEF WaitBloquea, Estructuras
  <2> HIDE DEF p
  <2>2. p \notin Esperan(kernel) => /\ Orden(kernel) => Orden(kernel')
                                   /\ Esperan(kernel') \subseteq Esperan(kernel) \cup {p}
    BY <1>1, <1>3, <1>4, <2>1, PonerEnCola
  <2> QED
    BY <1>2, <2>2, PasoDeCpu DEF p
<1> QED
  BY <1>5, <1>6

\* New and the hands of the threads together keep the processes they have, while a
\* process goes from one to the other.
LEMMA NewQuieto ==
  ASSUME IInv,
         \/ MirarPlan \/ Esperar \/ Admitir \/ RechazarPrograma \/ EncolarPrograma
         \/ \E c \in CPUs : ConectarCpu(c) \/ \E s \in Semaforos : WaitPasa(c, s)
         \/ AlternarPlan \/ CambiarGrado \/ \E g \in Grados : set_multiprog(g)
         \/ UNCHANGED vars,
         NEW q \in Pids
  PROVE  EnNew(q)' <=> EnNew(q)
<1>1. CASE Admitir
  <2>1. CASE new_queue # <<>> /\ HayLugar
    <3>1. /\ new_queue' = Tail(new_queue) /\ principal' = principal
          /\ planificador' = [en |-> "guardar", pid |-> Head(new_queue)]
          /\ planificador.en = "admitir"
      BY <1>1, <2>1 DEF Admitir, Planifica
    <3>2. new_queue \in Seq(Pids) /\ SinRepetidos(new_queue)
      BY DEF IInv, TypeOK, Ubicados
    <3>3. Contains(Tail(new_queue), q) <=> Contains(new_queue, q) /\ q # Head(new_queue)
      BY <2>1, <3>2, DelPrincipioExacto
    <3>4. Contains(new_queue, Head(new_queue))
      BY <2>1, <3>2, DelPrincipio
    <3> QED
      BY <3>1, <3>3, <3>4 DEF EnNew, EnManos
  <2>2. CASE ~(new_queue # <<>> /\ HayLugar)
    BY <1>1, <2>2 DEF Admitir, Planifica, EnNew, EnManos
  <2> QED
    BY <2>1, <2>2
<1>2. CASE EncolarPrograma
  <2>1. /\ new_queue' = Append(new_queue, principal.pid)
        /\ principal.en = "encolar" /\ principal'.en = "select"
        /\ planificador' = planificador
    BY <1>2 DEF EncolarPrograma, Principal
  <2>2. principal.pid \in Pids
    BY <2>1, CreadosEnPids DEF IInv, Conocidos
  <2>3. Contains(new_queue', q) <=> Contains(new_queue, q) \/ q = principal.pid
    BY <2>1, <2>2, AlFinalExacto DEF IInv, TypeOK
  <2> QED
    BY <2>1, <2>3 DEF EnNew, EnManos
<1>3. CASE MirarPlan \/ Esperar
  BY <1>3 DEF MirarPlan, Esperar, Planifica, EnNew, EnManos
<1>4. CASE UNCHANGED <<new_queue, planificador, principal>>
  BY <1>4 DEF EnNew, EnManos
<1> QED
  BY <1>1, <1>2, <1>3, <1>4
  DEF RechazarPrograma, ConectarCpu, WaitPasa, AlternarPlan, CambiarGrado, set_multiprog,
      vars, hilos

\* The thread that has admitted a process lets go of it.
LEMMA NewSuelta ==
  ASSUME NEW p, NEW q \in Pids \ {p}, new_queue' = new_queue,
         \/ TienePlanificacion(p) /\ principal' = principal
         \/ TieneMain(p) /\ planificador' = planificador
  PROVE  EnNew(q) => EnNew(q)'
BY DEF EnNew, EnManos, TienePlanificacion, TieneMain

-----------------------------------------------------------------------------
(* Theorems *)

\* The Kernel starts with no process anywhere.
LEMMA InicioUbicado == Init => IInv
<1> SUFFICES ASSUME Init PROVE IInv
  OBVIOUS
<1>1. \A q : q = <<>> => SinRepetidos(q) /\ \A x : ~Contains(q, x)
  BY DEF SinRepetidos, Contains
<1>2. /\ kernel.ready = <<>> /\ \A s \in Semaforos : kernel.cola[s] = <<>>
      /\ new_queue = <<>> /\ pid = 0
      /\ planificador.en = "mirar" /\ principal.en = "select"
      /\ \A c \in CPUs : corre[c] = 0
  BY DEF Init
<1>3. kernel \in Estructuras
  <2>1. <<>> \in Seq(Pids) /\ Inicial \in Int /\ 0 \in Nat /\ "NoExiste" \in Estados
    BY PlanificadorAssumption DEF Estados
  <2> QED
    BY <2>1 DEF Init, Estructuras
<1>4. TypeOK
  <2>1. plan_go \in BOOLEAN
    BY DEF Init
  <2>2. despertador \in BOOLEAN
    BY DEF Init
  <2> QED
    BY <1>3, <2>1, <2>2, PlanificadorAssumption DEF Init, TypeOK
<1>5. Orden(kernel) /\ Esperan(kernel) = {}
  BY <1>1, <1>2 DEF Orden, Esperan
<1>6. Conocidos
  BY <1>1, <1>2, <1>5 DEF Conocidos
<1>7. \A p \in Pids : ~Corriendo(p) /\ ~EnNew(p) /\ ~TienePlanificacion(p)
  BY <1>1, <1>2 DEF Corriendo, EnNew, EnManos, TienePlanificacion, Pids
<1>8. Ubicados
  BY <1>1, <1>2, <1>5, <1>7 DEF Ubicados
<1> QED
  BY <1>4, <1>6, <1>8 DEF IInv

\* Every step keeps the invariant, one lemma for each way a PCB moves.
LEMMA PasoUbicado == IInv /\ [Next]_vars => IInv'
<1> SUFFICES ASSUME IInv, [Next]_vars PROVE IInv'
  OBVIOUS
<1>1. TypeOK'
  BY TipoPaso DEF IInv
<1>2. Conocidos' /\ Ubicados'
  <2>1. CASE UNCHANGED vars
    <3>1. Conserva(kernel, kernel)
      BY SinColas DEF IInv, TypeOK
    <3> QED
      BY <2>1, <3>1, SoloQuitar DEF IInv, Conocidos, vars
  <2>2. CASE Next
    BY <2>2, PasosQueQuitan, PasoAdmitir, PasosGuardar, PasoDespachar, PasoNuevo, PasoEncolar,
       PasosDeCpu
    DEF Next, PasoPlanificacion, SeguirPrincipal, FinDeTurno, DuranteElTurno
  <2> QED
    BY <2>1, <2>2
<1> QED
  BY <1>1, <1>2 DEF IInv

\* The structures of the Kernel keep their types, whoever ends whom and when.
THEOREM TiposDelKernel == Spec => []TypeOK
<1>1. IInv => TypeOK
  BY DEF IInv
<1> QED
  BY <1>1, InicioUbicado, PasoUbicado, PTL DEF Spec

\* No interleaving of the three threads, with any combination of kills, aborts and
\* disconnections, leaves the PCB of a process in two places.
THEOREM SiempreUnaCopia == Spec => []UnaCopia
<1>1. IInv => UnaCopia
  BY UbicadosUnaCopia DEF IInv
<1> QED
  BY <1>1, InicioUbicado, PasoUbicado, PTL DEF Spec

-----------------------------------------------------------------------------
(***************************************************************************)
(* What is not lost when processes are ended from outside (by their        *)
(* Consola, by the operator, or because a connection closes): the          *)
(* processes that are alive, the CPUs, and the wake-ups of the planner.    *)
(***************************************************************************)

-----------------------------------------------------------------------------
(* What the functions of the Kernel do to the processes that wait *)

\* No process that waits is marked: signal drops the PCB of one that is.
SinMarcasEnCola(k) == \A q \in Esperan(k) : k.borrar[q] = 0

\* A function that loses nobody, save perhaps p: who leaves the queues has finished,
\* who changes its state is in ready or has finished, and no mark is added.
NoPierde(k, m, p) ==
  /\ \A q \in Pids \ {p} : q \in Esperan(k) => q \in Esperan(m) \/ m.estado[q] = "Exit"
  /\ \A q \in Pids \ {p} : m.estado[q] # k.estado[q] =>
       (q \in Esperan(m) /\ m.estado[q] = "Ready") \/ m.estado[q] = "Exit"
  /\ \A q \in Pids : m.borrar[q] <= k.borrar[q]

Nadie == 0

\* Such functions compose.
LEMMA PierdenComponen ==
  ASSUME NEW k \in Estructuras, NEW m \in Estructuras, NEW n \in Estructuras, NEW p,
         NoPierde(k, m, p), NoPierde(m, n, p)
  PROVE  NoPierde(k, n, p)
<1>1. \A q \in Pids : k.borrar[q] \in Nat /\ m.borrar[q] \in Nat /\ n.borrar[q] \in Nat
  BY DEF Estructuras
<1>2. \A q \in Pids : n.borrar[q] <= k.borrar[q]
  BY <1>1 DEF NoPierde
<1> QED
  BY <1>2 DEF NoPierde

\* One that loses nobody loses nobody save p.
LEMMA PierdenMenos ==
  ASSUME NEW k, NEW m, NEW p \in Pids, NoPierde(k, m, Nadie)
  PROVE  NoPierde(k, m, p)
<1>1. Pids \ {Nadie} = Pids
  BY DEF Pids, Nadie
<1> QED
  BY <1>1 DEF NoPierde

\* The queues stay without marks.
LEMMA SiguenSinMarcas ==
  ASSUME NEW k \in Estructuras, NEW m, NEW p, Conserva(k, m), NoPierde(k, m, p),
         SinMarcasEnCola(k)
  PROVE  SinMarcasEnCola(m)
<1>1. m \in Estructuras /\ Esperan(m) \subseteq Esperan(k)
  BY DEF Conserva
<1>2. \A q \in Pids : m.borrar[q] \in Nat /\ m.borrar[q] <= k.borrar[q]
  BY <1>1 DEF NoPierde, Estructuras
<1>3. Esperan(m) \subseteq Pids
  BY DEF Esperan
<1> QED
  BY <1>1, <1>2, <1>3 DEF SinMarcasEnCola

\* One that leaves queues, states and marks alone loses nobody.
LEMMA NadaPierde ==
  ASSUME NEW k \in Estructuras, NEW m, m.ready = k.ready, m.cola = k.cola,
         m.estado = k.estado, m.borrar = k.borrar
  PROVE  NoPierde(k, m, Nadie)
<1>1. \A q \in Pids : k.borrar[q] <= k.borrar[q]
  BY DEF Estructuras
<1>2. Esperan(m) = Esperan(k)
  BY DEF Esperan
<1> QED
  BY <1>1, <1>2 DEF NoPierde

\* signal hands on the first process that waits.
LEMMA SignalNoPierde ==
  ASSUME NEW k \in Estructuras, NEW s \in Semaforos, Orden(k), SinMarcasEnCola(k)
  PROVE  NoPierde(k, signal(k, s), Nadie)
<1> DEFINE m == signal(k, s)
<1>1. CASE k.cola[s] = <<>>
  <2>1. m = [k EXCEPT !.valor[s] = @ + 1]
    BY <1>1 DEF signal
  <2>2. m.ready = k.ready /\ m.cola = k.cola /\ m.estado = k.estado /\ m.borrar = k.borrar
    BY <2>1 DEF Estructuras
  <2> HIDE DEF m
  <2> QED
    BY <2>2, NadaPierde DEF m
<1>2. CASE k.cola[s] # <<>>
  <2>1. PICK p : p = Head(k.cola[s])
    OBVIOUS
  <2>2. k.cola[s] \in Seq(Pids) /\ k.ready \in Seq(Pids) /\ SinRepetidos(k.cola[s])
    BY DEF Estructuras, Orden
  <2>3. /\ p \in Pids /\ Contains(k.cola[s], p)
        /\ \A x : Contains(Tail(k.cola[s]), x) <=> Contains(k.cola[s], x) /\ x # p
    BY <1>2, <2>1, <2>2, DelPrincipio, DelPrincipioExacto
  <2>4. k.borrar[p] = 0
    BY <2>3 DEF SinMarcasEnCola, Esperan
  <2>5. m = [k EXCEPT !.valor[s] = @ + 1, !.cola[s] = Tail(@),
                      !.estado[p] = "Ready", !.reciente[p] = s, !.ready = Append(@, p)]
    BY <1>2, <2>1, <2>4 DEF signal, proceso_para_borrar
  <2> HIDE DEF m
  <2>6. /\ m.ready = Append(k.ready, p) /\ m.borrar = k.borrar
        /\ m.estado = [k.estado EXCEPT ![p] = "Ready"]
        /\ \A r \in Semaforos : m.cola[r] = IF r = s THEN Tail(k.cola[s]) ELSE k.cola[r]
    BY <2>5 DEF Estructuras
  <2>7. \A x : Contains(m.ready, x) <=> Contains(k.ready, x) \/ x = p
    BY <2>2, <2>3, <2>6, AlFinalExacto
  <2>8. Esperan(k) \subseteq Esperan(m) /\ p \in Esperan(m)
    BY <2>3, <2>6, <2>7 DEF Esperan
  <2>9. \A q \in Pids : m.estado[q] # k.estado[q] => q = p
    BY <2>6 DEF Estructuras
  <2>10. m.estado[p] = "Ready"
    BY <2>3, <2>6 DEF Estructuras
  <2>11. \A q \in Pids : m.borrar[q] <= k.borrar[q]
    BY <2>6 DEF Estructuras
  <2>12. NoPierde(k, m, Nadie)
    BY <2>8, <2>9, <2>10, <2>11 DEF NoPierde
  <2> QED
    BY <2>12 DEF m
<1> QED
  BY <1>1, <1>2

\* The process that is ended leaves the queue of its semaphore, and only it.
LEMMA SemaforoNoPierde ==
  ASSUME NEW k \in Estructuras, NEW p \in Pids, Orden(k), SinMarcasEnCola(k)
  PROVE  NoPierde(k, remove_from_semaphore(k, p), p)
<1> DEFINE S == {s \in Semaforos : Contains(k.cola[s], p)}
           s == CHOOSE x \in S : TRUE
           m == [k EXCEPT !.cola[s] = RemoveFirst(k.cola[s], p)]
<1>1. CASE S = {}
  <2>1. remove_from_semaphore(k, p) = k
    BY <1>1 DEF remove_from_semaphore
  <2> QED
    BY <2>1, NadaPierde, PierdenMenos
<1>2. CASE S # {}
  <2>1. s \in Semaforos
    BY <1>2
  <2>2. remove_from_semaphore(k, p) = signal(m, s)
    BY <1>2 DEF remove_from_semaphore
  <2> HIDE DEF s
  <2>3. k.cola[s] \in Seq(Pids)
    BY <2>1 DEF Estructuras
  <2>4. Conserva(k, m)
    BY SMTT(20), <2>1, <2>3, DelMedio, SacarDeCola
  <2>5. m \in Estructuras /\ Orden(m)
    BY <2>4 DEF Conserva
  <2>6. /\ m.ready = k.ready /\ m.estado = k.estado /\ m.borrar = k.borrar
        /\ \A r \in Semaforos : m.cola[r] = IF r = s THEN RemoveFirst(k.cola[s], p) ELSE k.cola[r]
    BY <2>1, <2>3 DEF Estructuras
  <2> HIDE DEF m
  <2>7. \A x : Contains(k.cola[s], x) /\ x # p => Contains(m.cola[s], x)
    BY <2>1, <2>3, <2>6, DelMedio
  <2>8. Esperan(k) \ {p} \subseteq Esperan(m)
    BY <2>1, <2>6, <2>7 DEF Esperan
  <2>9. NoPierde(k, m, p)
    <3>1. \A q \in Pids : m.borrar[q] <= k.borrar[q]
      BY <2>6 DEF Estructuras
    <3> QED
      BY <2>6, <2>8, <3>1 DEF NoPierde
  <2>10. SinMarcasEnCola(m)
    BY <2>4, <2>9, SiguenSinMarcas
  <2>11. NoPierde(m, signal(m, s), p)
    BY <2>1, <2>5, <2>10, SignalNoPierde, PierdenMenos
  <2>12. signal(m, s) \in Estructuras
    BY <2>1, <2>5, SignalConserva DEF Conserva
  <2> QED
    BY <2>2, <2>5, <2>9, <2>11, <2>12, PierdenComponen
<1> QED
  BY <1>1, <1>2

\* The same whatever its state is.
LEMMA ColaNoPierde ==
  ASSUME NEW k \in Estructuras, NEW p \in Pids, Orden(k), SinMarcasEnCola(k)
  PROVE  NoPierde(k, remove_from_queue(k, p), p)
<1>1. NoPierde(k, k, p)
  BY NadaPierde, PierdenMenos
<1>2. CASE k.estado[p] = "Ready"
  <2> DEFINE m == [k EXCEPT !.ready = RemoveFirst(k.ready, p)]
  <2>1. k.ready \in Seq(Pids)
    BY DEF Estructuras
  <2>2. /\ m.ready = RemoveFirst(k.ready, p) /\ m.cola = k.cola
        /\ m.estado = k.estado /\ m.borrar = k.borrar
    BY DEF Estructuras
  <2> HIDE DEF m
  <2>3. Esperan(k) \ {p} \subseteq Esperan(m)
    BY <2>1, <2>2, DelMedio DEF Esperan
  <2>4. \A q \in Pids : m.borrar[q] <= k.borrar[q]
    BY <2>2 DEF Estructuras
  <2>5. NoPierde(k, m, p)
    BY <2>2, <2>3, <2>4 DEF NoPierde
  <2> QED
    BY <1>2, <2>5 DEF remove_from_queue, m
<1>3. CASE k.estado[p] = "Block"
  BY <1>3, SemaforoNoPierde DEF remove_from_queue
<1>4. CASE k.estado[p] \notin {"Ready", "Block"}
  BY <1>1, <1>4 DEF remove_from_queue
<1> QED
  BY <1>2, <1>3, <1>4

\* Ending a process loses nobody: it has finished.
LEMMA TerminarNoPierde ==
  ASSUME NEW k \in Estructuras, NEW p \in Pids, Orden(k), SinMarcasEnCola(k)
  PROVE  /\ NoPierde(k, end_process(k, p), Nadie)
         /\ k.estado[p] # "NoExiste" => end_process(k, p).estado[p] = "Exit"
<1> DEFINE sin == [k EXCEPT !.reciente[p] = Nada]
           m   == remove_from_queue(sin, p)
           n   == [m EXCEPT !.estado[p] = "Exit", !.actuales = @ - 1]
<1>1. CASE k.estado[p] \in {"NoExiste", "Exit"}
  BY <1>1, NadaPierde DEF end_process
<1>2. CASE k.estado[p] \notin {"NoExiste", "Exit"}
  <2>1. /\ sin \in Estructuras /\ sin.ready = k.ready /\ sin.cola = k.cola
        /\ sin.estado = k.estado /\ sin.borrar = k.borrar
    BY Asignaciones DEF Estructuras
  <2>2. Orden(sin) /\ SinMarcasEnCola(sin)
    BY <2>1 DEF Orden, SinMarcasEnCola, Esperan
  <2>3. NoPierde(k, sin, p)
    BY <2>1, NadaPierde, PierdenMenos
  <2> HIDE DEF sin
  <2>4. NoPierde(sin, m, p) /\ m \in Estructuras
    BY <2>1, <2>2, ColaNoPierde, ColaConserva DEF Conserva
  <2> HIDE DEF m
  <2>5. NoPierde(k, m, p)
    BY <2>1, <2>3, <2>4, PierdenComponen
  <2>6. /\ n.ready = m.ready /\ n.cola = m.cola /\ n.borrar = m.borrar
        /\ n.estado = [m.estado EXCEPT ![p] = "Exit"]
    BY <2>4 DEF Estructuras
  <2>7. n.estado[p] = "Exit" /\ \A q \in Pids \ {p} : n.estado[q] = m.estado[q]
    BY <2>4, <2>6 DEF Estructuras
  <2>8. end_process(k, p) = n
    BY <1>2 DEF end_process, n, m, sin
  <2> HIDE DEF n
  <2>9. Esperan(n) = Esperan(m)
    BY <2>6 DEF Esperan
  <2>10. NoPierde(k, n, Nadie)
    BY <2>5, <2>6, <2>7, <2>9 DEF NoPierde
  <2> QED
    BY <2>7, <2>8, <2>10
<1> QED
  BY <1>1, <1>2

\* Nor does giving back the semaphore it took,
LEMMA RecienteNoPierde ==
  ASSUME NEW k \in Estructuras, NEW p \in Pids, Orden(k), SinMarcasEnCola(k)
  PROVE  NoPierde(k, signal_reciente(k, p), Nadie)
<1>1. k.reciente[p] \in Semaforos \cup {Nada}
  BY DEF Estructuras
<1> QED
  BY <1>1, SignalNoPierde, NadaPierde DEF signal_reciente

\* nor both, nor ending one whose mark is taken off first.
LEMMA MatarNoPierde ==
  ASSUME NEW k \in Estructuras, NEW p \in Pids, Orden(k), SinMarcasEnCola(k)
  PROVE  /\ NoPierde(k, end_process(signal_reciente(k, p), p), Nadie)
         /\ NoPierde(k, end_process(desmarcar(k, p), p), Nadie)
         /\ k.estado[p] # "NoExiste" =>
              /\ end_process(signal_reciente(k, p), p).estado[p] = "Exit"
              /\ end_process(desmarcar(k, p), p).estado[p] = "Exit"
<1> DEFINE m == signal_reciente(k, p)
           n == desmarcar(k, p)
<1>1. Conserva(k, m) /\ m \in Estructuras /\ NoPierde(k, m, Nadie)
  BY RecienteConserva, RecienteNoPierde DEF Conserva
<1>2. Orden(m) /\ SinMarcasEnCola(m)
  BY <1>1, SiguenSinMarcas DEF Conserva
<1>3. k.estado[p] # "NoExiste" => m.estado[p] # "NoExiste"
  <2>1. p \in Pids \ {Nadie}
    BY DEF Pids, Nadie
  <2> HIDE DEF m
  <2> QED
    BY <1>1, <2>1 DEF NoPierde
<1> HIDE DEF m
<1>4. /\ NoPierde(m, end_process(m, p), Nadie) /\ end_process(m, p) \in Estructuras
      /\ m.estado[p] # "NoExiste" => end_process(m, p).estado[p] = "Exit"
  BY <1>1, <1>2, TerminarNoPierde, TerminarConserva DEF Conserva
<1>5. NoPierde(k, end_process(m, p), Nadie)
  BY <1>1, <1>4, PierdenComponen
<1>6. /\ n.ready = k.ready /\ n.cola = k.cola /\ n.estado = k.estado
      /\ n.borrar = [k.borrar EXCEPT ![p] = IF @ > 0 THEN @ - 1 ELSE @]
  BY DEF desmarcar, proceso_para_borrar, Estructuras
<1>7. Conserva(k, n) /\ n \in Estructuras
  BY MarcaConserva DEF Conserva
<1> HIDE DEF n
<1>8. \A q \in Pids : n.borrar[q] <= k.borrar[q]
  BY <1>6 DEF Estructuras
<1>9. NoPierde(k, n, Nadie)
  <2>1. Esperan(n) = Esperan(k)
    BY <1>6 DEF Esperan
  <2> QED
    BY <1>6, <1>8, <2>1 DEF NoPierde
<1>10. Orden(n) /\ SinMarcasEnCola(n)
  BY <1>7, <1>9, SiguenSinMarcas DEF Conserva
<1>11. /\ NoPierde(n, end_process(n, p), Nadie) /\ end_process(n, p) \in Estructuras
       /\ n.estado[p] # "NoExiste" => end_process(n, p).estado[p] = "Exit"
  BY <1>7, <1>10, TerminarNoPierde, TerminarConserva DEF Conserva
<1>12. NoPierde(k, end_process(n, p), Nadie)
  BY <1>7, <1>9, <1>11, PierdenComponen
<1> QED
  BY <1>3, <1>4, <1>5, <1>6, <1>11, <1>12 DEF m, n

-----------------------------------------------------------------------------
(* The CPUs in use *)

\* buscar_cpu_libre gives a CPU that is connected and not in use.
LEMMA CpuLibre ==
  ASSUME TypeOK, CpusLibres # {}
  PROVE  /\ buscar_cpu_libre \in CPUs \ en_ejecucion
         /\ Contains(lista_cpus, buscar_cpu_libre)
<1>1. lista_cpus \in Seq(CPUs) /\ DOMAIN lista_cpus = 1 .. Len(lista_cpus)
  BY LenProperties DEF TypeOK
<1>2. CpusLibres \in SUBSET Nat /\ Len(lista_cpus) \in Nat
  BY <1>1, LenProperties DEF CpusLibres
<1>3. Min(CpusLibres) \in CpusLibres
  BY <1>2, HayPrimero
<1>4. Min(CpusLibres) \in 1 .. Len(lista_cpus)
  BY <1>1, <1>3 DEF CpusLibres
<1>5. lista_cpus[Min(CpusLibres)] \in CPUs
  BY <1>1, <1>4, LenProperties
<1> QED
  BY <1>1, <1>3, <1>4, <1>5 DEF CpusLibres, buscar_cpu_libre, Contains

\* If CPUs are connected and none is free, the first of them is in use.
LEMMA CpuOcupada ==
  ASSUME TypeOK, CpusLibres = {}, lista_cpus # <<>>
  PROVE  \E c \in CPUs : c \in en_ejecucion
<1>1. lista_cpus \in Seq(CPUs)
  BY DEF TypeOK
<1>2. Len(lista_cpus) \in Nat \ {0} /\ DOMAIN lista_cpus = 1 .. Len(lista_cpus)
  BY <1>1, LenProperties, EmptySeq
<1>3. 1 \in DOMAIN lista_cpus /\ lista_cpus[1] \in CPUs
  BY <1>1, <1>2, LenProperties
<1> QED
  BY <1>3 DEF CpusLibres

\* A Consola that asks to end a process does not meet CPUs that leave: if the process
\* is dispatched between the two halves of ELIMINAR_PROCESO, the handler sets to 0 what
\* its CPU executes, and that CPU would then leave without leaving lista_en_ejecucion.
BajasAparte == ~(Permite("eliminar") /\ Permite("desconexion_cpu"))

\* CpuEnUso, made inductive: a CPU is in use exactly while it executes, it is
\* connected, and the Kernel has a process for it if it may leave.
CpusEnOrden ==
  /\ \A c \in CPUs : c \in en_ejecucion <=> corre[c] # 0
  /\ \A c \in en_ejecucion : Contains(lista_cpus, c)
  /\ Permite("desconexion_cpu") => \A c \in en_ejecucion : proceso[c] # 0
  /\ principal.en = "eliminar" => Permite("eliminar")

\* Every step keeps it.
LEMMA PasoCpus ==
  ASSUME BajasAparte, TypeOK, CpusEnOrden, [Next]_vars
  PROVE  CpusEnOrden'
<1>1. /\ lista_cpus \in Seq(CPUs) /\ en_ejecucion \subseteq CPUs
      /\ proceso \in [CPUs -> 0 .. MaxPid] /\ corre \in [CPUs -> 0 .. MaxPid]
  BY DEF TypeOK
<1>2. ASSUME UNCHANGED <<lista_cpus, en_ejecucion, proceso, corre>>,
             principal'.en = "eliminar" => Permite("eliminar")
      PROVE  CpusEnOrden'
  BY <1>2 DEF CpusEnOrden
<1>3. CASE \/ UNCHANGED vars \/ MirarPlan \/ Esperar \/ Admitir \/ GuardarDeNew
           \/ NuevoPrograma \/ RechazarPrograma \/ GuardarPrograma \/ EncolarPrograma
           \/ CaidaDeConsola \/ AlternarPlan \/ CambiarGrado
  BY <1>2, <1>3
  DEF vars, cpus, hilos, MirarPlan, Esperar, Admitir, GuardarDeNew, NuevoPrograma,
      RechazarPrograma, GuardarPrograma, EncolarPrograma, CaidaDeConsola, AlternarPlan,
      CambiarGrado, Principal, CpusEnOrden
<1>4. CASE Despachar
  <2>1. CASE kernel.ready # <<>> /\ CpusLibres # {}
    <3> DEFINE p == Head(kernel.ready)
               c == buscar_cpu_libre
    <3>1. p \in Pids /\ p # 0
      <4>1. kernel.ready \in Seq(Pids)
        BY DEF TypeOK, Estructuras
      <4>2. p \in Pids
        BY <2>1, <4>1, DelPrincipio
      <4> QED
        BY <4>2 DEF Pids
    <3>2. c \in CPUs /\ Contains(lista_cpus, c)
      BY <2>1, CpuLibre
    <3>3. /\ en_ejecucion' = en_ejecucion \cup {c}
          /\ proceso' = [proceso EXCEPT ![c] = p]
          /\ corre' = [corre EXCEPT ![c] = p]
          /\ UNCHANGED <<lista_cpus, principal>>
      BY <1>4, <2>1 DEF Despachar
    <3> HIDE DEF p, c
    <3> QED
      BY <1>1, <3>1, <3>2, <3>3 DEF CpusEnOrden
  <2>2. CASE ~(kernel.ready # <<>> /\ CpusLibres # {})
    BY <1>2, <1>4, <2>2 DEF Despachar, CpusEnOrden
  <2> QED
    BY <2>1, <2>2
<1>5. CASE EliminarAhora
  <2>1. Permite("eliminar") /\ ~Permite("desconexion_cpu")
    BY <1>5 DEF EliminarAhora, CpusEnOrden, BajasAparte
  <2>2. principal'.en = "select" /\ UNCHANGED <<lista_cpus, en_ejecucion, corre>>
    BY <1>5 DEF EliminarAhora, Principal
  <2> QED
    BY <2>1, <2>2 DEF CpusEnOrden
<1>6. ASSUME NEW p \in 1 .. pid, Eliminar(p) \/ DesconectarConsola(p) \/ finish_process(p)
      PROVE  CpusEnOrden'
  <2>1. UNCHANGED cpus
    BY <1>6 DEF Eliminar, DesconectarConsola, finish_process
  <2>2. principal'.en = "eliminar" => Permite("eliminar")
    BY <1>6 DEF Eliminar, DesconectarConsola, finish_process, Principal, CpusEnOrden, hilos
  <2> QED
    BY <1>2, <2>1, <2>2 DEF cpus
<1>7. ASSUME NEW c \in CPUs, ConectarCpu(c) PROVE CpusEnOrden'
  <2>1. /\ ~Contains(lista_cpus, c) /\ lista_cpus' = Append(lista_cpus, c)
        /\ proceso' = [proceso EXCEPT ![c] = 0]
        /\ UNCHANGED <<en_ejecucion, corre, principal>>
    BY <1>7 DEF ConectarCpu, hilos
  <2>2. c \notin en_ejecucion
    BY <2>1 DEF CpusEnOrden
  <2>3. \A d : Contains(lista_cpus, d) => Contains(lista_cpus', d)
    BY <1>1, <2>1, AlFinalExacto
  <2> QED
    BY <1>1, <2>1, <2>2, <2>3 DEF CpusEnOrden
<1>8. ASSUME NEW c \in CPUs, DesconectarCpu(c) PROVE CpusEnOrden'
  <2>1. /\ Permite("desconexion_cpu")
        /\ en_ejecucion' = IF proceso[c] = 0 THEN en_ejecucion ELSE en_ejecucion \ {c}
        /\ lista_cpus' = RemoveFirst(lista_cpus, c)
        /\ proceso' = [proceso EXCEPT ![c] = 0]
        /\ corre' = [corre EXCEPT ![c] = 0]
        /\ UNCHANGED principal
    BY <1>8 DEF DesconectarCpu, hilos
  <2>2. proceso[c] = 0 => c \notin en_ejecucion
    BY <2>1 DEF CpusEnOrden
  <2>3. en_ejecucion' = en_ejecucion \ {c}
    BY <2>1, <2>2
  <2>4. \A d : Contains(lista_cpus, d) /\ d # c => Contains(lista_cpus', d)
    BY <1>1, <2>1, DelMedio
  <2> QED
    BY <1>1, <2>1, <2>3, <2>4 DEF CpusEnOrden
<1>9. ASSUME NEW c \in CPUs, FinDeTurno(c) PROVE CpusEnOrden'
  <2>1. /\ en_ejecucion' = en_ejecucion \ {c}
        /\ proceso' \in {proceso, [proceso EXCEPT ![c] = 0]}
        /\ corre' = [corre EXCEPT ![c] = 0]
        /\ UNCHANGED <<lista_cpus, hilos>>
    BY <1>9 DEF FinDeTurno, FinDeRafaga, Finalizado, FinErroneo, WaitMarcado, WaitBloquea,
                Inexistente, LiberarCpu
  <2>2. principal' = principal
    BY <2>1 DEF hilos
  <2>3. \A d \in CPUs : /\ d # c => proceso'[d] = proceso[d]
                       /\ corre'[d] = IF d = c THEN 0 ELSE corre[d]
    BY <1>1, <2>1
  <2> QED
    BY <1>1, <2>1, <2>2, <2>3 DEF CpusEnOrden
<1>10. ASSUME NEW c \in CPUs, DuranteElTurno(c) PROVE CpusEnOrden'
  BY <1>2, <1>10 DEF DuranteElTurno, WaitPasa, Signal, cpus, hilos, CpusEnOrden
<1>11. ASSUME NEW g \in Grados, set_multiprog(g) PROVE CpusEnOrden'
  BY <1>2, <1>11 DEF set_multiprog, cpus, CpusEnOrden
<1> QED
  BY <1>3, <1>4, <1>5, <1>6, <1>7, <1>8, <1>9, <1>10, <1>11
  DEF Next, PasoPlanificacion, SeguirPrincipal

\* No CPU is connected at first.
LEMMA InicioCpus == Init => CpusEnOrden
BY DEF Init, CpusEnOrden

\* No CPU is lost to the planner, whoever is ended and however.
THEOREM NingunaCpuSePierde ==
  ASSUME BajasAparte
  PROVE  Spec => []CpuEnUso
<1> DEFINE I == IInv /\ CpusEnOrden
<1>1. Init => I
  BY InicioUbicado, InicioCpus
<1>2. I /\ [Next]_vars => I'
  <2>1. IInv => TypeOK
    BY DEF IInv
  <2> QED
    BY <2>1, PasoUbicado, PasoCpus
<1>3. I => CpuEnUso
  BY DEF CpusEnOrden, CpuEnUso, IInv, TypeOK
<1> QED
  BY <1>1, <1>2, <1>3, PTL DEF Spec

-----------------------------------------------------------------------------
(* The wake-ups of the planner *)

AlgunaEjecuta == \E c \in CPUs : corre[c] # 0

\* The planner has nothing to do for a ready process, or for one in New
NadaEnReady == kernel.ready # <<>> /\ lista_cpus # <<>> => AlgunaEjecuta
NadaEnNew   == new_queue # <<>> /\ HayLugar /\ lista_cpus # <<>> => AlgunaEjecuta

\* A wake-up is pending, or main or menu is about to give one
Avisado    == despertador \/ ~EnSelect
AvisadoNew == Avisado \/ menu.en = "cambiar"

\* ReadyJustificado, made inductive: from the dispatch to the next wait, a wake-up is
\* pending or there is nothing to do.
ReadyAtendido ==
  planificador.en \in {"mirar", "esperar"} => Avisado \/ NadaEnReady

\* The same of New: the planner admits one and dispatches one in a turn, so the
\* process it has put in ready stands for those that stay in New.
NewAtendido ==
  /\ planificador.en \in {"mirar", "esperar"} => AvisadoNew \/ NadaEnNew
  /\ planificador.en = "despachar" => AvisadoNew \/ NadaEnNew \/ kernel.ready # <<>>

\* A step of main or menu that leaves a wake-up pending.
LEMMA PasoAvisado ==
  ASSUME Avisado'
  PROVE  ReadyAtendido' /\ NewAtendido'
BY DEF ReadyAtendido, NewAtendido, AvisadoNew

\* A step that changes nothing the planner waits for.
LEMMA PasoIndiferente ==
  ASSUME ReadyAtendido,
         \/ planificador' = planificador
         \/ planificador.en = "mirar" /\ planificador'.en = "esperar",
         despertador' = despertador, principal' = principal, new_queue' = new_queue,
         grado' = grado, corre' = corre,
         kernel'.ready = kernel.ready, kernel'.actuales = kernel.actuales,
         lista_cpus' # <<>> => lista_cpus # <<>>,
         menu.en = "cambiar" => menu'.en = "cambiar"
  PROVE  ReadyAtendido' /\ (NewAtendido => NewAtendido')
BY DEF ReadyAtendido, NewAtendido, AvisadoNew, Avisado, EnSelect, NadaEnReady, NadaEnNew,
       AlgunaEjecuta, HayLugar

\* The steps of main, of the CPUs and of the operator that wake the planner, or leave
\* main about to do it.
LEMMA PasosQueAvisan ==
  ASSUME \/ NuevoPrograma \/ RechazarPrograma \/ SeguirPrincipal
         \/ \E p \in 1 .. pid : finish_process(p)
         \/ \E c \in CPUs : ConectarCpu(c) \/ FinDeTurno(c) \/ DuranteElTurno(c)
  PROVE  Avisado'
<1>1. CASE NuevoPrograma
  BY <1>1 DEF NuevoPrograma, Principal, Avisado, EnSelect
<1>2. CASE ~NuevoPrograma
  <2>1. despertador' = TRUE
    BY <1>2
    DEF RechazarPrograma, SeguirPrincipal, GuardarPrograma, EncolarPrograma, EliminarAhora,
        CaidaDeConsola, finish_process, ConectarCpu, FinDeTurno, FinDeRafaga, Finalizado,
        FinErroneo, WaitMarcado, WaitBloquea, Inexistente, DuranteElTurno, WaitPasa, Signal,
        Despertar
  <2> QED
    BY <2>1 DEF Avisado
<1> QED
  BY <1>1, <1>2

\* Those that need not.
LEMMA PasosIndiferentes ==
  ASSUME TypeOK, CpusEnOrden, ReadyAtendido,
         \/ UNCHANGED vars \/ MirarPlan \/ AlternarPlan
         \/ \E g \in Grados : set_multiprog(g)
         \/ \E p \in 1 .. pid : Eliminar(p) \/ DesconectarConsola(p)
         \/ \E c \in CPUs : DesconectarCpu(c)
  PROVE  ReadyAtendido' /\ (NewAtendido => NewAtendido')
<1>1. kernel \in Estructuras
  BY DEF TypeOK
<1>2. CASE UNCHANGED vars \/ MirarPlan \/ AlternarPlan \/ \E g \in Grados : set_multiprog(g)
  <2>1. /\ UNCHANGED <<kernel, despertador, principal, new_queue, corre, lista_cpus, grado>>
        /\ \/ planificador' = planificador
           \/ planificador.en = "mirar" /\ planificador'.en = "esperar"
        /\ menu.en = "cambiar" => menu'.en = "cambiar"
    BY <1>2 DEF vars, cpus, hilos, MirarPlan, Planifica, AlternarPlan, set_multiprog
  <2> QED
    BY <2>1, PasoIndiferente
<1>3. ASSUME NEW p \in 1 .. pid, Eliminar(p) \/ DesconectarConsola(p)
      PROVE  ReadyAtendido' /\ (NewAtendido => NewAtendido')
  <2>1. CASE principal'.en \in {"eliminar", "caida"}
    BY <2>1, PasoAvisado DEF Avisado, EnSelect
  <2>2. CASE principal'.en \notin {"eliminar", "caida"}
    <3>1. principal' = principal
      BY <1>3, <2>2 DEF Eliminar, DesconectarConsola, Principal
    <3>2. kernel' = kernel \/ kernel' = Marcado(kernel, p)
      BY <1>3 DEF Eliminar, DesconectarConsola, Marcar, Marcado
    <3>3. kernel'.ready = kernel.ready /\ kernel'.actuales = kernel.actuales
      BY <1>1, <3>2 DEF Marcado, Estructuras
    <3>4. UNCHANGED <<planificador, despertador, new_queue, grado, corre, lista_cpus, menu>>
      BY <1>3 DEF Eliminar, DesconectarConsola, cpus
    <3> QED
      BY <3>1, <3>3, <3>4, PasoIndiferente
  <2> QED
    BY <2>1, <2>2
<1>4. ASSUME NEW c \in CPUs, DesconectarCpu(c)
      PROVE  ReadyAtendido' /\ (NewAtendido => NewAtendido')
  <2>1. CASE proceso[c] # 0
    BY <1>4, <2>1, PasoAvisado DEF DesconectarCpu, Despertar, Avisado
  <2>2. CASE proceso[c] = 0
    <3>1. /\ UNCHANGED <<kernel, despertador, new_queue, grado, hilos>>
          /\ lista_cpus' = RemoveFirst(lista_cpus, c)
          /\ corre' = [corre EXCEPT ![c] = 0]
          /\ Permite("desconexion_cpu")
      BY <1>4, <2>2 DEF DesconectarCpu
    <3>2. corre[c] = 0
      BY <2>2, <3>1 DEF CpusEnOrden
    <3>3. corre' = corre
      BY <3>1, <3>2 DEF TypeOK
    <3>4. lista_cpus' # <<>> => lista_cpus # <<>>
      <4>1. CASE lista_cpus = <<>>
        <5>1. ~ \E i \in DOMAIN lista_cpus : lista_cpus[i] = c
          BY <4>1
        <5> QED
          BY <1>4, <5>1 DEF DesconectarCpu, Contains
      <4> QED
        BY <4>1
    <3> QED
      BY <3>1, <3>3, <3>4, PasoIndiferente DEF hilos
  <2> QED
    BY <2>1, <2>2
<1> QED
  BY <1>2, <1>3, <1>4

\* The operator makes room: the planner is woken if there is any.
LEMMA PasoCambiarGrado ==
  ASSUME TypeOK, ReadyAtendido, CambiarGrado
  PROVE  ReadyAtendido' /\ NewAtendido'
<1>1. /\ grado' = menu.grado /\ despertador' = (despertador \/ kernel.actuales < menu.grado)
      /\ UNCHANGED <<kernel, new_queue, planificador, principal, lista_cpus, corre>>
  BY DEF CambiarGrado, cpus
<1>2. CASE Avisado'
  BY <1>2, PasoAvisado
<1>3. CASE ~Avisado'
  <2>1. ~Avisado /\ ~HayLugar'
    BY <1>1, <1>3 DEF Avisado, EnSelect, HayLugar, TypeOK
  <2> QED
    BY <1>1, <2>1 DEF ReadyAtendido, NewAtendido, NadaEnReady, NadaEnNew, AlgunaEjecuta
<1> QED
  BY <1>2, <1>3

\* A turn of the planner: it takes the wake-up, admits one process and dispatches one.
LEMMA PasoDelTurno ==
  ASSUME TypeOK, CpusEnOrden, ReadyAtendido,
         Esperar \/ Admitir \/ GuardarDeNew \/ Despachar
  PROVE  /\ ReadyAtendido'
         /\ NewAtendido /\ ~Permite("rechazo") => NewAtendido'
<1>1. kernel \in Estructuras
  BY DEF TypeOK
<1>2. CASE Esperar
  BY <1>2 DEF Esperar, Planifica, ReadyAtendido, NewAtendido
<1>3. CASE Admitir
  <2>1. CASE new_queue # <<>> /\ HayLugar
    BY <1>3, <2>1 DEF Admitir, Planifica, ReadyAtendido, NewAtendido
  <2>2. CASE ~(new_queue # <<>> /\ HayLugar)
    BY <1>3, <2>2 DEF Admitir, Planifica, ReadyAtendido, NewAtendido, NadaEnNew, HayLugar
  <2> QED
    BY <2>1, <2>2
<1>4. CASE GuardarDeNew
  <2>1. planificador' = [en |-> "despachar", pid |-> 0]
    BY <1>4 DEF GuardarDeNew, Planifica
  <2>2. ~Permite("rechazo") => kernel'.ready # <<>>
    <3>1. kernel.ready \in Seq(Pids)
      BY <1>1 DEF Estructuras
    <3>2. ~Permite("rechazo") => kernel' = guardado_en_memoria(kernel, planificador.pid, TRUE)
      BY <1>4 DEF GuardarDeNew, Respuestas
    <3>3. guardado_en_memoria(kernel, planificador.pid, TRUE).ready
            = Append(kernel.ready, planificador.pid)
      BY <1>1 DEF guardado_en_memoria, Estructuras
    <3>4. Append(kernel.ready, planificador.pid) # <<>>
      BY <3>1, AppendProperties
    <3> QED
      BY <3>2, <3>3, <3>4
  <2> QED
    BY <2>1, <2>2 DEF ReadyAtendido, NewAtendido
<1>5. CASE Despachar
  <2>1. /\ planificador.en = "despachar" /\ planificador' = [en |-> "mirar", pid |-> 0]
        /\ UNCHANGED <<despertador, principal, menu, new_queue, grado, lista_cpus>>
    BY <1>5 DEF Despachar, Planifica
  <2>2. CASE kernel.ready # <<>> /\ lista_cpus # <<>>
    <3>1. AlgunaEjecuta'
      <4>1. CASE CpusLibres # {}
        <5> DEFINE p == Head(kernel.ready)
                   c == buscar_cpu_libre
        <5>1. p # 0
          <6>1. kernel.ready \in Seq(Pids)
            BY <1>1 DEF Estructuras
          <6>2. p \in Pids
            BY <2>2, <6>1, DelPrincipio
          <6> QED
            BY <6>2 DEF Pids
        <5>2. c \in CPUs
          BY <4>1, CpuLibre
        <5>3. corre' = [corre EXCEPT ![c] = p]
          BY <1>5, <2>2, <4>1 DEF Despachar
        <5> HIDE DEF p, c
        <5> QED
          BY <5>1, <5>2, <5>3 DEF AlgunaEjecuta, TypeOK
      <4>2. CASE CpusLibres = {}
        <5>1. corre' = corre
          BY <1>5, <4>2 DEF Despachar
        <5>2. AlgunaEjecuta
          BY <2>2, <4>2, CpuOcupada DEF CpusEnOrden, AlgunaEjecuta
        <5> QED
          BY <5>1, <5>2 DEF AlgunaEjecuta
      <4> QED
        BY <4>1, <4>2
    <3> QED
      BY <2>1, <3>1 DEF ReadyAtendido, NewAtendido, NadaEnReady, NadaEnNew
  <2>3. CASE lista_cpus = <<>>
    BY <2>1, <2>3 DEF ReadyAtendido, NewAtendido, NadaEnReady, NadaEnNew
  <2>4. CASE kernel.ready = <<>>
    <3>1. kernel' = kernel /\ corre' = corre
      BY <1>5, <2>4 DEF Despachar
    <3> QED
      BY <2>1, <2>4, <3>1 DEF ReadyAtendido, NewAtendido, NadaEnReady, NadaEnNew, AvisadoNew,
         Avisado, EnSelect, HayLugar, AlgunaEjecuta
  <2> QED
    BY <2>2, <2>3, <2>4
<1> QED
  BY <1>2, <1>3, <1>4, <1>5

\* Any step.
LEMMA PasoEspera ==
  ASSUME TypeOK, CpusEnOrden, ReadyAtendido, [Next]_vars
  PROVE  /\ ReadyAtendido'
         /\ NewAtendido /\ ~Permite("rechazo") => NewAtendido'
BY PasosQueAvisan, PasoAvisado, PasosIndiferentes, PasoCambiarGrado, PasoDelTurno
DEF Next, PasoPlanificacion

\* The planner starts with a wake-up pending.
LEMMA InicioEspera == Init => ReadyAtendido /\ NewAtendido
BY DEF Init, ReadyAtendido, NewAtendido, AvisadoNew, Avisado

\* mutex_planificacion is unlocked, locked or not, and each turn serves one process:
\* even so the planner does not sleep over a ready process with every CPU idle, also
\* when memory refuses programs and whoever is ended.
THEOREM NoDuermeConReady ==
  ASSUME BajasAparte
  PROVE  Spec => []ReadyJustificado
<1> DEFINE I == IInv /\ CpusEnOrden /\ ReadyAtendido
<1>1. Init => I
  BY InicioUbicado, InicioCpus, InicioEspera
<1>2. I /\ [Next]_vars => I'
  <2>1. IInv => TypeOK
    BY DEF IInv
  <2> QED
    BY <2>1, PasoUbicado, PasoCpus, PasoEspera
<1>3. I => ReadyJustificado
  BY DEF ReadyAtendido, Avisado, NadaEnReady, AlgunaEjecuta, ReadyJustificado, Dormido
<1> QED
  BY <1>1, <1>2, <1>3, PTL DEF Spec

\* Nor over one in New when there is room, as long as memory refuses nobody: if it
\* refuses the one the planner takes, the turn ends and nothing wakes it for the next.
THEOREM NadieEsperaSinMotivo ==
  ASSUME BajasAparte, ~Permite("rechazo")
  PROVE  Spec => []EsperaJustificada
<1> DEFINE I == IInv /\ CpusEnOrden /\ ReadyAtendido /\ NewAtendido
<1>1. Init => I
  BY InicioUbicado, InicioCpus, InicioEspera
<1>2. I /\ [Next]_vars => I'
  <2>1. IInv => TypeOK
    BY DEF IInv
  <2> QED
    BY <2>1, PasoUbicado, PasoCpus, PasoEspera
<1>3. I => EsperaJustificada
  BY DEF ReadyAtendido, NewAtendido, AvisadoNew, Avisado, NadaEnReady, NadaEnNew, AlgunaEjecuta,
         EsperaJustificada, ReadyJustificado, NewJustificado, Dormido
<1> QED
  BY <1>1, <1>2, <1>3, PTL DEF Spec

-----------------------------------------------------------------------------
(* The processes that are alive *)

\* No process that waits or has not been admitted is marked: marks are put on what a
\* CPU executes, and looked at before it is put in a queue.
Marcas ==
  \A q \in Pids : kernel.borrar[q] > 0 => q \notin Esperan(kernel) /\ ~EnNew(q) /\ q <= pid

\* What the Kernel thinks a CPU in use executes is what it executes; the other way
\* round, a CPU may execute a process whose Consola asked to end it: it has finished.
CpusConSuProceso ==
  \A c \in CPUs :
    /\ c \in en_ejecucion /\ proceso[c] # 0 => corre[c] = proceso[c]
    /\ corre[c] # 0 => /\ Contains(lista_cpus, c) /\ c \in en_ejecucion
                       /\ proceso[c] = corre[c] \/ kernel.estado[corre[c]] = "Exit"

Creados == \A p \in 1 .. pid : kernel.estado[p] # "NoExiste"

\* SinPerdidos, made inductive.
Vivos == Marcas /\ CpusConSuProceso /\ Creados /\ SinPerdidos

\* A process that waits somewhere is admitted.
LEMMA EsperarEsAdmitido ==
  \A p \in Pids : Admitido(p) <=> p \in Esperan(kernel) \/ Corriendo(p)
BY DEF Admitido, EnReady, Bloqueado, Esperan

LEMMA EsperarEsAdmitidoDespues ==
  \A p \in Pids : Admitido(p)' <=> p \in Esperan(kernel') \/ Corriendo(p)'
BY DEF Admitido, EnReady, Bloqueado, Esperan

\* Nobody that signal could find is marked.
LEMMA MarcasEnCola ==
  ASSUME IInv, Marcas
  PROVE  kernel \in Estructuras /\ Orden(kernel) /\ SinMarcasEnCola(kernel)
<1>1. kernel \in Estructuras /\ Orden(kernel)
  BY DEF IInv, TypeOK, Ubicados
<1>2. \A q \in Pids : kernel.borrar[q] \in Nat
  BY <1>1 DEF Estructuras
<1>3. Esperan(kernel) \subseteq Pids
  BY DEF Esperan
<1> QED
  BY <1>1, <1>2, <1>3 DEF Marcas, SinMarcasEnCola

\* A process that executes although it has finished stays finished.
LEMMA SigueTerminado ==
  ASSUME IInv, Conserva(kernel, kernel'), NoPierde(kernel, kernel', Nadie),
         NEW q \in Pids, Corriendo(q), kernel.estado[q] = "Exit"
  PROVE  kernel'.estado[q] = "Exit"
<1>1. q \notin Esperan(kernel) /\ q \notin Esperan(kernel')
  BY DEF IInv, Ubicados, Conserva
<1>2. q # Nadie
  BY DEF Pids, Nadie
<1> QED
  BY <1>1, <1>2 DEF NoPierde

\* A step whose function loses nobody, if whoever leaves a CPU or New has finished.
LEMMA PasoQueNoPierde ==
  ASSUME IInv, Vivos, Conserva(kernel, kernel'), NoPierde(kernel, kernel', Nadie), pid' = pid,
         \A q \in Pids : EnNew(q) => EnNew(q)' \/ kernel'.estado[q] = "Exit",
         \A q \in Pids : EnNew(q)' => EnNew(q),
         \A q \in Pids : Corriendo(q) => Corriendo(q)' \/ kernel'.estado[q] = "Exit",
         CpusConSuProceso'
  PROVE  Vivos'
<1>1. kernel \in Estructuras /\ kernel' \in Estructuras
  BY DEF IInv, TypeOK, Conserva
<1>2. \A q \in Pids : /\ kernel.borrar[q] \in Nat /\ kernel'.borrar[q] \in Nat
                      /\ kernel'.borrar[q] <= kernel.borrar[q]
  BY <1>1 DEF Estructuras, NoPierde
<1>3. \A q \in Pids : kernel'.borrar[q] > 0 => kernel.borrar[q] > 0
  BY <1>2
<1>4. Marcas'
  <2>1. Esperan(kernel') \subseteq Esperan(kernel)
    BY DEF Conserva
  <2> SUFFICES ASSUME NEW q \in Pids, kernel'.borrar[q] > 0
               PROVE  q \notin Esperan(kernel') /\ ~EnNew(q)' /\ q <= pid'
    BY DEF Marcas
  <2>2. q \notin Esperan(kernel) /\ ~EnNew(q) /\ q <= pid
    BY <1>3 DEF Vivos, Marcas
  <2> QED
    BY <2>1, <2>2
<1>5. \A q \in Pids : /\ q \in Esperan(kernel) => q \in Esperan(kernel') \/ kernel'.estado[q] = "Exit"
                      /\ kernel'.estado[q] # kernel.estado[q] =>
                           (q \in Esperan(kernel') /\ kernel'.estado[q] = "Ready")
                             \/ kernel'.estado[q] = "Exit"
  BY DEF NoPierde, Pids, Nadie
<1>6. 1 .. pid \subseteq Pids
  BY CreadosEnPids DEF IInv
<1>7. Creados'
  BY <1>5, <1>6 DEF Vivos, Creados
<1>8. SinPerdidos'
  <2> SUFFICES ASSUME NEW p \in 1 .. pid, kernel'.estado[p] # "Exit"
               PROVE  Admitido(p)' \/ EnNew(p)'
    BY DEF SinPerdidos
  <2>1. p \in Pids
    BY <1>6
  <2>2. CASE kernel'.estado[p] # kernel.estado[p]
    BY <1>5, <2>1, <2>2, EsperarEsAdmitidoDespues
  <2>3. CASE kernel'.estado[p] = kernel.estado[p]
    <3>1. Admitido(p) \/ EnNew(p)
      BY <2>3 DEF Vivos, SinPerdidos
    <3>2. CASE p \in Esperan(kernel)
      BY <1>5, <2>1, <3>2, EsperarEsAdmitidoDespues
    <3>3. CASE Corriendo(p)
      BY <2>1, <3>3, EsperarEsAdmitidoDespues
    <3>4. CASE EnNew(p)
      BY <2>1, <3>4
    <3> QED
      BY <2>1, <3>1, <3>2, <3>3, <3>4, EsperarEsAdmitido
  <2> QED
    BY <2>2, <2>3
<1> QED
  BY <1>4, <1>7, <1>8 DEF Vivos

\* What a CPU executes is a process.
LEMMA CorreUnProceso ==
  ASSUME IInv, NEW c \in CPUs, corre[c] # 0
  PROVE  corre[c] \in Pids /\ Corriendo(corre[c])
BY DEF IInv, TypeOK, Pids, Corriendo

\* A step that leaves the CPUs alone.
LEMMA CpusQuietas ==
  ASSUME IInv, CpusConSuProceso, Conserva(kernel, kernel'), NoPierde(kernel, kernel', Nadie),
         en_ejecucion' = en_ejecucion, proceso' = proceso, corre' = corre,
         \A c : Contains(lista_cpus, c) => Contains(lista_cpus', c)
  PROVE  CpusConSuProceso'
<1>1. \A c \in CPUs : corre[c] # 0 => corre[c] \in Pids /\ Corriendo(corre[c])
  BY CorreUnProceso
<1>2. \A c \in CPUs : corre[c] # 0 /\ kernel.estado[corre[c]] = "Exit"
                       => kernel'.estado[corre[c]] = "Exit"
  BY <1>1, SigueTerminado
<1> QED
  BY <1>2 DEF CpusConSuProceso

\* A step in which a CPU lets go of its process.
LEMMA CpusSueltan ==
  ASSUME IInv, CpusConSuProceso, NEW c \in CPUs,
         \A d \in CPUs : d # c /\ corre[d] # 0 /\ kernel.estado[corre[d]] = "Exit"
                         => kernel'.estado[corre[d]] = "Exit",
         en_ejecucion' \in {en_ejecucion, en_ejecucion \ {c}},
         proceso' = [proceso EXCEPT ![c] = 0], corre' = [corre EXCEPT ![c] = 0],
         \A d : d # c /\ Contains(lista_cpus, d) => Contains(lista_cpus', d)
  PROVE  CpusConSuProceso'
<1>1. \A d \in CPUs : /\ proceso'[d] = IF d = c THEN 0 ELSE proceso[d]
                      /\ corre'[d] = IF d = c THEN 0 ELSE corre[d]
  BY DEF IInv, TypeOK
<1> QED
  BY <1>1 DEF CpusConSuProceso

\* Its process is the only one that leaves a CPU.
LEMMA SoloSuProceso ==
  ASSUME IInv, NEW c \in CPUs, corre' = [corre EXCEPT ![c] = 0],
         NEW q \in Pids, q # corre[c], Corriendo(q)
  PROVE  Corriendo(q)'
<1>1. PICK d \in CPUs : corre[d] = q
  BY DEF Corriendo
<1>2. corre'[d] = q
  BY <1>1 DEF IInv, TypeOK
<1> QED
  BY <1>2 DEF Corriendo
\* The steps of the threads that touch no structure of the processes.
LEMMA VivosQuietos ==
  ASSUME IInv, Vivos,
         \/ MirarPlan \/ Esperar \/ Admitir \/ RechazarPrograma \/ EncolarPrograma
         \/ \E c \in CPUs : ConectarCpu(c) \/ \E s \in Semaforos : WaitPasa(c, s)
         \/ AlternarPlan \/ CambiarGrado \/ \E g \in Grados : set_multiprog(g)
         \/ UNCHANGED vars
  PROVE  Vivos'
<1>1. kernel \in Estructuras
  BY DEF IInv, TypeOK
<1>2. pid' = pid /\ corre' = corre /\ en_ejecucion' = en_ejecucion
  BY DEF MirarPlan, Esperar, Admitir, RechazarPrograma, EncolarPrograma, ConectarCpu,
         WaitPasa, AlternarPlan, CambiarGrado, set_multiprog, vars, cpus
<1>3. \A q \in Pids : EnNew(q)' <=> EnNew(q)
  BY NewQuieto
<1>4. Conserva(kernel, kernel') /\ NoPierde(kernel, kernel', Nadie)
  <2>1. CASE kernel' = kernel
    BY <1>1, <2>1, SinColas, NadaPierde
  <2>2. ASSUME NEW c \in CPUs, NEW s \in Semaforos, WaitPasa(c, s)
        PROVE  Conserva(kernel, kernel') /\ NoPierde(kernel, kernel', Nadie)
    <3> DEFINE m == [kernel EXCEPT !.valor[s] = kernel.valor[s] - 1]
    <3>1. m \in Estructuras
      <4>1. kernel.valor[s] - 1 \in Int
        BY <1>1 DEF Estructuras
      <4> QED
        BY <1>1, <4>1, Asignaciones
    <3>2. /\ m.ready = kernel.ready /\ m.cola = kernel.cola
          /\ m.estado = kernel.estado /\ m.borrar = kernel.borrar
      BY <1>1 DEF Estructuras
    <3>3. kernel' = m
      BY <2>2 DEF WaitPasa
    <3> HIDE DEF m
    <3> QED
      BY <1>1, <3>1, <3>2, <3>3, SinColas, NadaPierde
  <2> QED
    BY <2>1, <2>2
    DEF MirarPlan, Esperar, Admitir, RechazarPrograma, EncolarPrograma, ConectarCpu,
        AlternarPlan, CambiarGrado, set_multiprog, vars
<1>5. CpusConSuProceso'
  <2>1. ASSUME NEW c \in CPUs, ConectarCpu(c) PROVE CpusConSuProceso'
    <3>1. lista_cpus' = Append(lista_cpus, c) /\ proceso' = [proceso EXCEPT ![c] = 0]
          /\ ~Contains(lista_cpus, c) /\ kernel' = kernel
      BY <2>1 DEF ConectarCpu
    <3>2. corre[c] = 0
      BY <3>1 DEF Vivos, CpusConSuProceso
    <3>3. corre' = [corre EXCEPT ![c] = 0]
      BY <1>2, <3>2 DEF IInv, TypeOK
    <3>4. \A d : Contains(lista_cpus, d) => Contains(lista_cpus', d)
      BY <3>1, AlFinalExacto DEF IInv, TypeOK
    <3> QED
      BY <1>2, <3>1, <3>3, <3>4, CpusSueltan DEF Vivos
  <2>2. CASE lista_cpus' = lista_cpus /\ proceso' = proceso
    BY <1>2, <1>4, <2>2, CpusQuietas DEF Vivos
  <2> QED
    BY <2>1, <2>2
    DEF MirarPlan, Esperar, Admitir, RechazarPrograma, EncolarPrograma, WaitPasa,
        AlternarPlan, CambiarGrado, set_multiprog, vars, cpus
<1>6. \A q : Corriendo(q)' <=> Corriendo(q)
  BY <1>2 DEF Corriendo
<1> QED
  BY <1>2, <1>3, <1>4, <1>5, <1>6, PasoQueNoPierde

\* The handlers that end a process that no CPU has to let go of, and SIGNAL.
LEMMA VivosBajas ==
  ASSUME IInv, Vivos,
         \/ EliminarAhora \/ CaidaDeConsola
         \/ \E p \in 1 .. pid : finish_process(p)
         \/ \E c \in CPUs : \E s \in Semaforos : Signal(c, s)
  PROVE  Vivos'
<1>1. kernel \in Estructuras /\ Orden(kernel) /\ SinMarcasEnCola(kernel)
  BY MarcasEnCola DEF Vivos
<1>2. 1 .. pid \subseteq Pids
  BY CreadosEnPids DEF IInv
<1>3. /\ pid' = pid /\ corre' = corre /\ en_ejecucion' = en_ejecucion
      /\ lista_cpus' = lista_cpus /\ new_queue' = new_queue /\ planificador' = planificador
      /\ \/ principal' = principal
         \/ principal.en \in {"eliminar", "caida"} /\ principal'.en = "select"
  <2>1. CASE EliminarAhora
    BY <2>1 DEF EliminarAhora, Principal
  <2>2. CASE CaidaDeConsola
    BY <2>2 DEF CaidaDeConsola, Principal, cpus
  <2>3. CASE \E p \in 1 .. pid : finish_process(p)
    BY <2>3 DEF finish_process, cpus, hilos
  <2>4. CASE \E c \in CPUs : \E s \in Semaforos : Signal(c, s)
    BY <2>4 DEF Signal, cpus, hilos
  <2> QED
    BY <2>1, <2>2, <2>3, <2>4
<1>4. Conserva(kernel, kernel') /\ NoPierde(kernel, kernel', Nadie)
  <2>1. CASE EliminarAhora \/ CaidaDeConsola
    <3>1. PICK p : p = principal.pid
      OBVIOUS
    <3>2. p \in Pids
      BY <1>2, <2>1, <3>1 DEF IInv, Conocidos, EliminarAhora, CaidaDeConsola
    <3>3. kernel' = end_process(signal_reciente(kernel, p), p)
      BY <2>1, <3>1 DEF EliminarAhora, CaidaDeConsola
    <3> QED
      BY <1>1, <3>2, <3>3, MatarConserva, MatarNoPierde
  <2>2. ASSUME NEW p \in 1 .. pid, finish_process(p)
        PROVE  Conserva(kernel, kernel') /\ NoPierde(kernel, kernel', Nadie)
    BY <1>1, <1>2, <2>2, TerminarConserva, TerminarNoPierde DEF finish_process
  <2>3. ASSUME NEW c \in CPUs, NEW s \in Semaforos, Signal(c, s)
        PROVE  Conserva(kernel, kernel') /\ NoPierde(kernel, kernel', Nadie)
    <3>1. kernel' = signal(kernel, s)
      BY <2>3 DEF Signal
    <3> QED
      BY <1>1, <3>1, SignalConserva, SignalNoPierde
  <2> QED
    BY <2>1, <2>2, <2>3
<1>5. CpusConSuProceso'
  <2>1. CASE proceso' = proceso
    BY <1>3, <1>4, <2>1, CpusQuietas DEF Vivos
  <2>2. CASE proceso' # proceso
    <3>1. PICK p : p = principal.pid
      OBVIOUS
    <3>2. EliminarAhora
      BY <2>2 DEF CaidaDeConsola, finish_process, Signal, cpus
    <3>3. p \in 1 .. pid /\ p \in Pids /\ p # 0
      <4>1. p \in 1 .. pid
        BY <3>1, <3>2 DEF IInv, Conocidos, EliminarAhora
      <4>2. p \in Pids
        BY <1>2, <4>1
      <4> QED
        BY <4>1, <4>2 DEF Pids
    <3>4. kernel'.estado[p] = "Exit"
      <4>1. kernel.estado[p] # "NoExiste"
        BY <3>3 DEF Vivos, Creados
      <4> QED
        BY <1>1, <3>1, <3>2, <3>3, <4>1, MatarNoPierde DEF EliminarAhora
    <3>5. PICK d \in CPUs : proceso[d] = p /\ proceso' = [proceso EXCEPT ![d] = 0]
      <4>1. /\ ConexionDe(p) # {}
            /\ proceso' = [proceso EXCEPT ![lista_cpus[Min(ConexionDe(p))]] = 0]
        BY <2>2, <3>1, <3>2 DEF EliminarAhora
      <4>2. lista_cpus \in Seq(CPUs) /\ DOMAIN lista_cpus = 1 .. Len(lista_cpus)
        BY LenProperties DEF IInv, TypeOK
      <4>3. ConexionDe(p) \in SUBSET Nat
        BY <4>2, LenProperties DEF ConexionDe
      <4>4. Min(ConexionDe(p)) \in ConexionDe(p)
        BY <4>1, <4>3, HayPrimero
      <4>5. /\ Min(ConexionDe(p)) \in 1 .. Len(lista_cpus)
            /\ proceso[lista_cpus[Min(ConexionDe(p))]] = p
        BY <4>2, <4>4 DEF ConexionDe
      <4>6. lista_cpus[Min(ConexionDe(p))] \in CPUs
        BY <4>2, <4>5, LenProperties
      <4> QED
        BY <4>1, <4>5, <4>6
    <3>6. \A e \in CPUs : proceso'[e] = IF e = d THEN 0 ELSE proceso[e]
      BY <3>5 DEF IInv, TypeOK
    <3>7. corre[d] # 0 => kernel'.estado[corre[d]] = "Exit"
      BY <3>3, <3>4, <3>5 DEF Vivos, CpusConSuProceso
    <3>8. \A e \in CPUs : corre[e] # 0 => corre[e] \in Pids /\ Corriendo(corre[e])
      BY DEF IInv, TypeOK, Pids, Corriendo
    <3>9. \A e \in CPUs : corre[e] # 0 /\ kernel.estado[corre[e]] = "Exit"
                           => kernel'.estado[corre[e]] = "Exit"
      BY <1>4, <3>8, SigueTerminado
    <3> QED
      BY <1>3, <3>6, <3>7, <3>9 DEF Vivos, CpusConSuProceso
  <2> QED
    BY <2>1, <2>2
<1>6. \A q : /\ Corriendo(q)' <=> Corriendo(q)
             /\ EnNew(q)' <=> EnNew(q)
  BY <1>3 DEF Corriendo, EnNew, EnManos
<1> QED
  BY <1>3, <1>4, <1>5, <1>6, PasoQueNoPierde

\* A process that a CPU executes is marked.
LEMMA VivosMarcar ==
  ASSUME IInv, Vivos, NEW p \in 1 .. pid, Eliminar(p) \/ DesconectarConsola(p)
  PROVE  Vivos'
<1>1. p \in Pids /\ p # 0 /\ kernel \in Estructuras
  BY CreadosEnPids DEF IInv, TypeOK, Pids
<1>2. /\ UNCHANGED <<new_queue, pid, planificador, lista_cpus, en_ejecucion, proceso, corre>>
      /\ \/ principal' = principal
         \/ principal.en = "select" /\ principal'.en \in {"eliminar", "caida"}
  BY DEF Eliminar, DesconectarConsola, Principal, EnSelect, cpus
<1>3. \A q : /\ Corriendo(q)' <=> Corriendo(q)
             /\ EnNew(q)' <=> EnNew(q)
  BY <1>2 DEF Corriendo, EnNew, EnManos
<1>4. CASE kernel' = kernel
  BY <1>2, <1>3, <1>4 DEF Vivos, Marcas, CpusConSuProceso, Creados, SinPerdidos, Admitido,
     EnReady, Bloqueado
<1>5. CASE kernel' # kernel
  <2>1. proceso_en_ejecucion(p) /\ kernel' = [kernel EXCEPT !.borrar[p] = @ + 1]
    BY <1>5 DEF Eliminar, DesconectarConsola, Marcar
  <2>2. /\ kernel'.ready = kernel.ready /\ kernel'.cola = kernel.cola
        /\ kernel'.estado = kernel.estado
        /\ \A q \in Pids : q # p => kernel'.borrar[q] = kernel.borrar[q]
    BY <1>1, <2>1 DEF Estructuras
  <2>3. Corriendo(p)
    BY <1>1, <2>1 DEF proceso_en_ejecucion, Vivos, CpusConSuProceso, Corriendo, IInv, TypeOK
  <2>4. p \notin Esperan(kernel) /\ ~EnNew(p)
    BY <1>1, <2>3 DEF IInv, Ubicados
  <2>5. p <= pid /\ Esperan(kernel') = Esperan(kernel)
    BY <2>2 DEF IInv, TypeOK, Esperan
  <2>6. Marcas'
    BY <1>2, <1>3, <2>2, <2>4, <2>5 DEF Vivos, Marcas
  <2>7. CpusConSuProceso' /\ Creados' /\ SinPerdidos'
    BY <1>2, <1>3, <2>2 DEF Vivos, CpusConSuProceso, Creados, SinPerdidos, Admitido,
       EnReady, Bloqueado
  <2> QED
    BY <2>6, <2>7 DEF Vivos
<1> QED
  BY <1>4, <1>5
\* A CPU lets go of a process that is ended, or it is disconnected.
LEMMA VivosSuelta ==
  ASSUME IInv, Vivos, NEW c \in CPUs,
         Conserva(kernel, kernel'), NoPierde(kernel, kernel', Nadie),
         corre[c] # 0 => kernel'.estado[corre[c]] = "Exit",
         en_ejecucion' \in {en_ejecucion, en_ejecucion \ {c}},
         proceso' = [proceso EXCEPT ![c] = 0], corre' = [corre EXCEPT ![c] = 0],
         \A d : d # c /\ Contains(lista_cpus, d) => Contains(lista_cpus', d),
         new_queue' = new_queue, pid' = pid, planificador' = planificador, principal' = principal
  PROVE  Vivos'
<1>1. \A d \in CPUs : corre[d] # 0 => corre[d] \in Pids /\ Corriendo(corre[d])
  BY CorreUnProceso
<1>2. \A d \in CPUs : corre[d] # 0 /\ kernel.estado[corre[d]] = "Exit"
                       => kernel'.estado[corre[d]] = "Exit"
  BY <1>1, SigueTerminado
<1>3. CpusConSuProceso'
  BY <1>2, CpusSueltan DEF Vivos
<1>4. ASSUME NEW q \in Pids, Corriendo(q) PROVE Corriendo(q)' \/ kernel'.estado[q] = "Exit"
  <2>1. CASE q = corre[c]
    BY <2>1 DEF Pids
  <2>2. CASE q # corre[c]
    BY <1>4, <2>2, SoloSuProceso
  <2> QED
    BY <2>1, <2>2
<1>5. \A q : EnNew(q)' <=> EnNew(q)
  BY DEF EnNew, EnManos
<1> QED
  BY <1>3, <1>4, <1>5, PasoQueNoPierde

\* The messages of a CPU, and its disconnection, that end what it executes.
LEMMA VivosFinales ==
  ASSUME IInv, Vivos, NEW c \in CPUs,
         \/ DesconectarCpu(c) \/ Finalizado(c) \/ FinErroneo(c) \/ WaitMarcado(c)
         \/ FinDeRafaga(c) /\ proceso_para_borrar(kernel, corre[c])
  PROVE  Vivos'
<1>1. kernel \in Estructuras /\ Orden(kernel) /\ SinMarcasEnCola(kernel)
  BY MarcasEnCola DEF Vivos
<1>2. \A p \in 1 .. pid : p \in Pids /\ kernel.estado[p] # "NoExiste"
  BY CreadosEnPids DEF IInv, Vivos, Creados
<1>3. corre[c] # 0 => corre[c] \in 1 .. pid
  <2>1. corre[c] \in 0 .. pid /\ pid \in Nat
    BY PlanificadorAssumption DEF IInv, TypeOK, Conocidos
  <2> QED
    BY <2>1
<1>4. CASE DesconectarCpu(c)
  <2>1. /\ en_ejecucion' \in {en_ejecucion, en_ejecucion \ {c}}
        /\ proceso' = [proceso EXCEPT ![c] = 0] /\ corre' = [corre EXCEPT ![c] = 0]
        /\ lista_cpus' = RemoveFirst(lista_cpus, c)
        /\ new_queue' = new_queue /\ pid' = pid /\ planificador' = planificador
        /\ principal' = principal
    BY <1>4 DEF DesconectarCpu, hilos
  <2>2. \A d : d # c /\ Contains(lista_cpus, d) => Contains(lista_cpus', d)
    BY <2>1, DelMedio DEF IInv, TypeOK
  <2>3. CASE proceso[c] = 0
    <3>1. kernel' = kernel
      BY <1>4, <2>3 DEF DesconectarCpu
    <3>2. corre[c] # 0 => kernel.estado[corre[c]] = "Exit"
      BY <2>3 DEF Vivos, CpusConSuProceso
    <3> QED
      BY <1>1, <2>1, <2>2, <3>1, <3>2, SinColas, NadaPierde, VivosSuelta
  <2>4. CASE proceso[c] # 0
    <3>1. PICK p : p = proceso[c]
      OBVIOUS
    <3>2. p \in Pids
      BY <2>4, <3>1 DEF IInv, TypeOK, Pids
    <3>3. kernel' = end_process(signal_reciente(kernel, p), p)
      BY <1>4, <2>4, <3>1 DEF DesconectarCpu
    <3>4. Conserva(kernel, kernel') /\ NoPierde(kernel, kernel', Nadie)
      BY <1>1, <3>2, <3>3, MatarConserva, MatarNoPierde
    <3>5. corre[c] # 0 => kernel'.estado[corre[c]] = "Exit"
      <4>1. CASE corre[c] = p /\ corre[c] # 0
        BY <1>1, <1>2, <1>3, <3>2, <3>3, <4>1, MatarNoPierde
      <4>2. CASE corre[c] # p /\ corre[c] # 0
        BY <2>4, <3>1, <4>2 DEF Vivos, CpusConSuProceso
      <4> QED
        BY <4>1, <4>2
    <3> QED
      BY <2>1, <2>2, <3>4, <3>5, VivosSuelta
  <2> QED
    BY <2>3, <2>4
<1>5. CASE ~DesconectarCpu(c)
  <2>1. PICK p : p = corre[c]
    OBVIOUS
  <2>2. p \in 1 .. pid /\ p \in Pids /\ kernel.estado[p] # "NoExiste"
    <3>1. p # 0
      BY <1>5, <2>1 DEF Finalizado, FinErroneo, WaitMarcado, FinDeRafaga, DeCpu
    <3> QED
      BY <1>2, <1>3, <2>1, <3>1
  <2>3. /\ en_ejecucion' = en_ejecucion \ {c}
        /\ proceso' = [proceso EXCEPT ![c] = 0] /\ corre' = [corre EXCEPT ![c] = 0]
        /\ new_queue' = new_queue /\ pid' = pid /\ planificador' = planificador
        /\ principal' = principal /\ lista_cpus' = lista_cpus
    BY <1>5 DEF Finalizado, FinErroneo, WaitMarcado, FinDeRafaga, LiberarCpu, hilos
  <2>4. \/ kernel' = end_process(desmarcar(kernel, p), p)
        \/ kernel' = end_process(kernel, p)
    BY <1>5, <2>1 DEF Finalizado, FinErroneo, WaitMarcado, FinDeRafaga
  <2>5. Conserva(kernel, kernel') /\ NoPierde(kernel, kernel', Nadie)
    BY <1>1, <2>2, <2>4, TerminarConserva, TerminarMarcadoConserva, TerminarNoPierde,
       MatarNoPierde
  <2>6. kernel'.estado[corre[c]] = "Exit"
    BY <1>1, <2>1, <2>2, <2>4, TerminarNoPierde, MatarNoPierde
  <2> QED
    BY <2>3, <2>5, <2>6, VivosSuelta
<1> QED
  BY <1>4, <1>5

\* A process that is not marked is put in a queue by the CPU or the thread that has it.
LEMMA PasoQuePone ==
  ASSUME IInv, Vivos, NEW p \in Pids, kernel.borrar[p] = 0,
         kernel' \in Estructuras, kernel'.borrar = kernel.borrar,
         Esperan(kernel') = Esperan(kernel) \cup {p},
         \A q \in Pids : q # p => kernel'.estado[q] = kernel.estado[q],
         kernel'.estado[p] # "NoExiste",
         pid' = pid,
         \A q \in Pids : q # p => (EnNew(q)' <=> EnNew(q)) /\ (Corriendo(q) => Corriendo(q)'),
         CpusConSuProceso'
  PROVE  Vivos'
<1>1. 1 .. pid \subseteq Pids
  BY CreadosEnPids DEF IInv
<1>2. Marcas'
  <2> SUFFICES ASSUME NEW q \in Pids, kernel'.borrar[q] > 0
               PROVE  q \notin Esperan(kernel') /\ ~EnNew(q)' /\ q <= pid'
    BY DEF Marcas
  <2>1. q # p
    OBVIOUS
  <2> QED
    BY <2>1 DEF Vivos, Marcas
<1>3. Creados'
  BY <1>1 DEF Vivos, Creados
<1>4. SinPerdidos'
  <2> SUFFICES ASSUME NEW q \in 1 .. pid, kernel'.estado[q] # "Exit"
               PROVE  Admitido(q)' \/ EnNew(q)'
    BY DEF SinPerdidos
  <2>1. q \in Pids
    BY <1>1
  <2>2. CASE q = p
    BY <2>1, <2>2, EsperarEsAdmitidoDespues
  <2>3. CASE q # p
    <3>1. Admitido(q) \/ EnNew(q)
      BY <2>1, <2>3 DEF Vivos, SinPerdidos
    <3>2. q \in Esperan(kernel) => q \in Esperan(kernel')
      OBVIOUS
    <3> QED
      BY <2>1, <2>3, <3>1, <3>2, EsperarEsAdmitido, EsperarEsAdmitidoDespues
  <2> QED
    BY <2>2, <2>3
<1> QED
  BY <1>2, <1>3, <1>4 DEF Vivos
\* FIN_DE_RAFAGA and the WAIT that blocks, of a process that is not marked.
LEMMA VivosAColas ==
  ASSUME IInv, IInv', Vivos, NEW c \in CPUs, NEW s,
         \/ FinDeRafaga(c) /\ ~proceso_para_borrar(kernel, corre[c])
         \/ s \in Semaforos /\ WaitBloquea(c, s)
  PROVE  Vivos'
<1>1. kernel \in Estructuras /\ kernel' \in Estructuras
  BY DEF IInv, TypeOK
<1>2. PICK p : p = corre[c]
  OBVIOUS
<1>3. p \in Pids /\ Corriendo(p)
  BY <1>2 DEF FinDeRafaga, WaitBloquea, DeCpu, IInv, TypeOK, Pids, Corriendo
<1>4. kernel.borrar[p] = 0
  <2>1. ~(kernel.borrar[p] > 0)
    BY <1>2 DEF WaitBloquea, proceso_para_borrar
  <2> QED
    BY <1>1, <1>3, <2>1 DEF Estructuras
<1>5. /\ en_ejecucion' = en_ejecucion \ {c}
      /\ proceso' = [proceso EXCEPT ![c] = 0] /\ corre' = [corre EXCEPT ![c] = 0]
      /\ new_queue' = new_queue /\ pid' = pid /\ planificador' = planificador
      /\ principal' = principal /\ lista_cpus' = lista_cpus
  BY DEF FinDeRafaga, WaitBloquea, LiberarCpu, hilos
<1>6. /\ kernel'.borrar = kernel.borrar
      /\ \E e \in {"Ready", "Block"} : kernel'.estado = [kernel.estado EXCEPT ![p] = e]
      /\ \/ kernel'.ready = Append(kernel.ready, p) /\ kernel'.cola = kernel.cola
         \/ /\ s \in Semaforos /\ kernel'.ready = kernel.ready
            /\ \A r \in Semaforos :
                 kernel'.cola[r] = IF r = s THEN Append(kernel.cola[s], p) ELSE kernel.cola[r]
  <2>1. CASE FinDeRafaga(c) /\ ~proceso_para_borrar(kernel, corre[c])
    <3>1. kernel' = [kernel EXCEPT !.estado[p] = "Ready", !.ready = Append(@, p)]
      BY <1>2, <2>1 DEF FinDeRafaga
    <3> QED
      BY <1>1, <3>1 DEF Estructuras
  <2>2. CASE s \in Semaforos /\ WaitBloquea(c, s)
    <3>1. kernel' = [kernel EXCEPT !.valor[s] = @ - 1, !.estado[p] = "Block",
                                   !.cola[s] = Append(@, p)]
      BY <1>2, <2>2 DEF WaitBloquea
    <3> QED
      BY <1>1, <2>2, <3>1 DEF Estructuras
  <2> QED
    BY <2>1, <2>2
<1>7. Esperan(kernel') = Esperan(kernel) \cup {p}
  <2>1. \A q \in Seq(Pids) : \A x : Contains(Append(q, p), x) <=> Contains(q, x) \/ x = p
    BY <1>3, AlFinalExacto
  <2>2. CASE kernel'.ready = Append(kernel.ready, p) /\ kernel'.cola = kernel.cola
    <3>1. kernel.ready \in Seq(Pids)
      BY <1>1 DEF Estructuras
    <3> QED
      BY <1>3, <2>1, <2>2, <3>1 DEF Esperan
  <2>3. CASE /\ s \in Semaforos /\ kernel'.ready = kernel.ready
             /\ \A r \in Semaforos :
                  kernel'.cola[r] = IF r = s THEN Append(kernel.cola[s], p) ELSE kernel.cola[r]
    <3>1. kernel.cola[s] \in Seq(Pids)
      BY <1>1, <2>3 DEF Estructuras
    <3> QED
      BY <1>3, <2>1, <2>3, <3>1 DEF Esperan
  <2> QED
    BY <1>6, <2>2, <2>3
<1>8. /\ \A q \in Pids : q # p => kernel'.estado[q] = kernel.estado[q]
      /\ kernel'.estado[p] # "NoExiste"
  BY <1>1, <1>3, <1>6 DEF Estructuras
<1>9. \A q \in Pids : q # p => (EnNew(q)' <=> EnNew(q)) /\ (Corriendo(q) => Corriendo(q)')
  BY <1>2, <1>5, SoloSuProceso DEF EnNew, EnManos
<1>10. CpusConSuProceso'
  <2>1. ASSUME NEW d \in CPUs, d # c, corre[d] # 0 PROVE corre[d] \in Pids /\ corre[d] # p
    BY <1>2, <2>1, CorreUnProceso DEF IInv, Ubicados
  <2>2. \A d \in CPUs : d # c /\ corre[d] # 0 /\ kernel.estado[corre[d]] = "Exit"
                         => kernel'.estado[corre[d]] = "Exit"
    BY <1>8, <2>1
  <2> QED
    BY <1>5, <2>2, CpusSueltan DEF Vivos
<1> QED
  BY <1>1, <1>3, <1>4, <1>5, <1>6, <1>7, <1>8, <1>9, <1>10, PasoQuePone

\* guardado_en_memoria: the process goes to ready, or memory refuses it.
LEMMA VivosGuardar ==
  ASSUME IInv, IInv', Vivos, GuardarDeNew \/ GuardarPrograma
  PROVE  Vivos'
<1>1. kernel \in Estructuras /\ kernel' \in Estructuras
  BY DEF IInv, TypeOK
<1>2. PICK p : /\ \/ TienePlanificacion(p) /\ principal' = principal
                  \/ TieneMain(p) /\ planificador' = planificador
               /\ \E hay \in BOOLEAN : kernel' = guardado_en_memoria(kernel, p, hay)
  <2>1. Respuestas \subseteq BOOLEAN
    BY DEF Respuestas
  <2>2. CASE GuardarDeNew
    BY <2>1, <2>2 DEF GuardarDeNew, TienePlanificacion
  <2>3. CASE GuardarPrograma
    BY <2>1, <2>3 DEF GuardarPrograma, TieneMain
  <2> QED
    BY <2>2, <2>3
<1>3. /\ new_queue' = new_queue /\ pid' = pid /\ UNCHANGED <<lista_cpus, en_ejecucion, proceso, corre>>
      /\ \/ planificador' = planificador \/ planificador'.en = "despachar"
      /\ \/ principal' = principal \/ principal'.en = "select"
  BY DEF GuardarDeNew, GuardarPrograma, Planifica, Principal, cpus
<1>4. p \in Pids /\ EnNew(p)
  <2>1. p \in 1 .. pid
    BY <1>2 DEF IInv, Conocidos, TienePlanificacion, TieneMain
  <2>2. EnNew(p)
    BY <1>2 DEF EnNew, EnManos, TienePlanificacion, TieneMain
  <2> QED
    BY <2>1, <2>2, CreadosEnPids DEF IInv
<1>5. kernel.borrar[p] = 0
  <2>1. kernel.borrar[p] \in Nat /\ ~(kernel.borrar[p] > 0)
    BY <1>1, <1>4 DEF Estructuras, Vivos, Marcas
  <2> QED
    BY <2>1
<1>6. \A q \in Pids : EnNew(q)' => EnNew(q)
  BY <1>3 DEF EnNew, EnManos
<1>7. \A q \in Pids : q # p => (EnNew(q)' <=> EnNew(q))
  BY <1>2, <1>3, <1>6, NewSuelta
<1>8. \A q : Corriendo(q)' <=> Corriendo(q)
  BY <1>3 DEF Corriendo
<1>9. \A d \in CPUs : corre[d] # p
  BY <1>4 DEF IInv, Ubicados, Corriendo
<1>10. ASSUME \A q \in Pids : q # p => kernel'.estado[q] = kernel.estado[q]
       PROVE  CpusConSuProceso'
  <2>1. \A d \in CPUs : corre[d] # 0 => kernel'.estado[corre[d]] = kernel.estado[corre[d]]
    BY <1>9, <1>10, CorreUnProceso
  <2> QED
    BY <1>3, <2>1 DEF Vivos, CpusConSuProceso
<1>11. CASE kernel' = guardado_en_memoria(kernel, p, TRUE)
  <2>1. kernel' = [kernel EXCEPT !.estado[p] = "Ready", !.ready = Append(@, p), !.actuales = @ + 1]
    BY <1>11 DEF guardado_en_memoria
  <2>2. /\ kernel'.ready = Append(kernel.ready, p) /\ kernel'.cola = kernel.cola
        /\ kernel'.borrar = kernel.borrar
        /\ kernel'.estado = [kernel.estado EXCEPT ![p] = "Ready"]
    BY <1>1, <2>1 DEF Estructuras
  <2>3. \A x : Contains(kernel'.ready, x) <=> Contains(kernel.ready, x) \/ x = p
    BY <1>1, <1>4, <2>2, AlFinalExacto DEF Estructuras
  <2>4. Esperan(kernel') = Esperan(kernel) \cup {p}
    BY <1>4, <2>2, <2>3 DEF Esperan
  <2>5. /\ \A q \in Pids : q # p => kernel'.estado[q] = kernel.estado[q]
        /\ kernel'.estado[p] # "NoExiste"
    BY <1>1, <1>4, <2>2 DEF Estructuras
  <2> QED
    BY <1>1, <1>3, <1>4, <1>5, <1>7, <1>8, <1>10, <2>2, <2>4, <2>5, PasoQuePone
<1>12. CASE kernel' = guardado_en_memoria(kernel, p, FALSE)
  <2>1. kernel' = [kernel EXCEPT !.estado[p] = "Exit"]
    BY <1>12 DEF guardado_en_memoria
  <2>2. /\ kernel'.ready = kernel.ready /\ kernel'.cola = kernel.cola
        /\ kernel'.borrar = kernel.borrar
        /\ kernel'.estado = [kernel.estado EXCEPT ![p] = "Exit"]
    BY <1>1, <2>1 DEF Estructuras
  <2>3. /\ \A q \in Pids : q # p => kernel'.estado[q] = kernel.estado[q]
        /\ kernel'.estado[p] = "Exit"
    BY <1>1, <1>4, <2>2 DEF Estructuras
  <2>4. Esperan(kernel') = Esperan(kernel)
    BY <2>2 DEF Esperan
  <2>5. \A q \in Pids : kernel'.borrar[q] <= kernel.borrar[q]
    BY <1>1, <2>2 DEF Estructuras
  <2>6. NoPierde(kernel, kernel', Nadie)
    BY <2>3, <2>4, <2>5 DEF NoPierde
  <2>7. Conserva(kernel, kernel')
    BY <1>1, <2>2, SinColas
  <2>8. \A q \in Pids : EnNew(q) => EnNew(q)' \/ kernel'.estado[q] = "Exit"
    BY <1>7, <2>3
  <2> QED
    BY <1>3, <1>6, <1>8, <1>10, <2>3, <2>6, <2>7, <2>8, PasoQueNoPierde
<1> QED
  BY <1>2, <1>11, <1>12
\* From ready to a CPU.
LEMMA VivosDespachar ==
  ASSUME IInv, Vivos, Despachar
  PROVE  Vivos'
<1>1. kernel \in Estructuras
  BY DEF IInv, TypeOK
<1>2. /\ new_queue' = new_queue /\ pid' = pid /\ principal' = principal
      /\ lista_cpus' = lista_cpus
      /\ planificador.en = "despachar" /\ planificador'.en = "mirar"
  BY DEF Despachar, Planifica
<1>3. \A q : EnNew(q)' <=> EnNew(q)
  BY <1>2 DEF EnNew, EnManos
<1>4. CASE ~(kernel.ready # <<>> /\ CpusLibres # {})
  <2>1. UNCHANGED <<kernel, en_ejecucion, proceso, corre>>
    BY <1>4 DEF Despachar
  <2> QED
    BY <1>2, <1>3, <2>1 DEF Vivos, Marcas, CpusConSuProceso, Creados, SinPerdidos, Admitido,
       EnReady, Bloqueado, Corriendo
<1>5. CASE kernel.ready # <<>> /\ CpusLibres # {}
  <2>1. PICK p, c : p = Head(kernel.ready) /\ c = buscar_cpu_libre
    OBVIOUS
  <2>2. kernel.ready \in Seq(Pids) /\ SinRepetidos(kernel.ready)
    BY <1>1 DEF Estructuras, IInv, Ubicados, Orden
  <2>3. /\ p \in Pids /\ p # 0 /\ Contains(kernel.ready, p)
        /\ \A x : Contains(Tail(kernel.ready), x) <=> Contains(kernel.ready, x) /\ x # p
    <3>1. p \in Pids
      BY <1>5, <2>1, <2>2, DelPrincipio
    <3> QED
      BY <1>5, <2>1, <2>2, <3>1, DelPrincipio, DelPrincipioExacto DEF Pids
  <2>4. c \in CPUs /\ c \notin en_ejecucion /\ Contains(lista_cpus, c)
    BY <1>5, <2>1, CpuLibre DEF IInv
  <2>5. /\ en_ejecucion' = en_ejecucion \cup {c}
        /\ proceso' = [proceso EXCEPT ![c] = p] /\ corre' = [corre EXCEPT ![c] = p]
        /\ kernel' = [kernel EXCEPT !.ready = Tail(@),
                                    !.estado[p] = IF p \in copia THEN @ ELSE "Exec"]
    BY <1>5, <2>1 DEF Despachar
  <2>6. /\ kernel'.ready = Tail(kernel.ready) /\ kernel'.cola = kernel.cola
        /\ kernel'.borrar = kernel.borrar
        /\ kernel'.estado \in {kernel.estado, [kernel.estado EXCEPT ![p] = "Exec"]}
    <3>1. CASE p \in copia
      BY <1>1, <2>3, <2>5, <3>1 DEF Estructuras
    <3>2. CASE p \notin copia
      BY <1>1, <2>3, <2>5, <3>2 DEF Estructuras
    <3> QED
      BY <3>1, <3>2
  <2>7. Esperan(kernel') \subseteq Esperan(kernel) /\ Esperan(kernel) \subseteq Esperan(kernel') \cup {p}
    BY <2>3, <2>6 DEF Esperan
  <2>8. \A d \in CPUs : /\ proceso'[d] = IF d = c THEN p ELSE proceso[d]
                        /\ corre'[d] = IF d = c THEN p ELSE corre[d]
    BY <2>5 DEF IInv, TypeOK
  <2>9. /\ \A q \in Pids : q # p => kernel'.estado[q] = kernel.estado[q]
        /\ kernel'.estado[p] # "NoExiste" \/ kernel'.estado[p] = kernel.estado[p]
    BY <1>1, <2>3, <2>6 DEF Estructuras
  <2>10. corre[c] = 0 /\ \A d \in CPUs : corre[d] # p
    <3>1. corre[c] = 0
      BY <2>4 DEF Vivos, CpusConSuProceso
    <3>2. ~Corriendo(p)
      BY <2>3 DEF IInv, Ubicados, Esperan
    <3> QED
      BY <3>1, <3>2 DEF Corriendo
  <2>11. CpusConSuProceso'
    <3>1. \A d \in CPUs : corre[d] # 0 => kernel'.estado[corre[d]] = kernel.estado[corre[d]]
      BY <2>9, <2>10, CorreUnProceso
    <3> QED
      BY <1>2, <2>4, <2>5, <2>8, <3>1 DEF Vivos, CpusConSuProceso
  <2>12. /\ Corriendo(p)'
         /\ \A q \in Pids : Corriendo(q) => Corriendo(q)'
    BY <2>3, <2>4, <2>8, <2>10 DEF Corriendo, Pids
  <2>13. 1 .. pid \subseteq Pids
    BY CreadosEnPids DEF IInv
  <2>14. Creados'
    BY <1>2, <2>9, <2>13 DEF Vivos, Creados
  <2>15. Marcas'
    BY <1>2, <1>3, <2>6, <2>7 DEF Vivos, Marcas
  <2>16. SinPerdidos'
    <3> SUFFICES ASSUME NEW q \in 1 .. pid, kernel'.estado[q] # "Exit"
                 PROVE  Admitido(q)' \/ EnNew(q)'
      BY <1>2 DEF SinPerdidos
    <3>1. q \in Pids
      BY <2>13
    <3>2. CASE q = p
      BY <2>3, <2>12, <3>2, EsperarEsAdmitidoDespues
    <3>3. CASE q # p
      <4>1. Admitido(q) \/ EnNew(q)
        BY <2>9, <3>1, <3>3 DEF Vivos, SinPerdidos
      <4> QED
        BY <1>3, <2>7, <2>12, <3>1, <3>3, <4>1, EsperarEsAdmitido, EsperarEsAdmitidoDespues
    <3> QED
      BY <3>2, <3>3
  <2> QED
    BY <2>11, <2>14, <2>15, <2>16 DEF Vivos
<1> QED
  BY <1>4, <1>5

\* A program arrives: its process is in the hands of main.
LEMMA VivosNuevo ==
  ASSUME IInv, Vivos, NuevoPrograma
  PROVE  Vivos'
<1>1. PICK p : p = pid + 1
  OBVIOUS
<1>2. /\ pid' = p /\ p \in Pids /\ p # 0 /\ p \notin 1 .. pid
      /\ \A q \in 1 .. p : q = p \/ q \in 1 .. pid
      /\ \A q \in Pids : q <= pid => q <= p
  BY <1>1, PlanificadorAssumption, SMTT(30) DEF IInv, TypeOK, NuevoPrograma, Pids
<1>3. /\ new_queue' = new_queue /\ planificador' = planificador
      /\ UNCHANGED <<lista_cpus, en_ejecucion, proceso, corre>>
      /\ principal.en = "select"
      /\ principal'.en \in {"guardar", "encolar"} /\ principal'.pid = p
  BY <1>1 DEF NuevoPrograma, Principal, EnSelect, cpus
<1>4. /\ kernel'.ready = kernel.ready /\ kernel'.cola = kernel.cola
      /\ kernel'.borrar = kernel.borrar
      /\ kernel'.estado = [kernel.estado EXCEPT ![p] = "Nuevo"]
  BY <1>1 DEF NuevoPrograma, IInv, TypeOK, Estructuras
<1>5. /\ \A q \in Pids : q # p => kernel'.estado[q] = kernel.estado[q]
      /\ kernel'.estado[p] = "Nuevo"
  BY <1>2, <1>4 DEF IInv, TypeOK, Estructuras
<1>6. /\ EnNew(p)'
      /\ \A q \in Pids : q # p => (EnNew(q)' <=> EnNew(q))
      /\ \A q : Corriendo(q)' <=> Corriendo(q)
  BY <1>3 DEF EnNew, EnManos, Corriendo
<1>7. Esperan(kernel') = Esperan(kernel)
  BY <1>4 DEF Esperan
<1>8. 1 .. pid \subseteq Pids
  BY CreadosEnPids DEF IInv
<1>9. kernel.borrar[p] = 0
  <2>1. ~(p <= pid)
    BY <1>1 DEF IInv, TypeOK
  <2>2. kernel.borrar[p] \in Nat /\ ~(kernel.borrar[p] > 0)
    BY <1>2, <2>1 DEF Vivos, Marcas, IInv, TypeOK, Estructuras
  <2> QED
    BY <2>2
<1>10. Marcas'
  <2> SUFFICES ASSUME NEW q \in Pids, kernel'.borrar[q] > 0
               PROVE  q \notin Esperan(kernel') /\ ~EnNew(q)' /\ q <= pid'
    BY DEF Marcas
  <2>1. q # p
    BY <1>4, <1>9
  <2> QED
    BY <1>2, <1>4, <1>6, <1>7, <2>1 DEF Vivos, Marcas
<1>11. CpusConSuProceso'
  <2>1. ASSUME NEW d \in CPUs, corre[d] # 0 PROVE corre[d] \in Pids /\ corre[d] # p
    <3>1. corre[d] \in 0 .. pid /\ pid \in Nat
      BY PlanificadorAssumption DEF IInv, TypeOK, Conocidos
    <3>2. corre[d] # p
      BY <1>1, <3>1
    <3> QED
      BY <2>1, <3>2, CorreUnProceso
  <2> QED
    BY <1>3, <1>5, <2>1 DEF Vivos, CpusConSuProceso
<1>12. Creados'
  BY <1>2, <1>5, <1>8 DEF Vivos, Creados
<1>13. SinPerdidos'
  <2> SUFFICES ASSUME NEW q \in 1 .. p, kernel'.estado[q] # "Exit"
               PROVE  Admitido(q)' \/ EnNew(q)'
    BY <1>2 DEF SinPerdidos
  <2>1. CASE q = p
    BY <1>6, <2>1
  <2>2. CASE q # p
    <3>1. q \in 1 .. pid /\ q \in Pids
      BY <1>2, <1>8, <2>2
    <3>2. Admitido(q) \/ EnNew(q)
      BY <1>5, <2>2, <3>1 DEF Vivos, SinPerdidos
    <3> QED
      BY <1>6, <1>7, <2>2, <3>1, <3>2, EsperarEsAdmitido, EsperarEsAdmitidoDespues
  <2> QED
    BY <2>1, <2>2
<1> QED
  BY <1>10, <1>11, <1>12, <1>13 DEF Vivos

\* Any step but a WAIT or SIGNAL of a semaphore that does not exist.
LEMMA PasoVivos ==
  ASSUME IInv, IInv', Vivos, ~Permite("inexistente"), [Next]_vars
  PROVE  Vivos'
<1>1. ASSUME NEW c \in CPUs, FinDeTurno(c) PROVE Vivos'
  BY <1>1, VivosFinales, VivosAColas DEF FinDeTurno, Inexistente
<1>2. ASSUME NEW c \in CPUs, DuranteElTurno(c) PROVE Vivos'
  BY <1>2, VivosQuietos, VivosBajas DEF DuranteElTurno
<1> QED
  BY <1>1, <1>2, VivosQuietos, VivosBajas, VivosMarcar, VivosFinales, VivosGuardar, VivosDespachar,
     VivosNuevo
  DEF Next, PasoPlanificacion, SeguirPrincipal

\* There is no process at first.
LEMMA InicioVivos == Init => Vivos
<1> SUFFICES ASSUME Init PROVE Vivos
  OBVIOUS
<1>1. kernel.borrar = [p \in Pids |-> 0] /\ pid = 0
      /\ en_ejecucion = {} /\ corre = [c \in CPUs |-> 0]
  BY DEF Init
<1> QED
  BY <1>1 DEF Vivos, Marcas, CpusConSuProceso, Creados, SinPerdidos

\* Whoever is ended, and at whatever point of the handlers and of its life, no process
\* that has not finished is dropped: it is in a queue, on a CPU, or in the hands of
\* the thread that admits it.  The only way to drop one is to name a semaphore that
\* does not exist, for which the Kernel ends another process.
THEOREM NadieSePierde ==
  ASSUME ~Permite("inexistente")
  PROVE  Spec => []SinPerdidos
<1> DEFINE I == IInv /\ Vivos
<1>1. Init => I
  BY InicioUbicado, InicioVivos
<1>2. I /\ [Next]_vars => I'
  BY PasoUbicado, PasoVivos
<1>3. I => SinPerdidos
  BY DEF Vivos
<1> QED
  BY <1>1, <1>2, <1>3, PTL DEF Spec

-----------------------------------------------------------------------------
(* Nobody is ended from outside *)

SinBajas == Ordenes \subseteq {"rechazo", "error", "plan", "grado"}

\* Then no process is marked, and main is never about to end one; and what the
\* books rest on: the CPU that executes is connected, in use and with its process,
\* and a process that is somewhere has not finished.
Tranquilo ==
  /\ \A p \in Pids : kernel.borrar[p] = 0
  /\ principal.en \in {"select", "guardar", "encolar"}
  /\ CpuAcorde
  /\ \A c \in CPUs : corre[c] # 0 => Contains(lista_cpus, c)
  /\ \A p \in Pids : Admitido(p) => kernel.estado[p] \notin {"NoExiste", "Exit"}

\* A process is in the place where its PCB is.
EnSuLugar(p) ==
  /\ EnNew(p) => LugarDe(p) = "New"
  /\ EnReady(p) => LugarDe(p) = "Ready"
  /\ Corriendo(p) => LugarDe(p) = "Exec"
  /\ Bloqueado(p) => LugarDe(p) = "Block"
  /\ ~EnNew(p) /\ ~Admitido(p) /\ p <= pid => LugarDe(p) = "Exit"
  /\ p > pid => LugarDe(p) = "NoExiste"
  /\ Admitido(p) <=> LugarDe(p) \in {"Ready", "Exec", "Block"}

\* It has one place, as places exclude each other,
LEMMA LugarUnico == IInv => \A p \in Pids : EnSuLugar(p)
<1> SUFFICES ASSUME IInv, NEW p \in Pids PROVE EnSuLugar(p)
  OBVIOUS
<1>1. EnReady(p) \/ Bloqueado(p) <=> p \in Esperan(kernel)
  BY DEF EnReady, Bloqueado, Esperan
<1>2. EnReady(p) => ~Bloqueado(p)
  BY DEF IInv, Ubicados, Orden, EnReady, Bloqueado
<1>3. /\ p \in Esperan(kernel) => ~Corriendo(p) /\ ~EnNew(p)
      /\ Corriendo(p) => ~EnNew(p)
  BY DEF IInv, Ubicados
<1>4. p \in Nat /\ pid \in Nat /\ p # 0
  BY PlanificadorAssumption DEF IInv, TypeOK, Pids
<1>5. p > pid => ~EnNew(p) /\ ~Corriendo(p) /\ p \notin Esperan(kernel)
  <2>1. p > pid => p \notin 1 .. pid /\ p \notin 0 .. pid /\ ~(p <= pid)
    BY <1>4
  <2> QED
    BY <2>1 DEF IInv, Conocidos, EnNew, EnManos, Corriendo
<1>6. p <= pid <=> ~(p > pid)
  BY <1>4
<1> QED
  BY <1>1, <1>2, <1>3, <1>5, <1>6 DEF LugarDe, Admitido, EnSuLugar

\* and has one after each step.
LEMMA LugarUnicoDespues == IInv' => \A p \in Pids : EnSuLugar(p)'
<1>1. IInv' => (\A p \in Pids : EnSuLugar(p))'
  BY LugarUnico, PTL
<1> QED
  BY <1>1

Quieto(q) ==
  /\ EnNew(q)' <=> EnNew(q)
  /\ EnReady(q)' <=> EnReady(q)
  /\ Corriendo(q)' <=> Corriendo(q)
  /\ Bloqueado(q)' <=> Bloqueado(q)

\* A process that no queue, CPU or thread takes or lets go of stays where it is.
LEMMA LugarQuieto ==
  ASSUME NEW q, Quieto(q), q > pid' <=> q > pid
  PROVE  LugarDe(q)' = LugarDe(q)
BY DEF Quieto, LugarDe

\* A step that moves nobody.
Quietud == \A q \in Pids : LugarDe(q)' = LugarDe(q)

\* A step that moves p, and only p.
Lleva(p, de, a) ==
  /\ LugarDe(p) = de /\ LugarDe(p)' = a
  /\ \A q \in Pids \ {p} : LugarDe(q)' = LugarDe(q)

\* Only what a step touches can move.
LEMMA QuietoSiIguales ==
  ASSUME NEW q,
         EnNew(q)' <=> EnNew(q),
         kernel'.ready = kernel.ready, kernel'.cola = kernel.cola, corre' = corre
  PROVE  Quieto(q)
BY DEF Quieto, EnReady, Bloqueado, Corriendo

\* The steps of the three threads that move no process.
LEMMA PasosQuietos ==
  ASSUME IInv,
         \/ MirarPlan \/ Esperar \/ Admitir \/ RechazarPrograma \/ EncolarPrograma
         \/ \E c \in CPUs : ConectarCpu(c) \/ \E s \in Semaforos : WaitPasa(c, s)
         \/ AlternarPlan \/ CambiarGrado \/ \E g \in Grados : set_multiprog(g)
         \/ UNCHANGED vars
  PROVE  Quietud /\ kernel'.ready = kernel.ready /\ kernel'.cola = kernel.cola
<1>1. pid' = pid /\ corre' = corre
  BY DEF MirarPlan, Esperar, Admitir, RechazarPrograma, EncolarPrograma, ConectarCpu,
         WaitPasa, AlternarPlan, CambiarGrado, set_multiprog, vars, cpus
<1>2. kernel'.ready = kernel.ready /\ kernel'.cola = kernel.cola
  <2>1. kernel' = kernel \/ \E s \in Semaforos : kernel' = [kernel EXCEPT !.valor[s] = @ - 1]
    BY DEF MirarPlan, Esperar, Admitir, RechazarPrograma, EncolarPrograma, ConectarCpu,
           WaitPasa, AlternarPlan, CambiarGrado, set_multiprog, vars
  <2> QED
    BY <2>1 DEF IInv, TypeOK, Estructuras
<1>3. \A q \in Pids : EnNew(q)' <=> EnNew(q)
  BY NewQuieto
<1> QED
  BY <1>1, <1>2, <1>3, QuietoSiIguales, LugarQuieto DEF Quietud

\* create_PCB: a process that did not exist is New.
LEMMA MovNuevo ==
  ASSUME IInv, IInv', NuevoPrograma, NEW p, p = pid + 1
  PROVE  /\ p \in Pids /\ Lleva(p, "NoExiste", "New")
         /\ kernel'.cola = kernel.cola
<1>1. /\ p \in Pids /\ p > pid /\ pid' = p
      /\ \A q \in Pids : q # p => (q > p <=> q > pid)
  BY SMTT(20), PlanificadorAssumption DEF IInv, TypeOK, NuevoPrograma, Pids
<1>2. /\ new_queue' = new_queue /\ planificador' = planificador /\ corre' = corre
      /\ principal.en = "select" /\ principal'.en \in {"guardar", "encolar"}
      /\ principal'.pid = p
  BY DEF NuevoPrograma, Principal, EnSelect, cpus
<1>3. kernel'.ready = kernel.ready /\ kernel'.cola = kernel.cola
  BY DEF NuevoPrograma, IInv, TypeOK, Estructuras
<1>4. EnNew(p)'
  BY <1>2 DEF EnNew, EnManos
<1>5. ASSUME NEW q \in Pids, q # p PROVE LugarDe(q)' = LugarDe(q)
  <2>1. EnNew(q)' <=> EnNew(q)
    BY <1>2, <1>5 DEF EnNew, EnManos
  <2> QED
    BY <1>1, <1>2, <1>3, <1>5, <2>1, QuietoSiIguales, LugarQuieto
<1>6. LugarDe(p) = "NoExiste" /\ LugarDe(p)' = "New"
  BY <1>1, <1>4, LugarUnico, LugarUnicoDespues DEF EnSuLugar
<1> QED
  BY <1>1, <1>3, <1>5, <1>6 DEF Lleva

\* guardado_en_memoria takes a process from the hands of a thread to ready, or it
\* is over before it begins.
LEMMA MovGuardar ==
  ASSUME IInv, IInv', NEW p \in Pids, EnManos(p), NEW hay \in BOOLEAN,
         kernel' = guardado_en_memoria(kernel, p, hay),
         UNCHANGED <<new_queue, pid, corre>>,
         \A q \in Pids : EnManos(q)' <=> EnManos(q) /\ q # p
  PROVE  /\ Lleva(p, "New", IF hay THEN "Ready" ELSE "Exit")
         /\ kernel'.cola = kernel.cola
<1>1. kernel \in Estructuras /\ kernel.ready \in Seq(Pids)
  BY DEF IInv, TypeOK, Estructuras
<1>2. EnNew(p) /\ ~Contains(new_queue, p) /\ p \notin Esperan(kernel) /\ ~Corriendo(p)
  BY DEF EnNew, IInv, Ubicados
<1>3. kernel'.ready = (IF hay THEN Append(kernel.ready, p) ELSE kernel.ready)
      /\ kernel'.cola = kernel.cola
  BY <1>1 DEF guardado_en_memoria, Estructuras
<1>4. \A x : Contains(kernel'.ready, x) <=> Contains(kernel.ready, x) \/ (hay /\ x = p)
  BY <1>1, <1>3, AlFinalExacto
<1>5. ASSUME NEW q \in Pids, q # p PROVE LugarDe(q)' = LugarDe(q)
  BY <1>3, <1>4, <1>5, LugarQuieto DEF Quieto, EnNew, EnReady, Corriendo, Bloqueado
<1>6. ~EnNew(p)' /\ ~Corriendo(p)' /\ ~Bloqueado(p)' /\ (EnReady(p)' <=> hay)
  BY <1>2, <1>3, <1>4 DEF EnNew, EnReady, Corriendo, Bloqueado, Esperan
<1>7. p <= pid'
  <2>1. p \in 1 .. pid
    BY DEF IInv, Conocidos, EnManos
  <2> QED
    BY <2>1 DEF IInv, TypeOK
<1>8. LugarDe(p) = "New" /\ LugarDe(p)' = IF hay THEN "Ready" ELSE "Exit"
  BY <1>2, <1>6, <1>7, LugarUnico, LugarUnicoDespues DEF Admitido, EnSuLugar
<1> QED
  BY <1>3, <1>5, <1>8 DEF Lleva

\* What a thread has in its hands when it is done with its process: the other's.
LEMMA ManosDeGuardar ==
  ASSUME IInv, GuardarDeNew \/ GuardarPrograma
  PROVE  \E p \in Pids : \E hay \in Respuestas :
           /\ p = (IF GuardarDeNew THEN planificador.pid ELSE principal.pid)
           /\ EnManos(p)
           /\ kernel' = guardado_en_memoria(kernel, p, hay)
           /\ UNCHANGED <<new_queue, pid, corre>>
           /\ \A q \in Pids : EnManos(q)' <=> EnManos(q) /\ q # p
<1>1. CASE GuardarDeNew
  <2>1. PICK hay \in Respuestas : kernel' = guardado_en_memoria(kernel, planificador.pid, hay)
    BY <1>1 DEF GuardarDeNew
  <2>2. /\ planificador.en = "guardar" /\ planificador'.en = "despachar"
        /\ UNCHANGED <<new_queue, pid, corre, principal>>
    BY <1>1 DEF GuardarDeNew, Planifica, cpus
  <2>3. planificador.pid \in Pids
    BY <2>2, CreadosEnPids DEF IInv, Conocidos
  <2>4. ~TieneMain(planificador.pid)
    BY <2>2, <2>3 DEF IInv, Ubicados, TienePlanificacion
  <2>5. \A q \in Pids : EnManos(q)' <=> EnManos(q) /\ q # planificador.pid
    BY <2>2, <2>4 DEF EnManos, TieneMain
  <2> QED
    BY <1>1, <2>1, <2>2, <2>3, <2>5 DEF EnManos
<1>2. CASE ~GuardarDeNew /\ GuardarPrograma
  <2>1. PICK hay \in Respuestas : kernel' = guardado_en_memoria(kernel, principal.pid, hay)
    BY <1>2 DEF GuardarPrograma
  <2>2. /\ principal.en = "guardar" /\ principal'.en = "select"
        /\ UNCHANGED <<new_queue, pid, corre, planificador>>
    BY <1>2 DEF GuardarPrograma, Principal, cpus
  <2>3. principal.pid \in Pids
    BY <2>2, CreadosEnPids DEF IInv, Conocidos
  <2>4. ~TienePlanificacion(principal.pid)
    BY <2>2, <2>3 DEF IInv, Ubicados, TieneMain
  <2>5. \A q \in Pids : EnManos(q)' <=> EnManos(q) /\ q # principal.pid
    BY <2>2, <2>4 DEF EnManos, TienePlanificacion
  <2> QED
    BY <1>2, <2>1, <2>2, <2>3, <2>5 DEF EnManos
<1> QED
  BY <1>1, <1>2

\* The planner takes the first ready process to a CPU that executes nothing.
LEMMA MovDespachar ==
  ASSUME IInv, IInv', CpuAcorde, Despachar, kernel.ready # <<>> /\ CpusLibres # {},
         NEW p, p = Head(kernel.ready), NEW c, c = buscar_cpu_libre
  PROVE  /\ p \in Pids /\ Lleva(p, "Ready", "Exec") /\ kernel'.cola = kernel.cola
         /\ c \in CPUs /\ Contains(lista_cpus, c) /\ c \notin en_ejecucion /\ corre[c] = 0
         /\ corre' = [corre EXCEPT ![c] = p] /\ proceso' = [proceso EXCEPT ![c] = p]
         /\ en_ejecucion' = en_ejecucion \cup {c}
         /\ kernel' = [kernel EXCEPT !.ready = Tail(@),
                         !.estado[p] = IF p \in copia THEN @ ELSE "Exec"]
<1>1. kernel \in Estructuras /\ kernel.ready \in Seq(Pids) /\ SinRepetidos(kernel.ready)
  BY DEF IInv, TypeOK, Ubicados, Orden, Estructuras
<1>2. /\ corre' = [corre EXCEPT ![c] = p] /\ proceso' = [proceso EXCEPT ![c] = p]
      /\ en_ejecucion' = en_ejecucion \cup {c}
      /\ kernel' = [kernel EXCEPT !.ready = Tail(@),
                      !.estado[p] = IF p \in copia THEN @ ELSE "Exec"]
      /\ UNCHANGED <<new_queue, pid, principal>>
      /\ planificador.en = "despachar" /\ planificador'.en = "mirar"
  BY DEF Despachar, Planifica
<1>3. /\ p \in Pids /\ Contains(kernel.ready, p)
      /\ \A x : Contains(Tail(kernel.ready), x) <=> Contains(kernel.ready, x) /\ x # p
  BY <1>1, DelPrincipio, DelPrincipioExacto
<1>4. c \in CPUs /\ Contains(lista_cpus, c) /\ c \notin en_ejecucion
  <2>1. lista_cpus \in Seq(CPUs) /\ DOMAIN lista_cpus = 1 .. Len(lista_cpus)
    BY LenProperties DEF IInv, TypeOK
  <2>2. CpusLibres \in SUBSET Nat
    BY <2>1 DEF CpusLibres
  <2>3. Min(CpusLibres) \in CpusLibres
    BY <2>2, HayPrimero
  <2>4. Min(CpusLibres) \in DOMAIN lista_cpus /\ c = lista_cpus[Min(CpusLibres)]
    BY <2>3 DEF CpusLibres, buscar_cpu_libre
  <2> QED
    BY <2>1, <2>3, <2>4, ElementOfSeq DEF CpusLibres, Contains
<1>5. corre[c] = 0
  BY <1>4 DEF CpuAcorde
<1>6. kernel'.ready = Tail(kernel.ready) /\ kernel'.cola = kernel.cola
  BY <1>1, <1>2 DEF Estructuras
<1>7. \A d \in CPUs : corre'[d] = IF d = c THEN p ELSE corre[d]
  BY <1>2 DEF IInv, TypeOK
<1>8. ASSUME NEW q \in Pids, q # p PROVE LugarDe(q)' = LugarDe(q)
  <2>1. q # 0
    BY DEF Pids
  <2>2. Corriendo(q)' <=> Corriendo(q)
    BY <1>4, <1>5, <1>7, <1>8, <2>1 DEF Corriendo
  <2>3. EnNew(q)' <=> EnNew(q)
    BY <1>2 DEF EnNew, EnManos
  <2> QED
    BY <1>2, <1>3, <1>6, <1>8, <2>2, <2>3, LugarQuieto DEF Quieto, EnReady, Bloqueado
<1>9. LugarDe(p) = "Ready" /\ LugarDe(p)' = "Exec"
  <2>1. EnReady(p)
    BY <1>3 DEF EnReady
  <2>2. Corriendo(p)'
    BY <1>4, <1>7 DEF Corriendo
  <2> QED
    BY <1>3, <2>1, <2>2, LugarUnico, LugarUnicoDespues DEF EnSuLugar
<1> QED
  BY <1>2, <1>3, <1>4, <1>5, <1>6, <1>8, <1>9 DEF Lleva

\* The process whose PCB a CPU gives back was executing, and only it leaves.
LEMMA SaleDeLaCpu ==
  ASSUME IInv, NEW c \in CPUs, NEW p, p = corre[c], p # 0, LiberarCpu(c)
  PROVE  /\ p \in Pids /\ p <= pid /\ LugarDe(p) = "Exec" /\ Corriendo(p)
         /\ p \notin Esperan(kernel) /\ ~EnNew(p)
         /\ \A q \in Pids : Corriendo(q)' <=> Corriendo(q) /\ q # p
<1>1. p \in Pids /\ p <= pid
  <2>1. p \in 0 .. pid /\ p \in 0 .. MaxPid
    BY DEF IInv, Conocidos, TypeOK
  <2> QED
    BY <2>1 DEF Pids
<1>2. Corriendo(p)
  BY DEF Corriendo
<1>3. \A d \in CPUs : corre'[d] = IF d = c THEN 0 ELSE corre[d]
  BY DEF IInv, TypeOK, LiberarCpu
<1>4. \A d \in CPUs : corre[d] = p => d = c
  BY DEF IInv, Ubicados
<1>5. \A q \in Pids : Corriendo(q)' <=> Corriendo(q) /\ q # p
  <2>1. \A q \in Pids : q # 0
    BY DEF Pids
  <2> QED
    BY <1>3, <1>4, <2>1 DEF Corriendo
<1>6. p \notin Esperan(kernel) /\ ~EnNew(p)
  BY <1>1, <1>2 DEF IInv, Ubicados
<1> QED
  BY <1>1, <1>2, <1>5, <1>6, LugarUnico DEF EnSuLugar

\* FIN_DE_RAFAGA of a process that is not marked: back to ready.
LEMMA MovRafaga ==
  ASSUME IInv, IInv', NEW c \in CPUs, NEW p, p = corre[c], FinDeRafaga(c),
         kernel.borrar[p] = 0
  PROVE  /\ p \in Pids /\ Lleva(p, "Exec", "Ready") /\ kernel'.cola = kernel.cola
         /\ kernel' = [kernel EXCEPT !.estado[p] = "Ready", !.ready = Append(@, p)]
<1>1. kernel \in Estructuras /\ kernel.ready \in Seq(Pids)
  BY DEF IInv, TypeOK, Estructuras
<1>2. /\ p # 0 /\ LiberarCpu(c) /\ UNCHANGED <<new_queue, pid, hilos>>
      /\ kernel' = [kernel EXCEPT !.estado[p] = "Ready", !.ready = Append(@, p)]
  BY DEF FinDeRafaga, DeCpu, proceso_para_borrar
<1>3. /\ p \in Pids /\ LugarDe(p) = "Exec"
      /\ \A q \in Pids : Corriendo(q)' <=> Corriendo(q) /\ q # p
  BY <1>2, SaleDeLaCpu
<1>4. kernel'.ready = Append(kernel.ready, p) /\ kernel'.cola = kernel.cola
  BY <1>1, <1>2 DEF Estructuras
<1>5. \A x : Contains(kernel'.ready, x) <=> Contains(kernel.ready, x) \/ x = p
  BY <1>1, <1>3, <1>4, AlFinalExacto
<1>6. ASSUME NEW q \in Pids, q # p PROVE LugarDe(q)' = LugarDe(q)
  <2>1. EnNew(q)' <=> EnNew(q)
    BY <1>2 DEF EnNew, EnManos, hilos
  <2> QED
    BY <1>2, <1>3, <1>4, <1>5, <1>6, <2>1, LugarQuieto DEF Quieto, EnReady, Bloqueado
<1>7. LugarDe(p)' = "Ready"
  <2>1. EnReady(p)'
    BY <1>5 DEF EnReady
  <2> QED
    BY <1>3, <2>1, LugarUnicoDespues DEF EnSuLugar
<1> QED
  BY <1>2, <1>3, <1>4, <1>6, <1>7 DEF Lleva

\* The process that ends on its CPU, well or badly, is nowhere.
LEMMA MovFinal ==
  ASSUME IInv, IInv', Tranquilo, NEW c \in CPUs, NEW p, p = corre[c],
         Finalizado(c) \/ FinErroneo(c)
  PROVE  /\ p \in Pids /\ Lleva(p, "Exec", "Exit") /\ kernel'.cola = kernel.cola
         /\ LiberarCpu(c)
         /\ kernel' = [kernel EXCEPT !.reciente[p] = Nada, !.estado[p] = "Exit",
                                     !.actuales = @ - 1]
<1>1. kernel \in Estructuras
  BY DEF IInv, TypeOK
<1>2. /\ p # 0 /\ LiberarCpu(c) /\ UNCHANGED <<new_queue, pid, hilos>>
      /\ \/ kernel' = end_process(desmarcar(kernel, p), p)
         \/ kernel' = end_process(kernel, p)
  BY DEF Finalizado, FinErroneo, DeCpu
<1>3. /\ p \in Pids /\ p <= pid /\ LugarDe(p) = "Exec" /\ Corriendo(p)
      /\ p \notin Esperan(kernel) /\ ~EnNew(p)
      /\ \A q \in Pids : Corriendo(q)' <=> Corriendo(q) /\ q # p
  BY <1>2, SaleDeLaCpu
<1>4. kernel' = end_process(kernel, p)
  BY <1>2, <1>3 DEF Tranquilo, desmarcar, proceso_para_borrar
<1>5. kernel.estado[p] \notin {"NoExiste", "Exit"}
  BY <1>3 DEF Tranquilo, Admitido
<1> DEFINE k == [kernel EXCEPT !.reciente[p] = Nada]
<1>6. /\ k \in Estructuras /\ k.ready = kernel.ready /\ k.cola = kernel.cola
      /\ k.actuales = kernel.actuales
  BY <1>1, <1>3, Asignaciones DEF Estructuras
<1>7. remove_from_queue(k, p) = k
  BY <1>3, <1>6, DeNingunaCola DEF Esperan
<1>8. kernel' = [k EXCEPT !.estado[p] = "Exit", !.actuales = @ - 1]
  BY <1>4, <1>5, <1>7 DEF end_process
<1>9. kernel' = [kernel EXCEPT !.reciente[p] = Nada, !.estado[p] = "Exit", !.actuales = @ - 1]
  BY <1>8
<1> HIDE DEF k
<1>10. kernel'.ready = kernel.ready /\ kernel'.cola = kernel.cola
  BY <1>6, <1>8 DEF Estructuras
<1>11. ASSUME NEW q \in Pids PROVE (EnNew(q)' <=> EnNew(q)) /\ (EnReady(q)' <=> EnReady(q))
                                   /\ (Bloqueado(q)' <=> Bloqueado(q))
  BY <1>2, <1>10 DEF EnNew, EnManos, hilos, EnReady, Bloqueado
<1>12. ASSUME NEW q \in Pids, q # p PROVE LugarDe(q)' = LugarDe(q)
  BY <1>2, <1>3, <1>11, <1>12, LugarQuieto DEF Quieto
<1>13. LugarDe(p)' = "Exit"
  <2>1. ~EnNew(p)' /\ ~EnReady(p)' /\ ~Bloqueado(p)' /\ ~Corriendo(p)'
    BY <1>3, <1>11 DEF EnReady, Bloqueado, Esperan
  <2> QED
    BY <1>2, <1>3, <2>1, LugarUnicoDespues DEF EnSuLugar, Admitido
<1> QED
  BY <1>2, <1>3, <1>9, <1>10, <1>12, <1>13 DEF Lleva

\* A WAIT that blocks: the last of the queue of the semaphore.
LEMMA MovBloquea ==
  ASSUME IInv, IInv', NEW c \in CPUs, NEW s \in Semaforos, NEW p, p = corre[c],
         WaitBloquea(c, s)
  PROVE  /\ p \in Pids /\ Lleva(p, "Exec", "Block")
         /\ kernel'.cola = [kernel.cola EXCEPT ![s] = Append(@, p)]
<1>1. kernel \in Estructuras /\ kernel.cola[s] \in Seq(Pids)
  BY DEF IInv, TypeOK, Estructuras
<1>2. /\ p # 0 /\ LiberarCpu(c) /\ UNCHANGED <<new_queue, pid, hilos>>
      /\ kernel' = [kernel EXCEPT !.valor[s] = @ - 1, !.estado[p] = "Block",
                                  !.cola[s] = Append(@, p)]
  BY DEF WaitBloquea, DeCpu
<1>3. /\ p \in Pids /\ LugarDe(p) = "Exec"
      /\ \A q \in Pids : Corriendo(q)' <=> Corriendo(q) /\ q # p
  BY <1>2, SaleDeLaCpu
<1>4. /\ kernel'.ready = kernel.ready
      /\ kernel'.cola = [kernel.cola EXCEPT ![s] = Append(@, p)]
      /\ \A r \in Semaforos :
           kernel'.cola[r] = IF r = s THEN Append(kernel.cola[s], p) ELSE kernel.cola[r]
  BY <1>1, <1>2 DEF Estructuras
<1>5. \A x : Contains(kernel'.cola[s], x) <=> Contains(kernel.cola[s], x) \/ x = p
  BY <1>1, <1>3, <1>4, AlFinalExacto
<1>6. ASSUME NEW q \in Pids, q # p PROVE LugarDe(q)' = LugarDe(q)
  <2>1. EnNew(q)' <=> EnNew(q)
    BY <1>2 DEF EnNew, EnManos, hilos
  <2>2. Bloqueado(q)' <=> Bloqueado(q)
    BY <1>4, <1>5, <1>6 DEF Bloqueado
  <2> QED
    BY <1>2, <1>3, <1>4, <1>6, <2>1, <2>2, LugarQuieto DEF Quieto, EnReady
<1>7. LugarDe(p)' = "Block"
  <2>1. Bloqueado(p)'
    BY <1>5 DEF Bloqueado
  <2> QED
    BY <1>3, <2>1, LugarUnicoDespues DEF EnSuLugar
<1> QED
  BY <1>2, <1>3, <1>4, <1>6, <1>7 DEF Lleva

\* SIGNAL with somebody waiting: the one that has waited the longest becomes ready.
LEMMA MovSignal ==
  ASSUME IInv, IInv', NEW c \in CPUs, NEW s \in Semaforos, Signal(c, s),
         kernel.cola[s] # <<>>, NEW p, p = Head(kernel.cola[s]), kernel.borrar[p] = 0
  PROVE  /\ p \in Pids /\ Lleva(p, "Block", "Ready")
         /\ kernel'.cola = [kernel.cola EXCEPT ![s] = Tail(@)]
<1>1. /\ kernel \in Estructuras /\ kernel.cola[s] \in Seq(Pids) /\ kernel.ready \in Seq(Pids)
      /\ SinRepetidos(kernel.cola[s])
  BY DEF IInv, TypeOK, Ubicados, Orden, Estructuras
<1>2. /\ kernel' = signal(kernel, s)
      /\ UNCHANGED <<new_queue, pid, hilos, cpus>>
  BY DEF Signal
<1>3. kernel' = [kernel EXCEPT !.valor[s] = @ + 1, !.cola[s] = Tail(@),
                   !.estado[p] = "Ready", !.reciente[p] = s, !.ready = Append(@, p)]
  BY <1>2 DEF signal, proceso_para_borrar
<1>4. /\ p \in Pids /\ Contains(kernel.cola[s], p)
      /\ \A x : Contains(Tail(kernel.cola[s]), x) <=> Contains(kernel.cola[s], x) /\ x # p
  BY <1>1, DelPrincipio, DelPrincipioExacto
<1>5. /\ kernel'.ready = Append(kernel.ready, p)
      /\ kernel'.cola = [kernel.cola EXCEPT ![s] = Tail(@)]
      /\ \A r \in Semaforos :
           kernel'.cola[r] = IF r = s THEN Tail(kernel.cola[s]) ELSE kernel.cola[r]
  BY <1>1, <1>3 DEF Estructuras
<1>6. \A x : Contains(kernel'.ready, x) <=> Contains(kernel.ready, x) \/ x = p
  BY <1>1, <1>4, <1>5, AlFinalExacto
<1>7. ASSUME NEW q \in Pids, q # p PROVE LugarDe(q)' = LugarDe(q)
  <2>1. (EnNew(q)' <=> EnNew(q)) /\ (Corriendo(q)' <=> Corriendo(q))
    BY <1>2 DEF EnNew, EnManos, Corriendo, hilos, cpus
  <2>2. Bloqueado(q)' <=> Bloqueado(q)
    BY <1>4, <1>5, <1>7 DEF Bloqueado
  <2> QED
    BY <1>2, <1>6, <1>7, <2>1, <2>2, LugarQuieto DEF Quieto, EnReady
<1>8. LugarDe(p) = "Block" /\ LugarDe(p)' = "Ready"
  <2>1. Bloqueado(p) /\ EnReady(p)'
    BY <1>4, <1>6 DEF Bloqueado, EnReady
  <2> QED
    BY <1>4, <2>1, LugarUnico, LugarUnicoDespues DEF EnSuLugar
<1> QED
  BY <1>4, <1>5, <1>7, <1>8 DEF Lleva

\* SIGNAL with nobody waiting moves nobody.
LEMMA SignalAlAire ==
  ASSUME IInv, NEW c \in CPUs, NEW s \in Semaforos, Signal(c, s), kernel.cola[s] = <<>>
  PROVE  /\ Quietud /\ kernel'.cola = kernel.cola /\ kernel'.ready = kernel.ready
         /\ kernel' = [kernel EXCEPT !.valor[s] = @ + 1]
<1>1. kernel' = [kernel EXCEPT !.valor[s] = @ + 1]
  BY DEF Signal, signal
<1>2. kernel'.ready = kernel.ready /\ kernel'.cola = kernel.cola
  BY <1>1 DEF IInv, TypeOK, Estructuras
<1>3. UNCHANGED <<new_queue, pid, planificador, principal, corre>>
  BY DEF Signal, hilos, cpus
<1>4. \A q \in Pids : EnNew(q)' <=> EnNew(q)
  BY <1>3 DEF EnNew, EnManos
<1> QED
  BY <1>1, <1>2, <1>3, <1>4, QuietoSiIguales, LugarQuieto DEF Quietud

-----------------------------------------------------------------------------
(* The books *)

\* What may happen when nobody ends a process from outside.
LEMMA PasosSinBajas ==
  ASSUME SinBajas, IInv, Tranquilo, Next
  PROVE  \/ MirarPlan \/ Esperar \/ Admitir \/ RechazarPrograma \/ EncolarPrograma
         \/ AlternarPlan \/ CambiarGrado \/ \E g \in Grados : set_multiprog(g)
         \/ NuevoPrograma \/ GuardarDeNew \/ GuardarPrograma \/ Despachar
         \/ \E c \in CPUs :
              \/ ConectarCpu(c) \/ FinDeRafaga(c) \/ Finalizado(c) \/ FinErroneo(c)
              \/ \E s \in Semaforos : WaitPasa(c, s) \/ WaitBloquea(c, s) \/ Signal(c, s)
<1>1. ~Permite("eliminar") /\ ~Permite("desconexion_consola") /\ ~Permite("desconexion_cpu")
      /\ ~Permite("inexistente") /\ ~Permite("end")
  BY DEF SinBajas, Permite
<1>2. ~EliminarAhora /\ ~CaidaDeConsola
  BY DEF Tranquilo, EliminarAhora, CaidaDeConsola
<1>3. \A p : ~Eliminar(p) /\ ~DesconectarConsola(p) /\ ~finish_process(p)
  BY <1>1 DEF Eliminar, DesconectarConsola, finish_process
<1>4. \A c : ~DesconectarCpu(c) /\ ~Inexistente(c)
  BY <1>1 DEF DesconectarCpu, Inexistente
<1>5. ASSUME NEW c \in CPUs PROVE ~WaitMarcado(c)
  <2>1. corre[c] # 0 => corre[c] \in Pids
    BY DEF IInv, TypeOK, Pids
  <2> QED
    BY <2>1 DEF Tranquilo, WaitMarcado, DeCpu, proceso_para_borrar
<1> QED
  BY <1>2, <1>3, <1>4, <1>5
  DEF Next, PasoPlanificacion, SeguirPrincipal, FinDeTurno, DuranteElTurno

\* The part of Tranquilo about the CPUs survives what is done to them: nothing, a
\* burst that begins or ends, or a connection.
LEMMA CpusTranquilas ==
  ASSUME IInv, Tranquilo,
         \/ UNCHANGED cpus
         \/ UNCHANGED <<lista_cpus, en_ejecucion, proceso, corre>>
         \/ \E c \in CPUs : LiberarCpu(c) /\ UNCHANGED lista_cpus
         \/ \E c \in CPUs : ConectarCpu(c)
         \/ \E c \in CPUs, p \in Pids :
              /\ Contains(lista_cpus, c) /\ UNCHANGED lista_cpus
              /\ corre' = [corre EXCEPT ![c] = p] /\ proceso' = [proceso EXCEPT ![c] = p]
              /\ en_ejecucion' = en_ejecucion \cup {c}
  PROVE  CpuAcorde' /\ \A c \in CPUs : corre'[c] # 0 => Contains(lista_cpus', c)
<1>1. /\ corre \in [CPUs -> 0 .. MaxPid] /\ proceso \in [CPUs -> 0 .. MaxPid]
      /\ lista_cpus \in Seq(CPUs) /\ en_ejecucion \subseteq CPUs
  BY DEF IInv, TypeOK
<1>2. \A c \in CPUs : corre[c] # 0 =>
        c \in en_ejecucion /\ proceso[c] = corre[c] /\ Contains(lista_cpus, c)
  BY DEF Tranquilo, CpuAcorde
<1>3. CASE UNCHANGED <<lista_cpus, en_ejecucion, proceso, corre>>
  BY <1>2, <1>3 DEF CpuAcorde
<1>4. ASSUME NEW c \in CPUs, LiberarCpu(c), UNCHANGED lista_cpus
      PROVE  CpuAcorde' /\ \A d \in CPUs : corre'[d] # 0 => Contains(lista_cpus', d)
  BY <1>1, <1>2, <1>4 DEF CpuAcorde, LiberarCpu
<1>5. ASSUME NEW c \in CPUs, ConectarCpu(c)
      PROVE  CpuAcorde' /\ \A d \in CPUs : corre'[d] # 0 => Contains(lista_cpus', d)
  <2>1. /\ ~Contains(lista_cpus, c) /\ lista_cpus' = Append(lista_cpus, c)
        /\ proceso' = [proceso EXCEPT ![c] = 0] /\ UNCHANGED <<en_ejecucion, corre>>
    BY <1>5 DEF ConectarCpu
  <2>2. \A d : Contains(lista_cpus', d) <=> Contains(lista_cpus, d) \/ d = c
    BY <1>1, <2>1, AlFinalExacto
  <2> QED
    BY <1>1, <1>2, <2>1, <2>2 DEF CpuAcorde
<1>6. ASSUME NEW c \in CPUs, NEW p \in Pids, Contains(lista_cpus, c), UNCHANGED lista_cpus,
             corre' = [corre EXCEPT ![c] = p], proceso' = [proceso EXCEPT ![c] = p],
             en_ejecucion' = en_ejecucion \cup {c}
      PROVE  CpuAcorde' /\ \A d \in CPUs : corre'[d] # 0 => Contains(lista_cpus', d)
  BY <1>1, <1>2, <1>6 DEF CpuAcorde
<1> QED
  BY <1>3, <1>4, <1>5, <1>6 DEF cpus

\* The part of Tranquilo about the state written in the PCB.
LEMMA EstadosTranquilos ==
  ASSUME IInv, IInv', Tranquilo,
         \/ Quietud /\ \A q \in Pids : kernel'.estado[q] = kernel.estado[q]
         \/ \E p \in Pids : \E de, a :
              /\ Lleva(p, de, a)
              /\ \A q \in Pids \ {p} : kernel'.estado[q] = kernel.estado[q]
              /\ a \in {"Ready", "Exec", "Block"} => kernel'.estado[p] \notin {"NoExiste", "Exit"}
  PROVE  \A p \in Pids : Admitido(p)' => kernel'.estado[p] \notin {"NoExiste", "Exit"}
<1>1. \A p \in Pids : /\ Admitido(p) <=> LugarDe(p) \in {"Ready", "Exec", "Block"}
                      /\ Admitido(p)' <=> LugarDe(p)' \in {"Ready", "Exec", "Block"}
  BY LugarUnico, LugarUnicoDespues DEF EnSuLugar
<1> QED
  BY <1>1 DEF Tranquilo, Quietud, Lleva

Cuantos == Cardinality({p \in Pids : Admitido(p)})

Activos == {"Ready", "Exec", "Block"}

\* What a process in that place adds to procesos_actuales
Peso(lugar) == IF lugar \in Activos THEN 1 ELSE 0

\* The number of processes admitted changes with those that become active or cease
\* to be.
LEMMA CuantosSon ==
  ASSUME IInv, IInv'
  PROVE  /\ Cuantos \in Nat
         /\ Quietud => Cuantos' = Cuantos
         /\ \A p \in Pids : \A de, a : Lleva(p, de, a) =>
              Cuantos' = Cuantos + Peso(a) - Peso(de)
<1> DEFINE A == {p \in Pids : LugarDe(p) \in Activos}
           B == {p \in Pids : LugarDe(p)' \in Activos}
<1>1. {p \in Pids : Admitido(p)} = A /\ {p \in Pids : Admitido(p)}' = B
  BY LugarUnico, LugarUnicoDespues DEF EnSuLugar, Activos
<1>2. Cuantos = Cardinality(A) /\ Cuantos' = Cardinality(B)
  BY <1>1 DEF Cuantos
<1>3. IsFiniteSet(Pids)
  <2>1. 1 \in Int /\ MaxPid \in Int
    BY PlanificadorAssumption
  <2> QED
    BY <2>1, FS_Interval DEF Pids
<1>4. IsFiniteSet(A) /\ Cardinality(A) \in Nat
  BY <1>3, FS_Subset, FS_CardinalityType
<1>5. Quietud => A = B
  BY DEF Quietud
<1>6. ASSUME NEW p \in Pids, NEW de, NEW a, Lleva(p, de, a)
      PROVE  Cardinality(B) = Cardinality(A) + Peso(a) - Peso(de)
  <2>1. (p \in A <=> de \in Activos) /\ (p \in B <=> a \in Activos)
    BY <1>6 DEF Lleva
  <2>2. B \ {p} = A \ {p}
    BY <1>6 DEF Lleva
  <2> HIDE DEF A, B
  <2>3. IsFiniteSet(A \ {p}) /\ Cardinality(A \ {p}) = IF p \in A THEN Cardinality(A) - 1
                                                       ELSE Cardinality(A)
    BY <1>4, FS_RemoveElement
  <2>4. Cardinality((A \ {p}) \cup {p}) = Cardinality(A \ {p}) + 1
    BY <2>3, FS_AddElement
  <2>5. Cardinality(B) = IF p \in B THEN Cardinality(A \ {p}) + 1 ELSE Cardinality(A \ {p})
    <3>1. CASE p \in B
      <4>1. B = (A \ {p}) \cup {p}
        BY <2>2, <3>1
      <4> QED
        BY <2>4, <3>1, <4>1
    <3>2. CASE p \notin B
      <4>1. B = A \ {p}
        BY <2>2, <3>2
      <4> QED
        BY <3>2, <4>1
    <3> QED
      BY <3>1, <3>2
  <2> DEFINE n == Cardinality(A)
             m == Cardinality(A \ {p})
  <2>6. n \in Nat /\ m = IF de \in Activos THEN n - 1 ELSE n
    BY <1>4, <2>1, <2>3
  <2>7. Cardinality(B) = IF a \in Activos THEN m + 1 ELSE m
    BY <2>1, <2>5
  <2> HIDE DEF n, m
  <2>8. Cardinality(B) = n + Peso(a) - Peso(de)
    <3>1. CASE de \in Activos /\ a \in Activos
      BY <2>6, <2>7, <3>1 DEF Peso
    <3>2. CASE de \in Activos /\ a \notin Activos
      BY <2>6, <2>7, <3>2 DEF Peso
    <3>3. CASE de \notin Activos /\ a \in Activos
      BY <2>6, <2>7, <3>3 DEF Peso
    <3>4. CASE de \notin Activos /\ a \notin Activos
      BY <2>6, <2>7, <3>4 DEF Peso
    <3> QED
      BY <3>1, <3>2, <3>3, <3>4
  <2> QED
    BY <2>8 DEF n
<1> QED
  BY <1>2, <1>4, <1>5, <1>6

Exactitud == Tranquilo /\ CuentaExacta /\ SemaforoExacto

\* It is enough to look at the semaphore a step touches.
LEMMA SemaforosSiguen ==
  ASSUME SemaforoExacto, NEW s \in Semaforos,
         \A r \in Semaforos \ {s} :
           kernel'.cola[r] = kernel.cola[r] /\ kernel'.valor[r] = kernel.valor[r],
         Len(kernel'.cola[s]) = IF kernel'.valor[s] < 0 THEN -kernel'.valor[s] ELSE 0
  PROVE  SemaforoExacto'
BY DEF SemaforoExacto

\* The steps that leave the structures of the processes alone, and a WAIT that passes.
LEMMA QuietosExactos ==
  ASSUME IInv, IInv', Exactitud,
         \/ MirarPlan \/ Esperar \/ Admitir \/ RechazarPrograma \/ EncolarPrograma
         \/ \E c \in CPUs : ConectarCpu(c) \/ \E s \in Semaforos : WaitPasa(c, s)
         \/ AlternarPlan \/ CambiarGrado \/ \E g \in Grados : set_multiprog(g)
         \/ UNCHANGED vars
  PROVE  Exactitud'
<1>1. Quietud /\ kernel'.ready = kernel.ready /\ kernel'.cola = kernel.cola
  BY PasosQuietos
<1>2. kernel \in Estructuras
  BY DEF IInv, TypeOK
<1>3. /\ \A q \in Pids : kernel'.estado[q] = kernel.estado[q] /\ kernel'.borrar[q] = kernel.borrar[q]
      /\ kernel'.actuales = kernel.actuales
  <2>1. kernel' = kernel \/ \E s \in Semaforos : kernel' = [kernel EXCEPT !.valor[s] = @ - 1]
    BY DEF MirarPlan, Esperar, Admitir, RechazarPrograma, EncolarPrograma, ConectarCpu,
           WaitPasa, AlternarPlan, CambiarGrado, set_multiprog, vars
  <2> QED
    BY <1>2, <2>1 DEF Estructuras
<1>4. principal'.en \in {"select", "guardar", "encolar"}
  BY DEF Exactitud, Tranquilo, MirarPlan, Esperar, Admitir, RechazarPrograma, EncolarPrograma,
         ConectarCpu, WaitPasa, AlternarPlan, CambiarGrado, set_multiprog, vars, hilos, Principal
<1>5. CpuAcorde' /\ \A c \in CPUs : corre'[c] # 0 => Contains(lista_cpus', c)
  <2>1. \/ UNCHANGED <<lista_cpus, en_ejecucion, proceso, corre>>
        \/ \E c \in CPUs : ConectarCpu(c)
    BY DEF MirarPlan, Esperar, Admitir, RechazarPrograma, EncolarPrograma,
           WaitPasa, AlternarPlan, CambiarGrado, set_multiprog, vars, cpus
  <2> QED
    BY <2>1, CpusTranquilas DEF Exactitud
<1>6. \A p \in Pids : Admitido(p)' => kernel'.estado[p] \notin {"NoExiste", "Exit"}
  BY <1>1, <1>3, EstadosTranquilos DEF Exactitud
<1>7. CuentaExacta'
  BY <1>1, <1>3, CuantosSon DEF Exactitud, CuentaExacta, Cuantos
<1>8. SemaforoExacto'
  <2>1. CASE kernel' = kernel
    BY <2>1 DEF Exactitud, SemaforoExacto
  <2>2. ASSUME NEW c \in CPUs, NEW s \in Semaforos, WaitPasa(c, s) PROVE SemaforoExacto'
    <3>1. kernel.valor[s] > 0 /\ kernel.valor[s] \in Int
          /\ kernel' = [kernel EXCEPT !.valor[s] = @ - 1]
      BY <1>2, <2>2 DEF WaitPasa, Estructuras
    <3>2. /\ \A r \in Semaforos \ {s} : kernel'.valor[r] = kernel.valor[r]
          /\ kernel'.valor[s] = kernel.valor[s] - 1
      BY <1>2, <3>1 DEF Estructuras
    <3>3. Len(kernel'.cola[s]) = 0
      BY <1>1, <3>1 DEF Exactitud, SemaforoExacto
    <3>4. ~(kernel'.valor[s] < 0)
      BY <3>1, <3>2
    <3> QED
      BY <1>1, <3>2, <3>3, <3>4, SemaforosSiguen DEF Exactitud
  <2> QED
    BY <2>1, <2>2
    DEF MirarPlan, Esperar, Admitir, RechazarPrograma, EncolarPrograma, ConectarCpu,
        AlternarPlan, CambiarGrado, set_multiprog, vars
<1> QED
  BY <1>3, <1>4, <1>5, <1>6, <1>7, <1>8 DEF Exactitud, Tranquilo

\* A step that moves one process keeps the books when it writes its state and counts
\* it in or out.
LEMMA MovimientoExacto ==
  ASSUME IInv, IInv', Exactitud, NEW p \in Pids, NEW de, NEW a,
         Lleva(p, de, a),
         \A q \in Pids \ {p} : kernel'.estado[q] = kernel.estado[q],
         a \in Activos => kernel'.estado[p] \notin {"NoExiste", "Exit"},
         \A q \in Pids : kernel'.borrar[q] = kernel.borrar[q],
         kernel'.actuales = kernel.actuales + Peso(a) - Peso(de),
         principal'.en \in {"select", "guardar", "encolar"},
         \/ UNCHANGED <<lista_cpus, en_ejecucion, proceso, corre>>
         \/ \E c \in CPUs : LiberarCpu(c) /\ UNCHANGED lista_cpus
         \/ \E c \in CPUs, r \in Pids :
              /\ Contains(lista_cpus, c) /\ UNCHANGED lista_cpus
              /\ corre' = [corre EXCEPT ![c] = r] /\ proceso' = [proceso EXCEPT ![c] = r]
              /\ en_ejecucion' = en_ejecucion \cup {c}
  PROVE  Tranquilo' /\ CuentaExacta'
<1>1. CpuAcorde' /\ \A c \in CPUs : corre'[c] # 0 => Contains(lista_cpus', c)
  BY CpusTranquilas DEF Exactitud
<1>2. \A q \in Pids : Admitido(q)' => kernel'.estado[q] \notin {"NoExiste", "Exit"}
  BY EstadosTranquilos DEF Exactitud, Activos
<1>3. CuentaExacta'
  BY CuantosSon DEF Exactitud, CuentaExacta, Cuantos
<1> QED
  BY <1>1, <1>2, <1>3 DEF Exactitud, Tranquilo

\* The processes that are created, admitted and dispatched.
LEMMA AltasExactas ==
  ASSUME IInv, IInv', Exactitud,
         NuevoPrograma \/ GuardarDeNew \/ GuardarPrograma \/ Despachar
  PROVE  Exactitud'
<1>1. kernel \in Estructuras
  BY DEF IInv, TypeOK
<1>2. ASSUME kernel'.cola = kernel.cola, kernel'.valor = kernel.valor
      PROVE  SemaforoExacto'
  BY <1>2 DEF Exactitud, SemaforoExacto
<1>3. CASE NuevoPrograma
  <2> DEFINE p == pid + 1
  <2>1. PICK q : q = p
    OBVIOUS
  <2>2. q \in Pids /\ Lleva(q, "NoExiste", "New") /\ kernel'.cola = kernel.cola
    BY <1>3, <2>1, MovNuevo
  <2>3. /\ kernel' = [kernel EXCEPT !.estado[q] = "Nuevo"]
        /\ principal'.en \in {"select", "guardar", "encolar"}
        /\ UNCHANGED <<lista_cpus, en_ejecucion, proceso, corre>>
    BY <1>3, <2>1 DEF NuevoPrograma, Principal, cpus
  <2> HIDE DEF p
  <2>4. /\ \A r \in Pids \ {q} : kernel'.estado[r] = kernel.estado[r]
        /\ kernel'.borrar = kernel.borrar /\ kernel'.actuales = kernel.actuales
        /\ kernel'.valor = kernel.valor
    BY <1>1, <2>3 DEF Estructuras
  <2>5. kernel'.actuales = kernel.actuales + Peso("New") - Peso("NoExiste")
    BY <1>1, <2>4 DEF Peso, Activos, Estructuras
  <2>6. "New" \notin Activos
    BY DEF Activos
  <2>7. Tranquilo' /\ CuentaExacta'
    BY <2>2, <2>3, <2>4, <2>5, <2>6, MovimientoExacto
  <2> QED
    BY <1>2, <2>2, <2>4, <2>7 DEF Exactitud
<1>4. CASE GuardarDeNew \/ GuardarPrograma
  <2>1. PICK p \in Pids, hay \in Respuestas :
           /\ EnManos(p)
           /\ kernel' = guardado_en_memoria(kernel, p, hay)
           /\ UNCHANGED <<new_queue, pid, corre>>
           /\ \A q \in Pids : EnManos(q)' <=> EnManos(q) /\ q # p
    BY <1>4, ManosDeGuardar
  <2>2. hay \in BOOLEAN
    BY DEF Respuestas
  <2> DEFINE a == IF hay THEN "Ready" ELSE "Exit"
  <2>3. Lleva(p, "New", a) /\ kernel'.cola = kernel.cola
    BY <2>1, <2>2, MovGuardar
  <2>4. /\ \A r \in Pids \ {p} : kernel'.estado[r] = kernel.estado[r]
        /\ kernel'.estado[p] = a
        /\ kernel'.borrar = kernel.borrar /\ kernel'.valor = kernel.valor
        /\ kernel'.actuales = IF hay THEN kernel.actuales + 1 ELSE kernel.actuales
    BY <1>1, <2>1, <2>2 DEF guardado_en_memoria, Estructuras
  <2>5. /\ principal'.en \in {"select", "guardar", "encolar"}
        /\ UNCHANGED <<lista_cpus, en_ejecucion, proceso, corre>>
    BY <1>4 DEF GuardarDeNew, GuardarPrograma, Principal, cpus, Exactitud, Tranquilo
  <2>6. /\ kernel.actuales \in Int /\ "New" \notin Activos
        /\ a \in Activos <=> hay
        /\ a \in Activos => a \notin {"NoExiste", "Exit"}
    BY <1>1, <2>2 DEF Activos, Estructuras
  <2> HIDE DEF a
  <2>7. kernel'.actuales = kernel.actuales + Peso(a) - Peso("New")
    <3>1. CASE hay
      BY <2>4, <2>6, <3>1 DEF Peso
    <3>2. CASE ~hay
      BY <2>4, <2>6, <3>2 DEF Peso
    <3> QED
      BY <3>1, <3>2
  <2>8. Tranquilo' /\ CuentaExacta'
    BY <2>3, <2>4, <2>5, <2>6, <2>7, MovimientoExacto
  <2> QED
    BY <1>2, <2>3, <2>4, <2>8 DEF Exactitud
<1>5. CASE Despachar /\ kernel.ready # <<>> /\ CpusLibres # {}
  <2>1. PICK p, c : p = Head(kernel.ready) /\ c = buscar_cpu_libre
    OBVIOUS
  <2>2. /\ p \in Pids /\ Lleva(p, "Ready", "Exec") /\ kernel'.cola = kernel.cola
        /\ c \in CPUs /\ Contains(lista_cpus, c)
        /\ corre' = [corre EXCEPT ![c] = p] /\ proceso' = [proceso EXCEPT ![c] = p]
        /\ en_ejecucion' = en_ejecucion \cup {c}
        /\ kernel' = [kernel EXCEPT !.ready = Tail(@),
                        !.estado[p] = IF p \in copia THEN @ ELSE "Exec"]
    BY <1>5, <2>1, MovDespachar DEF Exactitud, Tranquilo
  <2>3. lista_cpus' = lista_cpus /\ principal' = principal
    BY <1>5 DEF Despachar
  <2>4. /\ \A r \in Pids \ {p} : kernel'.estado[r] = kernel.estado[r]
        /\ kernel'.estado[p] \in {kernel.estado[p], "Exec"}
        /\ kernel'.borrar = kernel.borrar /\ kernel'.actuales = kernel.actuales
        /\ kernel'.valor = kernel.valor
    BY <1>1, <2>2 DEF Estructuras
  <2>5. kernel.estado[p] \notin {"NoExiste", "Exit"}
    <3>1. Admitido(p)
      BY <2>2, LugarUnico DEF Lleva, EnSuLugar
    <3> QED
      BY <2>2, <3>1 DEF Exactitud, Tranquilo
  <2>6. kernel'.actuales = kernel.actuales + Peso("Exec") - Peso("Ready")
    BY <1>1, <2>4 DEF Peso, Activos, Estructuras
  <2>7. Tranquilo' /\ CuentaExacta'
    BY <2>2, <2>3, <2>4, <2>5, <2>6, MovimientoExacto DEF Exactitud, Tranquilo
  <2> QED
    BY <1>2, <2>2, <2>4, <2>7 DEF Exactitud
<1>6. CASE Despachar /\ ~(kernel.ready # <<>> /\ CpusLibres # {})
  <2>1. /\ UNCHANGED <<kernel, en_ejecucion, proceso, corre, lista_cpus, principal, new_queue, pid>>
        /\ planificador.en = "despachar" /\ planificador'.en = "mirar"
    BY <1>6 DEF Despachar, Planifica
  <2>2. \A q \in Pids : EnNew(q)' <=> EnNew(q)
    BY <2>1 DEF EnNew, EnManos
  <2>3. Quietud
    BY <2>1, <2>2, QuietoSiIguales, LugarQuieto DEF Quietud
  <2>4. CpuAcorde' /\ \A c \in CPUs : corre'[c] # 0 => Contains(lista_cpus', c)
    BY <2>1, CpusTranquilas DEF Exactitud
  <2>5. \A q \in Pids : Admitido(q)' => kernel'.estado[q] \notin {"NoExiste", "Exit"}
    BY <2>1, <2>3, EstadosTranquilos DEF Exactitud
  <2>6. CuentaExacta'
    BY <2>1, <2>3, CuantosSon DEF Exactitud, CuentaExacta, Cuantos
  <2> QED
    BY <1>2, <2>1, <2>4, <2>5, <2>6 DEF Exactitud, Tranquilo
<1> QED
  BY <1>3, <1>4, <1>5, <1>6

\* The messages of the CPUs.
LEMMA MensajesExactos ==
  ASSUME IInv, IInv', Exactitud, NEW c \in CPUs,
         \/ FinDeRafaga(c) \/ Finalizado(c) \/ FinErroneo(c)
         \/ \E s \in Semaforos : WaitBloquea(c, s) \/ Signal(c, s)
  PROVE  Exactitud'
<1>1. kernel \in Estructuras /\ kernel.actuales \in Int
  BY DEF IInv, TypeOK, Estructuras
<1>2. ASSUME kernel'.cola = kernel.cola, kernel'.valor = kernel.valor
      PROVE  SemaforoExacto'
  BY <1>2 DEF Exactitud, SemaforoExacto
<1>3. PICK p : p = corre[c]
  OBVIOUS
<1>4. p \in Pids => kernel.borrar[p] = 0
  BY DEF Exactitud, Tranquilo
<1>5. corre[c] # 0
  BY DEF FinDeRafaga, Finalizado, FinErroneo, WaitBloquea, Signal, DeCpu
<1>6. p \in Pids
  BY SMTT(20), <1>3, <1>5 DEF IInv, TypeOK, Pids
<1>7. principal'.en \in {"select", "guardar", "encolar"} /\ lista_cpus' = lista_cpus
  BY DEF FinDeRafaga, Finalizado, FinErroneo, WaitBloquea, Signal, hilos, cpus, Exactitud,
         Tranquilo
<1>8. CASE FinDeRafaga(c)
  <2>1. /\ Lleva(p, "Exec", "Ready") /\ kernel'.cola = kernel.cola
        /\ kernel' = [kernel EXCEPT !.estado[p] = "Ready", !.ready = Append(@, p)]
    BY <1>3, <1>4, <1>6, <1>8, MovRafaga
  <2>2. /\ \A r \in Pids \ {p} : kernel'.estado[r] = kernel.estado[r]
        /\ kernel'.estado[p] = "Ready"
        /\ kernel'.borrar = kernel.borrar /\ kernel'.valor = kernel.valor
        /\ kernel'.actuales = kernel.actuales
    BY <1>1, <1>6, <2>1 DEF Estructuras
  <2>3. kernel'.actuales = kernel.actuales + Peso("Ready") - Peso("Exec")
    BY <1>1, <2>2 DEF Peso, Activos
  <2>4. LiberarCpu(c)
    BY <1>8 DEF FinDeRafaga
  <2>5. Tranquilo' /\ CuentaExacta'
    BY <1>6, <1>7, <2>1, <2>2, <2>3, <2>4, MovimientoExacto
  <2> QED
    BY <1>2, <2>1, <2>2, <2>5 DEF Exactitud
<1>9. CASE Finalizado(c) \/ FinErroneo(c)
  <2>1. /\ Lleva(p, "Exec", "Exit") /\ kernel'.cola = kernel.cola /\ LiberarCpu(c)
        /\ kernel' = [kernel EXCEPT !.reciente[p] = Nada, !.estado[p] = "Exit",
                                    !.actuales = @ - 1]
    BY <1>3, <1>9, MovFinal DEF Exactitud
  <2>2. /\ \A r \in Pids \ {p} : kernel'.estado[r] = kernel.estado[r]
        /\ kernel'.borrar = kernel.borrar /\ kernel'.valor = kernel.valor
        /\ kernel'.actuales = kernel.actuales - 1
    BY <1>1, <1>6, <2>1 DEF Estructuras
  <2>3. kernel'.actuales = kernel.actuales + Peso("Exit") - Peso("Exec")
    BY <1>1, <2>2 DEF Peso, Activos
  <2>4. "Exit" \notin Activos
    BY DEF Activos
  <2>5. Tranquilo' /\ CuentaExacta'
    BY <1>6, <1>7, <2>1, <2>2, <2>3, <2>4, MovimientoExacto
  <2> QED
    BY <1>2, <2>1, <2>2, <2>5 DEF Exactitud
<1>10. ASSUME NEW s \in Semaforos, WaitBloquea(c, s) PROVE Exactitud'
  <2>0. kernel' = [kernel EXCEPT !.valor[s] = @ - 1, !.estado[p] = "Block",
                                 !.cola[s] = Append(@, p)]
    BY <1>3, <1>10 DEF WaitBloquea
  <2>1. /\ Lleva(p, "Exec", "Block")
        /\ kernel'.cola = [kernel.cola EXCEPT ![s] = Append(@, p)]
    BY <1>3, <1>10, MovBloquea
  <2>2. /\ \A r \in Pids \ {p} : kernel'.estado[r] = kernel.estado[r]
        /\ kernel'.estado[p] = "Block"
        /\ kernel'.borrar = kernel.borrar /\ kernel'.actuales = kernel.actuales
        /\ kernel'.valor = [kernel.valor EXCEPT ![s] = @ - 1]
    BY <1>1, <1>6, <2>0 DEF Estructuras
  <2>3. kernel'.actuales = kernel.actuales + Peso("Block") - Peso("Exec")
    BY <1>1, <2>2 DEF Peso, Activos
  <2>4. LiberarCpu(c) /\ kernel.valor[s] <= 0
    BY <1>10 DEF WaitBloquea
  <2>5. Tranquilo' /\ CuentaExacta'
    BY <1>6, <1>7, <2>1, <2>2, <2>3, <2>4, MovimientoExacto
  <2>6. SemaforoExacto'
    <3>1. /\ kernel.cola \in [Semaforos -> Seq(Pids)] /\ kernel.valor \in [Semaforos -> Int]
          /\ kernel.cola[s] \in Seq(Pids) /\ kernel.valor[s] \in Int
      BY <1>1 DEF Estructuras
    <3>2. Len(kernel'.cola[s]) = Len(kernel.cola[s]) + 1 /\ kernel'.valor[s] = kernel.valor[s] - 1
      BY <1>6, <2>1, <2>2, <3>1, AlFinalExacto
    <3>3. \A r \in Semaforos \ {s} :
            kernel'.cola[r] = kernel.cola[r] /\ kernel'.valor[r] = kernel.valor[r]
      BY <2>1, <2>2, <3>1
    <3>4. Len(kernel.cola[s]) = IF kernel.valor[s] < 0 THEN -kernel.valor[s] ELSE 0
      BY DEF Exactitud, SemaforoExacto
    <3>5. Len(kernel'.cola[s]) = IF kernel'.valor[s] < 0 THEN -kernel'.valor[s] ELSE 0
      BY <2>4, <3>1, <3>2, <3>4
    <3> QED
      BY <3>3, <3>5, SemaforosSiguen DEF Exactitud
  <2> QED
    BY <2>5, <2>6 DEF Exactitud
<1>11. ASSUME NEW s \in Semaforos, Signal(c, s), kernel.cola[s] # <<>> PROVE Exactitud'
  <2>1. PICK q : q = Head(kernel.cola[s])
    OBVIOUS
  <2>2. q \in Pids /\ kernel.cola[s] \in Seq(Pids)
    BY <1>1, <1>11, <2>1, DelPrincipio DEF Estructuras
  <2>3. kernel.borrar[q] = 0
    BY <2>2 DEF Exactitud, Tranquilo
  <2>4. /\ Lleva(q, "Block", "Ready")
        /\ kernel'.cola = [kernel.cola EXCEPT ![s] = Tail(@)]
    BY <1>11, <2>1, <2>3, MovSignal
  <2>10. kernel' = [kernel EXCEPT !.valor[s] = @ + 1, !.cola[s] = Tail(@),
                      !.estado[q] = "Ready", !.reciente[q] = s, !.ready = Append(@, q)]
    <3>1. kernel' = signal(kernel, s)
      BY <1>11 DEF Signal
    <3> QED
      BY <1>11, <2>1, <2>3, <3>1 DEF signal, proceso_para_borrar
  <2>5. /\ \A r \in Pids \ {q} : kernel'.estado[r] = kernel.estado[r]
        /\ kernel'.estado[q] = "Ready"
        /\ kernel'.borrar = kernel.borrar /\ kernel'.actuales = kernel.actuales
        /\ kernel'.valor = [kernel.valor EXCEPT ![s] = @ + 1]
    BY <1>1, <2>2, <2>10 DEF Estructuras
  <2>6. kernel'.actuales = kernel.actuales + Peso("Ready") - Peso("Block")
    BY <1>1, <2>5 DEF Peso, Activos
  <2>7. UNCHANGED <<lista_cpus, en_ejecucion, proceso, corre>>
    BY <1>11 DEF Signal, cpus
  <2>8. Tranquilo' /\ CuentaExacta'
    BY <1>7, <2>2, <2>4, <2>5, <2>6, <2>7, MovimientoExacto
  <2>9. SemaforoExacto'
    <3>1. /\ kernel.cola \in [Semaforos -> Seq(Pids)] /\ kernel.valor \in [Semaforos -> Int]
          /\ kernel.valor[s] \in Int
      BY <1>1 DEF Estructuras
    <3>2. /\ Len(kernel'.cola[s]) = Len(kernel.cola[s]) - 1 /\ Len(kernel.cola[s]) \in Nat \ {0}
          /\ kernel'.valor[s] = kernel.valor[s] + 1
      BY <1>11, <2>2, <2>4, <2>5, <3>1, DelPrincipioExacto
    <3>3. \A r \in Semaforos \ {s} :
            kernel'.cola[r] = kernel.cola[r] /\ kernel'.valor[r] = kernel.valor[r]
      BY <2>4, <2>5, <3>1
    <3>4. Len(kernel.cola[s]) = IF kernel.valor[s] < 0 THEN -kernel.valor[s] ELSE 0
      BY DEF Exactitud, SemaforoExacto
    <3>5. Len(kernel'.cola[s]) = IF kernel'.valor[s] < 0 THEN -kernel'.valor[s] ELSE 0
      BY <3>1, <3>2, <3>4
    <3> QED
      BY <3>3, <3>5, SemaforosSiguen DEF Exactitud
  <2> QED
    BY <2>8, <2>9 DEF Exactitud
<1>12. ASSUME NEW s \in Semaforos, Signal(c, s), kernel.cola[s] = <<>> PROVE Exactitud'
  <2>1. /\ Quietud /\ kernel'.cola = kernel.cola /\ kernel' = [kernel EXCEPT !.valor[s] = @ + 1]
    BY <1>12, SignalAlAire
  <2>2. /\ \A q \in Pids : kernel'.estado[q] = kernel.estado[q]
        /\ kernel'.borrar = kernel.borrar /\ kernel'.actuales = kernel.actuales
        /\ kernel'.valor = [kernel.valor EXCEPT ![s] = @ + 1]
    BY <1>1, <2>1 DEF Estructuras
  <2>3. UNCHANGED <<lista_cpus, en_ejecucion, proceso, corre>>
    BY <1>12 DEF Signal, cpus
  <2>4. CpuAcorde' /\ \A d \in CPUs : corre'[d] # 0 => Contains(lista_cpus', d)
    BY <2>3, CpusTranquilas DEF Exactitud
  <2>5. \A q \in Pids : Admitido(q)' => kernel'.estado[q] \notin {"NoExiste", "Exit"}
    BY <2>1, <2>2, EstadosTranquilos DEF Exactitud
  <2>6. CuentaExacta'
    BY <2>1, <2>2, CuantosSon DEF Exactitud, CuentaExacta, Cuantos
  <2>7. SemaforoExacto'
    <3>1. kernel.valor \in [Semaforos -> Int] /\ kernel.valor[s] \in Int
      BY <1>1 DEF Estructuras
    <3>2. kernel'.valor[s] = kernel.valor[s] + 1
      BY <2>2, <3>1
    <3>3. \A r \in Semaforos \ {s} :
            kernel'.cola[r] = kernel.cola[r] /\ kernel'.valor[r] = kernel.valor[r]
      BY <2>1, <2>2, <3>1
    <3>4. Len(kernel.cola[s]) = IF kernel.valor[s] < 0 THEN -kernel.valor[s] ELSE 0
      BY DEF Exactitud, SemaforoExacto
    <3>5. Len(kernel.cola[s]) = 0
      BY <1>12, EmptySeq
    <3>6. Len(kernel'.cola[s]) = IF kernel'.valor[s] < 0 THEN -kernel'.valor[s] ELSE 0
      BY <2>1, <3>1, <3>2, <3>4, <3>5
    <3> QED
      BY <3>3, <3>6, SemaforosSiguen DEF Exactitud
  <2> QED
    BY <1>7, <2>2, <2>4, <2>5, <2>6, <2>7 DEF Exactitud, Tranquilo
<1> QED
  BY <1>8, <1>9, <1>10, <1>11, <1>12

\* The Kernel starts with its books in order,
LEMMA InicioExacto == Init => Exactitud
<1> SUFFICES ASSUME Init PROVE Exactitud
  OBVIOUS
<1>1. \A x : ~Contains(<<>>, x)
  BY DEF Contains
<1>2. \A p \in Pids : ~Admitido(p)
  BY <1>1 DEF Init, Admitido, EnReady, Bloqueado, Corriendo, Pids
<1>3. CuentaExacta
  <2>1. {p \in Pids : Admitido(p)} = {}
    BY <1>2
  <2> QED
    BY <2>1, FS_EmptySet DEF CuentaExacta, Init
<1>4. SemaforoExacto
  <2>1. Len(<<>>) = 0 /\ ~(Inicial < 0)
    BY EmptySeq, PlanificadorAssumption
  <2> QED
    BY <2>1 DEF Init, SemaforoExacto
<1>5. Tranquilo
  BY <1>2 DEF Init, Tranquilo, CpuAcorde
<1> QED
  BY <1>3, <1>4, <1>5 DEF Exactitud

\* and keeps them in order.
LEMMA PasoExacto ==
  ASSUME SinBajas
  PROVE  IInv /\ Exactitud /\ [Next]_vars => Exactitud'
<1> SUFFICES ASSUME IInv, Exactitud, [Next]_vars PROVE Exactitud'
  OBVIOUS
<1>1. IInv'
  BY PasoUbicado
<1>2. CASE UNCHANGED vars
  BY <1>1, <1>2, QuietosExactos
<1>3. CASE Next
  BY <1>1, <1>3, PasosSinBajas, QuietosExactos, AltasExactas, MensajesExactos DEF Exactitud
<1> QED
  BY <1>2, <1>3

-----------------------------------------------------------------------------
(* The degree of multiprogramming *)

EnPlanificacion == IF planificador.en = "guardar" THEN 1 ELSE 0
EnMain == IF principal.en = "guardar" THEN 1 ELSE 0

\* GradoAcotado, made inductive: the processes that the two threads have let in and
\* not counted yet have to be counted.
Cupo ==
  /\ menu.en = "comando"
  /\ kernel.actuales + EnPlanificacion + EnMain <= grado + 1

\* A step that leaves the three terms alone, or takes from the first.
LEMMA CupoSigue ==
  ASSUME TypeOK, Cupo,
         UNCHANGED <<menu, grado>>,
         kernel'.actuales = kernel.actuales \/ kernel'.actuales = kernel.actuales - 1,
         planificador'.en = "guardar" => planificador.en = "guardar",
         principal'.en = "guardar" => principal.en = "guardar"
  PROVE  Cupo'
<1>1. kernel.actuales \in Int /\ grado \in Nat
  BY DEF TypeOK, Estructuras
<1>2. /\ EnPlanificacion \in {0, 1} /\ EnPlanificacion' \in {0, 1}
      /\ EnMain \in {0, 1} /\ EnMain' \in {0, 1}
      /\ EnPlanificacion' <= EnPlanificacion /\ EnMain' <= EnMain
  BY DEF EnPlanificacion, EnMain
<1>3. /\ menu'.en = "comando" /\ grado' = grado
      /\ kernel.actuales + EnPlanificacion + EnMain <= grado + 1
  BY DEF Cupo
<1> DEFINE a == EnPlanificacion
           b == EnMain
           c == EnPlanificacion'
           d == EnMain'
<1>4. kernel'.actuales + c + d <= grado' + 1
  <2>1. /\ a \in Int /\ b \in Int /\ c \in Int /\ d \in Int /\ c <= a /\ d <= b
        /\ kernel.actuales + a + b <= grado + 1
    BY <1>2, <1>3
  <2> HIDE DEF a, b, c, d
  <2> QED
    BY <1>1, <1>3, <2>1
<1> QED
  BY <1>3, <1>4 DEF Cupo

\* Each thread looks before it lets one in, and at most one of the other is not
\* counted.
LEMMA PasoCupo ==
  ASSUME SinBajas, "grado" \notin Ordenes
  PROVE  IInv /\ Exactitud /\ Cupo /\ [Next]_vars => Cupo'
<1> SUFFICES ASSUME IInv, Exactitud, Cupo, [Next]_vars PROVE Cupo'
  OBVIOUS
<1>1. IInv' /\ TypeOK /\ kernel \in Estructuras
  BY PasoUbicado DEF IInv, TypeOK
<1>2. kernel.actuales \in Int /\ grado \in Nat
  BY <1>1 DEF TypeOK, Estructuras
<1>3. EnPlanificacion \in {0, 1} /\ EnMain \in {0, 1}
  BY DEF EnPlanificacion, EnMain
<1>4. CASE \/ MirarPlan \/ Esperar \/ RechazarPrograma \/ EncolarPrograma \/ AlternarPlan
           \/ UNCHANGED vars \/ \E c \in CPUs : ConectarCpu(c)
  BY <1>1, <1>4, CupoSigue
  DEF MirarPlan, Esperar, RechazarPrograma, EncolarPrograma, AlternarPlan, vars, ConectarCpu,
      Planifica, Principal, hilos
<1>5. CASE Admitir /\ new_queue # <<>> /\ HayLugar
  <2>1. /\ kernel'.actuales = kernel.actuales /\ kernel.actuales < grado
        /\ UNCHANGED <<menu, grado, principal>> /\ planificador'.en = "guardar"
    BY <1>5 DEF Admitir, Planifica, HayLugar
  <2>2. EnPlanificacion' = 1 /\ EnMain' = EnMain
    BY <2>1 DEF EnPlanificacion, EnMain
  <2> QED
    BY <1>2, <1>3, <2>1, <2>2 DEF Cupo
<1>6. CASE Admitir /\ ~(new_queue # <<>> /\ HayLugar)
  BY <1>1, <1>6, CupoSigue DEF Admitir, Planifica
<1>7. CASE NuevoPrograma
  <2>1. /\ kernel'.actuales = kernel.actuales
        /\ UNCHANGED <<menu, grado, planificador>>
        /\ principal.en = "select"
        /\ principal'.en = IF HayLugar THEN "guardar" ELSE "encolar"
    BY <1>1, <1>7 DEF NuevoPrograma, Principal, EnSelect, Estructuras
  <2>2. CASE HayLugar
    <3>1. EnMain' = 1 /\ EnPlanificacion' = EnPlanificacion /\ kernel.actuales < grado
      BY <2>1, <2>2 DEF EnPlanificacion, EnMain, HayLugar
    <3> QED
      BY <1>2, <1>3, <2>1, <3>1 DEF Cupo
  <2>3. CASE ~HayLugar
    BY <1>1, <2>1, <2>3, CupoSigue
  <2> QED
    BY <2>2, <2>3
<1>8. CASE GuardarDeNew
  <2>1. /\ \E hay \in BOOLEAN : kernel' = guardado_en_memoria(kernel, planificador.pid, hay)
        /\ planificador.en = "guardar" /\ planificador'.en = "despachar"
        /\ UNCHANGED <<menu, grado, principal>>
    BY <1>8 DEF GuardarDeNew, Planifica, Respuestas
  <2>2. kernel'.actuales \in {kernel.actuales, kernel.actuales + 1}
    BY <1>1, <2>1 DEF guardado_en_memoria, Estructuras
  <2>3. EnPlanificacion = 1 /\ EnPlanificacion' = 0 /\ EnMain' = EnMain
    BY <2>1 DEF EnPlanificacion, EnMain
  <2> QED
    BY <1>2, <1>3, <2>1, <2>2, <2>3 DEF Cupo
<1>9. CASE GuardarPrograma
  <2>1. /\ \E hay \in BOOLEAN : kernel' = guardado_en_memoria(kernel, principal.pid, hay)
        /\ principal.en = "guardar" /\ principal'.en = "select"
        /\ UNCHANGED <<menu, grado, planificador>>
    BY <1>9 DEF GuardarPrograma, Principal, Respuestas
  <2>2. kernel'.actuales \in {kernel.actuales, kernel.actuales + 1}
    BY <1>1, <2>1 DEF guardado_en_memoria, Estructuras
  <2>3. EnMain = 1 /\ EnMain' = 0 /\ EnPlanificacion' = EnPlanificacion
    BY <2>1 DEF EnPlanificacion, EnMain
  <2> QED
    BY <1>2, <1>3, <2>1, <2>2, <2>3 DEF Cupo
<1>10. CASE Despachar
  <2>1. /\ kernel'.actuales = kernel.actuales /\ planificador'.en = "mirar"
        /\ UNCHANGED <<menu, grado, principal>>
    BY <1>1, <1>10 DEF Despachar, Planifica, Estructuras
  <2> QED
    BY <1>1, <2>1, CupoSigue
<1>11. CASE CambiarGrado
  BY <1>11 DEF CambiarGrado, Cupo
<1>12. ASSUME NEW g \in Grados, set_multiprog(g) PROVE Cupo'
  BY <1>12 DEF set_multiprog, Permite
<1>13. ASSUME NEW c \in CPUs, FinDeRafaga(c) \/ Finalizado(c) \/ FinErroneo(c) PROVE Cupo'
  <2>1. PICK p : p = corre[c]
    OBVIOUS
  <2>2. UNCHANGED <<menu, grado, principal, planificador>> /\ p # 0
    BY <1>13, <2>1 DEF FinDeRafaga, Finalizado, FinErroneo, hilos, DeCpu
  <2>3. p \in Pids /\ kernel.borrar[p] = 0
    BY <2>1, <2>2 DEF IInv, TypeOK, Pids, Exactitud, Tranquilo
  <2>4. kernel'.actuales = kernel.actuales \/ kernel'.actuales = kernel.actuales - 1
    <3>1. CASE FinDeRafaga(c)
      <4>1. kernel' = [kernel EXCEPT !.estado[p] = "Ready", !.ready = Append(@, p)]
        BY <2>1, <2>3, <3>1 DEF FinDeRafaga, proceso_para_borrar
      <4> QED
        BY <1>1, <4>1 DEF Estructuras
    <3>2. CASE Finalizado(c) \/ FinErroneo(c)
      <4>1. kernel' = [kernel EXCEPT !.reciente[p] = Nada, !.estado[p] = "Exit",
                                     !.actuales = @ - 1]
        BY <1>1, <2>1, <3>2, MovFinal DEF Exactitud
      <4> QED
        BY <1>1, <4>1 DEF Estructuras
    <3> QED
      BY <1>13, <3>1, <3>2
  <2> QED
    BY <1>1, <2>2, <2>4, CupoSigue
<1>14. ASSUME NEW c \in CPUs, NEW s \in Semaforos,
              WaitPasa(c, s) \/ WaitBloquea(c, s) \/ Signal(c, s)
       PROVE  Cupo'
  <2>1. UNCHANGED <<menu, grado, principal, planificador>>
    BY <1>14 DEF WaitPasa, WaitBloquea, Signal, hilos
  <2>2. kernel'.actuales = kernel.actuales
    <3>1. CASE WaitPasa(c, s)
      BY <1>1, <3>1 DEF WaitPasa, Estructuras
    <3>2. CASE WaitBloquea(c, s)
      BY <1>1, <3>2 DEF WaitBloquea, Estructuras
    <3>3. CASE Signal(c, s)
      BY <1>1, <3>3 DEF Signal, signal, Estructuras
    <3> QED
      BY <1>14, <3>1, <3>2, <3>3
  <2> QED
    BY <1>1, <2>1, <2>2, CupoSigue
<1> QED
  BY <1>4, <1>5, <1>6, <1>7, <1>8, <1>9, <1>10, <1>11, <1>12, <1>13, <1>14, PasosSinBajas
  DEF Exactitud

\* What the two threads have let in is at least what the books say.
LEMMA CupoAcota ==
  ASSUME IInv, Exactitud, Cupo
  PROVE  GradoAcotado
<1>1. kernel.actuales \in Int /\ grado \in Nat
  BY DEF IInv, TypeOK, Estructuras
<1>2. EnPlanificacion \in {0, 1} /\ EnMain \in {0, 1}
  BY DEF EnPlanificacion, EnMain
<1>3. kernel.actuales <= grado + 1
  BY <1>1, <1>2 DEF Cupo
<1> QED
  BY <1>3 DEF Exactitud, CuentaExacta, GradoAcotado

-----------------------------------------------------------------------------
(* The diagram of states *)

\* What CicloDeVida sees of the Kernel
Lugares == [p \in Pids |-> LugarDe(p)]
Cuentas == [s \in Semaforos |-> IF kernel.valor[s] > 0 THEN kernel.valor[s] ELSE 0]

\* A step that moves one process is that change of its state.
LEMMA MapaDeUno ==
  ASSUME NEW p \in Pids, NEW de, NEW a, Lleva(p, de, a)
  PROVE  Lugares[p] = de /\ Lugares' = [Lugares EXCEPT ![p] = a]
BY DEF Lleva, Lugares

\* A step that touches one semaphore is that change of its count.
LEMMA MapaDeCuenta ==
  ASSUME NEW s \in Semaforos, NEW n,
         \A r \in Semaforos \ {s} : kernel'.valor[r] = kernel.valor[r],
         n = IF kernel'.valor[s] > 0 THEN kernel'.valor[s] ELSE 0
  PROVE  Cuentas' = [Cuentas EXCEPT ![s] = n]
<1> DEFINE f(v) == [r \in Semaforos |-> IF v[r] > 0 THEN v[r] ELSE 0]
<1>1. Cuentas = f(kernel.valor) /\ Cuentas' = f(kernel'.valor)
  BY DEF Cuentas
<1>2. \A r \in Semaforos : f(kernel'.valor)[r] = [f(kernel.valor) EXCEPT ![s] = n][r]
  OBVIOUS
<1>3. f(kernel'.valor) = [f(kernel.valor) EXCEPT ![s] = n]
  BY <1>2
<1> QED
  BY <1>1, <1>3

\* An arrow of the diagram, with no semaphore in it.
LEMMA EsFlecha ==
  ASSUME NEW p \in Pids, NEW de, NEW a, Lleva(p, de, a),
         <<de, a>> \in Ciclo!Flechas,
         kernel'.cola = kernel.cola, kernel'.valor = kernel.valor
  PROVE  Ciclo!Next
<1>1. Lugares[p] = de /\ Lugares' = [Lugares EXCEPT ![p] = a]
  BY MapaDeUno
<1>2. Cuentas' = Cuentas
  BY DEF Cuentas
<1>3. Ciclo!Mover(p)
  <2>1. <<de, a>>[1] = de /\ <<de, a>>[2] = a
    OBVIOUS
  <2> QED
    BY <1>1, <1>2, <2>1 DEF Ciclo!Mover, Lugares, Cuentas
<1> QED
  BY <1>3 DEF Ciclo!Next

\* A step that the diagram does not see.
LEMMA EsTartamudeo ==
  ASSUME Quietud, kernel'.cola = kernel.cola, kernel'.valor = kernel.valor
  PROVE  UNCHANGED Ciclo!vars
<1>1. Lugares' = Lugares
  BY DEF Quietud, Lugares
<1>2. Cuentas' = Cuentas
  BY DEF Cuentas
<1> QED
  BY <1>1, <1>2 DEF Ciclo!vars, Lugares, Cuentas

\* The semaphores: a WAIT that passes takes a signal that nobody had taken,
LEMMA WaitPasaEsPasar ==
  ASSUME IInv, NEW c \in CPUs, NEW s \in Semaforos, WaitPasa(c, s)
  PROVE  Ciclo!Next
<1>1. PICK p : p = corre[c]
  OBVIOUS
<1>2. /\ kernel' = [kernel EXCEPT !.valor[s] = @ - 1] /\ kernel.valor[s] > 0
      /\ p # 0 /\ UNCHANGED <<new_queue, pid, planificador, principal, corre>>
  BY <1>1 DEF WaitPasa, DeCpu, hilos, cpus
<1>3. p \in Pids /\ Lugares[p] = "Exec"
  <2>1. p \in Pids /\ Corriendo(p)
    BY <1>1, <1>2 DEF IInv, TypeOK, Pids, Corriendo
  <2> QED
    BY <2>1, LugarUnico DEF EnSuLugar, Lugares
<1>4. kernel \in Estructuras /\ kernel.valor[s] \in Int
  BY DEF IInv, TypeOK, Estructuras
<1>5. /\ kernel'.cola = kernel.cola /\ kernel'.ready = kernel.ready
      /\ kernel'.valor = [kernel.valor EXCEPT ![s] = @ - 1]
  BY <1>2, <1>4 DEF Estructuras
<1>6. Lugares' = Lugares
  BY PasosQuietos DEF Quietud, Lugares
<1>7. Cuentas[s] > 0 /\ Cuentas' = [Cuentas EXCEPT ![s] = Cuentas[s] - 1]
  <2>1. Cuentas[s] = kernel.valor[s]
    BY <1>2 DEF Cuentas
  <2>2. kernel'.valor[s] = kernel.valor[s] - 1
        /\ \A r \in Semaforos \ {s} : kernel'.valor[r] = kernel.valor[r]
    BY <1>4, <1>5 DEF Estructuras
  <2>3. kernel.valor[s] - 1 = IF kernel'.valor[s] > 0 THEN kernel'.valor[s] ELSE 0
    BY <1>2, <1>4, <2>2
  <2> QED
    BY <1>2, <2>1, <2>2, <2>3, MapaDeCuenta
<1>8. Ciclo!Pasar(p, s)
  BY <1>3, <1>5, <1>6, <1>7 DEF Ciclo!Pasar, Lugares, Cuentas
<1> QED
  BY <1>3, <1>8 DEF Ciclo!Next

\* one that blocks finds none,
LEMMA WaitBloqueaEsBloquear ==
  ASSUME IInv, IInv', NEW c \in CPUs, NEW s \in Semaforos, WaitBloquea(c, s)
  PROVE  Ciclo!Next
<1>1. PICK p : p = corre[c]
  OBVIOUS
<1>2. /\ p \in Pids /\ Lleva(p, "Exec", "Block")
      /\ kernel'.cola = [kernel.cola EXCEPT ![s] = Append(@, p)]
  BY <1>1, MovBloquea
<1>3. Lugares[p] = "Exec" /\ Lugares' = [Lugares EXCEPT ![p] = "Block"]
  BY <1>2, MapaDeUno
<1>4. kernel \in Estructuras /\ kernel.valor[s] \in Int
  BY DEF IInv, TypeOK, Estructuras
<1>5. /\ kernel' = [kernel EXCEPT !.valor[s] = @ - 1, !.estado[p] = "Block",
                                  !.cola[s] = Append(@, p)]
      /\ kernel.valor[s] <= 0
  BY <1>1 DEF WaitBloquea
<1>6. \A r \in Semaforos : kernel'.valor[r] = IF r = s THEN kernel.valor[s] - 1 ELSE kernel.valor[r]
  BY <1>4, <1>5 DEF Estructuras
<1>7. Cuentas[s] = 0 /\ Cuentas' = Cuentas
  BY <1>4, <1>5, <1>6 DEF Cuentas
<1>8. Ciclo!Bloquear(p, s)
  BY <1>2, <1>3, <1>7 DEF Ciclo!Bloquear, Lugares, Cuentas
<1> QED
  BY <1>2, <1>8 DEF Ciclo!Next

\* and a SIGNAL wakes the process that has waited the longest, or is left.
LEMMA SignalEsDespertarODejar ==
  ASSUME IInv, IInv', Exactitud, NEW c \in CPUs, NEW s \in Semaforos, Signal(c, s)
  PROVE  Ciclo!Next
<1>1. PICK p : p = corre[c]
  OBVIOUS
<1>2. p \in Pids /\ Lugares[p] = "Exec"
  <2>1. p \in Pids /\ Corriendo(p)
    <3>1. p # 0
      BY <1>1 DEF Signal, DeCpu
    <3>2. p \in Pids
      BY SMTT(20), <1>1, <3>1 DEF IInv, TypeOK, Pids
    <3> QED
      BY <1>1, <3>2 DEF Corriendo
  <2> QED
    BY <2>1, LugarUnico DEF EnSuLugar, Lugares
<1>3. /\ kernel \in Estructuras /\ kernel.valor[s] \in Int /\ kernel.cola[s] \in Seq(Pids)
      /\ Len(kernel.cola[s]) = IF kernel.valor[s] < 0 THEN -kernel.valor[s] ELSE 0
  BY DEF IInv, TypeOK, Estructuras, Exactitud, SemaforoExacto
<1>4. CASE kernel.cola[s] # <<>>
  <2>1. PICK q : q = Head(kernel.cola[s])
    OBVIOUS
  <2>2. q \in Pids
    BY <1>3, <1>4, <2>1, DelPrincipio
  <2>3. kernel.borrar[q] = 0
    BY <2>2 DEF Exactitud, Tranquilo
  <2>4. /\ Lleva(q, "Block", "Ready")
        /\ kernel'.cola = [kernel.cola EXCEPT ![s] = Tail(@)]
    BY <1>4, <2>1, <2>3, MovSignal
  <2>5. Lugares' = [Lugares EXCEPT ![q] = "Ready"]
    BY <2>2, <2>4, MapaDeUno
  <2>6. kernel'.valor = [kernel.valor EXCEPT ![s] = @ + 1]
    <3>1. kernel' = signal(kernel, s)
      BY DEF Signal
    <3> QED
      BY <1>3, <1>4, <3>1 DEF signal, Estructuras
  <2>7. kernel.valor[s] < 0
    BY <1>3, <1>4, EmptySeq
  <2>8. Cuentas' = Cuentas
    <3>1. \A r \in Semaforos :
            kernel'.valor[r] = IF r = s THEN kernel.valor[s] + 1 ELSE kernel.valor[r]
      BY <1>3, <2>6 DEF Estructuras
    <3>2. ~(kernel.valor[s] > 0) /\ ~(kernel'.valor[s] > 0)
      BY <1>3, <2>7, <3>1
    <3> QED
      BY <3>1, <3>2 DEF Cuentas
  <2>9. Ciclo!Despertar(p, s)
    BY <1>2, <1>4, <2>1, <2>4, <2>5, <2>8 DEF Ciclo!Despertar, Lugares, Cuentas
  <2> QED
    BY <1>2, <2>9 DEF Ciclo!Next
<1>5. CASE kernel.cola[s] = <<>>
  <2>1. /\ Quietud /\ kernel'.cola = kernel.cola
        /\ kernel' = [kernel EXCEPT !.valor[s] = @ + 1]
    BY <1>5, SignalAlAire
  <2>2. Lugares' = Lugares
    BY <2>1 DEF Quietud, Lugares
  <2>3. kernel.valor[s] >= 0
    <3>1. Len(kernel.cola[s]) = 0
      BY <1>5, EmptySeq
    <3> QED
      BY <1>3, <3>1
  <2>4. Cuentas' = [Cuentas EXCEPT ![s] = Cuentas[s] + 1]
    <3>1. Cuentas[s] = kernel.valor[s]
      BY <1>3, <2>3 DEF Cuentas
    <3>2. kernel'.valor[s] = kernel.valor[s] + 1
          /\ \A r \in Semaforos \ {s} : kernel'.valor[r] = kernel.valor[r]
      BY <1>3, <2>1 DEF Estructuras
    <3>3. kernel.valor[s] + 1 = IF kernel'.valor[s] > 0 THEN kernel'.valor[s] ELSE 0
      BY <1>3, <2>3, <3>2
    <3> QED
      BY <3>1, <3>2, <3>3, MapaDeCuenta
  <2>5. Ciclo!Dejar(p, s)
    BY <1>2, <1>5, <2>1, <2>2, <2>4 DEF Ciclo!Dejar, Lugares, Cuentas
  <2> QED
    BY <1>2, <2>5 DEF Ciclo!Next
<1> QED
  BY <1>4, <1>5

\* The Kernel starts where the diagram starts,
LEMMA InicioDelCiclo == Init => Ciclo!Init
<1> SUFFICES ASSUME Init PROVE Ciclo!Init
  OBVIOUS
<1>1. ASSUME NEW p \in Pids PROVE LugarDe(p) = "NoExiste"
  <2>1. p > pid
    BY DEF Init, Pids
  <2> QED
    BY <2>1, InicioUbicado, LugarUnico DEF EnSuLugar
<1>2. \A s \in Semaforos : kernel.cola[s] = <<>> /\ kernel.valor[s] = Inicial
  BY DEF Init
<1>3. kernel.cola = [s \in Semaforos |-> <<>>]
  BY DEF Init
<1>4. \A s \in Semaforos :
        (IF kernel.valor[s] > 0 THEN kernel.valor[s] ELSE 0) = Inicial
  BY <1>2, PlanificadorAssumption
<1> QED
  BY <1>1, <1>3, <1>4 DEF Ciclo!Init

\* and every step it takes is an arrow, a use of a semaphore, or none.
LEMMA PasoDelCiclo ==
  ASSUME SinBajas
  PROVE  IInv /\ Exactitud /\ [Next]_vars => [Ciclo!Next]_Ciclo!vars
<1> SUFFICES ASSUME IInv, Exactitud, [Next]_vars PROVE [Ciclo!Next]_Ciclo!vars
  OBVIOUS
<1>1. IInv' /\ kernel \in Estructuras
  BY PasoUbicado DEF IInv, TypeOK
<1>2. CASE \/ MirarPlan \/ Esperar \/ Admitir \/ RechazarPrograma \/ EncolarPrograma
           \/ AlternarPlan \/ CambiarGrado \/ UNCHANGED vars
           \/ \E c \in CPUs : ConectarCpu(c)
           \/ \E g \in Grados : set_multiprog(g)
  <2>1. Quietud
    BY <1>2, PasosQuietos
  <2>2. kernel' = kernel
    BY <1>2 DEF MirarPlan, Esperar, Admitir, RechazarPrograma, EncolarPrograma, AlternarPlan,
                CambiarGrado, vars, ConectarCpu, set_multiprog
  <2> QED
    BY <2>1, <2>2, EsTartamudeo
<1>3. CASE NuevoPrograma
  <2>1. PICK p : p = pid + 1
    OBVIOUS
  <2>2. p \in Pids /\ Lleva(p, "NoExiste", "New") /\ kernel'.cola = kernel.cola
    BY <1>1, <1>3, <2>1, MovNuevo
  <2>3. kernel'.valor = kernel.valor
    BY <1>1, <1>3 DEF NuevoPrograma, Estructuras
  <2>4. <<"NoExiste", "New">> \in Ciclo!Flechas
    BY DEF Ciclo!Flechas
  <2> QED
    BY <2>2, <2>3, <2>4, EsFlecha
<1>4. CASE GuardarDeNew \/ GuardarPrograma
  <2>1. PICK p \in Pids, hay \in Respuestas :
           /\ EnManos(p)
           /\ kernel' = guardado_en_memoria(kernel, p, hay)
           /\ UNCHANGED <<new_queue, pid, corre>>
           /\ \A q \in Pids : EnManos(q)' <=> EnManos(q) /\ q # p
    BY <1>4, ManosDeGuardar
  <2>2. hay \in BOOLEAN
    BY DEF Respuestas
  <2> DEFINE a == IF hay THEN "Ready" ELSE "Exit"
  <2>3. Lleva(p, "New", a) /\ kernel'.cola = kernel.cola
    BY <1>1, <2>1, <2>2, MovGuardar
  <2>4. kernel'.valor = kernel.valor
    BY <1>1, <2>1 DEF guardado_en_memoria, Estructuras
  <2>5. <<"New", a>> \in Ciclo!Flechas
    BY DEF Ciclo!Flechas
  <2> HIDE DEF a
  <2> QED
    BY <2>3, <2>4, <2>5, EsFlecha
<1>5. CASE Despachar /\ kernel.ready # <<>> /\ CpusLibres # {}
  <2>1. PICK p, c : p = Head(kernel.ready) /\ c = buscar_cpu_libre
    OBVIOUS
  <2>2. p \in Pids /\ Lleva(p, "Ready", "Exec") /\ kernel'.cola = kernel.cola
    BY <1>1, <1>5, <2>1, MovDespachar DEF Exactitud, Tranquilo
  <2>3. kernel'.valor = kernel.valor
    BY <1>1, <1>5 DEF Despachar, Estructuras
  <2>4. <<"Ready", "Exec">> \in Ciclo!Flechas
    BY DEF Ciclo!Flechas
  <2> QED
    BY <2>2, <2>3, <2>4, EsFlecha
<1>6. CASE Despachar /\ ~(kernel.ready # <<>> /\ CpusLibres # {})
  <2>1. /\ UNCHANGED <<kernel, corre, principal, new_queue, pid>>
        /\ planificador.en = "despachar" /\ planificador'.en = "mirar"
    BY <1>6 DEF Despachar, Planifica
  <2>2. \A q \in Pids : EnNew(q)' <=> EnNew(q)
    BY <2>1 DEF EnNew, EnManos
  <2>3. Quietud
    BY <2>1, <2>2, QuietoSiIguales, LugarQuieto DEF Quietud
  <2> QED
    BY <2>1, <2>3, EsTartamudeo
<1>7. ASSUME NEW c \in CPUs, FinDeRafaga(c) \/ Finalizado(c) \/ FinErroneo(c)
      PROVE  Ciclo!Next
  <2>1. PICK p : p = corre[c]
    OBVIOUS
  <2>2. p \in Pids /\ kernel.borrar[p] = 0
    <3>1. p # 0
      BY <1>7, <2>1 DEF FinDeRafaga, Finalizado, FinErroneo, DeCpu
    <3> QED
      BY <2>1, <3>1 DEF IInv, TypeOK, Pids, Exactitud, Tranquilo
  <2>3. CASE FinDeRafaga(c)
    <3>1. Lleva(p, "Exec", "Ready") /\ kernel'.cola = kernel.cola
      BY <1>1, <2>1, <2>2, <2>3, MovRafaga
    <3>2. kernel' = [kernel EXCEPT !.estado[p] = "Ready", !.ready = Append(@, p)]
      BY <2>1, <2>2, <2>3 DEF FinDeRafaga, proceso_para_borrar
    <3>3. kernel'.valor = kernel.valor
      BY <1>1, <3>2 DEF Estructuras
    <3>4. <<"Exec", "Ready">> \in Ciclo!Flechas
      BY DEF Ciclo!Flechas
    <3> QED
      BY <2>2, <3>1, <3>3, <3>4, EsFlecha
  <2>4. CASE Finalizado(c) \/ FinErroneo(c)
    <3>1. /\ Lleva(p, "Exec", "Exit") /\ kernel'.cola = kernel.cola
          /\ kernel' = [kernel EXCEPT !.reciente[p] = Nada, !.estado[p] = "Exit",
                                      !.actuales = @ - 1]
      BY <1>1, <2>1, <2>4, MovFinal DEF Exactitud
    <3>2. kernel'.valor = kernel.valor
      BY <1>1, <3>1 DEF Estructuras
    <3>3. <<"Exec", "Exit">> \in Ciclo!Flechas
      BY DEF Ciclo!Flechas
    <3> QED
      BY <2>2, <3>1, <3>2, <3>3, EsFlecha
  <2> QED
    BY <1>7, <2>3, <2>4
<1>8. ASSUME NEW c \in CPUs, NEW s \in Semaforos,
             WaitPasa(c, s) \/ WaitBloquea(c, s) \/ Signal(c, s)
      PROVE  Ciclo!Next
  BY <1>1, <1>8, WaitPasaEsPasar, WaitBloqueaEsBloquear, SignalEsDespertarODejar
<1> QED
  BY <1>2, <1>3, <1>4, <1>5, <1>6, <1>7, <1>8, PasosSinBajas DEF Exactitud

-----------------------------------------------------------------------------
(* Theorems *)

\* While nobody ends a process from outside, procesos_actuales counts the processes
\* admitted, a negative semaphore those that wait for it, and the Kernel knows what
\* each CPU executes.
THEOREM LosLibrosSonExactos ==
  ASSUME SinBajas
  PROVE  Spec => [](CuentaExacta /\ SemaforoExacto /\ CpuAcorde)
<1>1. Init => IInv /\ Exactitud
  BY InicioUbicado, InicioExacto
<1>2. IInv /\ Exactitud /\ [Next]_vars => IInv' /\ Exactitud'
  BY PasoUbicado, PasoExacto
<1>3. Exactitud => CuentaExacta /\ SemaforoExacto /\ CpuAcorde
  BY DEF Exactitud, Tranquilo
<1> QED
  BY <1>1, <1>2, <1>3, PTL DEF Spec

\* If the operator does not lower the degree either, it is exceeded by one at most,
\* although two threads admit processes and each counts its own late.
THEOREM LibrosYGrado ==
  ASSUME SinBajas, "grado" \notin Ordenes
  PROVE  Spec => []LibrosExactos
<1>1. Init => IInv /\ Exactitud /\ Cupo
  <2>1. Init => Cupo
    BY PlanificadorAssumption DEF Init, Cupo, EnPlanificacion, EnMain
  <2> QED
    BY <2>1, InicioUbicado, InicioExacto
<1>2. IInv /\ Exactitud /\ Cupo /\ [Next]_vars => IInv' /\ Exactitud' /\ Cupo'
  BY PasoUbicado, PasoExacto, PasoCupo
<1>3. IInv /\ Exactitud /\ Cupo => LibrosExactos
  BY CupoAcota DEF Exactitud, Tranquilo, LibrosExactos
<1> QED
  BY <1>1, <1>2, <1>3, PTL DEF Spec

\* While nobody ends a process from outside, the Kernel implements the diagram of
\* states: each process goes along its arrows and each signal of a semaphore is
\* handed to the process that has waited the longest, or to the next that waits.
THEOREM ImplementaElCiclo ==
  ASSUME SinBajas
  PROVE  Spec => ImplementaCiclo
<1>1. Init => IInv /\ Exactitud /\ Ciclo!Init
  BY InicioUbicado, InicioExacto, InicioDelCiclo
<1>2. IInv /\ Exactitud /\ [Next]_vars => IInv' /\ Exactitud' /\ [Ciclo!Next]_Ciclo!vars
  BY PasoUbicado, PasoExacto, PasoDelCiclo
<1> QED
  BY <1>1, <1>2, PTL DEF Spec, ImplementaCiclo, Ciclo!Spec
=============================================================================
