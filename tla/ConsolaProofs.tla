--------------------------- MODULE ConsolaProofs ---------------------------
(***************************************************************************)
(* The Consola and the end of its connections in the Kernel, for every     *)
(* number of programs, of CPUs and of commands.                            *)
(*                                                                         *)
(* The invariants are stated of a kernel k, of what waits to be read a, of *)
(* the threads hs and of the connections cx, so that the lemmas about the  *)
(* functions of the Kernel need no primes.                                 *)
(***************************************************************************)
EXTENDS Consola, TLAPS, FiniteSetTheorems, SequenceTheorems, WellFoundedInduction

-----------------------------------------------------------------------------
(* Sequences *)

LEMMA MinimoEsta ==
  ASSUME NEW S \in SUBSET Nat, S # {}
  PROVE  Min(S) \in S /\ \A y \in S : Min(S) <= y
  <1> DEFINE R == {ss \in Nat \X Nat : ss[1] < ss[2]}
  <1>1. R = OpToRel(<, Nat)
    BY DEF OpToRel
  <1>2. \A x, y \in Nat : <<y, x>> \notin R => x <= y
    OBVIOUS
  <1> HIDE DEF R
  <1>3. IsWellFoundedOn(R, Nat)
    BY <1>1, NatLessThanWellFounded
  <1>4. PICK x \in S : \A y \in S : <<y, x>> \notin R
    BY <1>3, WFMin
  <1>5. \A y \in S : x <= y
    BY <1>2, <1>4
  <1> QED BY <1>5 DEF Min

LEMMA ElementoDe ==
  ASSUME NEW S, NEW s \in Seq(S), NEW i \in DOMAIN s
  PROVE  s[i] \in S
  OBVIOUS

\* What RemoveAt leaves
LEMMA Quitar ==
  ASSUME NEW S, NEW s \in Seq(S), NEW i \in DOMAIN s
  PROVE  /\ RemoveAt(s, i) \in Seq(S)
         /\ Len(RemoveAt(s, i)) = Len(s) - 1
         /\ \A j \in 1 .. i - 1 : RemoveAt(s, i)[j] = s[j]
         /\ \A j \in i .. Len(s) - 1 : RemoveAt(s, i)[j] = s[j + 1]
  <1>n. PICK n : n = Len(s)
    OBVIOUS
  <1>0. n \in Nat /\ i \in 1 .. n /\ \A j \in 1 .. n : s[j] \in S
    BY <1>n
  <1> DEFINE antes   == SubSeq(s, 1, i - 1)
             despues == SubSeq(s, i + 1, n)
  <1>1. /\ antes \in Seq(S) /\ Len(antes) = i - 1
        /\ \A j \in 1 .. i - 1 : antes[j] = s[j]
    <2>1. 1 \in Int /\ i - 1 \in Int /\ \A j \in 1 .. i - 1 : s[j] \in S
      BY <1>0
    <2>2. /\ antes \in Seq(S) /\ Len(antes) = IF 1 <= i - 1 THEN (i - 1) - 1 + 1 ELSE 0
          /\ \A j \in 1 .. (i - 1) - 1 + 1 : antes[j] = s[1 + j - 1]
      BY <2>1, SubSeqProperties
    <2> QED BY <2>2, <1>0
  <1>2. /\ despues \in Seq(S) /\ Len(despues) = n - i
        /\ \A j \in 1 .. n - i : despues[j] = s[i + j]
    <2>1. n \in Int /\ i + 1 \in Int /\ \A j \in i + 1 .. n : s[j] \in S
      BY <1>0
    <2>2. /\ despues \in Seq(S)
          /\ Len(despues) = IF i + 1 <= n THEN n - (i + 1) + 1 ELSE 0
          /\ \A j \in 1 .. n - (i + 1) + 1 : despues[j] = s[(i + 1) + j - 1]
      BY <2>1, SubSeqProperties
    <2>3. \A j \in 1 .. n - i : (i + 1) + j - 1 = i + j
      BY <1>0
    <2> QED BY <2>2, <2>3, <1>0
  <1>3. RemoveAt(s, i) = antes \o despues
    BY <1>n DEF RemoveAt
  <1> HIDE DEF antes, despues
  <1>4. /\ antes \o despues \in Seq(S)
        /\ Len(antes \o despues) = n - 1
        /\ \A j \in 1 .. i - 1 : (antes \o despues)[j] = s[j]
        /\ \A j \in 1 .. n - i : (antes \o despues)[(i - 1) + j] = s[i + j]
    <2>1. Len(antes) + Len(despues) = n - 1
      BY <1>0, <1>1, <1>2
    <2>2. /\ antes \o despues \in Seq(S)
          /\ Len(antes \o despues) = Len(antes) + Len(despues)
          /\ \A j \in 1 .. Len(antes) + Len(despues) :
               (antes \o despues)[j] = IF j <= Len(antes) THEN antes[j]
                                      ELSE despues[j - Len(antes)]
      BY <1>1, <1>2, ConcatProperties
    <2>3. \A j \in 1 .. n - 1 :
             (antes \o despues)[j] = IF j <= i - 1 THEN antes[j] ELSE despues[j - (i - 1)]
      BY <2>1, <2>2, <1>1
    <2>4. ASSUME NEW j \in 1 .. i - 1
          PROVE  (antes \o despues)[j] = s[j]
      <3>1. j \in 1 .. n - 1 /\ j <= i - 1
        BY <1>0
      <3> QED BY <3>1, <2>3, <1>1
    <2>5. ASSUME NEW j \in 1 .. n - i
          PROVE  (antes \o despues)[(i - 1) + j] = s[i + j]
      <3>m. PICK m : m = (i - 1) + j
        OBVIOUS
      <3>1. m \in 1 .. n - 1 /\ ~(m <= i - 1) /\ m - (i - 1) = j
        <4>1. i \in Nat /\ j \in Nat /\ n \in Nat /\ i >= 1 /\ j >= 1 /\ j <= n - i
          BY <1>0
        <4>2. m \in Nat /\ m = (i - 1) + j
          BY <3>m, <4>1
        <4>3. m <= n - 1 /\ 1 <= m /\ ~(m <= i - 1)
          BY <4>1, <4>2
        <4>4. m - (i - 1) = j
          BY <4>1, <4>2
        <4> QED BY <4>1, <4>2, <4>3, <4>4
      <3>2. (antes \o despues)[m] = despues[m - (i - 1)]
        BY <3>1, <2>3
      <3> QED BY <3>1, <3>2, <3>m, <1>2
    <2> QED BY <2>1, <2>2, <2>4, <2>5
  <1>5. ASSUME NEW j \in i .. n - 1
        PROVE  RemoveAt(s, i)[j] = s[j + 1]
    <2>m. PICK m : m = j - (i - 1)
      OBVIOUS
    <2>1. m \in 1 .. n - i /\ (i - 1) + m = j /\ i + m = j + 1
      <3>1. i \in Nat /\ j \in Nat /\ n \in Nat /\ i <= j /\ j <= n - 1
        BY <1>0
      <3> QED BY <2>m, <3>1
    <2>2. (antes \o despues)[(i - 1) + m] = s[i + m]
      BY <2>1, <1>4
    <2> QED BY <2>1, <2>2, <1>3
  <1> QED BY <1>3, <1>4, <1>5, <1>n

LEMMA QuitarTipo ==
  ASSUME NEW S, NEW s \in Seq(S), NEW i \in Nat, i <= Len(s)
  PROVE  RemoveAt(s, i) \in Seq(S)
  <1>n. PICK n : n = Len(s)
    OBVIOUS
  <1>0. n \in Nat /\ \A j \in 1 .. n : s[j] \in S
    BY <1>n
  <1>1. 1 \in Int /\ i - 1 \in Int /\ i + 1 \in Int /\ n \in Int
    BY <1>0
  <1>2. (\A j \in 1 .. i - 1 : s[j] \in S) /\ (\A j \in i + 1 .. n : s[j] \in S)
    BY <1>0, <1>n
  <1>3. SubSeq(s, 1, i - 1) \in Seq(S) /\ SubSeq(s, i + 1, n) \in Seq(S)
    BY <1>1, <1>2, SubSeqProperties
  <1>4. SubSeq(s, 1, i - 1) \o SubSeq(s, i + 1, n) \in Seq(S)
    BY <1>3, ConcatProperties
  <1> QED BY <1>4, <1>n DEF RemoveAt

\* Every element but one
LEMMA QuitarDeja ==
  ASSUME NEW S, NEW s \in Seq(S), NEW i \in DOMAIN s
  PROVE  /\ \A j \in DOMAIN RemoveAt(s, i) :
              \E m \in DOMAIN s : m # i /\ RemoveAt(s, i)[j] = s[m]
         /\ \A m \in DOMAIN s : m # i =>
              \E j \in DOMAIN RemoveAt(s, i) : RemoveAt(s, i)[j] = s[m]
  <1>n. PICK n : n = Len(s)
    OBVIOUS
  <1>t. PICK t : t = RemoveAt(s, i)
    OBVIOUS
  <1>0. n \in Nat /\ i \in 1 .. n /\ DOMAIN s = 1 .. n
    BY <1>n
  <1>1. /\ t \in Seq(S) /\ Len(t) = n - 1
        /\ \A j \in 1 .. i - 1 : t[j] = s[j]
        /\ \A j \in i .. n - 1 : t[j] = s[j + 1]
    BY <1>n, <1>t, Quitar
  <1>2. DOMAIN t = 1 .. n - 1
    BY <1>1
  <1>3. ASSUME NEW j \in 1 .. n - 1
        PROVE  \E m \in 1 .. n : m # i /\ t[j] = s[m]
    <2>1. CASE j \in 1 .. i - 1
      <3>1. j \in 1 .. n /\ j # i
        BY <2>1, <1>0
      <3> QED BY <3>1, <2>1, <1>1
    <2>2. CASE j \in i .. n - 1
      <3>1. j + 1 \in 1 .. n /\ j + 1 # i
        BY <2>2, <1>0
      <3> QED BY <3>1, <2>2, <1>1
    <2> QED BY <2>1, <2>2, <1>0
  <1>4. ASSUME NEW m \in 1 .. n, m # i
        PROVE  \E j \in 1 .. n - 1 : t[j] = s[m]
    <2>1. CASE m < i
      <3>1. m \in 1 .. i - 1 /\ m \in 1 .. n - 1
        BY <2>1, <1>0
      <3> QED BY <3>1, <1>1
    <2>2. CASE m > i
      <3>1. m - 1 \in i .. n - 1 /\ (m - 1) + 1 = m /\ m - 1 \in 1 .. n - 1
        BY <2>2, <1>0
      <3> QED BY <3>1, <1>1
    <2> QED BY <2>1, <2>2, <1>4, <1>0
  <1> QED BY <1>0, <1>2, <1>3, <1>4, <1>t

\* An element more, at the end
LEMMA Agregar ==
  ASSUME NEW S, NEW s \in Seq(S), NEW x \in S
  PROVE  /\ Append(s, x) \in Seq(S) /\ DOMAIN Append(s, x) = 1 .. Len(s) + 1
         /\ \A j \in DOMAIN Append(s, x) :
              \/ j \in DOMAIN s /\ Append(s, x)[j] = s[j]
              \/ j = Len(s) + 1 /\ Append(s, x)[j] = x
         /\ \A j \in DOMAIN s : j \in DOMAIN Append(s, x) /\ Append(s, x)[j] = s[j]
         /\ Len(s) + 1 \in DOMAIN Append(s, x) /\ Append(s, x)[Len(s) + 1] = x
  <1>n. PICK n : n = Len(s)
    OBVIOUS
  <1>0. n \in Nat /\ DOMAIN s = 1 .. n
    BY <1>n
  <1>1. /\ Append(s, x) \in Seq(S) /\ Len(Append(s, x)) = n + 1
        /\ \A j \in 1 .. n : Append(s, x)[j] = s[j]
        /\ Append(s, x)[n + 1] = x
    BY <1>n, AppendProperties
  <1>2. DOMAIN Append(s, x) = 1 .. n + 1
    BY <1>1
  <1> QED BY <1>0, <1>1, <1>2, <1>n

-----------------------------------------------------------------------------
(* What the Kernel sends *)

DelHilo == [en : Lugares, numero : Nat, pid : Pids \cup {0}, i : Nat, dimension : Nat,
            avisado : BOOLEAN]

LasConexiones == [Conexiones -> {"nada", "abierta", "cerrada", "quitada"}]

\* What Muere leaves
Caido(k, j) ==
  /\ j \in Estructuras /\ j.vivo = FALSE
  /\ j.newfd = Nada /\ j.lista_consolas = <<>> /\ j.borrar = <<>> /\ j.nuevos = <<>>
  /\ j.pid = PidPrevios /\ j.fd_consola = [p \in Pids |-> Nada]
  /\ j.terminados = Pids

\* All but canal and rotas
Iguales(k, j) ==
  /\ j \in Estructuras /\ j.vivo = k.vivo
  /\ j.newfd = k.newfd /\ j.lista_consolas = k.lista_consolas
  /\ j.borrar = k.borrar /\ j.nuevos = k.nuevos
  /\ j.pid = k.pid /\ j.fd_consola = k.fd_consola
  /\ j.estado = k.estado /\ j.terminados = k.terminados

\* One of the two, and messages put at the end of the channel c
Enviado(k, j, c, m) ==
  /\ Caido(k, j) \/ Iguales(k, j)
  /\ \/ j.canal = k.canal
     \/ /\ c \in Conexiones /\ conexion[c] = "abierta"
        /\ j.canal = [k.canal EXCEPT ![c] = k.canal[c] \o m]

LEMMA CaidaDelKernel ==
  ASSUME NEW k \in Estructuras
  PROVE  Caido(k, Muere(k)) /\ Muere(k).canal = k.canal
  <1> DEFINE j == Muere(k)
  <1>1. /\ PidPrevios \in Nat /\ <<>> \in Seq([sock : Conexiones, proceso : Nat])
        /\ <<>> \in Seq([pid : Pids, fd : Conexiones])
        /\ <<>> \in Seq([proceso : Pids, exit_code : {-6, -7}, connection : BOOLEAN,
                         askeadora : Conexiones])
    BY ConsolaAssumption
  <1>2. k.canal \in [Conexiones -> Seq(Mensajes)]
    BY DEF Estructuras
  <1>3. j = [vivo |-> FALSE, newfd |-> Nada, lista_consolas |-> <<>>, borrar |-> <<>>,
             pid |-> PidPrevios, nuevos |-> <<>>, estado |-> [p \in Pids |-> "NoExiste"],
             fd_consola |-> [p \in Pids |-> Nada], terminados |-> Pids,
             canal |-> k.canal, rotas |-> {}]
    <2>e. PICK e : e = [p \in Pids |-> "NoExiste"]
      OBVIOUS
    <2>f. PICK f : f = [p \in Pids |-> Nada]
      OBVIOUS
    <2>c. PICK c : c = [x \in Conexiones |-> <<>>]
      OBVIOUS
    <2>1. EnBlanco = [vivo |-> TRUE, newfd |-> Nada, lista_consolas |-> <<>>, borrar |-> <<>>,
                      pid |-> PidPrevios, nuevos |-> <<>>, estado |-> e, fd_consola |-> f,
                      terminados |-> {}, canal |-> c, rotas |-> {}]
      BY <2>e, <2>f, <2>c, Zenon DEF EnBlanco
    <2>2. j = [EnBlanco EXCEPT !.vivo = FALSE, !.canal = k.canal, !.terminados = Pids]
      BY DEF Muere
    <2>3. j = [vivo |-> FALSE, newfd |-> Nada, lista_consolas |-> <<>>, borrar |-> <<>>,
               pid |-> PidPrevios, nuevos |-> <<>>, estado |-> e, fd_consola |-> f,
               terminados |-> Pids, canal |-> k.canal, rotas |-> {}]
      <3> HIDE DEF j
      <3> QED BY <2>1, <2>2
    <2> QED BY <2>3, <2>e, <2>f, Zenon
  <1> HIDE DEF j
  <1>4. j \in Estructuras
    BY <1>1, <1>2, <1>3 DEF Estructuras
  <1>5. /\ j.vivo = FALSE /\ j.canal = k.canal
        /\ j.newfd = Nada /\ j.lista_consolas = <<>> /\ j.borrar = <<>> /\ j.nuevos = <<>>
        /\ j.pid = PidPrevios /\ j.fd_consola = [p \in Pids |-> Nada]
        /\ j.terminados = Pids
    BY <1>3
  <1> QED BY <1>4, <1>5 DEF Caido, j

\* What writing to one connection, or to all of them, leaves
LEMMA CanalCambia ==
  ASSUME NEW k, k \in Estructuras, NEW ch \in [Conexiones -> Seq(Mensajes)], NEW j,
         j = [k EXCEPT !.canal = ch]
  PROVE  Iguales(k, j) /\ j.canal = ch
  <1>1. j \in Estructuras /\ j.canal = ch
    BY DEF Estructuras
  <1>2. Iguales(k, j)
    BY <1>1 DEF Iguales, Estructuras
  <1> QED BY <1>1, <1>2

Escribe(k, c, s) == [k EXCEPT !.canal[c] = s]

LEMMA UnCanal ==
  ASSUME NEW k, k \in Estructuras, NEW c \in Conexiones, NEW s \in Seq(Mensajes), NEW j,
         j = Escribe(k, c, s)
  PROVE  /\ Iguales(k, j) /\ j.canal[c] = s
         /\ \A d \in Conexiones : d # c => j.canal[d] = k.canal[d]
  <1>ch. PICK ch : ch = [k.canal EXCEPT ![c] = s]
    OBVIOUS
  <1>0. k.canal \in [Conexiones -> Seq(Mensajes)]
    BY DEF Estructuras
  <1>1. ch \in [Conexiones -> Seq(Mensajes)] /\ j = [k EXCEPT !.canal = ch]
    BY <1>0, <1>ch DEF Escribe
  <1>2. Iguales(k, j) /\ j.canal = ch
    BY <1>1, CanalCambia
  <1>3. ch[c] = s /\ \A d \in Conexiones : d # c => ch[d] = k.canal[d]
    BY <1>0, <1>ch
  <1> QED BY <1>2, <1>3

LEMMA EnviaHace ==
  ASSUME NEW k \in Estructuras, NEW c \in Conexiones \cup {Nada}, NEW m \in Seq(Mensajes)
  PROVE  Enviado(k, Envia(k, c, m), c, m)
  <1>0. Iguales(k, k)
    BY DEF Iguales
  <1>1. CASE c = Nada \/ conexion[c] = "quitada"
    <2>1. Envia(k, c, m) = k
      BY <1>1 DEF Envia
    <2> QED BY <2>1, <1>0 DEF Enviado
  <1>2. CASE ~(c = Nada \/ conexion[c] = "quitada") /\ conexion[c] = "abierta"
    <2>1. c \in Conexiones
      BY <1>2
    <2>j. PICK j : j = [k EXCEPT !.canal[c] = @ \o m]
      OBVIOUS
    <2>2. Envia(k, c, m) = j
      BY <1>2, <2>j DEF Envia
    <2>3. k.canal \in [Conexiones -> Seq(Mensajes)]
      BY DEF Estructuras
    <2>x. PICK x : x = [k.canal EXCEPT ![c] = k.canal[c] \o m]
      OBVIOUS
    <2>4. k.canal[c] \o m \in Seq(Mensajes)
      BY <2>1, <2>3, ConcatProperties
    <2>5. x \in [Conexiones -> Seq(Mensajes)]
      BY <2>3, <2>4, <2>x
    <2>6. j = [k EXCEPT !.canal = x]
      BY <2>j, <2>x
    <2>7. Iguales(k, j) /\ j.canal = x
      BY <2>5, <2>6, CanalCambia
    <2> QED BY <1>2, <2>1, <2>2, <2>7, <2>x DEF Enviado
  <1>3. CASE /\ ~(c = Nada \/ conexion[c] = "quitada") /\ conexion[c] # "abierta"
             /\ c \in k.rotas
    <2>1. Envia(k, c, m) = Muere(k)
      BY <1>3 DEF Envia
    <2> QED BY <2>1, CaidaDelKernel DEF Enviado
  <1>4. CASE /\ ~(c = Nada \/ conexion[c] = "quitada") /\ conexion[c] # "abierta"
             /\ c \notin k.rotas
    <2>1. Envia(k, c, m) = [k EXCEPT !.rotas = @ \cup {c}]
      BY <1>4 DEF Envia
    <2>j. PICK j : j = [k EXCEPT !.rotas = k.rotas \cup {c}]
      OBVIOUS
    <2>2. c \in Conexiones
      BY <1>4
    <2>3. j \in Estructuras /\ j.canal = k.canal
      BY <2>j, <2>2 DEF Estructuras
    <2>4. Iguales(k, j)
      BY <2>j, <2>3 DEF Iguales, Estructuras
    <2> QED BY <2>1, <2>j, <2>3, <2>4 DEF Enviado
  <1> QED BY <1>1, <1>2, <1>3, <1>4

-----------------------------------------------------------------------------
(* The invariant of the types *)

Pedidos == {<<"connect">>, <<"handshake">>, <<"script">>} \cup {<<"eliminar", p>> : p \in Pids}

Pide(s, que) == \E i \in DOMAIN s : s[i][1] = que

\* What the Consola sends: each thing once, scripts by the threads and requests by end
ColaBien(s, c) ==
  /\ s \in Seq(Pedidos) /\ Len(s) <= 3
  /\ \A i, j \in DOMAIN s : s[i][1] = s[j][1] => i = j
  /\ \A i \in DOMAIN s : /\ s[i][1] = "script" => c \in Hilos
                         /\ s[i][1] = "eliminar" => c = Fin /\ s[i][2] \in Pids

Tipos(k, a, hs, cx) ==
  /\ k \in Estructuras /\ hs \in [Hilos -> DelHilo] /\ cx \in LasConexiones
  /\ DOMAIN a = Conexiones /\ \A c \in Conexiones : ColaBien(a[c], c)

Libres(a, hs, cx) ==
  \A h \in Hilos : hs[h].en = "libre" => a[h] = <<>> /\ cx[h] = "nada"

\* A thread whose script the Kernel has not read
Nuevo(a, hs, h) == hs[h].en = "libre" \/ Pide(a[h], "script")

Nuevos(k, a, hs) ==
  \A h \in Hilos : Nuevo(a, hs, h) =>
    /\ k.canal[h] = <<>>
    /\ \A p \in Pids : k.fd_consola[p] # h

\* A program for each pid given, and a pid for each program
CuentaDePids(k) ==
  /\ k.pid \in PidPrevios .. PidPrevios + Cardinality(Hilos)
  /\ \A p \in Pids : (k.fd_consola[p] # Nada) <=> (p <= k.pid)
  /\ \A p, q \in Pids : k.fd_consola[p] = k.fd_consola[q] /\ k.fd_consola[p] # Nada => p = q

Entradas(k) ==
  /\ \A i \in DOMAIN k.lista_consolas :
       k.lista_consolas[i].proceso # 0 =>
         /\ k.lista_consolas[i].proceso \in Pids
         /\ k.fd_consola[k.lista_consolas[i].proceso] = k.lista_consolas[i].sock
  /\ \A i \in DOMAIN k.nuevos : k.fd_consola[k.nuevos[i].pid] = k.nuevos[i].fd

\* Only the command end asks to be answered
MarcasBien(k) ==
  \A i \in DOMAIN k.borrar :
    \/ k.borrar[i].exit_code = -7 /\ k.borrar[i].askeadora = Fin
    \/ k.borrar[i].exit_code = -6 /\ k.borrar[i].connection = FALSE

Suyo(k, h, p) == p \in Pids /\ (k.vivo = TRUE => k.fd_consola[p] = h)

SusPids(k, hs) ==
  \A h \in Hilos : hs[h].en \in {"recibe", "lee_texto"} => Suyo(k, h, hs[h].pid)

Caidos(k) == k.vivo = FALSE => k.terminados = Pids

Base(k, a, hs, cx) ==
  /\ Tipos(k, a, hs, cx) /\ Libres(a, hs, cx) /\ Nuevos(k, a, hs)
  /\ CuentaDePids(k) /\ Entradas(k) /\ MarcasBien(k) /\ SusPids(k, hs) /\ Caidos(k)

\* The first thing a thread reads is its pid, or that there is none
Primero(k, hs, cx, h) ==
  hs[h].en = "espera_pid" =>
    /\ k.canal[h] # <<>> => Head(k.canal[h]) = -1 \/ Suyo(k, h, Head(k.canal[h]))
    /\ k.vivo = TRUE /\ cx[h] = "abierta" /\ k.canal[h] = <<>> =>
         \A p \in Pids : k.fd_consola[p] # h

KInv(k, a, hs, cx) == Base(k, a, hs, cx) /\ \A h \in Hilos : Primero(k, hs, cx, h)

LEMMA PidsNaturales == Pids \subseteq Nat \ {0} /\ Cardinality(Hilos) \in Nat
  <1>1. Cardinality(Hilos) \in Nat
    BY ConsolaAssumption, FS_CardinalityType
  <1>2. PidPrevios \in Nat
    BY ConsolaAssumption
  <1> QED BY <1>1, <1>2 DEF Pids

\* Something may be sent to a thread that has been told its pid, or is being told
Puede(k, a, hs, cx, c, m) ==
  c \in Hilos =>
    /\ ~Nuevo(a, hs, c)
    /\ k.canal[c] = <<>> /\ hs[c].en = "espera_pid" /\ cx[c] = "abierta"
         => m # <<>> /\ (Head(m) = -1 \/ Suyo(k, c, Head(m)))

LEMMA BaseCaida ==
  ASSUME NEW k, NEW a, NEW hs, NEW cx, NEW j, Base(k, a, hs, cx), Caido(k, j),
         \A h \in Hilos : Nuevo(a, hs, h) => j.canal[h] = <<>>
  PROVE  Base(j, a, hs, cx)
  <1>1. Tipos(j, a, hs, cx) /\ Libres(a, hs, cx)
    BY DEF Base, Tipos, Caido
  <1>2. \A p \in Pids : j.fd_consola[p] = Nada
    BY DEF Caido
  <1>3. Nuevos(j, a, hs)
    BY <1>2, ConsolaAssumption DEF Nuevos
  <1>4. CuentaDePids(j)
    <2>1. PidPrevios \in PidPrevios .. PidPrevios + Cardinality(Hilos)
      BY ConsolaAssumption, PidsNaturales
    <2>2. \A p \in Pids : ~(p <= PidPrevios)
      BY ConsolaAssumption, PidsNaturales DEF Pids
    <2> QED BY <1>2, <2>1, <2>2 DEF CuentaDePids, Caido
  <1>5. Entradas(j) /\ MarcasBien(j)
    BY DEF Caido, Entradas, MarcasBien
  <1>6. SusPids(j, hs)
    BY DEF Base, SusPids, Suyo, Caido
  <1>7. Caidos(j)
    BY DEF Caidos, Caido
  <1> QED BY <1>1, <1>3, <1>4, <1>5, <1>6, <1>7 DEF Base

LEMMA BaseIgual ==
  ASSUME NEW k, NEW a, NEW hs, NEW cx, NEW j, Base(k, a, hs, cx), Iguales(k, j),
         \A h \in Hilos : Nuevo(a, hs, h) => j.canal[h] = <<>>
  PROVE  Base(j, a, hs, cx)
  <1>1. Tipos(j, a, hs, cx) /\ Libres(a, hs, cx)
    BY DEF Base, Tipos, Iguales
  <1>2. Nuevos(j, a, hs)
    BY DEF Base, Nuevos, Iguales
  <1>3. CuentaDePids(j)
    BY DEF Base, CuentaDePids, Iguales
  <1>4. Entradas(j) /\ MarcasBien(j)
    BY DEF Base, Iguales, Entradas, MarcasBien
  <1>5. SusPids(j, hs) /\ Caidos(j)
    BY DEF Base, Iguales, SusPids, Suyo, Caidos
  <1> QED BY <1>1, <1>2, <1>3, <1>4, <1>5 DEF Base

LEMMA CanalesTrasEnviar ==
  ASSUME NEW k \in Estructuras, NEW j, NEW c, NEW m \in Seq(Mensajes), Enviado(k, j, c, m)
  PROVE  \A d \in Conexiones :
           \/ j.canal[d] = k.canal[d]
           \/ /\ d = c /\ conexion[d] = "abierta" /\ j.canal[d] = k.canal[d] \o m
  <1>1. k.canal \in [Conexiones -> Seq(Mensajes)]
    BY DEF Estructuras
  <1> QED BY <1>1 DEF Enviado

\* Whatever is sent to who can be sent it, the kernel stays as it should
LEMMA EnviarConserva ==
  ASSUME NEW k, NEW a, NEW hs, NEW c \in Conexiones \cup {Nada}, NEW m \in Seq(Mensajes),
         Base(k, a, hs, conexion), Puede(k, a, hs, conexion, c, m)
  PROVE  Base(Envia(k, c, m), a, hs, conexion)
  <1>j. PICK j : j = Envia(k, c, m)
    OBVIOUS
  <1>0. k \in Estructuras
    BY DEF Base, Tipos
  <1>1. Enviado(k, j, c, m)
    BY <1>0, <1>j, EnviaHace
  <1>2. ASSUME NEW h \in Hilos, Nuevo(a, hs, h)
        PROVE  j.canal[h] = <<>>
    <2>1. h # c
      BY <1>2 DEF Puede
    <2>2. j.canal[h] = k.canal[h]
      BY <2>1, <1>0, <1>1, CanalesTrasEnviar DEF Conexiones
    <2> QED BY <2>2, <1>2 DEF Base, Nuevos
  <1>3. CASE Caido(k, j)
    BY <1>2, <1>3, <1>j, BaseCaida
  <1>4. CASE Iguales(k, j)
    BY <1>2, <1>4, <1>j, BaseIgual
  <1> QED BY <1>1, <1>3, <1>4 DEF Enviado

LEMMA CanalMasLargo ==
  ASSUME NEW S, NEW s \in Seq(S), NEW m \in Seq(S)
  PROVE  /\ s # <<>> => s \o m # <<>> /\ Head(s \o m) = Head(s)
         /\ s = <<>> => s \o m = m
  <1>1. CASE s = <<>>
    BY <1>1
  <1>2. CASE s # <<>>
    <2>1. Len(s) \in Nat \ {0} /\ Len(m) \in Nat
      BY <1>2
    <2>2. (s \o m)[1] = s[1] /\ Len(s \o m) = Len(s) + Len(m) /\ s \o m \in Seq(S)
      BY <2>1, ConcatProperties
    <2>3. Len(s \o m) # 0
      BY <2>1, <2>2
    <2>4. s \o m # <<>>
      BY <2>3
    <2> QED BY <1>2, <2>2, <2>4
  <1> QED BY <1>1, <1>2

\* Nor is it disturbed for the other threads, and it is restored for the one written to
LEMMA EnviarPrimero ==
  ASSUME NEW k, NEW a, NEW hs, NEW c \in Conexiones \cup {Nada}, NEW m \in Seq(Mensajes),
         Base(k, a, hs, conexion), Puede(k, a, hs, conexion, c, m), NEW h \in Hilos,
         Primero(k, hs, conexion, h)
  PROVE  Primero(Envia(k, c, m), hs, conexion, h)
  <1>j. PICK j : j = Envia(k, c, m)
    OBVIOUS
  <1>0. k \in Estructuras /\ k.canal \in [Conexiones -> Seq(Mensajes)]
    BY DEF Base, Tipos, Estructuras
  <1>1. Enviado(k, j, c, m)
    BY <1>0, <1>j, EnviaHace
  <1>2. ASSUME NEW p, Suyo(k, h, p)
        PROVE  Suyo(j, h, p)
    BY <1>1, <1>2 DEF Enviado, Caido, Iguales, Suyo
  <1>3. SUFFICES ASSUME hs[h].en = "espera_pid"
                 PROVE  /\ j.canal[h] # <<>> => \/ Head(j.canal[h]) = -1
                                                \/ Suyo(j, h, Head(j.canal[h]))
                        /\ /\ j.vivo = TRUE /\ conexion[h] = "abierta" /\ j.canal[h] = <<>>
                           => \A p \in Pids : j.fd_consola[p] # h
    BY <1>j DEF Primero
  <1>4. h \in Conexiones
    BY DEF Conexiones
  <1>5. CASE j.canal[h] = k.canal[h]
    <2>1. j.canal[h] # <<>> => \/ Head(j.canal[h]) = -1
                               \/ Suyo(j, h, Head(j.canal[h]))
      BY <1>2, <1>3, <1>5 DEF Primero
    <2>2. j.vivo = TRUE => k.vivo = TRUE /\ j.fd_consola = k.fd_consola
      BY <1>1 DEF Enviado, Caido, Iguales
    <2> QED BY <2>1, <2>2, <1>3, <1>5 DEF Primero
  <1>6. CASE h = c /\ conexion[h] = "abierta" /\ j.canal[h] = k.canal[h] \o m
    <2>1. k.canal[h] \in Seq(Mensajes)
      BY <1>0, <1>4
    <2>2. CASE k.canal[h] # <<>>
      <3>1. j.canal[h] # <<>> /\ Head(j.canal[h]) = Head(k.canal[h])
        BY <2>1, <2>2, <1>6, CanalMasLargo
      <3> QED BY <3>1, <2>2, <1>2, <1>3 DEF Primero
    <2>3. CASE k.canal[h] = <<>>
      <3>1. j.canal[h] = m
        BY <2>1, <2>3, <1>6, CanalMasLargo
      <3>2. m # <<>> /\ (Head(m) = -1 \/ Suyo(k, h, Head(m)))
        BY <2>3, <1>3, <1>6 DEF Puede
      <3> QED BY <3>1, <3>2, <1>2
    <2> QED BY <2>2, <2>3
  <1>7. \/ j.canal[h] = k.canal[h]
        \/ h = c /\ conexion[h] = "abierta" /\ j.canal[h] = k.canal[h] \o m
    BY <1>0, <1>1, <1>4, CanalesTrasEnviar
  <1> QED BY <1>5, <1>6, <1>7

\* Who has been told the pid, or never will
PuedeYa(k, a, hs, cx, c) ==
  c \in Hilos =>
    ~Nuevo(a, hs, c) /\ ~(k.canal[c] = <<>> /\ hs[c].en = "espera_pid" /\ cx[c] = "abierta")

LEMMA EnviarYa ==
  ASSUME NEW k, NEW a, NEW hs, NEW c \in Conexiones \cup {Nada}, NEW m \in Seq(Mensajes),
         KInv(k, a, hs, conexion), PuedeYa(k, a, hs, conexion, c)
  PROVE  /\ KInv(Envia(k, c, m), a, hs, conexion)
         /\ \A d : PuedeYa(k, a, hs, conexion, d) => PuedeYa(Envia(k, c, m), a, hs, conexion, d)
  <1>1. Puede(k, a, hs, conexion, c, m)
    BY DEF Puede, PuedeYa
  <1>2. KInv(Envia(k, c, m), a, hs, conexion)
    <2>1. Base(Envia(k, c, m), a, hs, conexion)
      BY <1>1, EnviarConserva DEF KInv
    <2>2. ASSUME NEW h \in Hilos
          PROVE  Primero(Envia(k, c, m), hs, conexion, h)
      BY <1>1, EnviarPrimero DEF KInv
    <2> QED BY <2>1, <2>2 DEF KInv
  <1>3. ASSUME NEW d, PuedeYa(k, a, hs, conexion, d)
        PROVE  PuedeYa(Envia(k, c, m), a, hs, conexion, d)
    <2>j. PICK j : j = Envia(k, c, m)
      OBVIOUS
    <2>0. k \in Estructuras /\ k.canal \in [Conexiones -> Seq(Mensajes)]
      BY DEF KInv, Base, Tipos, Estructuras
    <2>1. Enviado(k, j, c, m)
      BY <2>0, <2>j, EnviaHace
    <2>2. SUFFICES ASSUME d \in Hilos, j.canal[d] = <<>>
                   PROVE  k.canal[d] = <<>>
      BY <1>3, <2>j DEF PuedeYa
    <2>3. d \in Conexiones
      BY <2>2 DEF Conexiones
    <2>4. j.canal[d] = k.canal[d] \/ j.canal[d] = k.canal[d] \o m
      BY <2>0, <2>1, <2>3, CanalesTrasEnviar
    <2>5. k.canal[d] \in Seq(Mensajes)
      BY <2>0, <2>3
    <2> QED BY <2>2, <2>4, <2>5, CanalMasLargo
  <1> QED BY <1>2, <1>3

\* What the Kernel does to itself, and sends nobody
Parecidos(k, j) ==
  /\ j \in Estructuras /\ j.vivo = k.vivo /\ j.pid = k.pid
  /\ j.fd_consola = k.fd_consola /\ j.canal = k.canal
  /\ k.terminados \subseteq j.terminados

LEMMA ParecidosEnBase ==
  ASSUME NEW k, NEW a, NEW hs, NEW cx, NEW j, Base(k, a, hs, cx), Parecidos(k, j),
         Entradas(j), MarcasBien(j)
  PROVE  /\ Base(j, a, hs, cx)
         /\ \A h \in Hilos : Primero(k, hs, cx, h) => Primero(j, hs, cx, h)
         /\ \A d : PuedeYa(k, a, hs, cx, d) => PuedeYa(j, a, hs, cx, d)
  <1>1. Tipos(j, a, hs, cx) /\ Libres(a, hs, cx)
    BY DEF Base, Tipos, Parecidos
  <1>2. Nuevos(j, a, hs)
    BY DEF Base, Nuevos, Parecidos
  <1>3. CuentaDePids(j)
    BY DEF Base, CuentaDePids, Parecidos
  <1>4. SusPids(j, hs)
    BY DEF Base, SusPids, Suyo, Parecidos
  <1>5. Caidos(j)
    <2>1. j.terminados \subseteq Pids
      BY DEF Parecidos, Estructuras
    <2> QED BY <2>1 DEF Base, Caidos, Parecidos
  <1>6. ASSUME NEW h \in Hilos, Primero(k, hs, cx, h)
        PROVE  Primero(j, hs, cx, h)
    BY <1>6 DEF Primero, Suyo, Parecidos
  <1>7. ASSUME NEW d, PuedeYa(k, a, hs, cx, d)
        PROVE  PuedeYa(j, a, hs, cx, d)
    BY <1>7 DEF PuedeYa, Parecidos
  <1> QED BY <1>1, <1>2, <1>3, <1>4, <1>5, <1>6, <1>7 DEF Base

LEMMA ParecidosIgualDeBien ==
  ASSUME NEW k, NEW a, NEW hs, NEW cx, NEW j, KInv(k, a, hs, cx), Parecidos(k, j),
         Entradas(j), MarcasBien(j)
  PROVE  /\ KInv(j, a, hs, cx)
         /\ \A d : PuedeYa(k, a, hs, cx, d) => PuedeYa(j, a, hs, cx, d)
  BY ParecidosEnBase DEF KInv

\* The Consola of a process is the one that asked for it
LEMMA BuscarHalla ==
  ASSUME NEW k, k \in Estructuras, NEW p
  PROVE  \/ buscar_consola_de_proceso(k, p) = Nada
         \/ \E i \in DOMAIN k.lista_consolas :
              /\ k.lista_consolas[i].proceso = p
              /\ k.lista_consolas[i].sock = buscar_consola_de_proceso(k, p)
              /\ k.lista_consolas[i].sock \in Conexiones
  <1> DEFINE I == {i \in DOMAIN k.lista_consolas : k.lista_consolas[i].proceso = p}
  <1>0. k.lista_consolas \in Seq([sock : Conexiones, proceso : Nat])
    BY DEF Estructuras
  <1>1. I \in SUBSET Nat
    BY <1>0
  <1>2. CASE I = {}
    BY <1>2 DEF buscar_consola_de_proceso
  <1>3. CASE I # {}
    <2>i. PICK i : i = Min(I)
      OBVIOUS
    <2>1. i \in I
      <3> HIDE DEF I
      <3> QED BY <1>1, <1>3, <2>i, MinimoEsta
    <2>2. buscar_consola_de_proceso(k, p) = k.lista_consolas[i].sock
      BY <1>3, <2>i DEF buscar_consola_de_proceso
    <2>3. i \in DOMAIN k.lista_consolas /\ k.lista_consolas[i].proceso = p
      BY <2>1
    <2>4. k.lista_consolas[i].sock \in Conexiones
      <3>1. k.lista_consolas[i] \in [sock : Conexiones, proceso : Nat]
        BY <2>3, <1>0, ElementoDe
      <3> QED BY <3>1
    <2> QED BY <2>2, <2>3, <2>4
  <1> QED BY <1>2, <1>3

LEMMA SuConsola ==
  ASSUME NEW k, NEW a, NEW hs, NEW cx, KInv(k, a, hs, cx), k.vivo = TRUE, NEW p \in Pids
  PROVE  /\ buscar_consola_de_proceso(k, p) \in Conexiones \cup {Nada}
         /\ buscar_consola_de_proceso(k, p) # Nada =>
              k.fd_consola[p] = buscar_consola_de_proceso(k, p)
         /\ PuedeYa(k, a, hs, cx, buscar_consola_de_proceso(k, p))
  <1>c. PICK c : c = buscar_consola_de_proceso(k, p)
    OBVIOUS
  <1>0. k \in Estructuras
    BY DEF KInv, Base, Tipos
  <1>1. CASE c = Nada
    <2>1. Nada \notin Hilos
      BY ConsolaAssumption
    <2> QED BY <1>1, <1>c, <2>1 DEF PuedeYa
  <1>2. CASE c # Nada
    <2>1. PICK i \in DOMAIN k.lista_consolas :
            /\ k.lista_consolas[i].proceso = p /\ k.lista_consolas[i].sock = c
            /\ c \in Conexiones
      BY <1>0, <1>2, <1>c, BuscarHalla
    <2>2. p # 0
      BY PidsNaturales
    <2>3. k.fd_consola[p] = c
      BY <2>1, <2>2 DEF KInv, Base, Entradas
    <2>4. ASSUME c \in Hilos
          PROVE  PuedeYa(k, a, hs, cx, c)
      <3>1. ~Nuevo(a, hs, c)
        BY <2>3, <2>4 DEF KInv, Base, Nuevos
      <3>2. ~(k.canal[c] = <<>> /\ hs[c].en = "espera_pid" /\ cx[c] = "abierta")
        BY <2>3, <2>4 DEF KInv, Primero
      <3> QED BY <3>1, <3>2 DEF PuedeYa
    <2> QED BY <2>1, <2>3, <2>4, <1>c DEF PuedeYa
  <1> QED BY <1>1, <1>2

\* k with p ended
Sin(k, p) == [k EXCEPT !.estado[p] = "Exit", !.terminados = @ \cup {p}]

LEMMA SinBien ==
  ASSUME NEW k, NEW a, NEW hs, NEW cx, KInv(k, a, hs, cx), NEW p \in Pids
  PROVE  /\ KInv(Sin(k, p), a, hs, cx) /\ Sin(k, p).vivo = k.vivo
         /\ Parecidos(k, Sin(k, p)) /\ Sin(k, p).terminados = k.terminados \cup {p}
         /\ Sin(k, p).estado = [k.estado EXCEPT ![p] = "Exit"]
         /\ Sin(k, p).lista_consolas = k.lista_consolas
         /\ Sin(k, p).borrar = k.borrar
         /\ \A d : PuedeYa(k, a, hs, cx, d) => PuedeYa(Sin(k, p), a, hs, cx, d)
  <1>0. k \in Estructuras
    BY DEF KInv, Base, Tipos
  <1>e. PICK e : e = [k.estado EXCEPT ![p] = "Exit"]
    OBVIOUS
  <1>t. PICK t : t = k.terminados \cup {p}
    OBVIOUS
  <1>1. /\ e \in [Pids -> {"NoExiste", "New", "Listo", "Exec", "Exit"}]
        /\ t \in SUBSET Pids /\ k.terminados \subseteq t
    BY <1>0, <1>e, <1>t DEF Estructuras
  <1>j. PICK j : j = Sin(k, p)
    OBVIOUS
  <1>2. j = [k EXCEPT !.estado = e, !.terminados = t]
    BY <1>j, <1>e, <1>t DEF Sin
  <1>3. /\ j \in Estructuras /\ j.vivo = k.vivo /\ j.pid = k.pid /\ j.nuevos = k.nuevos
        /\ j.fd_consola = k.fd_consola /\ j.canal = k.canal
        /\ j.lista_consolas = k.lista_consolas /\ j.borrar = k.borrar
        /\ j.estado = e /\ j.terminados = t
    BY <1>0, <1>1, <1>2 DEF Estructuras
  <1>4. Parecidos(k, j)
    BY <1>1, <1>3 DEF Parecidos
  <1>5. Entradas(j) /\ MarcasBien(j)
    BY <1>3 DEF KInv, Base, Entradas, MarcasBien
  <1> QED BY <1>3, <1>4, <1>5, <1>e, <1>t, <1>j, ParecidosIgualDeBien

LEMMA CodigosSonMensajes ==
  /\ <<0>> \in Seq(Mensajes) /\ <<1>> \in Seq(Mensajes) /\ <<6>> \in Seq(Mensajes)
  /\ <<7>> \in Seq(Mensajes) /\ <<-1>> \in Seq(Mensajes)
  /\ <<5, Largo, Texto>> \in Seq(Mensajes)
  /\ \A p \in Pids : <<p>> \in Seq(Mensajes)
  <1>1. {0, 1, 5, 6, 7, -1, Largo, Texto} \subseteq Mensajes /\ Pids \subseteq Mensajes
    BY DEF Mensajes
  <1> QED BY <1>1

\* The end of a process, whoever is told
LEMMA TerminarBien ==
  ASSUME NEW k, NEW a, NEW hs, KInv(k, a, hs, conexion), k.vivo = TRUE, NEW p \in Pids,
         NEW exit_code, NEW sock \in Conexiones \cup {Nada}, NEW conectada \in BOOLEAN,
         conectada = TRUE => PuedeYa(k, a, hs, conexion, sock)
  PROVE  KInv(end_process(k, p, exit_code, sock, conectada), a, hs, conexion)
  <1>1. CASE k.estado[p] = "Exit"
    <2>1. CASE conectada /\ exit_code = -7
      <3>1. end_process(k, p, exit_code, sock, conectada) = Envia(k, sock, <<0>>)
        BY <1>1, <2>1 DEF end_process
      <3> QED BY <3>1, <2>1, EnviarYa, CodigosSonMensajes
    <2>2. CASE ~(conectada /\ exit_code = -7)
      <3>1. end_process(k, p, exit_code, sock, conectada) = k
        BY <1>1, <2>2 DEF end_process
      <3> QED BY <3>1
    <2> QED BY <2>1, <2>2
  <1>2. CASE k.estado[p] # "Exit"
    <2>s. PICK s : s = Sin(k, p)
      OBVIOUS
    <2>m. PICK m : m = <<IF exit_code = 0 THEN 6 ELSE 7>>
      OBVIOUS
    <2>c. PICK c : c = buscar_consola_de_proceso(s, p)
      OBVIOUS
    <2>1. /\ KInv(s, a, hs, conexion) /\ s.vivo = TRUE
          /\ conectada => PuedeYa(s, a, hs, conexion, sock)
      BY <2>s, SinBien
    <2>2. c \in Conexiones \cup {Nada} /\ PuedeYa(s, a, hs, conexion, c)
      BY <2>1, <2>c, SuConsola
    <2>3. m \in Seq(Mensajes)
      BY <2>m, CodigosSonMensajes
    <2>4. CASE conectada
      <3>1. end_process(k, p, exit_code, sock, conectada) = Envia(Envia(s, c, m), sock, <<1>>)
        BY <1>2, <2>4, <2>s, <2>m, <2>c DEF end_process, Sin
      <3>e. PICK e : e = Envia(s, c, m)
        OBVIOUS
      <3>2. KInv(e, a, hs, conexion) /\ PuedeYa(e, a, hs, conexion, sock)
        BY <2>1, <2>2, <2>3, <2>4, <3>e, EnviarYa
      <3>3. KInv(Envia(e, sock, <<1>>), a, hs, conexion)
        BY <3>2, EnviarYa, CodigosSonMensajes
      <3> QED BY <3>1, <3>3, <3>e
    <2>5. CASE ~conectada
      <3>1. end_process(k, p, exit_code, sock, conectada) = s
        BY <1>2, <2>5, <2>s DEF end_process, Sin
      <3> QED BY <3>1, <2>1
    <2> QED BY <2>4, <2>5
  <1> QED BY <1>1, <1>2

-----------------------------------------------------------------------------
(* Steps of the Kernel *)

\* A connection that is closed, or removed
LEMMA CerrarConserva ==
  ASSUME NEW k, NEW a, NEW hs, NEW cx, NEW x \in LasConexiones, KInv(k, a, hs, cx),
         \A c \in Conexiones : x[c] = "abierta" => cx[c] = "abierta",
         \A c \in Conexiones : cx[c] = "nada" => x[c] = "nada"
  PROVE  KInv(k, a, hs, x)
  <1>1. Tipos(k, a, hs, x)
    BY DEF KInv, Base, Tipos
  <1>2. Libres(a, hs, x)
    BY DEF KInv, Base, Libres, Conexiones
  <1>3. \A h \in Hilos : Primero(k, hs, x, h)
    BY DEF KInv, Primero, Conexiones
  <1> QED BY <1>1, <1>2, <1>3 DEF KInv, Base

\* The rest of a queue
LEMMA RestoDeCola ==
  ASSUME NEW s, NEW c, ColaBien(s, c), s # <<>>
  PROVE  /\ ColaBien(Tail(s), c)
         /\ \A que : Pide(Tail(s), que) => Pide(s, que)
         /\ ~Pide(Tail(s), Head(s)[1])
         /\ Head(s)[1] = "script" => c \in Hilos /\ Pide(s, "script")
         /\ Head(s)[1] = "eliminar" => c = Fin /\ Head(s)[2] \in Pids
  <1>t. PICK t : t = Tail(s)
    OBVIOUS
  <1>n. PICK n : n = Len(s)
    OBVIOUS
  <1>0. /\ s \in Seq(Pedidos) /\ n \in Nat /\ n # 0 /\ n <= 3 /\ DOMAIN s = 1 .. n
        /\ Head(s) = s[1]
    BY <1>n DEF ColaBien
  <1>1. t \in Seq(Pedidos) /\ Len(t) = n - 1 /\ \A i \in 1 .. n - 1 : t[i] = s[i + 1]
    BY <1>0, <1>n, <1>t, HeadTailProperties
  <1>2. DOMAIN t = 1 .. n - 1 /\ \A i \in 1 .. n - 1 : i + 1 \in 1 .. n /\ i + 1 # 1
    BY <1>0, <1>1
  <1>3. 1 \in 1 .. n
    BY <1>0
  <1>4. ASSUME NEW i \in 1 .. n - 1, NEW j \in 1 .. n - 1, t[i][1] = t[j][1]
        PROVE  i = j
    <2>1. i + 1 \in 1 .. n /\ j + 1 \in 1 .. n /\ s[i + 1][1] = s[j + 1][1]
      BY <1>1, <1>2, <1>4
    <2>2. i + 1 = j + 1
      BY <2>1, <1>0 DEF ColaBien
    <2> QED BY <2>2
  <1>5. Len(t) <= 3
    BY <1>0, <1>1
  <1>6. ColaBien(t, c)
    BY <1>0, <1>1, <1>2, <1>4, <1>5 DEF ColaBien
  <1>7. \A que : Pide(t, que) => Pide(s, que)
    BY <1>0, <1>1, <1>2 DEF Pide
  <1>8. ~Pide(t, s[1][1])
    BY <1>0, <1>1, <1>2, <1>3 DEF Pide, ColaBien
  <1>9. /\ s[1][1] = "script" => c \in Hilos /\ Pide(s, "script")
        /\ s[1][1] = "eliminar" => c = Fin /\ s[1][2] \in Pids
    BY <1>0, <1>3 DEF ColaBien, Pide
  <1> QED BY <1>0, <1>6, <1>7, <1>8, <1>9, <1>t

\* The Kernel reads what is first
LEMMA LeerConserva ==
  ASSUME NEW k, NEW a, NEW hs, NEW cx, KInv(k, a, hs, cx), NEW c \in Conexiones, a[c] # <<>>
  PROVE  LET b == [a EXCEPT ![c] = Tail(@)]
         IN  /\ KInv(k, b, hs, cx)
             /\ \A h \in Hilos : Nuevo(b, hs, h) => Nuevo(a, hs, h)
             /\ \A d : PuedeYa(k, a, hs, cx, d) => PuedeYa(k, b, hs, cx, d)
  <1>b. PICK b : b = [a EXCEPT ![c] = Tail(@)]
    OBVIOUS
  <1>0. /\ DOMAIN a = Conexiones /\ \A d \in Conexiones : ColaBien(a[d], d)
        /\ Hilos \subseteq Conexiones
    BY DEF KInv, Base, Tipos, Conexiones
  <1>1. /\ DOMAIN b = Conexiones /\ b[c] = Tail(a[c])
        /\ \A d \in Conexiones : d # c => b[d] = a[d]
    BY <1>0, <1>b
  <1>2. \A d \in Conexiones : ColaBien(b[d], d)
    BY <1>0, <1>1, RestoDeCola
  <1>3. ASSUME NEW h \in Hilos, Nuevo(b, hs, h)
        PROVE  Nuevo(a, hs, h)
    BY <1>0, <1>1, <1>3, RestoDeCola DEF Nuevo
  <1>4. Tipos(k, b, hs, cx)
    BY <1>1, <1>2 DEF KInv, Base, Tipos
  <1>5. Libres(b, hs, cx)
    BY <1>0, <1>1 DEF KInv, Base, Libres
  <1>6. Nuevos(k, b, hs)
    BY <1>3 DEF KInv, Base, Nuevos
  <1>7. KInv(k, b, hs, cx)
    BY <1>4, <1>5, <1>6 DEF KInv, Base
  <1>8. \A d : PuedeYa(k, a, hs, cx, d) => PuedeYa(k, b, hs, cx, d)
    BY <1>3 DEF PuedeYa
  <1> QED BY <1>3, <1>7, <1>8, <1>b

\* What every step of the Kernel keeps, besides
K == KInv(kernel, alKernel, hilo, conexion)
KSigue == KInv(kernel', alKernel', hilo', conexion')

LEMMA AceptarK ==
  ASSUME K, NEW c \in Conexiones, sock_accept_new_connection(c)
  PROVE  KSigue
  <1>1. /\ alKernel[c] # <<>> /\ alKernel' = [alKernel EXCEPT ![c] = Tail(@)]
        /\ kernel' = [kernel EXCEPT !.newfd = c]
        /\ conexion' = conexion /\ hilo' = hilo
    BY DEF sock_accept_new_connection, DelKernel
  <1>2. KInv(kernel, alKernel', hilo, conexion)
    BY <1>1, LeerConserva DEF K
  <1>3. kernel \in Estructuras
    BY DEF K, KInv, Base, Tipos
  <1>4. /\ kernel' \in Estructuras /\ Parecidos(kernel, kernel')
        /\ kernel'.lista_consolas = kernel.lista_consolas
        /\ kernel'.nuevos = kernel.nuevos /\ kernel'.borrar = kernel.borrar
    BY <1>1, <1>3 DEF Estructuras, Parecidos
  <1>5. Entradas(kernel') /\ MarcasBien(kernel')
    BY <1>2, <1>4 DEF KInv, Base, Entradas, MarcasBien, Parecidos
  <1> QED BY <1>1, <1>2, <1>4, <1>5, ParecidosIgualDeBien DEF KSigue

LEMMA HandshakeK ==
  ASSUME K, NEW c \in Conexiones, Handshake(c), kernel.newfd # Nada
  PROVE  KSigue
  <1>e. PICK e : e = [sock |-> kernel.newfd, proceso |-> 0]
    OBVIOUS
  <1>1. /\ alKernel[c] # <<>> /\ alKernel' = [alKernel EXCEPT ![c] = Tail(@)]
        /\ kernel' = [kernel EXCEPT !.lista_consolas = Append(@, e)]
        /\ conexion' = conexion /\ hilo' = hilo
    BY <1>e DEF Handshake, DelKernel, Lee
  <1>2. KInv(kernel, alKernel', hilo, conexion)
    BY <1>1, LeerConserva DEF K
  <1>3. kernel \in Estructuras
    BY DEF K, KInv, Base, Tipos
  <1>l. PICK l : l = Append(kernel.lista_consolas, e)
    OBVIOUS
  <1>4. /\ kernel.lista_consolas \in Seq([sock : Conexiones, proceso : Nat])
        /\ e \in [sock : Conexiones, proceso : Nat] /\ e.proceso = 0
    BY <1>3, <1>e DEF Estructuras
  <1>5. /\ l \in Seq([sock : Conexiones, proceso : Nat])
        /\ \A i \in DOMAIN l : \/ i \in DOMAIN kernel.lista_consolas
                                  /\ l[i] = kernel.lista_consolas[i]
                               \/ l[i] = e
    BY <1>4, <1>l, Agregar
  <1>6. kernel' = [kernel EXCEPT !.lista_consolas = l]
    BY <1>1, <1>l
  <1>7. /\ kernel' \in Estructuras /\ Parecidos(kernel, kernel')
        /\ kernel'.lista_consolas = l
        /\ kernel'.nuevos = kernel.nuevos /\ kernel'.borrar = kernel.borrar
    BY <1>3, <1>5, <1>6 DEF Estructuras, Parecidos
  <1>8. Entradas(kernel') /\ MarcasBien(kernel')
    BY <1>2, <1>4, <1>5, <1>7 DEF KInv, Base, Entradas, MarcasBien, Parecidos
  <1> QED BY <1>1, <1>2, <1>7, <1>8, ParecidosIgualDeBien DEF KSigue

\* There is a pid for every script
LEMMA HayPid ==
  ASSUME NEW k, NEW a, NEW hs, NEW cx, KInv(k, a, hs, cx), NEW c \in Hilos,
         Nuevo(a, hs, c)
  PROVE  k.pid + 1 \in Pids /\ k.fd_consola[k.pid + 1] = Nada
  <1>1. /\ k.pid \in PidPrevios .. PidPrevios + Cardinality(Hilos)
        /\ \A p \in Pids : (k.fd_consola[p] # Nada) <=> (p <= k.pid)
        /\ \A p, q \in Pids :
             k.fd_consola[p] = k.fd_consola[q] /\ k.fd_consola[p] # Nada => p = q
        /\ \A p \in Pids : k.fd_consola[p] # c
        /\ k.fd_consola \in [Pids -> Hilos \cup {Nada}]
    BY DEF KInv, Base, Tipos, CuentaDePids, Nuevos, Estructuras
  <1>2. PidPrevios \in Nat /\ Cardinality(Hilos) \in Nat /\ IsFiniteSet(Hilos)
    BY ConsolaAssumption, PidsNaturales
  <1>3. ASSUME k.pid = PidPrevios + Cardinality(Hilos)
        PROVE  FALSE
    <2> DEFINE P == PidPrevios + 1 .. k.pid
               T == Hilos \ {c}
               f == [p \in P |-> k.fd_consola[p]]
    <2>1. P = Pids
      BY <1>3 DEF Pids
    <2>2. \A p \in P : p <= k.pid
      BY <1>1, <1>2
    <2>3. f \in [P -> T]
      BY <1>1, <2>1, <2>2
    <2>4. IsFiniteSet(T) /\ Cardinality(T) = Cardinality(Hilos) - 1
      BY <1>2, FS_RemoveElement
    <2>5. IsFiniteSet(P) /\ Cardinality(P) = Cardinality(Hilos)
      <3>1. PidPrevios + 1 \in Int /\ k.pid \in Int
        BY <1>1, <1>2
      <3>2. /\ IsFiniteSet(P)
            /\ Cardinality(P) = IF PidPrevios + 1 > k.pid THEN 0 ELSE k.pid - (PidPrevios + 1) + 1
        BY <3>1, FS_Interval
      <3> QED BY <3>2, <1>2, <1>3
    <2>6. \A p, q \in P : f[p] = f[q] => p = q
      BY <1>1, <2>1, <2>2
    <2> HIDE DEF P, T, f
    <2>7. Cardinality(T) < Cardinality(P)
      BY <2>4, <2>5, <1>2
    <2> QED BY <2>3, <2>4, <2>5, <2>6, <2>7, FS_PigeonHole
  <1>4. k.pid + 1 \in Pids /\ ~(k.pid + 1 <= k.pid)
    BY <1>1, <1>2, <1>3 DEF Pids
  <1> QED BY <1>1, <1>4

\* The first answer to a script
LEMMA EnviarPrimera ==
  ASSUME NEW k, k \in Estructuras, NEW hs, NEW c \in Hilos, NEW m \in Seq(Mensajes),
         k.canal[c] = <<>>, m # <<>>, Head(m) = -1 \/ Suyo(k, c, Head(m))
  PROVE  Primero(Envia(k, c, m), hs, conexion, c)
  <1>j. PICK j : j = Envia(k, c, m)
    OBVIOUS
  <1>0. c \in Conexiones /\ c # Nada /\ k.canal \in [Conexiones -> Seq(Mensajes)]
    BY ConsolaAssumption DEF Estructuras, Conexiones
  <1>1. Enviado(k, j, c, m)
    BY <1>0, <1>j, EnviaHace
  <1>2. Head(m) = -1 \/ Suyo(j, c, Head(m))
    BY <1>1 DEF Enviado, Caido, Iguales, Suyo
  <1>3. \/ j.canal[c] = k.canal[c]
        \/ conexion[c] = "abierta" /\ j.canal[c] = k.canal[c] \o m
    <2>1. \A d \in Conexiones :
             \/ j.canal[d] = k.canal[d]
             \/ /\ d = c /\ conexion[d] = "abierta" /\ j.canal[d] = k.canal[d] \o m
      BY <1>1, CanalesTrasEnviar
    <2> QED BY <2>1, <1>0
  <1>4. k.canal[c] \o m = m
    BY <1>0, CanalMasLargo
  <1>5. conexion[c] = "abierta" => j.canal[c] # <<>>
    <2> SUFFICES ASSUME conexion[c] = "abierta"
                 PROVE  j.canal[c] # <<>>
      OBVIOUS
    <2>1. j = [k EXCEPT !.canal[c] = @ \o m]
      BY <1>0, <1>j DEF Envia
    <2>2. j = Escribe(k, c, m)
      BY <1>4, <2>1 DEF Escribe
    <2>3. j.canal[c] = m
      BY <1>0, <2>2, UnCanal
    <2> QED BY <2>3
  <1> QED BY <1>2, <1>3, <1>4, <1>5, <1>j DEF Primero

\* A new process, with its connection listed
LEMMA CrearBien ==
  ASSUME K, NEW c \in Hilos, alKernel[c] # <<>>, Head(alKernel[c])[1] = "script",
         alKernel' = [alKernel EXCEPT ![c] = Tail(@)], kernel.vivo = TRUE,
         Posiciones(c) # {}
  PROVE  LET k == create_PCB(c)
         IN  /\ Base(k, alKernel', hilo, conexion)
             /\ \A h \in Hilos : h # c => Primero(k, hilo, conexion, h)
             /\ k.pid \in Pids /\ k.fd_consola[k.pid] = c /\ k.vivo = TRUE
             /\ k.canal[c] = <<>> /\ ~Nuevo(alKernel', hilo, c)
             /\ kernel.fd_consola[k.pid] = Nada /\ k.pid = kernel.pid + 1
             /\ k.nuevos = kernel.nuevos
  <1>0. /\ c \in Conexiones /\ kernel \in Estructuras /\ ColaBien(alKernel[c], c)
        /\ Nada \notin Conexiones /\ c # Nada /\ Hilos \subseteq Conexiones
        /\ DOMAIN alKernel = Conexiones
    BY ConsolaAssumption DEF K, KInv, Base, Tipos, Conexiones
  <1>1. Nuevo(alKernel, hilo, c)
    BY <1>0, RestoDeCola DEF Nuevo
  <1>2. ~Nuevo(alKernel', hilo, c)
    <2>1. alKernel'[c] = Tail(alKernel[c])
      BY <1>0
    <2>2. ~Pide(Tail(alKernel[c]), "script")
      BY ZenonT(40), <1>0, RestoDeCola
    <2>3. hilo[c].en # "libre"
      BY DEF K, KInv, Base, Libres
    <2> QED BY <2>1, <2>2, <2>3 DEF Nuevo
  <1>3. KInv(kernel, alKernel', hilo, conexion)
    BY <1>0, LeerConserva DEF K
  <1>p. PICK p : p = kernel.pid + 1
    OBVIOUS
  <1>4. p \in Pids /\ kernel.fd_consola[p] = Nada /\ p \in Nat
    BY <1>1, <1>p, HayPid, PidsNaturales DEF K
  <1>i. PICK i : i = Min(Posiciones(c))
    OBVIOUS
  <1>5. /\ kernel.lista_consolas \in Seq([sock : Conexiones, proceso : Nat])
        /\ Posiciones(c) \in SUBSET Nat
    BY SMTT(20), <1>0 DEF Estructuras, Posiciones
  <1>6. i \in DOMAIN kernel.lista_consolas
    <2>1. i \in Posiciones(c)
      BY <1>5, <1>i, MinimoEsta
    <2> QED BY <2>1 DEF Posiciones
  <1>e. PICK e : e = [sock |-> c, proceso |-> p]
    OBVIOUS
  <1>r. PICK r : r = RemoveAt(kernel.lista_consolas, i)
    OBVIOUS
  <1>l. PICK l : l = Append(r, e)
    OBVIOUS
  <1>7. e \in [sock : Conexiones, proceso : Nat] /\ e.sock = c /\ e.proceso = p
    BY <1>0, <1>4, <1>e
  <1>8. /\ r \in Seq([sock : Conexiones, proceso : Nat])
        /\ \A x \in DOMAIN r : \E m \in DOMAIN kernel.lista_consolas :
                                  r[x] = kernel.lista_consolas[m]
    BY <1>5, <1>6, <1>r, Quitar, QuitarDeja
  <1>9. /\ l \in Seq([sock : Conexiones, proceso : Nat])
        /\ \A x \in DOMAIN l : (x \in DOMAIN r /\ l[x] = r[x]) \/ l[x] = e
    BY <1>7, <1>8, <1>l, Agregar
  <1>f. PICK f : f = [kernel.fd_consola EXCEPT ![p] = c]
    OBVIOUS
  <1>10. /\ f \in [Pids -> Hilos \cup {Nada}] /\ f[p] = c
         /\ \A q \in Pids : q # p => f[q] = kernel.fd_consola[q]
         /\ \A q \in Pids : kernel.fd_consola[q] # Nada => f[q] = kernel.fd_consola[q]
    BY <1>0, <1>4, <1>f DEF Estructuras
  <1>k. PICK k : k = create_PCB(c)
    OBVIOUS
  <1>11. k = [kernel EXCEPT !.pid = p, !.fd_consola = f, !.lista_consolas = l]
    BY <1>p, <1>i, <1>e, <1>r, <1>l, <1>f, <1>k DEF create_PCB
  <1>12. /\ k \in Estructuras /\ k.pid = p /\ k.fd_consola = f /\ k.lista_consolas = l
         /\ k.vivo = kernel.vivo /\ k.canal = kernel.canal /\ k.nuevos = kernel.nuevos
         /\ k.borrar = kernel.borrar /\ k.terminados = kernel.terminados
    BY ZenonT(40), <1>0, <1>4, <1>9, <1>10, <1>11 DEF Estructuras
  <1>13. Tipos(k, alKernel', hilo, conexion) /\ Libres(alKernel', hilo, conexion)
    BY <1>3, <1>12 DEF KInv, Base, Tipos
  <1>14. Nuevos(k, alKernel', hilo)
    <2> SUFFICES ASSUME NEW h \in Hilos, Nuevo(alKernel', hilo, h)
                 PROVE  kernel.canal[h] = <<>> /\ \A q \in Pids : f[q] # h
      BY <1>12 DEF Nuevos
    <2>1. h # c
      BY <1>2
    <2>2. kernel.canal[h] = <<>> /\ \A q \in Pids : kernel.fd_consola[q] # h
      BY <1>3 DEF KInv, Base, Nuevos
    <2> QED BY <2>1, <2>2, <1>10
  <1>15. CuentaDePids(k)
    <2>1. \A q \in Pids : kernel.fd_consola[q] # c
      BY <1>1 DEF K, KInv, Base, Nuevos
    <2>2. /\ \A q \in Pids : (kernel.fd_consola[q] # Nada) <=> (q <= kernel.pid)
          /\ \A q, s \in Pids : kernel.fd_consola[q] = kernel.fd_consola[s]
                                /\ kernel.fd_consola[q] # Nada => q = s
          /\ kernel.pid \in Int
      BY <1>4 DEF K, KInv, Base, CuentaDePids, Tipos, Estructuras
    <2>3. ASSUME NEW q \in Pids
          PROVE  (f[q] # Nada) <=> (q <= p)
      <3>1. CASE q = p
        BY <3>1, <1>0, <1>4, <1>10
      <3>2. CASE q # p
        <4>1. q \in Nat /\ ((q <= kernel.pid) <=> (q <= p))
          BY <3>2, <1>p, <2>2, PidsNaturales
        <4> QED BY <4>1, <3>2, <1>10, <2>2
      <3> QED BY <3>1, <3>2
    <2>4. p \in PidPrevios .. PidPrevios + Cardinality(Hilos)
      <3>1. PidPrevios \in Nat /\ Cardinality(Hilos) \in Nat
        BY PidsNaturales, ConsolaAssumption
      <3> QED BY <3>1, <1>4 DEF Pids
    <2> QED BY <2>1, <2>2, <2>3, <2>4, <1>10, <1>12 DEF CuentaDePids
  <1>16. Entradas(k) /\ MarcasBien(k)
    <2>1. ASSUME NEW x \in DOMAIN l, l[x].proceso # 0
          PROVE  l[x].proceso \in Pids /\ f[l[x].proceso] = l[x].sock
      <3>1. CASE l[x] = e
        BY <3>1, <1>4, <1>7, <1>10
      <3>2. CASE x \in DOMAIN r /\ l[x] = r[x]
        <4>1. PICK m \in DOMAIN kernel.lista_consolas : l[x] = kernel.lista_consolas[m]
          BY <3>2, <1>8
        <4>2. /\ l[x].proceso \in Pids
              /\ kernel.fd_consola[l[x].proceso] = l[x].sock
          BY <4>1, <2>1 DEF K, KInv, Base, Entradas
        <4>3. kernel.lista_consolas[m] \in [sock : Conexiones, proceso : Nat]
          BY <1>5, ElementoDe
        <4>4. l[x].sock # Nada
          BY <4>1, <4>3, <1>0
        <4> QED BY <4>2, <4>4, <1>10
      <3> QED BY <3>1, <3>2, <1>9
    <2>2. ASSUME NEW x \in DOMAIN kernel.nuevos
          PROVE  f[kernel.nuevos[x].pid] = kernel.nuevos[x].fd
      <3>1. kernel.nuevos \in Seq([pid : Pids, fd : Conexiones])
        BY <1>0 DEF Estructuras
      <3>2. kernel.nuevos[x] \in [pid : Pids, fd : Conexiones]
        BY <3>1, ElementoDe
      <3>3. /\ kernel.fd_consola[kernel.nuevos[x].pid] = kernel.nuevos[x].fd
            /\ kernel.nuevos[x].fd # Nada /\ kernel.nuevos[x].pid \in Pids
        BY <3>2, <1>0 DEF K, KInv, Base, Entradas
      <3> QED BY <3>3, <1>10
    <2>3. MarcasBien(k)
      BY <1>12 DEF K, KInv, Base, MarcasBien
    <2> QED BY <2>1, <2>2, <2>3, <1>12 DEF Entradas
  <1>17. ASSUME NEW h \in Hilos, NEW q, Suyo(kernel, h, q)
         PROVE  Suyo(k, h, q)
    BY <1>0, <1>10, <1>12, <1>17 DEF Suyo
  <1>18. SusPids(k, hilo) /\ Caidos(k)
    BY <1>12, <1>17 DEF K, KInv, Base, SusPids, Caidos
  <1>19. ASSUME NEW h \in Hilos, h # c
         PROVE  Primero(k, hilo, conexion, h)
    <2>1. Primero(kernel, hilo, conexion, h)
      BY DEF K, KInv
    <2> QED BY <2>1, <1>10, <1>12, <1>17, <1>19 DEF Primero
  <1>20. k.canal[c] = <<>>
    BY <1>1, <1>12 DEF K, KInv, Base, Nuevos
  <1> QED BY <1>2, <1>4, <1>10, <1>12, <1>13, <1>14, <1>15, <1>16, <1>18, <1>19, <1>20,
             <1>k, <1>p DEF Base

\* The last connection accepted is only forgotten with everything else
Fijo(k, j) == j.vivo = TRUE => k.vivo = TRUE /\ j.newfd = k.newfd

LEMMA EnviaFijo ==
  ASSUME NEW k \in Estructuras, NEW c \in Conexiones \cup {Nada}, NEW m \in Seq(Mensajes)
  PROVE  Fijo(k, Envia(k, c, m))
  <1>1. Enviado(k, Envia(k, c, m), c, m)
    BY EnviaHace
  <1> QED BY <1>1 DEF Enviado, Caido, Iguales, Fijo

LEMMA TerminarFijo ==
  ASSUME NEW k, NEW a, NEW hs, KInv(k, a, hs, conexion), k.vivo = TRUE, NEW p \in Pids,
         NEW exit_code, NEW sock \in Conexiones \cup {Nada}, NEW conectada \in BOOLEAN
  PROVE  Fijo(k, end_process(k, p, exit_code, sock, conectada))
  <1>0. k \in Estructuras
    BY DEF KInv, Base, Tipos
  <1>1. CASE k.estado[p] = "Exit"
    <2>1. \/ end_process(k, p, exit_code, sock, conectada) = Envia(k, sock, <<0>>)
          \/ end_process(k, p, exit_code, sock, conectada) = k
      BY <1>1 DEF end_process
    <2>2. Fijo(k, Envia(k, sock, <<0>>)) /\ Fijo(k, k)
      BY <1>0, EnviaFijo, CodigosSonMensajes DEF Fijo
    <2> QED BY <2>1, <2>2
  <1>2. CASE k.estado[p] # "Exit"
    <2>s. PICK s : s = Sin(k, p)
      OBVIOUS
    <2>m. PICK m : m = <<IF exit_code = 0 THEN 6 ELSE 7>>
      OBVIOUS
    <2>c. PICK c : c = buscar_consola_de_proceso(s, p)
      OBVIOUS
    <2>e. PICK e : e = Envia(s, c, m)
      OBVIOUS
    <2>1. KInv(s, a, hs, conexion) /\ s.vivo = k.vivo /\ s \in Estructuras
      BY <2>s, SinBien DEF Parecidos
    <2>2. s.newfd = k.newfd
      BY <1>0, <2>s DEF Sin, Estructuras
    <2>3. c \in Conexiones \cup {Nada} /\ m \in Seq(Mensajes)
      BY <2>1, <2>c, <2>m, SuConsola, CodigosSonMensajes
    <2>4. Fijo(s, e) /\ e \in Estructuras
      <3>1. Enviado(s, e, c, m)
        BY <2>1, <2>3, <2>e, EnviaHace
      <3> QED BY <3>1, <2>1, <2>3, <2>e, EnviaFijo DEF Enviado, Caido, Iguales
    <2>5. Fijo(e, Envia(e, sock, <<1>>))
      BY <2>4, EnviaFijo, CodigosSonMensajes
    <2>6. \/ end_process(k, p, exit_code, sock, conectada) = Envia(e, sock, <<1>>)
          \/ end_process(k, p, exit_code, sock, conectada) = s
      BY <1>2, <2>s, <2>m, <2>c, <2>e DEF end_process, Sin
    <2> QED BY <2>1, <2>2, <2>4, <2>5, <2>6 DEF Fijo
  <1> QED BY <1>1, <1>2

LEMMA NuevoProgramaK ==
  ASSUME K, NEW c \in Conexiones, NuevoPrograma(c)
  PROVE  KSigue /\ Fijo(kernel, kernel')
  <1>1. /\ alKernel[c] # <<>> /\ Head(alKernel[c])[1] = "script"
        /\ alKernel' = [alKernel EXCEPT ![c] = Tail(@)]
        /\ conexion' = conexion /\ hilo' = hilo /\ kernel.vivo = TRUE
    <2>1. kernel \in Estructuras
      BY DEF K, KInv, Base, Tipos
    <2>2. kernel.vivo \in BOOLEAN
      BY <2>1 DEF Estructuras
    <2> QED BY <2>2 DEF NuevoPrograma, DelKernel, Lee
  <1>2. /\ KInv(kernel, alKernel', hilo, conexion)
    BY <1>1, LeerConserva DEF K
  <1>3. c \in Hilos /\ kernel \in Estructuras /\ c # Nada /\ c \in Conexiones
    BY <1>1, RestoDeCola, ConsolaAssumption DEF K, KInv, Base, Tipos
  <1>4. CASE Posiciones(c) = {}
    <2>1. kernel' = Muere(kernel)
      BY <1>4 DEF NuevoPrograma
    <2>2. Caido(kernel, kernel') /\ kernel'.canal = kernel.canal
      BY <2>1, <1>3, CaidaDelKernel
    <2>n. \A h \in Hilos : Nuevo(alKernel', hilo, h) => kernel'.canal[h] = <<>>
      BY <2>2, <1>2 DEF KInv, Base, Nuevos
    <2>3. Base(kernel', alKernel', hilo, conexion)
      BY <2>n, <2>2, <1>2, BaseCaida DEF KInv
    <2>4. \A h \in Hilos : Primero(kernel', hilo, conexion, h)
      BY <2>2, <1>2 DEF KInv, Primero, Suyo, Caido
    <2> QED BY <2>2, <2>3, <2>4, <1>1 DEF KSigue, KInv, Fijo, Caido
  <1>5. CASE Posiciones(c) # {}
    <2>k. PICK k : k = create_PCB(c)
      OBVIOUS
    <2>p. PICK p : p = k.pid
      OBVIOUS
    <2>1. /\ Base(k, alKernel', hilo, conexion)
          /\ \A h \in Hilos : h # c => Primero(k, hilo, conexion, h)
          /\ p \in Pids /\ k.fd_consola[p] = c /\ k.vivo = TRUE
          /\ k.canal[c] = <<>> /\ ~Nuevo(alKernel', hilo, c)
      BY <1>1, <1>3, <1>5, <2>k, <2>p, CrearBien
    <2>2. k \in Estructuras /\ Entradas(k) /\ MarcasBien(k)
      BY <2>1 DEF Base, Tipos
    <2>3. k.newfd = kernel.newfd
      BY <1>3, <2>k DEF create_PCB, Estructuras
    \* Whatever k becomes before the answer is sent
    <2>4. ASSUME NEW j, NEW m \in Seq(Mensajes), Parecidos(k, j), Entradas(j),
                 MarcasBien(j), j.newfd = k.newfd,
                 kernel' = Envia(j, c, m), m # <<>>, Head(m) \in {-1, p}
          PROVE  KSigue /\ Fijo(kernel, kernel')
      <3>1. /\ Base(j, alKernel', hilo, conexion)
            /\ \A h \in Hilos : h # c => Primero(j, hilo, conexion, h)
        BY <2>1, <2>4, ParecidosEnBase
      <3>2. Head(m) = -1 \/ Suyo(j, c, Head(m))
        BY <2>1, <2>4 DEF Suyo, Parecidos
      <3>3. Puede(j, alKernel', hilo, conexion, c, m)
        BY <3>2, <2>1, <2>4 DEF Puede
      <3>4. j \in Estructuras /\ j.canal[c] = <<>> /\ j.vivo = TRUE
        BY <2>1, <2>4 DEF Parecidos
      <3>5. Base(kernel', alKernel', hilo, conexion)
        BY <3>1, <3>3, <2>4, EnviarConserva
      <3>6. Primero(kernel', hilo, conexion, c)
        BY <3>2, <3>4, <2>4, <1>3, EnviarPrimera
      <3>7. ASSUME NEW h \in Hilos, h # c
            PROVE  Primero(kernel', hilo, conexion, h)
        BY <3>1, <3>3, <3>7, <2>4, EnviarPrimero
      <3>8. Fijo(j, kernel')
        BY <3>4, <2>4, EnviaFijo
      <3>9. Fijo(kernel, kernel')
        BY <3>8, <2>3, <2>4, <1>1 DEF Fijo
      <3> QED BY <3>5, <3>6, <3>7, <3>9, <1>1 DEF KSigue, KInv
    <2>5. ASSUME NEW q \in Pids
          PROVE  /\ <<q>> \in Seq(Mensajes) /\ <<q>> # <<>> /\ Head(<<q>>) = q
      BY CodigosSonMensajes
    <2>6. <<-1>> \in Seq(Mensajes) /\ <<-1>> # <<>> /\ Head(<<-1>>) = -1
      BY CodigosSonMensajes
    <2>7. CASE kernel' = Envia([k EXCEPT !.estado[p] = "Listo"], c, <<p>>)
      <3>j. PICK j : j = [k EXCEPT !.estado[p] = "Listo"]
        OBVIOUS
      <3>e. PICK e : e = [k.estado EXCEPT ![p] = "Listo"]
        OBVIOUS
      <3>1. e \in [Pids -> {"NoExiste", "New", "Listo", "Exec", "Exit"}]
        BY <2>2, <3>e DEF Estructuras
      <3>2. j = [k EXCEPT !.estado = e]
        BY <3>e, <3>j
      <3>3. /\ j \in Estructuras /\ Parecidos(k, j) /\ j.newfd = k.newfd
            /\ j.lista_consolas = k.lista_consolas /\ j.nuevos = k.nuevos
            /\ j.borrar = k.borrar
        BY <2>2, <3>1, <3>2 DEF Estructuras, Parecidos
      <3>4. Entradas(j) /\ MarcasBien(j)
        BY <2>2, <3>3 DEF Entradas, MarcasBien, Parecidos
      <3> QED BY <2>1, <2>4, <2>5, <2>7, <3>3, <3>4, <3>j
    <2>8. CASE kernel' = Envia([k EXCEPT !.estado[p] = "Exit", !.terminados = @ \cup {p}],
                               c, <<-1>>)
      <3>j. PICK j : j = Sin(k, p)
        OBVIOUS
      <3>e. PICK e : e = [k.estado EXCEPT ![p] = "Exit"]
        OBVIOUS
      <3>t. PICK t : t = k.terminados \cup {p}
        OBVIOUS
      <3>1. /\ e \in [Pids -> {"NoExiste", "New", "Listo", "Exec", "Exit"}]
            /\ t \in SUBSET Pids /\ k.terminados \subseteq t
        BY <2>1, <2>2, <3>e, <3>t DEF Estructuras
      <3>2. j = [k EXCEPT !.estado = e, !.terminados = t]
        BY <3>e, <3>j, <3>t DEF Sin
      <3>3. /\ j \in Estructuras /\ Parecidos(k, j) /\ j.newfd = k.newfd
            /\ j.lista_consolas = k.lista_consolas /\ j.nuevos = k.nuevos
            /\ j.borrar = k.borrar
        BY <2>2, <3>1, <3>2 DEF Estructuras, Parecidos
      <3>4. Entradas(j) /\ MarcasBien(j)
        BY <2>2, <3>3 DEF Entradas, MarcasBien, Parecidos
      <3>5. kernel' = Envia(j, c, <<-1>>)
        BY <2>8, <3>j DEF Sin
      <3> QED BY <2>4, <2>6, <3>3, <3>4, <3>5
    <2>9. CASE kernel' = Envia([k EXCEPT !.estado[p] = "New",
                                         !.nuevos = Append(@, [pid |-> p, fd |-> c])], c, <<p>>)
      <3>j. PICK j : j = [k EXCEPT !.estado[p] = "New",
                                   !.nuevos = Append(@, [pid |-> p, fd |-> c])]
        OBVIOUS
      <3>e. PICK e : e = [k.estado EXCEPT ![p] = "New"]
        OBVIOUS
      <3>x. PICK x : x = [pid |-> p, fd |-> c]
        OBVIOUS
      <3>n. PICK n : n = Append(k.nuevos, x)
        OBVIOUS
      <3>1. /\ e \in [Pids -> {"NoExiste", "New", "Listo", "Exec", "Exit"}]
            /\ x \in [pid : Pids, fd : Conexiones] /\ x.pid = p /\ x.fd = c
            /\ k.nuevos \in Seq([pid : Pids, fd : Conexiones])
        BY <1>3, <2>1, <2>2, <3>e, <3>x DEF Estructuras
      <3>2. /\ n \in Seq([pid : Pids, fd : Conexiones])
            /\ \A i \in DOMAIN n : (i \in DOMAIN k.nuevos /\ n[i] = k.nuevos[i]) \/ n[i] = x
        BY <3>1, <3>n, Agregar
      <3>3. j = [k EXCEPT !.estado = e, !.nuevos = n]
        BY <3>e, <3>j, <3>n, <3>x
      <3>4. /\ j \in Estructuras /\ Parecidos(k, j) /\ j.newfd = k.newfd
            /\ j.lista_consolas = k.lista_consolas /\ j.nuevos = n /\ j.borrar = k.borrar
        BY <2>2, <3>1, <3>2, <3>3 DEF Estructuras, Parecidos
      <3>5. Entradas(j) /\ MarcasBien(j)
        BY <2>1, <2>2, <3>1, <3>2, <3>4 DEF Entradas, MarcasBien, Parecidos
      <3> QED BY <2>1, <2>4, <2>5, <2>9, <3>4, <3>5, <3>j
    <2>10. CASE kernel' = Envia(kernel, c, <<-1>>)
      <3>1. Puede(kernel, alKernel', hilo, conexion, c, <<-1>>)
        BY <2>1, <2>6 DEF Puede
      <3>2. Base(kernel', alKernel', hilo, conexion)
        BY <3>1, <2>6, <2>10, <1>2, EnviarConserva DEF KInv
      <3>3. ASSUME NEW h \in Hilos
            PROVE  Primero(kernel', hilo, conexion, h)
        BY <3>1, <2>6, <2>10, <1>2, EnviarPrimero DEF KInv
      <3>4. Fijo(kernel, kernel')
        BY <2>6, <2>10, <1>3, EnviaFijo
      <3> QED BY <3>2, <3>3, <3>4, <1>1 DEF KSigue, KInv
    <2> QED
      BY <1>5, <2>k, <2>p, <2>7, <2>8, <2>9, <2>10 DEF NuevoPrograma
  <1> QED BY <1>4, <1>5

\* What changes inside the Kernel, with nothing new listed
De(s, t) == \A i \in DOMAIN s : \E j \in DOMAIN t : s[i] = t[j]

LEMMA CambioBien ==
  ASSUME NEW k, NEW a, NEW hs, NEW cx, NEW j, KInv(k, a, hs, cx), Parecidos(k, j),
         De(j.nuevos, k.nuevos), De(j.lista_consolas, k.lista_consolas),
         De(j.borrar, k.borrar)
  PROVE  /\ KInv(j, a, hs, cx)
         /\ \A d : PuedeYa(k, a, hs, cx, d) => PuedeYa(j, a, hs, cx, d)
  <1>1. Entradas(j)
    <2>1. ASSUME NEW i \in DOMAIN j.lista_consolas, j.lista_consolas[i].proceso # 0
          PROVE  /\ j.lista_consolas[i].proceso \in Pids
                 /\ j.fd_consola[j.lista_consolas[i].proceso] = j.lista_consolas[i].sock
      BY <2>1 DEF KInv, Base, Entradas, De, Parecidos
    <2>2. ASSUME NEW i \in DOMAIN j.nuevos
          PROVE  j.fd_consola[j.nuevos[i].pid] = j.nuevos[i].fd
      BY DEF KInv, Base, Entradas, De, Parecidos
    <2> QED BY <2>1, <2>2 DEF Entradas
  <1>2. MarcasBien(j)
    BY DEF KInv, Base, MarcasBien, De
  <1> QED BY <1>1, <1>2, ParecidosIgualDeBien

LEMMA DeSi == \A s : De(s, s)
  BY DEF De

\* Who has a program has been told its pid
LEMMA YaTienePid ==
  ASSUME NEW k, NEW a, NEW hs, NEW cx, KInv(k, a, hs, cx), k.vivo = TRUE, NEW p \in Pids
  PROVE  PuedeYa(k, a, hs, cx, k.fd_consola[p])
  <1>c. PICK c : c = k.fd_consola[p]
    OBVIOUS
  <1> SUFFICES ASSUME c \in Hilos
               PROVE  PuedeYa(k, a, hs, cx, c)
    BY <1>c DEF PuedeYa
  <1>1. ~Nuevo(a, hs, c)
    BY <1>c DEF KInv, Base, Nuevos
  <1>2. ~(k.canal[c] = <<>> /\ hs[c].en = "espera_pid" /\ cx[c] = "abierta")
    BY <1>c DEF KInv, Primero
  <1> QED BY <1>1, <1>2 DEF PuedeYa

LosEstados == {"NoExiste", "New", "Listo", "Exec", "Exit"}

LEMMA EstadoBien ==
  ASSUME NEW k, NEW a, NEW hs, NEW cx, KInv(k, a, hs, cx), NEW p \in Pids,
         NEW x \in LosEstados
  PROVE  LET j == [k EXCEPT !.estado[p] = x]
         IN  /\ KInv(j, a, hs, cx) /\ Parecidos(k, j)
             /\ j.newfd = k.newfd /\ j.estado = [k.estado EXCEPT ![p] = x]
             /\ j.lista_consolas = k.lista_consolas /\ j.nuevos = k.nuevos
             /\ j.borrar = k.borrar /\ j.terminados = k.terminados
  <1>j. PICK j : j = [k EXCEPT !.estado[p] = x]
    OBVIOUS
  <1>e. PICK e : e = [k.estado EXCEPT ![p] = x]
    OBVIOUS
  <1>0. k \in Estructuras
    BY DEF KInv, Base, Tipos
  <1>1. e \in [Pids -> LosEstados]
    BY <1>0, <1>e DEF Estructuras, LosEstados
  <1>2. j = [k EXCEPT !.estado = e]
    BY <1>e, <1>j
  <1>3. /\ j \in Estructuras /\ Parecidos(k, j)
        /\ j.newfd = k.newfd /\ j.estado = e
        /\ j.lista_consolas = k.lista_consolas /\ j.nuevos = k.nuevos
        /\ j.borrar = k.borrar /\ j.terminados = k.terminados
    BY <1>0, <1>1, <1>2 DEF Estructuras, Parecidos, LosEstados
  <1>4. KInv(j, a, hs, cx)
    BY <1>3, CambioBien, DeSi
  <1> QED BY <1>3, <1>4, <1>e, <1>j

\* The rest of new_queue
LEMMA SiguienteDeNew ==
  ASSUME NEW k, NEW a, NEW hs, NEW cx, KInv(k, a, hs, cx), k.nuevos # <<>>
  PROVE  LET n == Head(k.nuevos)
             j == [k EXCEPT !.nuevos = Tail(@)]
         IN  /\ KInv(j, a, hs, cx) /\ Parecidos(k, j)
             /\ j.newfd = k.newfd /\ j.estado = k.estado
             /\ j.lista_consolas = k.lista_consolas /\ j.nuevos = Tail(k.nuevos)
             /\ j.borrar = k.borrar /\ j.terminados = k.terminados
             /\ n.pid \in Pids /\ n.fd \in Conexiones /\ k.fd_consola[n.pid] = n.fd
             /\ DOMAIN k.nuevos = 1 .. Len(k.nuevos) /\ n = k.nuevos[1]
             /\ DOMAIN Tail(k.nuevos) = 1 .. Len(k.nuevos) - 1
             /\ \A i \in 1 .. Len(k.nuevos) - 1 : /\ Tail(k.nuevos)[i] = k.nuevos[i + 1]
                                                  /\ i + 1 \in DOMAIN k.nuevos
  <1>s. PICK s : s = k.nuevos
    OBVIOUS
  <1>t. PICK t : t = Tail(s)
    OBVIOUS
  <1>j. PICK j : j = [k EXCEPT !.nuevos = t]
    OBVIOUS
  <1>m. PICK m : m = Len(s)
    OBVIOUS
  <1>0. k \in Estructuras /\ s \in Seq([pid : Pids, fd : Conexiones])
    BY <1>s DEF KInv, Base, Tipos, Estructuras
  <1>1. /\ m \in Nat /\ m # 0 /\ DOMAIN s = 1 .. m /\ 1 \in DOMAIN s /\ Head(s) = s[1]
        /\ t \in Seq([pid : Pids, fd : Conexiones]) /\ Len(t) = m - 1
        /\ \A i \in 1 .. m - 1 : t[i] = s[i + 1]
    BY <1>0, <1>s, <1>t, <1>m, HeadTailProperties
  <1>2. DOMAIN t = 1 .. m - 1 /\ \A i \in 1 .. m - 1 : i + 1 \in 1 .. m
    BY <1>1
  <1>3. De(t, s)
    BY <1>1, <1>2 DEF De
  <1>4. s[1] \in [pid : Pids, fd : Conexiones] /\ k.fd_consola[s[1].pid] = s[1].fd
    <2>1. s[1] \in [pid : Pids, fd : Conexiones]
      BY <1>0, <1>1, ElementoDe
    <2>2. \A i \in DOMAIN s : k.fd_consola[s[i].pid] = s[i].fd
      BY <1>s DEF KInv, Base, Entradas
    <2> QED BY <2>1, <2>2, <1>1
  <1>5. /\ j \in Estructuras /\ Parecidos(k, j)
        /\ j.newfd = k.newfd /\ j.estado = k.estado
        /\ j.lista_consolas = k.lista_consolas /\ j.nuevos = t
        /\ j.borrar = k.borrar /\ j.terminados = k.terminados
    BY <1>0, <1>1, <1>j DEF Estructuras, Parecidos
  <1>6. KInv(j, a, hs, cx)
    BY <1>3, <1>5, <1>s, CambioBien, DeSi
  <1> QED BY <1>1, <1>2, <1>4, <1>5, <1>6, <1>s, <1>t, <1>j, <1>m

LEMMA AdmitirDeNewK ==
  ASSUME K, AdmitirDeNew
  PROVE  KSigue /\ Fijo(kernel, kernel')
  <1>n. PICK n : n = Head(kernel.nuevos)
    OBVIOUS
  <1>k. PICK k : k = [kernel EXCEPT !.nuevos = Tail(@)]
    OBVIOUS
  <1>0. kernel \in Estructuras /\ kernel.vivo \in BOOLEAN
    BY DEF K, KInv, Base, Tipos, Estructuras
  <1>1. /\ kernel.vivo = TRUE /\ kernel.nuevos # <<>>
        /\ conexion' = conexion /\ hilo' = hilo /\ alKernel' = alKernel
        /\ \/ kernel' = Envia([k EXCEPT !.estado[n.pid] = "Listo"], n.fd, <<n.pid>>)
           \/ kernel' = Envia(Sin(k, n.pid), n.fd, <<-1>>)
    BY <1>0, <1>n, <1>k DEF AdmitirDeNew, DelKernel, Sin
  <1>2. /\ KInv(k, alKernel, hilo, conexion) /\ Parecidos(kernel, k)
        /\ k.newfd = kernel.newfd
        /\ n.pid \in Pids /\ n.fd \in Conexiones /\ kernel.fd_consola[n.pid] = n.fd
    BY <1>1, <1>n, <1>k, SiguienteDeNew DEF K
  <1>3. ASSUME NEW j, NEW m \in Seq(Mensajes), KInv(j, alKernel, hilo, conexion),
               Parecidos(k, j), j.newfd = k.newfd, kernel' = Envia(j, n.fd, m)
        PROVE  KSigue /\ Fijo(kernel, kernel')
    <2>1. j.vivo = TRUE /\ j.fd_consola[n.pid] = n.fd /\ j \in Estructuras
      BY <1>1, <1>2, <1>3 DEF Parecidos
    <2>2. PuedeYa(j, alKernel, hilo, conexion, n.fd)
      <3>1. PuedeYa(j, alKernel, hilo, conexion, j.fd_consola[n.pid])
        BY <2>1, <1>2, <1>3, YaTienePid
      <3> QED BY <3>1, <2>1
    <2>3. KInv(kernel', alKernel, hilo, conexion)
      BY <2>2, <1>2, <1>3, EnviarYa
    <2>4. Fijo(j, kernel')
      BY <2>1, <1>2, <1>3, EnviaFijo
    <2> QED BY <2>1, <2>3, <2>4, <1>1, <1>2, <1>3 DEF KSigue, Fijo
  <1>4. CASE kernel' = Envia([k EXCEPT !.estado[n.pid] = "Listo"], n.fd, <<n.pid>>)
    <2>j. PICK j : j = [k EXCEPT !.estado[n.pid] = "Listo"]
      OBVIOUS
    <2>1. KInv(j, alKernel, hilo, conexion) /\ Parecidos(k, j) /\ j.newfd = k.newfd
      BY ZenonT(40), <1>2, <2>j, EstadoBien DEF LosEstados
    <2> QED BY <2>1, <2>j, <1>2, <1>3, <1>4, CodigosSonMensajes
  <1>5. CASE kernel' = Envia(Sin(k, n.pid), n.fd, <<-1>>)
    <2>j. PICK j : j = Sin(k, n.pid)
      OBVIOUS
    <2>1. KInv(j, alKernel, hilo, conexion) /\ Parecidos(k, j)
      BY <1>2, <2>j, SinBien
    <2>2. j.newfd = k.newfd
      BY <1>2, <2>j DEF Sin, Parecidos, Estructuras
    <2> QED BY <2>1, <2>2, <2>j, <1>3, <1>5, CodigosSonMensajes
  <1> QED BY <1>1, <1>4, <1>5

LEMMA DespacharK ==
  ASSUME K, NEW p \in Pids, Despachar(p)
  PROVE  KSigue /\ Fijo(kernel, kernel')
  <1>1. /\ kernel' = [kernel EXCEPT !.estado[p] = "Exec"]
        /\ conexion' = conexion /\ hilo' = hilo /\ alKernel' = alKernel
    BY DEF Despachar, DelKernel
  <1>2. /\ KInv(kernel', alKernel, hilo, conexion) /\ Parecidos(kernel, kernel')
        /\ kernel'.newfd = kernel.newfd
    BY ZenonT(40), <1>1, EstadoBien DEF K, LosEstados
  <1> QED BY <1>1, <1>2 DEF KSigue, Fijo, Parecidos

LEMMA ImprimirK ==
  ASSUME K, NEW p \in Pids, Imprimir(p)
  PROVE  KSigue /\ Fijo(kernel, kernel')
  <1>c. PICK c : c = buscar_consola_de_proceso(kernel, p)
    OBVIOUS
  <1>m. PICK m : m = <<5, Largo, Texto>>
    OBVIOUS
  <1>0. kernel \in Estructuras /\ kernel.vivo \in BOOLEAN
    BY DEF K, KInv, Base, Tipos, Estructuras
  <1>1. /\ kernel' = Envia(kernel, c, m) /\ kernel.vivo = TRUE
        /\ conexion' = conexion /\ hilo' = hilo /\ alKernel' = alKernel
    BY <1>0, <1>c, <1>m DEF Imprimir, DelKernel
  <1>2. /\ c \in Conexiones \cup {Nada} /\ m \in Seq(Mensajes)
        /\ PuedeYa(kernel, alKernel, hilo, conexion, c)
    BY <1>1, <1>c, <1>m, SuConsola, CodigosSonMensajes DEF K
  <1>3. KInv(kernel', alKernel, hilo, conexion)
    BY <1>1, <1>2, EnviarYa DEF K
  <1>4. Fijo(kernel, kernel')
    BY <1>0, <1>1, <1>2, EnviaFijo
  <1> QED BY <1>1, <1>3, <1>4 DEF KSigue

\* The end of p, told to its own Consola
LEMMA TerminarSuyoK ==
  ASSUME K, NEW p \in Pids, kernel.vivo = TRUE, NEW exit_code, NEW avisa \in BOOLEAN,
         kernel' = end_process(kernel, p, exit_code, buscar_consola_de_proceso(kernel, p), avisa),
         conexion' = conexion, hilo' = hilo, alKernel' = alKernel
  PROVE  KSigue /\ Fijo(kernel, kernel')
  <1>c. PICK c : c = buscar_consola_de_proceso(kernel, p)
    OBVIOUS
  <1>1. c \in Conexiones \cup {Nada} /\ PuedeYa(kernel, alKernel, hilo, conexion, c)
    BY <1>c, SuConsola DEF K
  <1>2. KInv(kernel', alKernel, hilo, conexion)
    BY <1>1, <1>c, TerminarBien DEF K
  <1>3. Fijo(kernel, kernel')
    BY <1>1, <1>c, TerminarFijo DEF K
  <1> QED BY <1>2, <1>3 DEF KSigue

\* The mark that PorMarca goes by
LEMMA LaMarca ==
  ASSUME K, NEW p \in Pids, Marcas(p) # {}
  PROVE  LET i == Min(Marcas(p))
             j == [kernel EXCEPT !.borrar = RemoveAt(@, i)]
         IN  /\ i \in DOMAIN kernel.borrar /\ kernel.borrar[i].proceso = p
             /\ KInv(j, alKernel, hilo, conexion) /\ Parecidos(kernel, j)
             /\ j.newfd = kernel.newfd /\ j.estado = kernel.estado
             /\ j.lista_consolas = kernel.lista_consolas /\ j.nuevos = kernel.nuevos
             /\ j.borrar = RemoveAt(kernel.borrar, i) /\ j.terminados = kernel.terminados
             /\ kernel.borrar[i].exit_code \in {-6, -7}
             /\ kernel.borrar[i].connection \in BOOLEAN
             /\ kernel.borrar[i].askeadora \in Conexiones
             /\ \/ kernel.borrar[i].exit_code = -7 /\ kernel.borrar[i].askeadora = Fin
                \/ kernel.borrar[i].exit_code = -6 /\ kernel.borrar[i].connection = FALSE
  <1> DEFINE T == [proceso : Pids, exit_code : {-6, -7}, connection : BOOLEAN,
                   askeadora : Conexiones]
  <1>i. PICK i : i = Min(Marcas(p))
    OBVIOUS
  <1>b. PICK b : b = RemoveAt(kernel.borrar, i)
    OBVIOUS
  <1>j. PICK j : j = [kernel EXCEPT !.borrar = b]
    OBVIOUS
  <1>0. kernel \in Estructuras /\ kernel.borrar \in Seq(T)
    BY DEF K, KInv, Base, Tipos, Estructuras
  <1>1. Marcas(p) \in SUBSET Nat
    BY <1>0 DEF Marcas
  <1>2. i \in Marcas(p)
    BY <1>1, <1>i, MinimoEsta
  <1>3. i \in DOMAIN kernel.borrar /\ kernel.borrar[i].proceso = p
    BY <1>2 DEF Marcas
  <1> HIDE DEF T
  <1>4. kernel.borrar[i] \in T
    BY <1>0, <1>3, ElementoDe
  <1>5. b \in Seq(T) /\ De(b, kernel.borrar)
    BY <1>0, <1>3, <1>b, Quitar, QuitarDeja DEF De
  <1>6. /\ j \in Estructuras /\ Parecidos(kernel, j)
        /\ j.newfd = kernel.newfd /\ j.estado = kernel.estado
        /\ j.lista_consolas = kernel.lista_consolas /\ j.nuevos = kernel.nuevos
        /\ j.borrar = b /\ j.terminados = kernel.terminados
    BY <1>0, <1>5, <1>j DEF Estructuras, Parecidos, T
  <1>7. KInv(j, alKernel, hilo, conexion)
    BY <1>5, <1>6, CambioBien, DeSi DEF K
  <1>8. \/ kernel.borrar[i].exit_code = -7 /\ kernel.borrar[i].askeadora = Fin
        \/ kernel.borrar[i].exit_code = -6 /\ kernel.borrar[i].connection = FALSE
    BY <1>3 DEF K, KInv, Base, MarcasBien
  <1>9. /\ kernel.borrar[i].exit_code \in {-6, -7}
        /\ kernel.borrar[i].connection \in BOOLEAN
        /\ kernel.borrar[i].askeadora \in Conexiones
    BY <1>4 DEF T
  <1>10. [kernel EXCEPT !.borrar = RemoveAt(@, Min(Marcas(p)))] = j
    BY <1>b, <1>i, <1>j
  <1> QED BY <1>3, <1>6, <1>7, <1>8, <1>9, <1>10, <1>b, <1>i

LEMMA PorMarcaK ==
  ASSUME K, NEW p \in Pids, kernel.vivo = TRUE, Marcas(p) # {}, kernel' = PorMarca(p),
         conexion' = conexion, hilo' = hilo, alKernel' = alKernel
  PROVE  KSigue /\ Fijo(kernel, kernel')
  <1>i. PICK i : i = Min(Marcas(p))
    OBVIOUS
  <1>j. PICK j : j = [kernel EXCEPT !.borrar = RemoveAt(@, i)]
    OBVIOUS
  <1>x. PICK x : x = kernel.borrar[i].exit_code
    OBVIOUS
  <1>a. PICK avisa : avisa = kernel.borrar[i].connection
    OBVIOUS
  <1>c. PICK c : c = IF x = -7 THEN kernel.borrar[i].askeadora
                     ELSE buscar_consola_de_proceso(kernel, p)
    OBVIOUS
  <1>1. kernel' = end_process(j, p, x, c, avisa)
    BY <1>i, <1>j, <1>x, <1>a, <1>c DEF PorMarca
  <1>2. /\ KInv(j, alKernel, hilo, conexion) /\ Parecidos(kernel, j)
        /\ j.newfd = kernel.newfd /\ avisa \in BOOLEAN
        /\ kernel.borrar[i].askeadora \in Conexiones
        /\ (x = -7 /\ kernel.borrar[i].askeadora = Fin) \/ (x = -6 /\ avisa = FALSE)
    BY <1>i, <1>j, <1>x, <1>a, LaMarca
  <1>3. c \in Conexiones \cup {Nada}
    <2>1. buscar_consola_de_proceso(kernel, p) \in Conexiones \cup {Nada}
      BY SuConsola DEF K
    <2> QED BY <2>1, <1>2, <1>c
  <1>4. avisa = TRUE => PuedeYa(j, alKernel, hilo, conexion, c)
    <2> SUFFICES ASSUME avisa = TRUE
                 PROVE  PuedeYa(j, alKernel, hilo, conexion, c)
      OBVIOUS
    <2>1. c = Fin
      BY <1>2, <1>c
    <2> QED BY <2>1, ConsolaAssumption DEF PuedeYa
  <1>5. j.vivo = TRUE
    BY <1>2 DEF Parecidos
  <1>6. KInv(kernel', alKernel, hilo, conexion)
    BY <1>1, <1>2, <1>3, <1>4, <1>5, TerminarBien
  <1>7. Fijo(j, kernel')
    BY <1>1, <1>2, <1>3, <1>5, TerminarFijo
  <1> QED BY <1>2, <1>5, <1>6, <1>7 DEF KSigue, Fijo

LEMMA FinDeTurnoK ==
  ASSUME K, NEW p \in Pids, FinDeTurno(p)
  PROVE  KSigue /\ Fijo(kernel, kernel')
  <1>0. kernel.vivo \in BOOLEAN
    BY DEF K, KInv, Base, Tipos, Estructuras
  <1>1. CASE FinDeRafaga(p)
    <2>1. /\ kernel' = IF proceso_para_borrar(p) THEN PorMarca(p)
                       ELSE [kernel EXCEPT !.estado[p] = "Listo"]
          /\ kernel.vivo = TRUE /\ conexion' = conexion /\ hilo' = hilo /\ alKernel' = alKernel
      BY <1>0, <1>1 DEF FinDeRafaga, DelKernel
    <2>2. CASE Marcas(p) # {}
      BY <2>1, <2>2, PorMarcaK DEF proceso_para_borrar
    <2>3. CASE ~(Marcas(p) # {})
      <3>1. /\ KInv(kernel', alKernel, hilo, conexion) /\ Parecidos(kernel, kernel')
            /\ kernel'.newfd = kernel.newfd
        BY ZenonT(40), <2>1, <2>3, EstadoBien DEF K, LosEstados, proceso_para_borrar
      <3> QED BY <2>1, <3>1 DEF KSigue, Fijo, Parecidos
    <2> QED BY <2>2, <2>3
  <1>2. CASE Finalizado(p)
    <2>1. /\ kernel' = IF proceso_para_borrar(p) THEN PorMarca(p)
                       ELSE end_process(kernel, p, 0, buscar_consola_de_proceso(kernel, p), TRUE)
          /\ kernel.vivo = TRUE /\ conexion' = conexion /\ hilo' = hilo /\ alKernel' = alKernel
      BY <1>0, <1>2 DEF Finalizado, DelKernel
    <2>2. CASE Marcas(p) # {}
      BY <2>1, <2>2, PorMarcaK DEF proceso_para_borrar
    <2>3. CASE ~(Marcas(p) # {})
      BY <2>1, <2>3, TerminarSuyoK DEF proceso_para_borrar
    <2> QED BY <2>2, <2>3
  <1>3. CASE Abortar(p)
    <2>1. kernel.vivo = TRUE /\ conexion' = conexion /\ hilo' = hilo /\ alKernel' = alKernel
      BY <1>0, <1>3 DEF Abortar, DelKernel
    <2>2. PICK avisa \in BOOLEAN :
            kernel' = end_process(kernel, p, -20, buscar_consola_de_proceso(kernel, p), avisa)
      BY <1>3 DEF Abortar
    <2> QED BY <2>1, <2>2, TerminarSuyoK
  <1> QED BY <1>1, <1>2, <1>3 DEF FinDeTurno

\* A process is ended, or marked while it executes
LEMMA MarcarHace ==
  ASSUME NEW k, k \in Estructuras, NEW p \in Pids, NEW x \in {-6, -7},
         NEW avisa \in BOOLEAN, NEW c \in Conexiones
  PROVE  LET j == Marcar(k, p, x, avisa, c)
         IN  /\ Parecidos(k, j)
             /\ j.newfd = k.newfd /\ j.estado = k.estado
             /\ j.lista_consolas = k.lista_consolas /\ j.nuevos = k.nuevos
             /\ j.terminados = k.terminados
             /\ \A i \in DOMAIN j.borrar :
                  \/ i \in DOMAIN k.borrar /\ j.borrar[i] = k.borrar[i]
                  \/ /\ j.borrar[i].proceso = p /\ j.borrar[i].exit_code = x
                     /\ j.borrar[i].connection = avisa /\ j.borrar[i].askeadora = c
             /\ \A i \in DOMAIN k.borrar : i \in DOMAIN j.borrar /\ j.borrar[i] = k.borrar[i]
             /\ \E i \in DOMAIN j.borrar :
                  /\ j.borrar[i].proceso = p /\ j.borrar[i].exit_code = x
                  /\ j.borrar[i].connection = avisa /\ j.borrar[i].askeadora = c
  <1> DEFINE T == [proceso : Pids, exit_code : {-6, -7}, connection : BOOLEAN,
                   askeadora : Conexiones]
  <1>e. PICK e : e = [proceso |-> p, exit_code |-> x, connection |-> avisa, askeadora |-> c]
    OBVIOUS
  <1>1. /\ e \in T /\ e.proceso = p /\ e.exit_code = x /\ e.connection = avisa
        /\ e.askeadora = c
    BY <1>e
  <1>b. PICK b : b = Append(k.borrar, e)
    OBVIOUS
  <1>0. k \in Estructuras /\ k.borrar \in Seq(T)
    BY DEF Estructuras
  <1> HIDE DEF T
  <1>2. /\ b \in Seq(T)
        /\ \A i \in DOMAIN b : (i \in DOMAIN k.borrar /\ b[i] = k.borrar[i]) \/ b[i] = e
        /\ \A i \in DOMAIN k.borrar : i \in DOMAIN b /\ b[i] = k.borrar[i]
        /\ \E i \in DOMAIN b : b[i] = e
    BY <1>0, <1>1, <1>b, Agregar
  <1>j. PICK j : j = [k EXCEPT !.borrar = b]
    OBVIOUS
  <1>3. Marcar(k, p, x, avisa, c) = j
    BY <1>b, <1>e, <1>j DEF Marcar
  <1>4. /\ j \in Estructuras /\ Parecidos(k, j)
        /\ j.newfd = k.newfd /\ j.estado = k.estado
        /\ j.lista_consolas = k.lista_consolas /\ j.nuevos = k.nuevos
        /\ j.borrar = b /\ j.terminados = k.terminados
    BY <1>0, <1>2, <1>j DEF Estructuras, Parecidos, T
  <1>8. /\ \A i \in DOMAIN b :
             \/ i \in DOMAIN k.borrar /\ b[i] = k.borrar[i]
             \/ /\ b[i].proceso = p /\ b[i].exit_code = x
                /\ b[i].connection = avisa /\ b[i].askeadora = c
        /\ \E i \in DOMAIN b : /\ b[i].proceso = p /\ b[i].exit_code = x
                               /\ b[i].connection = avisa /\ b[i].askeadora = c
    BY <1>1, <1>2
  <1> QED BY <1>2, <1>3, <1>4, <1>8

LEMMA MarcarBien ==
  ASSUME NEW k, NEW a, NEW hs, NEW cx, KInv(k, a, hs, cx), NEW p \in Pids,
         NEW x \in {-6, -7}, NEW avisa \in BOOLEAN, NEW c \in Conexiones,
         (x = -7 /\ c = Fin) \/ (x = -6 /\ avisa = FALSE)
  PROVE  KInv(Marcar(k, p, x, avisa, c), a, hs, cx)
  <1>j. PICK j : j = Marcar(k, p, x, avisa, c)
    OBVIOUS
  <1>0. k \in Estructuras
    BY DEF KInv, Base, Tipos
  <1>1. /\ Parecidos(k, j) /\ j.lista_consolas = k.lista_consolas /\ j.nuevos = k.nuevos
        /\ \A i \in DOMAIN j.borrar :
             \/ i \in DOMAIN k.borrar /\ j.borrar[i] = k.borrar[i]
             \/ /\ j.borrar[i].proceso = p /\ j.borrar[i].exit_code = x
                /\ j.borrar[i].connection = avisa /\ j.borrar[i].askeadora = c
    BY <1>0, <1>j, MarcarHace
  <1>2. MarcasBien(j)
    <2>1. ASSUME NEW i \in DOMAIN j.borrar
          PROVE  \/ j.borrar[i].exit_code = -7 /\ j.borrar[i].askeadora = Fin
                 \/ j.borrar[i].exit_code = -6 /\ j.borrar[i].connection = FALSE
      <3>1. CASE i \in DOMAIN k.borrar /\ j.borrar[i] = k.borrar[i]
        BY <3>1 DEF KInv, Base, MarcasBien
      <3> QED BY <3>1, <1>1
    <2> QED BY <2>1 DEF MarcasBien
  <1>3. Entradas(j)
    BY <1>1 DEF KInv, Base, Entradas, Parecidos
  <1> QED BY <1>1, <1>2, <1>3, <1>j, ParecidosIgualDeBien

LEMMA TerminarOMarcarBien ==
  ASSUME NEW k, NEW a, NEW hs, KInv(k, a, hs, conexion), k.vivo = TRUE, NEW p \in Pids,
         NEW x \in {-6, -7}, NEW avisa \in BOOLEAN, NEW c \in Conexiones,
         (x = -7 /\ c = Fin) \/ (x = -6 /\ avisa = FALSE)
  PROVE  /\ KInv(Terminar(k, p, x, avisa, c), a, hs, conexion)
         /\ Fijo(k, Terminar(k, p, x, avisa, c))
  <1>1. CASE k.estado[p] = "Exec"
    <2>j. PICK j : j = Marcar(k, p, x, avisa, c)
      OBVIOUS
    <2>0. k \in Estructuras
      BY DEF KInv, Base, Tipos
    <2>m. KInv(j, a, hs, conexion)
      BY <2>j, MarcarBien
    <2>n. Parecidos(k, j) /\ j.newfd = k.newfd
      BY <2>0, <2>j, MarcarHace
    <2>1. KInv(j, a, hs, conexion) /\ Parecidos(k, j) /\ j.newfd = k.newfd
      BY <2>m, <2>n
    <2>2. Terminar(k, p, x, avisa, c) = j
      BY <1>1, <2>j DEF Terminar
    <2> QED BY <2>1, <2>2 DEF Fijo, Parecidos
  <1>2. CASE k.estado[p] # "Exec"
    <2>1. Terminar(k, p, x, avisa, c) = end_process(k, p, x, c, avisa)
      BY <1>2 DEF Terminar
    <2>2. avisa = TRUE => PuedeYa(k, a, hs, conexion, c)
      <3> SUFFICES ASSUME avisa = TRUE
                   PROVE  PuedeYa(k, a, hs, conexion, c)
        OBVIOUS
      <3>1. c = Fin
        OBVIOUS
      <3> QED BY <3>1, ConsolaAssumption DEF PuedeYa
    <2>3. KInv(end_process(k, p, x, c, avisa), a, hs, conexion)
      BY <2>2, TerminarBien
    <2>4. Fijo(k, end_process(k, p, x, c, avisa))
      BY TerminarFijo
    <2> QED BY <2>1, <2>3, <2>4
  <1> QED BY <1>1, <1>2

LEMMA EliminarProcesoK ==
  ASSUME K, NEW c \in Conexiones, EliminarProceso(c)
  PROVE  KSigue /\ Fijo(kernel, kernel')
  <1>p. PICK p : p = Head(alKernel[c])[2]
    OBVIOUS
  <1>0. kernel.vivo \in BOOLEAN
    BY DEF K, KInv, Base, Tipos, Estructuras
  <1>1. /\ alKernel[c] # <<>> /\ Head(alKernel[c])[1] = "eliminar"
        /\ alKernel' = [alKernel EXCEPT ![c] = Tail(@)]
        /\ conexion' = conexion /\ hilo' = hilo /\ kernel.vivo = TRUE
        /\ kernel' = Terminar(kernel, p, -7, TRUE, c)
    BY <1>0, <1>p DEF EliminarProceso, DelKernel, Lee
  <1>2. KInv(kernel, alKernel', hilo, conexion)
    BY <1>1, LeerConserva DEF K
  <1>3. c = Fin /\ p \in Pids
    <2>s. PICK s : s = alKernel[c]
      OBVIOUS
    <2>1. ColaBien(s, c) /\ s # <<>> /\ Head(s)[1] = "eliminar" /\ p = Head(s)[2]
      BY <2>s, <1>1, <1>p DEF K, KInv, Base, Tipos
    <2>2. Head(s)[1] = "eliminar" => c = Fin /\ Head(s)[2] \in Pids
      BY <2>1, RestoDeCola
    <2> QED BY <2>1, <2>2
  <1>4. KInv(kernel', alKernel', hilo, conexion) /\ Fijo(kernel, kernel')
    BY <1>1, <1>2, <1>3, TerminarOMarcarBien
  <1> QED BY <1>1, <1>4 DEF KSigue

\* The entry of a connection, and the kernel without it
LEMMA SinEntrada ==
  ASSUME K, NEW c \in Conexiones, Posiciones(c) # {}
  PROVE  LET i == Min(Posiciones(c))
             j == [kernel EXCEPT !.lista_consolas = RemoveAt(@, i), !.rotas = @ \ {c}]
         IN  /\ i \in DOMAIN kernel.lista_consolas /\ kernel.lista_consolas[i].sock = c
             /\ kernel.lista_consolas[i].proceso \in Pids \cup {0}
             /\ kernel.lista_consolas[i].proceso \in Pids <=>
                  kernel.lista_consolas[i].proceso # 0
             /\ KInv(j, alKernel, hilo, conexion) /\ Parecidos(kernel, j)
             /\ j.newfd = kernel.newfd /\ j.estado = kernel.estado
             /\ j.lista_consolas = RemoveAt(kernel.lista_consolas, i)
             /\ j.nuevos = kernel.nuevos /\ j.borrar = kernel.borrar
             /\ j.terminados = kernel.terminados
  <1> DEFINE T == [sock : Conexiones, proceso : Nat]
  <1>i. PICK i : i = Min(Posiciones(c))
    OBVIOUS
  <1>l. PICK l : l = RemoveAt(kernel.lista_consolas, i)
    OBVIOUS
  <1>r. PICK r : r = kernel.rotas \ {c}
    OBVIOUS
  <1>j. PICK j : j = [kernel EXCEPT !.lista_consolas = l, !.rotas = r]
    OBVIOUS
  <1>0. /\ kernel \in Estructuras /\ kernel.lista_consolas \in Seq(T)
        /\ r \in SUBSET Conexiones
    BY <1>r DEF K, KInv, Base, Tipos, Estructuras
  <1>1. Posiciones(c) \in SUBSET Nat
    BY <1>0 DEF Posiciones
  <1>2. i \in Posiciones(c)
    BY <1>1, <1>i, MinimoEsta
  <1>3. i \in DOMAIN kernel.lista_consolas /\ kernel.lista_consolas[i].sock = c
    BY <1>2 DEF Posiciones
  <1>4. /\ kernel.lista_consolas[i].proceso \in Pids \cup {0}
        /\ kernel.lista_consolas[i].proceso \in Pids <=> kernel.lista_consolas[i].proceso # 0
    <2>1. kernel.lista_consolas[i].proceso # 0 => kernel.lista_consolas[i].proceso \in Pids
      BY <1>3 DEF K, KInv, Base, Entradas
    <2>2. 0 \notin Pids
      BY PidsNaturales
    <2> QED BY <2>1, <2>2
  <1> HIDE DEF T
  <1>5. l \in Seq(T) /\ De(l, kernel.lista_consolas)
    BY <1>0, <1>3, <1>l, Quitar, QuitarDeja DEF De
  <1>6. /\ j \in Estructuras /\ Parecidos(kernel, j)
        /\ j.newfd = kernel.newfd /\ j.estado = kernel.estado
        /\ j.lista_consolas = l /\ j.nuevos = kernel.nuevos
        /\ j.borrar = kernel.borrar /\ j.terminados = kernel.terminados
    BY <1>0, <1>5, <1>j DEF Estructuras, Parecidos, T
  <1>7. KInv(j, alKernel, hilo, conexion)
    BY <1>5, <1>6, CambioBien, DeSi DEF K
  <1>8. [kernel EXCEPT !.lista_consolas = RemoveAt(@, Min(Posiciones(c))), !.rotas = @ \ {c}] = j
    BY <1>i, <1>l, <1>r, <1>j
  <1> QED BY <1>3, <1>4, <1>6, <1>7, <1>8, <1>i, <1>l

LEMMA CaidaBien ==
  ASSUME NEW k, NEW a, NEW hs, NEW cx, KInv(k, a, hs, cx)
  PROVE  KInv(Muere(k), a, hs, cx) /\ Fijo(k, Muere(k))
  <1>j. PICK j : j = Muere(k)
    OBVIOUS
  <1>0. k \in Estructuras
    BY DEF KInv, Base, Tipos
  <1>1. Caido(k, j) /\ j.canal = k.canal
    BY <1>0, <1>j, CaidaDelKernel
  <1>2. \A h \in Hilos : Nuevo(a, hs, h) => j.canal[h] = <<>>
    BY <1>1 DEF KInv, Base, Nuevos
  <1>3. Base(j, a, hs, cx)
    BY <1>1, <1>2, BaseCaida DEF KInv
  <1>4. \A h \in Hilos : Primero(j, hs, cx, h)
    BY <1>1 DEF KInv, Primero, Suyo, Caido
  <1> QED BY <1>1, <1>3, <1>4, <1>j DEF KInv, Fijo, Caido

LEMMA DesconectarK ==
  ASSUME K, NEW c \in Conexiones, Desconectar(c)
  PROVE  KSigue /\ Fijo(kernel, kernel')
  <1>i. PICK i : i = Min(Posiciones(c))
    OBVIOUS
  <1>p. PICK p : p = kernel.lista_consolas[i].proceso
    OBVIOUS
  <1>k. PICK k : k = [kernel EXCEPT !.lista_consolas = RemoveAt(@, i), !.rotas = @ \ {c}]
    OBVIOUS
  <1>0. kernel.vivo \in BOOLEAN /\ conexion \in LasConexiones
    BY DEF K, KInv, Base, Tipos, Estructuras
  <1>1. /\ conexion[c] = "cerrada" /\ conexion' = [conexion EXCEPT ![c] = "quitada"]
        /\ hilo' = hilo /\ alKernel' = alKernel /\ kernel.vivo = TRUE
        /\ kernel' = IF Posiciones(c) = {} THEN Muere(kernel)
                     ELSE IF p \in Pids THEN Terminar(k, p, -6, FALSE, c) ELSE k
    <2>1. DelKernel /\ conexion[c] = "cerrada"
          /\ conexion' = [conexion EXCEPT ![c] = "quitada"] /\ alKernel' = alKernel
      BY DEF Desconectar
    <2>2. kernel' = IF Posiciones(c) = {} THEN Muere(kernel)
                    ELSE IF p \in Pids THEN Terminar(k, p, -6, FALSE, c) ELSE k
      BY <1>i, <1>p, <1>k DEF Desconectar
    <2> QED BY <2>1, <2>2, <1>0 DEF DelKernel
  <1>2. KInv(kernel', alKernel, hilo, conexion) /\ Fijo(kernel, kernel')
    <2>1. CASE Posiciones(c) = {}
      BY <2>1, <1>1, CaidaBien DEF K
    <2>2. CASE Posiciones(c) # {}
      <3>1. /\ KInv(k, alKernel, hilo, conexion) /\ Parecidos(kernel, k)
            /\ k.newfd = kernel.newfd
        BY <2>2, <1>i, <1>k, SinEntrada
      <3>2. k.vivo = TRUE
        BY <3>1, <1>1 DEF Parecidos
      <3>3. CASE p \in Pids
        <4>1. /\ KInv(Terminar(k, p, -6, FALSE, c), alKernel, hilo, conexion)
              /\ Fijo(k, Terminar(k, p, -6, FALSE, c))
          BY <3>1, <3>2, <3>3, TerminarOMarcarBien
        <4> QED BY <4>1, <3>1, <3>2, <3>3, <2>2, <1>1 DEF Fijo
      <3>4. CASE p \notin Pids
        BY <3>1, <3>2, <3>4, <2>2, <1>1 DEF Fijo
      <3> QED BY <3>3, <3>4
    <2> QED BY <2>1, <2>2
  <1>3. KInv(kernel', alKernel, hilo, conexion')
    <2>1. /\ conexion' \in LasConexiones
          /\ \A d \in Conexiones : conexion'[d] = "abierta" => conexion[d] = "abierta"
          /\ \A d \in Conexiones : conexion[d] = "nada" => conexion'[d] = "nada"
      BY <1>0, <1>1 DEF LasConexiones
    <2> QED BY <2>1, <1>2, CerrarConserva
  <1> QED BY <1>1, <1>2, <1>3 DEF KSigue

-----------------------------------------------------------------------------
(* Steps of the Consola *)

Corre(h) == hilo' \in [Hilos -> DelHilo] /\ \A g \in Hilos : g # h => hilo'[g] = hilo[g]

LEMMA UnHilo ==
  ASSUME hilo \in [Hilos -> DelHilo], NEW h \in Hilos, NEW g \in DelHilo,
         hilo' = [hilo EXCEPT ![h] = g]
  PROVE  Corre(h) /\ hilo'[h] = g
  BY DEF Corre

LEMMA VaHace ==
  ASSUME hilo \in [Hilos -> DelHilo], NEW h \in Hilos, NEW lugar \in Lugares, Va(h, lugar)
  PROVE  /\ Corre(h) /\ hilo'[h].en = lugar /\ hilo'[h].numero = hilo[h].numero
         /\ hilo'[h].pid = hilo[h].pid /\ hilo'[h].i = hilo[h].i
         /\ hilo'[h].dimension = hilo[h].dimension /\ hilo'[h].avisado = hilo[h].avisado
  <1>g. PICK g : g = [hilo[h] EXCEPT !.en = lugar]
    OBVIOUS
  <1>0. hilo[h] \in DelHilo
    OBVIOUS
  <1>1. /\ g \in DelHilo /\ g.en = lugar /\ g.numero = hilo[h].numero /\ g.pid = hilo[h].pid
        /\ g.i = hilo[h].i /\ g.dimension = hilo[h].dimension /\ g.avisado = hilo[h].avisado
    BY <1>0, <1>g DEF DelHilo
  <1>2. hilo' = [hilo EXCEPT ![h] = g]
    BY <1>g DEF Va
  <1>3. Corre(h) /\ hilo'[h] = g
    BY <1>1, <1>2, UnHilo
  <1> QED BY <1>1, <1>3

LEMMA AcabadoEs ==
  /\ Acabado \in DelHilo /\ Acabado.en = "fin" /\ Acabado.avisado = FALSE
  /\ Libre \in DelHilo /\ Libre.en = "libre" /\ Libre.avisado = FALSE
  BY DEF Acabado, Libre, DelHilo, Lugares

LEMMA DejaHace ==
  ASSUME hilo \in [Hilos -> DelHilo], NEW h \in Hilos, Deja(h)
  PROVE  Corre(h) /\ hilo'[h].en = "fin" /\ hilo'[h].avisado = FALSE
  <1>1. hilo' = [hilo EXCEPT ![h] = Acabado]
    BY DEF Deja
  <1>2. Corre(h) /\ hilo'[h] = Acabado
    BY <1>1, AcabadoEs, UnHilo
  <1> QED BY <1>2, AcabadoEs

LEMMA MiraHace ==
  ASSUME hilo \in [Hilos -> DelHilo], NEW h \in Hilos, NEW i \in Nat,
         thread_list \in Seq(Hilos), Mira(h, i)
  PROVE  /\ Corre(h) /\ hilo'[h].en = "mira" /\ hilo'[h].numero = hilo[h].numero
         /\ hilo'[h].pid = hilo[h].pid /\ hilo'[h].i = i
         /\ hilo'[h].dimension = IF hilo[h].en = "mira" THEN hilo[h].dimension
                                 ELSE Len(thread_list)
         /\ hilo'[h].avisado = hilo[h].avisado
         /\ conexion' = conexion /\ kernel' = kernel
  <1>d. PICK d : d = IF hilo[h].en = "mira" THEN hilo[h].dimension ELSE Len(thread_list)
    OBVIOUS
  <1>g. PICK g : g = [hilo[h] EXCEPT !.en = "mira", !.i = i, !.dimension = d]
    OBVIOUS
  <1>0. hilo[h] \in DelHilo /\ Len(thread_list) \in Nat /\ "mira" \in Lugares
    BY DEF Lugares
  <1>d1. d \in Nat
    BY <1>0, <1>d DEF DelHilo
  <1>1. /\ g \in DelHilo /\ g.en = "mira" /\ g.numero = hilo[h].numero /\ g.pid = hilo[h].pid
        /\ g.i = i /\ g.dimension = d /\ g.avisado = hilo[h].avisado
    BY <1>0, <1>d1, <1>g DEF DelHilo
  <1>2. hilo' = [hilo EXCEPT ![h] = g] /\ conexion' = conexion /\ kernel' = kernel
    BY <1>g, <1>d DEF Mira
  <1>3. Corre(h) /\ hilo'[h] = g
    BY <1>1, <1>2, UnHilo
  <1> QED BY <1>1, <1>2, <1>3, <1>d

\* Connections that are closed
LEMMA CortaHace ==
  ASSUME conexion \in LasConexiones, NEW C, Corta(C)
  PROVE  /\ conexion' \in LasConexiones
         /\ \A c \in Conexiones :
              /\ conexion'[c] = "abierta" => conexion[c] = "abierta" /\ c \notin C
              /\ conexion[c] = "nada" <=> conexion'[c] = "nada"
              /\ conexion[c] = "quitada" <=> conexion'[c] = "quitada"
              /\ c \notin C => conexion'[c] = conexion[c]
  BY DEF Corta, LasConexiones

\* What a thread, or main while it does not start a program or ask for an end, changes
Avisa(h) == \E i \in DOMAIN kernel.canal[h] : kernel.canal[h][i] \in {6, 7}

Interno ==
  /\ alKernel' = alKernel /\ Iguales(kernel, kernel')
  /\ \A c \in Conexiones : De(kernel'.canal[c], kernel.canal[c])
  /\ hilo' \in [Hilos -> DelHilo] /\ conexion' \in LasConexiones
  /\ \A c \in Conexiones : /\ conexion'[c] = "abierta" => conexion[c] = "abierta"
                           /\ conexion[c] = "nada" <=> conexion'[c] = "nada"
                           /\ conexion[c] = "quitada" <=> conexion'[c] = "quitada"
  /\ \A h \in Hilos :
       /\ hilo'[h].en = "libre" => hilo[h].en = "libre"
       /\ hilo'[h].en = "espera_pid" =>
            hilo[h].en = "espera_pid" /\ kernel'.canal[h] = kernel.canal[h]
       /\ hilo'[h].en \in {"recibe", "lee_texto"} => Suyo(kernel, h, hilo'[h].pid)
       /\ hilo'[h].avisado =>
            /\ hilo'[h].pid = hilo[h].pid /\ hilo'[h].en \in {"remueve", "mira", "saca"}
            /\ hilo[h].avisado \/ (hilo[h].en = "recibe" /\ Avisa(h))

LEMMA InternoConserva ==
  ASSUME K, Interno
  PROVE  KSigue
  <1>1. Iguales(kernel, kernel')
    BY DEF Interno
  <1>2. \A c \in Conexiones : kernel.canal[c] = <<>> => kernel'.canal[c] = <<>>
    <2> SUFFICES ASSUME NEW c \in Conexiones, kernel.canal[c] = <<>>
                 PROVE  kernel'.canal[c] = <<>>
      OBVIOUS
    <2>1. De(kernel'.canal[c], kernel.canal[c]) /\ kernel'.canal[c] \in Seq(Mensajes)
      BY <1>1 DEF Interno, Iguales, Estructuras
    <2>2. DOMAIN kernel.canal[c] = {}
      OBVIOUS
    <2>3. DOMAIN kernel'.canal[c] = {}
      BY <2>1, <2>2 DEF De
    <2> QED BY <2>1, <2>3
  <1>3. Hilos \subseteq Conexiones
    BY DEF Conexiones
  <1>4. \A h \in Hilos : Nuevo(alKernel, hilo', h) => Nuevo(alKernel, hilo, h)
    BY DEF Interno, Nuevo
  <1>5. \A h \in Hilos : Nuevo(alKernel, hilo, h) => kernel'.canal[h] = <<>>
    BY <1>2, <1>3 DEF K, KInv, Base, Nuevos
  <1>6. Base(kernel', alKernel, hilo, conexion)
    BY <1>1, <1>5, BaseIgual DEF K, KInv
  <1>7. Tipos(kernel', alKernel, hilo', conexion')
    BY <1>6 DEF Base, Tipos, Interno
  <1>8. Libres(alKernel, hilo', conexion')
    BY <1>3, <1>6 DEF Base, Libres, Interno
  <1>9. Nuevos(kernel', alKernel, hilo')
    BY <1>4, <1>6 DEF Base, Nuevos
  <1>10. ASSUME NEW h \in Hilos, NEW p, Suyo(kernel, h, p)
         PROVE  Suyo(kernel', h, p)
    BY <1>1, <1>10 DEF Suyo, Iguales
  <1>11. SusPids(kernel', hilo')
    BY <1>10 DEF SusPids, Interno
  <1>12. ASSUME NEW h \in Hilos
         PROVE  Primero(kernel', hilo', conexion', h)
    <2> SUFFICES ASSUME hilo'[h].en = "espera_pid"
                 PROVE  Primero(kernel', hilo', conexion', h)
      BY DEF Primero
    <2>1. /\ hilo[h].en = "espera_pid" /\ kernel'.canal[h] = kernel.canal[h]
          /\ conexion'[h] = "abierta" => conexion[h] = "abierta"
      BY <1>3 DEF Interno
    <2>2. Primero(kernel, hilo, conexion, h)
      BY DEF K, KInv
    <2> QED BY <2>1, <2>2, <1>1, <1>10 DEF Primero, Iguales
  <1> QED BY <1>6, <1>7, <1>8, <1>9, <1>11, <1>12 DEF KSigue, KInv, Base, Interno

\* Only who is on the way out has said that its program is over
AvisadosBien ==
  \A h \in Hilos : hilo[h].avisado => hilo[h].en \in {"remueve", "mira", "saca"}

ListaTipos ==
  /\ consola \in {"viva", "caida", "salio"} /\ thread_list \in Seq(Hilos)
  /\ principal \in [en : {"menu", "espera", "dcon", "fin"}, i : Nat, dimension : Nat,
                    sale : BOOLEAN]
  /\ rarezas \subseteq Rarezas

LEMMA TodoIgual ==
  ASSUME K
  PROVE  /\ Iguales(kernel, kernel) /\ hilo \in [Hilos -> DelHilo]
         /\ conexion \in LasConexiones /\ kernel \in Estructuras
         /\ kernel.canal \in [Conexiones -> Seq(Mensajes)]
         /\ Hilos \subseteq Conexiones /\ Fin \in Conexiones
  BY DEF K, KInv, Base, Tipos, Iguales, Estructuras, Conexiones

LEMMA RestoDelCanal ==
  ASSUME NEW S, NEW s \in Seq(S), s # <<>>
  PROVE  /\ Tail(s) \in Seq(S) /\ De(Tail(s), s) /\ Head(s) \in S
         /\ 1 \in DOMAIN s /\ Head(s) = s[1] /\ Len(Tail(s)) = Len(s) - 1
         /\ \A i \in 1 .. Len(s) - 1 : Tail(s)[i] = s[i + 1]
  <1>n. PICK n : n = Len(s)
    OBVIOUS
  <1>t. PICK t : t = Tail(s)
    OBVIOUS
  <1>1. /\ n \in Nat /\ n # 0 /\ DOMAIN s = 1 .. n /\ Head(s) = s[1]
        /\ t \in Seq(S) /\ Len(t) = n - 1 /\ \A i \in 1 .. n - 1 : t[i] = s[i + 1]
    BY <1>n, <1>t, HeadTailProperties
  <1>2. DOMAIN t = 1 .. n - 1 /\ \A i \in 1 .. n - 1 : i + 1 \in 1 .. n
    BY <1>1
  <1>3. De(t, s)
    BY <1>1, <1>2 DEF De
  <1>4. 1 \in DOMAIN s
    BY <1>1
  <1>5. s[1] \in S
    BY <1>4, ElementoDe
  <1> QED BY <1>1, <1>3, <1>4, <1>5, <1>t, <1>n

LEMMA UnHiloInterno ==
  ASSUME K, AvisadosBien, NEW h \in Hilos, Corre(h), alKernel' = alKernel,
         Iguales(kernel, kernel'),
         \A d \in Conexiones : d # h => kernel'.canal[d] = kernel.canal[d],
         De(kernel'.canal[h], kernel.canal[h]),
         conexion' \in LasConexiones,
         \A c \in Conexiones : /\ conexion'[c] = "abierta" => conexion[c] = "abierta"
                               /\ conexion[c] = "nada" <=> conexion'[c] = "nada"
                               /\ conexion[c] = "quitada" <=> conexion'[c] = "quitada",
         hilo'[h].en \notin {"libre", "espera_pid"},
         hilo'[h].en \in {"recibe", "lee_texto"} => Suyo(kernel, h, hilo'[h].pid),
         hilo'[h].avisado =>
            /\ hilo'[h].pid = hilo[h].pid /\ hilo'[h].en \in {"remueve", "mira", "saca"}
            /\ hilo[h].avisado \/ (hilo[h].en = "recibe" /\ Avisa(h))
  PROVE  Interno
  <1>1. \A c \in Conexiones : De(kernel'.canal[c], kernel.canal[c])
    BY DeSi
  <1>2. \A g \in Hilos : g # h => hilo'[g] = hilo[g] /\ kernel'.canal[g] = kernel.canal[g]
    BY DEF Corre, Conexiones
  <1>3. \A g \in Hilos : hilo[g].en \in {"recibe", "lee_texto"} => Suyo(kernel, g, hilo[g].pid)
    BY DEF K, KInv, Base, SusPids
  <1>4. \A g \in Hilos :
          /\ hilo'[g].en = "libre" => hilo[g].en = "libre"
          /\ hilo'[g].en = "espera_pid" =>
               hilo[g].en = "espera_pid" /\ kernel'.canal[g] = kernel.canal[g]
          /\ hilo'[g].en \in {"recibe", "lee_texto"} => Suyo(kernel, g, hilo'[g].pid)
          /\ hilo'[g].avisado =>
               /\ hilo'[g].pid = hilo[g].pid /\ hilo'[g].en \in {"remueve", "mira", "saca"}
               /\ hilo[g].avisado \/ (hilo[g].en = "recibe" /\ Avisa(g))
    BY <1>2, <1>3 DEF AvisadosBien
  <1> QED BY <1>1, <1>4 DEF Interno, Corre

\* Reading takes the first message, if there is one
LEMMA RecibeHace ==
  ASSUME K, NEW h \in Hilos, Recibe(h)
  PROVE  /\ consola = "viva" /\ consola' = consola /\ alKernel' = alKernel
         /\ principal' = principal /\ rarezas' = rarezas
         /\ Iguales(kernel, kernel')
         /\ \A d \in Conexiones : d # h => kernel'.canal[d] = kernel.canal[d]
         /\ De(kernel'.canal[h], kernel.canal[h])
         /\ HayMensaje(h) => kernel'.canal[h] = Tail(kernel.canal[h])
         /\ ~HayMensaje(h) => kernel' = kernel
  <1>0. /\ kernel \in Estructuras /\ kernel.canal \in [Conexiones -> Seq(Mensajes)]
        /\ h \in Conexiones /\ kernel.canal[h] \in Seq(Mensajes)
    BY TodoIgual
  <1>1. /\ consola = "viva" /\ consola' = consola /\ alKernel' = alKernel
        /\ principal' = principal /\ rarezas' = rarezas
        /\ kernel' = IF HayMensaje(h) THEN [kernel EXCEPT !.canal[h] = Tail(@)] ELSE kernel
    BY DEF Recibe
  <1>2. CASE HayMensaje(h)
    <2>s. PICK s : s = Tail(kernel.canal[h])
      OBVIOUS
    <2>1. s \in Seq(Mensajes) /\ De(s, kernel.canal[h])
      BY <1>0, <1>2, <2>s, RestoDelCanal DEF HayMensaje
    <2>2. kernel' = Escribe(kernel, h, s)
      BY <1>1, <1>2, <2>s DEF Escribe
    <2>3. /\ Iguales(kernel, kernel') /\ kernel'.canal[h] = s
          /\ \A d \in Conexiones : d # h => kernel'.canal[d] = kernel.canal[d]
      BY <1>0, <2>1, <2>2, UnCanal
    <2> QED BY <1>1, <1>2, <2>1, <2>3, <2>s
  <1>3. CASE ~HayMensaje(h)
    BY <1>1, <1>3, TodoIgual, DeSi
  <1> QED BY <1>2, <1>3

LEMMA RecibirPidHace ==
  ASSUME K, AvisadosBien, ListaTipos, NEW h \in Hilos, RecibirPid(h)
  PROVE  Interno /\ ListaTipos'
  <1>1. Recibe(h) /\ hilo[h].en = "espera_pid"
    BY DEF RecibirPid
  <1>r. /\ consola = "viva" /\ consola' = consola /\ alKernel' = alKernel
        /\ principal' = principal /\ rarezas' = rarezas
        /\ Iguales(kernel, kernel')
        /\ \A d \in Conexiones : d # h => kernel'.canal[d] = kernel.canal[d]
        /\ De(kernel'.canal[h], kernel.canal[h])
    BY <1>1, RecibeHace
  <1>0. /\ hilo \in [Hilos -> DelHilo] /\ conexion \in LasConexiones
        /\ thread_list \in Seq(Hilos)
    BY TodoIgual DEF ListaTipos
  <1>2. CASE /\ HayMensaje(h) /\ Head(kernel.canal[h]) > 0
             /\ hilo' = [hilo EXCEPT ![h].en = "recibe", ![h].pid = Head(kernel.canal[h])]
             /\ thread_list' = Append(thread_list, h)
             /\ UNCHANGED conexion
    <2>p. PICK p : p = Head(kernel.canal[h])
      OBVIOUS
    <2>1. p = -1 \/ Suyo(kernel, h, p)
      BY <1>1, <1>2, <2>p DEF K, KInv, Primero, HayMensaje
    <2>2. Suyo(kernel, h, p) /\ p \in Pids
      BY <2>1, <1>2, <2>p DEF Suyo
    <2>g. PICK g : g = [hilo[h] EXCEPT !.en = "recibe", !.pid = p]
      OBVIOUS
    <2>3. hilo[h] \in DelHilo /\ "recibe" \in Lugares
      BY <1>0 DEF Lugares
    <2>4. g \in DelHilo /\ g.en = "recibe" /\ g.pid = p /\ g.avisado = hilo[h].avisado
      BY <2>2, <2>3, <2>g DEF DelHilo
    <2>5. hilo' = [hilo EXCEPT ![h] = g]
      BY <1>2, <2>g, <2>p
    <2>6. Corre(h) /\ hilo'[h] = g
      BY <1>0, <2>4, <2>5, UnHilo
    <2>7. ~hilo[h].avisado
      BY <1>1 DEF AvisadosBien
    <2>8. conexion' = conexion
      BY <1>2
    <2>9. Interno
      BY <1>0, <1>r, <2>2, <2>4, <2>6, <2>7, <2>8, UnHiloInterno
    <2>10. thread_list' \in Seq(Hilos)
      BY <1>0, <1>2, Agregar
    <2> QED BY <2>9, <2>10, <1>r DEF ListaTipos
  <1>3. CASE Deja(h) /\ Cierra(h) /\ UNCHANGED thread_list
    <2>1. Corre(h) /\ hilo'[h].en = "fin" /\ hilo'[h].avisado = FALSE
      BY <1>0, <1>3, DejaHace
    <2>2. /\ conexion' \in LasConexiones
          /\ \A c \in Conexiones :
               /\ conexion'[c] = "abierta" => conexion[c] = "abierta"
               /\ conexion[c] = "nada" <=> conexion'[c] = "nada"
               /\ conexion[c] = "quitada" <=> conexion'[c] = "quitada"
      BY <1>0, <1>3, CortaHace DEF Cierra
    <2>3. Interno
      BY <1>r, <2>1, <2>2, UnHiloInterno
    <2> QED BY <2>3, <1>3, <1>r DEF ListaTipos
  <1> QED BY <1>2, <1>3 DEF RecibirPid

LEMMA CodigoRecibidoHace ==
  ASSUME K, AvisadosBien, ListaTipos, NEW h \in Hilos, CodigoRecibido(h)
  PROVE  /\ Interno /\ ListaTipos' /\ thread_list' = thread_list
         /\ Corre(h) /\ hilo[h].en = "recibe"
         /\ hilo'[h].en \in {"recibe", "lee_texto", "remueve"}
         /\ hilo'[h].numero = hilo[h].numero
  <1>1. /\ Recibe(h) /\ hilo[h].en = "recibe" /\ HayMensaje(h)
        /\ thread_list' = thread_list /\ conexion' = conexion
    BY DEF CodigoRecibido
  <1>r. /\ consola = "viva" /\ consola' = consola /\ alKernel' = alKernel
        /\ principal' = principal /\ rarezas' = rarezas
        /\ Iguales(kernel, kernel')
        /\ \A d \in Conexiones : d # h => kernel'.canal[d] = kernel.canal[d]
        /\ De(kernel'.canal[h], kernel.canal[h])
    BY <1>1, RecibeHace
  <1>0. /\ hilo \in [Hilos -> DelHilo] /\ conexion \in LasConexiones /\ h \in Conexiones
        /\ kernel.canal[h] \in Seq(Mensajes) /\ hilo[h] \in DelHilo
    BY TodoIgual
  <1>2. ~hilo[h].avisado /\ Suyo(kernel, h, hilo[h].pid)
    BY <1>1 DEF AvisadosBien, K, KInv, Base, SusPids
  <1>c. PICK codigo : codigo = Head(kernel.canal[h])
    OBVIOUS
  <1>3. hilo' = CASE codigo = 5 -> [hilo EXCEPT ![h].en = "lee_texto"]
                  [] codigo \in {6, 7} -> [hilo EXCEPT ![h].en = "remueve",
                                                       ![h].avisado = TRUE]
                  [] OTHER -> hilo
    BY <1>c DEF CodigoRecibido
  <1>4. ASSUME NEW g \in DelHilo, hilo' = [hilo EXCEPT ![h] = g], g.pid = hilo[h].pid,
               g.numero = hilo[h].numero, g.en \in {"recibe", "lee_texto", "remueve"},
               g.avisado => g.en = "remueve" /\ Avisa(h)
        PROVE  /\ Interno /\ Corre(h) /\ hilo'[h].en \in {"recibe", "lee_texto", "remueve"}
               /\ hilo'[h].numero = hilo[h].numero
    <2>1. Corre(h) /\ hilo'[h] = g
      BY <1>0, <1>4, UnHilo
    <2> QED BY <2>1, <1>0, <1>1, <1>2, <1>4, <1>r, UnHiloInterno
  <1>5. CASE codigo = 5
    <2>g. PICK g : g = [hilo[h] EXCEPT !.en = "lee_texto"]
      OBVIOUS
    <2>1. /\ g \in DelHilo /\ g.pid = hilo[h].pid /\ g.numero = hilo[h].numero
          /\ g.en = "lee_texto" /\ g.avisado = hilo[h].avisado
      BY <1>0, <2>g DEF DelHilo, Lugares
    <2>2. hilo' = [hilo EXCEPT ![h] = g]
      BY <1>3, <1>5, <2>g
    <2> QED BY <1>1, <1>2, <1>4, <1>r, <2>1, <2>2 DEF ListaTipos
  <1>6. CASE codigo \in {6, 7}
    <2>g. PICK g : g = [hilo[h] EXCEPT !.en = "remueve", !.avisado = TRUE]
      OBVIOUS
    <2>1. /\ g \in DelHilo /\ g.pid = hilo[h].pid /\ g.numero = hilo[h].numero
          /\ g.en = "remueve"
      BY <1>0, <2>g DEF DelHilo, Lugares
    <2>e. hilo' = [hilo EXCEPT ![h].en = "remueve", ![h].avisado = TRUE]
      <3>1. codigo # 5
        BY <1>6
      <3> QED BY <3>1, <1>3, <1>6, Zenon
    <2>2. hilo' = [hilo EXCEPT ![h] = g]
      BY <2>e, <2>g
    <2>3. 1 \in DOMAIN kernel.canal[h] /\ kernel.canal[h][1] = codigo
      BY <1>0, <1>1, <1>c, RestoDelCanal DEF HayMensaje
    <2>4. Avisa(h)
      BY <2>3, <1>6 DEF Avisa
    <2> QED BY <1>1, <1>4, <1>r, <2>1, <2>2, <2>4 DEF ListaTipos
  <1>7. CASE codigo \notin {5, 6, 7}
    <2>1. hilo' = hilo
      BY <1>3, <1>7
    <2>2. hilo' = [hilo EXCEPT ![h] = hilo[h]]
      BY <2>1, <1>0
    <2> QED BY <1>0, <1>1, <1>2, <1>4, <1>r, <2>2 DEF ListaTipos
  <1> QED BY <1>5, <1>6, <1>7

LEMMA MensajeRecibidoHace ==
  ASSUME K, AvisadosBien, ListaTipos, NEW h \in Hilos, MensajeRecibido(h)
  PROVE  /\ Interno /\ ListaTipos' /\ thread_list' = thread_list
         /\ Corre(h) /\ hilo[h].en = "lee_texto" /\ hilo'[h].en = "recibe"
         /\ hilo'[h].numero = hilo[h].numero
         /\ kernel'.canal[h] = SubSeq(kernel.canal[h], 3, Len(kernel.canal[h]))
         /\ \A d \in Conexiones : d # h => kernel'.canal[d] = kernel.canal[d]
  <1>1. /\ hilo[h].en = "lee_texto" /\ Len(kernel.canal[h]) > 1
        /\ kernel' = [kernel EXCEPT !.canal[h] = SubSeq(@, 3, Len(@))]
        /\ Va(h, "recibe")
        /\ consola' = consola /\ thread_list' = thread_list /\ principal' = principal
        /\ conexion' = conexion /\ alKernel' = alKernel /\ rarezas' = rarezas
    BY DEF MensajeRecibido
  <1>0. /\ hilo \in [Hilos -> DelHilo] /\ h \in Conexiones /\ kernel \in Estructuras
        /\ kernel.canal[h] \in Seq(Mensajes) /\ conexion \in LasConexiones
    BY TodoIgual
  <1>2. ~hilo[h].avisado /\ Suyo(kernel, h, hilo[h].pid)
    BY <1>1 DEF AvisadosBien, K, KInv, Base, SusPids
  <1>3. /\ Corre(h) /\ hilo'[h].en = "recibe" /\ hilo'[h].numero = hilo[h].numero
        /\ hilo'[h].pid = hilo[h].pid /\ hilo'[h].avisado = hilo[h].avisado
    BY <1>0, <1>1, VaHace DEF Lugares
  <1>s. PICK s : s = kernel.canal[h]
    OBVIOUS
  <1>n. PICK n : n = Len(s)
    OBVIOUS
  <1>t. PICK t : t = SubSeq(s, 3, n)
    OBVIOUS
  <1>4. s \in Seq(Mensajes) /\ n \in Nat /\ n > 1 /\ DOMAIN s = 1 .. n
        /\ \A i \in 1 .. n : s[i] \in Mensajes
    BY <1>0, <1>1, <1>s, <1>n
  <1>5. t \in Seq(Mensajes) /\ De(t, s)
    <2>1. 3 \in Int /\ n \in Int /\ \A j \in 3 .. n : s[j] \in Mensajes
      BY <1>4
    <2>2. /\ t \in Seq(Mensajes) /\ Len(t) = IF 3 <= n THEN n - 3 + 1 ELSE 0
          /\ \A j \in 1 .. n - 3 + 1 : t[j] = s[3 + j - 1]
      BY <2>1, <1>t, SubSeqProperties
    <2>3. DOMAIN t = 1 .. n - 3 + 1
      BY <2>2, <1>4
    <2>4. \A j \in 1 .. n - 3 + 1 : 3 + j - 1 \in 1 .. n
      BY <1>4
    <2> QED BY <2>2, <2>3, <2>4, <1>4 DEF De
  <1>6. kernel' = Escribe(kernel, h, t)
    BY <1>1, <1>s, <1>n, <1>t DEF Escribe
  <1>7. /\ Iguales(kernel, kernel') /\ kernel'.canal[h] = t
        /\ \A d \in Conexiones : d # h => kernel'.canal[d] = kernel.canal[d]
    BY <1>0, <1>5, <1>6, UnCanal
  <1>8. Interno
    BY <1>0, <1>1, <1>2, <1>3, <1>5, <1>7, <1>s, UnHiloInterno
  <1> QED BY <1>1, <1>3, <1>7, <1>8, <1>s, <1>n, <1>t DEF ListaTipos

LEMMA SinConexionHace ==
  ASSUME K, AvisadosBien, ListaTipos, NEW h \in Hilos, SinConexion(h)
  PROVE  /\ Interno /\ ListaTipos' /\ thread_list' = thread_list
         /\ Corre(h) /\ hilo[h].en \in {"recibe", "lee_texto"} /\ hilo'[h].en = "remueve"
         /\ hilo'[h].numero = hilo[h].numero
  <1>1. /\ hilo[h].en \in {"recibe", "lee_texto"} /\ Va(h, "remueve")
        /\ consola' = consola /\ thread_list' = thread_list /\ principal' = principal
        /\ conexion' = conexion /\ alKernel' = alKernel /\ rarezas' = rarezas
        /\ kernel' = kernel
    BY DEF SinConexion, DeLaConsola
  <1>0. /\ hilo \in [Hilos -> DelHilo] /\ h \in Conexiones /\ conexion \in LasConexiones
        /\ Iguales(kernel, kernel)
    BY TodoIgual
  <1>2. ~hilo[h].avisado
    BY <1>1 DEF AvisadosBien
  <1>3. /\ Corre(h) /\ hilo'[h].en = "remueve" /\ hilo'[h].numero = hilo[h].numero
        /\ hilo'[h].pid = hilo[h].pid /\ hilo'[h].avisado = hilo[h].avisado
    BY <1>0, <1>1, VaHace DEF Lugares
  <1>8. Interno
    BY <1>0, <1>1, <1>2, <1>3, DeSi, UnHiloInterno
  <1> QED BY <1>1, <1>3, <1>8 DEF ListaTipos

LEMMA CerrarHace ==
  ASSUME K, AvisadosBien, NEW h \in Hilos, Cerrar(h), alKernel' = alKernel
  PROVE  /\ Interno /\ Corre(h) /\ hilo'[h].en = "fin" /\ kernel'.canal[h] = <<>>
         /\ \A d \in Conexiones : d # h => kernel'.canal[d] = kernel.canal[d]
  <1>0. /\ hilo \in [Hilos -> DelHilo] /\ h \in Conexiones /\ conexion \in LasConexiones
        /\ kernel \in Estructuras
    BY TodoIgual
  <1>1. Corre(h) /\ hilo'[h].en = "fin" /\ hilo'[h].avisado = FALSE
    BY <1>0, DejaHace DEF Cerrar
  <1>2. /\ conexion' \in LasConexiones
        /\ \A c \in Conexiones :
             /\ conexion'[c] = "abierta" => conexion[c] = "abierta"
             /\ conexion[c] = "nada" <=> conexion'[c] = "nada"
             /\ conexion[c] = "quitada" <=> conexion'[c] = "quitada"
    BY <1>0, CortaHace DEF Cerrar, Cierra
  <1>s. PICK s : s = <<>>
    OBVIOUS
  <1>t. s \in Seq(Mensajes) /\ kernel \in Estructuras /\ h \in Conexiones
    BY <1>s, <1>0
  <1>3. kernel' = Escribe(kernel, h, s)
    BY <1>s DEF Cerrar, Escribe
  <1>4. /\ Iguales(kernel, kernel') /\ kernel'.canal[h] = s
        /\ \A d \in Conexiones : d # h => kernel'.canal[d] = kernel.canal[d]
    BY <1>3, <1>t, UnCanal
  <1>5. De(kernel'.canal[h], kernel.canal[h])
    BY <1>4, <1>s DEF De
  <1>6. Interno
    BY <1>1, <1>2, <1>4, <1>5, UnHiloInterno
  <1> QED BY <1>1, <1>4, <1>6, <1>s

LEMMA MirarUnaHace ==
  ASSUME K, AvisadosBien, ListaTipos, NEW h \in Hilos, NEW i \in Nat, Mira(h, i),
         alKernel' = alKernel, hilo[h].en \in {"remueve", "mira"}
  PROVE  Interno /\ Corre(h)
  <1>0. /\ hilo \in [Hilos -> DelHilo] /\ conexion \in LasConexiones
        /\ Iguales(kernel, kernel) /\ thread_list \in Seq(Hilos)
    BY TodoIgual DEF ListaTipos
  <1>1. /\ Corre(h) /\ hilo'[h].en = "mira" /\ hilo'[h].pid = hilo[h].pid
        /\ hilo'[h].avisado = hilo[h].avisado
        /\ conexion' = conexion /\ kernel' = kernel
    BY <1>0, MiraHace
  <1> QED BY <1>0, <1>1, DeSi, UnHiloInterno

LEMMA RarezaTipo ==
  ASSUME rarezas \subseteq Rarezas, NEW nombre \in Rarezas, NEW cuando, Rareza(nombre, cuando)
  PROVE  rarezas' \subseteq Rarezas
  BY DEF Rareza

LEMMA TomarDimensionHace ==
  ASSUME K, AvisadosBien, ListaTipos, NEW h \in Hilos, TomarDimension(h)
  PROVE  Interno /\ ListaTipos'
  <1>1. /\ hilo[h].en = "remueve" /\ alKernel' = alKernel /\ consola' = consola
        /\ principal' = principal /\ thread_list' = thread_list
        /\ IF thread_list = <<>> THEN Cerrar(h) ELSE Mira(h, 1)
        /\ Rareza("a la vez", Remueven # {} \/ principal.en = "dcon")
    BY DEF TomarDimension, PasoEnLista
  <1>2. rarezas' \subseteq Rarezas
    BY <1>1, RarezaTipo DEF ListaTipos, Rarezas
  <1>3. CASE thread_list = <<>>
    BY <1>1, <1>2, <1>3, CerrarHace DEF ListaTipos
  <1>4. CASE thread_list # <<>>
    BY <1>1, <1>2, <1>4, MirarUnaHace DEF ListaTipos
  <1> QED BY <1>3, <1>4

LEMMA CaenHace ==
  ASSUME K, AvisadosBien, ListaTipos, NEW como \in {"caida", "salio"}, Caen(como)
  PROVE  /\ Interno /\ ListaTipos' /\ consola' = como /\ rarezas' = rarezas
         /\ thread_list' = <<>> /\ \A c \in Conexiones : kernel'.canal[c] = <<>>
  <1>0. /\ hilo \in [Hilos -> DelHilo] /\ conexion \in LasConexiones
        /\ kernel \in Estructuras /\ Hilos \subseteq Conexiones
    BY TodoIgual
  <1>1. /\ consola' = como
        /\ hilo' = [h \in Hilos |-> IF hilo[h].en = "libre" THEN hilo[h] ELSE Acabado]
        /\ Corta(Conexiones) /\ principal' = EnReposo("fin") /\ thread_list' = <<>>
        /\ kernel' = [kernel EXCEPT !.canal = [c \in Conexiones |-> <<>>]]
        /\ alKernel' = alKernel /\ rarezas' = rarezas
    BY DEF Caen
  <1>2. /\ hilo' \in [Hilos -> DelHilo]
        /\ \A h \in Hilos : /\ hilo[h].en = "libre" => hilo'[h] = hilo[h]
                            /\ hilo[h].en # "libre" => hilo'[h] = Acabado
    BY <1>0, <1>1, AcabadoEs
  <1>3. /\ conexion' \in LasConexiones
        /\ \A c \in Conexiones :
             /\ conexion'[c] = "abierta" => conexion[c] = "abierta"
             /\ conexion[c] = "nada" <=> conexion'[c] = "nada"
             /\ conexion[c] = "quitada" <=> conexion'[c] = "quitada"
    BY <1>0, <1>1, CortaHace
  <1>ch. PICK ch : ch = [c \in Conexiones |-> <<>>]
    OBVIOUS
  <1>4. ch \in [Conexiones -> Seq(Mensajes)] /\ \A c \in Conexiones : ch[c] = <<>>
    BY <1>ch
  <1>5. kernel' = [kernel EXCEPT !.canal = ch]
    BY <1>1, <1>ch, Zenon
  <1>6. Iguales(kernel, kernel') /\ kernel'.canal = ch
    BY <1>0, <1>4, <1>5, CanalCambia
  <1>7. \A c \in Conexiones : De(kernel'.canal[c], kernel.canal[c])
    BY <1>4, <1>6 DEF De
  <1>8. principal' \in [en : {"menu", "espera", "dcon", "fin"}, i : Nat, dimension : Nat,
                        sale : BOOLEAN]
    BY <1>1 DEF EnReposo
  <1>9. \A h \in Hilos : hilo[h].en = "libre" => ~hilo[h].avisado
    BY DEF AvisadosBien
  <1>10. Interno /\ ListaTipos'
    BY <1>1, <1>2, <1>3, <1>6, <1>7, <1>8, <1>9, AcabadoEs DEF Interno, ListaTipos
  <1> QED BY <1>1, <1>4, <1>6, <1>10

LEMMA MirarEntradaHace ==
  ASSUME K, AvisadosBien, ListaTipos, NEW h \in Hilos, MirarEntrada(h)
  PROVE  Interno /\ ListaTipos'
  <1>i. PICK i : i = hilo[h].i
    OBVIOUS
  <1>0. hilo \in [Hilos -> DelHilo] /\ thread_list \in Seq(Hilos) /\ hilo[h] \in DelHilo
    BY TodoIgual DEF ListaTipos
  <1>1. hilo[h].en = "mira" /\ i \in Nat
    BY <1>0, <1>i DEF MirarEntrada, DelHilo
  <1>2. CASE i > Len(thread_list) /\ Caen("caida")
    BY <1>2, CaenHace
  <1>3. CASE /\ i <= Len(thread_list) /\ PasoEnLista
             /\ TRUE \in Coincide(thread_list[i], h)
             /\ Va(h, "saca") /\ UNCHANGED <<conexion, kernel>>
             /\ UNCHANGED <<thread_list, rarezas>>
    <2>1. /\ Corre(h) /\ hilo'[h].en = "saca" /\ hilo'[h].pid = hilo[h].pid
          /\ hilo'[h].avisado = hilo[h].avisado
      BY <1>0, <1>3, VaHace DEF Lugares
    <2>2. Iguales(kernel, kernel) /\ conexion \in LasConexiones
      BY TodoIgual
    <2>3. /\ alKernel' = alKernel /\ kernel' = kernel /\ conexion' = conexion
          /\ consola' = consola /\ principal' = principal /\ thread_list' = thread_list
          /\ rarezas' = rarezas
      BY <1>3 DEF PasoEnLista
    <2>4. Interno
      BY <1>1, <2>1, <2>2, <2>3, DeSi, UnHiloInterno
    <2> QED BY <2>3, <2>4 DEF ListaTipos
  <1>4. CASE /\ i <= Len(thread_list) /\ PasoEnLista
             /\ FALSE \in Coincide(thread_list[i], h)
             /\ IF i = hilo[h].dimension THEN Cerrar(h) ELSE Mira(h, i + 1)
             /\ UNCHANGED <<thread_list, rarezas>>
    <2>1. /\ alKernel' = alKernel /\ consola' = consola /\ principal' = principal
          /\ thread_list' = thread_list /\ rarezas' = rarezas
          /\ Cerrar(h) \/ Mira(h, i + 1)
      BY <1>4 DEF PasoEnLista
    <2>2. i + 1 \in Nat
      BY <1>1
    <2>3. CASE Cerrar(h)
      BY <2>1, <2>3, CerrarHace DEF ListaTipos
    <2>4. CASE Mira(h, i + 1)
      BY <2>1, <2>2, <2>4, <1>1, MirarUnaHace DEF ListaTipos
    <2> QED BY <2>1, <2>3, <2>4
  <1> QED BY <1>i, <1>2, <1>3, <1>4 DEF MirarEntrada

LEMMA SacarEntradaHace ==
  ASSUME K, AvisadosBien, ListaTipos, NEW h \in Hilos, SacarEntrada(h)
  PROVE  Interno /\ ListaTipos'
  <1>i. PICK i : i = hilo[h].i
    OBVIOUS
  <1>0. /\ hilo \in [Hilos -> DelHilo] /\ thread_list \in Seq(Hilos) /\ hilo[h] \in DelHilo
        /\ i \in Nat
    BY <1>i, TodoIgual DEF ListaTipos, DelHilo
  <1>1. /\ alKernel' = alKernel /\ consola' = consola /\ principal' = principal
        /\ thread_list' = IF i <= Len(thread_list) THEN RemoveAt(thread_list, i) ELSE thread_list
        /\ Cerrar(h) /\ rarezas' = rarezas
    BY <1>i DEF SacarEntrada, PasoEnLista
  <1>2. thread_list' \in Seq(Hilos)
    <2>1. CASE i <= Len(thread_list)
      BY <1>0, <1>1, <2>1, QuitarTipo
    <2>2. CASE ~(i <= Len(thread_list))
      BY <1>0, <1>1, <2>2
    <2> QED BY <2>1, <2>2
  <1> QED BY <1>1, <1>2, CerrarHace DEF ListaTipos

\* main alone: the threads stay as they are
LEMMA SoloMain ==
  ASSUME K, AvisadosBien, hilo' = hilo, alKernel' = alKernel, Iguales(kernel, kernel'),
         \A d \in Hilos : kernel'.canal[d] = kernel.canal[d],
         De(kernel'.canal[Fin], kernel.canal[Fin]),
         conexion' \in LasConexiones,
         \A c \in Conexiones : /\ conexion'[c] = "abierta" => conexion[c] = "abierta"
                               /\ conexion[c] = "nada" <=> conexion'[c] = "nada"
                               /\ conexion[c] = "quitada" <=> conexion'[c] = "quitada"
  PROVE  Interno
  <1>1. \A c \in Conexiones : De(kernel'.canal[c], kernel.canal[c])
    BY DeSi DEF Conexiones
  <1>2. \A g \in Hilos : hilo[g].en \in {"recibe", "lee_texto"} => Suyo(kernel, g, hilo[g].pid)
    BY DEF K, KInv, Base, SusPids
  <1>3. hilo \in [Hilos -> DelHilo]
    BY TodoIgual
  <1>4. \A h \in Hilos :
          hilo'[h].avisado => /\ hilo'[h].pid = hilo[h].pid
                              /\ hilo'[h].en \in {"remueve", "mira", "saca"}
                              /\ hilo[h].avisado
    BY DEF AvisadosBien
  <1> QED BY <1>1, <1>2, <1>3, <1>4 DEF Interno

LEMMA RecibirRespuestaHace ==
  ASSUME K, AvisadosBien, ListaTipos, RecibirRespuesta
  PROVE  /\ Interno /\ ListaTipos' /\ hilo' = hilo /\ thread_list' = thread_list
         /\ \A d \in Hilos : kernel'.canal[d] = kernel.canal[d]
  <1>1. /\ kernel' = [kernel EXCEPT !.canal[Fin] = <<>>]
        /\ principal' = EnReposo("menu") /\ Corta({Fin})
        /\ consola' = consola /\ hilo' = hilo /\ thread_list' = thread_list
        /\ alKernel' = alKernel /\ rarezas' = rarezas
    BY DEF RecibirRespuesta, Cierra
  <1>0. /\ conexion \in LasConexiones /\ kernel \in Estructuras /\ Fin \in Conexiones
        /\ kernel.canal \in [Conexiones -> Seq(Mensajes)] /\ Fin \notin Hilos
        /\ Hilos \subseteq Conexiones
    BY TodoIgual, ConsolaAssumption
  <1>2. /\ conexion' \in LasConexiones
        /\ \A c \in Conexiones :
             /\ conexion'[c] = "abierta" => conexion[c] = "abierta"
             /\ conexion[c] = "nada" <=> conexion'[c] = "nada"
             /\ conexion[c] = "quitada" <=> conexion'[c] = "quitada"
    BY <1>0, <1>1, CortaHace
  <1>s. PICK s : s = <<>>
    OBVIOUS
  <1>t. s \in Seq(Mensajes) /\ \A z : De(s, z)
    BY <1>s DEF De
  <1>4. kernel' = Escribe(kernel, Fin, s)
    BY <1>1, <1>s DEF Escribe
  <1>5. /\ Iguales(kernel, kernel') /\ kernel'.canal[Fin] = s
        /\ \A d \in Conexiones : d # Fin => kernel'.canal[d] = kernel.canal[d]
    BY <1>0, <1>4, <1>t, UnCanal
  <1>3. \A d \in Hilos : kernel'.canal[d] = kernel.canal[d]
    BY <1>0, <1>5
  <1>6. Interno
    BY <1>0, <1>1, <1>2, <1>5, <1>t, SoloMain
  <1>7. principal' \in [en : {"menu", "espera", "dcon", "fin"}, i : Nat, dimension : Nat,
                        sale : BOOLEAN]
    BY <1>1 DEF EnReposo
  <1> QED BY <1>1, <1>3, <1>5, <1>6, <1>7 DEF ListaTipos

LEMMA DesconectarHiloHace ==
  ASSUME K, AvisadosBien, ListaTipos, DesconectarHilo
  PROVE  Interno /\ ListaTipos'
  <1>i. PICK i : i = principal.i
    OBVIOUS
  <1>u. PICK ultimo : ultimo = (i = principal.dimension)
    OBVIOUS
  <1>1. CASE i > Len(thread_list) /\ Caen("caida")
    BY <1>1, CaenHace
  <1>2. CASE Caen("salio")
    BY <1>2, CaenHace
  <1>3. CASE /\ \E C \in Alcanzadas(thread_list[i]) : Corta(C)
             /\ principal' = IF ultimo THEN EnReposo("menu") ELSE [principal EXCEPT !.i = i + 1]
             /\ UNCHANGED <<consola, hilo, thread_list, alKernel, kernel, rarezas>>
    <2>0. conexion \in LasConexiones /\ Iguales(kernel, kernel)
      BY TodoIgual
    <2>1. PICK C : Corta(C)
      BY <1>3
    <2>2. /\ conexion' \in LasConexiones
          /\ \A c \in Conexiones :
               /\ conexion'[c] = "abierta" => conexion[c] = "abierta"
               /\ conexion[c] = "nada" <=> conexion'[c] = "nada"
               /\ conexion[c] = "quitada" <=> conexion'[c] = "quitada"
      BY <2>0, <2>1, CortaHace
    <2>3. /\ consola' = consola /\ hilo' = hilo /\ thread_list' = thread_list
          /\ alKernel' = alKernel /\ kernel' = kernel /\ rarezas' = rarezas
      BY <1>3
    <2>4. Interno
      BY <2>0, <2>2, <2>3, DeSi, SoloMain
    <2>5. principal' \in [en : {"menu", "espera", "dcon", "fin"}, i : Nat, dimension : Nat,
                          sale : BOOLEAN]
      <3>1. EnReposo("menu") \in [en : {"menu", "espera", "dcon", "fin"}, i : Nat,
                                  dimension : Nat, sale : BOOLEAN]
        BY DEF EnReposo
      <3>2. [principal EXCEPT !.i = i + 1] \in [en : {"menu", "espera", "dcon", "fin"}, i : Nat,
                                                dimension : Nat, sale : BOOLEAN]
        BY <1>i DEF ListaTipos
      <3>3. principal' \in {EnReposo("menu"), [principal EXCEPT !.i = i + 1]}
        BY <1>3
      <3> QED BY <3>1, <3>2, <3>3
    <2> QED BY <2>3, <2>4, <2>5 DEF ListaTipos
  <1> QED BY <1>i, <1>u, <1>1, <1>2, <1>3 DEF DesconectarHilo

LEMMA desconectar_consolaHace ==
  ASSUME K, AvisadosBien, ListaTipos, NEW saliendo \in BOOLEAN, desconectar_consola(saliendo)
  PROVE  Interno /\ ListaTipos' /\ hilo' = hilo /\ thread_list' = thread_list
  <1>1. /\ principal' = [en |-> "dcon", i |-> 1, dimension |-> Len(thread_list),
                         sale |-> saliendo]
        /\ Rareza("a la vez", Remueven # {})
        /\ consola' = consola /\ hilo' = hilo /\ thread_list' = thread_list
        /\ conexion' = conexion /\ alKernel' = alKernel /\ kernel' = kernel
    BY DEF desconectar_consola
  <1>2. conexion \in LasConexiones /\ Iguales(kernel, kernel)
    BY TodoIgual
  <1>3. Interno
    BY <1>1, <1>2, DeSi, SoloMain
  <1>4. rarezas' \subseteq Rarezas
    BY <1>1, RarezaTipo DEF ListaTipos, Rarezas
  <1>5. principal' \in [en : {"menu", "espera", "dcon", "fin"}, i : Nat, dimension : Nat,
                        sale : BOOLEAN]
    <2>1. Len(thread_list) \in Nat
      BY DEF ListaTipos
    <2> QED BY <2>1, <1>1
  <1> QED BY <1>1, <1>3, <1>4, <1>5 DEF ListaTipos

LEMMA SalirHace ==
  ASSUME K, AvisadosBien, ListaTipos, Salir
  PROVE  Interno /\ ListaTipos'
  BY CaenHace DEF Salir

LEMMA PasoHace ==
  ASSUME K, AvisadosBien, ListaTipos, NEW h \in Hilos, Paso(h)
  PROVE  Interno /\ ListaTipos'
  BY RecibirPidHace, CodigoRecibidoHace, MensajeRecibidoHace, SinConexionHace,
     TomarDimensionHace, MirarEntradaHace, SacarEntradaHace DEF Paso

\* What a connection starts with
LEMMA ColaTres ==
  ASSUME NEW x \in Pedidos, NEW s, s = <<<<"connect">>, <<"handshake">>>> \o <<x>>
  PROVE  /\ s \in Seq(Pedidos) /\ Len(s) = 3 /\ DOMAIN s = {1, 2, 3}
         /\ s[1] = <<"connect">> /\ s[2] = <<"handshake">> /\ s[3] = x
  <1>u. PICK u : u = <<<<"connect">>, <<"handshake">>>>
    OBVIOUS
  <1>v. PICK v : v = <<x>>
    OBVIOUS
  <1>1. <<"connect">> \in Pedidos /\ <<"handshake">> \in Pedidos
    BY DEF Pedidos
  <1>2. /\ u \in Seq(Pedidos) /\ Len(u) = 2 /\ u[1] = <<"connect">> /\ u[2] = <<"handshake">>
        /\ v \in Seq(Pedidos) /\ Len(v) = 1 /\ v[1] = x
    BY <1>u, <1>v, <1>1
  <1>3. /\ s \in Seq(Pedidos) /\ Len(s) = Len(u) + Len(v)
        /\ \A i \in 1 .. Len(u) + Len(v) :
             s[i] = IF i <= Len(u) THEN u[i] ELSE v[i - Len(u)]
    BY <1>u, <1>v, <1>2, ConcatProperties
  <1> QED BY <1>2, <1>3

LEMMA ColaNueva ==
  /\ \A h \in Hilos : ColaBien(<<<<"connect">>, <<"handshake">>>> \o <<<<"script">>>>, h)
  /\ \A c \in Conexiones : ColaBien(<<<<"connect">>, <<"handshake">>>> \o <<>>, c)
  /\ \A p \in Pids : ColaBien(<<<<"connect">>, <<"handshake">>>> \o <<<<"eliminar", p>>>>, Fin)
  <1>1. ASSUME NEW c, NEW x \in Pedidos, x[1] \notin {"connect", "handshake"},
               x[1] = "script" => c \in Hilos,
               x[1] = "eliminar" => c = Fin /\ x[2] \in Pids
        PROVE  ColaBien(<<<<"connect">>, <<"handshake">>>> \o <<x>>, c)
    <2>s. PICK s : s = <<<<"connect">>, <<"handshake">>>> \o <<x>>
      OBVIOUS
    <2>3. /\ s \in Seq(Pedidos) /\ Len(s) = 3 /\ DOMAIN s = {1, 2, 3}
          /\ s[1] = <<"connect">> /\ s[2] = <<"handshake">> /\ s[3] = x
      BY <2>s, ColaTres
    <2>4. s[1][1] = "connect" /\ s[2][1] = "handshake" /\ s[3][1] = x[1]
      BY <2>3
    <2> HIDE DEF Pedidos
    <2>5. \A i, j \in {1, 2, 3} : s[i][1] = s[j][1] => i = j
      BY <2>4, <1>1
    <2>6. \A i \in {1, 2, 3} : /\ s[i][1] = "script" => c \in Hilos
                               /\ s[i][1] = "eliminar" => c = Fin /\ s[i][2] \in Pids
      BY <2>3, <2>4, <1>1
    <2>7. Len(s) <= 3
      BY <2>3
    <2> QED BY <2>s, <2>3, <2>5, <2>6, <2>7 DEF ColaBien
  <1>2. ASSUME NEW h \in Hilos
        PROVE  ColaBien(<<<<"connect">>, <<"handshake">>>> \o <<<<"script">>>>, h)
    <2>x. PICK x : x = <<"script">>
      OBVIOUS
    <2>1. x \in Pedidos /\ x[1] = "script"
      BY <2>x DEF Pedidos
    <2>2. ColaBien(<<<<"connect">>, <<"handshake">>>> \o <<x>>, h)
      BY <2>1, <1>1
    <2> QED BY <2>2, <2>x
  <1>3. ASSUME NEW p \in Pids
        PROVE  ColaBien(<<<<"connect">>, <<"handshake">>>> \o <<<<"eliminar", p>>>>, Fin)
    <2>x. PICK x : x = <<"eliminar", p>>
      OBVIOUS
    <2>1. x \in Pedidos /\ x[1] = "eliminar" /\ x[2] = p
      BY <2>x DEF Pedidos
    <2>2. ColaBien(<<<<"connect">>, <<"handshake">>>> \o <<x>>, Fin)
      BY <2>1, <1>1
    <2> QED BY <2>2, <2>x
  <1>4. ASSUME NEW c \in Conexiones
        PROVE  ColaBien(<<<<"connect">>, <<"handshake">>>> \o <<>>, c)
    <2>s. PICK s : s = <<<<"connect">>, <<"handshake">>>> \o <<>>
      OBVIOUS
    <2>1. s = <<<<"connect">>, <<"handshake">>>>
      BY <2>s
    <2>2. <<"connect">> \in Pedidos /\ <<"handshake">> \in Pedidos
      BY DEF Pedidos
    <2>3. /\ s \in Seq(Pedidos) /\ Len(s) = 2 /\ DOMAIN s = {1, 2}
          /\ s[1] = <<"connect">> /\ s[2] = <<"handshake">>
      BY <2>1, <2>2
    <2>4. s[1][1] = "connect" /\ s[2][1] = "handshake"
      BY <2>3
    <2> HIDE DEF Pedidos
    <2>5. /\ \A i, j \in {1, 2} : s[i][1] = s[j][1] => i = j
          /\ \A i \in {1, 2} : s[i][1] # "script" /\ s[i][1] # "eliminar"
      BY <2>4
    <2>7. Len(s) <= 3
      BY <2>3
    <2> QED BY <2>s, <2>3, <2>5, <2>7 DEF ColaBien
  <1> QED BY <1>2, <1>3, <1>4

LEMMA AbreConserva ==
  ASSUME K, NEW c \in Conexiones, NEW s, ColaBien(s, c),
         conexion' = [conexion EXCEPT ![c] = "abierta"], alKernel' = [alKernel EXCEPT ![c] = s],
         kernel' = kernel, hilo' \in [Hilos -> DelHilo],
         \A h \in Hilos : h # c => hilo'[h] = hilo[h],
         c \in Hilos => hilo[c].en = "libre" /\ hilo'[c].en \in {"espera_pid", "fin"}
  PROVE  KSigue
  <1>0. /\ conexion \in LasConexiones /\ DOMAIN alKernel = Conexiones
        /\ \A d \in Conexiones : ColaBien(alKernel[d], d)
        /\ Hilos \subseteq Conexiones /\ kernel \in Estructuras
    BY DEF K, KInv, Base, Tipos, Conexiones
  <1>1. /\ conexion' \in LasConexiones
        /\ \A h \in Hilos : h # c => conexion'[h] = conexion[h] /\ alKernel'[h] = alKernel[h]
        /\ DOMAIN alKernel' = Conexiones
        /\ \A d \in Conexiones : ColaBien(alKernel'[d], d)
    BY <1>0 DEF LasConexiones
  <1>2. Tipos(kernel', alKernel', hilo', conexion')
    BY <1>0, <1>1 DEF Tipos
  <1>3. Libres(alKernel', hilo', conexion')
    <2>1. \A h \in Hilos : hilo'[h].en = "libre" => h # c /\ hilo[h].en = "libre"
      OBVIOUS
    <2> QED BY <2>1, <1>1 DEF K, KInv, Base, Libres
  <1>4. \A h \in Hilos : Nuevo(alKernel', hilo', h) => Nuevo(alKernel, hilo, h)
    BY <1>1 DEF Nuevo
  <1>5. Nuevos(kernel', alKernel', hilo')
    BY <1>4 DEF K, KInv, Base, Nuevos
  <1>6. SusPids(kernel', hilo')
    <2>1. \A h \in Hilos : hilo'[h].en \in {"recibe", "lee_texto"} => h # c
      OBVIOUS
    <2> QED BY <2>1 DEF K, KInv, Base, SusPids
  <1>7. ASSUME NEW h \in Hilos
        PROVE  Primero(kernel', hilo', conexion', h)
    <2>1. CASE h # c
      BY <2>1, <1>1 DEF K, KInv, Primero
    <2>2. CASE h = c
      <3>1. Nuevo(alKernel, hilo, h)
        BY <2>2 DEF Nuevo
      <3>2. kernel.canal[h] = <<>> /\ \A p \in Pids : kernel.fd_consola[p] # h
        BY <3>1 DEF K, KInv, Base, Nuevos
      <3> QED BY <3>2 DEF Primero
    <2> QED BY <2>1, <2>2
  <1> QED BY <1>2, <1>3, <1>5, <1>6, <1>7 DEF KSigue, K, KInv, Base

\* Nothing is read from a connection before it is accepted
NewfdBien(k, a) ==
  k.vivo = TRUE /\ k.newfd = Nada =>
    \A c \in Conexiones : a[c] # <<>> => Head(a[c])[1] = "connect"

TInv == K /\ NewfdBien(kernel, alKernel) /\ AvisadosBien /\ ListaTipos

LEMMA ComienzoConnect ==
  ASSUME NEW m \in Seq(Pedidos)
  PROVE  /\ <<<<"connect">>, <<"handshake">>>> \o m # <<>>
         /\ Head(<<<<"connect">>, <<"handshake">>>> \o m)[1] = "connect"
  <1>u. PICK u : u = <<<<"connect">>, <<"handshake">>>>
    OBVIOUS
  <1>2. <<"connect">> \in Pedidos /\ <<"handshake">> \in Pedidos
    BY DEF Pedidos
  <1>1. /\ u \in Seq(Pedidos) /\ u # <<>> /\ Head(u) = <<"connect">>
    BY <1>u, <1>2
  <1>3. u \o m # <<>> /\ Head(u \o m) = Head(u)
    BY <1>1, CanalMasLargo
  <1> QED BY <1>1, <1>3, <1>u

LEMMA AbreYNewfd ==
  ASSUME TInv, NEW c \in Conexiones, NEW m \in Seq(Pedidos), Abre(c, m), kernel' = kernel
  PROVE  NewfdBien(kernel', alKernel')
  <1>s. PICK s : s = <<<<"connect">>, <<"handshake">>>> \o m
    OBVIOUS
  <1>1. s # <<>> /\ Head(s)[1] = "connect"
    BY <1>s, ComienzoConnect
  <1>2. alKernel' = [alKernel EXCEPT ![c] = s]
    BY <1>s DEF Abre
  <1>3. \A d \in Conexiones : alKernel'[d] = alKernel[d] \/ alKernel'[d] = s
    BY <1>2 DEF TInv, K, KInv, Base, Tipos
  <1> QED BY <1>1, <1>3 DEF TInv, NewfdBien

LEMMA iniciar_programaHace ==
  ASSUME TInv, NEW h \in Hilos, iniciar_programa(h)
  PROVE  /\ TInv'
         /\ Corre(h) /\ hilo'[h].en \in {"espera_pid", "fin"} /\ hilo[h].en = "libre"
         /\ hilo'[h].en = "espera_pid" => hilo'[h].numero = NumeroNuevo
         /\ hilo'[h].avisado = FALSE
  <1>0. /\ hilo \in [Hilos -> DelHilo] /\ h \in Conexiones /\ hilo[h] \in DelHilo
        /\ thread_list \in Seq(Hilos)
    BY TodoIgual DEF TInv, ListaTipos
  <1>1. /\ hilo[h].en = "libre" /\ kernel' = kernel /\ consola' = consola
        /\ thread_list' = thread_list /\ principal' = principal
        /\ Rareza("numero repetido", \E g \in Vivos : hilo[g].numero = NumeroNuevo)
    BY DEF iniciar_programa, DeLaConsola
  <1>2. rarezas' \subseteq Rarezas
    BY <1>1, RarezaTipo DEF TInv, ListaTipos, Rarezas
  <1>3. ListaTipos'
    BY <1>1, <1>2 DEF TInv, ListaTipos
  <1>4. ~hilo[h].avisado
    BY <1>1 DEF TInv, AvisadosBien
  <1>5. ASSUME NEW m \in Seq(Pedidos), Abre(h, m), NEW g \in DelHilo,
               ColaBien(<<<<"connect">>, <<"handshake">>>> \o m, h),
               hilo' = [hilo EXCEPT ![h] = g], g.en \in {"espera_pid", "fin"},
               g.avisado = FALSE
        PROVE  TInv' /\ Corre(h) /\ hilo'[h] = g
    <2>1. Corre(h) /\ hilo'[h] = g
      BY <1>0, <1>5, UnHilo
    <2>s. PICK s : s = <<<<"connect">>, <<"handshake">>>> \o m
      OBVIOUS
    <2>2. /\ conexion' = [conexion EXCEPT ![h] = "abierta"]
          /\ alKernel' = [alKernel EXCEPT ![h] = s]
      BY <1>5, <2>s DEF Abre
    <2>3. KSigue
      <3>1. K /\ ColaBien(s, h)
        BY <1>5, <2>s DEF TInv
      <3>2. /\ hilo' \in [Hilos -> DelHilo] /\ \A f \in Hilos : f # h => hilo'[f] = hilo[f]
            /\ hilo'[h].en \in {"espera_pid", "fin"}
        BY <2>1, <1>5 DEF Corre
      <3> QED BY <3>1, <3>2, <2>2, <1>0, <1>1, AbreConserva
    <2>4. NewfdBien(kernel', alKernel')
      BY <1>0, <1>1, <1>5, AbreYNewfd
    <2>5. AvisadosBien'
      BY <2>1, <1>5 DEF Corre, TInv, AvisadosBien
    <2>6. TInv'
      BY <2>3, <2>4, <2>5, <1>3 DEF TInv, KSigue, K
    <2> QED BY <2>1, <2>6
  <1>6. CASE /\ Abre(h, <<<<"script">>>>)
             /\ hilo' = [hilo EXCEPT ![h].en = "espera_pid", ![h].numero = NumeroNuevo]
    <2>g. PICK g : g = [hilo[h] EXCEPT !.en = "espera_pid", !.numero = NumeroNuevo]
      OBVIOUS
    <2>1. NumeroNuevo \in Nat
      BY <1>0 DEF NumeroNuevo
    <2>2. /\ g \in DelHilo /\ g.en = "espera_pid" /\ g.numero = NumeroNuevo
          /\ g.avisado = FALSE
      BY <2>1, <2>g, <1>0, <1>4 DEF DelHilo, Lugares
    <2>3. hilo' = [hilo EXCEPT ![h] = g]
      BY <1>6, <2>g
    <2>m. PICK m : m = <<<<"script">>>>
      OBVIOUS
    <2>4. m \in Seq(Pedidos)
      <3>1. <<"script">> \in Pedidos
        BY DEF Pedidos
      <3> HIDE DEF Pedidos
      <3> QED BY <3>1, <2>m
    <2>5. ColaBien(<<<<"connect">>, <<"handshake">>>> \o m, h)
      BY <2>m, ColaNueva
    <2>6. Abre(h, m)
      BY <1>6, <2>m
    <2>7. TInv' /\ Corre(h) /\ hilo'[h] = g
      BY <2>2, <2>3, <2>4, <2>5, <2>6, <1>5
    <2> QED BY <2>2, <2>7, <1>1
  <1>7. CASE Abre(h, <<>>) /\ Deja(h)
    <2>m. PICK m : m = <<>>
      OBVIOUS
    <2>4. m \in Seq(Pedidos)
      BY <2>m
    <2>5. ColaBien(<<<<"connect">>, <<"handshake">>>> \o m, h)
      BY <2>m, <1>0, ColaNueva
    <2>6. Abre(h, m)
      BY <1>7, <2>m
    <2>3. hilo' = [hilo EXCEPT ![h] = Acabado]
      BY <1>7 DEF Deja
    <2>7. TInv' /\ Corre(h) /\ hilo'[h] = Acabado
      BY <2>3, <2>4, <2>5, <2>6, <1>5, AcabadoEs
    <2> QED BY <2>7, <1>1, AcabadoEs
  <1> QED BY <1>6, <1>7 DEF iniciar_programa

LEMMA finalizar_programaHace ==
  ASSUME TInv, NEW p \in Pids, finalizar_programa(p)
  PROVE  TInv' /\ hilo' = hilo /\ kernel' = kernel /\ thread_list' = thread_list
  <1>0. /\ hilo \in [Hilos -> DelHilo] /\ Fin \in Conexiones /\ Fin \notin Hilos
        /\ thread_list \in Seq(Hilos)
    BY TodoIgual, ConsolaAssumption DEF TInv, ListaTipos
  <1>m. PICK m : m = <<<<"eliminar", p>>>>
    OBVIOUS
  <1>1. /\ kernel' = kernel /\ consola' = consola /\ hilo' = hilo /\ rarezas' = rarezas
        /\ thread_list' = thread_list /\ principal' = EnReposo("espera") /\ Abre(Fin, m)
    BY <1>m DEF finalizar_programa
  <1>2. m \in Seq(Pedidos)
    <2>1. <<"eliminar", p>> \in Pedidos
      BY DEF Pedidos
    <2> HIDE DEF Pedidos
    <2> QED BY <2>1, <1>m
  <1>s. PICK s : s = <<<<"connect">>, <<"handshake">>>> \o m
    OBVIOUS
  <1>3. ColaBien(s, Fin)
    BY <1>m, <1>s, ColaNueva
  <1>4. /\ conexion' = [conexion EXCEPT ![Fin] = "abierta"]
        /\ alKernel' = [alKernel EXCEPT ![Fin] = s]
    BY <1>1, <1>s DEF Abre
  <1>5. KSigue
    BY <1>0, <1>1, <1>3, <1>4, AbreConserva DEF TInv
  <1>6. NewfdBien(kernel', alKernel')
    BY <1>0, <1>1, <1>2, AbreYNewfd
  <1>7. AvisadosBien'
    BY <1>1 DEF TInv, AvisadosBien
  <1>8. ListaTipos'
    <2>1. principal' \in [en : {"menu", "espera", "dcon", "fin"}, i : Nat, dimension : Nat,
                          sale : BOOLEAN]
      BY <1>1 DEF EnReposo
    <2> QED BY <2>1, <1>1 DEF TInv, ListaTipos
  <1> QED BY <1>1, <1>5, <1>6, <1>7, <1>8 DEF TInv, KSigue, K

\* What a connection says after it is accepted
LEMMA YaAceptado ==
  ASSUME TInv, NEW c \in Conexiones, kernel.vivo = TRUE, alKernel[c] # <<>>,
         Head(alKernel[c])[1] # "connect"
  PROVE  kernel.newfd # Nada
  BY DEF TInv, NewfdBien

LEMMA NewfdSigue ==
  ASSUME TInv, Fijo(kernel, kernel'), alKernel' = alKernel \/ kernel.newfd # Nada
  PROVE  NewfdBien(kernel', alKernel')
  BY DEF TInv, NewfdBien, Fijo

LEMMA DelKernelHace ==
  ASSUME TInv, DelKernel, KSigue, NewfdBien(kernel', alKernel'), rarezas' \subseteq Rarezas
  PROVE  TInv'
  <1>1. AvisadosBien'
    BY DEF TInv, AvisadosBien, DelKernel
  <1>2. ListaTipos'
    BY DEF TInv, ListaTipos, DelKernel
  <1> QED BY <1>1, <1>2 DEF TInv, K, KSigue

DeLosProcesos ==
  \/ AdmitirDeNew
  \/ \E p \in Pids : Despachar(p) \/ Imprimir(p) \/ FinDeTurno(p)

LEMMA DeLosProcesosHace ==
  ASSUME TInv, DeLosProcesos
  PROVE  TInv' /\ Fijo(kernel, kernel') /\ DelKernel /\ alKernel' = alKernel
  <1>0. rarezas \subseteq Rarezas
    BY DEF TInv, ListaTipos
  <1>1. CASE AdmitirDeNew
    <2>1. KSigue /\ Fijo(kernel, kernel')
      BY <1>1, AdmitirDeNewK DEF TInv
    <2>2. DelKernel /\ alKernel' = alKernel
      BY <1>1 DEF AdmitirDeNew
    <2>3. rarezas' \subseteq Rarezas
      BY <1>0, <1>1, RarezaTipo DEF AdmitirDeNew, Rarezas
    <2> QED BY <2>1, <2>2, <2>3, NewfdSigue, DelKernelHace
  <1>2. ASSUME NEW p \in Pids, Despachar(p)
        PROVE  TInv' /\ Fijo(kernel, kernel') /\ DelKernel /\ alKernel' = alKernel
    <2>1. KSigue /\ Fijo(kernel, kernel')
      BY <1>2, DespacharK DEF TInv
    <2>2. DelKernel /\ alKernel' = alKernel /\ rarezas' = rarezas
      BY <1>2 DEF Despachar
    <2> QED BY <1>0, <2>1, <2>2, NewfdSigue, DelKernelHace
  <1>3. ASSUME NEW p \in Pids, Imprimir(p)
        PROVE  TInv' /\ Fijo(kernel, kernel') /\ DelKernel /\ alKernel' = alKernel
    <2>1. KSigue /\ Fijo(kernel, kernel')
      BY <1>3, ImprimirK DEF TInv
    <2>2. DelKernel /\ alKernel' = alKernel /\ rarezas' = rarezas
      BY <1>3 DEF Imprimir
    <2> QED BY <1>0, <2>1, <2>2, NewfdSigue, DelKernelHace
  <1>4. ASSUME NEW p \in Pids, FinDeTurno(p)
        PROVE  TInv' /\ Fijo(kernel, kernel') /\ DelKernel /\ alKernel' = alKernel
    <2>1. KSigue /\ Fijo(kernel, kernel')
      BY <1>4, FinDeTurnoK DEF TInv
    <2>2. DelKernel /\ alKernel' = alKernel
      BY <1>4 DEF FinDeTurno, FinDeRafaga, Finalizado, Abortar
    <2>3. rarezas' \subseteq Rarezas
      <3>1. CASE rarezas' = rarezas
        BY <1>0, <3>1
      <3>2. CASE Rareza("aborto de un marcado", proceso_para_borrar(p))
        BY <1>0, <3>2, RarezaTipo DEF Rarezas
      <3> QED BY <1>4, <3>1, <3>2 DEF FinDeTurno, FinDeRafaga, Finalizado, Abortar
    <2> QED BY <2>1, <2>2, <2>3, NewfdSigue, DelKernelHace
  <1> QED BY <1>1, <1>2, <1>3, <1>4 DEF DeLosProcesos

LEMMA DeLaConexionHace ==
  ASSUME TInv, NEW c \in Conexiones, DeLaConexion(c)
  PROVE  TInv'
  <1>0. rarezas \subseteq Rarezas /\ kernel.vivo \in BOOLEAN
    BY DEF TInv, ListaTipos, K, KInv, Base, Tipos, Estructuras
  <1>1. CASE sock_accept_new_connection(c)
    <2>1. KSigue
      BY <1>1, AceptarK DEF TInv
    <2>2. /\ DelKernel /\ kernel' = [kernel EXCEPT !.newfd = c] /\ rarezas' = rarezas
      BY <1>1 DEF sock_accept_new_connection
    <2>3. kernel'.newfd = c /\ c # Nada
      BY <2>2, ConsolaAssumption DEF TInv, K, KInv, Base, Tipos, Estructuras, Conexiones
    <2>4. NewfdBien(kernel', alKernel')
      BY <2>3 DEF NewfdBien
    <2> QED BY <1>0, <2>1, <2>2, <2>4, DelKernelHace
  <1>2. ASSUME NEW mensaje, mensaje # "connect", DelKernel, Lee(c, mensaje)
        PROVE  kernel.newfd # Nada
    <2>1. /\ kernel.vivo = TRUE /\ alKernel[c] # <<>> /\ Head(alKernel[c])[1] # "connect"
      BY <1>0, <1>2 DEF DelKernel, Lee
    <2> QED BY <2>1, YaAceptado
  <1>3. CASE Handshake(c)
    <2>1. DelKernel /\ kernel.newfd # Nada
      BY <1>2, <1>3 DEF Handshake
    <2>2. KSigue
      BY <2>1, <1>3, HandshakeK DEF TInv
    <2>3. kernel'.newfd = kernel.newfd /\ kernel'.vivo = kernel.vivo
      BY <1>3 DEF Handshake, TInv, K, KInv, Base, Tipos, Estructuras
    <2>4. NewfdBien(kernel', alKernel')
      BY <2>1, <2>3 DEF NewfdBien
    <2>5. rarezas' \subseteq Rarezas
      BY <1>0, <1>3, RarezaTipo DEF Handshake, Rarezas
    <2> QED BY <2>1, <2>2, <2>4, <2>5, DelKernelHace
  <1>4. CASE NuevoPrograma(c)
    <2>1. DelKernel /\ kernel.newfd # Nada /\ rarezas' = rarezas
      BY <1>2, <1>4 DEF NuevoPrograma
    <2>2. KSigue /\ Fijo(kernel, kernel')
      BY <1>4, NuevoProgramaK DEF TInv
    <2> QED BY <1>0, <2>1, <2>2, NewfdSigue, DelKernelHace
  <1>r. ASSUME NEW p, SegundaMarca(p)
        PROVE  rarezas' \subseteq Rarezas
    BY <1>0, <1>r, RarezaTipo DEF SegundaMarca, Rarezas
  <1>5. CASE EliminarProceso(c)
    <2>1. DelKernel /\ kernel.newfd # Nada
      BY <1>2, <1>5 DEF EliminarProceso
    <2>2. KSigue /\ Fijo(kernel, kernel')
      BY <1>5, EliminarProcesoK DEF TInv
    <2>3. rarezas' \subseteq Rarezas
      BY <1>5, <1>r DEF EliminarProceso
    <2> QED BY <2>1, <2>2, <2>3, NewfdSigue, DelKernelHace
  <1>6. CASE Desconectar(c)
    <2>1. DelKernel /\ alKernel' = alKernel
      BY <1>6 DEF Desconectar
    <2>2. KSigue /\ Fijo(kernel, kernel')
      BY <1>6, DesconectarK DEF TInv
    <2>3. rarezas' \subseteq Rarezas
      BY <1>0, <1>6, <1>r DEF Desconectar
    <2> QED BY <2>1, <2>2, <2>3, NewfdSigue, DelKernelHace
  <1> QED BY <1>1, <1>3, <1>4, <1>5, <1>6 DEF DeLaConexion

LEMMA InternoSigue ==
  ASSUME TInv, Interno, ListaTipos'
  PROVE  TInv'
  <1>1. KSigue
    BY InternoConserva DEF TInv
  <1>2. NewfdBien(kernel', alKernel')
    BY DEF TInv, NewfdBien, Interno, Iguales
  <1>3. AvisadosBien'
    BY DEF AvisadosBien, Interno
  <1> QED BY <1>1, <1>2, <1>3 DEF TInv, K, KSigue

LEMMA TInicial == Init => TInv
  <1> SUFFICES ASSUME Init
               PROVE  TInv
    OBVIOUS
  <1>1. /\ consola = "viva" /\ hilo = [h \in Hilos |-> Libre] /\ thread_list = <<>>
        /\ principal = EnReposo("menu") /\ conexion = [c \in Conexiones |-> "nada"]
        /\ alKernel = [c \in Conexiones |-> <<>>] /\ kernel = EnBlanco /\ rarezas = {}
    BY DEF Init
  <1>e. PICK e : e = [p \in Pids |-> "NoExiste"]
    OBVIOUS
  <1>f. PICK f : f = [p \in Pids |-> Nada]
    OBVIOUS
  <1>c. PICK ca : ca = [x \in Conexiones |-> <<>>]
    OBVIOUS
  <1>2. kernel = [vivo |-> TRUE, newfd |-> Nada, lista_consolas |-> <<>>, borrar |-> <<>>,
                  pid |-> PidPrevios, nuevos |-> <<>>, estado |-> e, fd_consola |-> f,
                  terminados |-> {}, canal |-> ca, rotas |-> {}]
    BY <1>1, <1>e, <1>f, <1>c, Zenon DEF EnBlanco
  <1>3. /\ e \in [Pids -> {"NoExiste", "New", "Listo", "Exec", "Exit"}]
        /\ f \in [Pids -> Hilos \cup {Nada}] /\ \A p \in Pids : f[p] = Nada
        /\ ca \in [Conexiones -> Seq(Mensajes)] /\ \A c \in Conexiones : ca[c] = <<>>
        /\ PidPrevios \in Nat
    BY <1>e, <1>f, <1>c, ConsolaAssumption
  <1>4. /\ kernel \in Estructuras /\ kernel.vivo = TRUE /\ kernel.lista_consolas = <<>>
        /\ kernel.borrar = <<>> /\ kernel.nuevos = <<>> /\ kernel.pid = PidPrevios
        /\ kernel.fd_consola = f /\ kernel.canal = ca
    BY <1>2, <1>3 DEF Estructuras
  <1>5. /\ hilo \in [Hilos -> DelHilo]
        /\ \A h \in Hilos : hilo[h].en = "libre" /\ hilo[h].avisado = FALSE
    BY <1>1, AcabadoEs
  <1>6. conexion \in LasConexiones /\ Hilos \subseteq Conexiones
    BY <1>1 DEF LasConexiones, Conexiones
  <1>7. \A c : ColaBien(<<>>, c)
    BY DEF ColaBien
  <1>8. Tipos(kernel, alKernel, hilo, conexion)
    BY <1>1, <1>4, <1>5, <1>6, <1>7 DEF Tipos
  <1>9. Libres(alKernel, hilo, conexion)
    BY <1>1, <1>6 DEF Libres
  <1>10. Nuevos(kernel, alKernel, hilo)
    BY <1>3, <1>4, <1>6, ConsolaAssumption DEF Nuevos
  <1>11. CuentaDePids(kernel)
    <2>1. PidPrevios \in PidPrevios .. PidPrevios + Cardinality(Hilos)
      BY <1>3, PidsNaturales
    <2>2. \A p \in Pids : ~(p <= PidPrevios)
      BY <1>3, PidsNaturales DEF Pids
    <2> QED BY <1>3, <1>4, <2>1, <2>2 DEF CuentaDePids
  <1>12. Entradas(kernel) /\ MarcasBien(kernel) /\ SusPids(kernel, hilo) /\ Caidos(kernel)
    BY <1>4, <1>5 DEF Entradas, MarcasBien, SusPids, Caidos
  <1>13. \A h \in Hilos : Primero(kernel, hilo, conexion, h)
    BY <1>5 DEF Primero
  <1>14. K
    BY <1>8, <1>9, <1>10, <1>11, <1>12, <1>13 DEF K, KInv, Base
  <1>15. NewfdBien(kernel, alKernel) /\ AvisadosBien
    BY <1>1, <1>5 DEF NewfdBien, AvisadosBien
  <1>16. ListaTipos
    BY <1>1 DEF ListaTipos, EnReposo
  <1> QED BY <1>14, <1>15, <1>16 DEF TInv

LEMMA TPaso == TInv /\ [Next]_vars => TInv'
  <1> SUFFICES ASSUME TInv, [Next]_vars
               PROVE  TInv'
    OBVIOUS
  <1>0. K /\ AvisadosBien /\ ListaTipos
    BY DEF TInv
  <1>1. ASSUME NEW c \in Conexiones, DeLaConexion(c)
        PROVE  TInv'
    BY <1>1, DeLaConexionHace
  <1>2. CASE DeLosProcesos
    BY <1>2, DeLosProcesosHace
  <1>3. ASSUME NEW p \in Pids, finalizar_programa(p)
        PROVE  TInv'
    BY <1>3, finalizar_programaHace
  <1>4. ASSUME NEW h \in Hilos, iniciar_programa(h)
        PROVE  TInv'
    BY <1>4, iniciar_programaHace
  <1>5. ASSUME NEW h \in Hilos, Paso(h)
        PROVE  TInv'
    BY <1>0, <1>5, PasoHace, InternoSigue
  <1>6. CASE MainSigue
    BY <1>0, <1>6, RecibirRespuestaHace, DesconectarHiloHace, InternoSigue DEF MainSigue
  <1>7. CASE Salir
    BY <1>0, <1>7, SalirHace, InternoSigue
  <1>8. ASSUME NEW saliendo \in BOOLEAN, desconectar_consola(saliendo)
        PROVE  TInv'
    BY <1>0, <1>8, desconectar_consolaHace, InternoSigue
  <1>9. CASE UNCHANGED vars
    BY <1>9 DEF vars, TInv, K, KInv, Base, Tipos, Libres, Nuevos, CuentaDePids, Entradas,
                MarcasBien, SusPids, Caidos, Primero, Suyo, Nuevo, Pide, NewfdBien,
                AvisadosBien, ListaTipos
  <1> QED
    BY <1>1, <1>2, <1>3, <1>4, <1>5, <1>6, <1>7, <1>8, <1>9 DEF Next, DeLosProcesos

LEMMA TSiempre == Spec => []TInv
  BY TInicial, TPaso, PTL DEF Spec

\* TypeOK: the structures of the Kernel and of the Consola stay what they are; in
\* particular a handshake is only served after some connection was accepted, a mark or an
\* entry of new_queue is of a process, and what a thread takes for its pid is one.
THEOREM TiposDeLaConsola == Spec => []TypeOK
  <1>1. TInv => TypeOK
    <2> SUFFICES ASSUME TInv
                 PROVE  TypeOK
      OBVIOUS
    <2>1. /\ kernel \in Estructuras /\ hilo \in [Hilos -> DelHilo]
          /\ conexion \in LasConexiones /\ \A c \in Conexiones : ColaBien(alKernel[c], c)
      BY DEF TInv, K, KInv, Base, Tipos
    <2>2. \A c \in Conexiones : Len(alKernel[c]) <= 3
      BY <2>1 DEF ColaBien
    <2> QED BY <2>1, <2>2 DEF TInv, ListaTipos, TypeOK, DelHilo, LasConexiones
  <1> QED BY <1>1, TSiempre, PTL

-----------------------------------------------------------------------------
(* The list of the threads *)

EstaEn(h) == \E i \in DOMAIN thread_list : thread_list[i] = h

Sucede(nombre) == nombre \in rarezas

\* Who walks the list does it alone, and does not go past its end
DeAUno ==
  consola = "viva" /\ ~Sucede("a la vez") =>
    /\ \A g, h \in Remueven : g = h
    /\ principal.en = "dcon" =>
         /\ Remueven = {} /\ principal.i \in 1 .. principal.dimension
         /\ principal.dimension <= Len(thread_list)
    /\ \A h \in Remueven : /\ hilo[h].i \in 1 .. hilo[h].dimension
                           /\ hilo[h].dimension <= Len(thread_list)

\* The list is that of the threads with a program, their numbers tell them apart, and
\* who looks for its own place has not gone past it
Exacta ==
  consola = "viva" /\ ~Sucede("a la vez") /\ ~Sucede("numero repetido") =>
    /\ \A h \in Hilos : hilo[h].en \in EnLista <=> EstaEn(h)
    /\ \A i, j \in DOMAIN thread_list : thread_list[i] = thread_list[j] => i = j
    /\ \A g, h \in Vivos : hilo[g].numero = hilo[h].numero => g = h
    /\ \A h \in Remueven :
         /\ \E i \in hilo[h].i .. hilo[h].dimension : thread_list[i] = h
         /\ hilo[h].en = "saca" => thread_list[hilo[h].i] = h

LInv == DeAUno /\ Exacta /\ CaidaPorLaLista

LEMMA ListaQuieta ==
  ASSUME LInv, hilo' = hilo, thread_list' = thread_list, consola' = consola,
         rarezas \subseteq rarezas', principal' = principal \/ principal'.en # "dcon"
  PROVE  LInv'
  <1>1. DeAUno'
    BY DEF LInv, DeAUno, Remueven, Sucede
  <1>2. Exacta'
    BY DEF LInv, Exacta, Remueven, Vivos, EstaEn, Sucede
  <1>3. CaidaPorLaLista'
    BY DEF LInv, CaidaPorLaLista
  <1> QED BY <1>1, <1>2, <1>3 DEF LInv

\* A thread goes on, and neither begins nor ends to walk the list
LEMMA HiloQuieto ==
  ASSUME LInv, NEW h \in Hilos, Corre(h), thread_list' = thread_list, consola' = consola,
         rarezas' = rarezas, principal' = principal,
         hilo[h].en \in EnLista \ {"mira", "saca"},
         hilo'[h].en \in EnLista \ {"mira", "saca"},
         hilo'[h].numero = hilo[h].numero
  PROVE  LInv'
  <1>1. Remueven' = Remueven /\ h \notin Remueven
    BY DEF Corre, Remueven
  <1>2. \A g \in Remueven : hilo'[g] = hilo[g]
    BY <1>1 DEF Corre, Remueven
  <1>3. Vivos' = Vivos /\ \A g \in Hilos : hilo'[g].numero = hilo[g].numero
    BY DEF Corre, Vivos, EnLista
  <1>4. \A g \in Hilos : (hilo'[g].en \in EnLista) <=> (hilo[g].en \in EnLista)
    BY DEF Corre
  <1>5. DeAUno'
    BY <1>1, <1>2 DEF LInv, DeAUno, Sucede
  <1>6. Exacta'
    <2> SUFFICES ASSUME consola = "viva", ~Sucede("a la vez"), ~Sucede("numero repetido")
                 PROVE  /\ \A g \in Hilos : hilo'[g].en \in EnLista <=> EstaEn(g)
                        /\ \A i, j \in DOMAIN thread_list :
                             thread_list[i] = thread_list[j] => i = j
                        /\ \A g, f \in Vivos' : hilo'[g].numero = hilo'[f].numero => g = f
                        /\ \A g \in Remueven' :
                             /\ \E i \in hilo'[g].i .. hilo'[g].dimension : thread_list[i] = g
                             /\ hilo'[g].en = "saca" => thread_list[hilo'[g].i] = g
      BY DEF Exacta, Sucede, EstaEn
    <2>1. /\ \A g \in Hilos : hilo[g].en \in EnLista <=> EstaEn(g)
          /\ \A i, j \in DOMAIN thread_list : thread_list[i] = thread_list[j] => i = j
          /\ \A g, f \in Vivos : hilo[g].numero = hilo[f].numero => g = f
          /\ \A g \in Remueven :
               /\ \E i \in hilo[g].i .. hilo[g].dimension : thread_list[i] = g
               /\ hilo[g].en = "saca" => thread_list[hilo[g].i] = g
      BY DEF LInv, Exacta
    <2>2. \A g \in Vivos : g \in Hilos
      BY DEF Vivos
    <2>3. \A g \in Hilos : hilo'[g].en \in EnLista <=> EstaEn(g)
      BY <1>4, <2>1
    <2>4. ASSUME NEW g \in Vivos', NEW f \in Vivos', hilo'[g].numero = hilo'[f].numero
          PROVE  g = f
      <3>1. g \in Vivos /\ f \in Vivos
        BY <1>3
      <3>2. hilo[g].numero = hilo[f].numero
        BY <3>1, <2>2, <2>4, <1>3
      <3>3. \A x, y \in Vivos : hilo[x].numero = hilo[y].numero => x = y
        BY <2>1
      <3> QED BY <3>1, <3>2, <3>3
    <2>5. ASSUME NEW g \in Remueven'
          PROVE  /\ \E i \in hilo'[g].i .. hilo'[g].dimension : thread_list[i] = g
                 /\ hilo'[g].en = "saca" => thread_list[hilo'[g].i] = g
      <3>1. g \in Remueven /\ hilo'[g] = hilo[g]
        BY <1>1, <1>2
      <3> QED BY <3>1, <2>1
    <2> QED BY <2>1, <2>3, <2>4, <2>5
  <1>7. CaidaPorLaLista'
    BY DEF LInv, CaidaPorLaLista
  <1> QED BY <1>5, <1>6, <1>7 DEF LInv

\* A thread that is not in the list begins, or ends
LEMMA HiloDeAfuera ==
  ASSUME LInv, NEW h \in Hilos, Corre(h), thread_list' = thread_list, consola' = consola,
         rarezas \subseteq rarezas', principal' = principal,
         hilo[h].en \in {"libre", "espera_pid"},
         hilo'[h].en \in {"espera_pid", "fin"},
         hilo'[h].en = "espera_pid" =>
           Sucede("numero repetido")' \/ \A g \in Vivos : hilo[g].numero # hilo'[h].numero
  PROVE  LInv'
  <1>1. Remueven' = Remueven /\ h \notin Remueven
    BY DEF Corre, Remueven
  <1>2. \A g \in Remueven : hilo'[g] = hilo[g]
    BY <1>1 DEF Corre, Remueven
  <1>4. \A g \in Hilos : (hilo'[g].en \in EnLista) <=> (hilo[g].en \in EnLista)
    BY DEF Corre, EnLista
  <1>5. DeAUno'
    BY <1>1, <1>2 DEF LInv, DeAUno, Sucede
  <1>6. Exacta'
    <2> SUFFICES ASSUME consola = "viva", ~Sucede("a la vez"), ~Sucede("numero repetido"),
                        ~Sucede("numero repetido")'
                 PROVE  /\ \A g \in Hilos : hilo'[g].en \in EnLista <=> EstaEn(g)
                        /\ \A i, j \in DOMAIN thread_list :
                             thread_list[i] = thread_list[j] => i = j
                        /\ \A g, f \in Vivos' : hilo'[g].numero = hilo'[f].numero => g = f
                        /\ \A g \in Remueven' :
                             /\ \E i \in hilo'[g].i .. hilo'[g].dimension : thread_list[i] = g
                             /\ hilo'[g].en = "saca" => thread_list[hilo'[g].i] = g
      BY DEF Exacta, Sucede, EstaEn
    <2>1. /\ \A g \in Hilos : hilo[g].en \in EnLista <=> EstaEn(g)
          /\ \A i, j \in DOMAIN thread_list : thread_list[i] = thread_list[j] => i = j
          /\ \A g, f \in Vivos : hilo[g].numero = hilo[f].numero => g = f
          /\ \A g \in Remueven :
               /\ \E i \in hilo[g].i .. hilo[g].dimension : thread_list[i] = g
               /\ hilo[g].en = "saca" => thread_list[hilo[g].i] = g
      BY DEF LInv, Exacta
    <2>2. \A g \in Vivos' : g # h => g \in Vivos /\ hilo'[g].numero = hilo[g].numero
      BY DEF Corre, Vivos
    <2>3. h \in Vivos' => \A g \in Vivos : hilo[g].numero # hilo'[h].numero
      BY DEF Vivos
    <2>4. ASSUME NEW g \in Vivos', NEW f \in Vivos', hilo'[g].numero = hilo'[f].numero
          PROVE  g = f
      <3>1. CASE g = h
        <4> SUFFICES ASSUME f # h
                     PROVE  FALSE
          BY <3>1
        <4>1. f \in Vivos /\ hilo[f].numero = hilo'[h].numero
          BY <2>2, <2>4, <3>1
        <4> QED BY <4>1, <2>3, <3>1
      <3>2. CASE f = h
        <4> SUFFICES ASSUME g # h
                     PROVE  FALSE
          BY <3>2
        <4>1. g \in Vivos /\ hilo[g].numero = hilo'[h].numero
          BY <2>2, <2>4, <3>2
        <4> QED BY <4>1, <2>3, <3>2
      <3>3. CASE g # h /\ f # h
        <4>1. g \in Vivos /\ f \in Vivos /\ hilo[g].numero = hilo[f].numero
          BY <2>2, <2>4, <3>3
        <4> QED BY <4>1, <2>1
      <3> QED BY <3>1, <3>2, <3>3
    <2> QED BY <1>1, <1>2, <1>4, <2>1, <2>4
  <1>7. CaidaPorLaLista'
    BY DEF LInv, CaidaPorLaLista
  <1> QED BY <1>5, <1>6, <1>7 DEF LInv

LEMMA UnoMas ==
  ASSUME NEW n \in Nat
  PROVE  /\ 1 .. n + 1 = 1 .. n \cup {n + 1} /\ n + 1 \notin 1 .. n
         /\ \A x \in Nat : x <= n => x <= n + 1
  OBVIOUS

LEMMA EntreDos ==
  ASSUME NEW n \in Nat, NEW d \in Nat, NEW a \in 1 .. d, d <= n, NEW i \in a .. d
  PROVE  i \in 1 .. n /\ a \in 1 .. n
  OBVIOUS

LEMMA RarezaSuma ==
  ASSUME NEW nombre, NEW cuando, Rareza(nombre, cuando)
  PROVE  rarezas \subseteq rarezas' /\ (cuando => nombre \in rarezas')
  BY DEF Rareza

LEMMA iniciar_programaL ==
  ASSUME TInv, LInv, NEW h \in Hilos, iniciar_programa(h)
  PROVE  LInv'
  <1>1. /\ Corre(h) /\ hilo'[h].en \in {"espera_pid", "fin"} /\ hilo[h].en = "libre"
        /\ hilo'[h].en = "espera_pid" => hilo'[h].numero = NumeroNuevo
    BY iniciar_programaHace
  <1>2. /\ thread_list' = thread_list /\ consola' = consola /\ principal' = principal
        /\ Rareza("numero repetido", \E g \in Vivos : hilo[g].numero = NumeroNuevo)
    BY DEF iniciar_programa, DeLaConsola
  <1>3. /\ rarezas \subseteq rarezas'
        /\ (\E g \in Vivos : hilo[g].numero = NumeroNuevo) => Sucede("numero repetido")'
    BY <1>2, RarezaSuma DEF Sucede
  <1> QED BY <1>1, <1>2, <1>3, HiloDeAfuera

\* A thread with its pid is put at the end of the list
LEMMA RecibirPidL ==
  ASSUME TInv, LInv, NEW h \in Hilos, RecibirPid(h)
  PROVE  LInv'
  <1>0. /\ hilo \in [Hilos -> DelHilo] /\ thread_list \in Seq(Hilos) /\ K
    BY TodoIgual DEF TInv, ListaTipos
  <1>1. Recibe(h) /\ hilo[h].en = "espera_pid"
    BY DEF RecibirPid
  <1>r. consola = "viva" /\ consola' = consola /\ principal' = principal /\ rarezas' = rarezas
    BY <1>0, <1>1, RecibeHace
  <1>2. CASE Deja(h) /\ Cierra(h) /\ UNCHANGED thread_list
    <2>1. Corre(h) /\ hilo'[h].en = "fin"
      BY <1>0, <1>2, DejaHace
    <2> QED BY <2>1, <1>1, <1>2, <1>r, HiloDeAfuera
  <1>3. CASE /\ hilo' = [hilo EXCEPT ![h].en = "recibe", ![h].pid = Head(kernel.canal[h])]
             /\ thread_list' = Append(thread_list, h)
    <2>s. PICK s : s = thread_list
      OBVIOUS
    <2>n. PICK n : n = Len(s)
      OBVIOUS
    <2>t. PICK t : t = Append(s, h)
      OBVIOUS
    <2>1. /\ s \in Seq(Hilos) /\ n \in Nat /\ DOMAIN s = 1 .. n
          /\ t \in Seq(Hilos) /\ DOMAIN t = 1 .. n + 1 /\ Len(t) = n + 1
          /\ \A j \in 1 .. n : t[j] = s[j]
          /\ t[n + 1] = h /\ thread_list' = t
      BY <2>s, <2>n, <2>t, <1>0, <1>3, AppendProperties
    <2>2. /\ \A g \in Hilos : g # h => hilo'[g] = hilo[g]
          /\ hilo'[h].en = "recibe" /\ hilo'[h].numero = hilo[h].numero
      BY <1>0, <1>3 DEF DelHilo
    <2>3. Remueven' = Remueven /\ h \notin Remueven /\ \A g \in Remueven : hilo'[g] = hilo[g]
      BY <2>2, <1>1 DEF Remueven
    <2>4. Vivos' = Vivos /\ \A g \in Hilos : hilo'[g].numero = hilo[g].numero
      BY <2>2, <1>1 DEF Vivos
    <2>i. \A g \in Hilos : hilo[g].i \in Nat /\ hilo[g].dimension \in Nat
      BY <1>0 DEF DelHilo
    <2>5. DeAUno'
      <3> SUFFICES ASSUME ~Sucede("a la vez")
                   PROVE  /\ \A g, f \in Remueven : g = f
                          /\ principal.en = "dcon" =>
                               /\ Remueven = {} /\ principal.i \in 1 .. principal.dimension
                               /\ principal.dimension <= n + 1
                          /\ \A g \in Remueven : /\ hilo[g].i \in 1 .. hilo[g].dimension
                                                 /\ hilo[g].dimension <= n + 1
        BY <2>1, <2>3, <1>r DEF DeAUno, Sucede
      <3>1. /\ \A g, f \in Remueven : g = f
            /\ principal.en = "dcon" =>
                 /\ Remueven = {} /\ principal.i \in 1 .. principal.dimension
                 /\ principal.dimension <= n
            /\ \A g \in Remueven : /\ hilo[g].i \in 1 .. hilo[g].dimension
                                   /\ hilo[g].dimension <= n
        BY <1>r, <2>s, <2>n DEF LInv, DeAUno
      <3>2. principal.dimension \in Nat
        BY DEF TInv, ListaTipos
      <3>n. n \in Nat
        BY <2>1
      <3>3. \A x \in Nat : x <= n => x <= n + 1
        BY <3>n, UnoMas
      <3>4. \A g \in Remueven : g \in Hilos
        BY DEF Remueven
      <3> QED BY <3>1, <3>2, <3>3, <3>4, <2>i
    <2>6. Exacta'
      <3> SUFFICES ASSUME ~Sucede("a la vez"), ~Sucede("numero repetido")
                   PROVE  /\ \A g \in Hilos : hilo'[g].en \in EnLista <=>
                                              \E i \in 1 .. n + 1 : t[i] = g
                          /\ \A i, j \in 1 .. n + 1 : t[i] = t[j] => i = j
                          /\ \A g, f \in Vivos : hilo[g].numero = hilo[f].numero => g = f
                          /\ \A g \in Remueven :
                               /\ \E i \in hilo[g].i .. hilo[g].dimension : t[i] = g
                               /\ hilo[g].en = "saca" => t[hilo[g].i] = g
        BY ZenonT(40), <2>1, <2>3, <2>4, <1>r DEF Exacta, Sucede, EstaEn, Vivos
      <3>1. /\ \A g \in Hilos : hilo[g].en \in EnLista <=> \E i \in 1 .. n : s[i] = g
            /\ \A i, j \in 1 .. n : s[i] = s[j] => i = j
            /\ \A g, f \in Vivos : hilo[g].numero = hilo[f].numero => g = f
            /\ \A g \in Remueven :
                 /\ \E i \in hilo[g].i .. hilo[g].dimension : s[i] = g
                 /\ hilo[g].en = "saca" => s[hilo[g].i] = g
        BY <1>r, <2>1, <2>s DEF LInv, Exacta, EstaEn
      <3>2. \A g \in Remueven : hilo[g].i \in 1 .. hilo[g].dimension /\ hilo[g].dimension <= n
        BY <1>r, <2>s, <2>n DEF LInv, DeAUno
      <3>3. \A i \in 1 .. n : s[i] # h
        BY <3>1, <1>1 DEF EnLista
      <3>n. n \in Nat
        BY <2>1
      <3>4. 1 .. n + 1 = 1 .. n \cup {n + 1} /\ n + 1 \notin 1 .. n
        BY <3>n, UnoMas
      <3>5. \A g \in Hilos : hilo'[g].en \in EnLista <=> \E i \in 1 .. n + 1 : t[i] = g
        <4> SUFFICES ASSUME NEW g \in Hilos
                     PROVE  hilo'[g].en \in EnLista <=> \E i \in 1 .. n + 1 : t[i] = g
          OBVIOUS
        <4>1. CASE g = h
          BY <4>1, <2>1, <2>2, <3>4 DEF EnLista
        <4>2. CASE g # h
          <5>1. hilo'[g].en \in EnLista <=> \E i \in 1 .. n : s[i] = g
            BY <4>2, <2>2, <3>1
          <5> QED BY <5>1, <4>2, <2>1, <3>4
        <4> QED BY <4>1, <4>2
      <3>6. \A i, j \in 1 .. n + 1 : t[i] = t[j] => i = j
        <4>1. \A i \in 1 .. n : t[i] = s[i] /\ t[i] # h
          BY <2>1, <3>3
        <4>2. t[n + 1] = h
          BY <2>1
        <4> SUFFICES ASSUME NEW i \in 1 .. n + 1, NEW j \in 1 .. n + 1, t[i] = t[j]
                     PROVE  i = j
          OBVIOUS
        <4>3. (i \in 1 .. n \/ i = n + 1) /\ (j \in 1 .. n \/ j = n + 1)
          BY <3>4
        <4>4. CASE i \in 1 .. n /\ j \in 1 .. n
          <5>1. s[i] = s[j]
            BY <4>1, <4>4
          <5>2. \A x, y \in 1 .. n : s[x] = s[y] => x = y
            BY <3>1
          <5> QED BY <5>1, <5>2, <4>4
        <4>5. CASE i = n + 1 /\ j = n + 1
          BY <4>5
        <4>6. CASE i \in 1 .. n /\ j = n + 1
          <5>1. t[i] # h /\ t[j] = h
            BY <4>1, <4>2, <4>6
          <5> QED BY <5>1
        <4>7. CASE i = n + 1 /\ j \in 1 .. n
          <5>1. t[j] # h /\ t[i] = h
            BY <4>1, <4>2, <4>7
          <5> QED BY <5>1
        <4> QED BY <4>3, <4>4, <4>5, <4>6, <4>7
      <3>7. ASSUME NEW g \in Remueven
            PROVE  /\ \E i \in hilo[g].i .. hilo[g].dimension : t[i] = g
                   /\ hilo[g].en = "saca" => t[hilo[g].i] = g
        <4>1. PICK i \in hilo[g].i .. hilo[g].dimension : s[i] = g
          BY <3>1
        <4>2. g \in Hilos
          BY DEF Remueven
        <4>3. i \in 1 .. n /\ hilo[g].i \in 1 .. n
          <5>a. PICK a : a = hilo[g].i
            OBVIOUS
          <5>d. PICK d : d = hilo[g].dimension
            OBVIOUS
          <5>1. a \in Nat /\ d \in Nat /\ a \in 1 .. d /\ d <= n /\ n \in Nat /\ i \in a .. d
            BY <5>a, <5>d, <4>1, <4>2, <3>2, <2>i, <2>1
          <5>2. i \in 1 .. n /\ a \in 1 .. n
            BY <5>1, EntreDos
          <5> QED BY <5>2, <5>a
        <4> QED BY <4>1, <4>3, <2>1, <3>1
      <3> QED BY <3>1, <3>5, <3>6, <3>7
    <2>7. CaidaPorLaLista'
      BY <1>r DEF LInv, CaidaPorLaLista
    <2> QED BY <2>5, <2>6, <2>7 DEF LInv
  <1> QED BY <1>2, <1>3 DEF RecibirPid

LEMMA CaenL ==
  ASSUME LInv, TInv, NEW como \in {"caida", "salio"}, Caen(como),
         como = "caida" => Sucede("a la vez")
  PROVE  LInv'
  <1>1. consola' = como /\ rarezas' = rarezas
    BY DEF Caen
  <1>2. DeAUno' /\ Exacta'
    BY <1>1 DEF DeAUno, Exacta
  <1>3. CaidaPorLaLista'
    BY <1>1 DEF CaidaPorLaLista, Sucede
  <1> QED BY <1>2, <1>3 DEF LInv

\* A thread that walked the list, or was about to, ends
LEMMA SaleSinSacar ==
  ASSUME LInv, NEW h \in Hilos, Corre(h), hilo'[h].en = "fin",
         thread_list' = thread_list, consola' = consola, rarezas \subseteq rarezas',
         principal' = principal,
         consola = "viva" => Sucede("a la vez") \/ Sucede("numero repetido")
  PROVE  LInv'
  <1>1. \A g \in Remueven' : g \in Remueven /\ g # h /\ hilo'[g] = hilo[g]
    BY DEF Corre, Remueven
  <1>2. DeAUno'
    <2> SUFFICES ASSUME consola = "viva", ~Sucede("a la vez")
                 PROVE  /\ \A g, f \in Remueven' : g = f
                        /\ principal.en = "dcon" =>
                             /\ Remueven' = {} /\ principal.i \in 1 .. principal.dimension
                             /\ principal.dimension <= Len(thread_list)
                        /\ \A g \in Remueven' : /\ hilo'[g].i \in 1 .. hilo'[g].dimension
                                                /\ hilo'[g].dimension <= Len(thread_list)
      BY DEF DeAUno, Sucede
    <2>1. /\ \A g, f \in Remueven : g = f
          /\ principal.en = "dcon" =>
               /\ Remueven = {} /\ principal.i \in 1 .. principal.dimension
               /\ principal.dimension <= Len(thread_list)
          /\ \A g \in Remueven : /\ hilo[g].i \in 1 .. hilo[g].dimension
                                 /\ hilo[g].dimension <= Len(thread_list)
      BY DEF LInv, DeAUno
    <2>2. principal.en = "dcon" => Remueven' = {}
      BY <1>1, <2>1
    <2>3. \A g, f \in Remueven' : g = f
      BY <1>1, <2>1
    <2>4. \A g \in Remueven' : /\ hilo'[g].i \in 1 .. hilo'[g].dimension
                               /\ hilo'[g].dimension <= Len(thread_list)
      BY <1>1, <2>1
    <2> QED BY <2>1, <2>2, <2>3, <2>4
  <1>3. Exacta'
    BY DEF Exacta, Sucede
  <1>4. CaidaPorLaLista'
    BY DEF LInv, CaidaPorLaLista
  <1> QED BY <1>2, <1>3, <1>4 DEF LInv

LEMMA NoVacia ==
  ASSUME NEW S, NEW s \in Seq(S), s # <<>>
  PROVE  Len(s) \in Nat /\ 1 \in 1 .. Len(s)
  OBVIOUS

\* The walk begins, or goes on to a position i of the list
LEMMA Camina ==
  ASSUME TInv, LInv, NEW h \in Hilos, Corre(h), thread_list' = thread_list,
         consola' = consola, principal' = principal, rarezas \subseteq rarezas',
         hilo[h].en \in {"remueve", "mira"}, hilo'[h].en \in {"mira", "saca"},
         hilo'[h].numero = hilo[h].numero,
         \* Alone, and between the bounds
         ~Sucede("a la vez")' =>
           /\ \A g \in Remueven : g = h
           /\ principal.en # "dcon"
           /\ hilo'[h].i \in 1 .. hilo'[h].dimension
           /\ hilo'[h].dimension <= Len(thread_list),
         \* Its place is ahead
         consola = "viva" /\ ~Sucede("a la vez")' /\ ~Sucede("numero repetido")' =>
           /\ \E i \in hilo'[h].i .. hilo'[h].dimension : thread_list[i] = h
           /\ hilo'[h].en = "saca" => thread_list[hilo'[h].i] = h
  PROVE  LInv'
  <1>1. \A g \in Remueven' : g = h \/ g \in Remueven
    BY DEF Corre, Remueven
  <1>2. DeAUno'
    BY <1>1 DEF DeAUno, Sucede
  <1>3. Exacta'
    <2> SUFFICES ASSUME consola = "viva", ~Sucede("a la vez"), ~Sucede("numero repetido"),
                        ~Sucede("a la vez")', ~Sucede("numero repetido")'
                 PROVE  /\ \A g \in Hilos : hilo'[g].en \in EnLista <=> EstaEn(g)
                        /\ \A i, j \in DOMAIN thread_list :
                             thread_list[i] = thread_list[j] => i = j
                        /\ \A g, f \in Vivos' : hilo'[g].numero = hilo'[f].numero => g = f
                        /\ \A g \in Remueven' :
                             /\ \E i \in hilo'[g].i .. hilo'[g].dimension : thread_list[i] = g
                             /\ hilo'[g].en = "saca" => thread_list[hilo'[g].i] = g
      BY ZenonT(40) DEF Exacta, Sucede, EstaEn
    <2>1. /\ \A g \in Hilos : hilo[g].en \in EnLista <=> EstaEn(g)
          /\ \A i, j \in DOMAIN thread_list : thread_list[i] = thread_list[j] => i = j
          /\ \A g, f \in Vivos : hilo[g].numero = hilo[f].numero => g = f
      BY DEF LInv, Exacta
    <2>2. \A g \in Hilos : (hilo'[g].en \in EnLista) <=> (hilo[g].en \in EnLista)
      BY DEF Corre, EnLista
    <2>3. \A g \in Hilos : hilo'[g].en \in EnLista <=> EstaEn(g)
      BY <2>1, <2>2
    <2>4. Vivos' = Vivos /\ \A g \in Hilos : hilo'[g].numero = hilo[g].numero
      BY DEF Corre, Vivos
    <2>5. ASSUME NEW g \in Vivos', NEW f \in Vivos', hilo'[g].numero = hilo'[f].numero
          PROVE  g = f
      <3>1. g \in Vivos /\ f \in Vivos /\ g \in Hilos /\ f \in Hilos
        BY <2>4 DEF Vivos
      <3>2. hilo[g].numero = hilo[f].numero
        BY <3>1, <2>5, <2>4
      <3>3. \A x, y \in Vivos : hilo[x].numero = hilo[y].numero => x = y
        BY <2>1
      <3> QED BY <3>1, <3>2, <3>3
    <2>6. \A g \in Remueven' : g = h
      BY <1>1
    <2> QED BY <2>1, <2>3, <2>5, <2>6
  <1>4. CaidaPorLaLista'
    BY DEF LInv, CaidaPorLaLista
  <1> QED BY <1>2, <1>3, <1>4 DEF LInv

LEMMA TomarDimensionL ==
  ASSUME TInv, LInv, NEW h \in Hilos, TomarDimension(h)
  PROVE  LInv'
  <1>0. /\ hilo \in [Hilos -> DelHilo] /\ thread_list \in Seq(Hilos) /\ K /\ AvisadosBien
    BY TodoIgual DEF TInv, ListaTipos
  <1>1. /\ hilo[h].en = "remueve" /\ consola = "viva" /\ consola' = consola
        /\ principal' = principal /\ thread_list' = thread_list /\ alKernel' = alKernel
        /\ IF thread_list = <<>> THEN Cerrar(h) ELSE Mira(h, 1)
        /\ Rareza("a la vez", Remueven # {} \/ principal.en = "dcon")
    BY DEF TomarDimension, PasoEnLista
  <1>2. /\ rarezas \subseteq rarezas'
        /\ Remueven # {} \/ principal.en = "dcon" => Sucede("a la vez")'
    BY <1>1, RarezaSuma DEF Sucede
  <1>3. ~Sucede("a la vez") /\ ~Sucede("numero repetido") => EstaEn(h)
    BY <1>1 DEF LInv, Exacta, EnLista
  <1>4. CASE thread_list = <<>>
    <2>1. Corre(h) /\ hilo'[h].en = "fin"
      BY <1>0, <1>1, <1>4, CerrarHace
    <2>2. ~EstaEn(h)
      BY <1>4 DEF EstaEn
    <2> QED BY <2>1, <2>2, <1>1, <1>2, <1>3, SaleSinSacar
  <1>5. CASE thread_list # <<>>
    <2>1. /\ Corre(h) /\ hilo'[h].en = "mira" /\ hilo'[h].numero = hilo[h].numero
          /\ hilo'[h].i = 1 /\ hilo'[h].dimension = Len(thread_list)
      BY <1>0, <1>1, <1>5, MiraHace
    <2>2. Len(thread_list) \in Nat /\ 1 \in 1 .. Len(thread_list)
      BY <1>0, <1>5, NoVacia
    <2>3. ~Sucede("a la vez")' => ~Sucede("a la vez")
      BY <1>2 DEF Sucede
    <2>4. ~Sucede("numero repetido")' => ~Sucede("numero repetido")
      BY <1>2 DEF Sucede
    <2>5. ~Sucede("a la vez")' => /\ \A g \in Remueven : g = h
                                  /\ principal.en # "dcon"
                                  /\ hilo'[h].i \in 1 .. hilo'[h].dimension
                                  /\ hilo'[h].dimension <= Len(thread_list)
      <3>n. PICK n : n = Len(thread_list)
        OBVIOUS
      <3>i. PICK i : i = hilo'[h].i
        OBVIOUS
      <3>d. PICK d : d = hilo'[h].dimension
        OBVIOUS
      <3>1. n \in Nat /\ i \in 1 .. d /\ d <= n
        BY <3>n, <3>i, <3>d, <2>1, <2>2
      <3>2. ~Sucede("a la vez")' => Remueven = {} /\ principal.en # "dcon"
        BY <1>2
      <3> QED BY <3>n, <3>i, <3>d, <3>1, <3>2
    <2>6. EstaEn(h) => \E i \in hilo'[h].i .. hilo'[h].dimension : thread_list[i] = h
      <3>1. DOMAIN thread_list = 1 .. Len(thread_list)
        BY <1>0
      <3> QED BY <3>1, <2>1 DEF EstaEn
    <2> QED BY <1>1, <1>2, <1>3, <2>1, <2>3, <2>4, <2>5, <2>6, Camina
  <1> QED BY <1>4, <1>5

\* The types that the list needs
LEMMA DeLaLista ==
  ASSUME TInv
  PROVE  /\ hilo \in [Hilos -> DelHilo] /\ thread_list \in Seq(Hilos)
         /\ Len(thread_list) \in Nat /\ DOMAIN thread_list = 1 .. Len(thread_list)
         /\ \A i \in 1 .. Len(thread_list) : thread_list[i] \in Hilos
         /\ \A h \in Hilos : hilo[h].i \in Nat /\ hilo[h].dimension \in Nat
         /\ principal.i \in Nat /\ principal.dimension \in Nat
         /\ K /\ AvisadosBien /\ ListaTipos
  <1>1. K /\ AvisadosBien /\ ListaTipos
    BY DEF TInv
  <1>2. hilo \in [Hilos -> DelHilo]
    BY <1>1, TodoIgual
  <1>3. thread_list \in Seq(Hilos) /\ principal.i \in Nat /\ principal.dimension \in Nat
    BY <1>1 DEF ListaTipos
  <1>4. /\ Len(thread_list) \in Nat /\ DOMAIN thread_list = 1 .. Len(thread_list)
        /\ \A i \in 1 .. Len(thread_list) : thread_list[i] \in Hilos
    BY <1>3
  <1>5. \A h \in Hilos : hilo[h].i \in Nat /\ hilo[h].dimension \in Nat
    BY <1>2 DEF DelHilo
  <1> QED BY <1>1, <1>2, <1>3, <1>4, <1>5

\* What the number of an element of the list says
LEMMA CoincideElSuyo ==
  ASSUME TInv, LInv, NEW h \in Hilos, NEW i \in 1 .. Len(thread_list),
         consola = "viva", ~Sucede("a la vez"), ~Sucede("numero repetido"),
         hilo[h].en = "mira"
  PROVE  /\ TRUE \in Coincide(thread_list[i], h) => thread_list[i] = h
         /\ FALSE \in Coincide(thread_list[i], h) => thread_list[i] # h
  <1>g. PICK g : g = thread_list[i]
    OBVIOUS
  <1>1. /\ DOMAIN thread_list = 1 .. Len(thread_list)
        /\ \A j \in 1 .. Len(thread_list) : thread_list[j] \in Hilos
    BY DeLaLista
  <1>2. g \in Hilos /\ EstaEn(g)
    BY <1>g, <1>1 DEF EstaEn
  <1>3. /\ \A x \in Hilos : hilo[x].en \in EnLista <=> EstaEn(x)
        /\ \A x, y \in Vivos : hilo[x].numero = hilo[y].numero => x = y
    BY DEF LInv, Exacta
  <1>4. hilo[g].en \in EnLista
    BY <1>2, <1>3
  <1>5. g \in Vivos /\ h \in Vivos /\ hilo[g].en # "fin"
    BY <1>2, <1>4 DEF Vivos, EnLista
  <1>6. Coincide(g, h) = {hilo[g].numero = hilo[h].numero}
    BY <1>5 DEF Coincide
  <1>7. TRUE \in Coincide(g, h) => hilo[g].numero = hilo[h].numero
    BY <1>6
  <1>8. FALSE \in Coincide(g, h) => hilo[g].numero # hilo[h].numero
    BY <1>6
  <1>9. TRUE \in Coincide(g, h) => g = h
    BY <1>3, <1>5, <1>7
  <1>10. FALSE \in Coincide(g, h) => g # h
    BY <1>8
  <1> QED BY <1>g, <1>9, <1>10

LEMMA SinoElUltimo ==
  ASSUME NEW d \in Nat, NEW a \in 1 .. d
  PROVE  /\ a # d => a + 1 \in 1 .. d
         /\ \A x \in a .. d : x # a => x \in a + 1 .. d
         /\ a \in a .. d
         /\ a + 1 \in Nat
  OBVIOUS

LEMMA UnoSolo ==
  ASSUME NEW i \in Nat
  PROVE  \A y \in i .. i : y = i
  OBVIOUS

LEMMA HastaElFinal ==
  ASSUME NEW n \in Nat, NEW i \in 1 .. n
  PROVE  i <= n
  OBVIOUS

LEMMA NoSePasa ==
  ASSUME NEW n \in Nat, NEW d \in Nat, NEW a \in 1 .. d, d <= n
  PROVE  ~(a > n) /\ a \in 1 .. n
  OBVIOUS

\* What DeAUno and Exacta say of the thread that walks
LEMMA QuienMira ==
  ASSUME TInv, LInv, NEW h \in Hilos, hilo[h].en \in {"mira", "saca"},
         consola = "viva", ~Sucede("a la vez")
  PROVE  /\ Remueven = {h} /\ principal.en # "dcon"
         /\ hilo[h].dimension \in Nat /\ hilo[h].i \in 1 .. hilo[h].dimension
         /\ hilo[h].dimension <= Len(thread_list)
         /\ hilo[h].i \in 1 .. Len(thread_list) /\ ~(hilo[h].i > Len(thread_list))
         /\ ~Sucede("numero repetido") =>
              /\ \E i \in hilo[h].i .. hilo[h].dimension : thread_list[i] = h
              /\ hilo[h].en = "saca" => thread_list[hilo[h].i] = h
  <1>1. h \in Remueven
    BY DEF Remueven
  <1>2. /\ \A g, f \in Remueven : g = f
        /\ principal.en = "dcon" => Remueven = {}
        /\ \A g \in Remueven : /\ hilo[g].i \in 1 .. hilo[g].dimension
                               /\ hilo[g].dimension <= Len(thread_list)
    BY DEF LInv, DeAUno
  <1>n. PICK n : n = Len(thread_list)
    OBVIOUS
  <1>i. PICK i : i = hilo[h].i
    OBVIOUS
  <1>d. PICK d : d = hilo[h].dimension
    OBVIOUS
  <1>3. n \in Nat /\ d \in Nat
    BY <1>n, <1>d, DeLaLista
  <1>4. i \in 1 .. d /\ d <= n
    BY <1>1, <1>2, <1>n, <1>i, <1>d
  <1>5. ~(i > n) /\ i \in 1 .. n
    BY <1>3, <1>4, NoSePasa
  <1>6. Remueven = {h} /\ principal.en # "dcon"
    BY <1>1, <1>2
  <1>7. ~Sucede("numero repetido") =>
          /\ \E j \in hilo[h].i .. hilo[h].dimension : thread_list[j] = h
          /\ hilo[h].en = "saca" => thread_list[hilo[h].i] = h
    BY <1>1 DEF LInv, Exacta
  <1> QED BY <1>n, <1>i, <1>d, <1>3, <1>4, <1>5, <1>6, <1>7

LEMMA MirarEntradaL ==
  ASSUME TInv, LInv, NEW h \in Hilos, MirarEntrada(h)
  PROVE  LInv'
  <1>i. PICK i : i = hilo[h].i
    OBVIOUS
  <1>d. PICK d : d = hilo[h].dimension
    OBVIOUS
  <1>0. /\ hilo \in [Hilos -> DelHilo] /\ thread_list \in Seq(Hilos) /\ K /\ AvisadosBien
        /\ i \in Nat /\ d \in Nat
    BY <1>i, <1>d, DeLaLista
  <1>1. hilo[h].en = "mira" /\ consola = "viva"
    BY DEF MirarEntrada
  <1>2. ~Sucede("a la vez") => /\ i \in 1 .. d /\ d <= Len(thread_list) /\ ~(i > Len(thread_list))
                               /\ Remueven = {h} /\ principal.en # "dcon"
                               /\ i \in 1 .. Len(thread_list)
    BY <1>1, <1>i, <1>d, QuienMira
  <1>3. ~Sucede("a la vez") /\ ~Sucede("numero repetido") =>
          \E x \in i .. d : thread_list[x] = h
    BY <1>1, <1>i, <1>d, QuienMira
  <1>4. ~Sucede("a la vez") /\ ~Sucede("numero repetido") =>
          /\ TRUE \in Coincide(thread_list[i], h) => thread_list[i] = h
          /\ FALSE \in Coincide(thread_list[i], h) => thread_list[i] # h
    BY <1>1, <1>2, CoincideElSuyo
  <1>5. CASE i > Len(thread_list) /\ Caen("caida")
    <2>1. Sucede("a la vez")
      BY <1>2, <1>5
    <2> QED BY <2>1, <1>5, CaenL
  <1>6. CASE /\ i <= Len(thread_list) /\ PasoEnLista
             /\ TRUE \in Coincide(thread_list[i], h)
             /\ Va(h, "saca") /\ UNCHANGED <<conexion, kernel>>
             /\ UNCHANGED <<thread_list, rarezas>>
    <2>1. /\ Corre(h) /\ hilo'[h].en = "saca" /\ hilo'[h].numero = hilo[h].numero
          /\ hilo'[h].i = i /\ hilo'[h].dimension = d
      BY <1>0, <1>6, <1>i, <1>d, VaHace DEF Lugares
    <2>2. /\ consola' = consola /\ principal' = principal /\ thread_list' = thread_list
          /\ rarezas' = rarezas
      BY <1>6 DEF PasoEnLista
    <2>3. ~Sucede("a la vez")' => ~Sucede("a la vez")
      BY <2>2 DEF Sucede
    <2>4. ~Sucede("numero repetido")' => ~Sucede("numero repetido")
      BY <2>2 DEF Sucede
    <2>5. ~Sucede("a la vez")' => /\ \A g \in Remueven : g = h
                                  /\ principal.en # "dcon"
                                  /\ hilo'[h].i \in 1 .. hilo'[h].dimension
                                  /\ hilo'[h].dimension <= Len(thread_list)
      BY <1>2, <2>1, <2>3
    <2>6. ~Sucede("a la vez")' /\ ~Sucede("numero repetido")' =>
            /\ \E x \in hilo'[h].i .. hilo'[h].dimension : thread_list[x] = h
            /\ thread_list[hilo'[h].i] = h
      BY <1>3, <1>4, <1>6, <2>1, <2>3, <2>4
    <2> QED BY <1>1, <2>1, <2>2, <2>5, <2>6, Camina
  <1>7. CASE /\ i <= Len(thread_list) /\ PasoEnLista
             /\ FALSE \in Coincide(thread_list[i], h)
             /\ i = d /\ Cerrar(h)
             /\ UNCHANGED <<thread_list, rarezas>>
    <2>1. /\ consola' = consola /\ principal' = principal /\ thread_list' = thread_list
          /\ rarezas' = rarezas /\ alKernel' = alKernel
      BY <1>7 DEF PasoEnLista
    <2>2. Corre(h) /\ hilo'[h].en = "fin"
      BY <1>0, <1>7, <2>1, CerrarHace
    <2>3. Sucede("a la vez") \/ Sucede("numero repetido")
      <3> SUFFICES ASSUME ~Sucede("a la vez"), ~Sucede("numero repetido")
                   PROVE  FALSE
        OBVIOUS
      <3>1. PICK x \in i .. d : thread_list[x] = h
        BY <1>3
      <3>2. x = i
        <4>1. i = d
          BY <1>7
        <4>2. i \in Nat
          BY <1>0
        <4>3. \A y \in i .. i : y = i
          BY <4>2, UnoSolo
        <4> QED BY <3>1, <4>1, <4>3
      <3> QED BY <3>1, <3>2, <1>4, <1>7
    <2> QED BY <2>1, <2>2, <2>3, SaleSinSacar
  <1>8. CASE /\ i <= Len(thread_list) /\ PasoEnLista
             /\ FALSE \in Coincide(thread_list[i], h)
             /\ i # d /\ Mira(h, i + 1)
             /\ UNCHANGED <<thread_list, rarezas>>
    <2>0. i + 1 \in Nat
      BY <1>0
    <2>1. /\ consola' = consola /\ principal' = principal /\ thread_list' = thread_list
          /\ rarezas' = rarezas
      BY <1>8 DEF PasoEnLista
    <2>j. PICK j : j = i + 1
      OBVIOUS
    <2>2. /\ Corre(h) /\ hilo'[h].en = "mira" /\ hilo'[h].numero = hilo[h].numero
          /\ hilo'[h].i = j /\ hilo'[h].dimension = d
      BY <1>0, <1>1, <1>8, <1>d, <2>0, <2>j, MiraHace
    <2>3. ~Sucede("a la vez")' => ~Sucede("a la vez")
      BY <2>1 DEF Sucede
    <2>4. ~Sucede("numero repetido")' => ~Sucede("numero repetido")
      BY <2>1 DEF Sucede
    <2>5. i \in 1 .. d => j \in 1 .. d /\ \A x \in i .. d : x # i => x \in j .. d
      <3>1. CASE i \in 1 .. d
        <4>1. i + 1 \in 1 .. d /\ \A x \in i .. d : x # i => x \in i + 1 .. d
          BY <1>0, <1>8, <3>1, SinoElUltimo
        <4> QED BY <4>1, <2>j
      <3> QED BY <3>1
    <2>6. ~Sucede("a la vez")' => /\ \A g \in Remueven : g = h
                                  /\ principal.en # "dcon"
                                  /\ hilo'[h].i \in 1 .. hilo'[h].dimension
                                  /\ hilo'[h].dimension <= Len(thread_list)
      BY <1>2, <2>2, <2>3, <2>5
    <2>7. ~Sucede("a la vez")' /\ ~Sucede("numero repetido")' =>
            \E x \in j .. d : thread_list[x] = h
      <3> SUFFICES ASSUME ~Sucede("a la vez"), ~Sucede("numero repetido")
                   PROVE  \E x \in j .. d : thread_list[x] = h
        BY <2>3, <2>4
      <3>1. PICK x \in i .. d : thread_list[x] = h
        BY <1>3
      <3>2. x # i
        BY <3>1, <1>4, <1>8
      <3>3. x \in j .. d
        BY <3>2, <2>5, <1>2
      <3> QED BY <3>1, <3>3
    <2>8. ~Sucede("a la vez")' /\ ~Sucede("numero repetido")' =>
            /\ \E x \in hilo'[h].i .. hilo'[h].dimension : thread_list[x] = h
            /\ hilo'[h].en = "saca" => thread_list[hilo'[h].i] = h
      BY <2>2, <2>7
    <2> QED BY <1>1, <2>1, <2>2, <2>6, <2>8, Camina
  <1> QED BY <1>i, <1>d, <1>5, <1>6, <1>7, <1>8 DEF MirarEntrada

\* Taking an element out repeats none
LEMMA QuitarInyectiva ==
  ASSUME NEW S, NEW s \in Seq(S), NEW i \in DOMAIN s,
         \A j, m \in DOMAIN s : s[j] = s[m] => j = m
  PROVE  \A j, m \in DOMAIN RemoveAt(s, i) : RemoveAt(s, i)[j] = RemoveAt(s, i)[m] => j = m
  <1>n. PICK n : n = Len(s)
    OBVIOUS
  <1>t. PICK t : t = RemoveAt(s, i)
    OBVIOUS
  <1>0. n \in Nat /\ i \in 1 .. n /\ DOMAIN s = 1 .. n
    BY <1>n
  <1>1. /\ t \in Seq(S) /\ Len(t) = n - 1
        /\ \A j \in 1 .. i - 1 : t[j] = s[j]
        /\ \A j \in i .. n - 1 : t[j] = s[j + 1]
    BY <1>n, <1>t, Quitar
  <1>2. DOMAIN t = 1 .. n - 1
    BY <1>1
  <1>3. \A j \in 1 .. n - 1 :
          \/ j \in 1 .. i - 1 /\ j \in 1 .. n
          \/ j \in i .. n - 1 /\ j + 1 \in i + 1 .. n /\ j + 1 \in 1 .. n
    BY <1>0
  <1>4. \A j \in 1 .. n - 1 : \E x \in 1 .. n : t[j] = s[x] /\ x = IF j < i THEN j ELSE j + 1
    <2> SUFFICES ASSUME NEW j \in 1 .. n - 1
                 PROVE  \E x \in 1 .. n : t[j] = s[x] /\ x = IF j < i THEN j ELSE j + 1
      OBVIOUS
    <2>1. CASE j \in 1 .. i - 1
      <3>1. j < i /\ j \in 1 .. n
        BY <1>0, <2>1
      <3> QED BY <3>1, <2>1, <1>1
    <2>2. CASE j \in i .. n - 1
      <3>1. ~(j < i) /\ j + 1 \in 1 .. n
        BY <1>0, <2>2
      <3> QED BY <3>1, <2>2, <1>1
    <2> QED BY <2>1, <2>2, <1>3
  <1> SUFFICES ASSUME NEW j \in 1 .. n - 1, NEW m \in 1 .. n - 1, t[j] = t[m]
               PROVE  j = m
    BY <1>t, <1>2
  <1>5. PICK x \in 1 .. n : t[j] = s[x] /\ x = IF j < i THEN j ELSE j + 1
    BY <1>4
  <1>6. PICK y \in 1 .. n : t[m] = s[y] /\ y = IF m < i THEN m ELSE m + 1
    BY <1>4
  <1>7. s[x] = s[y]
    BY <1>5, <1>6
  <1>8. x = y
    BY <1>7, <1>0
  <1>9. x = IF j < i THEN j ELSE j + 1
    BY <1>5
  <1>10. x = IF m < i THEN m ELSE m + 1
    BY <1>6, <1>8
  <1> QED BY <1>0, <1>9, <1>10

LEMMA SacarEntradaL ==
  ASSUME TInv, LInv, NEW h \in Hilos, SacarEntrada(h)
  PROVE  LInv'
  <1>i. PICK i : i = hilo[h].i
    OBVIOUS
  <1>s. PICK s : s = thread_list
    OBVIOUS
  <1>t. PICK t : t = RemoveAt(s, i)
    OBVIOUS
  <1>0. /\ hilo \in [Hilos -> DelHilo] /\ K /\ AvisadosBien
        /\ s \in Seq(Hilos) /\ DOMAIN s = 1 .. Len(s) /\ Len(s) \in Nat
    BY <1>s, DeLaLista
  <1>1. /\ hilo[h].en = "saca" /\ consola = "viva" /\ consola' = consola
        /\ principal' = principal /\ alKernel' = alKernel /\ rarezas' = rarezas
        /\ thread_list' = IF i <= Len(s) THEN t ELSE s
        /\ Cerrar(h)
    BY <1>i, <1>s, <1>t DEF SacarEntrada, PasoEnLista
  <1>2. Corre(h) /\ hilo'[h].en = "fin"
    BY <1>0, <1>1, CerrarHace
  <1>3. \A g \in Hilos : g # h => hilo'[g] = hilo[g]
    BY <1>2 DEF Corre
  <1>4. ~Sucede("a la vez") => /\ Remueven = {h} /\ principal.en # "dcon"
                               /\ i \in 1 .. Len(s)
                               /\ ~Sucede("numero repetido") => s[i] = h
    BY <1>1, <1>i, <1>s, QuienMira
  <1>5. \A g \in Remueven' : g \in Remueven /\ g # h
    BY <1>2, <1>3 DEF Remueven
  <1>6. DeAUno'
    BY <1>1, <1>4, <1>5 DEF DeAUno, Sucede
  <1>7. Exacta'
    <2> SUFFICES ASSUME ~Sucede("a la vez"), ~Sucede("numero repetido")
                 PROVE  /\ \A g \in Hilos : hilo'[g].en \in EnLista <=> EstaEn(g)'
                        /\ \A j, m \in DOMAIN thread_list' :
                             thread_list'[j] = thread_list'[m] => j = m
                        /\ \A g, f \in Vivos' : hilo'[g].numero = hilo'[f].numero => g = f
                        /\ Remueven' = {}
      BY <1>1 DEF Exacta, Sucede
    <2>1. /\ \A g \in Hilos : hilo[g].en \in EnLista <=> \E j \in DOMAIN s : s[j] = g
          /\ \A j, m \in DOMAIN s : s[j] = s[m] => j = m
          /\ \A g, f \in Vivos : hilo[g].numero = hilo[f].numero => g = f
      BY <1>1, <1>s DEF LInv, Exacta, EstaEn
    <2>2. i \in DOMAIN s /\ i <= Len(s) /\ s[i] = h
      <3>1. i \in 1 .. Len(s) /\ s[i] = h
        BY <1>4
      <3>2. i \in DOMAIN s
        BY <3>1, <1>0
      <3>n. PICK n : n = Len(s)
        OBVIOUS
      <3>3. n \in Nat /\ i \in 1 .. n
        BY <3>n, <3>1, <1>0
      <3>4. i <= n
        BY <3>3, HastaElFinal
      <3> QED BY <3>1, <3>2, <3>4, <3>n
    <2>3. thread_list' = t
      BY <1>1, <2>2
    <2>4. /\ \A j \in DOMAIN t : \E m \in DOMAIN s : m # i /\ t[j] = s[m]
          /\ \A m \in DOMAIN s : m # i => \E j \in DOMAIN t : t[j] = s[m]
      BY <1>t, <1>0, <2>2, QuitarDeja
    <2>5. \A j, m \in DOMAIN t : t[j] = t[m] => j = m
      <3>1. s \in Seq(Hilos) /\ i \in DOMAIN s
        BY <1>0, <2>2
      <3>2. \A j, m \in DOMAIN s : s[j] = s[m] => j = m
        BY <2>1
      <3>3. \A j, m \in DOMAIN RemoveAt(s, i) : RemoveAt(s, i)[j] = RemoveAt(s, i)[m] => j = m
        BY <3>1, <3>2, QuitarInyectiva
      <3> QED BY <3>3, <1>t
    <2>6. \A g \in Hilos : hilo'[g].en \in EnLista <=> \E j \in DOMAIN t : t[j] = g
      <3> SUFFICES ASSUME NEW g \in Hilos
                   PROVE  hilo'[g].en \in EnLista <=> \E j \in DOMAIN t : t[j] = g
        OBVIOUS
      <3>1. CASE g = h
        <4>1. ASSUME NEW j \in DOMAIN t, t[j] = h
              PROVE  FALSE
          <5>1. PICK m \in DOMAIN s : m # i /\ t[j] = s[m]
            BY <2>4
          <5> QED BY <5>1, <4>1, <2>1, <2>2
        <4>2. hilo'[g].en \notin EnLista
          BY <1>2, <3>1 DEF EnLista
        <4> QED BY <4>1, <4>2, <3>1
      <3>2. CASE g # h
        <4>1. hilo'[g].en \in EnLista <=> \E j \in DOMAIN s : s[j] = g
          BY <3>2, <1>3, <2>1
        <4>2. ASSUME NEW j \in DOMAIN s, s[j] = g
              PROVE  \E m \in DOMAIN t : t[m] = g
          <5>1. j # i
            BY <4>2, <2>2, <3>2
          <5> QED BY <5>1, <4>2, <2>4
        <4>3. ASSUME NEW j \in DOMAIN t, t[j] = g
              PROVE  \E m \in DOMAIN s : s[m] = g
          BY <4>3, <2>4
        <4> QED BY <4>1, <4>2, <4>3
      <3> QED BY <3>1, <3>2
    <2>7. \A g \in Vivos' : g \in Vivos /\ hilo'[g] = hilo[g]
      BY <1>2, <1>3 DEF Vivos
    <2>8. ASSUME NEW g \in Vivos', NEW f \in Vivos', hilo'[g].numero = hilo'[f].numero
          PROVE  g = f
      <3>1. g \in Vivos /\ f \in Vivos /\ hilo[g].numero = hilo[f].numero
        BY <2>7, <2>8
      <3> QED BY <3>1, <2>1
    <2>9. Remueven' = {}
      BY <1>4, <1>5
    <2>10. \A g \in Hilos : hilo'[g].en \in EnLista <=> EstaEn(g)'
      BY <2>3, <2>6 DEF EstaEn
    <2>11. \A j, m \in DOMAIN thread_list' : thread_list'[j] = thread_list'[m] => j = m
      BY <2>3, <2>5
    <2> QED BY <2>8, <2>9, <2>10, <2>11
  <1>8. CaidaPorLaLista'
    BY <1>1 DEF LInv, CaidaPorLaLista
  <1> QED BY <1>6, <1>7, <1>8 DEF LInv

\* dcon, or exit, begins to walk the list
LEMMA desconectar_consolaL ==
  ASSUME TInv, LInv, NEW saliendo \in BOOLEAN, desconectar_consola(saliendo)
  PROVE  LInv'
  <1>n. PICK n : n = Len(thread_list)
    OBVIOUS
  <1>1. /\ principal' = [en |-> "dcon", i |-> 1, dimension |-> Len(thread_list),
                         sale |-> saliendo]
        /\ Rareza("a la vez", Remueven # {}) /\ thread_list # <<>>
        /\ consola' = consola /\ hilo' = hilo /\ thread_list' = thread_list
    BY DEF desconectar_consola
  <1>2. rarezas \subseteq rarezas' /\ (Remueven # {} => Sucede("a la vez")')
    BY <1>1, RarezaSuma DEF Sucede
  <1>3. principal'.en = "dcon" /\ principal'.i = 1 /\ principal'.dimension = n
    BY <1>1, <1>n
  <1>4. n \in Nat /\ 1 \in 1 .. n
    BY <1>1, <1>n, DeLaLista, NoVacia
  <1>5. n <= n
    BY <1>4
  <1>6. Remueven' = Remueven
    BY <1>1 DEF Remueven
  <1>7. ~Sucede("a la vez")' => ~Sucede("a la vez") /\ Remueven = {}
    BY <1>2 DEF Sucede
  <1>8. DeAUno'
    <2> SUFFICES ASSUME ~Sucede("a la vez")'
                 PROVE  /\ \A g, h \in Remueven' : g = h
                        /\ principal'.en = "dcon" =>
                             /\ Remueven' = {} /\ principal'.i \in 1 .. principal'.dimension
                             /\ principal'.dimension <= Len(thread_list')
                        /\ \A h \in Remueven' : /\ hilo'[h].i \in 1 .. hilo'[h].dimension
                                                /\ hilo'[h].dimension <= Len(thread_list')
      BY DEF DeAUno
    <2>1. Remueven' = {}
      BY <1>6, <1>7
    <2>2. principal'.i \in 1 .. principal'.dimension /\ principal'.dimension <= Len(thread_list')
      BY <1>1, <1>3, <1>4, <1>5, <1>n
    <2> QED BY <2>1, <2>2
  <1>9. Exacta'
    BY <1>1, <1>2 DEF LInv, Exacta, Remueven, Vivos, EstaEn, Sucede
  <1>10. CaidaPorLaLista'
    BY <1>1, <1>2 DEF LInv, CaidaPorLaLista
  <1> QED BY <1>8, <1>9, <1>10 DEF LInv

LEMMA DesconectarHiloL ==
  ASSUME TInv, LInv, DesconectarHilo
  PROVE  LInv'
  <1>i. PICK i : i = principal.i
    OBVIOUS
  <1>d. PICK d : d = principal.dimension
    OBVIOUS
  <1>n. PICK n : n = Len(thread_list)
    OBVIOUS
  <1>0. i \in Nat /\ d \in Nat /\ n \in Nat
    BY <1>i, <1>d, <1>n, DeLaLista
  <1>1. consola = "viva" /\ principal.en = "dcon"
    BY DEF DesconectarHilo
  <1>2. ~Sucede("a la vez") => Remueven = {} /\ i \in 1 .. d /\ d <= n
    BY <1>1, <1>i, <1>d, <1>n DEF LInv, DeAUno
  <1>3. CASE i > n /\ Caen("caida")
    <2>1. ~Sucede("a la vez") => ~(i > n)
      BY <1>0, <1>2, NoSePasa
    <2> QED BY <2>1, <1>3, CaenL
  <1>4. CASE Caen("salio")
    BY <1>4, CaenL
  <1>5. CASE /\ principal' = IF i = d THEN EnReposo("menu") ELSE [principal EXCEPT !.i = i + 1]
             /\ UNCHANGED <<consola, hilo, thread_list, alKernel, kernel, rarezas>>
    <2>1. consola' = consola /\ hilo' = hilo /\ thread_list' = thread_list /\ rarezas' = rarezas
      BY <1>5
    <2>2. CASE i = d
      <3>1. principal'.en # "dcon"
        BY <1>5, <2>2 DEF EnReposo
      <3> QED BY <3>1, <2>1, ListaQuieta
    <2>3. CASE i # d
      <3>j. PICK j : j = i + 1
        OBVIOUS
      <3>1. principal' = [principal EXCEPT !.i = j]
        BY <1>5, <2>3, <3>j
      <3>2. principal'.en = "dcon" /\ principal'.i = j /\ principal'.dimension = d
        BY <3>1, <1>1, <1>d DEF TInv, ListaTipos
      <3>3. i \in 1 .. d => j \in 1 .. d
        BY <1>0, <2>3, <3>j, SinoElUltimo
      <3>4. Remueven' = Remueven
        BY <2>1 DEF Remueven
      <3>5. DeAUno'
        <4> SUFFICES ASSUME ~Sucede("a la vez")
                     PROVE  /\ \A g, h \in Remueven' : g = h
                            /\ principal'.en = "dcon" =>
                                 /\ Remueven' = {} /\ principal'.i \in 1 .. principal'.dimension
                                 /\ principal'.dimension <= Len(thread_list')
                            /\ \A h \in Remueven' : /\ hilo'[h].i \in 1 .. hilo'[h].dimension
                                                    /\ hilo'[h].dimension <= Len(thread_list')
          BY <2>1 DEF DeAUno, Sucede
        <4>1. Remueven' = {} /\ j \in 1 .. d /\ d <= n
          BY <1>2, <3>3, <3>4
        <4> QED BY <4>1, <3>2, <2>1, <1>n
      <3>6. Exacta'
        BY <2>1 DEF LInv, Exacta, Remueven, Vivos, EstaEn, Sucede
      <3>7. CaidaPorLaLista'
        BY <2>1 DEF LInv, CaidaPorLaLista
      <3> QED BY <3>5, <3>6, <3>7 DEF LInv
    <2> QED BY <2>2, <2>3
  <1> QED BY <1>i, <1>d, <1>n, <1>3, <1>4, <1>5 DEF DesconectarHilo

\* The threads that read
LEMMA LeenL ==
  ASSUME TInv, LInv, NEW h \in Hilos,
         CodigoRecibido(h) \/ MensajeRecibido(h) \/ SinConexion(h)
  PROVE  LInv'
  <1>0. K /\ AvisadosBien /\ ListaTipos
    BY DEF TInv
  <1>1. /\ consola' = consola /\ principal' = principal /\ rarezas' = rarezas
    BY DEF CodigoRecibido, Recibe, MensajeRecibido, SinConexion, DeLaConsola
  <1>2. CASE CodigoRecibido(h)
    <2>1. /\ thread_list' = thread_list /\ Corre(h) /\ hilo[h].en = "recibe"
          /\ hilo'[h].en \in {"recibe", "lee_texto", "remueve"}
          /\ hilo'[h].numero = hilo[h].numero
      BY <1>0, <1>2, CodigoRecibidoHace
    <2> QED BY <1>1, <2>1, HiloQuieto DEF EnLista
  <1>3. CASE MensajeRecibido(h)
    <2>1. /\ thread_list' = thread_list /\ Corre(h) /\ hilo[h].en = "lee_texto"
          /\ hilo'[h].en = "recibe" /\ hilo'[h].numero = hilo[h].numero
      BY <1>0, <1>3, MensajeRecibidoHace
    <2> QED BY <1>1, <2>1, HiloQuieto DEF EnLista
  <1>4. CASE SinConexion(h)
    <2>1. /\ thread_list' = thread_list /\ Corre(h)
          /\ hilo[h].en \in {"recibe", "lee_texto"}
          /\ hilo'[h].en = "remueve" /\ hilo'[h].numero = hilo[h].numero
      BY <1>0, <1>4, SinConexionHace
    <2> QED BY <1>1, <2>1, HiloQuieto DEF EnLista
  <1> QED BY <1>2, <1>3, <1>4

LEMMA RarezasCrecen ==
  /\ \A c \in Conexiones : DeLaConexion(c) => DelKernel /\ rarezas \subseteq rarezas'
  /\ DeLosProcesos => DelKernel /\ rarezas \subseteq rarezas'
  <1>1. ASSUME NEW c \in Conexiones, DeLaConexion(c)
        PROVE  DelKernel /\ rarezas \subseteq rarezas'
    BY <1>1 DEF DeLaConexion, sock_accept_new_connection, Handshake, NuevoPrograma,
                EliminarProceso, Desconectar, SegundaMarca, Rareza
  <1>2. ASSUME DeLosProcesos
        PROVE  DelKernel /\ rarezas \subseteq rarezas'
    BY <1>2 DEF DeLosProcesos, AdmitirDeNew, Despachar, Imprimir, FinDeTurno, FinDeRafaga,
                Finalizado, Abortar, Rareza
  <1> QED BY <1>1, <1>2

LEMMA LInicial == Init => LInv
  <1> SUFFICES ASSUME Init
               PROVE  LInv
    OBVIOUS
  <1>1. /\ consola = "viva" /\ hilo = [h \in Hilos |-> Libre] /\ thread_list = <<>>
        /\ principal = EnReposo("menu")
    BY DEF Init
  <1>2. \A h \in Hilos : hilo[h].en = "libre"
    BY <1>1 DEF Libre
  <1>3. Remueven = {} /\ Vivos = {} /\ DOMAIN thread_list = {}
    BY <1>1, <1>2 DEF Remueven, Vivos
  <1>4. principal.en # "dcon"
    BY <1>1 DEF EnReposo
  <1>5. DeAUno
    BY <1>3, <1>4 DEF DeAUno
  <1>6. \A h \in Hilos : hilo[h].en \in EnLista <=> EstaEn(h)
    BY <1>2, <1>3 DEF EnLista, EstaEn
  <1>7. Exacta
    BY <1>3, <1>6 DEF Exacta
  <1>8. CaidaPorLaLista
    BY <1>1 DEF CaidaPorLaLista
  <1> QED BY <1>5, <1>7, <1>8 DEF LInv

LEMMA LPaso == TInv /\ LInv /\ [Next]_vars => LInv'
  <1> SUFFICES ASSUME TInv, LInv, [Next]_vars
               PROVE  LInv'
    OBVIOUS
  <1>1. ASSUME NEW c \in Conexiones, DeLaConexion(c)
        PROVE  LInv'
    BY <1>1, RarezasCrecen, ListaQuieta DEF DelKernel
  <1>2. CASE DeLosProcesos
    BY <1>2, RarezasCrecen, ListaQuieta DEF DelKernel
  <1>3. ASSUME NEW p \in Pids, finalizar_programa(p)
        PROVE  LInv'
    <2>1. /\ hilo' = hilo /\ thread_list' = thread_list /\ consola' = consola
          /\ rarezas' = rarezas /\ principal'.en # "dcon"
      BY <1>3 DEF finalizar_programa, EnReposo
    <2> QED BY <2>1, ListaQuieta
  <1>4. ASSUME NEW h \in Hilos, iniciar_programa(h)
        PROVE  LInv'
    BY <1>4, iniciar_programaL
  <1>5. ASSUME NEW h \in Hilos, Paso(h)
        PROVE  LInv'
    BY <1>5, RecibirPidL, LeenL, TomarDimensionL, MirarEntradaL, SacarEntradaL DEF Paso
  <1>6. CASE RecibirRespuesta
    <2>1. /\ hilo' = hilo /\ thread_list' = thread_list /\ consola' = consola
          /\ rarezas' = rarezas /\ principal'.en # "dcon"
      BY <1>6 DEF RecibirRespuesta, EnReposo
    <2> QED BY <2>1, ListaQuieta
  <1>7. CASE DesconectarHilo
    BY <1>7, DesconectarHiloL
  <1>8. CASE Salir
    BY <1>8, CaenL DEF Salir
  <1>9. ASSUME NEW saliendo \in BOOLEAN, desconectar_consola(saliendo)
        PROVE  LInv'
    BY <1>9, desconectar_consolaL
  <1>10. CASE UNCHANGED vars
    BY <1>10, ListaQuieta DEF vars
  <1> QED
    BY <1>1, <1>2, <1>3, <1>4, <1>5, <1>6, <1>7, <1>8, <1>9, <1>10
       DEF Next, DeLosProcesos, MainSigue

\* ListaSegura: what the user is shown, and what dcon and exit go by, is exactly the threads
\* that run a program, unless two were given one number or two walked the list at a time;
\* and nothing else than that second race makes remover_de_lista or desconectar_consola
\* follow a null element (Consola.c).
THEOREM LaListaEsSegura == Spec => []ListaSegura
  <1>1. TInv /\ LInv => ListaSegura
    <2> SUFFICES ASSUME TInv, LInv
                 PROVE  ListaSegura
      OBVIOUS
    <2>1. ListaExacta
      <3> SUFFICES ASSUME consola = "viva", ~Sucede("a la vez"), ~Sucede("numero repetido")
                   PROVE  /\ ToSet(thread_list) = {h \in Hilos : hilo[h].en \in EnLista}
                          /\ IsInjective(thread_list)
        BY DEF ListaExacta, Sucede
      <3>1. /\ \A h \in Hilos : hilo[h].en \in EnLista <=> EstaEn(h)
            /\ \A i, j \in DOMAIN thread_list : thread_list[i] = thread_list[j] => i = j
        BY DEF LInv, Exacta
      <3>2. \A i \in DOMAIN thread_list : thread_list[i] \in Hilos
        BY DeLaLista
      <3>3. ToSet(thread_list) = {h \in Hilos : hilo[h].en \in EnLista}
        <4>1. ASSUME NEW g \in ToSet(thread_list)
              PROVE  g \in Hilos /\ hilo[g].en \in EnLista
          <5>1. PICK i \in DOMAIN thread_list : thread_list[i] = g
            BY <4>1 DEF ToSet
          <5> QED BY <5>1, <3>1, <3>2 DEF EstaEn
        <4>2. ASSUME NEW g \in Hilos, hilo[g].en \in EnLista
              PROVE  g \in ToSet(thread_list)
          <5>1. PICK i \in DOMAIN thread_list : thread_list[i] = g
            BY <4>2, <3>1 DEF EstaEn
          <5> QED BY <5>1 DEF ToSet
        <4> QED BY <4>1, <4>2
      <3> QED BY <3>1, <3>3 DEF IsInjective
    <2> QED BY <2>1 DEF LInv, ListaSegura
  <1>2. TInv /\ LInv /\ [Next]_vars => (TInv /\ LInv)'
    BY TPaso, LPaso
  <1> QED BY <1>1, <1>2, TInicial, LInicial, PTL DEF Spec

-----------------------------------------------------------------------------
(* What the threads are told *)

\* 6 or 7: the program is over
Codigo(s) == \E i \in DOMAIN s : s[i] \in {6, 7}

\* Who is sent one of the codes has a program that is over
Avisos(k) ==
  k.vivo = TRUE =>
    \A p \in Pids : \A h \in Hilos :
      k.fd_consola[p] = h /\ Codigo(k.canal[h]) => p \in k.terminados

\* The Kernel goes from k to j and sends no code that is not true
Fiel(k, j) == (Avisos(k) => Avisos(j)) /\ k.terminados \subseteq j.terminados

LEMMA FielSeguido ==
  ASSUME NEW k, NEW j, NEW l, Fiel(k, j), Fiel(j, l)
  PROVE  Fiel(k, l)
  BY DEF Fiel

LEMMA FielParecidos ==
  ASSUME NEW k, NEW j, Parecidos(k, j)
  PROVE  Fiel(k, j)
  BY DEF Fiel, Avisos, Parecidos

LEMMA CodigoJunto ==
  ASSUME NEW s \in Seq(Mensajes), NEW m \in Seq(Mensajes), Codigo(s \o m)
  PROVE  Codigo(s) \/ Codigo(m)
  <1>a. PICK a : a = Len(s)
    OBVIOUS
  <1>b. PICK b : b = Len(m)
    OBVIOUS
  <1>1. /\ a \in Nat /\ b \in Nat /\ DOMAIN s = 1 .. a /\ DOMAIN m = 1 .. b
        /\ DOMAIN (s \o m) = 1 .. a + b
        /\ \A i \in 1 .. a + b : (s \o m)[i] = IF i <= a THEN s[i] ELSE m[i - a]
    BY <1>a, <1>b
  <1>2. PICK i \in 1 .. a + b : (s \o m)[i] \in {6, 7}
    BY <1>1 DEF Codigo
  <1>3. CASE i <= a
    <2>1. i \in 1 .. a /\ s[i] \in {6, 7}
      BY <1>1, <1>2, <1>3
    <2> QED BY <2>1, <1>1 DEF Codigo
  <1>4. CASE ~(i <= a)
    <2>1. i - a \in 1 .. b /\ m[i - a] \in {6, 7}
      BY <1>1, <1>2, <1>4
    <2> QED BY <2>1, <1>1 DEF Codigo
  <1> QED BY <1>3, <1>4

LEMMA FielEnvia ==
  ASSUME NEW k \in Estructuras, NEW c \in Conexiones \cup {Nada}, NEW m \in Seq(Mensajes),
         Codigo(m) /\ k.vivo = TRUE /\ c \in Hilos =>
           \A p \in Pids : k.fd_consola[p] = c => p \in k.terminados
  PROVE  Fiel(k, Envia(k, c, m))
  <1>j. PICK j : j = Envia(k, c, m)
    OBVIOUS
  <1>1. Enviado(k, j, c, m)
    BY <1>j, EnviaHace
  <1>2. CASE Caido(k, j)
    <2>1. j.vivo = FALSE /\ j.terminados = Pids
      BY <1>2 DEF Caido
    <2>2. k.terminados \subseteq Pids
      BY DEF Estructuras
    <2> QED BY <2>1, <2>2, <1>j DEF Fiel, Avisos
  <1>3. CASE Iguales(k, j)
    <2>1. j.vivo = k.vivo /\ j.fd_consola = k.fd_consola /\ j.terminados = k.terminados
      BY <1>3 DEF Iguales
    <2>2. ASSUME Avisos(k), k.vivo = TRUE, NEW p \in Pids, NEW h \in Hilos,
                 k.fd_consola[p] = h, Codigo(j.canal[h])
          PROVE  p \in k.terminados
      <3>1. h \in Conexiones
        BY DEF Conexiones
      <3>2. \/ j.canal[h] = k.canal[h]
            \/ h = c /\ j.canal[h] = k.canal[h] \o m
        BY <3>1, <1>1, CanalesTrasEnviar
      <3>3. CASE Codigo(k.canal[h])
        BY <2>2, <3>3 DEF Avisos
      <3>4. CASE ~Codigo(k.canal[h])
        <4>1. k.canal[h] \in Seq(Mensajes)
          BY <3>1 DEF Estructuras
        <4>2. h = c /\ Codigo(k.canal[h] \o m)
          BY <3>2, <3>4, <2>2
        <4>3. Codigo(m)
          BY <4>1, <4>2, <3>4, CodigoJunto
        <4> QED BY <4>2, <4>3, <2>2
      <3> QED BY <3>3, <3>4
    <2>3. Avisos(k) => Avisos(j)
      BY <2>1, <2>2 DEF Avisos
    <2> QED BY <2>1, <2>3, <1>j DEF Fiel
  <1> QED BY <1>1, <1>2, <1>3 DEF Enviado

LEMMA NoSonCodigos ==
  /\ ~Codigo(<<0>>) /\ ~Codigo(<<1>>) /\ ~Codigo(<<-1>>) /\ ~Codigo(<<5, Largo, Texto>>)
  /\ \A p : Codigo(<<p>>) => p \in {6, 7}
  <1>1. ~Codigo(<<5, Largo, Texto>>)
    <2>s. PICK s : s = <<5, Largo, Texto>>
      OBVIOUS
    <2>1. DOMAIN s = {1, 2, 3} /\ s[1] = 5 /\ s[2] = Largo /\ s[3] = Texto
      BY <2>s
    <2>2. Largo = 100 /\ Texto = 200
      BY DEF Largo, Texto
    <2>3. ~Codigo(s)
      BY <2>1, <2>2 DEF Codigo
    <2> QED BY <2>3, <2>s
  <1>2. ASSUME NEW p, Codigo(<<p>>)
        PROVE  p \in {6, 7}
    BY <1>2 DEF Codigo
  <1> QED BY <1>1, <1>2

\* Only the Consola of a process that ends is sent 6 or 7
LEMMA FielTerminar ==
  ASSUME NEW k, NEW a, NEW hs, KInv(k, a, hs, conexion), k.vivo = TRUE, NEW p \in Pids,
         NEW exit_code, NEW sock \in Conexiones \cup {Nada}, NEW conectada \in BOOLEAN
  PROVE  Fiel(k, end_process(k, p, exit_code, sock, conectada))
  <1>0. k \in Estructuras
    BY DEF KInv, Base, Tipos
  <1>1. CASE k.estado[p] = "Exit"
    <2>1. \/ end_process(k, p, exit_code, sock, conectada) = Envia(k, sock, <<0>>)
          \/ end_process(k, p, exit_code, sock, conectada) = k
      BY <1>1 DEF end_process
    <2>2. Fiel(k, Envia(k, sock, <<0>>)) /\ Fiel(k, k)
      BY <1>0, FielEnvia, NoSonCodigos, CodigosSonMensajes DEF Fiel
    <2> QED BY <2>1, <2>2
  <1>2. CASE k.estado[p] # "Exit"
    <2>s. PICK s : s = Sin(k, p)
      OBVIOUS
    <2>m. PICK m : m = <<IF exit_code = 0 THEN 6 ELSE 7>>
      OBVIOUS
    <2>c. PICK c : c = buscar_consola_de_proceso(s, p)
      OBVIOUS
    <2>e. PICK e : e = Envia(s, c, m)
      OBVIOUS
    <2>1. /\ KInv(s, a, hs, conexion) /\ s.vivo = TRUE /\ s \in Estructuras
          /\ Parecidos(k, s) /\ s.terminados = k.terminados \cup {p}
      BY ZenonT(40), <2>s, SinBien DEF Parecidos
    <2>2. /\ c \in Conexiones \cup {Nada} /\ m \in Seq(Mensajes)
          /\ c # Nada => s.fd_consola[p] = c
      BY <2>1, <2>c, <2>m, SuConsola, CodigosSonMensajes
    <2>3. c \in Hilos => \A q \in Pids : s.fd_consola[q] = c => q \in s.terminados
      <3>1. \A q \in Pids : s.fd_consola[q] = s.fd_consola[p] /\ s.fd_consola[q] # Nada => q = p
        BY <2>1 DEF KInv, Base, CuentaDePids
      <3>2. c \in Hilos => c # Nada
        BY ConsolaAssumption
      <3> QED BY <3>1, <3>2, <2>1, <2>2
    <2>4. Fiel(s, e)
      BY <2>1, <2>2, <2>3, <2>e, FielEnvia
    <2>5. e \in Estructuras
      <3>1. Enviado(s, e, c, m)
        BY <2>1, <2>2, <2>e, EnviaHace
      <3> QED BY <3>1 DEF Enviado, Caido, Iguales
    <2>6. Fiel(e, Envia(e, sock, <<1>>))
      BY <2>5, FielEnvia, NoSonCodigos, CodigosSonMensajes
    <2>7. Fiel(k, s)
      BY <2>1, FielParecidos
    <2>8. \/ end_process(k, p, exit_code, sock, conectada) = Envia(e, sock, <<1>>)
          \/ end_process(k, p, exit_code, sock, conectada) = s
      BY <1>2, <2>s, <2>m, <2>c, <2>e DEF end_process, Sin
    <2> QED BY <2>4, <2>6, <2>7, <2>8, FielSeguido
  <1> QED BY <1>1, <1>2

LEMMA FielTerminarOMarcar ==
  ASSUME NEW k, NEW a, NEW hs, KInv(k, a, hs, conexion), k.vivo = TRUE, NEW p \in Pids,
         NEW x \in {-6, -7}, NEW avisa \in BOOLEAN, NEW c \in Conexiones
  PROVE  Fiel(k, Terminar(k, p, x, avisa, c))
  <1>0. k \in Estructuras
    BY DEF KInv, Base, Tipos
  <1>1. CASE k.estado[p] = "Exec"
    <2>j. PICK j : j = Marcar(k, p, x, avisa, c)
      OBVIOUS
    <2>1. Parecidos(k, j)
      BY <1>0, <2>j, MarcarHace
    <2>2. Terminar(k, p, x, avisa, c) = j
      BY <1>1, <2>j DEF Terminar
    <2> QED BY <2>1, <2>2, FielParecidos
  <1>2. CASE k.estado[p] # "Exec"
    <2>1. Terminar(k, p, x, avisa, c) = end_process(k, p, x, c, avisa)
      BY <1>2 DEF Terminar
    <2> QED BY <2>1, FielTerminar
  <1> QED BY <1>1, <1>2

LEMMA FielPorMarca ==
  ASSUME K, NEW p \in Pids, kernel.vivo = TRUE, Marcas(p) # {}
  PROVE  Fiel(kernel, PorMarca(p))
  <1>i. PICK i : i = Min(Marcas(p))
    OBVIOUS
  <1>j. PICK j : j = [kernel EXCEPT !.borrar = RemoveAt(@, i)]
    OBVIOUS
  <1>x. PICK x : x = kernel.borrar[i].exit_code
    OBVIOUS
  <1>a. PICK avisa : avisa = kernel.borrar[i].connection
    OBVIOUS
  <1>c. PICK c : c = IF x = -7 THEN kernel.borrar[i].askeadora
                     ELSE buscar_consola_de_proceso(kernel, p)
    OBVIOUS
  <1>1. PorMarca(p) = end_process(j, p, x, c, avisa)
    BY <1>i, <1>j, <1>x, <1>a, <1>c DEF PorMarca
  <1>2. /\ KInv(j, alKernel, hilo, conexion) /\ Parecidos(kernel, j)
        /\ avisa \in BOOLEAN /\ kernel.borrar[i].askeadora \in Conexiones
    BY <1>i, <1>j, <1>a, LaMarca
  <1>3. c \in Conexiones \cup {Nada}
    <2>1. buscar_consola_de_proceso(kernel, p) \in Conexiones \cup {Nada}
      BY SuConsola DEF K
    <2> QED BY <2>1, <1>2, <1>c
  <1>4. j.vivo = TRUE
    BY <1>2 DEF Parecidos
  <1>5. Fiel(j, end_process(j, p, x, c, avisa))
    BY <1>2, <1>3, <1>4, FielTerminar
  <1>6. Fiel(kernel, j)
    BY <1>2, FielParecidos
  <1> QED BY <1>1, <1>5, <1>6, FielSeguido

LEMMA FielFinDeTurno ==
  ASSUME K, NEW p \in Pids, FinDeTurno(p)
  PROVE  Fiel(kernel, kernel')
  <1>0. kernel.vivo \in BOOLEAN
    BY DEF K, KInv, Base, Tipos, Estructuras
  <1>1. kernel.vivo = TRUE
    BY <1>0 DEF FinDeTurno, FinDeRafaga, Finalizado, Abortar, DelKernel
  <1>2. ASSUME NEW x, NEW avisa \in BOOLEAN
        PROVE  Fiel(kernel, end_process(kernel, p, x, buscar_consola_de_proceso(kernel, p), avisa))
    <2>1. buscar_consola_de_proceso(kernel, p) \in Conexiones \cup {Nada}
      BY <1>1, SuConsola DEF K
    <2> QED BY <1>1, <2>1, FielTerminar DEF K
  <1>3. ASSUME proceso_para_borrar(p)
        PROVE  Fiel(kernel, PorMarca(p))
    BY <1>1, <1>3, FielPorMarca DEF proceso_para_borrar
  <1>4. Fiel(kernel, [kernel EXCEPT !.estado[p] = "Listo"])
    <2>1. Parecidos(kernel, [kernel EXCEPT !.estado[p] = "Listo"])
      BY EstadoBien DEF K, LosEstados
    <2> QED BY <2>1, FielParecidos
  <1>5. CASE FinDeRafaga(p)
    <2>1. CASE proceso_para_borrar(p)
      BY <1>3, <1>5, <2>1 DEF FinDeRafaga
    <2>2. CASE ~proceso_para_borrar(p)
      BY <1>4, <1>5, <2>2 DEF FinDeRafaga
    <2> QED BY <2>1, <2>2
  <1>6. CASE Finalizado(p)
    <2>1. CASE proceso_para_borrar(p)
      BY <1>3, <1>6, <2>1 DEF Finalizado
    <2>2. CASE ~proceso_para_borrar(p)
      BY <1>2, <1>6, <2>2 DEF Finalizado
    <2> QED BY <2>1, <2>2
  <1>7. CASE Abortar(p)
    <2>1. PICK avisa \in BOOLEAN :
            kernel' = end_process(kernel, p, -20, buscar_consola_de_proceso(kernel, p), avisa)
      BY <1>7 DEF Abortar
    <2> QED BY <2>1, <1>2
  <1> QED BY <1>5, <1>6, <1>7 DEF FinDeTurno

\* No process is given one of the two codes for its number
SinConfusion == Pids \cap {6, 7} = {}

LEMMA FielDeLosProcesos ==
  ASSUME K, SinConfusion, DeLosProcesos
  PROVE  Fiel(kernel, kernel')
  <1>0. kernel \in Estructuras /\ kernel.vivo \in BOOLEAN
    BY DEF K, KInv, Base, Tipos, Estructuras
  <1>1. CASE AdmitirDeNew
    <2>n. PICK n : n = Head(kernel.nuevos)
      OBVIOUS
    <2>k. PICK k : k = [kernel EXCEPT !.nuevos = Tail(@)]
      OBVIOUS
    <2>1. /\ kernel.vivo = TRUE /\ kernel.nuevos # <<>>
          /\ \/ kernel' = Envia([k EXCEPT !.estado[n.pid] = "Listo"], n.fd, <<n.pid>>)
             \/ kernel' = Envia(Sin(k, n.pid), n.fd, <<-1>>)
      BY <1>0, <1>1, <2>n, <2>k DEF AdmitirDeNew, DelKernel, Sin
    <2>2. /\ KInv(k, alKernel, hilo, conexion) /\ Parecidos(kernel, k)
          /\ n.pid \in Pids /\ n.fd \in Conexiones
      BY <2>1, <2>n, <2>k, SiguienteDeNew DEF K
    <2>3. ASSUME NEW j, NEW m \in Seq(Mensajes), Parecidos(k, j), kernel' = Envia(j, n.fd, m),
                 ~Codigo(m)
          PROVE  Fiel(kernel, kernel')
      <3>1. j \in Estructuras
        BY <2>3 DEF Parecidos
      <3>2. Fiel(j, kernel')
        BY <3>1, <2>2, <2>3, FielEnvia
      <3>3. Fiel(kernel, k) /\ Fiel(k, j)
        BY <2>2, <2>3, FielParecidos
      <3>4. Fiel(kernel, j)
        BY <3>3, FielSeguido
      <3> QED BY <3>2, <3>4, FielSeguido
    <2>4. CASE kernel' = Envia([k EXCEPT !.estado[n.pid] = "Listo"], n.fd, <<n.pid>>)
      <3>1. Parecidos(k, [k EXCEPT !.estado[n.pid] = "Listo"])
        BY <2>2, EstadoBien DEF LosEstados
      <3>2. ~Codigo(<<n.pid>>) /\ <<n.pid>> \in Seq(Mensajes)
        BY <2>2, NoSonCodigos, CodigosSonMensajes DEF SinConfusion
      <3> QED BY <3>1, <3>2, <2>3, <2>4
    <2>5. CASE kernel' = Envia(Sin(k, n.pid), n.fd, <<-1>>)
      <3>1. Parecidos(k, Sin(k, n.pid))
        BY <2>2, SinBien
      <3> QED BY <3>1, <2>3, <2>5, NoSonCodigos, CodigosSonMensajes
    <2> QED BY <2>1, <2>4, <2>5
  <1>2. ASSUME NEW p \in Pids, Despachar(p)
        PROVE  Fiel(kernel, kernel')
    <2>1. Parecidos(kernel, kernel')
      BY <1>2, EstadoBien DEF K, LosEstados, Despachar
    <2> QED BY <2>1, FielParecidos
  <1>3. ASSUME NEW p \in Pids, Imprimir(p)
        PROVE  Fiel(kernel, kernel')
    <2>1. kernel.vivo = TRUE
      BY <1>0, <1>3 DEF Imprimir, DelKernel
    <2>2. buscar_consola_de_proceso(kernel, p) \in Conexiones \cup {Nada}
      BY <2>1, SuConsola DEF K
    <2>3. kernel' = Envia(kernel, buscar_consola_de_proceso(kernel, p), <<5, Largo, Texto>>)
      BY <1>3 DEF Imprimir
    <2> QED BY <1>0, <2>2, <2>3, FielEnvia, NoSonCodigos, CodigosSonMensajes
  <1>4. ASSUME NEW p \in Pids, FinDeTurno(p)
        PROVE  Fiel(kernel, kernel')
    BY <1>4, FielFinDeTurno
  <1> QED BY <1>1, <1>2, <1>3, <1>4 DEF DeLosProcesos

\* A program that begins has been told nothing
LEMMA FielNuevoPrograma ==
  ASSUME K, SinConfusion, NEW c \in Conexiones, NuevoPrograma(c)
  PROVE  Fiel(kernel, kernel')
  <1>0. /\ kernel \in Estructuras /\ kernel.vivo \in BOOLEAN
    BY DEF K, KInv, Base, Tipos, Estructuras
  <1>1. /\ alKernel[c] # <<>> /\ Head(alKernel[c])[1] = "script"
        /\ alKernel' = [alKernel EXCEPT ![c] = Tail(@)] /\ kernel.vivo = TRUE
    BY <1>0 DEF NuevoPrograma, DelKernel, Lee
  <1>2. c \in Hilos
    BY <1>1, RestoDeCola DEF K, KInv, Base, Tipos
  <1>3. CASE Posiciones(c) = {}
    <2>1. kernel' = Muere(kernel)
      BY <1>3 DEF NuevoPrograma
    <2>2. Caido(kernel, kernel')
      BY <2>1, <1>0, CaidaDelKernel
    <2>3. kernel.terminados \subseteq Pids
      BY <1>0 DEF Estructuras
    <2> QED BY <2>2, <2>3 DEF Caido, Fiel, Avisos
  <1>4. CASE Posiciones(c) # {}
    <2>k. PICK k : k = create_PCB(c)
      OBVIOUS
    <2>p. PICK p : p = k.pid
      OBVIOUS
    <2>1. /\ Base(k, alKernel', hilo, conexion) /\ p \in Pids /\ k.vivo = TRUE
          /\ k.canal[c] = <<>> /\ k.fd_consola[p] = c
      BY <1>1, <1>2, <1>4, <2>k, <2>p, CrearBien
    <2>2. k \in Estructuras
      BY <2>1 DEF Base, Tipos
    <2>3. /\ k.canal = kernel.canal /\ k.terminados = kernel.terminados
          /\ \A q \in Pids : q # p => k.fd_consola[q] = kernel.fd_consola[q]
      <3>1. /\ k.canal = kernel.canal /\ k.terminados = kernel.terminados
            /\ k.pid = kernel.pid + 1
            /\ k.fd_consola = [kernel.fd_consola EXCEPT ![kernel.pid + 1] = c]
        BY <1>0, <2>k DEF create_PCB, Estructuras
      <3>2. kernel.fd_consola \in [Pids -> Hilos \cup {Nada}]
        BY <1>0 DEF Estructuras
      <3> QED BY <3>1, <3>2, <2>p
    <2>4. Fiel(kernel, k)
      <3>1. ASSUME Avisos(kernel), NEW q \in Pids, NEW h \in Hilos, k.fd_consola[q] = h,
                   Codigo(k.canal[h])
            PROVE  q \in k.terminados
        <4>1. h # c
          BY <3>1, <2>1 DEF Codigo
        <4>2. q # p
          BY <4>1, <3>1, <2>1
        <4> QED BY <4>2, <3>1, <2>3, <1>1 DEF Avisos
      <3> QED BY <3>1, <2>3 DEF Fiel, Avisos
    <2>5. ASSUME NEW j, NEW m \in Seq(Mensajes), Parecidos(k, j), kernel' = Envia(j, c, m),
                 ~Codigo(m)
          PROVE  Fiel(kernel, kernel')
      <3>1. j \in Estructuras
        BY <2>5 DEF Parecidos
      <3>2. Fiel(j, kernel')
        BY <3>1, <2>5, FielEnvia
      <3>3. Fiel(k, j)
        BY <2>5, FielParecidos
      <3>4. Fiel(kernel, j)
        BY <2>4, <3>3, FielSeguido
      <3> QED BY <3>2, <3>4, FielSeguido
    <2>6. ~Codigo(<<p>>) /\ <<p>> \in Seq(Mensajes)
      BY <2>1, NoSonCodigos, CodigosSonMensajes DEF SinConfusion
    <2>7. CASE kernel' = Envia([k EXCEPT !.estado[p] = "Listo"], c, <<p>>)
      <3>j. PICK j : j = [k EXCEPT !.estado[p] = "Listo"]
        OBVIOUS
      <3>e. PICK e : e = [k.estado EXCEPT ![p] = "Listo"]
        OBVIOUS
      <3>1. e \in [Pids -> {"NoExiste", "New", "Listo", "Exec", "Exit"}]
        BY <2>2, <3>e DEF Estructuras
      <3>2. j = [k EXCEPT !.estado = e]
        BY <3>e, <3>j
      <3>3. Parecidos(k, j)
        BY <2>2, <3>1, <3>2 DEF Estructuras, Parecidos
      <3> QED BY <2>5, <2>6, <2>7, <3>3, <3>j
    <2>8. CASE kernel' = Envia([k EXCEPT !.estado[p] = "Exit", !.terminados = @ \cup {p}],
                               c, <<-1>>)
      <3>j. PICK j : j = Sin(k, p)
        OBVIOUS
      <3>e. PICK e : e = [k.estado EXCEPT ![p] = "Exit"]
        OBVIOUS
      <3>t. PICK t : t = k.terminados \cup {p}
        OBVIOUS
      <3>1. /\ e \in [Pids -> {"NoExiste", "New", "Listo", "Exec", "Exit"}]
            /\ t \in SUBSET Pids /\ k.terminados \subseteq t
        BY <2>1, <2>2, <3>e, <3>t DEF Estructuras
      <3>2. j = [k EXCEPT !.estado = e, !.terminados = t]
        BY <3>e, <3>j, <3>t DEF Sin
      <3>3. Parecidos(k, j)
        BY <2>2, <3>1, <3>2 DEF Estructuras, Parecidos
      <3>4. kernel' = Envia(j, c, <<-1>>)
        BY <2>8, <3>j DEF Sin
      <3> QED BY <2>5, <3>3, <3>4, NoSonCodigos, CodigosSonMensajes
    <2>9. CASE kernel' = Envia([k EXCEPT !.estado[p] = "New",
                                         !.nuevos = Append(@, [pid |-> p, fd |-> c])], c, <<p>>)
      <3>j. PICK j : j = [k EXCEPT !.estado[p] = "New",
                                   !.nuevos = Append(@, [pid |-> p, fd |-> c])]
        OBVIOUS
      <3>e. PICK e : e = [k.estado EXCEPT ![p] = "New"]
        OBVIOUS
      <3>x. PICK x : x = [pid |-> p, fd |-> c]
        OBVIOUS
      <3>n. PICK n : n = Append(k.nuevos, x)
        OBVIOUS
      <3>1. /\ e \in [Pids -> {"NoExiste", "New", "Listo", "Exec", "Exit"}]
            /\ x \in [pid : Pids, fd : Conexiones]
            /\ k.nuevos \in Seq([pid : Pids, fd : Conexiones])
        BY <1>2, <2>1, <2>2, <3>e, <3>x DEF Estructuras
      <3>2. n \in Seq([pid : Pids, fd : Conexiones])
        BY <3>1, <3>n, Agregar
      <3>3. j = [k EXCEPT !.estado = e, !.nuevos = n]
        BY <3>e, <3>j, <3>n, <3>x
      <3>4. Parecidos(k, j)
        BY <2>2, <3>1, <3>2, <3>3 DEF Estructuras, Parecidos
      <3> QED BY <2>5, <2>6, <2>9, <3>4, <3>j
    <2>10. CASE kernel' = Envia(kernel, c, <<-1>>)
      BY <1>0, <2>10, FielEnvia, NoSonCodigos, CodigosSonMensajes
    <2> QED
      BY <1>4, <2>k, <2>p, <2>7, <2>8, <2>9, <2>10 DEF NuevoPrograma
  <1> QED BY <1>3, <1>4

LEMMA FielDesconectar ==
  ASSUME K, NEW c \in Conexiones, Desconectar(c)
  PROVE  Fiel(kernel, kernel')
  <1>i. PICK i : i = Min(Posiciones(c))
    OBVIOUS
  <1>p. PICK p : p = kernel.lista_consolas[i].proceso
    OBVIOUS
  <1>k. PICK k : k = [kernel EXCEPT !.lista_consolas = RemoveAt(@, i), !.rotas = @ \ {c}]
    OBVIOUS
  <1>0. kernel \in Estructuras /\ kernel.vivo \in BOOLEAN
    BY DEF K, KInv, Base, Tipos, Estructuras
  <1>1. kernel.vivo = TRUE
    BY <1>0 DEF Desconectar, DelKernel
  <1>2. kernel' = IF Posiciones(c) = {} THEN Muere(kernel)
                  ELSE IF p \in Pids THEN Terminar(k, p, -6, FALSE, c) ELSE k
    BY <1>i, <1>p, <1>k DEF Desconectar
  <1>3. CASE Posiciones(c) = {}
    <2>1. Caido(kernel, kernel')
      BY <1>0, <1>2, <1>3, CaidaDelKernel
    <2>2. kernel.terminados \subseteq Pids
      BY <1>0 DEF Estructuras
    <2> QED BY <2>1, <2>2 DEF Caido, Fiel, Avisos
  <1>4. CASE Posiciones(c) # {}
    <2>1. KInv(k, alKernel, hilo, conexion) /\ Parecidos(kernel, k)
      BY <1>4, <1>i, <1>k, SinEntrada
    <2>2. Fiel(kernel, k) /\ k.vivo = TRUE
      BY <2>1, <1>1, FielParecidos DEF Parecidos
    <2>3. CASE p \in Pids
      <3>1. Fiel(k, Terminar(k, p, -6, FALSE, c))
        BY <2>1, <2>2, <2>3, FielTerminarOMarcar
      <3> QED BY <3>1, <2>2, <2>3, <1>2, <1>4, FielSeguido
    <2>4. CASE p \notin Pids
      BY <2>2, <2>4, <1>2, <1>4
    <2> QED BY <2>3, <2>4
  <1> QED BY <1>3, <1>4

LEMMA FielDeLaConexion ==
  ASSUME TInv, SinConfusion, NEW c \in Conexiones, DeLaConexion(c)
  PROVE  Fiel(kernel, kernel')
  <1>0. K /\ kernel \in Estructuras /\ kernel.vivo \in BOOLEAN
    BY DEF TInv, K, KInv, Base, Tipos, Estructuras
  <1>1. CASE sock_accept_new_connection(c)
    <2>1. kernel' = [kernel EXCEPT !.newfd = c]
      BY <1>1 DEF sock_accept_new_connection
    <2>2. Parecidos(kernel, kernel')
      BY <1>0, <2>1 DEF Estructuras, Parecidos
    <2> QED BY <2>2, FielParecidos
  <1>2. CASE Handshake(c)
    <2>l. PICK l : l = Append(kernel.lista_consolas, [sock |-> kernel.newfd, proceso |-> 0])
      OBVIOUS
    <2>1. kernel' = [kernel EXCEPT !.lista_consolas = l]
      BY <1>2, <2>l DEF Handshake
    <2>2. /\ kernel'.vivo = kernel.vivo /\ kernel'.fd_consola = kernel.fd_consola
          /\ kernel'.canal = kernel.canal /\ kernel'.terminados = kernel.terminados
      BY <1>0, <2>1 DEF Estructuras
    <2> QED BY <2>2 DEF Fiel, Avisos
  <1>3. CASE NuevoPrograma(c)
    BY <1>0, <1>3, FielNuevoPrograma
  <1>4. CASE EliminarProceso(c)
    <2>p. PICK p : p = Head(alKernel[c])[2]
      OBVIOUS
    <2>1. /\ alKernel[c] # <<>> /\ Head(alKernel[c])[1] = "eliminar" /\ kernel.vivo = TRUE
          /\ kernel' = Terminar(kernel, p, -7, TRUE, c)
      BY <1>0, <1>4, <2>p DEF EliminarProceso, DelKernel, Lee
    <2>2. p \in Pids
      <3>s. PICK s : s = alKernel[c]
        OBVIOUS
      <3>1. ColaBien(s, c) /\ s # <<>> /\ Head(s)[1] = "eliminar" /\ p = Head(s)[2]
        BY <3>s, <2>1, <2>p, <1>0 DEF K, KInv, Base, Tipos
      <3>2. Head(s)[1] = "eliminar" => c = Fin /\ Head(s)[2] \in Pids
        BY <3>1, RestoDeCola
      <3> QED BY <3>1, <3>2
    <2> QED BY <1>0, <2>1, <2>2, FielTerminarOMarcar DEF K
  <1>5. CASE Desconectar(c)
    BY <1>0, <1>5, FielDesconectar
  <1> QED BY <1>1, <1>2, <1>3, <1>4, <1>5 DEF DeLaConexion

FInv == Avisos(kernel) /\ FinVerdadero

LEMMA FielDeja ==
  ASSUME FInv, Fiel(kernel, kernel'), DelKernel
  PROVE  FInv'
  BY DEF FInv, Fiel, DelKernel, FinVerdadero

\* The thread takes it from its connection
LEMMA SeEntera ==
  ASSUME TInv, FInv, Interno
  PROVE  FInv'
  <1>1. Iguales(kernel, kernel')
    BY DEF Interno
  <1>2. \A h \in Hilos : Codigo(kernel'.canal[h]) => Codigo(kernel.canal[h])
    <2> SUFFICES ASSUME NEW h \in Hilos, Codigo(kernel'.canal[h])
                 PROVE  Codigo(kernel.canal[h])
      OBVIOUS
    <2>1. De(kernel'.canal[h], kernel.canal[h])
      BY DEF Interno, Conexiones
    <2> QED BY <2>1 DEF De, Codigo
  <1>3. Avisos(kernel')
    BY <1>1, <1>2 DEF FInv, Avisos, Iguales
  <1>4. ASSUME NEW h \in Hilos, hilo'[h].avisado
        PROVE  hilo'[h].pid \in kernel'.terminados
    <2>1. /\ hilo'[h].pid = hilo[h].pid
          /\ hilo[h].avisado \/ (hilo[h].en = "recibe" /\ Avisa(h))
      BY <1>4 DEF Interno
    <2>2. kernel'.terminados = kernel.terminados
      BY <1>1 DEF Iguales
    <2>3. CASE hilo[h].avisado
      BY <2>1, <2>2, <2>3 DEF FInv, FinVerdadero
    <2>4. CASE hilo[h].en = "recibe" /\ Avisa(h)
      <3>1. Suyo(kernel, h, hilo[h].pid)
        BY <2>4 DEF TInv, K, KInv, Base, SusPids
      <3>2. Codigo(kernel.canal[h])
        BY <2>4 DEF Avisa, Codigo
      <3>3. kernel.vivo \in BOOLEAN /\ (kernel.vivo = FALSE => kernel.terminados = Pids)
        BY DEF TInv, K, KInv, Base, Tipos, Estructuras, Caidos
      <3> QED BY <3>1, <3>2, <3>3, <2>1, <2>2 DEF Suyo, FInv, Avisos
    <2> QED BY <2>1, <2>3, <2>4
  <1> QED BY <1>3, <1>4 DEF FInv, FinVerdadero

LEMMA FInicial == Init => FInv
  <1> SUFFICES ASSUME Init
               PROVE  FInv
    OBVIOUS
  <1>1. TInv
    BY TInicial
  <1>2. \A p \in Pids : \A h \in Hilos : kernel.fd_consola[p] # h
    <2>1. \A h \in Hilos : hilo[h].en = "libre"
      BY DEF Init, Libre
    <2> QED BY <1>1, <2>1 DEF TInv, K, KInv, Base, Nuevos, Nuevo
  <1>3. \A h \in Hilos : ~hilo[h].avisado
    BY DEF Init, Libre
  <1> QED BY <1>2, <1>3 DEF FInv, Avisos, FinVerdadero

LEMMA FPaso == TInv /\ FInv /\ SinConfusion /\ [Next]_vars => FInv'
  <1> SUFFICES ASSUME TInv, FInv, SinConfusion, [Next]_vars
               PROVE  FInv'
    OBVIOUS
  <1>0. K /\ AvisadosBien /\ ListaTipos
    BY DEF TInv
  <1>1. ASSUME NEW c \in Conexiones, DeLaConexion(c)
        PROVE  FInv'
    BY <1>1, FielDeLaConexion, FielDeja, RarezasCrecen
  <1>2. CASE DeLosProcesos
    BY <1>0, <1>2, FielDeLosProcesos, FielDeja, RarezasCrecen
  <1>3. ASSUME NEW p \in Pids, finalizar_programa(p)
        PROVE  FInv'
    <2>1. hilo' = hilo /\ kernel' = kernel
      BY <1>3 DEF finalizar_programa
    <2> QED BY <2>1 DEF FInv, FinVerdadero
  <1>4. ASSUME NEW h \in Hilos, iniciar_programa(h)
        PROVE  FInv'
    <2>1. Corre(h) /\ hilo'[h].avisado = FALSE
      BY <1>4, iniciar_programaHace
    <2>2. kernel' = kernel
      BY <1>4 DEF iniciar_programa, DeLaConsola
    <2>3. \A g \in Hilos : hilo'[g].avisado => hilo'[g].pid \in kernel.terminados
      BY <2>1 DEF Corre, FInv, FinVerdadero
    <2> QED BY <2>2, <2>3 DEF FInv, FinVerdadero
  <1>5. ASSUME NEW h \in Hilos, Paso(h)
        PROVE  FInv'
    BY <1>0, <1>5, PasoHace, SeEntera
  <1>6. CASE MainSigue
    BY <1>0, <1>6, RecibirRespuestaHace, DesconectarHiloHace, SeEntera DEF MainSigue
  <1>7. CASE Salir
    BY <1>0, <1>7, SalirHace, SeEntera
  <1>8. ASSUME NEW saliendo \in BOOLEAN, desconectar_consola(saliendo)
        PROVE  FInv'
    BY <1>0, <1>8, desconectar_consolaHace, SeEntera
  <1>9. CASE UNCHANGED vars
    BY <1>9 DEF vars, FInv, FinVerdadero
  <1> QED
    BY <1>1, <1>2, <1>3, <1>4, <1>5, <1>6, <1>7, <1>8, <1>9 DEF Next, DeLosProcesos

\* FinVerdadero: a thread that says that its program has finished is right (codes 6 and 7 of
\* end_process, read by script_thread), as long as no process has 6 or 7 for its number:
\* the Kernel sends the number of a process of New again when it is admitted, and the
\* thread would take it for the code.
THEOREM ElFinEsVerdadero ==
  ASSUME SinConfusion
  PROVE  Spec => []FinVerdadero
  <1>1. TInv /\ FInv /\ [Next]_vars => (TInv /\ FInv)'
    BY TPaso, FPaso
  <1>2. FInv => FinVerdadero
    BY DEF FInv
  <1> QED BY <1>1, <1>2, TInicial, FInicial, PTL DEF Spec

-----------------------------------------------------------------------------
(* The programs whose connection is gone *)

\* p has ended, or will when its burst does
Acaba(k, p) ==
  \/ p \in k.terminados
  \/ k.estado[p] = "Exec" /\ \E i \in DOMAIN k.borrar : k.borrar[i].proceso = p

\* Nobody is ended in the state alone, and what waits in new_queue is not elsewhere
\* unless it was ended there
Sanos(k) ==
  k.vivo = TRUE =>
    /\ \A p \in Pids : k.estado[p] = "Exit" => p \in k.terminados
    /\ \A i \in DOMAIN k.nuevos :
         k.estado[k.nuevos[i].pid] = "New" \/ k.nuevos[i].pid \in k.terminados
    /\ \A i, j \in DOMAIN k.nuevos : k.nuevos[i].pid = k.nuevos[j].pid => i = j

\* The Kernel goes from k to j, and who was to end still is
Cuida(k, j) ==
  /\ Sanos(j)
  /\ j.vivo = TRUE =>
       /\ k.vivo = TRUE /\ j.lista_consolas = k.lista_consolas
       /\ j.fd_consola = k.fd_consola
       /\ \A p \in Pids : Acaba(k, p) => Acaba(j, p)

LEMMA CuidaSeguido ==
  ASSUME NEW k, NEW j, NEW l, Cuida(k, j), Cuida(j, l)
  PROVE  Cuida(k, l)
  BY DEF Cuida

LEMMA CuidaCaido ==
  ASSUME NEW k, NEW j, Caido(k, j)
  PROVE  Cuida(k, j)
  BY DEF Caido, Cuida, Sanos

LEMMA CuidaIguales ==
  ASSUME NEW k, NEW j, Sanos(k), Iguales(k, j)
  PROVE  Cuida(k, j)
  BY DEF Iguales, Cuida, Sanos, Acaba

LEMMA CuidaEnvia ==
  ASSUME NEW k \in Estructuras, NEW c \in Conexiones \cup {Nada}, NEW m \in Seq(Mensajes),
         Sanos(k)
  PROVE  Cuida(k, Envia(k, c, m)) /\ Envia(k, c, m) \in Estructuras
  <1>j. PICK j : j = Envia(k, c, m)
    OBVIOUS
  <1>1. Enviado(k, j, c, m)
    BY <1>j, EnviaHace
  <1>2. j \in Estructuras /\ (Caido(k, j) \/ Iguales(k, j))
    BY <1>1 DEF Enviado, Caido, Iguales
  <1>3. Cuida(k, j)
    BY <1>2, CuidaCaido, CuidaIguales
  <1> QED BY <1>2, <1>3, <1>j

\* p has ended
LEMMA CuidaSin ==
  ASSUME NEW k \in Estructuras, NEW p \in Pids, Sanos(k), k.vivo = TRUE
  PROVE  /\ Cuida(k, Sin(k, p)) /\ Acaba(Sin(k, p), p) /\ Sin(k, p).vivo = TRUE
         /\ Sin(k, p) \in Estructuras
  <1>e. PICK e : e = [k.estado EXCEPT ![p] = "Exit"]
    OBVIOUS
  <1>t. PICK t : t = k.terminados \cup {p}
    OBVIOUS
  <1>j. PICK j : j = Sin(k, p)
    OBVIOUS
  <1>0. k.nuevos \in Seq([pid : Pids, fd : Conexiones])
    BY DEF Estructuras
  <1>1. /\ e \in [Pids -> {"NoExiste", "New", "Listo", "Exec", "Exit"}]
        /\ t \in SUBSET Pids /\ p \in t /\ k.terminados \subseteq t
        /\ e[p] = "Exit" /\ \A q \in Pids : q # p => e[q] = k.estado[q]
    BY <1>e, <1>t DEF Estructuras
  <1>2. j = [k EXCEPT !.estado = e, !.terminados = t]
    BY <1>j, <1>e, <1>t DEF Sin
  <1>3. /\ j \in Estructuras /\ j.vivo = k.vivo /\ j.lista_consolas = k.lista_consolas
        /\ j.fd_consola = k.fd_consola /\ j.borrar = k.borrar /\ j.nuevos = k.nuevos
        /\ j.estado = e /\ j.terminados = t
    BY <1>1, <1>2 DEF Estructuras
  <1>4. ASSUME NEW q \in Pids, Acaba(k, q)
        PROVE  Acaba(j, q)
    <2>1. CASE q = p
      BY <2>1, <1>1, <1>3 DEF Acaba
    <2>2. CASE q # p
      BY <2>2, <1>1, <1>3, <1>4 DEF Acaba
    <2> QED BY <2>1, <2>2
  <1>5. \A q \in Pids : e[q] = "Exit" => q \in t
    BY <1>1, <1>t DEF Sanos
  <1>6. ASSUME NEW i \in DOMAIN k.nuevos
        PROVE  e[k.nuevos[i].pid] = "New" \/ k.nuevos[i].pid \in t
    <2>1. k.nuevos[i] \in [pid : Pids, fd : Conexiones]
      BY <1>0, ElementoDe
    <2> QED BY <2>1, <1>1, <1>t DEF Sanos
  <1>7. Sanos(j)
    BY <1>3, <1>5, <1>6 DEF Sanos
  <1>8. Acaba(j, p)
    BY <1>1, <1>3 DEF Acaba
  <1> QED BY <1>3, <1>4, <1>7, <1>8, <1>j DEF Cuida

LEMMA CuidaTerminar ==
  ASSUME NEW k, NEW a, NEW hs, KInv(k, a, hs, conexion), k.vivo = TRUE, NEW p \in Pids,
         NEW exit_code, NEW sock \in Conexiones \cup {Nada}, NEW conectada \in BOOLEAN,
         Sanos(k)
  PROVE  LET j == end_process(k, p, exit_code, sock, conectada)
         IN  Cuida(k, j) /\ (j.vivo = TRUE => Acaba(j, p))
  <1>r. PICK r : r = end_process(k, p, exit_code, sock, conectada)
    OBVIOUS
  <1>0. k \in Estructuras /\ Iguales(k, k)
    BY DEF KInv, Base, Tipos, Iguales
  <1>1. CASE k.estado[p] = "Exit"
    <2>1. r = Envia(k, sock, <<0>>) \/ r = k
      BY <1>1, <1>r DEF end_process
    <2>2. Cuida(k, Envia(k, sock, <<0>>)) /\ Cuida(k, k)
      BY <1>0, CuidaEnvia, CuidaIguales, CodigosSonMensajes
    <2>3. Cuida(k, r)
      BY <2>1, <2>2
    <2>4. Acaba(k, p)
      BY <1>1 DEF Sanos, Acaba
    <2> QED BY <2>3, <2>4, <1>r DEF Cuida
  <1>2. CASE k.estado[p] # "Exit"
    <2>s. PICK s : s = Sin(k, p)
      OBVIOUS
    <2>m. PICK m : m = <<IF exit_code = 0 THEN 6 ELSE 7>>
      OBVIOUS
    <2>c. PICK c : c = buscar_consola_de_proceso(s, p)
      OBVIOUS
    <2>e. PICK e : e = Envia(s, c, m)
      OBVIOUS
    <2>1. KInv(s, a, hs, conexion)
      BY <2>s, SinBien
    <2>2. Cuida(k, s) /\ Acaba(s, p) /\ s.vivo = TRUE /\ s \in Estructuras
      BY <1>0, <2>s, CuidaSin
    <2>3. c \in Conexiones \cup {Nada} /\ m \in Seq(Mensajes)
      BY <2>1, <2>2, <2>c, <2>m, SuConsola, CodigosSonMensajes
    <2>4. Sanos(s)
      BY <2>2 DEF Cuida
    <2>5. Cuida(s, e) /\ e \in Estructuras
      BY <2>2, <2>3, <2>4, <2>e, CuidaEnvia
    <2>6. Sanos(e)
      BY <2>5 DEF Cuida
    <2>7. Cuida(e, Envia(e, sock, <<1>>))
      BY <2>5, <2>6, CuidaEnvia, CodigosSonMensajes
    <2>8. Cuida(s, Envia(e, sock, <<1>>))
      BY <2>5, <2>7, CuidaSeguido
    <2>9. r = Envia(e, sock, <<1>>) \/ r = s
      BY <1>2, <1>r, <2>s, <2>m, <2>c, <2>e DEF end_process, Sin
    <2>10. Iguales(s, s)
      BY <2>2 DEF Iguales
    <2>11. Cuida(s, s)
      BY <2>4, <2>10, CuidaIguales
    <2>12. Cuida(s, r)
      BY <2>8, <2>9, <2>11
    <2>13. r.vivo = TRUE => Acaba(r, p)
      BY <2>2, <2>12 DEF Cuida
    <2>14. Cuida(k, r)
      BY <2>2, <2>12, CuidaSeguido
    <2> QED BY <2>13, <2>14, <1>r
  <1> QED BY <1>1, <1>2

LEMMA CuidaTerminarOMarcar ==
  ASSUME NEW k, NEW a, NEW hs, KInv(k, a, hs, conexion), k.vivo = TRUE, NEW p \in Pids,
         NEW x \in {-6, -7}, NEW avisa \in BOOLEAN, NEW c \in Conexiones, Sanos(k)
  PROVE  LET j == Terminar(k, p, x, avisa, c)
         IN  Cuida(k, j) /\ (j.vivo = TRUE => Acaba(j, p))
  <1>0. k \in Estructuras
    BY DEF KInv, Base, Tipos
  <1>1. CASE k.estado[p] = "Exec"
    <2>j. PICK j : j = Marcar(k, p, x, avisa, c)
      OBVIOUS
    <2>1. Terminar(k, p, x, avisa, c) = j
      BY <1>1, <2>j DEF Terminar
    <2>2. /\ Parecidos(k, j) /\ j.estado = k.estado
          /\ j.lista_consolas = k.lista_consolas /\ j.nuevos = k.nuevos
          /\ j.terminados = k.terminados
          /\ \A i \in DOMAIN k.borrar : i \in DOMAIN j.borrar /\ j.borrar[i] = k.borrar[i]
          /\ \E i \in DOMAIN j.borrar : j.borrar[i].proceso = p
      BY <1>0, <2>j, MarcarHace
    <2>3. j.vivo = TRUE /\ j.fd_consola = k.fd_consola
      BY <2>2 DEF Parecidos
    <2>4. Sanos(j)
      BY <2>2, <2>3 DEF Sanos
    <2>5. \A q \in Pids : Acaba(k, q) => Acaba(j, q)
      BY <2>2 DEF Acaba
    <2>6. Acaba(j, p)
      BY <1>1, <2>2 DEF Acaba
    <2> QED BY <2>1, <2>2, <2>3, <2>4, <2>5, <2>6 DEF Cuida
  <1>2. CASE k.estado[p] # "Exec"
    <2>1. Terminar(k, p, x, avisa, c) = end_process(k, p, x, c, avisa)
      BY <1>2 DEF Terminar
    <2> QED BY <2>1, CuidaTerminar
  <1> QED BY <1>1, <1>2

\* The mark that is taken was of the process that ends with it
LEMMA CuidaPorMarca ==
  ASSUME K, NEW p \in Pids, kernel.vivo = TRUE, Marcas(p) # {}, Sanos(kernel)
  PROVE  Cuida(kernel, PorMarca(p))
  <1>i. PICK i : i = Min(Marcas(p))
    OBVIOUS
  <1>j. PICK j : j = [kernel EXCEPT !.borrar = RemoveAt(@, i)]
    OBVIOUS
  <1>x. PICK x : x = kernel.borrar[i].exit_code
    OBVIOUS
  <1>a. PICK avisa : avisa = kernel.borrar[i].connection
    OBVIOUS
  <1>c. PICK c : c = IF x = -7 THEN kernel.borrar[i].askeadora
                     ELSE buscar_consola_de_proceso(kernel, p)
    OBVIOUS
  <1>r. PICK r : r = PorMarca(p)
    OBVIOUS
  <1>1. r = end_process(j, p, x, c, avisa)
    BY <1>r, <1>i, <1>j, <1>x, <1>a, <1>c DEF PorMarca
  <1>2. /\ i \in DOMAIN kernel.borrar /\ kernel.borrar[i].proceso = p
        /\ KInv(j, alKernel, hilo, conexion) /\ Parecidos(kernel, j)
        /\ j.estado = kernel.estado /\ j.lista_consolas = kernel.lista_consolas
        /\ j.nuevos = kernel.nuevos /\ j.borrar = RemoveAt(kernel.borrar, i)
        /\ j.terminados = kernel.terminados
        /\ avisa \in BOOLEAN /\ kernel.borrar[i].askeadora \in Conexiones
    BY <1>i, <1>j, <1>a, LaMarca
  <1>3. c \in Conexiones \cup {Nada}
    <2>1. buscar_consola_de_proceso(kernel, p) \in Conexiones \cup {Nada}
      BY SuConsola DEF K
    <2> QED BY <2>1, <1>2, <1>c
  <1>4. j.vivo = TRUE /\ j.fd_consola = kernel.fd_consola
    BY <1>2 DEF Parecidos
  <1>5. Sanos(j)
    BY <1>2, <1>4 DEF Sanos
  <1>6. Cuida(j, r) /\ (r.vivo = TRUE => Acaba(r, p))
    BY <1>1, <1>2, <1>3, <1>4, <1>5, CuidaTerminar
  <1>7. ASSUME NEW q \in Pids, q # p, Acaba(kernel, q)
        PROVE  Acaba(j, q)
    <2>1. CASE q \in kernel.terminados
      BY <2>1, <1>2 DEF Acaba
    <2>2. CASE q \notin kernel.terminados
      <3>1. kernel.estado[q] = "Exec" /\ \E m \in DOMAIN kernel.borrar : kernel.borrar[m].proceso = q
        BY <2>2, <1>7 DEF Acaba
      <3>2. PICK m \in DOMAIN kernel.borrar : kernel.borrar[m].proceso = q
        BY <3>1
      <3>3. m # i
        BY <3>2, <1>2, <1>7
      <3>b. PICK b : b = kernel.borrar
        OBVIOUS
      <3>4. b \in Seq([proceso : Pids, exit_code : {-6, -7}, connection : BOOLEAN,
                       askeadora : Conexiones])
        BY <3>b DEF K, KInv, Base, Tipos, Estructuras
      <3>5. \A y \in DOMAIN b : y # i =>
              \E z \in DOMAIN RemoveAt(b, i) : RemoveAt(b, i)[z] = b[y]
        BY <3>4, <3>b, <1>2, QuitarDeja
      <3>6. PICK z \in DOMAIN RemoveAt(b, i) : RemoveAt(b, i)[z] = b[m]
        BY <3>2, <3>3, <3>5, <3>b
      <3> QED BY <3>1, <3>2, <3>6, <3>b, <1>2 DEF Acaba
    <2> QED BY <2>1, <2>2
  <1>8. ASSUME r.vivo = TRUE, NEW q \in Pids, Acaba(kernel, q)
        PROVE  Acaba(r, q)
    <2>1. CASE q = p
      BY <2>1, <1>6, <1>8
    <2>2. CASE q # p
      BY <2>2, <1>6, <1>7, <1>8 DEF Cuida
    <2> QED BY <2>1, <2>2
  <1> QED BY <1>2, <1>4, <1>6, <1>8, <1>r DEF Cuida

\* A change of state that is not the end
LEMMA CuidaEstado ==
  ASSUME NEW k \in Estructuras, NEW p \in Pids, NEW x \in {"New", "Listo", "Exec"}, Sanos(k),
         Acaba(k, p) => p \in k.terminados,
         \A i \in DOMAIN k.nuevos : k.nuevos[i].pid = p => p \in k.terminados
  PROVE  Cuida(k, [k EXCEPT !.estado[p] = x]) /\ [k EXCEPT !.estado[p] = x] \in Estructuras
  <1>j. PICK j : j = [k EXCEPT !.estado[p] = x]
    OBVIOUS
  <1>e. PICK e : e = [k.estado EXCEPT ![p] = x]
    OBVIOUS
  <1>0. k.nuevos \in Seq([pid : Pids, fd : Conexiones])
    BY DEF Estructuras
  <1>1. /\ e \in [Pids -> {"NoExiste", "New", "Listo", "Exec", "Exit"}]
        /\ e[p] = x /\ \A q \in Pids : q # p => e[q] = k.estado[q]
    BY <1>e DEF Estructuras
  <1>2. j = [k EXCEPT !.estado = e]
    BY <1>e, <1>j
  <1>3. /\ j \in Estructuras /\ j.vivo = k.vivo /\ j.lista_consolas = k.lista_consolas
        /\ j.fd_consola = k.fd_consola /\ j.borrar = k.borrar /\ j.nuevos = k.nuevos
        /\ j.estado = e /\ j.terminados = k.terminados
    BY <1>1, <1>2 DEF Estructuras
  <1>4. ASSUME NEW q \in Pids, Acaba(k, q)
        PROVE  Acaba(j, q)
    <2>1. CASE q = p
      BY <2>1, <1>3, <1>4 DEF Acaba
    <2>2. CASE q # p
      BY <2>2, <1>1, <1>3, <1>4 DEF Acaba
    <2> QED BY <2>1, <2>2
  <1>5. ASSUME k.vivo = TRUE
        PROVE  \A q \in Pids : e[q] = "Exit" => q \in k.terminados
    BY <1>1, <1>5 DEF Sanos
  <1>6. ASSUME k.vivo = TRUE, NEW i \in DOMAIN k.nuevos
        PROVE  e[k.nuevos[i].pid] = "New" \/ k.nuevos[i].pid \in k.terminados
    <2>1. k.nuevos[i] \in [pid : Pids, fd : Conexiones]
      BY <1>0, ElementoDe
    <2>q. PICK q : q = k.nuevos[i].pid
      OBVIOUS
    <2>2. q \in Pids /\ (k.estado[q] = "New" \/ q \in k.terminados)
      BY <2>1, <2>q, <1>6 DEF Sanos
    <2>3. CASE q = p
      BY <2>3, <2>q
    <2>4. CASE q # p
      BY <2>2, <2>4, <2>q, <1>1
    <2> QED BY <2>3, <2>4
  <1>7. Sanos(j)
    BY <1>3, <1>5, <1>6 DEF Sanos
  <1> QED BY <1>3, <1>4, <1>7, <1>j DEF Cuida

LEMMA CuidaFinDeTurno ==
  ASSUME K, NEW p \in Pids, FinDeTurno(p), Sanos(kernel)
  PROVE  Cuida(kernel, kernel')
  <1>0. kernel.vivo \in BOOLEAN /\ kernel \in Estructuras
    BY DEF K, KInv, Base, Tipos, Estructuras
  <1>1. kernel.vivo = TRUE /\ kernel.estado[p] = "Exec"
    BY <1>0 DEF FinDeTurno, FinDeRafaga, Finalizado, Abortar, DelKernel
  <1>2. ASSUME NEW x, NEW avisa \in BOOLEAN
        PROVE  Cuida(kernel, end_process(kernel, p, x, buscar_consola_de_proceso(kernel, p), avisa))
    <2>1. buscar_consola_de_proceso(kernel, p) \in Conexiones \cup {Nada}
      BY <1>1, SuConsola DEF K
    <2> QED BY <1>1, <2>1, CuidaTerminar DEF K
  <1>3. ASSUME proceso_para_borrar(p)
        PROVE  Cuida(kernel, PorMarca(p))
    BY <1>1, <1>3, CuidaPorMarca DEF proceso_para_borrar
  <1>4. ASSUME ~proceso_para_borrar(p)
        PROVE  Cuida(kernel, [kernel EXCEPT !.estado[p] = "Listo"])
    <2>1. Acaba(kernel, p) => p \in kernel.terminados
      BY <1>4 DEF Acaba, proceso_para_borrar, Marcas
    <2>2. \A i \in DOMAIN kernel.nuevos : kernel.nuevos[i].pid = p => p \in kernel.terminados
      BY <1>1 DEF Sanos
    <2> QED BY <1>0, <2>1, <2>2, CuidaEstado
  <1>5. CASE FinDeRafaga(p)
    <2>1. CASE proceso_para_borrar(p)
      BY <1>3, <1>5, <2>1 DEF FinDeRafaga
    <2>2. CASE ~proceso_para_borrar(p)
      BY <1>4, <1>5, <2>2 DEF FinDeRafaga
    <2> QED BY <2>1, <2>2
  <1>6. CASE Finalizado(p)
    <2>1. CASE proceso_para_borrar(p)
      BY <1>3, <1>6, <2>1 DEF Finalizado
    <2>2. CASE ~proceso_para_borrar(p)
      BY <1>2, <1>6, <2>2 DEF Finalizado
    <2> QED BY <2>1, <2>2
  <1>7. CASE Abortar(p)
    <2>1. PICK avisa \in BOOLEAN :
            kernel' = end_process(kernel, p, -20, buscar_consola_de_proceso(kernel, p), avisa)
      BY <1>7 DEF Abortar
    <2> QED BY <2>1, <1>2
  <1> QED BY <1>5, <1>6, <1>7 DEF FinDeTurno

\* Who is taken from new_queue is not in it twice
LEMMA CuidaAdmitirDeNew ==
  ASSUME K, AdmitirDeNew, Sanos(kernel)
  PROVE  Cuida(kernel, kernel')
  <1>n. PICK n : n = Head(kernel.nuevos)
    OBVIOUS
  <1>k. PICK k : k = [kernel EXCEPT !.nuevos = Tail(@)]
    OBVIOUS
  <1>l. PICK l : l = Len(kernel.nuevos)
    OBVIOUS
  <1>0. kernel \in Estructuras /\ kernel.vivo \in BOOLEAN
    BY DEF K, KInv, Base, Tipos, Estructuras
  <1>1. /\ kernel.vivo = TRUE /\ kernel.nuevos # <<>>
        /\ \/ kernel' = Envia([k EXCEPT !.estado[n.pid] = "Listo"], n.fd, <<n.pid>>)
           \/ kernel' = Envia(Sin(k, n.pid), n.fd, <<-1>>)
    BY <1>0, <1>n, <1>k DEF AdmitirDeNew, DelKernel, Sin
  <1>2. /\ Parecidos(kernel, k) /\ k.estado = kernel.estado
        /\ k.lista_consolas = kernel.lista_consolas /\ k.nuevos = Tail(kernel.nuevos)
        /\ k.borrar = kernel.borrar /\ k.terminados = kernel.terminados
        /\ n.pid \in Pids /\ n.fd \in Conexiones /\ n = kernel.nuevos[1]
        /\ DOMAIN kernel.nuevos = 1 .. l /\ DOMAIN Tail(kernel.nuevos) = 1 .. l - 1
        /\ \A i \in 1 .. l - 1 : /\ Tail(kernel.nuevos)[i] = kernel.nuevos[i + 1]
                                 /\ i + 1 \in DOMAIN kernel.nuevos
    BY <1>1, <1>n, <1>k, <1>l, SiguienteDeNew DEF K
  <1>3. k \in Estructuras /\ k.vivo = TRUE /\ k.fd_consola = kernel.fd_consola /\ l \in Nat
    BY <1>0, <1>1, <1>2, <1>l DEF Parecidos, Estructuras
  <1>4. 1 \in DOMAIN kernel.nuevos
    <2>1. kernel.nuevos \in Seq([pid : Pids, fd : Conexiones])
      BY <1>0 DEF Estructuras
    <2> QED BY <2>1, <1>1
  <1>t. PICK t : t = Tail(kernel.nuevos)
    OBVIOUS
  <1>5. \A i \in DOMAIN t : t[i] = kernel.nuevos[i + 1] /\ i + 1 \in DOMAIN kernel.nuevos
    BY <1>2, <1>t
  <1>6. \A i \in DOMAIN t :
          kernel.estado[t[i].pid] = "New" \/ t[i].pid \in kernel.terminados
    BY <1>1, <1>5 DEF Sanos
  <1>7. ASSUME NEW i \in DOMAIN t, NEW j \in DOMAIN t, t[i].pid = t[j].pid
        PROVE  i = j
    <2>1. i + 1 = j + 1
      BY <1>1, <1>5, <1>7 DEF Sanos
    <2>2. i \in Nat /\ j \in Nat
      BY <1>2, <1>3, <1>t
    <2> QED BY <2>1, <2>2
  <1>8. Sanos(k)
    BY <1>1, <1>2, <1>6, <1>7, <1>t DEF Sanos
  <1>9. Cuida(kernel, k)
    BY <1>1, <1>2, <1>3, <1>8 DEF Cuida, Acaba
  <1>10. ASSUME NEW i \in DOMAIN k.nuevos
         PROVE  k.nuevos[i].pid # n.pid
    <2>1. i \in DOMAIN t /\ k.nuevos[i] = t[i]
      BY <1>2, <1>10, <1>t
    <2>2. i \in Nat /\ i >= 1
      BY <2>1, <1>2, <1>3, <1>t
    <2>3. i + 1 # 1
      BY <2>2
    <2>4. kernel.nuevos[i + 1].pid # kernel.nuevos[1].pid
      BY <2>1, <2>3, <1>1, <1>4, <1>5 DEF Sanos
    <2> QED BY <2>1, <2>4, <1>2, <1>5
  <1>11. Acaba(k, n.pid) => n.pid \in k.terminados
    <2>1. kernel.estado[n.pid] = "New" \/ n.pid \in kernel.terminados
      BY <1>1, <1>2, <1>4 DEF Sanos
    <2> QED BY <2>1, <1>2 DEF Acaba
  <1>12. CASE kernel' = Envia([k EXCEPT !.estado[n.pid] = "Listo"], n.fd, <<n.pid>>)
    <2>j. PICK j : j = [k EXCEPT !.estado[n.pid] = "Listo"]
      OBVIOUS
    <2>1. Cuida(k, j) /\ j \in Estructuras
      BY <1>2, <1>3, <1>8, <1>10, <1>11, <2>j, CuidaEstado
    <2>2. Sanos(j)
      BY <2>1 DEF Cuida
    <2>3. Cuida(j, kernel')
      BY <2>1, <2>2, <2>j, <1>2, <1>12, CuidaEnvia, CodigosSonMensajes
    <2>4. Cuida(kernel, j)
      BY <2>1, <1>9, CuidaSeguido
    <2> QED BY <2>3, <2>4, CuidaSeguido
  <1>13. CASE kernel' = Envia(Sin(k, n.pid), n.fd, <<-1>>)
    <2>j. PICK j : j = Sin(k, n.pid)
      OBVIOUS
    <2>1. Cuida(k, j) /\ j \in Estructuras
      BY <1>2, <1>3, <1>8, <2>j, CuidaSin
    <2>2. Sanos(j)
      BY <2>1 DEF Cuida
    <2>3. Cuida(j, kernel')
      BY <2>1, <2>2, <2>j, <1>2, <1>13, CuidaEnvia, CodigosSonMensajes
    <2>4. Cuida(kernel, j)
      BY <2>1, <1>9, CuidaSeguido
    <2> QED BY <2>3, <2>4, CuidaSeguido
  <1> QED BY <1>1, <1>12, <1>13

LEMMA CuidaDeLosProcesos ==
  ASSUME K, DeLosProcesos, Sanos(kernel)
  PROVE  Cuida(kernel, kernel')
  <1>0. kernel \in Estructuras /\ kernel.vivo \in BOOLEAN
    BY DEF K, KInv, Base, Tipos, Estructuras
  <1>1. ASSUME NEW p \in Pids, Despachar(p)
        PROVE  Cuida(kernel, kernel')
    <2>1. /\ kernel' = [kernel EXCEPT !.estado[p] = "Exec"] /\ kernel.vivo = TRUE
          /\ kernel.estado[p] = "Listo"
      BY <1>0, <1>1 DEF Despachar, DelKernel
    <2>2. Acaba(kernel, p) => p \in kernel.terminados
      BY <2>1 DEF Acaba
    <2>3. \A i \in DOMAIN kernel.nuevos : kernel.nuevos[i].pid = p => p \in kernel.terminados
      BY <2>1 DEF Sanos
    <2> QED BY <1>0, <2>1, <2>2, <2>3, CuidaEstado
  <1>2. ASSUME NEW p \in Pids, Imprimir(p)
        PROVE  Cuida(kernel, kernel')
    <2>1. kernel.vivo = TRUE
      BY <1>0, <1>2 DEF Imprimir, DelKernel
    <2>2. buscar_consola_de_proceso(kernel, p) \in Conexiones \cup {Nada}
      BY <2>1, SuConsola DEF K
    <2>3. kernel' = Envia(kernel, buscar_consola_de_proceso(kernel, p), <<5, Largo, Texto>>)
      BY <1>2 DEF Imprimir
    <2> QED BY <1>0, <2>2, <2>3, CuidaEnvia, CodigosSonMensajes
  <1> QED BY <1>1, <1>2, CuidaAdmitirDeNew, CuidaFinDeTurno DEF DeLosProcesos

\* Who has a connection that the Kernel has not seen closed is listed with it
SuEntrada(k, cx) ==
  \A p \in Pids : \A h \in Hilos :
    k.fd_consola[p] = h /\ cx[h] # "quitada" =>
      \E i \in DOMAIN k.lista_consolas :
        k.lista_consolas[i].sock = h /\ k.lista_consolas[i].proceso = p

\* A connection is listed once
UnaEntrada(k) ==
  \A i, j \in DOMAIN k.lista_consolas :
    k.lista_consolas[i].sock = k.lista_consolas[j].sock => i = j

\* and only after it has shaken hands, until it is closed
Saludadas(k, a, cx) ==
  \A i \in DOMAIN k.lista_consolas :
    /\ ~Pide(a[k.lista_consolas[i].sock], "handshake")
    /\ cx[k.lista_consolas[i].sock] \in {"abierta", "cerrada"}

SinHuerfanos(k, cx) ==
  \A p \in Pids : \A h \in Hilos : k.fd_consola[p] = h /\ cx[h] = "quitada" => Acaba(k, p)

HInv ==
  /\ Sanos(kernel)
  /\ kernel.vivo = TRUE =>
       /\ SuEntrada(kernel, conexion)
       /\ ~Sucede("cruzada") =>
            /\ UnaEntrada(kernel) /\ Saludadas(kernel, alKernel, conexion)
            /\ SinHuerfanos(kernel, conexion)

LEMMA CuidaDeja ==
  ASSUME TInv, HInv, Cuida(kernel, kernel'), rarezas \subseteq rarezas',
         \A c \in Conexiones :
           /\ conexion[c] = "quitada" <=> conexion'[c] = "quitada"
           /\ conexion[c] \in {"abierta", "cerrada"} =>
                /\ conexion'[c] \in {"abierta", "cerrada"}
                /\ Pide(alKernel'[c], "handshake") => Pide(alKernel[c], "handshake")
  PROVE  HInv'
  <1>0. kernel.lista_consolas \in Seq([sock : Conexiones, proceso : Nat])
    BY DEF TInv, K, KInv, Base, Tipos, Estructuras
  <1>s. \A i \in DOMAIN kernel.lista_consolas : kernel.lista_consolas[i].sock \in Conexiones
    <2>1. \A i \in DOMAIN kernel.lista_consolas :
            kernel.lista_consolas[i] \in [sock : Conexiones, proceso : Nat]
      BY <1>0, ElementoDe
    <2> QED BY <2>1
  <1>h. Hilos \subseteq Conexiones
    BY DEF Conexiones
  <1> SUFFICES ASSUME kernel'.vivo = TRUE
               PROVE  /\ SuEntrada(kernel', conexion')
                      /\ ~Sucede("cruzada")' =>
                           /\ UnaEntrada(kernel') /\ Saludadas(kernel', alKernel', conexion')
                           /\ SinHuerfanos(kernel', conexion')
    <2>1. Sanos(kernel')
      BY DEF Cuida
    <2> QED BY <2>1 DEF HInv
  <1>1. /\ kernel.vivo = TRUE /\ kernel'.lista_consolas = kernel.lista_consolas
        /\ kernel'.fd_consola = kernel.fd_consola
        /\ \A p \in Pids : Acaba(kernel, p) => Acaba(kernel', p)
    BY DEF Cuida
  <1>2. SuEntrada(kernel', conexion')
    BY <1>1, <1>h DEF HInv, SuEntrada
  <1>3. ASSUME ~Sucede("cruzada")'
        PROVE  /\ UnaEntrada(kernel') /\ Saludadas(kernel', alKernel', conexion')
               /\ SinHuerfanos(kernel', conexion')
    <2>1. /\ UnaEntrada(kernel) /\ Saludadas(kernel, alKernel, conexion)
          /\ SinHuerfanos(kernel, conexion)
      BY <1>1, <1>3 DEF HInv, Sucede
    <2>2. UnaEntrada(kernel')
      BY <2>1, <1>1 DEF UnaEntrada
    <2>3. Saludadas(kernel', alKernel', conexion')
      BY <2>1, <1>1, <1>s DEF Saludadas
    <2>4. SinHuerfanos(kernel', conexion')
      BY <2>1, <1>1, <1>h DEF SinHuerfanos
    <2> QED BY <2>2, <2>3, <2>4
  <1> QED BY <1>2, <1>3

LEMMA LeePide ==
  ASSUME K, NEW c \in Conexiones, alKernel[c] # <<>>,
         alKernel' = [alKernel EXCEPT ![c] = Tail(@)]
  PROVE  /\ \A d \in Conexiones : \A que : Pide(alKernel'[d], que) => Pide(alKernel[d], que)
         /\ ~Pide(alKernel'[c], Head(alKernel[c])[1])
         /\ Pide(alKernel[c], Head(alKernel[c])[1])
         /\ \A d \in Conexiones : d # c => alKernel'[d] = alKernel[d]
  <1>s. PICK s : s = alKernel[c]
    OBVIOUS
  <1>1. ColaBien(s, c) /\ s # <<>> /\ DOMAIN alKernel = Conexiones
    BY <1>s DEF K, KInv, Base, Tipos
  <1>2. alKernel'[c] = Tail(s) /\ \A d \in Conexiones : d # c => alKernel'[d] = alKernel[d]
    BY <1>1, <1>s
  <1>3. (\A que : Pide(Tail(s), que) => Pide(s, que)) /\ ~Pide(Tail(s), Head(s)[1])
    BY <1>1, RestoDeCola
  <1>4. Pide(s, Head(s)[1])
    <2>1. s \in Seq(Pedidos)
      BY <1>1 DEF ColaBien
    <2>2. 1 \in DOMAIN s /\ Head(s) = s[1]
      BY <2>1, <1>1
    <2> QED BY <2>2 DEF Pide
  <1>5. ASSUME NEW d \in Conexiones, NEW que, Pide(alKernel'[d], que)
        PROVE  Pide(alKernel[d], que)
    <2>1. CASE d = c
      BY <2>1, <1>2, <1>3, <1>5, <1>s
    <2>2. CASE d # c
      BY <2>2, <1>2, <1>5
    <2> QED BY <2>1, <2>2
  <1> QED BY <1>2, <1>3, <1>4, <1>5, <1>s

LEMMA AceptarH ==
  ASSUME TInv, HInv, NEW c \in Conexiones, sock_accept_new_connection(c)
  PROVE  HInv'
  <1>0. K /\ kernel \in Estructuras
    BY DEF TInv, K, KInv, Base, Tipos
  <1>1. /\ alKernel[c] # <<>> /\ alKernel' = [alKernel EXCEPT ![c] = Tail(@)]
        /\ kernel' = [kernel EXCEPT !.newfd = c]
        /\ conexion' = conexion /\ rarezas' = rarezas
    BY DEF sock_accept_new_connection
  <1>2. /\ kernel'.vivo = kernel.vivo /\ kernel'.lista_consolas = kernel.lista_consolas
        /\ kernel'.fd_consola = kernel.fd_consola /\ kernel'.borrar = kernel.borrar
        /\ kernel'.nuevos = kernel.nuevos /\ kernel'.estado = kernel.estado
        /\ kernel'.terminados = kernel.terminados
    BY <1>0, <1>1 DEF Estructuras
  <1>3. Cuida(kernel, kernel')
    BY <1>2 DEF HInv, Cuida, Sanos, Acaba
  <1>4. \A d \in Conexiones : \A que : Pide(alKernel'[d], que) => Pide(alKernel[d], que)
    BY <1>0, <1>1, LeePide
  <1> QED BY <1>1, <1>3, <1>4, CuidaDeja

LEMMA EliminarH ==
  ASSUME TInv, HInv, NEW c \in Conexiones, EliminarProceso(c)
  PROVE  HInv'
  <1>p. PICK p : p = Head(alKernel[c])[2]
    OBVIOUS
  <1>0. K /\ kernel.vivo \in BOOLEAN
    BY DEF TInv, K, KInv, Base, Tipos, Estructuras
  <1>1. /\ alKernel[c] # <<>> /\ Head(alKernel[c])[1] = "eliminar" /\ kernel.vivo = TRUE
        /\ alKernel' = [alKernel EXCEPT ![c] = Tail(@)]
        /\ kernel' = Terminar(kernel, p, -7, TRUE, c) /\ conexion' = conexion
        /\ rarezas \subseteq rarezas'
    BY <1>0, <1>p DEF EliminarProceso, DelKernel, Lee, SegundaMarca, Rareza
  <1>2. p \in Pids
    <2>s. PICK s : s = alKernel[c]
      OBVIOUS
    <2>1. ColaBien(s, c) /\ s # <<>> /\ Head(s)[1] = "eliminar" /\ p = Head(s)[2]
      BY <2>s, <1>1, <1>p, <1>0 DEF K, KInv, Base, Tipos
    <2>2. Head(s)[1] = "eliminar" => c = Fin /\ Head(s)[2] \in Pids
      BY <2>1, RestoDeCola
    <2> QED BY <2>1, <2>2
  <1>3. Cuida(kernel, kernel')
    BY <1>0, <1>1, <1>2, CuidaTerminarOMarcar DEF K, HInv
  <1>4. \A d \in Conexiones : \A que : Pide(alKernel'[d], que) => Pide(alKernel[d], que)
    BY <1>0, <1>1, LeePide
  <1> QED BY <1>1, <1>3, <1>4, CuidaDeja

\* Who is listed is who has just shaken hands, unless they were crossed
LEMMA HandshakeH ==
  ASSUME TInv, HInv, NEW c \in Conexiones, Handshake(c)
  PROVE  HInv'
  <1>0. /\ K /\ kernel \in Estructuras /\ kernel.vivo \in BOOLEAN
        /\ kernel.lista_consolas \in Seq([sock : Conexiones, proceso : Nat])
    BY DEF TInv, K, KInv, Base, Tipos, Estructuras
  <1>1. /\ alKernel[c] # <<>> /\ Head(alKernel[c])[1] = "handshake" /\ kernel.vivo = TRUE
        /\ alKernel' = [alKernel EXCEPT ![c] = Tail(@)] /\ conexion' = conexion
        /\ conexion[c] \in {"abierta", "cerrada"}
        /\ rarezas \subseteq rarezas' /\ (kernel.newfd # c => "cruzada" \in rarezas')
    <2>1. DelKernel /\ Lee(c, "handshake") /\ Rareza("cruzada", kernel.newfd # c)
      BY DEF Handshake
    <2> QED BY <2>1, <1>0, RarezaSuma DEF DelKernel, Lee
  <1>e. PICK e : e = [sock |-> kernel.newfd, proceso |-> 0]
    OBVIOUS
  <1>l. PICK l : l = kernel.lista_consolas
    OBVIOUS
  <1>m. PICK m : m = Append(l, e)
    OBVIOUS
  <1>2. kernel.newfd \in Conexiones /\ e \in [sock : Conexiones, proceso : Nat]
    <2>1. kernel.newfd # Nada
      BY <1>1, YaAceptado
    <2> QED BY <2>1, <1>0, <1>e DEF Estructuras
  <1>3. kernel' = [kernel EXCEPT !.lista_consolas = m]
    BY <1>e, <1>l, <1>m DEF Handshake
  <1>4. /\ kernel'.vivo = TRUE /\ kernel'.lista_consolas = m
        /\ kernel'.fd_consola = kernel.fd_consola /\ kernel'.borrar = kernel.borrar
        /\ kernel'.nuevos = kernel.nuevos /\ kernel'.estado = kernel.estado
        /\ kernel'.terminados = kernel.terminados
    BY <1>0, <1>1, <1>3 DEF Estructuras
  <1>n. PICK n : n = Len(l) + 1
    OBVIOUS
  <1>5. /\ \A j \in DOMAIN m : (j \in DOMAIN l /\ m[j] = l[j]) \/ (j = n /\ m[j] = e)
        /\ \A j \in DOMAIN l : j \in DOMAIN m /\ m[j] = l[j]
    BY <1>0, <1>2, <1>l, <1>m, <1>n, Agregar
  <1>6. /\ \A d \in Conexiones : \A que : Pide(alKernel'[d], que) => Pide(alKernel[d], que)
        /\ ~Pide(alKernel'[c], "handshake") /\ Pide(alKernel[c], "handshake")
    BY <1>0, <1>1, LeePide
  <1>7. Sanos(kernel')
    BY <1>1, <1>4 DEF HInv, Sanos
  <1>8. SuEntrada(kernel', conexion')
    <2>1. SuEntrada(kernel, conexion)
      BY <1>1 DEF HInv
    <2> QED BY <2>1, <1>1, <1>4, <1>5, <1>l DEF SuEntrada
  <1>9. ASSUME ~Sucede("cruzada")'
        PROVE  /\ UnaEntrada(kernel') /\ Saludadas(kernel', alKernel', conexion')
               /\ SinHuerfanos(kernel', conexion')
    <2>1. /\ UnaEntrada(kernel) /\ Saludadas(kernel, alKernel, conexion)
          /\ SinHuerfanos(kernel, conexion)
      BY <1>1, <1>9 DEF HInv, Sucede
    <2>2. e.sock = c
      BY <1>1, <1>9, <1>e DEF Sucede
    <2>3. \A j \in DOMAIN l : l[j].sock # c
      BY <2>1, <1>6, <1>l DEF Saludadas
    <2>4. UnaEntrada(kernel')
      <3> SUFFICES ASSUME NEW i \in DOMAIN m, NEW j \in DOMAIN m, m[i].sock = m[j].sock
                   PROVE  i = j
        BY <1>4 DEF UnaEntrada
      <3>1. CASE m[i] = l[i] /\ i \in DOMAIN l
        <4>1. m[j] = l[j] /\ j \in DOMAIN l
          BY <3>1, <1>5, <2>2, <2>3
        <4> QED BY <4>1, <3>1, <2>1, <1>l DEF UnaEntrada
      <3>2. CASE i = n /\ m[i] = e
        <4>1. j = n
          BY <3>2, <1>5, <2>2, <2>3
        <4> QED BY <4>1, <3>2
      <3> QED BY <3>1, <3>2, <1>5
    <2>5. Saludadas(kernel', alKernel', conexion')
      <3> SUFFICES ASSUME NEW i \in DOMAIN m
                   PROVE  /\ ~Pide(alKernel'[m[i].sock], "handshake")
                          /\ conexion[m[i].sock] \in {"abierta", "cerrada"}
        BY <1>1, <1>4 DEF Saludadas
      <3>1. CASE m[i] = l[i] /\ i \in DOMAIN l
        <4>1. l[i] \in [sock : Conexiones, proceso : Nat]
          BY <3>1, <1>0, <1>l, ElementoDe
        <4>2. l[i].sock \in Conexiones
          BY <4>1
        <4> QED BY <4>2, <3>1, <2>1, <1>6, <1>l DEF Saludadas
      <3>2. CASE m[i] = e
        BY <3>2, <2>2, <1>1, <1>6
      <3> QED BY <3>1, <3>2, <1>5
    <2>6. SinHuerfanos(kernel', conexion')
      BY <2>1, <1>1, <1>4 DEF SinHuerfanos, Acaba
    <2> QED BY <2>4, <2>5, <2>6
  <1> QED BY <1>7, <1>8, <1>9 DEF HInv

LEMMA QuitarSock ==
  ASSUME NEW S, NEW s \in Seq(S), NEW i \in DOMAIN s,
         \A j, m \in DOMAIN s : s[j].sock = s[m].sock => j = m
  PROVE  /\ \A x, y \in DOMAIN RemoveAt(s, i) :
              RemoveAt(s, i)[x].sock = RemoveAt(s, i)[y].sock => x = y
         /\ \A x \in DOMAIN RemoveAt(s, i) : RemoveAt(s, i)[x].sock # s[i].sock
  <1>r. PICK r : r = RemoveAt(s, i)
    OBVIOUS
  <1>1. \A j, m \in DOMAIN s : s[j] = s[m] => j = m
    OBVIOUS
  <1>2. \A x, y \in DOMAIN r : r[x] = r[y] => x = y
    BY <1>1, <1>r, QuitarInyectiva
  <1>3. \A x \in DOMAIN r : \E m \in DOMAIN s : m # i /\ r[x] = s[m]
    BY <1>r, QuitarDeja
  <1>4. ASSUME NEW x \in DOMAIN r, NEW y \in DOMAIN r, r[x].sock = r[y].sock
        PROVE  x = y
    <2>1. PICK m \in DOMAIN s : r[x] = s[m]
      BY <1>3
    <2>2. PICK w \in DOMAIN s : r[y] = s[w]
      BY <1>3
    <2>3. m = w
      BY <2>1, <2>2, <1>4
    <2> QED BY <2>1, <2>2, <2>3, <1>2
  <1>5. \A x \in DOMAIN r : r[x].sock # s[i].sock
    BY <1>3
  <1> QED BY <1>4, <1>5, <1>r

\* The only entry of the connection is that of its program, which is ended with it
LEMMA DesconectarH ==
  ASSUME TInv, HInv, NEW c \in Conexiones, Desconectar(c)
  PROVE  HInv'
  <1>i. PICK i : i = Min(Posiciones(c))
    OBVIOUS
  <1>p. PICK p : p = kernel.lista_consolas[i].proceso
    OBVIOUS
  <1>k. PICK k : k = [kernel EXCEPT !.lista_consolas = RemoveAt(@, i), !.rotas = @ \ {c}]
    OBVIOUS
  <1>s. PICK s : s = kernel.lista_consolas
    OBVIOUS
  <1>t. PICK t : t = RemoveAt(s, i)
    OBVIOUS
  <1>0. /\ K /\ kernel \in Estructuras /\ kernel.vivo \in BOOLEAN
        /\ s \in Seq([sock : Conexiones, proceso : Nat]) /\ conexion \in LasConexiones
        /\ Hilos \subseteq Conexiones
    BY <1>s DEF TInv, K, KInv, Base, Tipos, Estructuras, Conexiones
  <1>1. /\ kernel.vivo = TRUE /\ conexion[c] = "cerrada" /\ alKernel' = alKernel
        /\ conexion' = [conexion EXCEPT ![c] = "quitada"]
    BY <1>0 DEF Desconectar, DelKernel
  <1>2. kernel' = IF Posiciones(c) = {} THEN Muere(kernel)
                  ELSE IF p \in Pids THEN Terminar(k, p, -6, FALSE, c) ELSE k
    BY <1>i, <1>p, <1>k DEF Desconectar
  <1>r. rarezas \subseteq rarezas'
    BY RarezasCrecen DEF DeLaConexion
  <1>q. conexion'[c] = "quitada" /\ \A d \in Conexiones : d # c => conexion'[d] = conexion[d]
    BY <1>0, <1>1 DEF LasConexiones
  <1>3. CASE Posiciones(c) = {}
    <2>1. Caido(kernel, kernel')
      BY <1>0, <1>2, <1>3, CaidaDelKernel
    <2> QED BY <2>1 DEF Caido, HInv, Sanos
  <1>4. CASE Posiciones(c) # {}
    <2>1. /\ i \in DOMAIN s /\ s[i].sock = c
          /\ KInv(k, alKernel, hilo, conexion) /\ Parecidos(kernel, k)
          /\ k.estado = kernel.estado /\ k.lista_consolas = t
          /\ k.nuevos = kernel.nuevos /\ k.borrar = kernel.borrar
          /\ k.terminados = kernel.terminados
      BY <1>0, <1>4, <1>i, <1>k, <1>s, <1>t, SinEntrada
    <2>2. k.vivo = TRUE /\ k.fd_consola = kernel.fd_consola /\ k \in Estructuras
      BY <2>1, <1>1 DEF Parecidos
    <2>3. Sanos(k)
      BY <2>1, <2>2, <1>1 DEF HInv, Sanos
    <2>4. Cuida(k, kernel') /\ (p \in Pids /\ kernel'.vivo = TRUE => Acaba(kernel', p))
      <3>1. CASE p \in Pids
        <4>1. kernel' = Terminar(k, p, -6, FALSE, c)
          BY <3>1, <1>2, <1>4
        <4> QED BY <4>1, <3>1, <2>1, <2>2, <2>3, CuidaTerminarOMarcar
      <3>2. CASE p \notin Pids
        <4>1. kernel' = k /\ Iguales(k, k)
          BY <3>2, <2>2, <1>2, <1>4 DEF Iguales
        <4> QED BY <4>1, <3>2, <2>3, CuidaIguales
      <3> QED BY <3>1, <3>2
    <2> SUFFICES ASSUME kernel'.vivo = TRUE
                 PROVE  /\ SuEntrada(kernel', conexion')
                        /\ ~Sucede("cruzada")' =>
                             /\ UnaEntrada(kernel') /\ Saludadas(kernel', alKernel', conexion')
                             /\ SinHuerfanos(kernel', conexion')
      BY <2>4 DEF HInv, Cuida
    <2>5. /\ kernel'.lista_consolas = t /\ kernel'.fd_consola = kernel.fd_consola
          /\ \A q \in Pids : Acaba(kernel, q) => Acaba(kernel', q)
      <3>1. \A q \in Pids : Acaba(kernel, q) => Acaba(k, q)
        BY <2>1 DEF Acaba
      <3> QED BY <3>1, <2>1, <2>2, <2>4 DEF Cuida
    <2>6. \A m \in DOMAIN s : m # i => \E j \in DOMAIN t : t[j] = s[m]
      BY <1>0, <2>1, <1>t, QuitarDeja
    <2>7. SuEntrada(kernel', conexion')
      <3> SUFFICES ASSUME NEW q \in Pids, NEW h \in Hilos, kernel.fd_consola[q] = h,
                          conexion'[h] # "quitada"
                   PROVE  \E j \in DOMAIN t : t[j].sock = h /\ t[j].proceso = q
        BY <2>5 DEF SuEntrada
      <3>1. h # c /\ conexion[h] # "quitada"
        BY <1>0, <1>q
      <3>2. PICK m \in DOMAIN s : s[m].sock = h /\ s[m].proceso = q
        BY <3>1, <1>1, <1>s DEF HInv, SuEntrada
      <3>3. m # i
        BY <3>1, <3>2, <2>1
      <3> QED BY <3>2, <3>3, <2>6
    <2>8. ASSUME ~Sucede("cruzada")'
          PROVE  /\ UnaEntrada(kernel') /\ Saludadas(kernel', alKernel', conexion')
                 /\ SinHuerfanos(kernel', conexion')
      <3>1. /\ UnaEntrada(kernel) /\ Saludadas(kernel, alKernel, conexion)
            /\ SinHuerfanos(kernel, conexion)
        BY <1>1, <1>r, <2>8 DEF HInv, Sucede
      <3>2. \A j, m \in DOMAIN s : s[j].sock = s[m].sock => j = m
        BY <3>1, <1>s DEF UnaEntrada
      <3>3. /\ \A x, y \in DOMAIN t : t[x].sock = t[y].sock => x = y
            /\ \A x \in DOMAIN t : t[x].sock # c
        BY <3>2, <2>1, <1>0, <1>t, QuitarSock
      <3>4. UnaEntrada(kernel')
        BY <3>3, <2>5 DEF UnaEntrada
      <3>5. Saludadas(kernel', alKernel', conexion')
        <4> SUFFICES ASSUME NEW x \in DOMAIN t
                     PROVE  /\ ~Pide(alKernel[t[x].sock], "handshake")
                            /\ conexion'[t[x].sock] \in {"abierta", "cerrada"}
          BY <1>1, <2>5 DEF Saludadas
        <4>1. PICK m \in DOMAIN s : t[x] = s[m]
          <5>1. \A y \in DOMAIN t : \E m \in DOMAIN s : m # i /\ t[y] = s[m]
            BY <1>0, <2>1, <1>t, QuitarDeja
          <5> QED BY <5>1
        <4>2. s[m] \in [sock : Conexiones, proceso : Nat]
          BY <1>0, ElementoDe
        <4>3. s[m].sock \in Conexiones /\ s[m].sock # c
          BY <4>1, <4>2, <3>3
        <4> QED BY <4>1, <4>3, <3>1, <1>q, <1>s DEF Saludadas
      <3>6. SinHuerfanos(kernel', conexion')
        <4> SUFFICES ASSUME NEW q \in Pids, NEW h \in Hilos, kernel.fd_consola[q] = h,
                            conexion'[h] = "quitada"
                     PROVE  Acaba(kernel', q)
          BY <2>5 DEF SinHuerfanos
        <4>1. CASE h = c
          <5>1. PICK m \in DOMAIN s : s[m].sock = c /\ s[m].proceso = q
            BY <4>1, <1>1, <1>s DEF HInv, SuEntrada
          <5>2. m = i
            BY <5>1, <3>2, <2>1
          <5>3. p = q
            BY <5>1, <5>2, <1>p, <1>s
          <5> QED BY <5>3, <2>4
        <4>2. CASE h # c
          <5>1. conexion[h] = "quitada"
            BY <4>2, <1>0, <1>q
          <5> QED BY <5>1, <3>1, <2>5 DEF SinHuerfanos
        <4> QED BY <4>1, <4>2
      <3> QED BY <3>4, <3>5, <3>6
    <2> QED BY <2>7, <2>8
  <1> QED BY <1>3, <1>4

\* A program that begins is listed with its connection, in place of the entry of the handshake
LEMMA NuevoProgramaH ==
  ASSUME TInv, HInv, NEW c \in Conexiones, NuevoPrograma(c)
  PROVE  HInv'
  <1>0. /\ K /\ kernel \in Estructuras /\ kernel.vivo \in BOOLEAN
        /\ conexion \in LasConexiones /\ Hilos \subseteq Conexiones
        /\ Nada \notin Conexiones
    BY ConsolaAssumption DEF TInv, K, KInv, Base, Tipos, Estructuras, Conexiones
  <1>1. /\ alKernel[c] # <<>> /\ Head(alKernel[c])[1] = "script"
        /\ alKernel' = [alKernel EXCEPT ![c] = Tail(@)] /\ kernel.vivo = TRUE
        /\ conexion' = conexion /\ rarezas' = rarezas
        /\ conexion[c] \in {"abierta", "cerrada"}
    BY <1>0 DEF NuevoPrograma, DelKernel, Lee
  <1>2. c \in Hilos
    BY <1>1, <1>0, RestoDeCola DEF K, KInv, Base, Tipos
  <1>3. \A d \in Conexiones : \A que : Pide(alKernel'[d], que) => Pide(alKernel[d], que)
    BY <1>0, <1>1, LeePide
  <1>4. CASE Posiciones(c) = {}
    <2>1. kernel' = Muere(kernel)
      BY <1>4 DEF NuevoPrograma
    <2>2. Caido(kernel, kernel')
      BY <2>1, <1>0, CaidaDelKernel
    <2> QED BY <2>2 DEF Caido, HInv, Sanos
  <1>5. CASE kernel' = Envia(kernel, c, <<-1>>)
    <2>1. Cuida(kernel, kernel')
      BY <1>0, <1>5, CuidaEnvia, CodigosSonMensajes DEF HInv
    <2> QED BY <2>1, <1>1, <1>3, CuidaDeja
  <1>6. CASE Posiciones(c) # {} /\ kernel' # Envia(kernel, c, <<-1>>)
    <2>k. PICK k : k = create_PCB(c)
      OBVIOUS
    <2>p. PICK p : p = k.pid
      OBVIOUS
    <2>i. PICK i : i = Min(Posiciones(c))
      OBVIOUS
    <2>s. PICK s : s = kernel.lista_consolas
      OBVIOUS
    <2>t. PICK t : t = RemoveAt(s, i)
      OBVIOUS
    <2>e. PICK e : e = [sock |-> c, proceso |-> p]
      OBVIOUS
    <2>n. PICK n : n = Len(t) + 1
      OBVIOUS
    <2>l. PICK l : l = Append(t, e)
      OBVIOUS
    <2>1. /\ Base(k, alKernel', hilo, conexion) /\ p \in Pids /\ k.vivo = TRUE
          /\ kernel.fd_consola[p] = Nada /\ p = kernel.pid + 1
          /\ k.nuevos = kernel.nuevos
      BY <1>0, <1>1, <1>2, <1>6, <2>k, <2>p, CrearBien
    <2>2. k \in Estructuras /\ p \in Nat
      BY <2>1, PidsNaturales DEF Base, Tipos
    <2>3. /\ k.lista_consolas = l /\ k.borrar = kernel.borrar
          /\ k.estado = kernel.estado /\ k.terminados = kernel.terminados
          /\ k.fd_consola = [kernel.fd_consola EXCEPT ![p] = c]
      <3>1. k = [kernel EXCEPT !.pid = p, !.fd_consola = [kernel.fd_consola EXCEPT ![p] = c],
                               !.lista_consolas = l]
        BY <2>1, <2>k, <2>i, <2>s, <2>t, <2>e, <2>l DEF create_PCB
      <3> QED BY <3>1, <1>0 DEF Estructuras
    <2>f. PICK f : f = k.fd_consola
      OBVIOUS
    <2>4. f[p] = c /\ \A q \in Pids : q # p => f[q] = kernel.fd_consola[q]
      BY <1>0, <2>1, <2>3, <2>f DEF Estructuras
    <2>5. /\ s \in Seq([sock : Conexiones, proceso : Nat]) /\ i \in DOMAIN s
          /\ s[i].sock = c /\ t \in Seq([sock : Conexiones, proceso : Nat])
      <3>1. i \in DOMAIN s /\ s[i].sock = c
        BY <1>0, <1>6, <2>i, <2>s, SinEntrada
      <3>2. s \in Seq([sock : Conexiones, proceso : Nat])
        BY <1>0, <2>s DEF Estructuras
      <3> QED BY <3>1, <3>2, <2>t, Quitar
    <2>6. /\ \A x \in DOMAIN l : (x \in DOMAIN t /\ l[x] = t[x]) \/ (x = n /\ l[x] = e)
          /\ \A x \in DOMAIN t : x \in DOMAIN l /\ l[x] = t[x]
          /\ n \in DOMAIN l /\ l[n] = e
      <3>1. e \in [sock : Conexiones, proceso : Nat]
        BY <2>2, <2>e
      <3> QED BY <3>1, <2>5, <2>l, <2>n, Agregar
    <2>7. /\ \A x \in DOMAIN t : \E m \in DOMAIN s : m # i /\ t[x] = s[m]
          /\ \A m \in DOMAIN s : m # i => \E x \in DOMAIN t : t[x] = s[m]
      BY <2>5, <2>t, QuitarDeja
    <2>8. e.sock = c /\ e.proceso = p
      BY <2>e
    <2>9. SuEntrada(k, conexion)
      <3> SUFFICES ASSUME NEW q \in Pids, NEW h \in Hilos, f[q] = h, conexion[h] # "quitada"
                   PROVE  \E x \in DOMAIN l : l[x].sock = h /\ l[x].proceso = q
        BY <2>3, <2>f DEF SuEntrada
      <3>1. CASE q = p
        BY <3>1, <2>4, <2>6, <2>8
      <3>2. CASE q # p
        <4>1. kernel.fd_consola[q] = h
          BY <3>2, <2>4
        <4>2. PICK m \in DOMAIN s : s[m].sock = h /\ s[m].proceso = q
          BY <4>1, <1>1, <2>s DEF HInv, SuEntrada
        <4>3. h # c
          <5>1. Nuevo(alKernel, hilo, c)
            BY ZenonT(40), <1>0, <1>1, <1>2, LeePide DEF Nuevo
          <5>2. kernel.fd_consola[q] # c
            BY <5>1, <1>0, <1>2 DEF K, KInv, Base, Nuevos
          <5> QED BY <5>2, <4>1
        <4>4. m # i
          BY <4>2, <4>3, <2>5
        <4>5. PICK x \in DOMAIN t : t[x] = s[m]
          BY <4>4, <2>7
        <4> QED BY <4>2, <4>5, <2>6
      <3> QED BY <3>1, <3>2
    <2>10. ASSUME ~Sucede("cruzada")
           PROVE  /\ UnaEntrada(k) /\ Saludadas(k, alKernel', conexion)
                  /\ SinHuerfanos(kernel, conexion)
      <3>1. /\ UnaEntrada(kernel) /\ Saludadas(kernel, alKernel, conexion)
            /\ SinHuerfanos(kernel, conexion)
        BY <1>1, <2>10 DEF HInv
      <3>2. \A j, m \in DOMAIN s : s[j].sock = s[m].sock => j = m
        BY <3>1, <2>s DEF UnaEntrada
      <3>3. /\ \A x, y \in DOMAIN t : t[x].sock = t[y].sock => x = y
            /\ \A x \in DOMAIN t : t[x].sock # c
        <4>1. s \in Seq([sock : Conexiones, proceso : Nat]) /\ i \in DOMAIN s
          BY <2>5
        <4>2. /\ \A x, y \in DOMAIN RemoveAt(s, i) :
                   RemoveAt(s, i)[x].sock = RemoveAt(s, i)[y].sock => x = y
              /\ \A x \in DOMAIN RemoveAt(s, i) : RemoveAt(s, i)[x].sock # s[i].sock
          BY <3>2, <4>1, QuitarSock
        <4> QED BY <4>2, <2>5, <2>t
      <3>4. UnaEntrada(k)
        <4> SUFFICES ASSUME NEW x \in DOMAIN l, NEW y \in DOMAIN l, l[x].sock = l[y].sock
                     PROVE  x = y
          BY <2>3 DEF UnaEntrada
        <4>1. CASE x \in DOMAIN t /\ l[x] = t[x]
          <5>1. y \in DOMAIN t /\ l[y] = t[y]
            BY <4>1, <2>6, <2>8, <3>3
          <5> QED BY <4>1, <5>1, <3>3
        <4>2. CASE x = n /\ l[x] = e
          <5>1. y = n
            BY <4>2, <2>6, <2>8, <3>3
          <5> QED BY <4>2, <5>1
        <4> QED BY <4>1, <4>2, <2>6
      <3>5. Saludadas(k, alKernel', conexion)
        <4> SUFFICES ASSUME NEW x \in DOMAIN l
                     PROVE  /\ ~Pide(alKernel'[l[x].sock], "handshake")
                            /\ conexion[l[x].sock] \in {"abierta", "cerrada"}
          BY <2>3 DEF Saludadas
        <4>1. PICK m \in DOMAIN s : l[x].sock = s[m].sock
          BY <2>5, <2>6, <2>7, <2>8
        <4>2. s[m] \in [sock : Conexiones, proceso : Nat]
          BY <2>5, ElementoDe
        <4>3. s[m].sock \in Conexiones
          BY <4>2
        <4>4. /\ ~Pide(alKernel[s[m].sock], "handshake")
              /\ conexion[s[m].sock] \in {"abierta", "cerrada"}
          BY <3>1, <2>s DEF Saludadas
        <4> QED BY <4>1, <4>3, <4>4, <1>3
      <3> QED BY <3>1, <3>4, <3>5
    \* What is done to the new process leaves the others as they were
    <2>11. ASSUME NEW j \in Estructuras, j.lista_consolas = l, j.fd_consola = f, Sanos(j),
                  \A q \in Pids : q # p /\ Acaba(kernel, q) => Acaba(j, q),
                  NEW m \in Seq(Mensajes), kernel' = Envia(j, c, m)
           PROVE  HInv'
      <3>1. Cuida(j, kernel')
        BY <2>11, CuidaEnvia
      <3> SUFFICES ASSUME kernel'.vivo = TRUE
                   PROVE  /\ SuEntrada(kernel', conexion')
                          /\ ~Sucede("cruzada")' =>
                               /\ UnaEntrada(kernel') /\ Saludadas(kernel', alKernel', conexion')
                               /\ SinHuerfanos(kernel', conexion')
        BY <3>1 DEF HInv, Cuida
      <3>2. /\ kernel'.lista_consolas = k.lista_consolas /\ kernel'.fd_consola = f
            /\ \A q \in Pids : q # p /\ Acaba(kernel, q) => Acaba(kernel', q)
        BY <3>1, <2>3, <2>11 DEF Cuida
      <3>3. SuEntrada(kernel', conexion')
        BY <3>2, <2>9, <2>f, <1>1 DEF SuEntrada
      <3>4. ASSUME ~Sucede("cruzada")'
            PROVE  /\ UnaEntrada(kernel') /\ Saludadas(kernel', alKernel', conexion')
                   /\ SinHuerfanos(kernel', conexion')
        <4>1. /\ UnaEntrada(k) /\ Saludadas(k, alKernel', conexion)
              /\ SinHuerfanos(kernel, conexion)
          BY <2>10, <3>4, <1>1 DEF Sucede
        <4>2. UnaEntrada(kernel') /\ Saludadas(kernel', alKernel', conexion')
          BY <4>1, <3>2, <1>1 DEF UnaEntrada, Saludadas
        <4>3. ASSUME NEW q \in Pids, NEW h \in Hilos, f[q] = h, conexion[h] = "quitada"
              PROVE  Acaba(kernel', q)
          <5>1. q # p
            BY <4>3, <2>4, <1>1
          <5> QED BY <5>1, <4>1, <4>3, <2>4, <3>2 DEF SinHuerfanos
        <4>4. SinHuerfanos(kernel', conexion')
          BY <4>3, <3>2, <1>1 DEF SinHuerfanos
        <4> QED BY <4>2, <4>4
      <3> QED BY <3>3, <3>4
    <2>12. Sanos(k)
      BY <2>1, <2>3, <1>1 DEF HInv, Sanos
    <2>13. \A q \in Pids : Acaba(kernel, q) => Acaba(k, q)
      BY <2>3 DEF Acaba
    <2>14. ASSUME NEW x \in DOMAIN k.nuevos
           PROVE  k.nuevos[x].pid \in Pids \ {p}
      <3>1. kernel.nuevos \in Seq([pid : Pids, fd : Conexiones])
        BY <1>0 DEF Estructuras
      <3>2. kernel.nuevos[x] \in [pid : Pids, fd : Conexiones]
        BY <3>1, <2>1, <2>14, ElementoDe
      <3>3. kernel.fd_consola[kernel.nuevos[x].pid] = kernel.nuevos[x].fd
        BY <1>0, <2>1, <2>14 DEF K, KInv, Base, Entradas
      <3>4. kernel.nuevos[x].fd # Nada /\ kernel.nuevos[x].pid \in Pids
        BY <3>2, <1>0
      <3> QED BY <3>3, <3>4, <2>1
    <2>15. ASSUME NEW x \in {"New", "Listo"}, NEW g, g = [k.estado EXCEPT ![p] = x]
           PROVE  /\ g \in [Pids -> {"NoExiste", "New", "Listo", "Exec", "Exit"}]
                  /\ g[p] = x /\ \A q \in Pids : q # p => g[q] = k.estado[q]
                  /\ \A q \in Pids : g[q] = "Exit" => q \in k.terminados
                  /\ \A y \in DOMAIN k.nuevos :
                       g[k.nuevos[y].pid] = "New" \/ k.nuevos[y].pid \in k.terminados
      <3>1. /\ g \in [Pids -> {"NoExiste", "New", "Listo", "Exec", "Exit"}]
            /\ g[p] = x /\ \A q \in Pids : q # p => g[q] = k.estado[q]
        BY <2>1, <2>2, <2>15 DEF Estructuras
      <3>2. \A q \in Pids : g[q] = "Exit" => q \in k.terminados
        BY <3>1, <2>1, <2>12 DEF Sanos
      <3>3. \A y \in DOMAIN k.nuevos :
              g[k.nuevos[y].pid] = "New" \/ k.nuevos[y].pid \in k.terminados
        BY <3>1, <2>1, <2>12, <2>14 DEF Sanos
      <3> QED BY <3>1, <3>2, <3>3
    <2>16. CASE kernel' = Envia([k EXCEPT !.estado[p] = "Listo"], c, <<p>>)
      <3>j. PICK j : j = [k EXCEPT !.estado[p] = "Listo"]
        OBVIOUS
      <3>g. PICK g : g = [k.estado EXCEPT ![p] = "Listo"]
        OBVIOUS
      <3>1. j = [k EXCEPT !.estado = g]
        BY <3>j, <3>g
      <3>2. /\ g \in [Pids -> {"NoExiste", "New", "Listo", "Exec", "Exit"}]
            /\ g[p] = "Listo" /\ \A q \in Pids : q # p => g[q] = k.estado[q]
            /\ \A q \in Pids : g[q] = "Exit" => q \in k.terminados
            /\ \A y \in DOMAIN k.nuevos :
                 g[k.nuevos[y].pid] = "New" \/ k.nuevos[y].pid \in k.terminados
        BY <2>15, <3>g
      <3>3. /\ j \in Estructuras /\ j.vivo = TRUE /\ j.lista_consolas = l
            /\ j.fd_consola = f /\ j.nuevos = k.nuevos /\ j.borrar = k.borrar
            /\ j.estado = g /\ j.terminados = k.terminados
        BY <2>1, <2>2, <2>3, <2>f, <3>1, <3>2 DEF Estructuras
      <3>4. Sanos(j)
        BY <3>2, <3>3, <2>1, <2>12 DEF Sanos
      <3>5. \A q \in Pids : q # p /\ Acaba(kernel, q) => Acaba(j, q)
        BY <3>2, <3>3, <2>13 DEF Acaba
      <3>6. <<p>> \in Seq(Mensajes)
        BY <2>1, CodigosSonMensajes
      <3> QED BY <3>3, <3>4, <3>5, <3>6, <3>j, <2>11, <2>16
    <2>17. CASE kernel' = Envia([k EXCEPT !.estado[p] = "Exit", !.terminados = @ \cup {p}],
                                c, <<-1>>)
      <3>j. PICK j : j = Sin(k, p)
        OBVIOUS
      <3>1. Cuida(k, j) /\ j.vivo = TRUE /\ j \in Estructuras
        BY <2>1, <2>2, <2>12, <3>j, CuidaSin
      <3>2. Sanos(j) /\ j.lista_consolas = l /\ j.fd_consola = f
        BY <3>1, <2>3, <2>f DEF Cuida
      <3>3. \A q \in Pids : q # p /\ Acaba(kernel, q) => Acaba(j, q)
        BY <3>1, <2>13 DEF Cuida
      <3>4. kernel' = Envia(j, c, <<-1>>)
        BY <2>17, <3>j DEF Sin
      <3> QED BY <3>1, <3>2, <3>3, <3>4, <2>11, CodigosSonMensajes
    <2>18. CASE kernel' = Envia([k EXCEPT !.estado[p] = "New",
                                          !.nuevos = Append(@, [pid |-> p, fd |-> c])], c, <<p>>)
      <3>j. PICK j : j = [k EXCEPT !.estado[p] = "New",
                                   !.nuevos = Append(@, [pid |-> p, fd |-> c])]
        OBVIOUS
      <3>g. PICK g : g = [k.estado EXCEPT ![p] = "New"]
        OBVIOUS
      <3>x. PICK x : x = [pid |-> p, fd |-> c]
        OBVIOUS
      <3>u. PICK u : u = k.nuevos
        OBVIOUS
      <3>n. PICK w : w = Append(u, x)
        OBVIOUS
      <3>1. j = [k EXCEPT !.estado = g, !.nuevos = w]
        BY <3>j, <3>g, <3>x, <3>u, <3>n
      <3>2. /\ g \in [Pids -> {"NoExiste", "New", "Listo", "Exec", "Exit"}]
            /\ g[p] = "New" /\ \A q \in Pids : q # p => g[q] = k.estado[q]
            /\ \A q \in Pids : g[q] = "Exit" => q \in k.terminados
            /\ \A y \in DOMAIN k.nuevos :
                 g[k.nuevos[y].pid] = "New" \/ k.nuevos[y].pid \in k.terminados
        BY <2>15, <3>g
      <3>3. /\ x \in [pid : Pids, fd : Conexiones] /\ x.pid = p
            /\ u \in Seq([pid : Pids, fd : Conexiones])
        BY <2>1, <2>2, <3>x, <3>u DEF Estructuras
      <3>m. PICK z : z = Len(u) + 1
        OBVIOUS
      <3>4. /\ w \in Seq([pid : Pids, fd : Conexiones])
            /\ \A y \in DOMAIN w : (y \in DOMAIN u /\ w[y] = u[y]) \/ (y = z /\ w[y] = x)
        BY <3>3, <3>n, <3>m, Agregar
      <3>5. /\ j \in Estructuras /\ j.vivo = TRUE /\ j.lista_consolas = l
            /\ j.fd_consola = f /\ j.nuevos = w /\ j.borrar = k.borrar
            /\ j.estado = g /\ j.terminados = k.terminados
        BY <2>1, <2>2, <2>3, <2>f, <3>1, <3>2, <3>4 DEF Estructuras
      <3>6. \A y \in DOMAIN w : g[w[y].pid] = "New" \/ w[y].pid \in k.terminados
        BY <3>2, <3>3, <3>4, <3>u
      <3>7. \A y, v \in DOMAIN w : w[y].pid = w[v].pid => y = v
        <4> SUFFICES ASSUME NEW y \in DOMAIN w, NEW v \in DOMAIN w, w[y].pid = w[v].pid
                     PROVE  y = v
          OBVIOUS
        <4>1. \A a \in DOMAIN u : u[a].pid # p
          BY <2>14, <3>u
        <4>2. \A a, b \in DOMAIN u : u[a].pid = u[b].pid => a = b
          BY <2>1, <2>12, <3>u DEF Sanos
        <4>3. CASE y \in DOMAIN u /\ w[y] = u[y]
          <5>1. v \in DOMAIN u /\ w[v] = u[v]
            BY <4>1, <4>3, <3>3, <3>4
          <5> QED BY <5>1, <4>2, <4>3
        <4>4. CASE y = z /\ w[y] = x
          <5>1. v = z
            BY <4>1, <4>4, <3>3, <3>4
          <5> QED BY <5>1, <4>4
        <4> QED BY <4>3, <4>4, <3>4
      <3>8. Sanos(j)
        BY <3>2, <3>5, <3>6, <3>7 DEF Sanos
      <3>9. \A q \in Pids : q # p /\ Acaba(kernel, q) => Acaba(j, q)
        BY <3>2, <3>5, <2>13 DEF Acaba
      <3>10. <<p>> \in Seq(Mensajes)
        BY <2>1, CodigosSonMensajes
      <3> QED BY <3>5, <3>8, <3>9, <3>10, <3>j, <2>11, <2>18
    <2> QED BY <1>6, <2>k, <2>p, <2>16, <2>17, <2>18 DEF NuevoPrograma
  <1> QED BY <1>4, <1>5, <1>6

\* The Consola opens and closes its connections, but only the Kernel removes them
LEMMA AbreH ==
  ASSUME TInv, HInv, NEW c \in Conexiones, NEW m, Abre(c, m), conexion[c] = "nada",
         kernel' = kernel, rarezas \subseteq rarezas'
  PROVE  HInv'
  <1>1. conexion \in LasConexiones /\ DOMAIN alKernel = Conexiones /\ Iguales(kernel, kernel)
    BY DEF TInv, K, KInv, Base, Tipos, Iguales
  <1>2. /\ conexion'[c] = "abierta"
        /\ \A d \in Conexiones : d # c => conexion'[d] = conexion[d] /\ alKernel'[d] = alKernel[d]
    BY <1>1 DEF Abre, LasConexiones
  <1>3. Cuida(kernel, kernel')
    BY <1>1, CuidaIguales DEF HInv
  <1>4. ASSUME NEW d \in Conexiones
        PROVE  /\ conexion[d] = "quitada" <=> conexion'[d] = "quitada"
               /\ conexion[d] \in {"abierta", "cerrada"} =>
                    /\ conexion'[d] \in {"abierta", "cerrada"}
                    /\ Pide(alKernel'[d], "handshake") => Pide(alKernel[d], "handshake")
    <2>1. CASE d = c
      BY <2>1, <1>2
    <2>2. CASE d # c
      BY <2>2, <1>2
    <2> QED BY <2>1, <2>2
  <1> QED BY <1>3, <1>4, CuidaDeja

LEMMA InternoH ==
  ASSUME TInv, HInv, Interno, rarezas \subseteq rarezas'
  PROVE  HInv'
  <1>1. Cuida(kernel, kernel')
    BY CuidaIguales DEF HInv, Interno
  <1>2. ASSUME NEW c \in Conexiones
        PROVE  /\ conexion[c] = "quitada" <=> conexion'[c] = "quitada"
               /\ conexion[c] \in {"abierta", "cerrada"} =>
                    /\ conexion'[c] \in {"abierta", "cerrada"}
                    /\ Pide(alKernel'[c], "handshake") => Pide(alKernel[c], "handshake")
    <2>1. /\ conexion[c] = "nada" <=> conexion'[c] = "nada"
          /\ conexion[c] = "quitada" <=> conexion'[c] = "quitada"
          /\ alKernel' = alKernel
          /\ conexion'[c] \in {"nada", "abierta", "cerrada", "quitada"}
      BY DEF Interno, LasConexiones
    <2> QED BY <2>1
  <1> QED BY <1>1, <1>2, CuidaDeja

LEMMA RarezasDeLaConsola ==
  /\ \A h \in Hilos : Paso(h) => rarezas \subseteq rarezas'
  /\ MainSigue \/ Salir => rarezas \subseteq rarezas'
  /\ \A saliendo \in BOOLEAN : desconectar_consola(saliendo) => rarezas \subseteq rarezas'
  <1>1. ASSUME NEW h \in Hilos, Paso(h)
        PROVE  rarezas \subseteq rarezas'
    BY <1>1 DEF Paso, RecibirPid, CodigoRecibido, MensajeRecibido, SinConexion, Recibe,
                DeLaConsola, TomarDimension, MirarEntrada, SacarEntrada, Caen, Rareza
  <1>2. ASSUME MainSigue \/ Salir
        PROVE  rarezas \subseteq rarezas'
    BY <1>2 DEF MainSigue, RecibirRespuesta, DesconectarHilo, Salir, Caen
  <1>3. ASSUME NEW saliendo \in BOOLEAN, desconectar_consola(saliendo)
        PROVE  rarezas \subseteq rarezas'
    BY <1>3 DEF desconectar_consola, Rareza
  <1> QED BY <1>1, <1>2, <1>3

LEMMA HInicial == Init => HInv
  <1> SUFFICES ASSUME Init
               PROVE  HInv
    OBVIOUS
  <1>1. /\ kernel.lista_consolas = <<>> /\ kernel.nuevos = <<>>
        /\ kernel.estado = [p \in Pids |-> "NoExiste"]
        /\ kernel.fd_consola = [p \in Pids |-> Nada]
    BY DEF Init, EnBlanco
  <1>2. Sanos(kernel)
    BY <1>1 DEF Sanos
  <1>3. \A p \in Pids : kernel.fd_consola[p] = Nada
    BY <1>1
  <1>4. \A p \in Pids : \A h \in Hilos : kernel.fd_consola[p] # h
    BY <1>3, ConsolaAssumption
  <1>5. SuEntrada(kernel, conexion) /\ SinHuerfanos(kernel, conexion)
    BY <1>4 DEF SuEntrada, SinHuerfanos
  <1>6. UnaEntrada(kernel) /\ Saludadas(kernel, alKernel, conexion)
    BY <1>1 DEF UnaEntrada, Saludadas
  <1> QED BY <1>2, <1>5, <1>6 DEF HInv

LEMMA HPaso == TInv /\ HInv /\ [Next]_vars => HInv'
  <1> SUFFICES ASSUME TInv, HInv, [Next]_vars
               PROVE  HInv'
    OBVIOUS
  <1>0. K /\ AvisadosBien /\ ListaTipos
    BY DEF TInv
  <1>1. ASSUME NEW c \in Conexiones, DeLaConexion(c)
        PROVE  HInv'
    BY <1>1, AceptarH, HandshakeH, NuevoProgramaH, EliminarH, DesconectarH DEF DeLaConexion
  <1>2. CASE DeLosProcesos
    <2>1. Cuida(kernel, kernel')
      BY <1>0, <1>2, CuidaDeLosProcesos DEF HInv
    <2>2. conexion' = conexion /\ alKernel' = alKernel
      BY <1>2 DEF DeLosProcesos, AdmitirDeNew, Despachar, Imprimir, FinDeTurno, FinDeRafaga,
                  Finalizado, Abortar
    <2>3. rarezas \subseteq rarezas'
      BY <1>2, RarezasCrecen
    <2> QED BY <2>1, <2>2, <2>3, CuidaDeja
  <1>3. ASSUME NEW p \in Pids, finalizar_programa(p)
        PROVE  HInv'
    <2>1. /\ kernel' = kernel /\ rarezas' = rarezas /\ conexion[Fin] = "nada"
          /\ Abre(Fin, <<<<"eliminar", p>>>>) /\ Fin \in Conexiones
      BY <1>3 DEF finalizar_programa, Conexiones
    <2> QED BY <2>1, AbreH
  <1>4. ASSUME NEW h \in Hilos, iniciar_programa(h)
        PROVE  HInv'
    <2>1. /\ kernel' = kernel /\ hilo[h].en = "libre" /\ h \in Conexiones
          /\ Abre(h, <<<<"script">>>>) \/ Abre(h, <<>>)
          /\ rarezas \subseteq rarezas'
      BY <1>4 DEF iniciar_programa, DeLaConsola, Rareza, Conexiones
    <2>2. conexion[h] = "nada"
      BY <2>1, <1>0 DEF K, KInv, Base, Libres
    <2> QED BY <2>1, <2>2, AbreH
  <1>5. ASSUME NEW h \in Hilos, Paso(h)
        PROVE  HInv'
    BY <1>0, <1>5, PasoHace, InternoH, RarezasDeLaConsola
  <1>6. CASE MainSigue
    <2>1. Interno
      BY <1>0, <1>6, RecibirRespuestaHace, DesconectarHiloHace DEF MainSigue
    <2> QED BY <2>1, <1>6, InternoH, RarezasDeLaConsola
  <1>7. CASE Salir
    BY <1>0, <1>7, SalirHace, InternoH, RarezasDeLaConsola
  <1>8. ASSUME NEW saliendo \in BOOLEAN, desconectar_consola(saliendo)
        PROVE  HInv'
    BY <1>0, <1>8, desconectar_consolaHace, InternoH, RarezasDeLaConsola
  <1>9. CASE UNCHANGED vars
    BY <1>9 DEF vars, HInv, Sanos, SuEntrada, UnaEntrada, Saludadas, SinHuerfanos, Acaba, Sucede
  <1> QED
    BY <1>1, <1>2, <1>3, <1>4, <1>5, <1>6, <1>7, <1>8, <1>9 DEF Next, DeLosProcesos

\* NoQuedaHuerfano: when the Kernel has seen the connection of a program closed, the program
\* is over, or marked while it executes (the 0 bytes of main, Kernel.c), unless a handshake
\* was answered for the connection that came after it.
THEOREM NingunoQuedaHuerfano == Spec => []NoQuedaHuerfano
  <1>1. TInv /\ HInv => NoQuedaHuerfano
    <2> SUFFICES ASSUME TInv, HInv, kernel.vivo, ~Sucede("cruzada"),
                        NEW p \in Pids, NEW h \in Hilos, kernel.fd_consola[p] = h,
                        conexion[h] = "quitada"
                 PROVE  \/ p \in kernel.terminados
                        \/ kernel.estado[p] = "Exec" /\ proceso_para_borrar(p)
      BY DEF NoQuedaHuerfano, Sucede
    <2>1. kernel.vivo = TRUE
      BY DEF TInv, K, KInv, Base, Tipos, Estructuras
    <2>2. Acaba(kernel, p)
      BY <2>1 DEF HInv, SinHuerfanos
    <2> QED BY <2>2 DEF Acaba, proceso_para_borrar, Marcas
  <1>2. TInv /\ HInv /\ [Next]_vars => (TInv /\ HInv)'
    BY TPaso, HPaso
  <1> QED BY <1>1, <1>2, TInicial, HInicial, PTL DEF Spec
-----------------------------------------------------------------------------
(* Who waits for what is on its way *)

\* A process whose pid is the code of a line would be taken for one
SinLineas == 5 \notin Pids

\* Every line is whole: its code, its length and its text
Cincos(s) ==
  \A i \in DOMAIN s :
    s[i] = 5 => i + 2 \in DOMAIN s /\ s[i + 1] = Largo /\ s[i + 2] = Texto

\* t is s and, at its end, what has been sent since
Sigue(s, t) ==
  /\ Len(s) <= Len(t) /\ \A i \in 1 .. Len(s) : t[i] = s[i]
  /\ Cincos(s) => Cincos(t)

\* and a 6 or a 7 is in what was sent
Aviso(s, t) == \E i \in DOMAIN t : i > Len(s) /\ t[i] \in {6, 7}

Crece(k, j) ==
  /\ j \in Estructuras
  /\ \A d \in Conexiones : Sigue(k.canal[d], j.canal[d])

LEMMA SigueIgual == \A s \in Seq(Mensajes) : Sigue(s, s)
  BY DEF Sigue

LEMMA SigueSeguido ==
  ASSUME NEW s \in Seq(Mensajes), NEW t \in Seq(Mensajes), NEW u \in Seq(Mensajes),
         Sigue(s, t), Sigue(t, u)
  PROVE  Sigue(s, u) /\ (Aviso(s, t) => Aviso(s, u)) /\ (Aviso(t, u) => Aviso(s, u))
  <1>a. PICK a : a = Len(s)
    OBVIOUS
  <1>b. PICK b : b = Len(t)
    OBVIOUS
  <1>c. PICK c : c = Len(u)
    OBVIOUS
  <1>1. /\ a \in Nat /\ b \in Nat /\ c \in Nat /\ DOMAIN t = 1 .. b /\ DOMAIN u = 1 .. c
        /\ a <= b /\ b <= c
        /\ \A i \in 1 .. a : t[i] = s[i]
        /\ \A i \in 1 .. b : u[i] = t[i]
    BY <1>a, <1>b, <1>c DEF Sigue
  <1>2. \A i \in 1 .. a : i \in 1 .. b
    BY <1>1
  <1>3. \A i \in 1 .. a : u[i] = s[i]
    BY <1>1, <1>2
  <1>4. a <= c
    BY <1>1
  <1>5. Sigue(s, u)
    BY <1>3, <1>4, <1>a, <1>c DEF Sigue
  <1>6. ASSUME Aviso(s, t)
        PROVE  Aviso(s, u)
    <2>1. PICK i \in 1 .. b : i > a /\ t[i] \in {6, 7}
      BY <1>1, <1>6, <1>a DEF Aviso
    <2>2. i \in 1 .. c /\ u[i] = t[i]
      BY <1>1, <2>1
    <2> QED BY <2>1, <2>2, <1>1, <1>a DEF Aviso
  <1>7. ASSUME Aviso(t, u)
        PROVE  Aviso(s, u)
    <2>1. PICK i \in 1 .. c : i > b /\ u[i] \in {6, 7}
      BY <1>1, <1>7, <1>b DEF Aviso
    <2>2. i > a
      BY <1>1, <2>1
    <2> QED BY <2>1, <2>2, <1>1, <1>a DEF Aviso
  <1> QED BY <1>5, <1>6, <1>7

\* What a channel is after something is sent to it
LEMMA SigueJunto ==
  ASSUME NEW s \in Seq(Mensajes), NEW m \in Seq(Mensajes), Cincos(m)
  PROVE  Sigue(s, s \o m) /\ (Codigo(m) => Aviso(s, s \o m))
  <1>a. PICK a : a = Len(s)
    OBVIOUS
  <1>b. PICK b : b = Len(m)
    OBVIOUS
  <1>t. PICK t : t = s \o m
    OBVIOUS
  <1>1. /\ a \in Nat /\ b \in Nat /\ DOMAIN s = 1 .. a /\ DOMAIN m = 1 .. b
        /\ DOMAIN t = 1 .. a + b /\ Len(t) = a + b
        /\ \A i \in 1 .. a + b : t[i] = IF i <= a THEN s[i] ELSE m[i - a]
    BY <1>a, <1>b, <1>t
  <1>2. a <= a + b /\ \A i \in 1 .. a : t[i] = s[i]
    BY <1>1
  <1>3. ASSUME Cincos(s), NEW i \in 1 .. a + b, t[i] = 5
        PROVE  i + 2 \in 1 .. a + b /\ t[i + 1] = Largo /\ t[i + 2] = Texto
    <2>1. CASE i <= a
      <3>1. i \in 1 .. a /\ s[i] = 5
        BY <2>1, <1>1, <1>3
      <3>2. i + 2 \in 1 .. a /\ s[i + 1] = Largo /\ s[i + 2] = Texto
        BY <3>1, <1>1, <1>3 DEF Cincos
      <3>3. i + 1 \in 1 .. a /\ i + 2 \in 1 .. a + b
        BY <3>1, <3>2, <1>1
      <3> QED BY <3>2, <3>3, <1>2
    <2>2. CASE ~(i <= a)
      <3>j. PICK j : j = i - a
        OBVIOUS
      <3>1. j \in 1 .. b /\ m[j] = 5 /\ i = a + j
        BY <2>2, <1>1, <1>3, <3>j
      <3>2. j + 2 \in 1 .. b /\ m[j + 1] = Largo /\ m[j + 2] = Texto
        BY <3>1, <1>1 DEF Cincos
      <3>3. /\ i + 1 \in 1 .. a + b /\ ~(i + 1 <= a) /\ (i + 1) - a = j + 1
            /\ i + 2 \in 1 .. a + b /\ ~(i + 2 <= a) /\ (i + 2) - a = j + 2
        BY <3>1, <3>2, <1>1
      <3>4. t[i + 1] = m[j + 1] /\ t[i + 2] = m[j + 2]
        BY <3>3, <1>1
      <3> QED BY <3>2, <3>3, <3>4
    <2> QED BY <2>1, <2>2
  <1>4. Cincos(s) => Cincos(t)
    BY <1>1, <1>3 DEF Cincos
  <1>5. Sigue(s, t)
    BY <1>1, <1>2, <1>4, <1>a DEF Sigue
  <1>6. ASSUME Codigo(m)
        PROVE  Aviso(s, t)
    <2>1. PICK j \in 1 .. b : m[j] \in {6, 7}
      BY <1>1, <1>6 DEF Codigo
    <2>i. PICK i : i = a + j
      OBVIOUS
    <2>2. i \in 1 .. a + b /\ ~(i <= a) /\ i - a = j /\ i > a
      BY <2>1, <2>i, <1>1
    <2>3. t[i] = m[j]
      BY <2>2, <1>1
    <2> QED BY <2>1, <2>2, <2>3, <1>1, <1>a DEF Aviso
  <1> QED BY <1>5, <1>6, <1>t

\* What is read from the front of a channel leaves what comes after
LEMMA RestoDeLineas ==
  ASSUME NEW s \in Seq(Mensajes), s # <<>>, Cincos(s)
  PROVE  /\ Cincos(Tail(s)) /\ Tail(s) \in Seq(Mensajes)
         /\ Codigo(s) /\ Head(s) \notin {6, 7} => Codigo(Tail(s))
         /\ (\E i \in 2 .. Len(s) : s[i] \in {6, 7}) => Codigo(Tail(s))
         /\ Head(s) = 5 => /\ Len(Tail(s)) >= 2
                           /\ Tail(s)[1] = Largo /\ Tail(s)[2] = Texto
  <1>n. PICK n : n = Len(s)
    OBVIOUS
  <1>t. PICK t : t = Tail(s)
    OBVIOUS
  <1>1. /\ n \in Nat /\ DOMAIN s = 1 .. n /\ 1 \in 1 .. n /\ Head(s) = s[1]
        /\ t \in Seq(Mensajes) /\ Len(t) = n - 1 /\ DOMAIN t = 1 .. n - 1
        /\ \A i \in 1 .. n - 1 : t[i] = s[i + 1]
    <2>1. n \in Nat /\ DOMAIN s = 1 .. n
      BY <1>n
    <2>2. /\ t \in Seq(Mensajes) /\ 1 \in DOMAIN s /\ Head(s) = s[1] /\ Len(t) = n - 1
          /\ \A i \in 1 .. n - 1 : t[i] = s[i + 1]
      BY <1>n, <1>t, RestoDelCanal
    <2> QED BY <2>1, <2>2
  <1>2. ASSUME NEW i \in 1 .. n - 1, t[i] = 5
        PROVE  i + 2 \in 1 .. n - 1 /\ t[i + 1] = Largo /\ t[i + 2] = Texto
    <2>j. PICK j : j = i + 1
      OBVIOUS
    <2>1. j \in 1 .. n /\ s[j] = 5
      BY <1>1, <1>2, <2>j
    <2>2. j + 2 \in 1 .. n /\ s[j + 1] = Largo /\ s[j + 2] = Texto
      BY <2>1, <1>1 DEF Cincos
    <2>3. /\ i + 1 \in 1 .. n - 1 /\ (i + 1) + 1 = j + 1
          /\ i + 2 \in 1 .. n - 1 /\ (i + 2) + 1 = j + 2
      BY <2>2, <2>j, <1>1
    <2>4. t[i + 1] = s[j + 1] /\ t[i + 2] = s[j + 2]
      BY <2>3, <1>1
    <2> QED BY <2>2, <2>3, <2>4
  <1>3. Cincos(t)
    BY <1>1, <1>2 DEF Cincos
  <1>4. ASSUME NEW i \in 2 .. n, s[i] \in {6, 7}
        PROVE  Codigo(t)
    <2>1. i - 1 \in 1 .. n - 1 /\ (i - 1) + 1 = i
      BY <1>1, <1>4
    <2>2. t[i - 1] = s[i]
      BY <2>1, <1>1
    <2> QED BY <2>1, <2>2, <1>1, <1>4 DEF Codigo
  <1>5. ASSUME Codigo(s), Head(s) \notin {6, 7}
        PROVE  Codigo(t)
    <2>1. PICK i \in 1 .. n : s[i] \in {6, 7}
      BY <1>1, <1>5 DEF Codigo
    <2>2. i # 1
      BY <2>1, <1>1, <1>5
    <2>3. i \in 2 .. n
      BY <2>1, <2>2, <1>1
    <2> QED BY <2>1, <2>3, <1>4
  <1>6. ASSUME Head(s) = 5
        PROVE  Len(t) >= 2 /\ t[1] = Largo /\ t[2] = Texto
    <2>1. 1 + 2 \in 1 .. n /\ s[1 + 1] = Largo /\ s[1 + 2] = Texto
      BY <1>1, <1>6 DEF Cincos
    <2>2. 1 \in 1 .. n - 1 /\ 2 \in 1 .. n - 1 /\ n - 1 >= 2
      BY <2>1, <1>1
    <2>3. t[1] = s[1 + 1] /\ t[2] = s[1 + 2]
      BY <2>2, <1>1
    <2> QED BY <2>1, <2>2, <2>3, <1>1
  <1>7. (\E i \in 2 .. Len(s) : s[i] \in {6, 7}) => Codigo(t)
    BY <1>4, <1>n
  <1> QED BY <1>1, <1>3, <1>5, <1>6, <1>7, <1>t

\* Reading the length and the text is reading twice
LEMMA RestoDelTexto ==
  ASSUME NEW s \in Seq(Mensajes), Len(s) > 1
  PROVE  /\ s # <<>> /\ Tail(s) # <<>> /\ Tail(s) \in Seq(Mensajes)
         /\ SubSeq(s, 3, Len(s)) = Tail(Tail(s))
         /\ Head(s) = s[1] /\ Head(Tail(s)) = s[2]
  <1>n. PICK n : n = Len(s)
    OBVIOUS
  <1>t. PICK t : t = Tail(s)
    OBVIOUS
  <1>u. PICK u : u = Tail(t)
    OBVIOUS
  <1>v. PICK v : v = SubSeq(s, 3, n)
    OBVIOUS
  <1>1. n \in Nat /\ n > 1 /\ DOMAIN s = 1 .. n /\ s # <<>>
    BY <1>n
  <1>2. /\ t \in Seq(Mensajes) /\ Head(s) = s[1] /\ Len(t) = n - 1
        /\ \A i \in 1 .. n - 1 : t[i] = s[i + 1]
    BY <1>1, <1>n, <1>t, RestoDelCanal
  <1>3. t # <<>> /\ DOMAIN t = 1 .. n - 1
    BY <1>1, <1>2
  <1>4. /\ u \in Seq(Mensajes) /\ Head(t) = t[1] /\ Len(u) = Len(t) - 1
        /\ \A i \in 1 .. Len(t) - 1 : u[i] = t[i + 1]
    BY <1>2, <1>3, <1>u, RestoDelCanal
  <1>5. Len(u) = n - 2 /\ \A i \in 1 .. n - 2 : u[i] = s[i + 2]
    <2>1. Len(t) - 1 = n - 2
      BY <1>1, <1>2
    <2>2. ASSUME NEW i \in 1 .. n - 2
          PROVE  u[i] = s[i + 2]
      <3>1. i + 1 \in 1 .. n - 1 /\ (i + 1) + 1 = i + 2
        BY <1>1
      <3>2. t[i + 1] = s[(i + 1) + 1]
        BY <3>1, <1>2
      <3> QED BY <2>1, <3>1, <3>2, <1>4
    <2> QED BY <2>1, <2>2, <1>4
  <1>6. v \in Seq(Mensajes) /\ Len(v) = n - 2 /\ \A i \in 1 .. n - 2 : v[i] = s[i + 2]
    <2>1. 3 \in Int /\ n \in Int /\ \A i \in 3 .. n : s[i] \in Mensajes
      BY <1>1
    <2>2. /\ v \in Seq(Mensajes) /\ Len(v) = IF 3 <= n THEN n - 3 + 1 ELSE 0
          /\ \A i \in 1 .. n - 3 + 1 : v[i] = s[3 + i - 1]
      BY <2>1, <1>v, SubSeqProperties
    <2>3. n - 3 + 1 = n - 2 /\ \A i \in 1 .. n - 2 : 3 + i - 1 = i + 2
      BY <1>1
    <2>4. Len(v) = n - 2
      BY <2>2, <1>1
    <2> QED BY <2>2, <2>3, <2>4
  <1>7. u = v
    <2>1. \A i \in 1 .. n - 2 : u[i] = v[i]
      BY <1>5, <1>6
    <2> QED BY <2>1, <1>4, <1>5, <1>6, SeqEqual
  <1>8. Head(t) = s[2]
    <2>1. 1 \in 1 .. n - 1 /\ 1 + 1 = 2
      BY <1>1
    <2> QED BY <2>1, <1>2, <1>4
  <1> QED BY <1>1, <1>2, <1>3, <1>7, <1>8, <1>n, <1>t, <1>u, <1>v

LEMMA LineasSueltas ==
  /\ Cincos(<<>>) /\ Cincos(<<0>>) /\ Cincos(<<1>>) /\ Cincos(<<-1>>)
  /\ Cincos(<<5, Largo, Texto>>) /\ Cincos(<<6>>) /\ Cincos(<<7>>)
  /\ Codigo(<<6>>) /\ Codigo(<<7>>)
  /\ \A p : p # 5 => Cincos(<<p>>)
  <1>1. \A p : p # 5 => Cincos(<<p>>)
    BY DEF Cincos
  <1>2. Cincos(<<5, Largo, Texto>>)
    <2>s. PICK s : s = <<5, Largo, Texto>>
      OBVIOUS
    <2>1. /\ DOMAIN s = {1, 2, 3} /\ s[1] = 5 /\ s[1 + 1] = Largo /\ s[1 + 2] = Texto
          /\ s[2] = Largo /\ s[3] = Texto
      BY <2>s
    <2>2. Largo # 5 /\ Texto # 5 /\ 1 + 2 \in {1, 2, 3}
      BY DEF Largo, Texto
    <2>3. Cincos(s)
      BY <2>1, <2>2 DEF Cincos
    <2> QED BY <2>3, <2>s
  <1>3. Cincos(<<>>)
    BY DEF Cincos
  <1>4. Codigo(<<6>>) /\ Codigo(<<7>>)
    <2>1. ASSUME NEW x \in {6, 7}
          PROVE  Codigo(<<x>>)
      <3>1. DOMAIN <<x>> = {1} /\ <<x>>[1] = x
        OBVIOUS
      <3> QED BY <3>1 DEF Codigo
    <2> QED BY <2>1
  <1> QED BY <1>1, <1>2, <1>3, <1>4

\* j is k, with something sent, if it has not fallen
LEMMA EnviaDice ==
  ASSUME NEW k \in Estructuras, NEW c \in Conexiones \cup {Nada}, NEW m \in Seq(Mensajes),
         Cincos(m)
  PROVE  LET j == Envia(k, c, m)
         IN  /\ Crece(k, j) /\ (j.vivo = TRUE => Iguales(k, j))
             /\ c \in Conexiones /\ conexion[c] = "abierta" =>
                  /\ Codigo(m) => Aviso(k.canal[c], j.canal[c])
                  /\ m # <<>> => j.canal[c] # <<>>
  <1>j. PICK j : j = Envia(k, c, m)
    OBVIOUS
  <1>0. k.canal \in [Conexiones -> Seq(Mensajes)] /\ Nada \notin Conexiones
    BY ConsolaAssumption DEF Estructuras, Conexiones
  <1>1. Enviado(k, j, c, m)
    BY <1>j, EnviaHace
  <1>2. j \in Estructuras /\ (j.vivo = TRUE => Iguales(k, j))
    BY <1>1 DEF Enviado, Caido, Iguales
  <1>3. ASSUME NEW d \in Conexiones
        PROVE  Sigue(k.canal[d], j.canal[d])
    <2>1. k.canal[d] \in Seq(Mensajes)
      BY <1>0
    <2>2. j.canal[d] = k.canal[d] \/ j.canal[d] = k.canal[d] \o m
      BY <1>1, CanalesTrasEnviar
    <2> QED BY <2>1, <2>2, SigueIgual, SigueJunto
  <1>4. Crece(k, j)
    BY <1>2, <1>3 DEF Crece
  <1>5. ASSUME c \in Conexiones, conexion[c] = "abierta"
        PROVE  /\ Codigo(m) => Aviso(k.canal[c], j.canal[c])
               /\ m # <<>> => j.canal[c] # <<>>
    <2>s. PICK s : s = k.canal[c]
      OBVIOUS
    <2>1. s \in Seq(Mensajes)
      BY <1>0, <1>5, <2>s
    <2>2. j = [k EXCEPT !.canal[c] = @ \o m]
      BY <1>0, <1>5, <1>j DEF Envia
    <2>t. PICK t : t = s \o m
      OBVIOUS
    <2>4. t \in Seq(Mensajes) /\ k \in Estructuras /\ c \in Conexiones
      BY <1>5, <2>1, <2>t, ConcatProperties
    <2>3. j = Escribe(k, c, t)
      BY <2>2, <2>s, <2>t DEF Escribe
    <2>5. Iguales(k, j) /\ j.canal[c] = t
      BY <2>3, <2>4, UnCanal
    <2>6. Codigo(m) => Aviso(s, t)
      BY <2>1, <2>t, SigueJunto
    <2>7. m # <<>> => t # <<>>
      BY <2>1, <2>t, CanalMasLargo
    <2> QED BY <2>5, <2>6, <2>7, <2>s
  <1> QED BY <1>2, <1>4, <1>5, <1>j

LEMMA CreceIgual ==
  ASSUME NEW k \in Estructuras, NEW j \in Estructuras, j.canal = k.canal
  PROVE  Crece(k, j)
  BY SigueIgual DEF Crece, Estructuras

LEMMA CreceSeguido ==
  ASSUME NEW k \in Estructuras, NEW j, NEW l, Crece(k, j), Crece(j, l)
  PROVE  /\ Crece(k, l)
         /\ \A d \in Conexiones :
              Aviso(k.canal[d], j.canal[d]) \/ Aviso(j.canal[d], l.canal[d])
                => Aviso(k.canal[d], l.canal[d])
  <1>1. j \in Estructuras /\ l \in Estructuras
    BY DEF Crece
  <1>2. ASSUME NEW d \in Conexiones
        PROVE  /\ k.canal[d] \in Seq(Mensajes) /\ j.canal[d] \in Seq(Mensajes)
               /\ l.canal[d] \in Seq(Mensajes)
    BY <1>1 DEF Estructuras
  <1>3. ASSUME NEW d \in Conexiones
        PROVE  /\ Sigue(k.canal[d], l.canal[d])
               /\ Aviso(k.canal[d], j.canal[d]) \/ Aviso(j.canal[d], l.canal[d])
                    => Aviso(k.canal[d], l.canal[d])
    <2>s. PICK s : s = k.canal[d]
      OBVIOUS
    <2>t. PICK t : t = j.canal[d]
      OBVIOUS
    <2>u. PICK u : u = l.canal[d]
      OBVIOUS
    <2>1. /\ s \in Seq(Mensajes) /\ t \in Seq(Mensajes) /\ u \in Seq(Mensajes)
          /\ Sigue(s, t) /\ Sigue(t, u)
      BY <1>2, <2>s, <2>t, <2>u DEF Crece
    <2>2. Sigue(s, u) /\ (Aviso(s, t) => Aviso(s, u)) /\ (Aviso(t, u) => Aviso(s, u))
      BY <2>1, SigueSeguido
    <2> QED BY <2>2, <2>s, <2>t, <2>u
  <1> QED BY <1>1, <1>3 DEF Crece

\* Something sent is not taken back
LEMMA CreceLleno ==
  ASSUME NEW k \in Estructuras, NEW j, Crece(k, j), NEW d \in Conexiones, k.canal[d] # <<>>
  PROVE  j.canal[d] # <<>>
  <1>s. PICK s : s = k.canal[d]
    OBVIOUS
  <1>t. PICK t : t = j.canal[d]
    OBVIOUS
  <1>1. s \in Seq(Mensajes) /\ s # <<>>
    BY <1>s DEF Estructuras
  <1>2. Len(s) <= Len(t)
    BY <1>s, <1>t DEF Crece, Sigue
  <1>3. Len(s) \in Nat \ {0}
    BY <1>1
  <1>4. t # <<>>
    BY <1>2, <1>3
  <1> QED BY <1>4, <1>t

\* Who is listed is found
LEMMA BuscarEncuentra ==
  ASSUME NEW k \in Estructuras, NEW p, NEW n \in DOMAIN k.lista_consolas,
         k.lista_consolas[n].proceso = p
  PROVE  buscar_consola_de_proceso(k, p) \in Conexiones
  <1> DEFINE I == {i \in DOMAIN k.lista_consolas : k.lista_consolas[i].proceso = p}
  <1>0. k.lista_consolas \in Seq([sock : Conexiones, proceso : Nat])
    BY DEF Estructuras
  <1>1. I \in SUBSET Nat /\ I # {}
    BY <1>0
  <1>i. PICK i : i = Min(I)
    OBVIOUS
  <1>2. i \in I
    <2> HIDE DEF I
    <2> QED BY <1>1, <1>i, MinimoEsta
  <1>3. buscar_consola_de_proceso(k, p) = k.lista_consolas[i].sock
    BY <1>1, <1>i DEF buscar_consola_de_proceso
  <1>4. k.lista_consolas[i] \in [sock : Conexiones, proceso : Nat]
    BY <1>0, <1>2, ElementoDe
  <1> QED BY <1>3, <1>4

LEMMA SuConsolaEs ==
  ASSUME NEW k, NEW a, NEW hs, NEW cx, KInv(k, a, hs, cx), k.vivo = TRUE, SuEntrada(k, cx),
         NEW p \in Pids, NEW h \in Hilos, k.fd_consola[p] = h, cx[h] = "abierta"
  PROVE  buscar_consola_de_proceso(k, p) = h
  <1>0. k \in Estructuras /\ Nada \notin Conexiones
    BY ConsolaAssumption DEF KInv, Base, Tipos, Conexiones
  <1>1. PICK n \in DOMAIN k.lista_consolas : k.lista_consolas[n].proceso = p
    BY DEF SuEntrada
  <1>2. buscar_consola_de_proceso(k, p) \in Conexiones
    BY <1>0, <1>1, BuscarEncuentra
  <1> QED BY <1>0, <1>2, SuConsola

\* The Kernel goes from k to j, and the Consola of who has ended since is told
Anuncia(k, j) ==
  j.vivo = TRUE =>
    /\ k.vivo = TRUE /\ j.fd_consola = k.fd_consola
    /\ \A p \in Pids : \A h \in Hilos :
         /\ p \in j.terminados /\ p \notin k.terminados
         /\ k.fd_consola[p] = h /\ conexion[h] = "abierta"
         => Aviso(k.canal[h], j.canal[h])

\* p, and no other, has ended
Acabo(k, j, p) ==
  j.vivo = TRUE =>
    /\ j.fd_consola = k.fd_consola /\ j.lista_consolas = k.lista_consolas
    /\ j.borrar = k.borrar /\ j.nuevos = k.nuevos /\ j.pid = k.pid
    /\ j.estado[p] = "Exit" /\ \A q \in Pids : q # p => j.estado[q] = k.estado[q]
    /\ \A q \in Pids : q \in j.terminados => q \in k.terminados \/ q = p

AbiertaSuya(k, p) == \E h \in Hilos : k.fd_consola[p] = h /\ conexion[h] = "abierta"

Contesta(j) == conexion[Fin] = "abierta" /\ j.vivo = TRUE => j.canal[Fin] # <<>>

LEMMA AcaboIgual ==
  ASSUME NEW k, NEW j, NEW l, NEW p, Acabo(k, j, p), l.vivo = TRUE => Iguales(j, l)
  PROVE  Acabo(k, l, p)
  BY DEF Acabo, Iguales

LEMMA TerminarDice ==
  ASSUME NEW k, NEW a, NEW hs, KInv(k, a, hs, conexion), k.vivo = TRUE,
         NEW p \in Pids, NEW exit_code, NEW sock \in Conexiones \cup {Nada},
         NEW conectada \in BOOLEAN, conectada = TRUE => SuEntrada(k, conexion)
  PROVE  LET j == end_process(k, p, exit_code, sock, conectada)
         IN  /\ Crece(k, j) /\ Acabo(k, j, p)
             /\ conectada = TRUE \/ ~AbiertaSuya(k, p) => Anuncia(k, j)
             /\ /\ conectada = TRUE /\ sock = Fin
                /\ exit_code = -7 \/ k.estado[p] # "Exit"
                => Contesta(j)
  <1>r. PICK r : r = end_process(k, p, exit_code, sock, conectada)
    OBVIOUS
  <1>0. k \in Estructuras /\ Iguales(k, k) /\ Fin \in Conexiones /\ Hilos \subseteq Conexiones
    BY DEF KInv, Base, Tipos, Iguales, Conexiones
  <1>1. CASE k.estado[p] = "Exit"
    <2>e. PICK e : e = Envia(k, sock, <<0>>)
      OBVIOUS
    <2>1. /\ Crece(k, e) /\ (e.vivo = TRUE => Iguales(k, e))
          /\ sock \in Conexiones /\ conexion[sock] = "abierta" /\ <<0>> # <<>> =>
               e.canal[sock] # <<>>
      BY <1>0, <2>e, EnviaDice, LineasSueltas, CodigosSonMensajes
    <2>2. Crece(k, k)
      BY <1>0, CreceIgual
    <2>3. r = IF conectada /\ exit_code = -7 THEN e ELSE k
      BY <1>1, <1>r, <2>e DEF end_process
    <2>4. Crece(k, r) /\ (r.vivo = TRUE => Iguales(k, r))
      BY <2>1, <2>2, <2>3, <1>0
    <2>5. Acabo(k, r, p)
      BY <2>4, <1>1 DEF Acabo, Iguales
    <2>6. Anuncia(k, r)
      BY <2>4 DEF Anuncia, Iguales
    <2>7. ASSUME conectada = TRUE, sock = Fin, exit_code = -7
          PROVE  Contesta(r)
      <3>1. r = e
        BY <2>3, <2>7
      <3>2. <<0>> # <<>>
        OBVIOUS
      <3> QED BY <3>1, <3>2, <2>1, <2>7, <1>0 DEF Contesta
    <2> QED BY <2>4, <2>5, <2>6, <2>7, <1>1, <1>r
  <1>2. CASE k.estado[p] # "Exit"
    <2>s. PICK s : s = Sin(k, p)
      OBVIOUS
    <2>m. PICK m : m = <<IF exit_code = 0 THEN 6 ELSE 7>>
      OBVIOUS
    <2>c. PICK c : c = buscar_consola_de_proceso(s, p)
      OBVIOUS
    <2>e. PICK e : e = Envia(s, c, m)
      OBVIOUS
    <2>f. PICK f : f = Envia(e, sock, <<1>>)
      OBVIOUS
    <2>1. /\ KInv(s, a, hs, conexion) /\ s.vivo = k.vivo /\ Parecidos(k, s)
          /\ s.terminados = k.terminados \cup {p}
          /\ s.estado = [k.estado EXCEPT ![p] = "Exit"]
          /\ s.lista_consolas = k.lista_consolas /\ s.borrar = k.borrar
      BY <2>s, SinBien
    <2>2. s \in Estructuras /\ s.canal = k.canal /\ s.fd_consola = k.fd_consola /\ s.pid = k.pid
      BY <2>1 DEF Parecidos
    <2>3. s.nuevos = k.nuevos
      BY <1>0, <2>s DEF Sin, Estructuras
    <2>4. Crece(k, s)
      BY <1>0, <2>2, CreceIgual
    <2>5. s.estado[p] = "Exit" /\ \A q \in Pids : q # p => s.estado[q] = k.estado[q]
      BY <2>1, <1>0 DEF Estructuras
    <2>6. Acabo(k, s, p)
      BY <2>1, <2>2, <2>3, <2>5 DEF Acabo
    <2>7. c \in Conexiones \cup {Nada} /\ m \in Seq(Mensajes) /\ Cincos(m) /\ Codigo(m)
      <3>1. c \in Conexiones \cup {Nada}
        BY <2>1, <2>c, SuConsola
      <3>2. m = <<6>> \/ m = <<7>>
        BY <2>m
      <3> QED BY <3>1, <3>2, LineasSueltas, CodigosSonMensajes
    <2>8. /\ Crece(s, e) /\ (e.vivo = TRUE => Iguales(s, e))
          /\ c \in Conexiones /\ conexion[c] = "abierta" => Aviso(s.canal[c], e.canal[c])
      BY <2>2, <2>7, <2>e, EnviaDice
    <2>9. e \in Estructuras
      BY <2>8 DEF Crece
    <2>10. /\ Crece(e, f) /\ (f.vivo = TRUE => Iguales(e, f))
           /\ sock \in Conexiones /\ conexion[sock] = "abierta" /\ <<1>> # <<>> =>
                f.canal[sock] # <<>>
      BY <2>9, <2>f, EnviaDice, LineasSueltas, CodigosSonMensajes
    <2>11. Crece(k, e) /\ Crece(k, f)
      BY <1>0, <2>4, <2>8, <2>10, CreceSeguido
    <2>12. e.vivo = TRUE \/ f.vivo # TRUE
      BY <2>10 DEF Iguales
    <2>13. Acabo(k, e, p)
      BY <2>6, <2>8, AcaboIgual
    <2>14. Acabo(k, f, p)
      BY <2>10, <2>13, AcaboIgual
    <2>15. r = IF conectada THEN f ELSE s
      BY <1>2, <1>r, <2>s, <2>m, <2>c, <2>e, <2>f DEF end_process, Sin
    <2>16. Crece(k, r) /\ Acabo(k, r, p)
      BY <2>4, <2>6, <2>11, <2>14, <2>15
    <2>17. ASSUME r.vivo = TRUE, NEW q \in Pids, NEW h \in Hilos, q \in r.terminados,
                  q \notin k.terminados, k.fd_consola[q] = h, conexion[h] = "abierta",
                  conectada = TRUE \/ ~AbiertaSuya(k, p)
           PROVE  Aviso(k.canal[h], r.canal[h])
      <3>1. q = p
        BY <2>16, <2>17 DEF Acabo
      <3>2. conectada = TRUE
        BY <3>1, <2>17 DEF AbiertaSuya
      <3>3. r = f
        BY <3>2, <2>15
      <3>4. SuEntrada(s, conexion)
        BY <3>2, <2>1, <2>2 DEF SuEntrada
      <3>5. c = h
        <4>1. /\ s.fd_consola[p] = h /\ s.vivo = TRUE /\ KInv(s, a, hs, conexion)
              /\ SuEntrada(s, conexion) /\ conexion[h] = "abierta"
          BY <3>1, <3>4, <2>1, <2>2, <2>17
        <4>2. buscar_consola_de_proceso(s, p) = h
          BY <4>1, SuConsolaEs
        <4> QED BY <4>2, <2>c
      <3>6. Aviso(s.canal[h], e.canal[h])
        BY <3>5, <2>8, <2>17, <1>0
      <3>7. Aviso(k.canal[h], e.canal[h])
        BY <3>6, <2>2
      <3> QED BY <3>3, <3>7, <2>10, <2>11, <1>0, CreceSeguido
    <2>18. conectada = TRUE \/ ~AbiertaSuya(k, p) => Anuncia(k, r)
      BY <2>16, <2>17 DEF Anuncia, Acabo
    <2>19. ASSUME conectada = TRUE, sock = Fin
           PROVE  Contesta(r)
      <3>1. r = f
        BY <2>15, <2>19
      <3>2. <<1>> # <<>>
        OBVIOUS
      <3> QED BY <3>1, <3>2, <2>10, <2>19, <1>0 DEF Contesta
    <2> QED BY <2>16, <2>18, <2>19, <1>r
  <1> QED BY <1>1, <1>2

\* The lines are whole in every channel, and the rest of one is there for who reads it
Linea(k, hs, h) ==
  /\ Cincos(k.canal[h])
  /\ hs[h].en = "lee_texto" =>
       /\ Len(k.canal[h]) >= 2 /\ k.canal[h][1] = Largo /\ k.canal[h][2] = Texto

Lineas(k, hs) == \A h \in Hilos : Linea(k, hs, h)

\* Only a program that was given a pid has a state, ends, or is asked to end
Conocidos(k, a) ==
  /\ \A p \in Pids : k.estado[p] # "NoExiste" \/ p \in k.terminados => p <= k.pid
  /\ \A i \in DOMAIN a[Fin] : a[Fin][i][1] = "eliminar" => a[Fin][i][2] <= k.pid

\* What waits in new_queue does not run
NuevosQuietos(k) == \A i \in DOMAIN k.nuevos : k.estado[k.nuevos[i].pid] \in {"New", "Exit"}

\* Who is marked so as to tell no Consola has lost its connection
MarcasClaras(k, cx) ==
  \A i \in DOMAIN k.borrar :
    IF k.borrar[i].exit_code = -7 THEN k.borrar[i].connection = TRUE
    ELSE /\ k.fd_consola[k.borrar[i].proceso] # Nada
         /\ cx[k.fd_consola[k.borrar[i].proceso]] = "quitada"

\* What the thread of a program that is over has still to read
Avisado(k, hs, h) ==
  IF hs[h].en = "espera_pid"
  THEN /\ k.canal[h] # <<>>
       /\ k.canal[h][1] = -1 \/ \E i \in 2 .. Len(k.canal[h]) : k.canal[h][i] \in {6, 7}
  ELSE Codigo(k.canal[h])

Atiende(hs, h) == hs[h].en \in {"espera_pid", "recibe", "lee_texto"}

Enterados(k, hs, cx) ==
  \A p \in Pids : \A h \in Hilos :
    /\ p \in k.terminados /\ k.fd_consola[p] = h
    /\ cx[h] = "abierta" /\ Atiende(hs, h)
    => Avisado(k, hs, h)

\* A process has one mark, while it executes
MarcasVivas(k) ==
  /\ \A i \in DOMAIN k.borrar : k.estado[k.borrar[i].proceso] = "Exec"
  /\ \A i, j \in DOMAIN k.borrar : k.borrar[i].proceso = k.borrar[j].proceso => i = j

\* The request of the command end, its answer, or the mark that will bring it
Pendiente(k, a) ==
  \/ Pide(a[Fin], "eliminar") \/ k.canal[Fin] # <<>>
  \/ \E i \in DOMAIN k.borrar : k.borrar[i].exit_code = -7

Respondera(k, a, cx, pr) == pr.en = "espera" => cx[Fin] = "abierta" /\ Pendiente(k, a)

SinAborto == ~Sucede("aborto de un marcado")

GInv ==
  /\ Lineas(kernel, hilo)
  /\ kernel.vivo = TRUE =>
       /\ Conocidos(kernel, alKernel) /\ NuevosQuietos(kernel)
       /\ MarcasClaras(kernel, conexion)
       /\ ~Sucede("rechazo desde New") /\ SinAborto => Enterados(kernel, hilo, conexion)
       /\ ~Sucede("dos marcas") /\ SinAborto =>
            MarcasVivas(kernel) /\ Respondera(kernel, alKernel, conexion, principal)

-----------------------------------------------------------------------------
LEMMA LineasSiguen ==
  ASSUME NEW k \in Estructuras, NEW hs, NEW j, Crece(k, j), Lineas(k, hs)
  PROVE  Lineas(j, hs)
  <1> SUFFICES ASSUME NEW h \in Hilos
               PROVE  Linea(j, hs, h)
    BY DEF Lineas
  <1>s. PICK s : s = k.canal[h]
    OBVIOUS
  <1>t. PICK t : t = j.canal[h]
    OBVIOUS
  <1>1. h \in Conexiones /\ s \in Seq(Mensajes) /\ t \in Seq(Mensajes)
    BY <1>s, <1>t DEF Crece, Estructuras, Conexiones
  <1>2. Len(s) <= Len(t) /\ (\A i \in 1 .. Len(s) : t[i] = s[i]) /\ (Cincos(s) => Cincos(t))
    BY <1>1, <1>s, <1>t DEF Crece, Sigue
  <1>3. Cincos(t)
    BY <1>2, <1>s DEF Lineas, Linea
  <1>4. ASSUME hs[h].en = "lee_texto"
        PROVE  Len(t) >= 2 /\ t[1] = Largo /\ t[2] = Texto
    <2>1. Len(s) >= 2 /\ s[1] = Largo /\ s[2] = Texto
      BY <1>4, <1>s DEF Lineas, Linea
    <2>2. Len(s) \in Nat /\ Len(t) \in Nat
      BY <1>1
    <2>3. 1 \in 1 .. Len(s) /\ 2 \in 1 .. Len(s) /\ Len(t) >= 2
      BY <2>1, <2>2, <1>2
    <2> QED BY <2>1, <2>3, <1>2
  <1> QED BY <1>3, <1>4, <1>t DEF Linea

\* Who had been told still has
LEMMA AvisadoSigue ==
  ASSUME NEW k \in Estructuras, NEW hs, NEW j, Crece(k, j), NEW h \in Hilos,
         Avisado(k, hs, h)
  PROVE  Avisado(j, hs, h)
  <1>s. PICK s : s = k.canal[h]
    OBVIOUS
  <1>t. PICK t : t = j.canal[h]
    OBVIOUS
  <1>a. PICK a : a = Len(s)
    OBVIOUS
  <1>b. PICK b : b = Len(t)
    OBVIOUS
  <1>1. h \in Conexiones /\ s \in Seq(Mensajes) /\ t \in Seq(Mensajes)
    BY <1>s, <1>t DEF Crece, Estructuras, Conexiones
  <1>2. /\ a \in Nat /\ b \in Nat /\ a <= b /\ DOMAIN s = 1 .. a /\ DOMAIN t = 1 .. b
        /\ \A i \in 1 .. a : t[i] = s[i] /\ i \in 1 .. b
    <2>1. a <= b /\ \A i \in 1 .. a : t[i] = s[i]
      BY <1>1, <1>s, <1>t, <1>a, <1>b DEF Crece, Sigue
    <2>2. a \in Nat /\ b \in Nat /\ DOMAIN s = 1 .. a /\ DOMAIN t = 1 .. b
      BY <1>1, <1>a, <1>b
    <2> QED BY <2>1, <2>2
  <1>3. CASE hs[h].en = "espera_pid"
    <2>1. s # <<>> /\ (s[1] = -1 \/ \E i \in 2 .. a : s[i] \in {6, 7})
      BY <1>3, <1>s, <1>a DEF Avisado
    <2>2. a # 0
      BY <2>1, <1>1, <1>a
    <2>3. 1 \in 1 .. a /\ b # 0
      BY <2>2, <1>2
    <2>4. t # <<>>
      BY <2>3, <1>b
    <2>5. t[1] = s[1] /\ \A i \in 2 .. a : i \in 2 .. b /\ t[i] = s[i]
      BY <2>3, <1>2
    <2>6. t[1] = -1 \/ \E i \in 2 .. b : t[i] \in {6, 7}
      BY <2>1, <2>5
    <2> QED BY <2>4, <2>6, <1>3, <1>t, <1>b DEF Avisado
  <1>4. CASE hs[h].en # "espera_pid"
    <2>1. PICK i \in 1 .. a : s[i] \in {6, 7}
      BY <1>4, <1>2, <1>s DEF Avisado, Codigo
    <2>2. i \in DOMAIN t /\ t[i] \in {6, 7}
      BY <2>1, <1>2
    <2> QED BY <2>2, <1>4, <1>t DEF Avisado, Codigo
  <1> QED BY <1>3, <1>4

\* and who is told now, after something was sent to it, is
LEMMA AvisadoAhora ==
  ASSUME NEW k \in Estructuras, NEW hs, NEW j, Crece(k, j), NEW h \in Hilos,
         Aviso(k.canal[h], j.canal[h]), hs[h].en = "espera_pid" => k.canal[h] # <<>>
  PROVE  Avisado(j, hs, h)
  <1>s. PICK s : s = k.canal[h]
    OBVIOUS
  <1>t. PICK t : t = j.canal[h]
    OBVIOUS
  <1>1. h \in Conexiones /\ s \in Seq(Mensajes) /\ t \in Seq(Mensajes)
    BY <1>s, <1>t DEF Crece, Estructuras, Conexiones
  <1>2. PICK i \in DOMAIN t : i > Len(s) /\ t[i] \in {6, 7}
    BY <1>s, <1>t DEF Aviso
  <1>3. CASE hs[h].en = "espera_pid"
    <2>1. Len(s) \in Nat /\ Len(s) # 0 /\ Len(t) \in Nat /\ DOMAIN t = 1 .. Len(t)
      BY <1>1, <1>3, <1>s
    <2>2. i \in 2 .. Len(t) /\ Len(t) # 0
      BY <2>1, <1>2
    <2>3. t # <<>>
      BY <2>2
    <2> QED BY <2>2, <2>3, <1>2, <1>3, <1>t DEF Avisado
  <1>4. CASE hs[h].en # "espera_pid"
    BY <1>2, <1>4, <1>t DEF Avisado, Codigo
  <1> QED BY <1>3, <1>4

LEMMA EnteradosSiguen ==
  ASSUME NEW k, NEW a, NEW hs, NEW j, NEW cx, KInv(k, a, hs, conexion),
         Crece(k, j), Anuncia(k, j), j.vivo = TRUE,
         \A h \in Hilos : cx[h] = "abierta" => conexion[h] = "abierta",
         Enterados(k, hs, conexion)
  PROVE  Enterados(j, hs, cx)
  <1>0. k \in Estructuras
    BY DEF KInv, Base, Tipos
  <1> SUFFICES ASSUME NEW p \in Pids, NEW h \in Hilos, p \in j.terminados,
                      j.fd_consola[p] = h, cx[h] = "abierta", Atiende(hs, h)
               PROVE  Avisado(j, hs, h)
    BY DEF Enterados
  <1>1. k.vivo = TRUE /\ k.fd_consola[p] = h /\ conexion[h] = "abierta"
    BY DEF Anuncia
  <1>2. CASE p \in k.terminados
    <2>1. Avisado(k, hs, h)
      BY <1>1, <1>2 DEF Enterados
    <2> QED BY <2>1, <1>0, AvisadoSigue
  <1>3. CASE p \notin k.terminados
    <2>1. Aviso(k.canal[h], j.canal[h])
      BY <1>1, <1>3 DEF Anuncia
    <2>2. Primero(k, hs, conexion, h)
      BY DEF KInv
    <2>3. hs[h].en = "espera_pid" => k.canal[h] # <<>>
      BY <2>2, <1>1 DEF Primero
    <2> QED BY <2>1, <2>3, <1>0, AvisadoAhora
  <1> QED BY <1>2, <1>3

\* The state of p has changed, and nothing else that is looked at here
UnEstado(k, j, p) ==
  /\ j.fd_consola = k.fd_consola /\ j.pid = k.pid
  /\ j.borrar = k.borrar /\ De(j.nuevos, k.nuevos)
  /\ \A q \in Pids : q # p => j.estado[q] = k.estado[q]
  /\ \A q \in Pids : q \in j.terminados => q \in k.terminados \/ q = p

SinMarca(k, p) == \A i \in DOMAIN k.borrar : k.borrar[i].proceso # p

LEMMA DeLasColas ==
  ASSUME NEW k \in Estructuras
  PROVE  /\ \A i \in DOMAIN k.nuevos : k.nuevos[i].pid \in Pids /\ k.nuevos[i].fd \in Conexiones
         /\ \A i \in DOMAIN k.borrar : /\ k.borrar[i].proceso \in Pids
                                       /\ k.borrar[i].exit_code \in {-6, -7}
                                       /\ k.borrar[i].connection \in BOOLEAN
  <1>1. /\ k.nuevos \in Seq([pid : Pids, fd : Conexiones])
        /\ k.borrar \in Seq([proceso : Pids, exit_code : {-6, -7}, connection : BOOLEAN,
                             askeadora : Conexiones])
    BY DEF Estructuras
  <1>2. \A i \in DOMAIN k.nuevos : k.nuevos[i] \in [pid : Pids, fd : Conexiones]
    BY <1>1, ElementoDe
  <1>3. \A i \in DOMAIN k.borrar :
          k.borrar[i] \in [proceso : Pids, exit_code : {-6, -7}, connection : BOOLEAN,
                           askeadora : Conexiones]
    BY <1>1, ElementoDe
  <1> QED BY <1>2, <1>3

LEMMA EstadoDeja ==
  ASSUME NEW k \in Estructuras, NEW j, NEW a, NEW cx, NEW p \in Pids, UnEstado(k, j, p),
         p <= k.pid, Conocidos(k, a), NuevosQuietos(k), MarcasClaras(k, cx),
         \/ j.estado[p] \in {"New", "Exit"}
         \/ \A i \in DOMAIN j.nuevos : j.nuevos[i].pid # p
  PROVE  /\ Conocidos(j, a) /\ NuevosQuietos(j) /\ MarcasClaras(j, cx)
         /\ SinMarca(k, p) /\ MarcasVivas(k) => MarcasVivas(j)
  <1>1. Conocidos(j, a)
    <2>1. ASSUME NEW q \in Pids, j.estado[q] # "NoExiste" \/ q \in j.terminados
          PROVE  q <= j.pid
      BY <2>1 DEF UnEstado, Conocidos
    <2> QED BY <2>1 DEF UnEstado, Conocidos
  <1>2. NuevosQuietos(j)
    <2> SUFFICES ASSUME NEW i \in DOMAIN j.nuevos
                 PROVE  j.estado[j.nuevos[i].pid] \in {"New", "Exit"}
      BY DEF NuevosQuietos
    <2>1. PICK n \in DOMAIN k.nuevos : j.nuevos[i] = k.nuevos[n]
      BY DEF UnEstado, De
    <2>q. PICK q : q = j.nuevos[i].pid
      OBVIOUS
    <2>2. q \in Pids /\ k.estado[q] \in {"New", "Exit"}
      BY <2>1, <2>q, DeLasColas DEF NuevosQuietos
    <2>3. CASE q = p
      BY <2>3, <2>q
    <2>4. CASE q # p
      BY <2>2, <2>4, <2>q DEF UnEstado
    <2> QED BY <2>3, <2>4
  <1>3. MarcasClaras(j, cx)
    BY DEF UnEstado, MarcasClaras
  <1>4. SinMarca(k, p) /\ MarcasVivas(k) => MarcasVivas(j)
    BY DeLasColas DEF UnEstado, SinMarca, MarcasVivas
  <1> QED BY <1>1, <1>2, <1>3, <1>4

LEMMA AcaboEsEstado ==
  ASSUME NEW k, NEW j, NEW p, j.vivo = TRUE, Acabo(k, j, p)
  PROVE  UnEstado(k, j, p) /\ j.estado[p] = "Exit"
  BY DeSi DEF Acabo, UnEstado

\* What the Kernel reads, and what is left to be read
LEMMA ColaLeida ==
  ASSUME K, NEW c \in Conexiones, alKernel[c] # <<>>,
         alKernel' = [alKernel EXCEPT ![c] = Tail(@)]
  PROVE  /\ De(alKernel'[Fin], alKernel[Fin])
         /\ Head(alKernel[c])[1] # "eliminar" /\ Pide(alKernel[Fin], "eliminar") =>
              Pide(alKernel'[Fin], "eliminar")
  <1>0. Fin \in Conexiones /\ DOMAIN alKernel = Conexiones
    BY DEF K, KInv, Base, Tipos, Conexiones
  <1>1. CASE c # Fin
    BY <1>0, <1>1, DeSi
  <1>2. CASE c = Fin
    <2>s. PICK s : s = alKernel[Fin]
      OBVIOUS
    <2>n. PICK n : n = Len(s)
      OBVIOUS
    <2>t. PICK t : t = Tail(s)
      OBVIOUS
    <2>1. alKernel'[Fin] = t /\ s # <<>> /\ s \in Seq(Pedidos)
      BY <1>0, <1>2, <2>s, <2>t DEF K, KInv, Base, Tipos, ColaBien
    <2>2. /\ De(t, s) /\ t \in Seq(Pedidos) /\ Head(s) = s[1] /\ Len(t) = n - 1
          /\ \A i \in 1 .. n - 1 : t[i] = s[i + 1]
      BY <2>1, <2>n, <2>t, RestoDelCanal
    <2>3. n \in Nat /\ DOMAIN s = 1 .. n /\ DOMAIN t = 1 .. n - 1
      BY <2>1, <2>2, <2>n
    <2>4. ASSUME Head(s)[1] # "eliminar", Pide(s, "eliminar")
          PROVE  Pide(t, "eliminar")
      <3>1. PICK i \in 1 .. n : s[i][1] = "eliminar"
        BY <2>3, <2>4 DEF Pide
      <3>2. i # 1
        BY <3>1, <2>2, <2>4
      <3>3. i - 1 \in 1 .. n - 1 /\ (i - 1) + 1 = i
        BY <3>1, <3>2, <2>3
      <3>4. t[i - 1] = s[i]
        BY <3>3, <2>2
      <3> QED BY <3>1, <3>3, <3>4, <2>3 DEF Pide
    <2> QED BY <2>1, <2>2, <2>4, <1>2, <2>s
  <1> QED BY <1>1, <1>2

LEMMA PedidosConocidos ==
  ASSUME NEW k, NEW a, NEW b, Conocidos(k, a), De(b[Fin], a[Fin])
  PROVE  Conocidos(k, b)
  BY DEF Conocidos, De

\* What a step of the Kernel has to do for GInv
BienDelKernel ==
  /\ Crece(kernel, kernel')
  /\ kernel'.vivo = TRUE =>
       /\ kernel.vivo = TRUE
       /\ Conocidos(kernel', alKernel') /\ NuevosQuietos(kernel')
       /\ MarcasClaras(kernel', conexion')
       /\ /\ "rechazo desde New" \notin rarezas' /\ "aborto de un marcado" \notin rarezas'
          /\ Enterados(kernel, hilo, conexion)
          => Enterados(kernel', hilo, conexion')
       /\ /\ "dos marcas" \notin rarezas' /\ "aborto de un marcado" \notin rarezas'
          /\ MarcasVivas(kernel)
          => /\ MarcasVivas(kernel')
             /\ conexion[Fin] = "abierta" /\ Pendiente(kernel, alKernel) =>
                  conexion'[Fin] = "abierta" /\ Pendiente(kernel', alKernel')

LEMMA SigueG ==
  ASSUME TInv, GInv, BienDelKernel, DelKernel, rarezas \subseteq rarezas'
  PROVE  GInv'
  <1>0. kernel \in Estructuras /\ hilo' = hilo /\ principal' = principal
    BY DEF TInv, K, KInv, Base, Tipos, DelKernel
  <1>1. Lineas(kernel', hilo')
    BY <1>0, LineasSiguen DEF GInv, BienDelKernel
  <1>2. ASSUME kernel'.vivo = TRUE
        PROVE  /\ Conocidos(kernel', alKernel') /\ NuevosQuietos(kernel')
               /\ MarcasClaras(kernel', conexion')
    BY <1>2 DEF BienDelKernel
  <1>3. ASSUME kernel'.vivo = TRUE, "rechazo desde New" \notin rarezas',
               "aborto de un marcado" \notin rarezas'
        PROVE  Enterados(kernel', hilo', conexion')
    BY <1>0, <1>3 DEF BienDelKernel, GInv, Sucede, SinAborto
  <1>4. ASSUME kernel'.vivo = TRUE, "dos marcas" \notin rarezas',
               "aborto de un marcado" \notin rarezas'
        PROVE  MarcasVivas(kernel') /\ Respondera(kernel', alKernel', conexion', principal')
    <2>1. MarcasVivas(kernel) /\ Respondera(kernel, alKernel, conexion, principal)
      BY <1>4 DEF BienDelKernel, GInv, Sucede, SinAborto
    <2> QED BY <1>0, <1>4, <2>1 DEF BienDelKernel, Respondera
  <1> QED BY <1>1, <1>2, <1>3, <1>4 DEF GInv, Sucede, SinAborto

\* What is sent is not taken back, nor is a mark or a request
LEMMA PendienteSigue ==
  ASSUME NEW k \in Estructuras, NEW j, NEW a, NEW b, Crece(k, j), Pendiente(k, a),
         Pide(a[Fin], "eliminar") => Pide(b[Fin], "eliminar"),
         \A i \in DOMAIN k.borrar : \E n \in DOMAIN j.borrar : j.borrar[n] = k.borrar[i]
  PROVE  Pendiente(j, b)
  <1>1. Fin \in Conexiones
    BY DEF Conexiones
  <1>2. k.canal[Fin] # <<>> => j.canal[Fin] # <<>>
    BY <1>1, CreceLleno
  <1> QED BY <1>2 DEF Pendiente

LEMMA TG ==
  ASSUME TInv
  PROVE  /\ K /\ kernel \in Estructuras /\ kernel.vivo \in BOOLEAN
         /\ KInv(kernel, alKernel, hilo, conexion)
         /\ conexion \in LasConexiones /\ DOMAIN alKernel = Conexiones
         /\ Hilos \subseteq Conexiones /\ Fin \in Conexiones /\ Nada \notin Conexiones
         /\ Fin \notin Hilos
  BY ConsolaAssumption DEF TInv, K, KInv, Base, Tipos, Estructuras, Conexiones

\* The kernel but for what it sends, the list of connections and the last one accepted
LoMismo(k, j) ==
  /\ j.vivo = k.vivo /\ j.borrar = k.borrar /\ j.nuevos = k.nuevos /\ j.pid = k.pid
  /\ j.estado = k.estado /\ j.terminados = k.terminados /\ j.fd_consola = k.fd_consola

LEMMA LoMismoG ==
  ASSUME TInv, GInv, Crece(kernel, kernel'), kernel'.vivo = TRUE => LoMismo(kernel, kernel'),
         conexion' = conexion, De(alKernel'[Fin], alKernel[Fin]),
         Pide(alKernel[Fin], "eliminar") => Pide(alKernel'[Fin], "eliminar")
  PROVE  BienDelKernel
  <1> SUFFICES ASSUME kernel'.vivo = TRUE
               PROVE  BienDelKernel
    BY DEF BienDelKernel
  <1>1. LoMismo(kernel, kernel') /\ kernel.vivo = TRUE
    BY DEF LoMismo
  <1>2. Conocidos(kernel', alKernel')
    <2>1. Conocidos(kernel, alKernel')
      BY <1>1, PedidosConocidos DEF GInv
    <2> QED BY <2>1, <1>1 DEF Conocidos, LoMismo
  <1>3. NuevosQuietos(kernel') /\ MarcasClaras(kernel', conexion')
    <2>1. NuevosQuietos(kernel) /\ MarcasClaras(kernel, conexion)
      BY <1>1 DEF GInv
    <2>2. NuevosQuietos(kernel')
      BY <1>1, <2>1 DEF NuevosQuietos, LoMismo
    <2>3. MarcasClaras(kernel', conexion)
      BY <1>1, <2>1 DEF MarcasClaras, LoMismo
    <2> QED BY <2>2, <2>3
  <1>4. ASSUME Enterados(kernel, hilo, conexion)
        PROVE  Enterados(kernel', hilo, conexion')
    <2>1. Anuncia(kernel, kernel')
      BY <1>1 DEF LoMismo, Anuncia
    <2> QED BY <2>1, <1>4, TG, EnteradosSiguen
  <1>5. ASSUME MarcasVivas(kernel)
        PROVE  MarcasVivas(kernel')
    BY <1>1, <1>5 DEF MarcasVivas, LoMismo
  <1>6. ASSUME Pendiente(kernel, alKernel)
        PROVE  Pendiente(kernel', alKernel')
    <2>1. \A i \in DOMAIN kernel.borrar :
            \E n \in DOMAIN kernel'.borrar : kernel'.borrar[n] = kernel.borrar[i]
      BY <1>1 DEF LoMismo
    <2> QED BY <2>1, <1>6, TG, PendienteSigue
  <1> QED BY <1>1, <1>2, <1>3, <1>4, <1>5, <1>6 DEF BienDelKernel

\* A process p whose state changes, when it has no mark
LEMMA UnEstadoG ==
  ASSUME TInv, GInv, kernel.vivo = TRUE, NEW p \in Pids, p <= kernel.pid,
         Crece(kernel, kernel'), conexion' = conexion,
         alKernel' = alKernel \/ De(alKernel'[Fin], alKernel[Fin]),
         kernel'.vivo = TRUE =>
           /\ UnEstado(kernel, kernel', p)
           /\ \/ kernel'.estado[p] \in {"New", "Exit"}
              \/ \A i \in DOMAIN kernel'.nuevos : kernel'.nuevos[i].pid # p
           /\ /\ "rechazo desde New" \notin rarezas'
              /\ "aborto de un marcado" \notin rarezas'
              => Anuncia(kernel, kernel')
           /\ /\ "dos marcas" \notin rarezas' /\ "aborto de un marcado" \notin rarezas'
              /\ MarcasVivas(kernel)
              => /\ SinMarca(kernel, p)
                 /\ \/ Pide(alKernel[Fin], "eliminar") => Pide(alKernel'[Fin], "eliminar")
                    \/ Contesta(kernel')
  PROVE  BienDelKernel
  <1> SUFFICES ASSUME kernel'.vivo = TRUE
               PROVE  BienDelKernel
    BY DEF BienDelKernel
  <1>1. /\ UnEstado(kernel, kernel', p)
        /\ Conocidos(kernel, alKernel) /\ NuevosQuietos(kernel)
        /\ MarcasClaras(kernel, conexion)
    BY DEF GInv
  <1>2. Conocidos(kernel, alKernel')
    <2>1. De(alKernel'[Fin], alKernel[Fin])
      BY DeSi
    <2> QED BY <2>1, <1>1, PedidosConocidos
  <1>3. /\ Conocidos(kernel', alKernel') /\ NuevosQuietos(kernel')
        /\ MarcasClaras(kernel', conexion)
        /\ SinMarca(kernel, p) /\ MarcasVivas(kernel) => MarcasVivas(kernel')
    BY <1>1, <1>2, TG, EstadoDeja
  <1>4. ASSUME Enterados(kernel, hilo, conexion), "rechazo desde New" \notin rarezas',
               "aborto de un marcado" \notin rarezas'
        PROVE  Enterados(kernel', hilo, conexion')
    BY <1>4, TG, EnteradosSiguen
  <1>5. ASSUME "dos marcas" \notin rarezas', "aborto de un marcado" \notin rarezas',
               MarcasVivas(kernel), conexion[Fin] = "abierta", Pendiente(kernel, alKernel)
        PROVE  Pendiente(kernel', alKernel')
    <2>1. CASE Contesta(kernel')
      BY <1>5, <2>1 DEF Contesta, Pendiente
    <2>2. CASE Pide(alKernel[Fin], "eliminar") => Pide(alKernel'[Fin], "eliminar")
      <3>1. \A i \in DOMAIN kernel.borrar :
              \E n \in DOMAIN kernel'.borrar : kernel'.borrar[n] = kernel.borrar[i]
        BY <1>1 DEF UnEstado
      <3> QED BY <2>2, <3>1, <1>5, TG, PendienteSigue
    <2> QED BY <1>5, <2>1, <2>2
  <1> QED BY <1>3, <1>4, <1>5 DEF BienDelKernel

LEMMA AceptarG ==
  ASSUME TInv, GInv, NEW c \in Conexiones, sock_accept_new_connection(c)
  PROVE  BienDelKernel
  <1>1. /\ alKernel[c] # <<>> /\ Head(alKernel[c])[1] = "connect"
        /\ alKernel' = [alKernel EXCEPT ![c] = Tail(@)]
        /\ kernel' = [kernel EXCEPT !.newfd = c] /\ conexion' = conexion
    BY DEF sock_accept_new_connection
  <1>2. /\ LoMismo(kernel, kernel') /\ kernel'.canal = kernel.canal /\ kernel' \in Estructuras
    BY <1>1, TG DEF LoMismo, Estructuras
  <1>3. Crece(kernel, kernel')
    BY <1>2, TG, CreceIgual
  <1>4. De(alKernel'[Fin], alKernel[Fin])
        /\ (Pide(alKernel[Fin], "eliminar") => Pide(alKernel'[Fin], "eliminar"))
    BY <1>1, TG, ColaLeida
  <1> QED BY <1>1, <1>2, <1>3, <1>4, LoMismoG

LEMMA HandshakeG ==
  ASSUME TInv, GInv, NEW c \in Conexiones, Handshake(c), TInv'
  PROVE  BienDelKernel
  <1>1. /\ alKernel[c] # <<>> /\ Head(alKernel[c])[1] = "handshake"
        /\ alKernel' = [alKernel EXCEPT ![c] = Tail(@)] /\ conexion' = conexion
    BY DEF Handshake, Lee
  <1>l. PICK l : l = Append(kernel.lista_consolas, [sock |-> kernel.newfd, proceso |-> 0])
    OBVIOUS
  <1>2. kernel' = [kernel EXCEPT !.lista_consolas = l]
    BY <1>l DEF Handshake
  <1>3. LoMismo(kernel, kernel') /\ kernel'.canal = kernel.canal
    BY <1>2, TG DEF LoMismo, Estructuras
  <1>4. kernel' \in Estructuras
    BY DEF TInv, K, KInv, Base, Tipos
  <1>5. Crece(kernel, kernel')
    BY <1>3, <1>4, TG, CreceIgual
  <1>6. De(alKernel'[Fin], alKernel[Fin])
        /\ (Pide(alKernel[Fin], "eliminar") => Pide(alKernel'[Fin], "eliminar"))
    BY <1>1, TG, ColaLeida
  <1> QED BY <1>1, <1>3, <1>5, <1>6, LoMismoG

LEMMA ImprimirG ==
  ASSUME TInv, GInv, NEW p \in Pids, Imprimir(p)
  PROVE  BienDelKernel
  <1>c. PICK c : c = buscar_consola_de_proceso(kernel, p)
    OBVIOUS
  <1>1. /\ kernel.vivo = TRUE /\ kernel' = Envia(kernel, c, <<5, Largo, Texto>>)
        /\ conexion' = conexion /\ alKernel' = alKernel
    BY <1>c, TG DEF Imprimir, DelKernel
  <1>2. c \in Conexiones \cup {Nada}
    BY <1>1, <1>c, TG, SuConsola
  <1>3. Crece(kernel, kernel') /\ (kernel'.vivo = TRUE => Iguales(kernel, kernel'))
    BY <1>1, <1>2, TG, EnviaDice, LineasSueltas, CodigosSonMensajes
  <1>4. kernel'.vivo = TRUE => LoMismo(kernel, kernel')
    BY <1>3 DEF Iguales, LoMismo
  <1>5. De(alKernel'[Fin], alKernel[Fin])
    BY <1>1, DeSi
  <1> QED BY <1>1, <1>3, <1>4, <1>5, LoMismoG

LEMMA EstadoG ==
  ASSUME TInv, GInv, kernel.vivo = TRUE, NEW p \in Pids, NEW x \in LosEstados,
         kernel.estado[p] \in {"Listo", "Exec"},
         kernel' = [kernel EXCEPT !.estado[p] = x], conexion' = conexion, alKernel' = alKernel,
         MarcasVivas(kernel) => SinMarca(kernel, p)
  PROVE  BienDelKernel
  <1>j. PICK j : j = [kernel EXCEPT !.estado[p] = x]
    OBVIOUS
  <1>1. /\ Parecidos(kernel, j) /\ j.estado = [kernel.estado EXCEPT ![p] = x]
        /\ j.nuevos = kernel.nuevos /\ j.borrar = kernel.borrar
        /\ j.terminados = kernel.terminados
    BY <1>j, TG, EstadoBien
  <1>2. kernel' = j
    BY <1>j
  <1>3. \A q \in Pids : q # p => j.estado[q] = kernel.estado[q]
    BY <1>1, TG DEF Estructuras
  <1>4. /\ j \in Estructuras /\ j.canal = kernel.canal /\ j.fd_consola = kernel.fd_consola
        /\ j.pid = kernel.pid /\ j.vivo = TRUE
    BY <1>1 DEF Parecidos
  <1>5. UnEstado(kernel, j, p)
    BY <1>1, <1>3, <1>4, DeSi DEF UnEstado
  <1>6. Crece(kernel, j)
    BY <1>4, TG, CreceIgual
  <1>7. p <= kernel.pid /\ \A i \in DOMAIN j.nuevos : j.nuevos[i].pid # p
    BY <1>1 DEF GInv, Conocidos, NuevosQuietos
  <1>8. Anuncia(kernel, j)
    BY <1>1, <1>4 DEF Anuncia
  <1> QED BY <1>2, <1>5, <1>6, <1>7, <1>8, UnEstadoG

LEMMA TermG ==
  ASSUME TInv, HInv, GInv, kernel.vivo = TRUE, NEW p \in Pids, p <= kernel.pid,
         NEW x, NEW sock \in Conexiones \cup {Nada}, NEW conectada \in BOOLEAN,
         kernel' = end_process(kernel, p, x, sock, conectada), conexion' = conexion,
         De(alKernel'[Fin], alKernel[Fin]),
         conectada = TRUE \/ "aborto de un marcado" \in rarezas',
         "aborto de un marcado" \notin rarezas' /\ MarcasVivas(kernel) => SinMarca(kernel, p),
         \/ Pide(alKernel[Fin], "eliminar") => Pide(alKernel'[Fin], "eliminar")
         \/ conectada = TRUE /\ sock = Fin /\ x = -7
  PROVE  BienDelKernel
  <1>j. PICK j : j = end_process(kernel, p, x, sock, conectada)
    OBVIOUS
  <1>0. SuEntrada(kernel, conexion)
    BY DEF HInv
  <1>1. /\ Crece(kernel, j) /\ Acabo(kernel, j, p)
        /\ conectada = TRUE \/ ~AbiertaSuya(kernel, p) => Anuncia(kernel, j)
        /\ conectada = TRUE /\ sock = Fin /\ (x = -7 \/ kernel.estado[p] # "Exit")
             => Contesta(j)
    BY <1>0, <1>j, TG, TerminarDice
  <1>2. kernel' = j
    BY <1>j
  <1>3. j.vivo = TRUE => UnEstado(kernel, j, p) /\ j.estado[p] = "Exit"
    BY <1>1, AcaboEsEstado
  <1>4. \/ Pide(alKernel[Fin], "eliminar") => Pide(alKernel'[Fin], "eliminar")
        \/ Contesta(kernel')
    BY <1>1, <1>2
  <1> QED BY <1>1, <1>2, <1>3, <1>4, UnEstadoG

\* The mark is taken away with its process, and who asked for it is answered
LEMMA PorMarcaG ==
  ASSUME TInv, HInv, GInv, kernel.vivo = TRUE, NEW p \in Pids, Marcas(p) # {},
         kernel.estado[p] = "Exec", kernel' = PorMarca(p), conexion' = conexion,
         alKernel' = alKernel
  PROVE  BienDelKernel
  <1>i. PICK i : i = Min(Marcas(p))
    OBVIOUS
  <1>j. PICK j : j = [kernel EXCEPT !.borrar = RemoveAt(@, i)]
    OBVIOUS
  <1>x. PICK x : x = kernel.borrar[i].exit_code
    OBVIOUS
  <1>a. PICK avisa : avisa = kernel.borrar[i].connection
    OBVIOUS
  <1>c. PICK c : c = IF x = -7 THEN kernel.borrar[i].askeadora
                     ELSE buscar_consola_de_proceso(kernel, p)
    OBVIOUS
  <1>b. PICK b : b = kernel.borrar
    OBVIOUS
  <1>d. PICK d : d = RemoveAt(b, i)
    OBVIOUS
  <1>r. PICK r : r = PorMarca(p)
    OBVIOUS
  <1>1. r = end_process(j, p, x, c, avisa)
    BY <1>r, <1>i, <1>j, <1>x, <1>a, <1>c DEF PorMarca
  <1>2. /\ i \in DOMAIN kernel.borrar /\ kernel.borrar[i].proceso = p
        /\ KInv(j, alKernel, hilo, conexion) /\ Parecidos(kernel, j)
        /\ j.newfd = kernel.newfd /\ j.estado = kernel.estado
        /\ j.lista_consolas = kernel.lista_consolas
        /\ j.nuevos = kernel.nuevos /\ j.borrar = RemoveAt(kernel.borrar, i)
        /\ j.terminados = kernel.terminados
        /\ x \in {-6, -7}
        /\ avisa \in BOOLEAN /\ kernel.borrar[i].askeadora \in Conexiones
        /\ \/ x = -7 /\ kernel.borrar[i].askeadora = Fin
           \/ x = -6 /\ avisa = FALSE
    BY <1>i, <1>j, <1>a, <1>x, TG, LaMarca
  <1>3. c \in Conexiones \cup {Nada}
    <2>1. buscar_consola_de_proceso(kernel, p) \in Conexiones \cup {Nada}
      BY TG, SuConsola
    <2> QED BY <2>1, <1>2, <1>c
  <1>4. /\ j.vivo = TRUE /\ j.fd_consola = kernel.fd_consola /\ j \in Estructuras
        /\ j.canal = kernel.canal /\ j.pid = kernel.pid
    BY <1>2 DEF Parecidos
  <1>5. SuEntrada(j, conexion)
    BY <1>2, <1>4 DEF HInv, SuEntrada
  <1>6. /\ Crece(j, r) /\ Acabo(j, r, p)
        /\ avisa = TRUE \/ ~AbiertaSuya(j, p) => Anuncia(j, r)
        /\ avisa = TRUE /\ c = Fin /\ (x = -7 \/ j.estado[p] # "Exit") => Contesta(r)
    BY <1>1, <1>2, <1>3, <1>4, <1>5, TerminarDice
  <1>7. Crece(kernel, r)
    <2>1. Crece(kernel, j)
      BY <1>4, TG, CreceIgual
    <2> QED BY <2>1, <1>6, TG, CreceSeguido
  <1>8. (x = -7 /\ avisa = TRUE) \/ ~AbiertaSuya(j, p)
    <2>1. x = -7 => avisa = TRUE
      BY <1>2, <1>x, <1>a DEF GInv, MarcasClaras
    <2>2. x # -7 => conexion[kernel.fd_consola[p]] = "quitada"
      BY <1>2, <1>x DEF GInv, MarcasClaras
    <2>3. x # -7 => ~AbiertaSuya(j, p)
      BY <2>2, <1>4 DEF AbiertaSuya
    <2> QED BY <2>1, <2>3
  <1>9. Anuncia(kernel, r)
    <2>1. Anuncia(j, r)
      BY <1>6, <1>8
    <2> QED BY <2>1, <1>2, <1>4 DEF Anuncia
  <1>10. /\ b \in Seq([proceso : Pids, exit_code : {-6, -7}, connection : BOOLEAN,
                       askeadora : Conexiones])
         /\ i \in DOMAIN b /\ j.borrar = d
    BY <1>2, <1>b, <1>d, TG DEF Estructuras
  <1>11. /\ \A n \in DOMAIN d : \E m \in DOMAIN b : m # i /\ d[n] = b[m]
         /\ \A m \in DOMAIN b : m # i => \E n \in DOMAIN d : d[n] = b[m]
    BY <1>10, <1>d, QuitarDeja
  <1>13. Conocidos(j, alKernel) /\ NuevosQuietos(j) /\ MarcasClaras(j, conexion)
    <2>1. Conocidos(j, alKernel) /\ NuevosQuietos(j)
      BY <1>2, <1>4 DEF GInv, Conocidos, NuevosQuietos
    <2>2. \A m \in DOMAIN b :
            IF b[m].exit_code = -7 THEN b[m].connection = TRUE
            ELSE /\ j.fd_consola[b[m].proceso] # Nada
                 /\ conexion[j.fd_consola[b[m].proceso]] = "quitada"
      BY <1>4, <1>b DEF GInv, MarcasClaras
    <2>3. ASSUME NEW n \in DOMAIN d
          PROVE  IF d[n].exit_code = -7 THEN d[n].connection = TRUE
                 ELSE /\ j.fd_consola[d[n].proceso] # Nada
                      /\ conexion[j.fd_consola[d[n].proceso]] = "quitada"
      <3>1. PICK m \in DOMAIN b : d[n] = b[m]
        BY <1>11
      <3> QED BY <3>1, <2>2
    <2>4. MarcasClaras(j, conexion)
      BY <2>3, <1>10 DEF MarcasClaras
    <2> QED BY <2>1, <2>4
  <1>14. p <= j.pid
    BY <1>4 DEF GInv, Conocidos
  <1>15. ASSUME MarcasVivas(kernel)
         PROVE  SinMarca(j, p) /\ MarcasVivas(j)
    <2>1. \A m \in DOMAIN b : m # i => b[m].proceso # p
      BY <1>2, <1>15, <1>b DEF MarcasVivas
    <2>2. SinMarca(j, p)
      BY <2>1, <1>10, <1>11 DEF SinMarca
    <2>3. \A m, n \in DOMAIN b : b[m].proceso = b[n].proceso => m = n
      BY <1>15, <1>b DEF MarcasVivas
    <2>4. \A m, n \in DOMAIN d : d[m] = d[n] => m = n
      <3>1. \A m, n \in DOMAIN b : b[m] = b[n] => m = n
        BY <2>3
      <3> QED BY <3>1, <1>10, <1>d, QuitarInyectiva
    <2>5. ASSUME NEW m \in DOMAIN d, NEW n \in DOMAIN d, d[m].proceso = d[n].proceso
          PROVE  m = n
      <3>1. PICK u \in DOMAIN b : d[m] = b[u]
        BY <1>11
      <3>2. PICK v \in DOMAIN b : d[n] = b[v]
        BY <1>11
      <3>3. u = v
        BY <2>3, <2>5, <3>1, <3>2
      <3> QED BY <2>4, <3>1, <3>2, <3>3
    <2>6. \A m \in DOMAIN d : kernel.estado[d[m].proceso] = "Exec"
      BY <1>11, <1>15, <1>b DEF MarcasVivas
    <2> QED BY <2>2, <2>5, <2>6, <1>2, <1>10 DEF MarcasVivas
  <1>16. ASSUME r.vivo = TRUE
         PROVE  /\ Conocidos(r, alKernel) /\ NuevosQuietos(r) /\ MarcasClaras(r, conexion)
                /\ MarcasVivas(kernel) => MarcasVivas(r)
    <2>1. UnEstado(j, r, p) /\ r.estado[p] = "Exit"
      BY <1>6, <1>16, AcaboEsEstado
    <2>2. /\ Conocidos(r, alKernel) /\ NuevosQuietos(r) /\ MarcasClaras(r, conexion)
          /\ SinMarca(j, p) /\ MarcasVivas(j) => MarcasVivas(r)
      BY <2>1, <1>4, <1>13, <1>14, EstadoDeja
    <2> QED BY <2>2, <1>15
  <1>17. ASSUME r.vivo = TRUE, conexion[Fin] = "abierta", Pendiente(kernel, alKernel)
         PROVE  Pendiente(r, alKernel)
    <2>1. r.borrar = d
      BY <1>6, <1>10, <1>17 DEF Acabo
    <2>2. CASE Pide(alKernel[Fin], "eliminar")
      BY <2>2 DEF Pendiente
    <2>3. CASE kernel.canal[Fin] # <<>>
      <3>1. r.canal[Fin] # <<>>
        BY <1>7, <2>3, TG, CreceLleno
      <3> QED BY <3>1 DEF Pendiente
    <2>4. CASE \E m \in DOMAIN b : b[m].exit_code = -7
      <3>1. PICK m \in DOMAIN b : b[m].exit_code = -7
        BY <2>4
      <3>2. CASE m # i
        <4>1. \E n \in DOMAIN d : d[n].exit_code = -7
          BY <3>1, <3>2, <1>11
        <4> QED BY <4>1, <2>1 DEF Pendiente
      <3>3. CASE m = i
        <4>1. x = -7 /\ c = Fin
          BY <3>1, <3>3, <1>b, <1>x, <1>c, <1>2
        <4>2. avisa = TRUE
          BY <4>1, <1>2, <1>x, <1>a DEF GInv, MarcasClaras
        <4>3. Contesta(r)
          BY <4>1, <4>2, <1>6
        <4> QED BY <4>3, <1>17 DEF Contesta, Pendiente
      <3> QED BY <3>2, <3>3
    <2> QED BY <2>2, <2>3, <2>4, <1>17, <1>b DEF Pendiente
  <1>18. ASSUME r.vivo = TRUE, Enterados(kernel, hilo, conexion)
         PROVE  Enterados(r, hilo, conexion)
    BY <1>7, <1>9, <1>18, TG, EnteradosSiguen
  <1>19. kernel' = r
    BY <1>r
  <1> QED BY <1>7, <1>16, <1>17, <1>18, <1>19 DEF BienDelKernel

LEMMA FinDeTurnoG ==
  ASSUME TInv, HInv, GInv, NEW p \in Pids, FinDeTurno(p)
  PROVE  BienDelKernel
  <1>1. /\ kernel.vivo = TRUE /\ kernel.estado[p] = "Exec" /\ conexion' = conexion
        /\ alKernel' = alKernel
    BY TG DEF FinDeTurno, FinDeRafaga, Finalizado, Abortar, DelKernel
  <1>c. PICK c : c = buscar_consola_de_proceso(kernel, p)
    OBVIOUS
  <1>2. c \in Conexiones \cup {Nada}
    BY <1>1, <1>c, TG, SuConsola
  <1>3. p <= kernel.pid /\ De(alKernel'[Fin], alKernel[Fin])
    BY <1>1, DeSi DEF GInv, Conocidos
  <1>4. ~proceso_para_borrar(p) => SinMarca(kernel, p)
    BY DEF proceso_para_borrar, Marcas, SinMarca
  <1>5. ASSUME proceso_para_borrar(p), kernel' = PorMarca(p)
        PROVE  BienDelKernel
    BY <1>1, <1>5, PorMarcaG DEF proceso_para_borrar
  <1>6. ASSUME NEW x, NEW avisa \in BOOLEAN, kernel' = end_process(kernel, p, x, c, avisa),
               avisa = TRUE \/ "aborto de un marcado" \in rarezas',
               ~proceso_para_borrar(p) \/ "aborto de un marcado" \in rarezas'
        PROVE  BienDelKernel
    BY <1>1, <1>2, <1>3, <1>4, <1>6, TermG
  <1>7. CASE FinDeRafaga(p)
    <2>1. CASE proceso_para_borrar(p)
      BY <1>5, <1>7, <2>1 DEF FinDeRafaga
    <2>2. CASE ~proceso_para_borrar(p)
      <3>1. kernel' = [kernel EXCEPT !.estado[p] = "Listo"] /\ "Listo" \in LosEstados
        BY <1>7, <2>2 DEF FinDeRafaga, LosEstados
      <3> QED BY <3>1, <2>2, <1>1, <1>4, EstadoG
    <2> QED BY <2>1, <2>2
  <1>8. CASE Finalizado(p)
    <2>1. CASE proceso_para_borrar(p)
      BY <1>5, <1>8, <2>1 DEF Finalizado
    <2>2. CASE ~proceso_para_borrar(p)
      <3>1. kernel' = end_process(kernel, p, 0, c, TRUE)
        BY <1>8, <2>2, <1>c DEF Finalizado
      <3> QED BY <3>1, <2>2, <1>6
    <2> QED BY <2>1, <2>2
  <1>9. CASE Abortar(p)
    <2>1. PICK avisa \in {TRUE, ~(proceso_para_borrar(p) /\ Min(Marcas(p)) > 1)} :
            kernel' = end_process(kernel, p, -20, c, avisa)
      BY <1>9, <1>c DEF Abortar
    <2>2. avisa \in BOOLEAN
      OBVIOUS
    <2>3. proceso_para_borrar(p) => "aborto de un marcado" \in rarezas'
      BY <1>9 DEF Abortar, Rareza
    <2>4. ~proceso_para_borrar(p) => avisa = TRUE
      OBVIOUS
    <2> QED BY <2>1, <2>2, <2>3, <2>4, <1>6
  <1> QED BY <1>7, <1>8, <1>9 DEF FinDeTurno

LEMMA DespacharG ==
  ASSUME TInv, GInv, NEW p \in Pids, Despachar(p)
  PROVE  BienDelKernel
  <1>1. /\ kernel.vivo = TRUE /\ kernel.estado[p] = "Listo"
        /\ kernel' = [kernel EXCEPT !.estado[p] = "Exec"] /\ conexion' = conexion
        /\ alKernel' = alKernel /\ "Exec" \in LosEstados
    BY TG DEF Despachar, DelKernel, LosEstados
  <1>2. MarcasVivas(kernel) => SinMarca(kernel, p)
    BY <1>1 DEF MarcasVivas, SinMarca
  <1> QED BY <1>1, <1>2, EstadoG

\* Who is taken from new_queue was not running, and is not in it twice
LEMMA AdmitirDeNewG ==
  ASSUME TInv, HInv, GInv, SinLineas, AdmitirDeNew
  PROVE  BienDelKernel
  <1>n. PICK n : n = Head(kernel.nuevos)
    OBVIOUS
  <1>p. PICK p : p = n.pid
    OBVIOUS
  <1>k. PICK k : k = [kernel EXCEPT !.nuevos = Tail(@)]
    OBVIOUS
  <1>l. PICK l : l = Len(kernel.nuevos)
    OBVIOUS
  <1>1. /\ kernel.vivo = TRUE /\ kernel.nuevos # <<>>
        /\ conexion' = conexion /\ alKernel' = alKernel
        /\ \/ kernel' = Envia([k EXCEPT !.estado[p] = "Listo"], n.fd, <<p>>)
           \/ /\ kernel' = Envia(Sin(k, p), n.fd, <<-1>>)
              /\ "rechazo desde New" \in rarezas'
    BY <1>n, <1>p, <1>k, TG DEF AdmitirDeNew, DelKernel, Sin, Rareza
  <1>2. /\ KInv(k, alKernel, hilo, conexion) /\ Parecidos(kernel, k) /\ k.estado = kernel.estado
        /\ k.nuevos = Tail(kernel.nuevos)
        /\ k.borrar = kernel.borrar /\ k.terminados = kernel.terminados
        /\ p \in Pids /\ n.fd \in Conexiones /\ n = kernel.nuevos[1]
        /\ DOMAIN kernel.nuevos = 1 .. l /\ DOMAIN Tail(kernel.nuevos) = 1 .. l - 1
        /\ \A i \in 1 .. l - 1 : /\ Tail(kernel.nuevos)[i] = kernel.nuevos[i + 1]
                                 /\ i + 1 \in DOMAIN kernel.nuevos
    BY <1>1, <1>n, <1>p, <1>k, <1>l, TG, SiguienteDeNew
  <1>3. /\ k \in Estructuras /\ k.vivo = TRUE /\ k.fd_consola = kernel.fd_consola
        /\ k.canal = kernel.canal /\ k.pid = kernel.pid
    BY <1>1, <1>2 DEF Parecidos
  <1>4. 1 \in DOMAIN kernel.nuevos /\ l \in Nat
    <2>s. PICK s : s = kernel.nuevos
      OBVIOUS
    <2>1. s \in Seq([pid : Pids, fd : Conexiones]) /\ s # <<>>
      BY <2>s, <1>1, TG DEF Estructuras
    <2>2. Len(s) \in Nat /\ Len(s) # 0 /\ DOMAIN s = 1 .. Len(s)
      BY <2>1
    <2>3. 1 \in DOMAIN s
      BY <2>2
    <2> QED BY <2>2, <2>3, <2>s, <1>l
  <1>t. PICK t : t = Tail(kernel.nuevos)
    OBVIOUS
  <1>5. \A i \in DOMAIN t : t[i] = kernel.nuevos[i + 1] /\ i + 1 \in DOMAIN kernel.nuevos
    BY <1>2, <1>t
  <1>6. De(t, kernel.nuevos)
    BY <1>5 DEF De
  <1>7. ASSUME NEW i \in DOMAIN t
        PROVE  t[i].pid # p
    <2>1. i \in Nat /\ i >= 1
      BY <1>2, <1>4, <1>t
    <2>2. i + 1 # 1
      BY <2>1
    <2>3. kernel.nuevos[i + 1].pid # kernel.nuevos[1].pid
      BY <2>2, <1>1, <1>4, <1>5 DEF HInv, Sanos
    <2> QED BY <2>3, <1>2, <1>5, <1>p
  <1>8. kernel.estado[p] \in {"New", "Exit"} /\ p <= kernel.pid
    <2>1. kernel.estado[p] \in {"New", "Exit"}
      BY <1>1, <1>2, <1>4, <1>p DEF GInv, NuevosQuietos
    <2> QED BY <2>1, <1>1, <1>2 DEF GInv, Conocidos
  <1>9. MarcasVivas(kernel) => SinMarca(kernel, p)
    BY <1>8 DEF MarcasVivas, SinMarca
  <1>10. ASSUME NEW j \in Estructuras, NEW m \in Seq(Mensajes), Cincos(m),
                Parecidos(k, j), j.nuevos = t, j.borrar = kernel.borrar,
                \A q \in Pids : q # p => j.estado[q] = kernel.estado[q],
                \A q \in Pids : q \in j.terminados => q \in kernel.terminados \/ q = p,
                \/ j.terminados = kernel.terminados
                \/ "rechazo desde New" \in rarezas',
                kernel' = Envia(j, n.fd, m)
         PROVE  BienDelKernel
    <2>1. /\ j.canal = kernel.canal /\ j.fd_consola = kernel.fd_consola /\ j.pid = kernel.pid
      BY <1>3, <1>10 DEF Parecidos
    <2>2. n.fd \in Conexiones \cup {Nada}
      BY <1>2
    <2>3. Crece(j, kernel') /\ (kernel'.vivo = TRUE => Iguales(j, kernel'))
      BY <1>10, <2>2, EnviaDice
    <2>4. Crece(kernel, j)
      BY <1>10, <2>1, TG, CreceIgual
    <2>5. Crece(kernel, kernel')
      BY <2>3, <2>4, TG, CreceSeguido
    <2>6. ASSUME kernel'.vivo = TRUE
          PROVE  /\ UnEstado(kernel, kernel', p)
                 /\ \A i \in DOMAIN kernel'.nuevos : kernel'.nuevos[i].pid # p
                 /\ "rechazo desde New" \notin rarezas' => Anuncia(kernel, kernel')
      <3>1. UnEstado(kernel, kernel', p)
        BY <1>6, <1>10, <2>1, <2>3, <2>6 DEF UnEstado, Iguales
      <3>2. \A i \in DOMAIN kernel'.nuevos : kernel'.nuevos[i].pid # p
        BY <1>7, <1>10, <2>3, <2>6 DEF Iguales
      <3>3. "rechazo desde New" \notin rarezas' => Anuncia(kernel, kernel')
        BY <1>1, <1>10, <2>1, <2>3, <2>6 DEF Anuncia, Iguales
      <3> QED BY <3>1, <3>2, <3>3
    <2> QED BY <2>5, <2>6, <1>1, <1>2, <1>8, <1>9, UnEstadoG
  <1>11. CASE kernel' = Envia([k EXCEPT !.estado[p] = "Listo"], n.fd, <<p>>)
    <2>j. PICK j : j = [k EXCEPT !.estado[p] = "Listo"]
      OBVIOUS
    <2>x. PICK x : x = "Listo"
      OBVIOUS
    <2>0. /\ x \in LosEstados /\ p \in Pids /\ KInv(k, alKernel, hilo, conexion)
          /\ j = [k EXCEPT !.estado[p] = x]
      BY <1>2, <2>j, <2>x DEF LosEstados
    <2>1. /\ Parecidos(k, j) /\ j.estado = [k.estado EXCEPT ![p] = x]
          /\ j.nuevos = k.nuevos /\ j.borrar = k.borrar /\ j.terminados = k.terminados
      BY <2>0, EstadoBien
    <2>2. j \in Estructuras
      BY <2>1 DEF Parecidos
    <2>3. <<p>> \in Seq(Mensajes) /\ Cincos(<<p>>)
      BY <1>2, CodigosSonMensajes, LineasSueltas DEF SinLineas
    <2>4. \A q \in Pids : q # p => j.estado[q] = kernel.estado[q]
      BY <1>2, <1>3, <2>1 DEF Estructuras
    <2>5. kernel' = Envia(j, n.fd, <<p>>) /\ j.nuevos = t
      BY <1>2, <1>11, <1>t, <2>1, <2>j
    <2> QED BY <2>1, <2>2, <2>3, <2>4, <2>5, <1>2, <1>10
  <1>12. CASE kernel' = Envia(Sin(k, p), n.fd, <<-1>>) /\ "rechazo desde New" \in rarezas'
    <2>j. PICK j : j = Sin(k, p)
      OBVIOUS
    <2>1. /\ Parecidos(k, j) /\ j.estado = [k.estado EXCEPT ![p] = "Exit"]
          /\ j.borrar = k.borrar /\ j.terminados = k.terminados \cup {p}
      BY <1>2, <2>j, SinBien
    <2>2. j \in Estructuras /\ j.nuevos = k.nuevos
      BY <1>3, <2>1, <2>j DEF Parecidos, Sin, Estructuras
    <2>3. <<-1>> \in Seq(Mensajes) /\ Cincos(<<-1>>)
      BY CodigosSonMensajes, LineasSueltas
    <2>4. \A q \in Pids : q # p => j.estado[q] = kernel.estado[q]
      BY <1>2, <1>3, <2>1 DEF Estructuras
    <2>5. kernel' = Envia(j, n.fd, <<-1>>) /\ j.nuevos = t
      BY <1>2, <1>12, <1>t, <2>2, <2>j
    <2> QED BY <2>1, <2>2, <2>3, <2>4, <2>5, <1>2, <1>10, <1>12
  <1> QED BY <1>1, <1>11, <1>12

\* j is k with a mark more, x
Marcado(k, j, a, cx, p, x) ==
  /\ Crece(k, j) /\ Anuncia(k, j)
  /\ Conocidos(j, a) /\ NuevosQuietos(j) /\ MarcasClaras(j, cx)
  /\ SinMarca(k, p) /\ MarcasVivas(k) => MarcasVivas(j)
  /\ \A i \in DOMAIN k.borrar : \E n \in DOMAIN j.borrar : j.borrar[n] = k.borrar[i]
  /\ x = -7 => \E n \in DOMAIN j.borrar : j.borrar[n].exit_code = -7

LEMMA MarcarDice ==
  ASSUME NEW k \in Estructuras, NEW a, NEW cx, NEW p \in Pids, NEW x \in {-6, -7},
         NEW avisa \in BOOLEAN, NEW c \in Conexiones, k.vivo = TRUE, k.estado[p] = "Exec",
         Conocidos(k, a), NuevosQuietos(k), MarcasClaras(k, cx),
         \/ x = -7 /\ avisa = TRUE
         \/ x = -6 /\ k.fd_consola[p] # Nada /\ cx[k.fd_consola[p]] = "quitada",
         NEW j, j = Marcar(k, p, x, avisa, c)
  PROVE  Marcado(k, j, a, cx, p, x)
  <1>1. /\ Parecidos(k, j) /\ j.estado = k.estado /\ j.nuevos = k.nuevos
        /\ j.terminados = k.terminados
        /\ \A i \in DOMAIN j.borrar :
             \/ i \in DOMAIN k.borrar /\ j.borrar[i] = k.borrar[i]
             \/ /\ j.borrar[i].proceso = p /\ j.borrar[i].exit_code = x
                /\ j.borrar[i].connection = avisa /\ j.borrar[i].askeadora = c
        /\ \A i \in DOMAIN k.borrar : i \in DOMAIN j.borrar /\ j.borrar[i] = k.borrar[i]
        /\ \E i \in DOMAIN j.borrar :
             /\ j.borrar[i].proceso = p /\ j.borrar[i].exit_code = x
             /\ j.borrar[i].connection = avisa /\ j.borrar[i].askeadora = c
    BY MarcarHace
  <1>2. /\ j \in Estructuras /\ j.canal = k.canal /\ j.fd_consola = k.fd_consola
        /\ j.pid = k.pid /\ j.vivo = TRUE
    BY <1>1 DEF Parecidos
  <1>3. Crece(k, j) /\ Anuncia(k, j)
    BY <1>1, <1>2, CreceIgual DEF Anuncia
  <1>4. Conocidos(j, a) /\ NuevosQuietos(j)
    BY <1>1, <1>2 DEF Conocidos, NuevosQuietos
  <1>5. MarcasClaras(j, cx)
    <2> SUFFICES ASSUME NEW i \in DOMAIN j.borrar
                 PROVE  IF j.borrar[i].exit_code = -7 THEN j.borrar[i].connection = TRUE
                        ELSE /\ k.fd_consola[j.borrar[i].proceso] # Nada
                             /\ cx[k.fd_consola[j.borrar[i].proceso]] = "quitada"
      BY <1>2 DEF MarcasClaras
    <2>1. CASE i \in DOMAIN k.borrar /\ j.borrar[i] = k.borrar[i]
      BY <2>1 DEF MarcasClaras
    <2>2. CASE /\ j.borrar[i].proceso = p /\ j.borrar[i].exit_code = x
               /\ j.borrar[i].connection = avisa
      BY <2>2
    <2> QED BY <2>1, <2>2, <1>1
  <1>6. ASSUME SinMarca(k, p), MarcasVivas(k)
        PROVE  MarcasVivas(j)
    <2> DEFINE T == [proceso : Pids, exit_code : {-6, -7}, connection : BOOLEAN,
                     askeadora : Conexiones]
    <2>b. PICK b : b = k.borrar
      OBVIOUS
    <2>e. PICK e : e = [proceso |-> p, exit_code |-> x, connection |-> avisa, askeadora |-> c]
      OBVIOUS
    <2>1. b \in Seq(T) /\ e \in T /\ e.proceso = p
      BY <2>b, <2>e DEF Estructuras
    <2>2. j.borrar = Append(b, e)
      BY <2>b, <2>e DEF Marcar, Estructuras
    <2>3. \A i \in DOMAIN j.borrar : \/ i \in DOMAIN b /\ j.borrar[i] = b[i]
                                     \/ i = Len(b) + 1 /\ j.borrar[i] = e
      <3> HIDE DEF T
      <3> QED BY <2>1, <2>2, Agregar
    <2>4. /\ \A i \in DOMAIN b : b[i].proceso # p /\ k.estado[b[i].proceso] = "Exec"
          /\ \A i, n \in DOMAIN b : b[i].proceso = b[n].proceso => i = n
      BY <1>6, <2>b DEF SinMarca, MarcasVivas
    <2>5. \A i \in DOMAIN j.borrar : j.estado[j.borrar[i].proceso] = "Exec"
      BY <2>1, <2>3, <2>4, <1>1
    <2>6. \A i, n \in DOMAIN j.borrar : j.borrar[i].proceso = j.borrar[n].proceso => i = n
      BY <2>1, <2>3, <2>4
    <2> QED BY <2>5, <2>6 DEF MarcasVivas
  <1>7. /\ \A i \in DOMAIN k.borrar : \E n \in DOMAIN j.borrar : j.borrar[n] = k.borrar[i]
        /\ x = -7 => \E n \in DOMAIN j.borrar : j.borrar[n].exit_code = -7
    BY <1>1
  <1> QED BY <1>3, <1>4, <1>5, <1>6, <1>7 DEF Marcado

LEMMA EliminarG ==
  ASSUME TInv, HInv, GInv, NEW c \in Conexiones, EliminarProceso(c)
  PROVE  BienDelKernel
  <1>p. PICK p : p = Head(alKernel[c])[2]
    OBVIOUS
  <1>1. /\ alKernel[c] # <<>> /\ Head(alKernel[c])[1] = "eliminar" /\ kernel.vivo = TRUE
        /\ alKernel' = [alKernel EXCEPT ![c] = Tail(@)]
        /\ kernel' = Terminar(kernel, p, -7, TRUE, c) /\ conexion' = conexion
        /\ SegundaMarca(p)
    BY <1>p, TG DEF EliminarProceso, DelKernel, Lee
  <1>2. p \in Pids /\ c = Fin /\ p <= kernel.pid
    <2>s. PICK s : s = alKernel[c]
      OBVIOUS
    <2>1. ColaBien(s, c) /\ s # <<>> /\ Head(s)[1] = "eliminar" /\ p = Head(s)[2]
      BY <2>s, <1>1, <1>p, TG DEF KInv, Base, Tipos
    <2>2. Head(s)[1] = "eliminar" => c = Fin /\ Head(s)[2] \in Pids
      BY <2>1, RestoDeCola
    <2>3. 1 \in DOMAIN s /\ Head(s) = s[1]
      BY <2>1, RestoDelCanal DEF ColaBien
    <2>4. p <= kernel.pid
      BY <2>1, <2>2, <2>3, <2>s, <1>1 DEF GInv, Conocidos
    <2> QED BY <2>1, <2>2, <2>4
  <1>3. De(alKernel'[Fin], alKernel[Fin])
    BY <1>1, TG, ColaLeida
  <1>4. CASE kernel.estado[p] # "Exec"
    <2>1. kernel' = end_process(kernel, p, -7, Fin, TRUE)
      BY <1>1, <1>2, <1>4 DEF Terminar
    <2>2. MarcasVivas(kernel) => SinMarca(kernel, p)
      BY <1>4 DEF MarcasVivas, SinMarca
    <2> QED BY <2>1, <2>2, <1>1, <1>2, <1>3, TG, TermG
  <1>5. CASE kernel.estado[p] = "Exec"
    <2>x. PICK x : x = -7
      OBVIOUS
    <2>a. PICK a : a = alKernel'
      OBVIOUS
    <2>j. PICK j : j = Marcar(kernel, p, x, TRUE, c)
      OBVIOUS
    <2>1. kernel' = j
      BY <2>j, <2>x, <1>1, <1>5 DEF Terminar
    <2>2. Conocidos(kernel, alKernel') /\ NuevosQuietos(kernel) /\ MarcasClaras(kernel, conexion)
      BY <1>1, <1>3, PedidosConocidos DEF GInv
    <2>0. /\ kernel \in Estructuras /\ p \in Pids /\ x \in {-6, -7} /\ TRUE \in BOOLEAN
          /\ kernel.vivo = TRUE /\ kernel.estado[p] = "Exec"
          /\ Conocidos(kernel, a) /\ NuevosQuietos(kernel) /\ MarcasClaras(kernel, conexion)
          /\ x = -7
      BY <2>2, <2>a, <2>x, <1>1, <1>2, <1>5, TG
    <2>3. Marcado(kernel, j, a, conexion, p, x)
      BY <2>j, <2>0, MarcarDice
    <2>4. "dos marcas" \notin rarezas' => SinMarca(kernel, p)
      BY <1>1, <1>2, <1>5
         DEF SegundaMarca, Rareza, proceso_para_borrar, Marcas, SinMarca
    <2>5. Pendiente(j, a)
      BY <2>3, <2>x DEF Pendiente, Marcado
    <2>6. j.vivo = TRUE /\ Enterados(kernel, hilo, conexion) => Enterados(j, hilo, conexion)
      BY <2>3, TG, EnteradosSiguen DEF Marcado
    <2>7. Conocidos(kernel', alKernel') /\ Pendiente(kernel', alKernel')
      BY <2>1, <2>3, <2>5, <2>a DEF Marcado
    <2> QED BY <2>1, <2>3, <2>4, <2>6, <2>7, <1>1 DEF BienDelKernel, Marcado
  <1> QED BY <1>4, <1>5


\* What the Kernel does with a closed connection: its program, if it has one, ends or is
\* marked
LEMMA DesconectarG ==
  ASSUME TInv, HInv, GInv, NEW c \in Conexiones, Desconectar(c)
  PROVE  BienDelKernel
  <1>i. PICK i : i = Min(Posiciones(c))
    OBVIOUS
  <1>p. PICK p : p = kernel.lista_consolas[i].proceso
    OBVIOUS
  <1>k. PICK k : k = [kernel EXCEPT !.lista_consolas = RemoveAt(@, i), !.rotas = @ \ {c}]
    OBVIOUS
  <1>j. PICK j : j = kernel'
    OBVIOUS
  <1>x. PICK x : x = -6
    OBVIOUS
  <1>u. PICK u : u = conexion'
    OBVIOUS
  <1>1. /\ kernel.vivo = TRUE /\ conexion[c] = "cerrada" /\ alKernel' = alKernel
        /\ u = [conexion EXCEPT ![c] = "quitada"]
    BY <1>u, TG DEF Desconectar, DelKernel
  <1>2. /\ Posiciones(c) = {} => j = Muere(kernel)
        /\ Posiciones(c) # {} => /\ j = IF p \in Pids THEN Terminar(k, p, x, FALSE, c) ELSE k
                                 /\ SegundaMarca(p)
    BY <1>i, <1>p, <1>k, <1>j, <1>x DEF Desconectar
  <1>q. u[c] = "quitada" /\ \A d \in Conexiones : d # c => u[d] = conexion[d]
    BY TG, <1>1 DEF LasConexiones
  <1>3. CASE Posiciones(c) = {}
    <2>1. j \in Estructuras /\ j.canal = kernel.canal /\ j.vivo = FALSE
      BY <1>2, <1>3, TG, CaidaDelKernel DEF Caido
    <2>2. Crece(kernel, j)
      BY <2>1, TG, CreceIgual
    <2> QED BY <2>1, <2>2, <1>j DEF BienDelKernel
  <1>4. CASE Posiciones(c) # {}
    <2>1. /\ i \in DOMAIN kernel.lista_consolas /\ kernel.lista_consolas[i].sock = c
          /\ p \in Pids <=> p # 0
          /\ KInv(k, alKernel, hilo, conexion) /\ Parecidos(kernel, k)
          /\ k.estado = kernel.estado
          /\ k.nuevos = kernel.nuevos /\ k.borrar = kernel.borrar
          /\ k.terminados = kernel.terminados
      BY TG, <1>4, <1>i, <1>k, <1>p, SinEntrada
    <2>2. /\ k \in Estructuras /\ k.vivo = TRUE /\ k.fd_consola = kernel.fd_consola
          /\ k.canal = kernel.canal /\ k.pid = kernel.pid
      BY <2>1, <1>1 DEF Parecidos
    <2>3. Crece(kernel, k)
      BY <2>2, TG, CreceIgual
    <2>4. Conocidos(k, alKernel) /\ NuevosQuietos(k)
      BY <2>1, <2>2, <1>1 DEF GInv, Conocidos, NuevosQuietos
    <2>5. MarcasClaras(k, u)
      <3>1. MarcasClaras(kernel, conexion)
        BY <1>1 DEF GInv
      <3>2. ASSUME NEW n \in DOMAIN k.borrar
            PROVE  IF k.borrar[n].exit_code = -7 THEN k.borrar[n].connection = TRUE
                   ELSE /\ k.fd_consola[k.borrar[n].proceso] # Nada
                        /\ u[k.fd_consola[k.borrar[n].proceso]] = "quitada"
        <4>q. PICK q : q = k.borrar[n].proceso
          OBVIOUS
        <4>1. q \in Pids
          BY <4>q, <2>2, DeLasColas
        <4>2. kernel.fd_consola[q] \in Hilos \cup {Nada}
          BY <4>1, TG DEF Estructuras
        <4>3. CASE k.borrar[n].exit_code = -7
          BY <3>1, <4>3, <2>1 DEF MarcasClaras
        <4>4. CASE k.borrar[n].exit_code # -7
          <5>1. kernel.fd_consola[q] # Nada /\ conexion[kernel.fd_consola[q]] = "quitada"
            BY <3>1, <4>4, <4>q, <2>1 DEF MarcasClaras
          <5>2. u[kernel.fd_consola[q]] = "quitada"
            BY <5>1, <4>2, <1>q, TG
          <5> QED BY <5>1, <5>2, <4>4, <4>q, <2>2
        <4> QED BY <4>3, <4>4
      <3> QED BY <3>2 DEF MarcasClaras
    <2>6. Enterados(kernel, hilo, conexion) => Enterados(k, hilo, conexion)
      <3>1. \A h \in Hilos : Avisado(kernel, hilo, h) => Avisado(k, hilo, h)
        BY <2>2 DEF Avisado
      <3> QED BY <3>1, <2>1, <2>2 DEF Enterados
    <2>7. MarcasVivas(kernel) => MarcasVivas(k)
      BY <2>1 DEF MarcasVivas
    <2>8. ASSUME Crece(k, j),
                 j.vivo = TRUE =>
                   /\ Anuncia(k, j)
                   /\ Conocidos(j, alKernel) /\ NuevosQuietos(j) /\ MarcasClaras(j, u)
                   /\ "dos marcas" \notin rarezas' /\ MarcasVivas(k) => MarcasVivas(j)
                   /\ \A n \in DOMAIN k.borrar :
                        \E m \in DOMAIN j.borrar : j.borrar[m] = k.borrar[n]
          PROVE  BienDelKernel
      <3>1. Crece(kernel, j)
        BY <2>3, <2>8, TG, CreceSeguido
      <3>2. ASSUME j.vivo = TRUE, Enterados(kernel, hilo, conexion)
            PROVE  Enterados(j, hilo, u)
        <4>1. \A h \in Hilos : u[h] = "abierta" => conexion[h] = "abierta"
          BY <1>q, TG
        <4>2. KInv(k, alKernel, hilo, conexion) /\ Crece(k, j) /\ Anuncia(k, j)
              /\ Enterados(k, hilo, conexion)
          BY <2>1, <2>6, <2>8, <3>2
        <4> QED BY <3>2, <4>1, <4>2, EnteradosSiguen
      <3>3. ASSUME j.vivo = TRUE, conexion[Fin] = "abierta", Pendiente(kernel, alKernel)
            PROVE  u[Fin] = "abierta" /\ Pendiente(j, alKernel)
        <4>1. u[Fin] = "abierta"
          BY <1>1, <1>q, <3>3, TG
        <4>2. \A n \in DOMAIN kernel.borrar :
                \E m \in DOMAIN j.borrar : j.borrar[m] = kernel.borrar[n]
          BY <2>1, <2>8, <3>3
        <4>3. Pendiente(j, alKernel)
          BY <3>1, <3>3, <4>2, TG, PendienteSigue
        <4> QED BY <4>1, <4>3
      <3> QED BY <3>1, <3>2, <3>3, <2>7, <2>8, <1>1, <1>j, <1>u DEF BienDelKernel
    <2>9. CASE p \notin Pids
      <3>1. j = k
        BY <2>9, <1>2, <1>4
      <3>2. Crece(k, k) /\ Anuncia(k, k)
        BY <2>2, CreceIgual DEF Anuncia
      <3> QED BY <3>1, <3>2, <2>4, <2>5, <2>8
    <2>10. ASSUME p \in Pids
           PROVE  k.fd_consola[p] = c /\ c # Nada /\ p <= k.pid
      <3>1. kernel.fd_consola[p] = c
        BY <2>1, <2>10, <1>p, TG DEF KInv, Base, Entradas
      <3>2. c # Nada
        BY TG
      <3>3. p <= kernel.pid
        BY <3>1, <3>2, <2>10, TG DEF KInv, Base, CuentaDePids
      <3> QED BY <3>1, <3>2, <3>3, <2>2
    <2>11. CASE p \in Pids /\ kernel.estado[p] = "Exec"
      <3>1. j = Marcar(k, p, x, FALSE, c)
        BY <2>1, <2>11, <1>2, <1>4 DEF Terminar
      <3>2. /\ k \in Estructuras /\ p \in Pids /\ x \in {-6, -7} /\ FALSE \in BOOLEAN
            /\ k.vivo = TRUE /\ k.estado[p] = "Exec"
            /\ Conocidos(k, alKernel) /\ NuevosQuietos(k) /\ MarcasClaras(k, u)
            /\ x = -6 /\ k.fd_consola[p] # Nada /\ u[k.fd_consola[p]] = "quitada"
        BY <2>1, <2>2, <2>4, <2>5, <2>10, <2>11, <1>x, <1>q
      <3>3. Marcado(k, j, alKernel, u, p, x)
        BY <3>1, <3>2, MarcarDice
      <3>4. "dos marcas" \notin rarezas' => SinMarca(k, p)
        BY <1>2, <1>4, <2>1, <2>11
           DEF SegundaMarca, Rareza, proceso_para_borrar, Marcas, SinMarca
      <3> QED BY <3>3, <3>4, <2>8 DEF Marcado
    <2>12. CASE p \in Pids /\ kernel.estado[p] # "Exec"
      <3>0. /\ KInv(k, alKernel, hilo, conexion) /\ k.vivo = TRUE /\ p \in Pids
            /\ c \in Conexiones \cup {Nada} /\ FALSE \in BOOLEAN
            /\ (FALSE = TRUE => SuEntrada(k, conexion))
        BY <2>1, <2>2, <2>12
      <3>1. j = end_process(k, p, x, c, FALSE)
        BY <2>1, <2>12, <1>2, <1>4 DEF Terminar
      <3>2. /\ Crece(k, j) /\ Acabo(k, j, p)
            /\ FALSE = TRUE \/ ~AbiertaSuya(k, p) => Anuncia(k, j)
        BY <3>0, <3>1, TerminarDice
      <3>3. ~AbiertaSuya(k, p)
        BY <2>10, <2>12, <1>1 DEF AbiertaSuya
      <3>4. MarcasVivas(k) => SinMarca(k, p)
        BY <2>1, <2>12 DEF MarcasVivas, SinMarca
      <3>5. ASSUME j.vivo = TRUE
            PROVE  /\ Conocidos(j, alKernel) /\ NuevosQuietos(j) /\ MarcasClaras(j, u)
                   /\ SinMarca(k, p) /\ MarcasVivas(k) => MarcasVivas(j)
        <4>1. UnEstado(k, j, p) /\ j.estado[p] \in {"New", "Exit"}
          BY <3>2, <3>5, AcaboEsEstado
        <4>2. p \in Pids /\ p <= k.pid
          BY <2>10, <2>12
        <4> QED BY <4>1, <4>2, <2>2, <2>4, <2>5, EstadoDeja
      <3>6. j.vivo = TRUE => j.borrar = k.borrar
        BY <3>2 DEF Acabo
      <3> QED BY <3>2, <3>3, <3>4, <3>5, <3>6, <2>8
    <2> QED BY <2>9, <2>11, <2>12
  <1> QED BY <1>3, <1>4

\* A program that begins: the pid is new, and who is refused one is told -1
LEMMA NuevoProgramaG ==
  ASSUME TInv, HInv, GInv, SinLineas, NEW c \in Conexiones, NuevoPrograma(c)
  PROVE  BienDelKernel
  <1>1. /\ alKernel[c] # <<>> /\ Head(alKernel[c])[1] = "script"
        /\ alKernel' = [alKernel EXCEPT ![c] = Tail(@)] /\ kernel.vivo = TRUE
        /\ conexion' = conexion
    BY TG DEF NuevoPrograma, DelKernel, Lee
  <1>2. c \in Hilos
    BY <1>1, TG, RestoDeCola DEF KInv, Base, Tipos
  <1>3. /\ De(alKernel'[Fin], alKernel[Fin])
        /\ Pide(alKernel[Fin], "eliminar") => Pide(alKernel'[Fin], "eliminar")
    BY <1>1, TG, ColaLeida
  <1>m. <<-1>> \in Seq(Mensajes) /\ Cincos(<<-1>>) /\ c \in Conexiones \cup {Nada}
    BY CodigosSonMensajes, LineasSueltas
  <1>4. CASE Posiciones(c) = {}
    <2>1. kernel' = Muere(kernel)
      BY <1>4 DEF NuevoPrograma
    <2>2. kernel' \in Estructuras /\ kernel'.canal = kernel.canal /\ kernel'.vivo = FALSE
      BY <2>1, TG, CaidaDelKernel DEF Caido
    <2>3. Crece(kernel, kernel')
      BY <2>2, TG, CreceIgual
    <2> QED BY <2>2, <2>3 DEF BienDelKernel
  <1>5. CASE kernel' = Envia(kernel, c, <<-1>>)
    <2>1. Crece(kernel, kernel') /\ (kernel'.vivo = TRUE => Iguales(kernel, kernel'))
      BY <1>5, <1>m, TG, EnviaDice
    <2>2. kernel'.vivo = TRUE => LoMismo(kernel, kernel')
      BY <2>1 DEF Iguales, LoMismo
    <2> QED BY <2>1, <2>2, <1>1, <1>3, LoMismoG
  <1>6. CASE Posiciones(c) # {} /\ kernel' # Envia(kernel, c, <<-1>>)
    <2>k. PICK k : k = create_PCB(c)
      OBVIOUS
    <2>p. PICK p : p = k.pid
      OBVIOUS
    <2>1. /\ Base(k, alKernel', hilo, conexion) /\ p \in Pids /\ k.vivo = TRUE
          /\ kernel.fd_consola[p] = Nada /\ p = kernel.pid + 1
          /\ k.nuevos = kernel.nuevos /\ k.canal[c] = <<>>
      BY TG, <1>1, <1>2, <1>6, <2>k, <2>p, CrearBien
    <2>2. k \in Estructuras /\ p \in Nat /\ kernel.pid \in Nat
      BY <2>1, TG, PidsNaturales DEF Base, Tipos, Estructuras
    <2>3. /\ k.borrar = kernel.borrar /\ k.canal = kernel.canal
          /\ k.estado = kernel.estado /\ k.terminados = kernel.terminados
          /\ k.fd_consola = [kernel.fd_consola EXCEPT ![p] = c]
      <3>f. PICK f : f = [kernel.fd_consola EXCEPT ![p] = c]
        OBVIOUS
      <3>l. PICK l : l = Append(RemoveAt(kernel.lista_consolas, Min(Posiciones(c))),
                                [sock |-> c, proceso |-> p])
        OBVIOUS
      <3>1. k = [kernel EXCEPT !.pid = p, !.fd_consola = f, !.lista_consolas = l]
        BY <2>1, <2>k, <3>f, <3>l DEF create_PCB
      <3> QED BY <3>1, <3>f, TG DEF Estructuras
    <2>f. PICK f : f = k.fd_consola
      OBVIOUS
    <2>4. f[p] = c /\ \A q \in Pids : q # p => f[q] = kernel.fd_consola[q]
      BY TG, <2>1, <2>3, <2>f DEF Estructuras
    <2>5. \A q \in Pids : kernel.estado[q] # "NoExiste" \/ q \in kernel.terminados =>
                            q # p /\ q <= p
      <3>1. \A q \in Pids : kernel.estado[q] # "NoExiste" \/ q \in kernel.terminados =>
                              q <= kernel.pid
        BY <1>1 DEF GInv, Conocidos
      <3>2. \A q \in Pids : q <= kernel.pid => q # p /\ q <= p
        BY <2>1, <2>2, PidsNaturales
      <3> QED BY <3>1, <3>2
    <2>6. \A i \in DOMAIN kernel.nuevos : /\ kernel.nuevos[i].pid \in Pids
                                          /\ kernel.nuevos[i].pid # p
                                          /\ kernel.estado[kernel.nuevos[i].pid] \in {"New", "Exit"}
      <3>1. ASSUME NEW i \in DOMAIN kernel.nuevos
            PROVE  kernel.nuevos[i].pid \in Pids /\ kernel.nuevos[i].pid # p
        <4>1. /\ kernel.nuevos[i].pid \in Pids /\ kernel.nuevos[i].fd \in Conexiones
              /\ kernel.fd_consola[kernel.nuevos[i].pid] = kernel.nuevos[i].fd
          BY TG, DeLasColas DEF KInv, Base, Entradas
        <4> QED BY <4>1, <2>1, TG
      <3> QED BY <3>1, <1>1 DEF GInv, NuevosQuietos
    <2>7. ASSUME NEW j \in Estructuras, NEW m \in Seq(Mensajes), Cincos(m), m # <<>>,
                 j.vivo = TRUE, j.pid = p, j.fd_consola = f, j.canal = kernel.canal,
                 j.borrar = kernel.borrar,
                 \A q \in Pids : q # p => j.estado[q] = kernel.estado[q],
                 \/ j.nuevos = kernel.nuevos
                 \/ /\ j.nuevos = Append(kernel.nuevos, [pid |-> p, fd |-> c])
                    /\ j.estado[p] = "New",
                 \/ j.terminados = kernel.terminados
                 \/ j.terminados = kernel.terminados \cup {p} /\ m = <<-1>>,
                 kernel' = Envia(j, c, m)
          PROVE  BienDelKernel
      <3>r. PICK r : r = Envia(j, c, m)
        OBVIOUS
      <3>a. PICK a : a = alKernel'
        OBVIOUS
      <3>1. /\ Crece(j, r) /\ (r.vivo = TRUE => Iguales(j, r))
            /\ conexion[c] = "abierta" => r.canal[c] # <<>>
        BY <2>7, <1>m, <3>r, EnviaDice
      <3>2. Crece(kernel, r)
        <4>1. Crece(kernel, j)
          BY <2>7, TG, CreceIgual
        <4> QED BY <4>1, <3>1, TG, CreceSeguido
      <3> SUFFICES ASSUME r.vivo = TRUE
                   PROVE  BienDelKernel
        BY <2>7, <3>2, <3>r DEF BienDelKernel
      <3>3. /\ r.pid = p /\ r.fd_consola = f /\ r.borrar = kernel.borrar
            /\ r.nuevos = j.nuevos /\ r.terminados = j.terminados
            /\ r.estado = j.estado
        BY <2>7, <3>1 DEF Iguales
      <3>4. Conocidos(r, a)
        <4>1. ASSUME NEW q \in Pids, r.estado[q] # "NoExiste" \/ q \in r.terminados
              PROVE  q <= r.pid
          <5>1. CASE q = p
            BY <5>1, <3>3, <2>2
          <5>2. CASE q # p
            BY <5>2, <4>1, <3>3, <2>5, <2>7
          <5> QED BY <5>1, <5>2
        <4>2. ASSUME NEW i \in DOMAIN a[Fin], a[Fin][i][1] = "eliminar"
              PROVE  a[Fin][i][2] <= r.pid
          <5>1. PICK n \in DOMAIN alKernel[Fin] : a[Fin][i] = alKernel[Fin][n]
            BY <1>3, <3>a DEF De
          <5>q. PICK q : q = a[Fin][i][2]
            OBVIOUS
          <5>2. q <= kernel.pid
            BY <5>1, <5>q, <4>2, <1>1 DEF GInv, Conocidos
          <5>3. q \in Nat
            BY <5>1, <5>q, <4>2, TG, PidsNaturales DEF KInv, Base, Tipos, ColaBien
          <5>4. q <= p
            BY <5>2, <5>3, <2>1, <2>2
          <5> QED BY <5>4, <5>q, <3>3
        <4> QED BY <4>1, <4>2 DEF Conocidos
      <3>5. NuevosQuietos(r)
        <4>1. ASSUME NEW i \in DOMAIN r.nuevos
              PROVE  r.estado[r.nuevos[i].pid] \in {"New", "Exit"}
          <5>1. CASE i \in DOMAIN kernel.nuevos /\ r.nuevos[i] = kernel.nuevos[i]
            BY <5>1, <2>6, <2>7, <3>3
          <5>2. CASE j.estado[p] = "New" /\ r.nuevos[i].pid = p
            BY <5>2, <3>3
          <5>3. CASE j.nuevos = kernel.nuevos
            BY <5>1, <5>3, <3>3
          <5>4. CASE /\ j.nuevos = Append(kernel.nuevos, [pid |-> p, fd |-> c])
                     /\ j.estado[p] = "New"
            <6>e. PICK e : e = [pid |-> p, fd |-> c]
              OBVIOUS
            <6>b. PICK b : b = kernel.nuevos
              OBVIOUS
            <6>1. /\ b \in Seq([pid : Pids, fd : Conexiones])
                  /\ e \in [pid : Pids, fd : Conexiones] /\ e.pid = p
              BY <6>e, <6>b, <2>1, TG DEF Estructuras
            <6>2. r.nuevos = Append(b, e)
              BY <6>e, <6>b, <5>4, <3>3
            <6>3. \/ i \in DOMAIN b /\ r.nuevos[i] = b[i]
                  \/ r.nuevos[i] = e
              BY <6>1, <6>2, Agregar
            <6> QED BY <6>1, <6>3, <6>b, <5>1, <5>2, <5>4
          <5> QED BY <5>3, <5>4, <2>7
        <4> QED BY <4>1 DEF NuevosQuietos
      <3>6. MarcasClaras(r, conexion)
        <4>1. ASSUME NEW i \in DOMAIN kernel.borrar
              PROVE  IF kernel.borrar[i].exit_code = -7 THEN kernel.borrar[i].connection = TRUE
                     ELSE /\ f[kernel.borrar[i].proceso] # Nada
                          /\ conexion[f[kernel.borrar[i].proceso]] = "quitada"
          <5>1. kernel.borrar[i].proceso \in Pids
            BY TG, DeLasColas
          <5> QED BY <5>1, <2>1, <2>4, <1>1 DEF GInv, MarcasClaras
        <4> QED BY <4>1, <3>3 DEF MarcasClaras
      <3>7. ASSUME Enterados(kernel, hilo, conexion)
            PROVE  Enterados(r, hilo, conexion)
        <4> SUFFICES ASSUME NEW q \in Pids, NEW h \in Hilos, q \in r.terminados,
                            r.fd_consola[q] = h, conexion[h] = "abierta", Atiende(hilo, h)
                     PROVE  Avisado(r, hilo, h)
          BY DEF Enterados
        <4>1. CASE q # p
          <5>1. q \in kernel.terminados /\ kernel.fd_consola[q] = h
            BY <4>1, <3>3, <2>4, <2>7
          <5>2. Avisado(kernel, hilo, h)
            BY <5>1, <3>7 DEF Enterados
          <5> QED BY <5>2, <3>2, TG, AvisadoSigue
        <4>2. CASE q = p
          <5>1. h = c /\ m = <<-1>>
            <6>1. p \notin kernel.terminados
              BY <2>1, <2>5
            <6> QED BY <6>1, <4>2, <3>3, <2>4, <2>7
          <5>2. hilo[c].en = "espera_pid"
            <6>1. Nuevo(alKernel, hilo, c)
              BY ZenonT(40), TG, <1>1, LeePide DEF Nuevo
            <6>2. \A s \in Pids : kernel.fd_consola[s] # c
              BY <6>1, <1>2, TG DEF KInv, Base, Nuevos
            <6>3. hilo[c].en \notin {"recibe", "lee_texto"}
              BY <6>2, <1>1, <1>2, TG DEF KInv, Base, SusPids, Suyo
            <6> QED BY <6>3, <5>1 DEF Atiende
          <5>3. r.canal[c] = <<-1>>
            <6>1. r.canal[c] = j.canal[c] \/ r.canal[c] = j.canal[c] \o m
              <7>1. Enviado(j, r, c, m)
                BY <2>7, <1>m, <3>r, EnviaHace
              <7>2. j \in Estructuras /\ m \in Seq(Mensajes)
                BY <2>7
              <7>3. \A d \in Conexiones :
                      \/ r.canal[d] = j.canal[d]
                      \/ d = c /\ conexion[d] = "abierta" /\ r.canal[d] = j.canal[d] \o m
                BY <7>1, <7>2, CanalesTrasEnviar
              <7> QED BY <7>3
            <6>2. j.canal[c] = <<>> /\ r.canal[c] # <<>>
              BY <2>1, <2>3, <2>7, <3>1, <5>1
            <6>3. <<>> \o <<-1>> = <<-1>>
              OBVIOUS
            <6> QED BY <6>1, <6>2, <6>3, <5>1
          <5>4. r.canal[c] # <<>> /\ r.canal[c][1] = -1
            BY <5>3
          <5> QED BY <5>1, <5>2, <5>4 DEF Avisado
        <4> QED BY <4>1, <4>2
      <3>8. ASSUME MarcasVivas(kernel)
            PROVE  MarcasVivas(r)
        <4>1. \A i \in DOMAIN kernel.borrar : kernel.borrar[i].proceso \in Pids
          BY TG, DeLasColas
        <4>2. \A i \in DOMAIN kernel.borrar : r.estado[kernel.borrar[i].proceso] = "Exec"
          BY <4>1, <3>3, <3>8, <2>5, <2>7 DEF MarcasVivas
        <4> QED BY <4>2, <3>3, <3>8 DEF MarcasVivas
      <3>9. ASSUME Pendiente(kernel, alKernel)
            PROVE  Pendiente(r, a)
        <4>1. /\ \A i \in DOMAIN kernel.borrar :
                   \E n \in DOMAIN r.borrar : r.borrar[n] = kernel.borrar[i]
              /\ Pide(alKernel[Fin], "eliminar") => Pide(a[Fin], "eliminar")
          BY <3>3, <1>3, <3>a
        <4> QED BY <4>1, <3>2, <3>9, TG, PendienteSigue
      <3> QED BY <3>2, <3>4, <3>5, <3>6, <3>7, <3>8, <3>9, <3>a, <3>r, <2>7, <1>1
              DEF BienDelKernel
    <2>8. <<p>> \in Seq(Mensajes) /\ Cincos(<<p>>) /\ <<p>> # <<>> /\ <<-1>> # <<>>
      BY <2>1, CodigosSonMensajes, LineasSueltas DEF SinLineas
    <2>9. ASSUME NEW x \in LosEstados
          PROVE  LET e == [k.estado EXCEPT ![p] = x]
                 IN  /\ e \in [Pids -> LosEstados] /\ e[p] = x
                     /\ \A q \in Pids : q # p => e[q] = kernel.estado[q]
      BY <2>1, <2>2, <2>3 DEF Estructuras, LosEstados
    <2>10. CASE kernel' = Envia([k EXCEPT !.estado[p] = "Listo"], c, <<p>>)
      <3>j. PICK j : j = [k EXCEPT !.estado[p] = "Listo"]
        OBVIOUS
      <3>e. PICK e : e = [k.estado EXCEPT ![p] = "Listo"]
        OBVIOUS
      <3>1. e \in [Pids -> LosEstados] /\ \A q \in Pids : q # p => e[q] = kernel.estado[q]
        BY <2>9, <3>e DEF LosEstados
      <3>2. j = [k EXCEPT !.estado = e]
        BY <3>j, <3>e
      <3>3. /\ j \in Estructuras /\ j.vivo = TRUE /\ j.pid = p /\ j.fd_consola = f
            /\ j.canal = kernel.canal /\ j.borrar = kernel.borrar /\ j.estado = e
            /\ j.nuevos = kernel.nuevos /\ j.terminados = kernel.terminados
        BY <3>1, <3>2, <2>1, <2>2, <2>3, <2>f, <2>p DEF Estructuras, LosEstados
      <3> QED BY <3>1, <3>3, <3>j, <2>7, <2>8, <2>10
    <2>11. CASE kernel' = Envia([k EXCEPT !.estado[p] = "Exit", !.terminados = @ \cup {p}], c,
                                <<-1>>)
      <3>j. PICK j : j = [k EXCEPT !.estado[p] = "Exit", !.terminados = @ \cup {p}]
        OBVIOUS
      <3>e. PICK e : e = [k.estado EXCEPT ![p] = "Exit"]
        OBVIOUS
      <3>t. PICK t : t = kernel.terminados \cup {p}
        OBVIOUS
      <3>1. e \in [Pids -> LosEstados] /\ \A q \in Pids : q # p => e[q] = kernel.estado[q]
        BY <2>9, <3>e DEF LosEstados
      <3>2. j = [k EXCEPT !.estado = e, !.terminados = t]
        BY <3>j, <3>e, <3>t, <2>3
      <3>4. t \in SUBSET Pids
        BY <3>t, <2>1, TG DEF Estructuras
      <3>3. /\ j \in Estructuras /\ j.vivo = TRUE /\ j.pid = p /\ j.fd_consola = f
            /\ j.canal = kernel.canal /\ j.borrar = kernel.borrar /\ j.estado = e
            /\ j.nuevos = kernel.nuevos /\ j.terminados = t
        BY <3>1, <3>2, <3>4, <2>1, <2>2, <2>3, <2>f, <2>p DEF Estructuras, LosEstados
      <3> QED BY <3>1, <3>3, <3>j, <3>t, <2>7, <2>8, <2>11, <1>m
    <2>12. CASE kernel' = Envia([k EXCEPT !.estado[p] = "New",
                                         !.nuevos = Append(@, [pid |-> p, fd |-> c])], c, <<p>>)
      <3>j. PICK j : j = [k EXCEPT !.estado[p] = "New",
                                   !.nuevos = Append(@, [pid |-> p, fd |-> c])]
        OBVIOUS
      <3>e. PICK e : e = [k.estado EXCEPT ![p] = "New"]
        OBVIOUS
      <3>n. PICK n : n = Append(kernel.nuevos, [pid |-> p, fd |-> c])
        OBVIOUS
      <3>1. /\ e \in [Pids -> LosEstados] /\ e[p] = "New"
            /\ \A q \in Pids : q # p => e[q] = kernel.estado[q]
        BY <2>9, <3>e DEF LosEstados
      <3>2. j = [k EXCEPT !.estado = e, !.nuevos = n]
        BY <3>j, <3>e, <3>n, <2>1
      <3>4. n \in Seq([pid : Pids, fd : Conexiones])
        BY <3>n, <2>1, TG DEF Estructuras
      <3>3. /\ j \in Estructuras /\ j.vivo = TRUE /\ j.pid = p /\ j.fd_consola = f
            /\ j.canal = kernel.canal /\ j.borrar = kernel.borrar /\ j.estado = e
            /\ j.nuevos = n /\ j.terminados = kernel.terminados
        BY <3>1, <3>2, <3>4, <2>1, <2>2, <2>3, <2>f, <2>p DEF Estructuras, LosEstados
      <3> QED BY <3>1, <3>3, <3>j, <3>n, <2>7, <2>8, <2>12
    <2>13. \/ kernel' = Envia([k EXCEPT !.estado[p] = "Listo"], c, <<p>>)
           \/ kernel' = Envia([k EXCEPT !.estado[p] = "Exit", !.terminados = @ \cup {p}], c,
                              <<-1>>)
           \/ kernel' = Envia([k EXCEPT !.estado[p] = "New",
                                        !.nuevos = Append(@, [pid |-> p, fd |-> c])], c, <<p>>)
      BY <1>6, <2>k, <2>p DEF NuevoPrograma
    <2> QED BY <2>10, <2>11, <2>12, <2>13
  <1> QED BY <1>4, <1>5, <1>6

-----------------------------------------------------------------------------
(* The Consola reads *)

\* A thread that goes on reading has still before it what it had, and the lines whole
Oye(h) ==
  Linea(kernel, hilo, h) =>
    /\ Linea(kernel', hilo', h)
    /\ Atiende(hilo', h) => /\ Atiende(hilo, h)
                            /\ Avisado(kernel, hilo, h) => Avisado(kernel', hilo', h)

LEMMA InternoG ==
  ASSUME TInv, GInv, Interno, rarezas \subseteq rarezas', \A h \in Hilos : Oye(h),
         principal'.en = "espera" =>
           /\ principal.en = "espera" /\ conexion'[Fin] = conexion[Fin]
           /\ kernel'.canal[Fin] = kernel.canal[Fin]
  PROVE  GInv'
  <1>1. Iguales(kernel, kernel') /\ alKernel' = alKernel
    BY DEF Interno
  <1>2. \A h \in Hilos : Linea(kernel, hilo, h)
    BY DEF GInv, Lineas
  <1>3. Lineas(kernel', hilo')
    BY <1>2 DEF Lineas, Oye
  <1>4. ASSUME kernel'.vivo = TRUE
        PROVE  /\ kernel.vivo = TRUE
               /\ Conocidos(kernel', alKernel') /\ NuevosQuietos(kernel')
               /\ MarcasClaras(kernel', conexion')
    <2>1. /\ kernel.vivo = TRUE /\ Conocidos(kernel, alKernel) /\ NuevosQuietos(kernel)
          /\ MarcasClaras(kernel, conexion)
      BY <1>1, <1>4 DEF GInv, Iguales
    <2>2. Conocidos(kernel', alKernel') /\ NuevosQuietos(kernel')
      BY <1>1, <2>1 DEF Conocidos, NuevosQuietos, Iguales
    <2>3. ASSUME NEW i \in DOMAIN kernel.borrar
          PROVE  IF kernel.borrar[i].exit_code = -7 THEN kernel.borrar[i].connection = TRUE
                 ELSE /\ kernel.fd_consola[kernel.borrar[i].proceso] # Nada
                      /\ conexion'[kernel.fd_consola[kernel.borrar[i].proceso]] = "quitada"
      <3>1. kernel.borrar[i].proceso \in Pids
        BY TG, DeLasColas
      <3>2. kernel.fd_consola[kernel.borrar[i].proceso] \in Hilos \cup {Nada}
        BY <3>1, TG DEF Estructuras
      <3>3. \A c \in Conexiones : conexion[c] = "quitada" => conexion'[c] = "quitada"
        BY DEF Interno
      <3> QED BY <2>1, <3>2, <3>3, TG DEF MarcasClaras
    <2>4. MarcasClaras(kernel', conexion')
      BY <1>1, <2>3 DEF MarcasClaras, Iguales
    <2> QED BY <2>1, <2>2, <2>4
  <1>5. ASSUME Enterados(kernel, hilo, conexion)
        PROVE  Enterados(kernel', hilo', conexion')
    <2> SUFFICES ASSUME NEW p \in Pids, NEW h \in Hilos, p \in kernel'.terminados,
                        kernel'.fd_consola[p] = h, conexion'[h] = "abierta",
                        Atiende(hilo', h)
                 PROVE  Avisado(kernel', hilo', h)
      BY DEF Enterados
    <2>1. p \in kernel.terminados /\ kernel.fd_consola[p] = h
      BY <1>1 DEF Iguales
    <2>2. conexion[h] = "abierta"
      BY TG DEF Interno
    <2>3. Atiende(hilo, h) /\ (Avisado(kernel, hilo, h) => Avisado(kernel', hilo', h))
      BY <1>2 DEF Oye
    <2>4. Avisado(kernel, hilo, h)
      BY <1>5, <2>1, <2>2, <2>3 DEF Enterados
    <2> QED BY <2>3, <2>4
  <1>6. ASSUME MarcasVivas(kernel), Respondera(kernel, alKernel, conexion, principal)
        PROVE  MarcasVivas(kernel') /\ Respondera(kernel', alKernel', conexion', principal')
    <2>1. MarcasVivas(kernel')
      BY <1>1, <1>6 DEF MarcasVivas, Iguales
    <2>2. Respondera(kernel', alKernel', conexion', principal')
      BY <1>1, <1>6 DEF Respondera, Pendiente, Iguales
    <2> QED BY <2>1, <2>2
  <1> QED BY <1>3, <1>4, <1>5, <1>6 DEF GInv, Sucede, SinAborto

\* One thread goes on, and nothing of the command end changes
Escucha(h) ==
  /\ Corre(h) /\ Oye(h)
  /\ \A d \in Conexiones : d # h => kernel'.canal[d] = kernel.canal[d]
  /\ principal' = principal /\ conexion'[Fin] = conexion[Fin]

LEMMA EscuchaG ==
  ASSUME TInv, GInv, Interno, rarezas \subseteq rarezas', NEW h \in Hilos, Escucha(h)
  PROVE  GInv'
  <1>1. ASSUME NEW g \in Hilos, g # h
        PROVE  Oye(g)
    <2>1. hilo'[g] = hilo[g] /\ kernel'.canal[g] = kernel.canal[g]
      BY <1>1, TG DEF Escucha, Corre
    <2> QED BY <2>1 DEF Oye, Linea, Atiende, Avisado
  <1>2. Oye(h) /\ kernel'.canal[Fin] = kernel.canal[Fin]
    BY TG DEF Escucha
  <1> QED BY <1>1, <1>2, InternoG DEF Escucha

\* A thread that does not read any more
LEMMA SaleOye ==
  ASSUME NEW h \in Hilos, hilo'[h].en \notin {"espera_pid", "recibe", "lee_texto"},
         Cincos(kernel.canal[h]) => Cincos(kernel'.canal[h])
  PROVE  Oye(h)
  BY DEF Oye, Linea, Atiende

LEMMA RecibirPidG ==
  ASSUME TInv, GInv, NEW h \in Hilos, RecibirPid(h)
  PROVE  Escucha(h)
  <1>1. Recibe(h) /\ hilo[h].en = "espera_pid"
    BY DEF RecibirPid
  <1>s. PICK s : s = kernel.canal[h]
    OBVIOUS
  <1>2. /\ principal' = principal
        /\ \A d \in Conexiones : d # h => kernel'.canal[d] = kernel.canal[d]
        /\ HayMensaje(h) => s # <<>> /\ kernel'.canal[h] = Tail(s)
        /\ ~HayMensaje(h) => kernel'.canal[h] = s
    BY <1>1, <1>s, TG, RecibeHace DEF HayMensaje
  <1>4. /\ s \in Seq(Mensajes) /\ hilo \in [Hilos -> DelHilo] /\ h # Fin
        /\ Fin \in Conexiones
    BY <1>s, TG, TodoIgual
  <1>5. CASE /\ HayMensaje(h) /\ Head(kernel.canal[h]) > 0
             /\ hilo' = [hilo EXCEPT ![h].en = "recibe", ![h].pid = Head(kernel.canal[h])]
             /\ UNCHANGED conexion
    <2>p. PICK p : p = Head(s)
      OBVIOUS
    <2>g. PICK g : g = [hilo[h] EXCEPT !.en = "recibe", !.pid = p]
      OBVIOUS
    <2>1. hilo' = [hilo EXCEPT ![h] = g] /\ p > 0
      BY <1>5, <1>s, <2>p, <2>g
    <2>2. g.en = "recibe"
      <3>1. hilo[h] \in DelHilo
        BY <1>4
      <3> QED BY <3>1, <2>g DEF DelHilo
    <2>3. hilo'[h] = g /\ Corre(h)
      <3>1. hilo' \in [Hilos -> DelHilo]
        BY TG, <1>1, RecibirPidHace DEF TInv, Interno
      <3> QED BY <3>1, <2>1, <1>4 DEF Corre
    <2>4. ASSUME Linea(kernel, hilo, h)
          PROVE  /\ Linea(kernel', hilo', h)
                 /\ Avisado(kernel, hilo, h) => Avisado(kernel', hilo', h)
      <3>1. Cincos(s)
        BY <2>4, <1>s DEF Linea
      <3>2. /\ Cincos(Tail(s))
            /\ (\E i \in 2 .. Len(s) : s[i] \in {6, 7}) => Codigo(Tail(s))
        BY <3>1, <1>2, <1>4, <1>5, RestoDeLineas
      <3>3. Linea(kernel', hilo', h)
        BY <3>2, <2>2, <2>3, <1>2, <1>5 DEF Linea
      <3>4. s[1] = p
        BY <1>2, <1>4, <1>5, <2>p, RestoDelCanal
      <3>5. s[1] # -1
        BY <3>4, <2>1
      <3>6. ASSUME Avisado(kernel, hilo, h)
            PROVE  Avisado(kernel', hilo', h)
        <4>1. \E i \in 2 .. Len(s) : s[i] \in {6, 7}
          BY <3>5, <3>6, <1>1, <1>s DEF Avisado
        <4> QED BY <4>1, <3>2, <2>2, <2>3, <1>2, <1>5 DEF Avisado
      <3> QED BY <3>3, <3>6
    <2>5. Oye(h)
      BY <2>4, <1>1 DEF Oye, Atiende
    <2> QED BY <2>3, <2>5, <1>2, <1>5 DEF Escucha
  <1>6. CASE Deja(h) /\ Cierra(h)
    <2>1. Corre(h) /\ hilo'[h].en = "fin"
      BY <1>4, <1>6, DejaHace
    <2>2. conexion'[Fin] = conexion[Fin]
      <3>1. \A c \in Conexiones : c \notin {h} => conexion'[c] = conexion[c]
        BY <1>6, TG, CortaHace DEF Cierra
      <3> QED BY <3>1, <1>4
    <2>3. Cincos(s) => Cincos(kernel'.canal[h])
      BY <1>2, <1>4, RestoDeLineas
    <2>4. Oye(h)
      BY <2>1, <2>3, <1>s, SaleOye
    <2> QED BY <2>1, <2>2, <2>4, <1>2 DEF Escucha
  <1> QED BY <1>5, <1>6 DEF RecibirPid

LEMMA CodigoRecibidoG ==
  ASSUME TInv, GInv, NEW h \in Hilos, CodigoRecibido(h)
  PROVE  Escucha(h)
  <1>1. Recibe(h) /\ hilo[h].en = "recibe" /\ HayMensaje(h) /\ conexion' = conexion
    BY DEF CodigoRecibido
  <1>2. /\ principal' = principal
        /\ \A d \in Conexiones : d # h => kernel'.canal[d] = kernel.canal[d]
    BY <1>1, TG, RecibeHace
  <1>s. PICK s : s = kernel.canal[h]
    OBVIOUS
  <1>c. PICK codigo : codigo = Head(kernel.canal[h])
    OBVIOUS
  <1>3. s # <<>> /\ kernel'.canal[h] = Tail(s) /\ codigo = Head(s)
    BY <1>1, <1>s, <1>c, TG, RecibeHace DEF HayMensaje
  <1>4. s \in Seq(Mensajes) /\ hilo \in [Hilos -> DelHilo] /\ hilo[h] \in DelHilo
    BY <1>s, TG, TodoIgual
  <1>5. Corre(h)
    BY TG, CodigoRecibidoHace DEF TInv
  <1>6. hilo' = CASE codigo = 5 -> [hilo EXCEPT ![h].en = "lee_texto"]
                  [] codigo \in {6, 7} -> [hilo EXCEPT ![h].en = "remueve",
                                                       ![h].avisado = TRUE]
                  [] OTHER -> hilo
    BY <1>c DEF CodigoRecibido
  <1>7. /\ codigo = 5 => hilo'[h].en = "lee_texto"
        /\ codigo \in {6, 7} => hilo'[h].en = "remueve"
        /\ codigo \notin {5, 6, 7} => hilo'[h].en = "recibe"
    <2>1. CASE codigo = 5
      <3>1. hilo' = [hilo EXCEPT ![h].en = "lee_texto"]
        BY <1>6, <2>1
      <3> QED BY <3>1, <2>1, <1>4 DEF DelHilo
    <2>2. CASE codigo \in {6, 7}
      <3>1. codigo # 5
        BY <2>2
      <3>2. hilo' = [hilo EXCEPT ![h].en = "remueve", ![h].avisado = TRUE]
        BY <3>1, <2>2, <1>6, Zenon
      <3> QED BY <3>1, <3>2, <2>2, <1>4 DEF DelHilo
    <2>3. CASE codigo \notin {5, 6, 7}
      <3>1. hilo' = hilo
        BY <1>6, <2>3
      <3> QED BY <3>1, <2>3, <1>1
    <2> QED BY <2>1, <2>2, <2>3
  <1>8. ASSUME Linea(kernel, hilo, h)
        PROVE  /\ Linea(kernel', hilo', h)
               /\ Atiende(hilo', h) /\ Avisado(kernel, hilo, h) => Avisado(kernel', hilo', h)
    <2>1. Cincos(s)
      BY <1>8, <1>s DEF Linea
    <2>2. /\ Cincos(Tail(s))
          /\ Codigo(s) /\ codigo \notin {6, 7} => Codigo(Tail(s))
          /\ codigo = 5 => Len(Tail(s)) >= 2 /\ Tail(s)[1] = Largo /\ Tail(s)[2] = Texto
      BY <2>1, <1>3, <1>4, RestoDeLineas
    <2>3. hilo'[h].en = "lee_texto" => codigo = 5
      BY <1>7
    <2>4. Linea(kernel', hilo', h)
      BY <2>2, <2>3, <1>3 DEF Linea
    <2>5. Atiende(hilo', h) => codigo \notin {6, 7} /\ hilo'[h].en # "espera_pid"
      BY <1>7 DEF Atiende
    <2>6. Avisado(kernel, hilo, h) => Codigo(s)
      BY <1>1, <1>s DEF Avisado
    <2> QED BY <2>2, <2>4, <2>5, <2>6, <1>3 DEF Avisado
  <1>9. Oye(h)
    BY <1>1, <1>8 DEF Oye, Atiende
  <1> QED BY <1>1, <1>2, <1>5, <1>9 DEF Escucha

LEMMA MensajeRecibidoG ==
  ASSUME TInv, GInv, NEW h \in Hilos, MensajeRecibido(h)
  PROVE  Escucha(h)
  <1>1. /\ hilo[h].en = "lee_texto" /\ Len(kernel.canal[h]) > 1
        /\ principal' = principal /\ conexion' = conexion
    BY DEF MensajeRecibido
  <1>2. /\ Corre(h) /\ hilo'[h].en = "recibe"
        /\ kernel'.canal[h] = SubSeq(kernel.canal[h], 3, Len(kernel.canal[h]))
        /\ \A d \in Conexiones : d # h => kernel'.canal[d] = kernel.canal[d]
    BY TG, MensajeRecibidoHace DEF TInv
  <1>s. PICK s : s = kernel.canal[h]
    OBVIOUS
  <1>t. PICK t : t = Tail(s)
    OBVIOUS
  <1>u. PICK u : u = Tail(t)
    OBVIOUS
  <1>3. s \in Seq(Mensajes) /\ Len(s) > 1
    BY <1>1, <1>s, TG, TodoIgual
  <1>4. /\ s # <<>> /\ t # <<>> /\ t \in Seq(Mensajes) /\ SubSeq(s, 3, Len(s)) = u
        /\ Head(s) = s[1] /\ Head(t) = s[2]
    BY <1>3, <1>t, <1>u, RestoDelTexto
  <1>7. kernel'.canal[h] = u
    BY <1>2, <1>4, <1>s
  <1>8. ASSUME Linea(kernel, hilo, h)
        PROVE  /\ Linea(kernel', hilo', h)
               /\ Avisado(kernel, hilo, h) => Avisado(kernel', hilo', h)
    <2>1. Cincos(s) /\ s[1] = Largo /\ s[2] = Texto
      BY <1>1, <1>8, <1>s DEF Linea
    <2>2. Largo \notin {6, 7} /\ Texto \notin {6, 7}
      BY DEF Largo, Texto
    <2>3. Cincos(t) /\ (Codigo(s) => Codigo(t))
      BY <2>1, <2>2, <1>3, <1>4, <1>t, RestoDeLineas
    <2>4. Cincos(u) /\ (Codigo(t) => Codigo(u))
      BY <2>1, <2>2, <2>3, <1>4, <1>u, RestoDeLineas
    <2>5. Linea(kernel', hilo', h)
      BY <2>4, <1>2, <1>7 DEF Linea
    <2>6. Avisado(kernel, hilo, h) => Codigo(s)
      BY <1>1, <1>s DEF Avisado
    <2> QED BY <2>3, <2>4, <2>5, <2>6, <1>2, <1>7 DEF Avisado
  <1>9. Oye(h)
    BY <1>1, <1>8 DEF Oye, Atiende
  <1> QED BY <1>1, <1>2, <1>9 DEF Escucha

LEMMA SinConexionG ==
  ASSUME TInv, GInv, NEW h \in Hilos, SinConexion(h)
  PROVE  Escucha(h)
  <1>1. kernel' = kernel /\ principal' = principal /\ conexion' = conexion
    BY DEF SinConexion, DeLaConsola
  <1>2. Corre(h) /\ hilo'[h].en = "remueve"
    BY TG, SinConexionHace DEF TInv
  <1>3. Oye(h)
    BY <1>1, <1>2, SaleOye
  <1> QED BY <1>1, <1>2, <1>3 DEF Escucha

LEMMA CerrarG ==
  ASSUME TInv, GInv, NEW h \in Hilos, Cerrar(h), alKernel' = alKernel, principal' = principal
  PROVE  Escucha(h)
  <1>1. /\ Corre(h) /\ hilo'[h].en = "fin" /\ kernel'.canal[h] = <<>>
        /\ \A d \in Conexiones : d # h => kernel'.canal[d] = kernel.canal[d]
    BY TG, CerrarHace DEF TInv
  <1>2. h # Fin /\ Fin \in Conexiones /\ Cincos(<<>>)
    BY TG, LineasSueltas
  <1>5. conexion'[Fin] = conexion[Fin]
    <2>1. \A c \in Conexiones : c \notin {h} => conexion'[c] = conexion[c]
      BY TG, CortaHace DEF Cerrar, Cierra
    <2> QED BY <2>1, <1>2
  <1>6. Oye(h)
    BY <1>1, <1>2, SaleOye
  <1> QED BY <1>1, <1>5, <1>6 DEF Escucha

LEMMA MiraG ==
  ASSUME TInv, GInv, NEW h \in Hilos, NEW i \in Nat, Mira(h, i), principal' = principal
  PROVE  Escucha(h)
  <1>1. Corre(h) /\ hilo'[h].en = "mira" /\ conexion' = conexion /\ kernel' = kernel
    BY TG, TodoIgual, MiraHace DEF TInv, ListaTipos
  <1>2. Oye(h)
    BY <1>1, SaleOye
  <1> QED BY <1>1, <1>2 DEF Escucha

LEMMA CaenG ==
  ASSUME TInv, GInv, NEW como \in {"caida", "salio"}, Caen(como)
  PROVE  GInv'
  <1>1. Interno /\ rarezas' = rarezas /\ \A c \in Conexiones : kernel'.canal[c] = <<>>
    BY CaenHace DEF TInv
  <1>2. /\ hilo' = [h \in Hilos |-> IF hilo[h].en = "libre" THEN hilo[h] ELSE Acabado]
        /\ principal' = EnReposo("fin")
    BY DEF Caen
  <1>3. principal'.en = "fin"
    BY <1>2 DEF EnReposo
  <1>4. ASSUME NEW h \in Hilos
        PROVE  Oye(h)
    <2>1. hilo'[h].en \in {"libre", "fin"}
      BY <1>2, AcabadoEs
    <2>2. kernel'.canal[h] = <<>>
      BY <1>1, TG
    <2>3. Cincos(<<>>)
      BY LineasSueltas
    <2> QED BY <2>1, <2>2, <2>3, SaleOye
  <1> QED BY <1>1, <1>3, <1>4, InternoG

LEMMA PasoG ==
  ASSUME TInv, GInv, NEW h \in Hilos, Paso(h)
  PROVE  GInv'
  <1>0. K /\ AvisadosBien /\ ListaTipos /\ h # Fin /\ thread_list \in Seq(Hilos)
    BY TG DEF TInv, ListaTipos
  <1>1. Interno /\ rarezas \subseteq rarezas'
    BY <1>0, PasoHace, RarezasDeLaConsola
  <1>2. Escucha(h) => GInv'
    BY <1>1, EscuchaG
  <1>3. CASE RecibirPid(h) \/ CodigoRecibido(h) \/ MensajeRecibido(h) \/ SinConexion(h)
    BY <1>2, <1>3, RecibirPidG, CodigoRecibidoG, MensajeRecibidoG, SinConexionG
  <1>4. CASE TomarDimension(h)
    <2>1. /\ alKernel' = alKernel /\ principal' = principal /\ 1 \in Nat
          /\ Cerrar(h) \/ Mira(h, 1)
      BY <1>4 DEF TomarDimension, PasoEnLista
    <2> QED BY <2>1, <1>2, CerrarG, MiraG
  <1>5. CASE MirarEntrada(h)
    <2>i. PICK i : i = hilo[h].i
      OBVIOUS
    <2>0. i \in Nat /\ i + 1 \in Nat /\ hilo \in [Hilos -> DelHilo]
      <3>1. hilo[h] \in DelHilo /\ hilo \in [Hilos -> DelHilo]
        BY <1>0, TodoIgual
      <3> QED BY <3>1, <2>i DEF DelHilo
    <2>1. CASE Caen("caida")
      BY <2>1, CaenG
    <2>2. CASE PasoEnLista /\ Va(h, "saca") /\ UNCHANGED <<conexion, kernel>>
      <3>1. Corre(h) /\ hilo'[h].en = "saca" /\ principal' = principal
        BY <2>0, <2>2, VaHace DEF PasoEnLista, Lugares
      <3>2. Oye(h)
        BY <2>2, <3>1, SaleOye
      <3>3. Escucha(h)
        BY <2>2, <3>1, <3>2 DEF Escucha
      <3> QED BY <3>3, <1>2
    <2>3. CASE PasoEnLista /\ (Cerrar(h) \/ Mira(h, i + 1))
      <3>1. alKernel' = alKernel /\ principal' = principal
        BY <2>3 DEF PasoEnLista
      <3> QED BY <3>1, <2>0, <2>3, <1>2, CerrarG, MiraG
    <2>4. Caen("caida") \/ (PasoEnLista /\ Va(h, "saca") /\ UNCHANGED <<conexion, kernel>>)
          \/ (PasoEnLista /\ (Cerrar(h) \/ Mira(h, i + 1)))
      BY <1>5, <2>i DEF MirarEntrada
    <2> QED BY <2>1, <2>2, <2>3, <2>4
  <1>6. CASE SacarEntrada(h)
    <2>1. alKernel' = alKernel /\ principal' = principal /\ Cerrar(h)
      BY <1>6 DEF SacarEntrada, PasoEnLista
    <2> QED BY <2>1, <1>2, CerrarG
  <1> QED BY <1>3, <1>4, <1>5, <1>6 DEF Paso

LEMMA SinHilosG ==
  ASSUME TInv, GInv, Interno, rarezas \subseteq rarezas', hilo' = hilo,
         \A h \in Hilos : kernel'.canal[h] = kernel.canal[h], principal'.en # "espera"
  PROVE  GInv'
  <1>1. ASSUME NEW h \in Hilos
        PROVE  Oye(h)
    BY DEF Oye, Linea, Atiende, Avisado
  <1> QED BY <1>1, InternoG

LEMMA RecibirRespuestaG ==
  ASSUME TInv, GInv, RecibirRespuesta
  PROVE  GInv'
  <1>1. /\ Interno /\ hilo' = hilo
        /\ \A h \in Hilos : kernel'.canal[h] = kernel.canal[h]
    BY RecibirRespuestaHace DEF TInv
  <1>2. rarezas' = rarezas /\ principal'.en # "espera"
    BY DEF RecibirRespuesta, EnReposo
  <1> QED BY <1>1, <1>2, SinHilosG

LEMMA DesconectarHiloG ==
  ASSUME TInv, GInv, DesconectarHilo
  PROVE  GInv'
  <1>i. PICK i : i = principal.i
    OBVIOUS
  <1>u. PICK ultimo : ultimo = (i = principal.dimension)
    OBVIOUS
  <1>1. CASE Caen("caida") \/ Caen("salio")
    BY <1>1, CaenG
  <1>2. CASE /\ principal.en = "dcon"
             /\ principal' = IF ultimo THEN EnReposo("menu") ELSE [principal EXCEPT !.i = i + 1]
             /\ UNCHANGED <<consola, hilo, thread_list, alKernel, kernel, rarezas>>
    <2>1. Interno
      BY DesconectarHiloHace DEF TInv
    <2>2. EnReposo("menu").en = "menu"
      BY DEF EnReposo
    <2>3. [principal EXCEPT !.i = i + 1].en = principal.en
      BY DEF TInv, ListaTipos
    <2>4. principal'.en # "espera"
      BY <1>2, <2>2, <2>3
    <2> QED BY <1>2, <2>1, <2>4, SinHilosG
  <1> QED BY <1>i, <1>u, <1>1, <1>2 DEF DesconectarHilo

LEMMA desconectar_consolaG ==
  ASSUME TInv, GInv, NEW saliendo \in BOOLEAN, desconectar_consola(saliendo)
  PROVE  GInv'
  <1>1. Interno /\ hilo' = hilo /\ rarezas \subseteq rarezas'
    BY desconectar_consolaHace, RarezasDeLaConsola DEF TInv
  <1>2. kernel' = kernel /\ principal'.en # "espera"
    BY DEF desconectar_consola
  <1> QED BY <1>1, <1>2, SinHilosG

\* A connection is opened, and nobody is marked or has ended in the Kernel for it
LEMMA AbreG ==
  ASSUME TInv, GInv, NEW c \in Conexiones, NEW m, Abre(c, m), conexion[c] = "nada",
         kernel' = kernel, rarezas \subseteq rarezas', Lineas(kernel', hilo'),
         \A h \in Hilos : h # c => hilo'[h] = hilo[h],
         \A p \in Pids : kernel.vivo = TRUE => kernel.fd_consola[p] # c,
         kernel.vivo = TRUE => /\ Conocidos(kernel, alKernel')
                               /\ Respondera(kernel, alKernel, conexion, principal)
                                    => Respondera(kernel, alKernel', conexion', principal')
  PROVE  GInv'
  <1>1. /\ conexion'[c] = "abierta"
        /\ \A d \in Conexiones : d # c => conexion'[d] = conexion[d]
    BY TG DEF Abre, LasConexiones
  <1>2. ASSUME kernel.vivo = TRUE
        PROVE  MarcasClaras(kernel, conexion')
    <2> SUFFICES ASSUME NEW i \in DOMAIN kernel.borrar
                 PROVE  IF kernel.borrar[i].exit_code = -7
                        THEN kernel.borrar[i].connection = TRUE
                        ELSE /\ kernel.fd_consola[kernel.borrar[i].proceso] # Nada
                             /\ conexion'[kernel.fd_consola[kernel.borrar[i].proceso]]
                                  = "quitada"
      BY DEF MarcasClaras
    <2>1. kernel.borrar[i].proceso \in Pids
      BY TG, DeLasColas
    <2>2. kernel.fd_consola[kernel.borrar[i].proceso] \in Hilos \cup {Nada}
      BY <2>1, TG DEF Estructuras
    <2>3. MarcasClaras(kernel, conexion)
      BY <1>2 DEF GInv
    <2> QED BY <1>1, <1>2, <2>1, <2>2, <2>3, TG DEF MarcasClaras
  <1>3. ASSUME kernel.vivo = TRUE, Enterados(kernel, hilo, conexion)
        PROVE  Enterados(kernel, hilo', conexion')
    <2> SUFFICES ASSUME NEW p \in Pids, NEW h \in Hilos, p \in kernel.terminados,
                        kernel.fd_consola[p] = h, conexion'[h] = "abierta",
                        Atiende(hilo', h)
                 PROVE  Avisado(kernel, hilo', h)
      BY DEF Enterados
    <2>1. h # c /\ h \in Conexiones
      BY <1>3, TG
    <2>2. hilo'[h] = hilo[h] /\ conexion'[h] = conexion[h]
      BY <2>1, <1>1
    <2>3. Avisado(kernel, hilo, h)
      BY <1>3, <2>2 DEF Enterados, Atiende
    <2> QED BY <2>2, <2>3 DEF Avisado
  <1>4. ASSUME kernel'.vivo = TRUE
        PROVE  /\ Conocidos(kernel', alKernel') /\ NuevosQuietos(kernel')
               /\ MarcasClaras(kernel', conexion')
    <2>1. kernel.vivo = TRUE /\ NuevosQuietos(kernel)
      BY <1>4 DEF GInv
    <2> QED BY <1>2, <2>1
  <1>5. ASSUME kernel'.vivo = TRUE, "rechazo desde New" \notin rarezas',
               "aborto de un marcado" \notin rarezas'
        PROVE  Enterados(kernel', hilo', conexion')
    BY <1>3, <1>5 DEF GInv, Sucede, SinAborto
  <1>6. ASSUME kernel'.vivo = TRUE, "dos marcas" \notin rarezas',
               "aborto de un marcado" \notin rarezas'
        PROVE  MarcasVivas(kernel') /\ Respondera(kernel', alKernel', conexion', principal')
    BY <1>6 DEF GInv, Sucede, SinAborto
  <1> QED BY <1>4, <1>5, <1>6 DEF GInv, Sucede, SinAborto

LEMMA iniciar_programaG ==
  ASSUME TInv, GInv, NEW h \in Hilos, iniciar_programa(h)
  PROVE  GInv'
  <1>1. /\ kernel' = kernel /\ hilo[h].en = "libre" /\ principal' = principal
        /\ Abre(h, <<<<"script">>>>) \/ Abre(h, <<>>)
        /\ rarezas \subseteq rarezas'
    BY DEF iniciar_programa, DeLaConsola, Rareza
  <1>2. h \in Conexiones /\ h # Fin /\ Fin \in Conexiones
    BY TG
  <1>3. conexion[h] = "nada"
    BY <1>1, TG DEF KInv, Base, Libres
  <1>4. \A p \in Pids : kernel.fd_consola[p] # h
    BY <1>1, TG DEF KInv, Base, Nuevos, Nuevo
  <1>5. Corre(h) /\ hilo'[h].en \in {"espera_pid", "fin"}
    BY iniciar_programaHace
  <1>6. \A g \in Hilos : g # h => hilo'[g] = hilo[g]
    BY <1>5 DEF Corre
  <1>7. Lineas(kernel', hilo')
    <2>1. ASSUME NEW g \in Hilos
          PROVE  Linea(kernel', hilo', g)
      BY <1>1, <1>5, <1>6 DEF GInv, Lineas, Linea
    <2> QED BY <2>1 DEF Lineas
  <1>8. ASSUME NEW m, Abre(h, m)
        PROVE  GInv'
    <2>1. alKernel'[Fin] = alKernel[Fin] /\ conexion'[Fin] = conexion[Fin]
      BY <1>2, <1>8, TG DEF Abre, LasConexiones
    <2>2. kernel.vivo = TRUE => Conocidos(kernel, alKernel')
      BY <2>1 DEF GInv, Conocidos
    <2>3. Respondera(kernel, alKernel, conexion, principal)
            => Respondera(kernel, alKernel', conexion', principal')
      BY <1>1, <2>1 DEF Respondera, Pendiente
    <2> QED BY <1>1, <1>2, <1>3, <1>4, <1>6, <1>7, <1>8, <2>2, <2>3, AbreG
  <1> QED BY <1>1, <1>8

LEMMA finalizar_programaG ==
  ASSUME TInv, GInv, NEW p \in Pids, finalizar_programa(p)
  PROVE  GInv'
  <1>m. PICK m : m = <<<<"eliminar", p>>>>
    OBVIOUS
  <1>s. PICK s : s = <<<<"connect">>, <<"handshake">>>> \o m
    OBVIOUS
  <1>1. /\ kernel' = kernel /\ hilo' = hilo /\ rarezas' = rarezas /\ p <= kernel.pid
        /\ conexion[Fin] = "nada" /\ Abre(Fin, m)
    BY <1>m DEF finalizar_programa
  <1>2. conexion'[Fin] = "abierta" /\ alKernel'[Fin] = s
    BY <1>1, <1>s, TG DEF Abre, LasConexiones
  <1>3. /\ DOMAIN s = {1, 2, 3} /\ s[1][1] = "connect" /\ s[2][1] = "handshake"
        /\ s[3][1] = "eliminar" /\ s[3][2] = p
    <2>x. PICK x : x = <<"eliminar", p>>
      OBVIOUS
    <2>1. x \in Pedidos /\ x[1] = "eliminar" /\ x[2] = p
      BY <2>x DEF Pedidos
    <2>2. /\ DOMAIN s = {1, 2, 3} /\ s[1] = <<"connect">> /\ s[2] = <<"handshake">>
          /\ s[3] = x
      BY <1>m, <1>s, <2>x, <2>1, ColaTres
    <2> QED BY <2>1, <2>2
  <1>4. kernel.vivo = TRUE => Conocidos(kernel, alKernel')
    <2>1. ASSUME NEW i \in DOMAIN s, s[i][1] = "eliminar"
          PROVE  s[i][2] <= kernel.pid
      <3>1. i = 3
        BY <1>3, <2>1
      <3> QED BY <3>1, <1>1, <1>3
    <2> QED BY <2>1, <1>2 DEF GInv, Conocidos
  <1>5. Respondera(kernel, alKernel', conexion', principal')
    <2>1. Pide(s, "eliminar")
      BY <1>3 DEF Pide
    <2> QED BY <2>1, <1>2 DEF Respondera, Pendiente
  <1>6. \A q \in Pids : kernel.fd_consola[q] # Fin
    <2>1. \A q \in Pids : kernel.fd_consola[q] \in Hilos \cup {Nada}
      BY TG DEF Estructuras
    <2> QED BY <2>1, TG
  <1>7. Lineas(kernel', hilo')
    BY <1>1 DEF GInv
  <1> QED BY <1>1, <1>4, <1>5, <1>6, <1>7, TG, AbreG

LEMMA GInicial == Init => GInv
  <1> SUFFICES ASSUME Init
               PROVE  GInv
    OBVIOUS
  <1>1. /\ kernel = EnBlanco /\ hilo = [h \in Hilos |-> Libre]
        /\ alKernel = [c \in Conexiones |-> <<>>] /\ principal = EnReposo("menu")
    BY DEF Init
  <1>2. /\ kernel.borrar = <<>> /\ kernel.nuevos = <<>> /\ kernel.terminados = {}
        /\ kernel.estado = [p \in Pids |-> "NoExiste"]
        /\ kernel.canal = [c \in Conexiones |-> <<>>]
    BY <1>1, Zenon DEF EnBlanco
  <1>3. Hilos \subseteq Conexiones /\ Fin \in Conexiones
    BY DEF Conexiones
  <1>4. Lineas(kernel, hilo)
    <2> SUFFICES ASSUME NEW h \in Hilos
                 PROVE  Linea(kernel, hilo, h)
      BY DEF Lineas
    <2>1. hilo[h].en = "libre"
      BY <1>1, AcabadoEs
    <2>2. kernel.canal[h] = <<>>
      BY <1>2, <1>3, Zenon
    <2> QED BY <2>1, <2>2, LineasSueltas DEF Linea
  <1>5. Conocidos(kernel, alKernel)
    <2>1. alKernel[Fin] = <<>>
      BY <1>1, <1>3
    <2>2. \A p \in Pids : kernel.estado[p] = "NoExiste"
      BY <1>2
    <2> QED BY <2>1, <2>2, <1>2 DEF Conocidos
  <1>6. NuevosQuietos(kernel) /\ MarcasClaras(kernel, conexion) /\ MarcasVivas(kernel)
    BY <1>2 DEF NuevosQuietos, MarcasClaras, MarcasVivas
  <1>7. Enterados(kernel, hilo, conexion)
    BY <1>2 DEF Enterados
  <1>8. Respondera(kernel, alKernel, conexion, principal)
    BY <1>1 DEF Respondera, EnReposo
  <1> QED BY <1>4, <1>5, <1>6, <1>7, <1>8 DEF GInv

LEMMA GPaso ==
  ASSUME SinLineas
  PROVE  TInv /\ HInv /\ GInv /\ [Next]_vars => GInv'
  <1> SUFFICES ASSUME TInv, HInv, GInv, [Next]_vars
               PROVE  GInv'
    OBVIOUS
  <1>1. ASSUME NEW c \in Conexiones, DeLaConexion(c)
        PROVE  GInv'
    <2>1. TInv' /\ DelKernel /\ rarezas \subseteq rarezas'
      BY <1>1, TPaso, RarezasCrecen
    <2>2. BienDelKernel
      <3>1. CASE sock_accept_new_connection(c)
        BY <3>1, AceptarG
      <3>2. CASE Handshake(c)
        BY <2>1, <3>2, HandshakeG
      <3>3. CASE NuevoPrograma(c)
        BY <3>3, NuevoProgramaG
      <3>4. CASE EliminarProceso(c)
        BY <3>4, EliminarG
      <3>5. CASE Desconectar(c)
        BY <3>5, DesconectarG
      <3> QED BY <1>1, <3>1, <3>2, <3>3, <3>4, <3>5 DEF DeLaConexion
    <2> QED BY <2>1, <2>2, SigueG
  <1>2. CASE DeLosProcesos
    <2>1. DelKernel /\ rarezas \subseteq rarezas'
      BY <1>2, RarezasCrecen
    <2>2. BienDelKernel
      <3>1. CASE AdmitirDeNew
        BY <3>1, AdmitirDeNewG
      <3>2. ASSUME NEW p \in Pids, Despachar(p)
            PROVE  BienDelKernel
        BY <3>2, DespacharG
      <3>3. ASSUME NEW p \in Pids, Imprimir(p)
            PROVE  BienDelKernel
        BY <3>3, ImprimirG
      <3>4. ASSUME NEW p \in Pids, FinDeTurno(p)
            PROVE  BienDelKernel
        BY <3>4, FinDeTurnoG
      <3> QED BY <1>2, <3>1, <3>2, <3>3, <3>4 DEF DeLosProcesos
    <2> QED BY <2>1, <2>2, SigueG
  <1>3. ASSUME NEW p \in Pids, finalizar_programa(p)
        PROVE  GInv'
    BY <1>3, finalizar_programaG
  <1>4. ASSUME NEW h \in Hilos, iniciar_programa(h)
        PROVE  GInv'
    BY <1>4, iniciar_programaG
  <1>5. ASSUME NEW h \in Hilos, Paso(h)
        PROVE  GInv'
    BY <1>5, PasoG
  <1>6. CASE MainSigue
    BY <1>6, RecibirRespuestaG, DesconectarHiloG DEF MainSigue
  <1>7. CASE Salir
    BY <1>7, CaenG DEF Salir
  <1>8. ASSUME NEW saliendo \in BOOLEAN, desconectar_consola(saliendo)
        PROVE  GInv'
    BY <1>8, desconectar_consolaG
  <1>9. CASE UNCHANGED vars
    <2>1. /\ kernel' = kernel /\ hilo' = hilo /\ conexion' = conexion /\ alKernel' = alKernel
          /\ principal' = principal /\ rarezas' = rarezas
      BY <1>9 DEF vars
    <2> QED BY <2>1 DEF GInv, Sucede, SinAborto
  <1> QED
    BY <1>1, <1>2, <1>3, <1>4, <1>5, <1>6, <1>7, <1>8, <1>9 DEF Next, DeLosProcesos

LEMMA NoEstaVacia ==
  ASSUME NEW S, NEW s \in Seq(S), NEW i \in DOMAIN s
  PROVE  s # <<>>
  OBVIOUS

LEMMA AskeadoraFin ==
  ASSUME NEW k, MarcasBien(k), NEW i \in DOMAIN k.borrar, k.borrar[i].exit_code = -7
  PROVE  k.borrar[i].askeadora = Fin
  BY DEF MarcasBien

\* Of the two that wait, the command end
LEMMA RespuestaLlega ==
  ASSUME TInv, GInv, principal.en = "espera", kernel.vivo = TRUE,
         rarezas \cap {"dos marcas", "aborto de un marcado"} = {}
  PROVE  \/ alKernel[Fin] # <<>> \/ kernel.canal[Fin] # <<>>
         \/ \E i \in DOMAIN kernel.borrar :
              /\ kernel.borrar[i].askeadora = Fin
              /\ kernel.estado[kernel.borrar[i].proceso] = "Exec"
  <1>1. MarcasVivas(kernel) /\ Pendiente(kernel, alKernel)
    BY DEF GInv, SinAborto, Sucede, Respondera
  <1>2. ASSUME Pide(alKernel[Fin], "eliminar")
        PROVE  alKernel[Fin] # <<>>
    <2>s. PICK s : s = alKernel[Fin]
      OBVIOUS
    <2>1. s \in Seq(Pedidos)
      BY <2>s, TG DEF KInv, Base, Tipos, ColaBien
    <2>2. PICK i : i \in DOMAIN s
      BY <1>2, <2>s DEF Pide
    <2>3. s # <<>>
      BY <2>1, <2>2, NoEstaVacia
    <2> QED BY <2>3, <2>s
  <1>3. ASSUME NEW i \in DOMAIN kernel.borrar, kernel.borrar[i].exit_code = -7
        PROVE  /\ kernel.borrar[i].askeadora = Fin
               /\ kernel.estado[kernel.borrar[i].proceso] = "Exec"
    <2>1. MarcasBien(kernel)
      BY TG DEF KInv, Base
    <2>2. kernel.borrar[i].askeadora = Fin
      BY <1>3, <2>1, AskeadoraFin
    <2> QED BY <2>2, <1>1 DEF MarcasVivas
  <1> QED BY <1>1, <1>2, <1>3 DEF Pendiente

\* NadieEsperaEnVano: a thread that reads finds the code of the end of its program in what
\* end_process sent (Kernel.c), and the command end its request, its mark in
\* procesos_a_borrar or the answer, but for the cases the property names.  As 5 announces a
\* line (script_thread, Consola.c), no process may have it for its pid.
THEOREM NadieEsperaSinAviso ==
  ASSUME SinLineas
  PROVE  Spec => []NadieEsperaEnVano
  <1>1. TInv /\ GInv => NadieEsperaEnVano
    <2> SUFFICES ASSUME TInv, GInv
                 PROVE  NadieEsperaEnVano
      OBVIOUS
    <2>1. AvisoEnCamino
      <3> SUFFICES ASSUME kernel.vivo,
                          ~Sucede("rechazo desde New"), ~Sucede("aborto de un marcado"),
                          NEW h \in Hilos, hilo[h].en \in {"recibe", "lee_texto"},
                          conexion[h] = "abierta", hilo[h].pid \in kernel.terminados
                   PROVE  ToSet(kernel.canal[h]) \cap {6, 7} # {}
        BY DEF AvisoEnCamino, Sucede
      <3>1. kernel.vivo = TRUE
        BY TG
      <3>2. Enterados(kernel, hilo, conexion)
        BY <3>1 DEF GInv, SinAborto
      <3>p. PICK p : p = hilo[h].pid
        OBVIOUS
      <3>3. p \in Pids /\ kernel.fd_consola[p] = h
        BY <3>1, <3>p, TG DEF KInv, Base, SusPids, Suyo
      <3>4. Avisado(kernel, hilo, h)
        BY <3>2, <3>3, <3>p DEF Enterados, Atiende
      <3>5. Codigo(kernel.canal[h])
        BY <3>4 DEF Avisado
      <3>6. PICK i \in DOMAIN kernel.canal[h] : kernel.canal[h][i] \in {6, 7}
        BY <3>5 DEF Codigo
      <3> QED BY <3>6 DEF ToSet
    <2>2. RespuestaEnCamino
      BY TG, RespuestaLlega, Zenon DEF RespuestaEnCamino
    <2> QED BY <2>1, <2>2 DEF NadieEsperaEnVano
  <1>2. TInv /\ HInv /\ GInv /\ [Next]_vars => (TInv /\ HInv /\ GInv)'
    BY TPaso, HPaso, GPaso
  <1> QED BY <1>1, <1>2, TInicial, HInicial, GInicial, PTL DEF Spec
=============================================================================
