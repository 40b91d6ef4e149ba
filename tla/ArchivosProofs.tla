--------------------------- MODULE ArchivosProofs ---------------------------
(***************************************************************************)
(* Theorems about the tables of open files of the Kernel, for any number   *)
(* of paths, processes and descriptors.                                    *)
(***************************************************************************)
EXTENDS Archivos, TLAPS, SequenceTheorems, FiniteSetTheorems

-----------------------------------------------------------------------------
(* Sequences *)

\* A set of positions that is not empty has a first one
LEMMA MinimoEsta ==
  ASSUME NEW S \in SUBSET Nat, S # {}
  PROVE  Min(S) \in S /\ \A y \in S : Min(S) <= y
  <1> DEFINE R == {ss \in Nat \X Nat : ss[1] < ss[2]}
  <1>1. R = OpToRel(<, Nat)
    BY DEF OpToRel
  <1>2. \A x, y \in Nat : <<y, x>> \notin R => x <= y
    OBVIOUS
  <1> HIDE DEF R
  <1>3. IsWellFoundedOn(R, Nat)
    BY <1>1, NatLessThanWellFounded
  <1>4. PICK x \in S : \A y \in S : <<y, x>> \notin R
    BY <1>3, WFMin
  <1>5. \A y \in S : x <= y
    BY <1>2, <1>4
  <1> QED BY <1>5 DEF Min

LEMMA ElementoDe ==
  ASSUME NEW S, NEW s \in Seq(S), NEW i \in DOMAIN s
  PROVE  s[i] \in S
  OBVIOUS

\* What RemoveAt leaves
LEMMA Quitar ==
  ASSUME NEW S, NEW s \in Seq(S), NEW i \in DOMAIN s
  PROVE  /\ RemoveAt(s, i) \in Seq(S)
         /\ Len(RemoveAt(s, i)) = Len(s) - 1
         /\ \A j \in 1 .. i - 1 : RemoveAt(s, i)[j] = s[j]
         /\ \A j \in i .. Len(s) - 1 : RemoveAt(s, i)[j] = s[j + 1]
  <1>n. PICK n : n = Len(s)
    OBVIOUS
  <1>0. n \in Nat /\ i \in 1 .. n /\ \A j \in 1 .. n : s[j] \in S
    BY <1>n
  <1> DEFINE antes   == SubSeq(s, 1, i - 1)
             despues == SubSeq(s, i + 1, n)
  <1>1. /\ antes \in Seq(S) /\ Len(antes) = i - 1
        /\ \A j \in 1 .. i - 1 : antes[j] = s[j]
    <2>1. 1 \in Int /\ i - 1 \in Int /\ \A j \in 1 .. i - 1 : s[j] \in S
      BY <1>0
    <2>2. /\ antes \in Seq(S) /\ Len(antes) = IF 1 <= i - 1 THEN (i - 1) - 1 + 1 ELSE 0
          /\ \A j \in 1 .. (i - 1) - 1 + 1 : antes[j] = s[1 + j - 1]
      BY <2>1, SubSeqProperties
    <2> QED BY <2>2, <1>0
  <1>2. /\ despues \in Seq(S) /\ Len(despues) = n - i
        /\ \A j \in 1 .. n - i : despues[j] = s[i + j]
    <2>1. n \in Int /\ i + 1 \in Int /\ \A j \in i + 1 .. n : s[j] \in S
      BY <1>0
    <2>2. /\ despues \in Seq(S)
          /\ Len(despues) = IF i + 1 <= n THEN n - (i + 1) + 1 ELSE 0
          /\ \A j \in 1 .. n - (i + 1) + 1 : despues[j] = s[(i + 1) + j - 1]
      BY <2>1, SubSeqProperties
    <2>3. \A j \in 1 .. n - i : (i + 1) + j - 1 = i + j
      BY <1>0
    <2> QED BY <2>2, <2>3, <1>0
  <1>3. RemoveAt(s, i) = antes \o despues
    BY <1>n DEF RemoveAt
  <1> HIDE DEF antes, despues
  <1>4. /\ antes \o despues \in Seq(S)
        /\ Len(antes \o despues) = n - 1
        /\ \A j \in 1 .. i - 1 : (antes \o despues)[j] = s[j]
        /\ \A j \in 1 .. n - i : (antes \o despues)[(i - 1) + j] = s[i + j]
    <2>1. Len(antes) + Len(despues) = n - 1
      BY <1>0, <1>1, <1>2
    <2>2. /\ antes \o despues \in Seq(S)
          /\ Len(antes \o despues) = Len(antes) + Len(despues)
          /\ \A j \in 1 .. Len(antes) + Len(despues) :
               (antes \o despues)[j] = IF j <= Len(antes) THEN antes[j]
                                      ELSE despues[j - Len(antes)]
      BY <1>1, <1>2, ConcatProperties
    <2>3. \A j \in 1 .. n - 1 :
             (antes \o despues)[j] = IF j <= i - 1 THEN antes[j] ELSE despues[j - (i - 1)]
      BY <2>1, <2>2, <1>1
    <2>4. ASSUME NEW j \in 1 .. i - 1
          PROVE  (antes \o despues)[j] = s[j]
      <3>1. j \in 1 .. n - 1 /\ j <= i - 1
        BY <1>0
      <3> QED BY <3>1, <2>3, <1>1
    <2>5. ASSUME NEW j \in 1 .. n - i
          PROVE  (antes \o despues)[(i - 1) + j] = s[i + j]
      <3>m. PICK m : m = (i - 1) + j
        OBVIOUS
      <3>1. m \in 1 .. n - 1 /\ ~(m <= i - 1) /\ m - (i - 1) = j
        <4>1. i \in Nat /\ j \in Nat /\ n \in Nat /\ i >= 1 /\ j >= 1 /\ j <= n - i
          BY <1>0
        <4>2. m \in Nat /\ m = (i - 1) + j
          BY <3>m, <4>1
        <4>3. m <= n - 1 /\ 1 <= m /\ ~(m <= i - 1)
          BY <4>1, <4>2
        <4>4. m - (i - 1) = j
          BY <4>1, <4>2
        <4> QED BY <4>1, <4>2, <4>3, <4>4
      <3>2. (antes \o despues)[m] = despues[m - (i - 1)]
        BY <3>1, <2>3
      <3> QED BY <3>1, <3>2, <3>m, <1>2
    <2> QED BY <2>1, <2>2, <2>4, <2>5
  <1>5. ASSUME NEW j \in i .. n - 1
        PROVE  RemoveAt(s, i)[j] = s[j + 1]
    <2>m. PICK m : m = j - (i - 1)
      OBVIOUS
    <2>1. m \in 1 .. n - i /\ (i - 1) + m = j /\ i + m = j + 1
      <3>1. i \in Nat /\ j \in Nat /\ n \in Nat /\ i <= j /\ j <= n - 1
        BY <1>0
      <3> QED BY <2>m, <3>1
    <2>2. (antes \o despues)[(i - 1) + m] = s[i + m]
      BY <2>1, <1>4
    <2> QED BY <2>1, <2>2, <1>3
  <1> QED BY <1>3, <1>4, <1>5, <1>n

\* Every element but one
LEMMA QuitarDeja ==
  ASSUME NEW S, NEW s \in Seq(S), NEW i \in DOMAIN s
  PROVE  /\ \A j \in DOMAIN RemoveAt(s, i) :
              \E m \in DOMAIN s : m # i /\ RemoveAt(s, i)[j] = s[m]
         /\ \A m \in DOMAIN s : m # i =>
              \E j \in DOMAIN RemoveAt(s, i) : RemoveAt(s, i)[j] = s[m]
  <1>n. PICK n : n = Len(s)
    OBVIOUS
  <1>t. PICK t : t = RemoveAt(s, i)
    OBVIOUS
  <1>0. n \in Nat /\ i \in 1 .. n /\ DOMAIN s = 1 .. n
    BY <1>n
  <1>1. /\ t \in Seq(S) /\ Len(t) = n - 1
        /\ \A j \in 1 .. i - 1 : t[j] = s[j]
        /\ \A j \in i .. n - 1 : t[j] = s[j + 1]
    BY <1>n, <1>t, Quitar
  <1>2. DOMAIN t = 1 .. n - 1
    BY <1>1
  <1>3. ASSUME NEW j \in 1 .. n - 1
        PROVE  \E m \in 1 .. n : m # i /\ t[j] = s[m]
    <2>1. CASE j \in 1 .. i - 1
      <3>1. j \in 1 .. n /\ j # i
        BY <2>1, <1>0
      <3> QED BY <3>1, <2>1, <1>1
    <2>2. CASE j \in i .. n - 1
      <3>1. j + 1 \in 1 .. n /\ j + 1 # i
        BY <2>2, <1>0
      <3> QED BY <3>1, <2>2, <1>1
    <2> QED BY <2>1, <2>2, <1>0
  <1>4. ASSUME NEW m \in 1 .. n, m # i
        PROVE  \E j \in 1 .. n - 1 : t[j] = s[m]
    <2>1. CASE m < i
      <3>1. m \in 1 .. i - 1 /\ m \in 1 .. n - 1
        BY <2>1, <1>0
      <3> QED BY <3>1, <1>1
    <2>2. CASE m > i
      <3>1. m - 1 \in i .. n - 1 /\ (m - 1) + 1 = m /\ m - 1 \in 1 .. n - 1
        BY <2>2, <1>0
      <3> QED BY <3>1, <1>1
    <2> QED BY <2>1, <2>2, <1>4, <1>0
  <1> QED BY <1>0, <1>2, <1>3, <1>4, <1>t

\* An element more, at the end
LEMMA Agregar ==
  ASSUME NEW S, NEW s \in Seq(S), NEW x \in S
  PROVE  /\ Append(s, x) \in Seq(S) /\ DOMAIN Append(s, x) = 1 .. Len(s) + 1
         /\ \A j \in DOMAIN Append(s, x) :
              \/ j \in DOMAIN s /\ Append(s, x)[j] = s[j]
              \/ j = Len(s) + 1 /\ Append(s, x)[j] = x
         /\ \A j \in DOMAIN s : j \in DOMAIN Append(s, x) /\ Append(s, x)[j] = s[j]
         /\ Len(s) + 1 \in DOMAIN Append(s, x) /\ Append(s, x)[Len(s) + 1] = x
  <1>n. PICK n : n = Len(s)
    OBVIOUS
  <1>0. n \in Nat /\ DOMAIN s = 1 .. n
    BY <1>n
  <1>1. /\ Append(s, x) \in Seq(S) /\ Len(Append(s, x)) = n + 1
        /\ \A j \in 1 .. n : Append(s, x)[j] = s[j]
        /\ Append(s, x)[n + 1] = x
    BY <1>n, AppendProperties
  <1>2. DOMAIN Append(s, x) = 1 .. n + 1
    BY <1>1
  <1> QED BY <1>0, <1>1, <1>2, <1>n


\* Two that are left were two
LEMMA QuitarSepara ==
  ASSUME NEW S, NEW s \in Seq(S), NEW k \in DOMAIN s,
         NEW i \in DOMAIN RemoveAt(s, k), NEW j \in DOMAIN RemoveAt(s, k)
  PROVE  \E a, b \in DOMAIN s :
           RemoveAt(s, k)[i] = s[a] /\ RemoveAt(s, k)[j] = s[b] /\ (a = b => i = j)
  <1>x. PICK x : x = Len(s)
    OBVIOUS
  <1>r. PICK r : r = RemoveAt(s, k)
    OBVIOUS
  <1>1. /\ Len(r) = x - 1 /\ r \in Seq(S)
        /\ \A m \in 1 .. k - 1 : r[m] = s[m]
        /\ \A m \in k .. x - 1 : r[m] = s[m + 1]
    BY <1>x, <1>r, Quitar
  <1>2. x \in Nat /\ k \in 1 .. x /\ DOMAIN s = 1 .. x /\ DOMAIN r = 1 .. x - 1
    BY <1>x, <1>1
  <1>3. i \in 1 .. x - 1 /\ j \in 1 .. x - 1
    BY <1>2, <1>r
  <1> DEFINE De(m) == IF m < k THEN m ELSE m + 1
  <1>4. /\ De(i) \in 1 .. x /\ De(j) \in 1 .. x
        /\ De(i) = De(j) => i = j
    BY <1>2, <1>3
  <1>5. ASSUME NEW m \in 1 .. x - 1
        PROVE  r[m] = s[De(m)]
    <2>1. CASE m < k
      <3>1. m \in 1 .. k - 1 /\ De(m) = m
        BY <1>2, <2>1
      <3> QED BY <3>1, <1>1
    <2>2. CASE ~(m < k)
      <3>1. m \in k .. x - 1 /\ De(m) = m + 1
        BY <1>2, <2>2
      <3> QED BY <3>1, <1>1
    <2> QED BY <2>1, <2>2
  <1> HIDE DEF De
  <1>6. r[i] = s[De(i)] /\ r[j] = s[De(j)]
    BY <1>3, <1>5
  <1> QED BY <1>2, <1>4, <1>6, <1>r

-----------------------------------------------------------------------------
(* The two tables *)

LasRarezas == {"desplazada", "fuga", "tabla ajena", "tabla de otro"}
Entrada == [ruta : Rutas, instancias : Nat \ {0}]
Estados ==
  [tablas : Seq(TablaDeProceso), global : Seq(Entrada), caido : BOOLEAN,
   rarezas : SUBSET LasRarezas, codigo : Int]

\* A file has one entry.
Unicas(g) == \A i, j \in DOMAIN g : g[i].ruta = g[j].ruta => i = j

\* A list of descriptors has each number once, of those given so far.
ListaBien(tabla) ==
  LET l == tabla.lista_de_archivos
  IN  /\ Len(l) + FD_INICIAL_ARCHIVOS <= tabla.current_fd
      /\ \A k \in DOMAIN l : l[k].fd <= tabla.current_fd
      /\ \A j, k \in DOMAIN l : l[j].fd = l[k].fd => j = k

\* A process has one table.
TablasBien(ts, n) ==
  /\ \A t \in DOMAIN ts : ts[t].pid <= n /\ ListaBien(ts[t])
  /\ \A t, u \in DOMAIN ts : ts[t].pid = ts[u].pid => t = u

\* The descriptors that name an entry, by process and number: closing one or throwing a
\* table away moves none of these, as it does the positions that Nombres counts.
Nominas(ts, i) ==
  {n \in Pids \X Fds :
     \E t \in DOMAIN ts : \E k \in DOMAIN ts[t].lista_de_archivos :
       /\ n = <<ts[t].pid, ts[t].lista_de_archivos[k].fd>>
       /\ ts[t].lista_de_archivos[k].referencia = i}

UnoSi(ab, i) == IF ab # Nada /\ ab.referencia = i THEN 1 ELSE 0

\* Every descriptor names the entry of the file it was opened for.
Fieles(ts, g) ==
  \A t \in DOMAIN ts : \A k \in DOMAIN ts[t].lista_de_archivos :
    LET d == ts[t].lista_de_archivos[k]
    IN  d.referencia \in DOMAIN g /\ g[d.referencia].ruta = d.ruta

AbriendoFiel(ab, g) ==
  ab # Nada => ab.referencia \in DOMAIN g /\ g[ab.referencia].ruta = ab.ruta

\* The counts, exact unless a table was thrown away with descriptors in it
Contadas(ts, g, ab, fuga) ==
  \A i \in DOMAIN g :
    /\ Cardinality(Nominas(ts, i)) + UnoSi(ab, i) <= g[i].instancias
    /\ ~fuga => Cardinality(Nominas(ts, i)) + UnoSi(ab, i) = g[i].instancias

\* What the functions of the Kernel keep, with ab being opened and n processes created
Bien(s, ab, n) ==
  /\ s \in Estados /\ Unicas(s.global) /\ TablasBien(s.tablas, n)
  /\ "desplazada" \notin s.rarezas =>
       /\ Fieles(s.tablas, s.global) /\ AbriendoFiel(ab, s.global)
       /\ Contadas(s.tablas, s.global, ab, "fuga" \in s.rarezas)

-----------------------------------------------------------------------------
(* Searches *)

LEMMA TablaHallada ==
  ASSUME NEW ts \in Seq(TablaDeProceso), NEW p
  PROVE  \/ TablaDe(ts, p) = 0 /\ \A t \in DOMAIN ts : ts[t].pid # p
         \/ TablaDe(ts, p) \in DOMAIN ts /\ ts[TablaDe(ts, p)].pid = p
  <1> DEFINE I == {i \in 1 .. Len(ts) : ts[i].pid = p}
  <1>1. TablaDe(ts, p) = IF I # {} THEN Min(I) ELSE 0
    BY DEF TablaDe, SelectInSeq
  <1>2. DOMAIN ts = 1 .. Len(ts) /\ I \in SUBSET Nat
    OBVIOUS
  <1>3. ASSUME I # {}
        PROVE  Min(I) \in I
    BY <1>2, <1>3, MinimoEsta
  <1> QED BY <1>1, <1>2, <1>3

LEMMA DescriptorHallado ==
  ASSUME NEW l \in Seq(Descriptor), NEW fd
  PROVE  \/ Buscar(l, fd) = 0 /\ \A k \in DOMAIN l : l[k].fd # fd
         \/ Buscar(l, fd) \in DOMAIN l /\ l[Buscar(l, fd)].fd = fd
  <1> DEFINE I == {i \in 1 .. Len(l) : l[i].fd = fd}
  <1>1. Buscar(l, fd) = IF I # {} THEN Min(I) ELSE 0
    BY DEF Buscar, SelectInSeq
  <1>2. DOMAIN l = 1 .. Len(l) /\ I \in SUBSET Nat
    OBVIOUS
  <1>3. ASSUME I # {}
        PROVE  Min(I) \in I
    BY <1>2, <1>3, MinimoEsta
  <1> QED BY <1>1, <1>2, <1>3

-----------------------------------------------------------------------------
(* Counting *)

LEMMA NominasFinitas ==
  ASSUME NEW ts, NEW i
  PROVE  IsFiniteSet(Nominas(ts, i)) /\ Cardinality(Nominas(ts, i)) \in Nat
  <1>1. IsFiniteSet(Pids) /\ IsFiniteSet(Fds)
    <2>1. 1 \in Int /\ MaxPid \in Int /\ 0 \in Int /\ FD_INICIAL_ARCHIVOS + MaxAbiertos \in Int
      BY ArchivosAssumption DEF FD_INICIAL_ARCHIVOS
    <2> QED BY <2>1, FS_Interval DEF Pids, Fds
  <1>2. IsFiniteSet(Pids \X Fds)
    BY <1>1, FS_Product
  <1>3. Nominas(ts, i) \in SUBSET (Pids \X Fds)
    BY DEF Nominas
  <1>4. IsFiniteSet(Nominas(ts, i))
    BY <1>2, <1>3, FS_Subset
  <1> QED BY <1>4, FS_CardinalityType

\* The global table is never longer than the paths there are.
LEMMA LargoDeGlobal ==
  ASSUME NEW g \in Seq(Entrada), Unicas(g)
  PROVE  Len(g) <= Cardinality(Rutas) /\ Cardinality(Rutas) \in Nat
  <1>n. PICK n : n = Len(g)
    OBVIOUS
  <1>0. n \in Nat /\ DOMAIN g = 1 .. n
    BY <1>n
  <1> DEFINE f == [i \in 1 .. n |-> g[i].ruta]
  <1>1. f \in Injection(1 .. n, Rutas)
    <2>1. \A i \in 1 .. n : g[i].ruta \in Rutas
      <3>1. \A i \in 1 .. n : g[i] \in Entrada
        BY <1>0, ElementoDe
      <3> QED BY <3>1 DEF Entrada
    <2>2. \A i, j \in 1 .. n : f[i] = f[j] => i = j
      BY <1>0 DEF Unicas
    <2> QED BY <2>1, <2>2 DEF Injection, IsInjective
  <1>2. IsFiniteSet(Rutas)
    BY ArchivosAssumption
  <1>3. Cardinality(1 .. n) <= Cardinality(Rutas)
    BY <1>1, <1>2, FS_Injection
  <1>4. Cardinality(1 .. n) = n
    <2>1. Cardinality(1 .. n) = IF 1 > n THEN 0 ELSE n - 1 + 1
      BY <1>0, FS_Interval
    <2> QED BY <2>1, <1>0
  <1>5. Cardinality(Rutas) \in Nat
    BY <1>2, FS_CardinalityType
  <1> QED BY <1>3, <1>4, <1>5, <1>n

\* The names by position and the names by number of the descriptor are as many.
LEMMA MismasNominas ==
  ASSUME NEW i, TypeOK, TablasBien(tabla_de_archivos_por_proceso, pid)
  PROVE  /\ Cardinality(Nombres(i)) = Cardinality(Nominas(tabla_de_archivos_por_proceso, i))
         /\ IsFiniteSet(Nombres(i))
  <1> DEFINE ts == tabla_de_archivos_por_proceso
             l(t) == ts[t].lista_de_archivos
             N == Nombres(i)
             M == Nominas(ts, i)
  <1>1. \A t \in DOMAIN ts : ts[t] \in TablaDeProceso
    BY ElementoDe DEF TypeOK
  <1>2. ASSUME NEW t \in DOMAIN ts, NEW k \in DOMAIN l(t)
        PROVE  /\ l(t)[k] \in Descriptor /\ ts[t].pid \in Pids /\ l(t)[k].fd \in Fds
               /\ k \in 1 .. MaxAbiertos * MaxPid
    <2>1. ts[t].lista_de_archivos \in Seq(Descriptor) /\ ts[t].pid \in Pids /\ ts[t].current_fd \in Fds
      BY <1>1 DEF TablaDeProceso
    <2>2. l(t)[k] \in Descriptor
      BY <2>1, ElementoDe
    <2>3. Len(l(t)) + FD_INICIAL_ARCHIVOS <= ts[t].current_fd
      BY DEF TablasBien, ListaBien
    <2>4. k \in 1 .. MaxAbiertos * MaxPid
      <3>n. PICK n : n = Len(l(t))
        OBVIOUS
      <3>1. n \in Nat /\ k \in 1 .. n
        BY <2>1, <3>n
      <3>2. n <= MaxAbiertos /\ MaxPid \in Nat /\ MaxPid >= 1 /\ MaxAbiertos \in Nat
        BY <2>1, <2>3, <3>n, <3>1, ArchivosAssumption DEF Fds, Pids, FD_INICIAL_ARCHIVOS
      <3>3. MaxAbiertos <= MaxAbiertos * MaxPid /\ MaxAbiertos * MaxPid \in Nat
        <4>1. \A a, b \in Nat : b >= 1 => a <= a * b /\ a * b \in Nat
          OBVIOUS
        <4> QED BY <4>1, <3>2
      <3> QED BY <3>1, <3>2, <3>3
    <2> QED BY <2>1, <2>2, <2>4 DEF Descriptor
  <1>3. \A n : n \in N <=> \E t \in DOMAIN ts : \E k \in DOMAIN l(t) :
                             n = <<t, k>> /\ l(t)[k].referencia = i
    BY <1>2 DEF Nombres, tablas
  <1>4. \A n : n \in M <=> \E t \in DOMAIN ts : \E k \in DOMAIN l(t) :
                             n = <<ts[t].pid, l(t)[k].fd>> /\ l(t)[k].referencia = i
    BY <1>2 DEF Nominas
  <1> DEFINE f == [n \in N |-> <<ts[n[1]].pid, l(n[1])[n[2]].fd>>]
  <1>5. f \in [N -> M]
    <2> SUFFICES ASSUME NEW n \in N
                 PROVE  <<ts[n[1]].pid, l(n[1])[n[2]].fd>> \in M
      OBVIOUS
    <2> HIDE DEF N, M
    <2> QED BY <1>3, <1>4
  <1>6. \A a, b \in N : f[a] = f[b] => a = b
    <2> SUFFICES ASSUME NEW a \in N, NEW b \in N, f[a] = f[b]
                 PROVE  a = b
      OBVIOUS
    <2>t. PICK t \in DOMAIN ts : \E k \in DOMAIN l(t) : a = <<t, k>>
      BY <1>3
    <2>1. PICK k \in DOMAIN l(t) : a = <<t, k>>
      BY <2>t
    <2>u. PICK u \in DOMAIN ts : \E m \in DOMAIN l(u) : b = <<u, m>>
      BY <1>3
    <2>2. PICK m \in DOMAIN l(u) : b = <<u, m>>
      BY <2>u
    <2>3. ts[t].pid = ts[u].pid /\ l(t)[k].fd = l(u)[m].fd
      BY <2>1, <2>2
    <2>4. t = u
      BY <2>3 DEF TablasBien
    <2>5. k = m
      BY <2>3, <2>4 DEF TablasBien, ListaBien
    <2> QED BY <2>1, <2>2, <2>4, <2>5
  <1>7. \A m \in M : \E n \in N : f[n] = m
    <2> SUFFICES ASSUME NEW m \in M
                 PROVE  \E n \in N : f[n] = m
      OBVIOUS
    <2>t. PICK t \in DOMAIN ts : \E k \in DOMAIN l(t) :
             m = <<ts[t].pid, l(t)[k].fd>> /\ l(t)[k].referencia = i
      BY <1>4
    <2>1. PICK k \in DOMAIN l(t) : m = <<ts[t].pid, l(t)[k].fd>> /\ l(t)[k].referencia = i
      BY <2>t
    <2>2. <<t, k>> \in N
      BY <2>1, <1>3
    <2> QED BY <2>1, <2>2
  <1> HIDE DEF f, N, M
  <1>8. f \in Injection(N, M) /\ f \in Surjection(N, M)
    BY <1>5, <1>6, <1>7 DEF Injection, Surjection, IsInjective
  <1>9. IsFiniteSet(M)
    BY NominasFinitas DEF M
  <1>10. IsFiniteSet(N) /\ Cardinality(N) = Cardinality(M)
    BY <1>8, <1>9, FS_Injection
  <1> QED BY <1>10 DEF N, M

-----------------------------------------------------------------------------
(* Closing a descriptor *)

\* An element of a list of descriptors is one
LEMMA DeLaLista ==
  ASSUME NEW ts \in Seq(TablaDeProceso), NEW t \in DOMAIN ts
  PROVE  /\ ts[t] \in TablaDeProceso /\ ts[t].pid \in Pids /\ ts[t].current_fd \in Fds
         /\ ts[t].lista_de_archivos \in Seq(Descriptor)
         /\ \A k \in DOMAIN ts[t].lista_de_archivos :
              /\ ts[t].lista_de_archivos[k] \in Descriptor
              /\ ts[t].lista_de_archivos[k].fd \in Fds
              /\ ts[t].lista_de_archivos[k].referencia \in 1 .. Cardinality(Rutas)
              /\ ts[t].lista_de_archivos[k].ruta \in Rutas
  <1>1. ts[t] \in TablaDeProceso
    BY ElementoDe
  <1>2. ts[t].pid \in Pids /\ ts[t].current_fd \in Fds /\ ts[t].lista_de_archivos \in Seq(Descriptor)
    BY <1>1 DEF TablaDeProceso
  <1>3. ASSUME NEW k \in DOMAIN ts[t].lista_de_archivos
        PROVE  ts[t].lista_de_archivos[k] \in Descriptor
    BY <1>2, ElementoDe
  <1>4. \A d \in Descriptor : d.fd \in Fds /\ d.referencia \in 1 .. Cardinality(Rutas) /\ d.ruta \in Rutas
    BY DEF Descriptor
  <1> QED BY <1>1, <1>2, <1>3, <1>4

\* The tables with another list in one of them
LEMMA OtraLista ==
  ASSUME NEW ts \in Seq(TablaDeProceso), NEW t \in DOMAIN ts, NEW l \in Seq(Descriptor)
  PROVE  LET us == [ts EXCEPT ![t].lista_de_archivos = l]
         IN  /\ us \in Seq(TablaDeProceso) /\ DOMAIN us = DOMAIN ts
             /\ \A u \in DOMAIN ts :
                  /\ us[u].pid = ts[u].pid /\ us[u].current_fd = ts[u].current_fd
                  /\ u # t => us[u] = ts[u]
             /\ us[t].lista_de_archivos = l
  <1>t. PICK x : x = [ts[t] EXCEPT !.lista_de_archivos = l]
    OBVIOUS
  <1>u. PICK us : us = [ts EXCEPT ![t].lista_de_archivos = l]
    OBVIOUS
  <1>0. ts[t] \in TablaDeProceso
    BY ElementoDe
  <1>1. x \in TablaDeProceso /\ x.pid = ts[t].pid /\ x.current_fd = ts[t].current_fd
        /\ x.lista_de_archivos = l
    BY <1>0, <1>t DEF TablaDeProceso
  <1>2. us = [ts EXCEPT ![t] = x]
    BY <1>t, <1>u
  <1>3. us \in Seq(TablaDeProceso) /\ DOMAIN us = DOMAIN ts
    BY <1>1, <1>2
  <1>4. us[t] = x /\ \A u \in DOMAIN ts : u # t => us[u] = ts[u]
    BY <1>2
  <1> QED BY <1>1, <1>3, <1>4, <1>u

\* The tables us are ts but for a descriptor, of name x, which named the entry e.
Quitado(ts, us, n, x, e) ==
  /\ us \in Seq(TablaDeProceso) /\ DOMAIN us = DOMAIN ts /\ TablasBien(us, n)
  /\ \A u \in DOMAIN ts : us[u].pid = ts[u].pid
  /\ \A u \in DOMAIN ts : \A j \in DOMAIN us[u].lista_de_archivos :
       \E m \in DOMAIN ts[u].lista_de_archivos :
         us[u].lista_de_archivos[j] = ts[u].lista_de_archivos[m]
  /\ \A i : Nominas(us, i) = Nominas(ts, i) \ {x}
  /\ x \in Nominas(ts, e)
  /\ \A i : i # e => x \notin Nominas(ts, i)

LEMMA SinDescriptor ==
  ASSUME NEW ts \in Seq(TablaDeProceso), NEW n, TablasBien(ts, n),
         NEW t \in DOMAIN ts, NEW k \in DOMAIN ts[t].lista_de_archivos
  PROVE  Quitado(ts, [ts EXCEPT ![t].lista_de_archivos = RemoveAt(@, k)], n,
                 <<ts[t].pid, ts[t].lista_de_archivos[k].fd>>,
                 ts[t].lista_de_archivos[k].referencia)
  <1>us. PICK us : us = [ts EXCEPT ![t].lista_de_archivos = RemoveAt(@, k)]
    OBVIOUS
  <1>d. PICK d : d = ts[t].lista_de_archivos[k]
    OBVIOUS
  <1>l. PICK l : l = ts[t].lista_de_archivos
    OBVIOUS
  <1>r. PICK r : r = RemoveAt(l, k)
    OBVIOUS
  <1>p. PICK p : p = ts[t].pid
    OBVIOUS
  <1>0. /\ l \in Seq(Descriptor) /\ k \in DOMAIN l /\ d = l[k] /\ p \in Pids
        /\ d.fd \in Fds
    BY <1>l, <1>p, <1>d, DeLaLista
  <1>1. us = [ts EXCEPT ![t].lista_de_archivos = r]
    BY <1>l, <1>r, <1>us
  <1>2. /\ r \in Seq(Descriptor) /\ Len(r) = Len(l) - 1
        /\ \A j \in 1 .. k - 1 : r[j] = l[j]
        /\ \A j \in k .. Len(l) - 1 : r[j] = l[j + 1]
    BY <1>0, <1>r, Quitar
  <1>3. /\ \A j \in DOMAIN r : \E m \in DOMAIN l : m # k /\ r[j] = l[m]
        /\ \A m \in DOMAIN l : m # k => \E j \in DOMAIN r : r[j] = l[m]
    BY <1>0, <1>r, QuitarDeja
  <1>4. /\ us \in Seq(TablaDeProceso) /\ DOMAIN us = DOMAIN ts
        /\ \A u \in DOMAIN ts : /\ us[u].pid = ts[u].pid /\ us[u].current_fd = ts[u].current_fd
                                /\ u # t => us[u] = ts[u]
        /\ us[t].lista_de_archivos = r
    <2>1. r \in Seq(Descriptor)
      BY <1>2
    <2> QED BY <1>1, <2>1, OtraLista
  <1>5. /\ Len(l) + FD_INICIAL_ARCHIVOS <= ts[t].current_fd
        /\ \A m \in DOMAIN l : l[m].fd <= ts[t].current_fd
        /\ \A j, m \in DOMAIN l : l[j].fd = l[m].fd => j = m
    BY <1>l DEF TablasBien, ListaBien
  <1>6. ListaBien(us[t])
    <2>1. Len(r) + FD_INICIAL_ARCHIVOS <= us[t].current_fd
      <3>1. ts[t].current_fd \in Nat
        BY DeLaLista, ArchivosAssumption DEF Fds, FD_INICIAL_ARCHIVOS
      <3>2. Len(l) \in Nat
        BY <1>0
      <3>3. us[t].current_fd = ts[t].current_fd /\ Len(r) = Len(l) - 1
        BY <1>2, <1>4
      <3>4. Len(l) + FD_INICIAL_ARCHIVOS <= ts[t].current_fd
        BY <1>5
      <3>5. \A a, b \in Nat : a + FD_INICIAL_ARCHIVOS <= b => (a - 1) + FD_INICIAL_ARCHIVOS <= b
        BY DEF FD_INICIAL_ARCHIVOS
      <3> QED BY <3>1, <3>2, <3>3, <3>4, <3>5
    <2>2. \A j \in DOMAIN r : r[j].fd <= us[t].current_fd
      BY <1>3, <1>4, <1>5
    <2>3. ASSUME NEW i \in DOMAIN r, NEW j \in DOMAIN r, r[i].fd = r[j].fd
          PROVE  i = j
      <3>1. \E a, b \in DOMAIN l : r[i] = l[a] /\ r[j] = l[b] /\ (a = b => i = j)
        BY <1>0, <1>r, QuitarSepara
      <3> QED BY <3>1, <2>3, <1>5
    <2>4. \A i, j \in DOMAIN r : r[i].fd = r[j].fd => i = j
      BY <2>3
    <2>y. PICK y : y = us[t]
      OBVIOUS
    <2>5. y.lista_de_archivos = r
      BY <2>y, <1>4
    <2>6. ListaBien(y)
      BY <2>1, <2>2, <2>4, <2>5, <2>y DEF ListaBien
    <2> QED BY <2>6, <2>y
  <1>7. TablasBien(us, n)
    BY <1>4, <1>6 DEF TablasBien
  <1>8. ASSUME NEW u \in DOMAIN ts, NEW j \in DOMAIN us[u].lista_de_archivos
        PROVE  \E m \in DOMAIN ts[u].lista_de_archivos :
                 us[u].lista_de_archivos[j] = ts[u].lista_de_archivos[m]
    <2>1. CASE u = t
      BY <2>1, <1>8, <1>3, <1>4, <1>l
    <2>2. CASE u # t
      BY <2>2, <1>8, <1>4
    <2> QED BY <2>1, <2>2
  <1>9. ASSUME NEW i
        PROVE  Nominas(us, i) = Nominas(ts, i) \ {<<p, d.fd>>}
    <2>1. ASSUME NEW x \in Nominas(us, i)
          PROVE  x \in Nominas(ts, i) /\ x # <<p, d.fd>>
      <3>1. PICK u \in DOMAIN us : \E j \in DOMAIN us[u].lista_de_archivos :
               /\ x = <<us[u].pid, us[u].lista_de_archivos[j].fd>>
               /\ us[u].lista_de_archivos[j].referencia = i
        BY <2>1 DEF Nominas
      <3>2. PICK j \in DOMAIN us[u].lista_de_archivos :
               /\ x = <<us[u].pid, us[u].lista_de_archivos[j].fd>>
               /\ us[u].lista_de_archivos[j].referencia = i
        BY <3>1
      <3>3. PICK m \in DOMAIN ts[u].lista_de_archivos :
               us[u].lista_de_archivos[j] = ts[u].lista_de_archivos[m]
        BY <1>8, <1>4
      <3>4. x \in Nominas(ts, i)
        <4>1. x \in Pids \X Fds
          BY <2>1 DEF Nominas
        <4>2. x = <<ts[u].pid, ts[u].lista_de_archivos[m].fd>> /\ ts[u].lista_de_archivos[m].referencia = i
          BY <3>2, <3>3, <1>4
        <4>3. u \in DOMAIN ts
          BY <1>4
        <4> QED BY <4>1, <4>2, <4>3 DEF Nominas
      <3>5. x # <<p, d.fd>>
        <4> SUFFICES ASSUME x = <<p, d.fd>>
                     PROVE  FALSE
          OBVIOUS
        <4>1. us[u].pid = p /\ us[u].lista_de_archivos[j].fd = d.fd
          BY <3>2
        <4>2. u = t
          BY <4>1, <1>4, <1>p DEF TablasBien
        <4>3. j \in DOMAIN r /\ r[j].fd = d.fd
          BY <4>1, <4>2, <1>4
        <4>4. PICK y \in DOMAIN l : y # k /\ r[j] = l[y]
          BY <4>3, <1>3
        <4> QED BY <4>3, <4>4, <1>0, <1>5
      <3> QED BY <3>4, <3>5
    <2>2. ASSUME NEW x \in Nominas(ts, i), x # <<p, d.fd>>
          PROVE  x \in Nominas(us, i)
      <3>1. PICK u \in DOMAIN ts : \E j \in DOMAIN ts[u].lista_de_archivos :
               /\ x = <<ts[u].pid, ts[u].lista_de_archivos[j].fd>>
               /\ ts[u].lista_de_archivos[j].referencia = i
        BY <2>2 DEF Nominas
      <3>2. PICK j \in DOMAIN ts[u].lista_de_archivos :
               /\ x = <<ts[u].pid, ts[u].lista_de_archivos[j].fd>>
               /\ ts[u].lista_de_archivos[j].referencia = i
        BY <3>1
      <3>3. \E m \in DOMAIN us[u].lista_de_archivos :
               us[u].lista_de_archivos[m] = ts[u].lista_de_archivos[j]
        <4>1. CASE u # t
          BY <4>1, <1>4
        <4>2. CASE u = t
          <5>1. j \in DOMAIN l /\ j # k
            BY <4>2, <3>2, <2>2, <1>0, <1>l, <1>p
          <5> QED BY <5>1, <4>2, <1>3, <1>4, <1>l
        <4> QED BY <4>1, <4>2
      <3>4. PICK m \in DOMAIN us[u].lista_de_archivos :
               us[u].lista_de_archivos[m] = ts[u].lista_de_archivos[j]
        BY <3>3
      <3>5. x = <<us[u].pid, us[u].lista_de_archivos[m].fd>> /\ us[u].lista_de_archivos[m].referencia = i
        BY <3>2, <3>4, <1>4
      <3>6. x \in Pids \X Fds /\ u \in DOMAIN us
        BY <2>2, <1>4 DEF Nominas
      <3> QED BY <3>5, <3>6 DEF Nominas
    <2> QED BY <2>1, <2>2
  <1>10. <<p, d.fd>> \in Nominas(ts, d.referencia)
    BY <1>0, <1>l, <1>p DEF Nominas
  <1>11. ASSUME NEW i, <<p, d.fd>> \in Nominas(ts, i)
         PROVE  i = d.referencia
    <2>1. PICK u \in DOMAIN ts : \E j \in DOMAIN ts[u].lista_de_archivos :
             /\ <<p, d.fd>> = <<ts[u].pid, ts[u].lista_de_archivos[j].fd>>
             /\ ts[u].lista_de_archivos[j].referencia = i
      BY <1>11 DEF Nominas
    <2>2. u = t
      BY <2>1, <1>p DEF TablasBien
    <2>3. PICK j \in DOMAIN l : l[j].fd = d.fd /\ l[j].referencia = i
      BY <2>1, <2>2, <1>l
    <2> QED BY <2>3, <1>0, <1>5
  <1>12. Quitado(ts, us, n, <<p, d.fd>>, d.referencia)
    <2>1. \A i : i # d.referencia => <<p, d.fd>> \notin Nominas(ts, i)
      BY <1>11
    <2>2. us \in Seq(TablaDeProceso) /\ DOMAIN us = DOMAIN ts
      BY <1>4
    <2>3. \A u \in DOMAIN ts : us[u].pid = ts[u].pid
      BY <1>4
    <2> QED BY <2>1, <2>2, <2>3, <1>7, <1>8, <1>9, <1>10 DEF Quitado
  <1> QED BY <1>12, <1>p, <1>us, <1>d

\* What a call of execute_close may change: no table comes or goes, and it faults only
\* where an entry has moved.
Sigue(s, r) ==
  /\ DOMAIN r.tablas = DOMAIN s.tablas
  /\ \A u \in DOMAIN s.tablas : r.tablas[u].pid = s.tablas[u].pid
  /\ s.rarezas \subseteq r.rarezas /\ r.rarezas \subseteq s.rarezas \cup {"desplazada"}
  /\ r.caido => s.caido \/ "desplazada" \in r.rarezas


LEMMA EstadoDe ==
  ASSUME NEW ts \in Seq(TablaDeProceso), NEW g \in Seq(Entrada), NEW c \in BOOLEAN,
         NEW w \in SUBSET LasRarezas, NEW x \in Int
  PROVE  LET r == [tablas |-> ts, global |-> g, caido |-> c, rarezas |-> w, codigo |-> x]
         IN  /\ r \in Estados /\ r.tablas = ts /\ r.global = g /\ r.caido = c /\ r.rarezas = w
  BY DEF Estados

LEMMA UnicasSin ==
  ASSUME NEW g \in Seq(Entrada), Unicas(g), NEW k \in DOMAIN g
  PROVE  Unicas(RemoveAt(g, k))
  <1> SUFFICES ASSUME NEW i \in DOMAIN RemoveAt(g, k), NEW j \in DOMAIN RemoveAt(g, k),
                      RemoveAt(g, k)[i].ruta = RemoveAt(g, k)[j].ruta
               PROVE  i = j
    BY DEF Unicas
  <1>1. PICK a \in DOMAIN g, b \in DOMAIN g :
           RemoveAt(g, k)[i] = g[a] /\ RemoveAt(g, k)[j] = g[b] /\ (a = b => i = j)
    BY QuitarSepara
  <1> QED BY <1>1 DEF Unicas

\* The entry of a file when the descriptor d is taken from its table
LEMMA SoltarBien ==
  ASSUME NEW s, NEW ab, NEW n, Bien(s, ab, n),
         NEW t \in DOMAIN s.tablas, NEW k \in DOMAIN s.tablas[t].lista_de_archivos,
         NEW d, d = s.tablas[t].lista_de_archivos[k],
         NEW us, us = [s.tablas EXCEPT ![t].lista_de_archivos = RemoveAt(@, k)],
         NEW r, r = Soltar([s EXCEPT !.tablas = us], d.referencia)
  PROVE  Bien(r, ab, n) /\ Sigue(s, r)
  <1>e. PICK e : e = d.referencia
    OBVIOUS
  <1>g. PICK g : g = s.global
    OBVIOUS
  <1>ts. PICK ts : ts = s.tablas
    OBVIOUS
  <1>v. PICK v : v = [s EXCEPT !.tablas = us]
    OBVIOUS
  <1>x. PICK x : x = <<ts[t].pid, d.fd>>
    OBVIOUS
  <1>0. /\ s \in Estados /\ ts \in Seq(TablaDeProceso) /\ g \in Seq(Entrada)
        /\ Unicas(g) /\ TablasBien(ts, n)
    BY <1>g, <1>ts DEF Bien, Estados
  <1>1. /\ us \in Seq(TablaDeProceso) /\ DOMAIN us = DOMAIN ts /\ TablasBien(us, n)
        /\ \A u \in DOMAIN ts : us[u].pid = ts[u].pid
        /\ \A u \in DOMAIN ts : \A j \in DOMAIN us[u].lista_de_archivos :
             \E m \in DOMAIN ts[u].lista_de_archivos :
               us[u].lista_de_archivos[j] = ts[u].lista_de_archivos[m]
        /\ \A i : Nominas(us, i) = Nominas(ts, i) \ {x}
        /\ x \in Nominas(ts, e)
        /\ \A i : i # e => x \notin Nominas(ts, i)
    <2>1. /\ t \in DOMAIN ts /\ k \in DOMAIN ts[t].lista_de_archivos
          /\ us = [ts EXCEPT ![t].lista_de_archivos = RemoveAt(@, k)]
          /\ d = ts[t].lista_de_archivos[k]
      BY <1>ts
    <2>3. Quitado(ts, [ts EXCEPT ![t].lista_de_archivos = RemoveAt(@, k)], n,
                  <<ts[t].pid, ts[t].lista_de_archivos[k].fd>>,
                  ts[t].lista_de_archivos[k].referencia)
      <3>1. t \in DOMAIN ts /\ k \in DOMAIN ts[t].lista_de_archivos
        BY <1>ts
      <3> QED BY <3>1, <1>0, SinDescriptor
    <2>2. Quitado(ts, us, n, x, e)
      BY <2>1, <2>3, <1>e, <1>x
    <2> QED BY <2>2 DEF Quitado
  <1>a. us \in Seq(TablaDeProceso) /\ DOMAIN us = DOMAIN ts
    BY <1>1
  <1>b. \A u \in DOMAIN ts : us[u].pid = ts[u].pid
    BY <1>1
  <1>c. ASSUME NEW u \in DOMAIN us, NEW j \in DOMAIN us[u].lista_de_archivos
        PROVE  /\ us[u].pid \in Pids /\ us[u].lista_de_archivos[j].fd \in Fds
               /\ \E m \in DOMAIN ts[u].lista_de_archivos :
                    us[u].lista_de_archivos[j] = ts[u].lista_de_archivos[m]
    <2>1. \E m \in DOMAIN ts[u].lista_de_archivos :
             us[u].lista_de_archivos[j] = ts[u].lista_de_archivos[m]
      BY <1>1
    <2>2. us[u].pid \in Pids /\ us[u].lista_de_archivos[j].fd \in Fds
      BY <1>a, DeLaLista
    <2> QED BY <2>1, <2>2
  <1>2. /\ \A i : i # e => Cardinality(Nominas(us, i)) = Cardinality(Nominas(ts, i))
        /\ Cardinality(Nominas(us, e)) = Cardinality(Nominas(ts, e)) - 1
    <2>1. ASSUME NEW i, i # e
          PROVE  Nominas(us, i) = Nominas(ts, i)
      <3>1. Nominas(us, i) = Nominas(ts, i) \ {x}
        BY <1>1
      <3>2. x \notin Nominas(ts, i)
        BY <2>1, <1>1
      <3> QED BY <3>1, <3>2
    <2>2. Cardinality(Nominas(ts, e) \ {x}) = Cardinality(Nominas(ts, e)) - 1
      BY <1>1, NominasFinitas, FS_RemoveElement
    <2> QED BY <2>1, <2>2, <1>1
  <1>3. /\ v \in Estados /\ v.tablas = us /\ v.global = g /\ v.caido = s.caido
        /\ v.rarezas = s.rarezas /\ v.codigo = s.codigo
    BY <1>0, <1>1, <1>v, <1>g DEF Estados
  <1>4. ASSUME "desplazada" \notin s.rarezas
        PROVE  Fieles(ts, g) /\ AbriendoFiel(ab, g) /\ Contadas(ts, g, ab, "fuga" \in s.rarezas)
    BY <1>4, <1>g, <1>ts DEF Bien
  <1>5. ASSUME "desplazada" \notin s.rarezas
        PROVE  e \in DOMAIN g
    BY <1>4, <1>5, <1>e, <1>ts DEF Fieles
  <1>6. r = Soltar(v, e)
    BY <1>v, <1>e
  <1>7. CASE e \notin DOMAIN g
    <2>1. "desplazada" \in s.rarezas
      BY <1>5, <1>7
    <2>2. r = [v EXCEPT !.caido = TRUE]
      BY <1>3, <1>6, <1>7 DEF Soltar
    <2>3. /\ r \in Estados /\ r.tablas = us /\ r.global = g /\ r.rarezas = s.rarezas
      BY <1>3, <2>2 DEF Estados
    <2>4. Bien(r, ab, n)
      BY <2>1, <2>3, <1>0, <1>1 DEF Bien
    <2>5. Sigue(s, r)
      <3>0. r.tablas = us /\ s.tablas = ts
        BY <2>3, <1>ts
      <3>1. DOMAIN r.tablas = DOMAIN s.tablas
            /\ \A u \in DOMAIN s.tablas : r.tablas[u].pid = s.tablas[u].pid
        BY <3>0, <1>a, <1>b, Zenon
      <3> QED BY <2>1, <2>3, <3>1 DEF Sigue
    <2> QED BY <2>4, <2>5
  <1>8. CASE e \in DOMAIN g /\ g[e].instancias = 1
    <2>h. PICK h : h = RemoveAt(g, e)
      OBVIOUS
    <2>w. PICK w : w = IF e < Len(g) THEN s.rarezas \cup {"desplazada"} ELSE s.rarezas
      OBVIOUS
    <2>1. r = [v EXCEPT !.global = h, !.codigo = 1, !.rarezas = w]
      BY <1>3, <1>6, <1>8, <2>h, <2>w DEF Soltar
    <2>2. /\ h \in Seq(Entrada) /\ Len(h) = Len(g) - 1
          /\ \A j \in 1 .. e - 1 : h[j] = g[j]
      BY <1>0, <1>8, <2>h, Quitar
    <2>3. w \in SUBSET LasRarezas /\ s.rarezas \subseteq w /\ w \subseteq s.rarezas \cup {"desplazada"}
      BY <1>0, <2>w DEF Estados, LasRarezas
    <2>4. /\ r \in Estados /\ r.tablas = us /\ r.global = h /\ r.rarezas = w
          /\ r.caido = s.caido
      <3>1. r = [tablas |-> us, global |-> h, caido |-> s.caido, rarezas |-> w, codigo |-> 1]
        BY <1>3, <2>1 DEF Estados
      <3>2. s.caido \in BOOLEAN
        BY <1>0 DEF Estados
      <3>u. 1 \in Int
        OBVIOUS
      <3>3. LET x2 == [tablas |-> us, global |-> h, caido |-> s.caido, rarezas |-> w, codigo |-> 1]
            IN  /\ x2 \in Estados /\ x2.tablas = us /\ x2.global = h /\ x2.caido = s.caido
                /\ x2.rarezas = w
        BY <3>2, <3>u, <1>a, <2>2, <2>3, EstadoDe, Zenon
      <3> QED BY <3>1, <3>3, Zenon
    <2>5. Unicas(h)
      BY <1>0, <1>8, <2>h, UnicasSin
    <2>6. ASSUME "desplazada" \notin w
          PROVE  Fieles(us, h) /\ AbriendoFiel(ab, h) /\ Contadas(us, h, ab, "fuga" \in w)
      <3>m. PICK m : m = Len(g)
        OBVIOUS
      <3>1. /\ "desplazada" \notin s.rarezas /\ w = s.rarezas
            /\ m \in Nat /\ e \in 1 .. m /\ DOMAIN g = 1 .. m /\ ~(e < m)
        BY <2>6, <2>w, <1>8, <1>0, <3>m
      <3>2. e = m /\ DOMAIN h = 1 .. m - 1 /\ \A j \in 1 .. m - 1 : h[j] = g[j]
        BY <3>1, <2>2, <3>m
      <3>3. Fieles(ts, g) /\ AbriendoFiel(ab, g) /\ Contadas(ts, g, ab, "fuga" \in s.rarezas)
        BY <3>1, <1>4
      <3>4. Nominas(us, e) = {} /\ UnoSi(ab, e) = 0
        <4>1. Cardinality(Nominas(ts, e)) + UnoSi(ab, e) <= 1
          BY <3>3, <1>8 DEF Contadas
        <4>2. /\ Cardinality(Nominas(ts, e)) \in Nat /\ UnoSi(ab, e) \in {0, 1}
              /\ Cardinality(Nominas(us, e)) \in Nat
          BY NominasFinitas DEF UnoSi
        <4>3. Cardinality(Nominas(us, e)) = 0 /\ UnoSi(ab, e) = 0
          BY <4>1, <4>2, <1>2
        <4> QED BY <4>3, NominasFinitas, FS_EmptySet
      <3>5. Fieles(us, h)
        <4> SUFFICES ASSUME NEW u \in DOMAIN us, NEW j \in DOMAIN us[u].lista_de_archivos
                     PROVE  /\ us[u].lista_de_archivos[j].referencia \in DOMAIN h
                            /\ h[us[u].lista_de_archivos[j].referencia].ruta = us[u].lista_de_archivos[j].ruta
          BY DEF Fieles
        <4>f. PICK f : f = us[u].lista_de_archivos[j]
          OBVIOUS
        <4>1. f.referencia \in DOMAIN g /\ g[f.referencia].ruta = f.ruta
          <5>1. PICK m2 \in DOMAIN ts[u].lista_de_archivos : f = ts[u].lista_de_archivos[m2]
            BY <4>f, <1>c
          <5> QED BY <5>1, <3>3, <1>a DEF Fieles
        <4>2. <<us[u].pid, f.fd>> \in Nominas(us, f.referencia)
          <5>1. us[u].pid \in Pids /\ f.fd \in Fds
            BY <4>f, <1>c
          <5>2. <<us[u].pid, f.fd>> \in Pids \X Fds
            BY <5>1
          <5>3. \E t2 \in DOMAIN us : \E k2 \in DOMAIN us[t2].lista_de_archivos :
                  /\ <<us[u].pid, f.fd>> = <<us[t2].pid, us[t2].lista_de_archivos[k2].fd>>
                  /\ us[t2].lista_de_archivos[k2].referencia = f.referencia
            BY <4>f
          <5> QED BY <5>2, <5>3 DEF Nominas
        <4>3. f.referencia # e
          BY <4>2, <3>4
        <4>4. f.referencia \in 1 .. m - 1
          <5>x. PICK x2 : x2 = f.referencia
            OBVIOUS
          <5>1. x2 \in 1 .. m /\ x2 # m /\ m \in Nat
            BY <5>x, <4>1, <4>3, <3>1, <3>2
          <5>2. x2 \in 1 .. m - 1
            BY <5>1
          <5> QED BY <5>2, <5>x
        <4> QED BY <4>1, <4>4, <4>f, <3>2
      <3>6. AbriendoFiel(ab, h)
        <4> SUFFICES ASSUME ab # Nada
                     PROVE  ab.referencia \in DOMAIN h /\ h[ab.referencia].ruta = ab.ruta
          BY DEF AbriendoFiel
        <4>1. ab.referencia \in DOMAIN g /\ g[ab.referencia].ruta = ab.ruta
          BY <3>3 DEF AbriendoFiel
        <4>2. ab.referencia # e
          BY <3>4 DEF UnoSi
        <4>3. ab.referencia \in 1 .. m - 1
          BY <4>1, <4>2, <3>1, <3>2
        <4> QED BY <4>1, <4>3, <3>2
      <3>7. Contadas(us, h, ab, "fuga" \in w)
        <4> SUFFICES ASSUME NEW i \in 1 .. m - 1
                     PROVE  /\ Cardinality(Nominas(us, i)) + UnoSi(ab, i) <= h[i].instancias
                            /\ "fuga" \notin w =>
                                 Cardinality(Nominas(us, i)) + UnoSi(ab, i) = h[i].instancias
          BY <3>2 DEF Contadas
        <4>1. i # e /\ i \in DOMAIN g /\ h[i] = g[i]
          BY <3>1, <3>2
        <4>2. Cardinality(Nominas(us, i)) = Cardinality(Nominas(ts, i))
          BY <4>1, <1>2
        <4> QED BY <4>1, <4>2, <3>3, <3>1 DEF Contadas
      <3> QED BY <3>5, <3>6, <3>7
    <2>10. TablasBien(us, n)
      BY <1>1
    <2>11. Bien(r, ab, n)
      BY <2>4, <2>5, <2>6, <2>10 DEF Bien
    <2>12. Sigue(s, r)
      BY <2>3, <2>4, <1>a, <1>b, <1>ts DEF Sigue
    <2> QED BY <2>11, <2>12
  <1>9. CASE e \in DOMAIN g /\ g[e].instancias # 1
    <2>c. PICK c : c = g[e].instancias
      OBVIOUS
    <2>y. PICK y : y = [g[e] EXCEPT !.instancias = c - 1]
      OBVIOUS
    <2>h. PICK h : h = [g EXCEPT ![e] = y]
      OBVIOUS
    <2>1. r = [v EXCEPT !.global = h, !.codigo = 1]
      BY <1>3, <1>6, <1>9, <2>c, <2>y, <2>h DEF Soltar
    <2>2. g[e] \in Entrada
      BY <1>0, <1>9, ElementoDe
    <2>3. c \in Nat /\ c > 1 /\ c - 1 \in Nat \ {0}
      BY <2>2, <2>c, <1>9 DEF Entrada
    <2>4. y \in Entrada /\ y.ruta = g[e].ruta /\ y.instancias = c - 1
      BY <2>2, <2>3, <2>y DEF Entrada
    <2>5. /\ h \in Seq(Entrada) /\ DOMAIN h = DOMAIN g /\ h[e] = y
          /\ \A i \in DOMAIN g : i # e => h[i] = g[i]
      BY <2>4, <2>h, <1>0, <1>9
    <2>6. \A i \in DOMAIN g : h[i].ruta = g[i].ruta
      BY <2>4, <2>5
    <2>7. Unicas(h)
      BY <2>5, <2>6, <1>0 DEF Unicas
    <2>8. /\ r \in Estados /\ r.tablas = us /\ r.global = h /\ r.rarezas = s.rarezas
          /\ r.caido = s.caido
      <3>1. r = [tablas |-> us, global |-> h, caido |-> s.caido, rarezas |-> s.rarezas, codigo |-> 1]
        BY <1>3, <2>1 DEF Estados
      <3>2. s.caido \in BOOLEAN /\ s.rarezas \in SUBSET LasRarezas
        BY <1>0 DEF Estados
      <3>3. LET x2 == [tablas |-> us, global |-> h, caido |-> s.caido, rarezas |-> s.rarezas, codigo |-> 1]
            IN  /\ x2 \in Estados /\ x2.tablas = us /\ x2.global = h /\ x2.caido = s.caido
                /\ x2.rarezas = s.rarezas
        <4>1. 1 \in Int
          OBVIOUS
        <4> QED BY <4>1, <3>2, <1>a, <2>5, EstadoDe, Zenon
      <3> QED BY <3>1, <3>3, Zenon
    <2>9. ASSUME "desplazada" \notin s.rarezas
          PROVE  Fieles(us, h) /\ AbriendoFiel(ab, h) /\ Contadas(us, h, ab, "fuga" \in s.rarezas)
      <3>1. Fieles(ts, g) /\ AbriendoFiel(ab, g) /\ Contadas(ts, g, ab, "fuga" \in s.rarezas)
        BY <2>9, <1>4
      <3>2. Fieles(us, h)
        <4> SUFFICES ASSUME NEW u \in DOMAIN us, NEW j \in DOMAIN us[u].lista_de_archivos
                     PROVE  /\ us[u].lista_de_archivos[j].referencia \in DOMAIN h
                            /\ h[us[u].lista_de_archivos[j].referencia].ruta = us[u].lista_de_archivos[j].ruta
          BY DEF Fieles
        <4>f. PICK f : f = us[u].lista_de_archivos[j]
          OBVIOUS
        <4>1. f.referencia \in DOMAIN g /\ g[f.referencia].ruta = f.ruta
          <5>1. PICK m \in DOMAIN ts[u].lista_de_archivos : f = ts[u].lista_de_archivos[m]
            BY <4>f, <1>c
          <5> QED BY <5>1, <3>1, <1>a DEF Fieles
        <4> QED BY <4>1, <4>f, <2>5, <2>6
      <3>3. AbriendoFiel(ab, h)
        BY <3>1, <2>5, <2>6 DEF AbriendoFiel
      <3>4. ASSUME NEW i \in DOMAIN g
            PROVE  /\ Cardinality(Nominas(us, i)) + UnoSi(ab, i) <= h[i].instancias
                   /\ "fuga" \notin s.rarezas =>
                        Cardinality(Nominas(us, i)) + UnoSi(ab, i) = h[i].instancias
        <4>1. /\ Cardinality(Nominas(ts, i)) + UnoSi(ab, i) <= g[i].instancias
              /\ "fuga" \notin s.rarezas =>
                   Cardinality(Nominas(ts, i)) + UnoSi(ab, i) = g[i].instancias
          BY <3>1 DEF Contadas
        <4>2. CASE i # e
          BY <4>1, <4>2, <1>2, <2>5
        <4>3. CASE i = e
          <5>1. h[i].instancias = c - 1 /\ g[i].instancias = c
            BY <4>3, <2>4, <2>5, <2>c
          <5>2. Cardinality(Nominas(us, i)) = Cardinality(Nominas(ts, i)) - 1
            BY <4>3, <1>2
          <5>3. Cardinality(Nominas(ts, i)) \in Nat /\ UnoSi(ab, i) \in {0, 1}
            BY NominasFinitas DEF UnoSi
          <5> QED BY <5>1, <5>2, <5>3, <4>1, <2>3
        <4> QED BY <4>2, <4>3
      <3>5. Contadas(us, h, ab, "fuga" \in s.rarezas)
        BY <3>4, <2>5 DEF Contadas
      <3> QED BY <3>2, <3>3, <3>5
    <2>10. TablasBien(us, n)
      BY <1>1
    <2>11. Bien(r, ab, n)
      BY <2>7, <2>8, <2>9, <2>10 DEF Bien
    <2>12. Sigue(s, r)
      BY <2>8, <1>a, <1>b, <1>ts DEF Sigue
    <2> QED BY <2>11, <2>12
  <1> QED BY <1>7, <1>8, <1>9

LEMMA CodigoBien ==
  ASSUME NEW s, NEW ab, NEW n, Bien(s, ab, n), NEW x \in Int
  PROVE  Bien([s EXCEPT !.codigo = x], ab, n) /\ Sigue(s, [s EXCEPT !.codigo = x])
  <1>r. PICK r : r = [s EXCEPT !.codigo = x]
    OBVIOUS
  <1>0. s \in Estados
    BY DEF Bien
  <1>1. /\ r \in Estados /\ r.tablas = s.tablas /\ r.global = s.global
        /\ r.rarezas = s.rarezas /\ r.caido = s.caido
    BY <1>0, <1>r DEF Estados
  <1> QED BY <1>1, <1>r DEF Bien, Sigue

LEMMA SigueMismo ==
  ASSUME NEW s
  PROVE  Sigue(s, s)
  BY DEF Sigue

LEMMA SigueSigue ==
  ASSUME NEW s, NEW r, NEW x, Sigue(s, r), Sigue(r, x)
  PROVE  Sigue(s, x)
  BY DEF Sigue

LEMMA CloseBien ==
  ASSUME NEW s, NEW ab, NEW n, Bien(s, ab, n), NEW p, NEW fd
  PROVE  Bien(execute_close(s, p, fd), ab, n) /\ Sigue(s, execute_close(s, p, fd))
  <1>t. PICK t : t = TablaDe(s.tablas, p)
    OBVIOUS
  <1>k. PICK k : k = IF t = 0 THEN 0 ELSE Buscar(s.tablas[t].lista_de_archivos, fd)
    OBVIOUS
  <1>r. PICK r : r = execute_close(s, p, fd)
    OBVIOUS
  <1>0. s \in Estados /\ s.tablas \in Seq(TablaDeProceso)
    BY DEF Bien, Estados
  <1>1. CASE s.caido
    BY <1>1, SigueMismo DEF execute_close
  <1>2. CASE ~s.caido /\ (t = 0 \/ k = 0)
    <2>1. r = [s EXCEPT !.codigo = -2] \/ r = [s EXCEPT !.codigo = -12]
      BY <1>2, <1>t, <1>k, <1>r DEF execute_close
    <2>2. -2 \in Int /\ -12 \in Int
      OBVIOUS
    <2> QED BY <2>1, <2>2, <1>r, CodigoBien
  <1>3. CASE ~s.caido /\ t # 0 /\ k # 0
    <2>1. t \in DOMAIN s.tablas
      BY <1>3, <1>t, <1>0, TablaHallada
    <2>2. s.tablas[t].lista_de_archivos \in Seq(Descriptor)
      BY <2>1, <1>0, DeLaLista
    <2>3. k \in DOMAIN s.tablas[t].lista_de_archivos
      BY <1>3, <1>k, <2>2, DescriptorHallado
    <2>d. PICK d : d = s.tablas[t].lista_de_archivos[k]
      OBVIOUS
    <2>u. PICK us : us = [s.tablas EXCEPT ![t].lista_de_archivos = RemoveAt(@, k)]
      OBVIOUS
    <2>4. r = Soltar([s EXCEPT !.tablas = us], d.referencia)
      BY <1>3, <1>t, <1>k, <1>r, <2>d, <2>u DEF execute_close
    <2> QED BY <2>1, <2>3, <2>4, <2>d, <2>u, <1>r, SoltarBien
  <1> QED BY <1>1, <1>2, <1>3

LEMMA UnoBien ==
  ASSUME NEW s, NEW ab, NEW n, Bien(s, ab, n), NEW t, NEW p, NEW j
  PROVE  Bien(CerrarUno(s, t, p, j), ab, n) /\ Sigue(s, CerrarUno(s, t, p, j))
  <1>1. \A fd : Bien(execute_close(s, p, fd), ab, n) /\ Sigue(s, execute_close(s, p, fd))
    BY CloseBien
  <1> QED BY <1>1, SigueMismo DEF CerrarUno

\* The equation of the loop
Vueltas(s, t, p, m, f) ==
  f = [j \in 0 .. m |-> IF j = 0 THEN s ELSE CerrarUno(f[j - 1], t, p, j)]

\* The first turn that breaks the tables would follow one that does not.
LEMMA VueltasBien ==
  ASSUME NEW s, NEW ab, NEW n, Bien(s, ab, n), NEW t, NEW p, NEW m \in Nat,
         NEW f, Vueltas(s, t, p, m, f)
  PROVE  Bien(f[m], ab, n) /\ Sigue(s, f[m])
  <1> DEFINE Malas == {j \in 0 .. m : ~(Bien(f[j], ab, n) /\ Sigue(s, f[j]))}
  <1>1. ASSUME Malas # {}
        PROVE  FALSE
    <2>1. Malas \in SUBSET Nat
      OBVIOUS
    <2>2. Min(Malas) \in Malas /\ \A y \in Malas : Min(Malas) <= y
      <3> HIDE DEF Malas
      <3> QED BY <1>1, <2>1, MinimoEsta
    <2>j. PICK j : j = Min(Malas)
      OBVIOUS
    <2>3. j \in 0 .. m /\ ~(Bien(f[j], ab, n) /\ Sigue(s, f[j])) /\ \A y \in Malas : j <= y
      BY <2>2, <2>j
    <2>4. f[j] = IF j = 0 THEN s ELSE CerrarUno(f[j - 1], t, p, j)
      BY <2>3 DEF Vueltas
    <2>5. CASE j = 0
      BY <2>3, <2>4, <2>5, SigueMismo
    <2>6. CASE j # 0
      <3>1. j - 1 \in 0 .. m /\ ~(j <= j - 1)
        BY <2>3, <2>6
      <3>2. j - 1 \notin Malas
        <4> HIDE DEF Malas
        <4> QED BY <3>1, <2>3
      <3>3. Bien(f[j - 1], ab, n) /\ Sigue(s, f[j - 1])
        BY <3>1, <3>2
      <3>4. Bien(f[j], ab, n) /\ Sigue(f[j - 1], f[j])
        <4>1. f[j] = CerrarUno(f[j - 1], t, p, j)
          BY <2>4, <2>6
        <4> QED BY <4>1, <3>3, UnoBien
      <3> QED BY <3>3, <3>4, <2>3, SigueSigue
    <2> QED BY <2>5, <2>6
  <1>2. m \in 0 .. m
    OBVIOUS
  <1> QED BY <1>1, <1>2

\* The loop has a value: the shortest one without would be a turn longer than one that has.
LEMMA HayVueltas ==
  ASSUME NEW s, NEW t, NEW p, NEW m \in Nat
  PROVE  \E f : Vueltas(s, t, p, m, f)
  <1> DEFINE Sin == {x \in Nat : ~\E f : Vueltas(s, t, p, x, f)}
  <1>1. ASSUME Sin # {}
        PROVE  FALSE
    <2>1. Sin \in SUBSET Nat
      OBVIOUS
    <2>2. Min(Sin) \in Sin /\ \A y \in Sin : Min(Sin) <= y
      <3> HIDE DEF Sin
      <3> QED BY <1>1, <2>1, MinimoEsta
    <2>x. PICK x : x = Min(Sin)
      OBVIOUS
    <2>3. x \in Nat /\ (~\E f : Vueltas(s, t, p, x, f)) /\ \A y \in Sin : x <= y
      BY <2>2, <2>x
    <2>4. CASE x = 0
      <3> DEFINE f == [j \in 0 .. 0 |-> s]
      <3>1. \A j \in 0 .. 0 : j = 0
        OBVIOUS
      <3>2. Vueltas(s, t, p, 0, f)
        BY <3>1 DEF Vueltas
      <3> QED BY <3>2, <2>3, <2>4
    <2>5. CASE x # 0
      <3>1. x - 1 \in Nat /\ ~(x <= x - 1)
        BY <2>3, <2>5
      <3>2. x - 1 \notin Sin
        <4> HIDE DEF Sin
        <4> QED BY <3>1, <2>3
      <3>3. PICK f : Vueltas(s, t, p, x - 1, f)
        BY <3>1, <3>2
      <3> DEFINE g == [j \in 0 .. x |-> IF j = x THEN CerrarUno(f[x - 1], t, p, x) ELSE f[j]]
      <3>4. ASSUME NEW j \in 0 .. x
            PROVE  g[j] = IF j = 0 THEN s ELSE CerrarUno(g[j - 1], t, p, j)
        <4>1. CASE j = x
          <5>1. x - 1 \in 0 .. x /\ x - 1 # x /\ j # 0
            BY <2>3, <2>5, <4>1
          <5> QED BY <5>1, <4>1
        <4>2. CASE j # x
          <5>1. j \in 0 .. x - 1 /\ g[j] = f[j]
            BY <2>3, <4>2
          <5>2. f[j] = IF j = 0 THEN s ELSE CerrarUno(f[j - 1], t, p, j)
            BY <5>1, <3>3 DEF Vueltas
          <5>3. j # 0 => j - 1 \in 0 .. x /\ j - 1 # x
            BY <5>1, <2>3
          <5>4. j # 0 => g[j - 1] = f[j - 1]
            BY <5>3
          <5> HIDE DEF g
          <5> QED BY <5>1, <5>2, <5>4
        <4> QED BY <4>1, <4>2
      <3>5. Vueltas(s, t, p, x, g)
        <4>1. DOMAIN g = 0 .. x /\ g = [j \in DOMAIN g |-> g[j]]
          OBVIOUS
        <4> HIDE DEF g
        <4> QED BY <4>1, <3>4 DEF Vueltas
      <3> QED BY <3>5, <2>3
    <2> QED BY <2>4, <2>5
  <1> QED BY <1>1

LEMMA TodosBien ==
  ASSUME NEW s, NEW ab, NEW n, Bien(s, ab, n), NEW t \in DOMAIN s.tablas, NEW p
  PROVE  Bien(CerrarTodos(s, t, p), ab, n) /\ Sigue(s, CerrarTodos(s, t, p))
  <1>m. PICK m : m = Len(s.tablas[t].lista_de_archivos)
    OBVIOUS
  <1>1. m \in Nat
    <2>1. s.tablas \in Seq(TablaDeProceso)
      BY DEF Bien, Estados
    <2>2. s.tablas[t].lista_de_archivos \in Seq(Descriptor)
      BY <2>1, DeLaLista
    <2> QED BY <2>2, <1>m
  <1>f. PICK f : f = CHOOSE g : Vueltas(s, t, p, m, g)
    OBVIOUS
  <1>2. Vueltas(s, t, p, m, f)
    BY <1>1, <1>f, HayVueltas
  <1>3. CerrarTodos(s, t, p) = f[m]
    BY <1>m, <1>f, Zenon DEF CerrarTodos, Vueltas
  <1> QED BY <1>1, <1>2, <1>3, VueltasBien

-----------------------------------------------------------------------------
(* Ending a process *)

PidsDe(ts) == {ts[t].pid : t \in DOMAIN ts}

\* A table less: the names that were in it are lost with it.
LEMMA SinTabla ==
  ASSUME NEW ts \in Seq(TablaDeProceso), NEW n, TablasBien(ts, n), NEW t \in DOMAIN ts,
         NEW us, us = RemoveAt(ts, t)
  PROVE  /\ us \in Seq(TablaDeProceso) /\ TablasBien(us, n)
         /\ PidsDe(us) = PidsDe(ts) \ {ts[t].pid}
         /\ \A u \in DOMAIN us : \E x \in DOMAIN ts : us[u] = ts[x]
         /\ \A i : Nominas(us, i) \subseteq Nominas(ts, i)
         /\ ts[t].lista_de_archivos = <<>> => \A i : Nominas(us, i) = Nominas(ts, i)
  <1>1. us \in Seq(TablaDeProceso)
    BY Quitar
  <1>2. /\ \A u \in DOMAIN us : \E x \in DOMAIN ts : x # t /\ us[u] = ts[x]
        /\ \A x \in DOMAIN ts : x # t => \E u \in DOMAIN us : us[u] = ts[x]
    BY QuitarDeja
  <1>3. TablasBien(us, n)
    <2>1. ASSUME NEW u \in DOMAIN us
          PROVE  us[u].pid <= n /\ ListaBien(us[u])
      BY <1>2 DEF TablasBien
    <2>2. ASSUME NEW u \in DOMAIN us, NEW v \in DOMAIN us, us[u].pid = us[v].pid
          PROVE  u = v
      <3>1. PICK a \in DOMAIN ts, b \in DOMAIN ts : us[u] = ts[a] /\ us[v] = ts[b] /\ (a = b => u = v)
        BY QuitarSepara
      <3> QED BY <3>1, <2>2 DEF TablasBien
    <2> QED BY <2>1, <2>2 DEF TablasBien
  <1>4. PidsDe(us) = PidsDe(ts) \ {ts[t].pid}
    <2>1. \A x \in DOMAIN ts : x # t => ts[x].pid # ts[t].pid
      BY DEF TablasBien
    <2>2. ASSUME NEW p \in PidsDe(us)
          PROVE  p \in PidsDe(ts) /\ p # ts[t].pid
      <3>1. PICK u \in DOMAIN us : p = us[u].pid
        BY <2>2 DEF PidsDe
      <3>2. PICK x \in DOMAIN ts : x # t /\ us[u] = ts[x]
        BY <1>2
      <3> QED BY <3>1, <3>2, <2>1 DEF PidsDe
    <2>3. ASSUME NEW p \in PidsDe(ts), p # ts[t].pid
          PROVE  p \in PidsDe(us)
      <3>1. PICK x \in DOMAIN ts : p = ts[x].pid
        BY <2>3 DEF PidsDe
      <3>2. PICK u \in DOMAIN us : us[u] = ts[x]
        BY <3>1, <2>3, <1>2
      <3> QED BY <3>1, <3>2 DEF PidsDe
    <2> QED BY <2>2, <2>3
  <1>5. ASSUME NEW i, NEW y \in Nominas(us, i)
        PROVE  y \in Nominas(ts, i)
    <2>1. PICK u \in DOMAIN us : \E k \in DOMAIN us[u].lista_de_archivos :
             /\ y = <<us[u].pid, us[u].lista_de_archivos[k].fd>>
             /\ us[u].lista_de_archivos[k].referencia = i
      BY <1>5 DEF Nominas
    <2>2. PICK x \in DOMAIN ts : us[u] = ts[x]
      BY <1>2
    <2>3. y \in Pids \X Fds
      BY <1>5 DEF Nominas
    <2> QED BY <2>1, <2>2, <2>3 DEF Nominas
  <1>6. ASSUME ts[t].lista_de_archivos = <<>>, NEW i, NEW y \in Nominas(ts, i)
        PROVE  y \in Nominas(us, i)
    <2>1. PICK x \in DOMAIN ts : \E k \in DOMAIN ts[x].lista_de_archivos :
             /\ y = <<ts[x].pid, ts[x].lista_de_archivos[k].fd>>
             /\ ts[x].lista_de_archivos[k].referencia = i
      BY <1>6 DEF Nominas
    <2>2. x # t
      <3>1. DOMAIN <<>> = {}
        OBVIOUS
      <3> QED BY <3>1, <2>1, <1>6
    <2>3. PICK u \in DOMAIN us : us[u] = ts[x]
      BY <2>2, <1>2
    <2>4. y \in Pids \X Fds
      BY <1>6 DEF Nominas
    <2> QED BY <2>1, <2>3, <2>4 DEF Nominas
  <1>7. \A i : Nominas(us, i) \subseteq Nominas(ts, i)
    BY <1>5
  <1>8. ASSUME ts[t].lista_de_archivos = <<>>, NEW i
        PROVE  Nominas(us, i) = Nominas(ts, i)
    <2>1. \A y : y \in Nominas(us, i) => y \in Nominas(ts, i)
      BY <1>5
    <2>2. \A y : y \in Nominas(ts, i) => y \in Nominas(us, i)
      BY <1>6, <1>8
    <2> QED BY <2>1, <2>2
  <1> QED BY <1>1, <1>2, <1>3, <1>4, <1>7, <1>8

\* r is s without the table t, with what goes wrong noted
Tira(s, r, t, w) ==
  /\ w \in SUBSET LasRarezas /\ s.rarezas \subseteq w
  /\ "desplazada" \in w => "desplazada" \in s.rarezas
  /\ s.tablas[t].lista_de_archivos # <<>> => "fuga" \in w
  /\ r \in Estados /\ r.tablas = RemoveAt(s.tablas, t) /\ r.global = s.global
  /\ r.rarezas = w

LEMMA TirarTabla ==
  ASSUME NEW s, NEW ab, NEW n, Bien(s, ab, n), NEW t \in DOMAIN s.tablas,
         NEW w, NEW r, Tira(s, r, t, w)
  PROVE  /\ Bien(r, ab, n)
         /\ PidsDe(r.tablas) = PidsDe(s.tablas) \ {s.tablas[t].pid}
  <1> USE DEF Tira
  <1>ts. PICK ts : ts = s.tablas
    OBVIOUS
  <1>us. PICK us : us = RemoveAt(ts, t)
    OBVIOUS
  <1>g. PICK g : g = s.global
    OBVIOUS
  <1>0. /\ s \in Estados /\ ts \in Seq(TablaDeProceso) /\ g \in Seq(Entrada)
        /\ Unicas(g) /\ TablasBien(ts, n) /\ t \in DOMAIN ts
    BY <1>ts, <1>g DEF Bien, Estados
  <1>1. /\ us \in Seq(TablaDeProceso) /\ TablasBien(us, n)
        /\ PidsDe(us) = PidsDe(ts) \ {ts[t].pid}
        /\ \A u \in DOMAIN us : \E x \in DOMAIN ts : us[u] = ts[x]
        /\ \A i : Nominas(us, i) \subseteq Nominas(ts, i)
        /\ ts[t].lista_de_archivos = <<>> => \A i : Nominas(us, i) = Nominas(ts, i)
    BY <1>0, <1>us, SinTabla
  <1>3. r.tablas = us /\ r.global = g /\ r.rarezas = w
    BY <1>ts, <1>us, <1>g
  <1>4. ASSUME "desplazada" \notin w
        PROVE  Fieles(us, g) /\ AbriendoFiel(ab, g) /\ Contadas(us, g, ab, "fuga" \in w)
    <2>1. Fieles(ts, g) /\ AbriendoFiel(ab, g) /\ Contadas(ts, g, ab, "fuga" \in s.rarezas)
      BY <1>4, <1>g, <1>ts DEF Bien
    <2>2. Fieles(us, g)
      <3> SUFFICES ASSUME NEW u \in DOMAIN us, NEW j \in DOMAIN us[u].lista_de_archivos
                   PROVE  /\ us[u].lista_de_archivos[j].referencia \in DOMAIN g
                          /\ g[us[u].lista_de_archivos[j].referencia].ruta = us[u].lista_de_archivos[j].ruta
        BY DEF Fieles
      <3>1. PICK x \in DOMAIN ts : us[u] = ts[x]
        BY <1>1
      <3> QED BY <3>1, <2>1 DEF Fieles
    <2>3. ASSUME NEW i \in DOMAIN g
          PROVE  /\ Cardinality(Nominas(us, i)) + UnoSi(ab, i) <= g[i].instancias
                 /\ "fuga" \notin w =>
                      Cardinality(Nominas(us, i)) + UnoSi(ab, i) = g[i].instancias
      <3>1. /\ Cardinality(Nominas(ts, i)) + UnoSi(ab, i) <= g[i].instancias
            /\ "fuga" \notin s.rarezas =>
                 Cardinality(Nominas(ts, i)) + UnoSi(ab, i) = g[i].instancias
        BY <2>1 DEF Contadas
      <3>2. CASE "fuga" \in w
        <4>1. Cardinality(Nominas(us, i)) <= Cardinality(Nominas(ts, i))
          <5>1. Nominas(us, i) \in SUBSET Nominas(ts, i)
            BY <1>1
          <5> QED BY <5>1, NominasFinitas, FS_Subset
        <4>2. /\ Cardinality(Nominas(us, i)) \in Nat /\ Cardinality(Nominas(ts, i)) \in Nat
              /\ UnoSi(ab, i) \in {0, 1} /\ g[i].instancias \in Nat
          <5>1. g[i] \in Entrada
            BY <1>0, ElementoDe
          <5>2. g[i].instancias \in Nat
            BY <5>1 DEF Entrada
          <5> QED BY <5>2, NominasFinitas DEF UnoSi
        <4> QED BY <4>1, <4>2, <3>1, <3>2
      <3>3. CASE "fuga" \notin w
        <4>1. "fuga" \notin s.rarezas /\ ts[t].lista_de_archivos = <<>>
          BY <3>3, <1>ts
        <4>2. Nominas(us, i) = Nominas(ts, i)
          BY <4>1, <1>1
        <4> QED BY <4>1, <4>2, <3>1
      <3> QED BY <3>2, <3>3
    <2>4. Contadas(us, g, ab, "fuga" \in w)
      BY <2>3 DEF Contadas
    <2> QED BY <2>1, <2>2, <2>4
  <1>5. Bien(r, ab, n)
    BY <1>0, <1>1, <1>3, <1>4 DEF Bien
  <1>6. PidsDe(r.tablas) = PidsDe(s.tablas) \ {s.tablas[t].pid}
    BY <1>1, <1>3, <1>ts
  <1> QED BY <1>3, <1>5, <1>6

\* What ending the process p does: with the table of the last process created, that one's;
\* any other leaves its own table behind, or none at all.
Termina(s, r, p) ==
  /\ s.rarezas \subseteq r.rarezas
  /\ r.caido => s.caido \/ "desplazada" \in r.rarezas
  /\ ~r.caido /\ "tabla ajena" \notin r.rarezas =>
       p = pid /\ PidsDe(r.tablas) = PidsDe(s.tablas) \ {p}

LEMMA BorrarBien ==
  ASSUME NEW s, NEW ab, NEW n, Bien(s, ab, n), NEW p
  PROVE  Bien(borrarTablaDeArchivos(s, p), ab, n) /\ Termina(s, borrarTablaDeArchivos(s, p), p)
  <1>t. PICK t : t = TablaDe(s.tablas, pid)
    OBVIOUS
  <1>r. PICK r : r = borrarTablaDeArchivos(s, p)
    OBVIOUS
  <1>a. PICK a : a = IF p # pid THEN {"tabla ajena"} ELSE {}
    OBVIOUS
  <1>fin. PICK fin : fin = CerrarTodos(s, t, p)
    OBVIOUS
  <1>0. s \in Estados /\ s.tablas \in Seq(TablaDeProceso) /\ a \in SUBSET LasRarezas
        /\ s.rarezas \in SUBSET LasRarezas
    BY <1>a DEF Bien, Estados, LasRarezas
  <1>1. CASE t = 0
    <2>w. PICK w : w = s.rarezas \cup a
      OBVIOUS
    <2>1. r = [s EXCEPT !.rarezas = w]
      BY <1>1, <1>t, <1>r, <1>a, <2>w DEF borrarTablaDeArchivos
    <2>2. w \in SUBSET LasRarezas /\ s.rarezas \subseteq w
          /\ ("desplazada" \in w => "desplazada" \in s.rarezas)
          /\ ("fuga" \in w <=> "fuga" \in s.rarezas)
      BY <1>0, <1>a, <2>w
    <2>3. r \in Estados /\ r.tablas = s.tablas /\ r.global = s.global /\ r.rarezas = w
          /\ r.caido = s.caido
      BY <1>0, <2>1, <2>2 DEF Estados
    <2>4. Bien(r, ab, n)
      BY <2>2, <2>3 DEF Bien
    <2>5. "tabla ajena" \notin w => p = pid
      BY <2>w, <1>a
    <2>6. \A x \in DOMAIN s.tablas : s.tablas[x].pid # pid
      <3>1. t \notin DOMAIN s.tablas
        BY <1>1, <1>0
      <3> QED BY <3>1, <1>0, <1>t, TablaHallada
    <2>7. PidsDe(s.tablas) \ {pid} = PidsDe(s.tablas)
      BY <2>6 DEF PidsDe
    <2> QED BY <2>2, <2>3, <2>4, <2>5, <2>7, <1>r DEF Termina
  <1>2. CASE t # 0
    <2>1. t \in DOMAIN s.tablas /\ s.tablas[t].pid = pid
      BY <1>2, <1>0, <1>t, TablaHallada
    <2>2. Bien(fin, ab, n) /\ Sigue(s, fin)
      BY <2>1, <1>fin, TodosBien
    <2>3. /\ DOMAIN fin.tablas = DOMAIN s.tablas
          /\ \A u \in DOMAIN s.tablas : fin.tablas[u].pid = s.tablas[u].pid
          /\ s.rarezas \subseteq fin.rarezas
          /\ fin.caido => s.caido \/ "desplazada" \in fin.rarezas
      BY <2>2 DEF Sigue
    <2>4. CASE fin.caido
      <3>1. r = fin
        BY <1>2, <2>4, <1>t, <1>r, <1>fin DEF borrarTablaDeArchivos
      <3> QED BY <3>1, <2>2, <2>3, <2>4, <1>r DEF Termina
    <2>5. CASE ~fin.caido
      <3>w. PICK w : w = fin.rarezas \cup a \cup
                          (IF fin.tablas[t].lista_de_archivos # <<>> THEN {"fuga"} ELSE {})
        OBVIOUS
      <3>1. r = [fin EXCEPT !.tablas = RemoveAt(@, t), !.rarezas = w]
        BY <1>2, <2>5, <1>t, <1>r, <1>a, <1>fin, <3>w DEF borrarTablaDeArchivos
      <3>2. fin.rarezas \in SUBSET LasRarezas
        BY <2>2 DEF Bien, Estados
      <3>3. /\ w \in SUBSET LasRarezas /\ fin.rarezas \subseteq w
            /\ "desplazada" \in w => "desplazada" \in fin.rarezas
            /\ fin.tablas[t].lista_de_archivos # <<>> => "fuga" \in w
        BY <3>2, <1>0, <1>a, <3>w DEF LasRarezas
      <3>u. PICK us : us = RemoveAt(fin.tablas, t)
        OBVIOUS
      <3>9. /\ t \in DOMAIN fin.tablas /\ fin \in Estados /\ fin.tablas \in Seq(TablaDeProceso)
            /\ us \in Seq(TablaDeProceso)
        <4>1. t \in DOMAIN fin.tablas /\ fin \in Estados /\ fin.tablas \in Seq(TablaDeProceso)
          BY <2>1, <2>2, <2>3 DEF Bien, Estados
        <4> QED BY <4>1, <3>u, Quitar
      <3>10. r = [fin EXCEPT !.tablas = us, !.rarezas = w]
        BY <3>1, <3>u
      <3>11. /\ r \in Estados /\ r.tablas = us /\ r.global = fin.global /\ r.rarezas = w
             /\ r.caido = fin.caido
        BY <3>3, <3>9, <3>10 DEF Estados
      <3>4. /\ Bien(r, ab, n) /\ r.rarezas = w /\ r.caido = fin.caido
            /\ PidsDe(r.tablas) = PidsDe(fin.tablas) \ {fin.tablas[t].pid}
        <4>1. r.tablas = RemoveAt(fin.tablas, t)
          BY <3>11, <3>u
        <4>2. /\ Bien(r, ab, n)
              /\ PidsDe(r.tablas) = PidsDe(fin.tablas) \ {fin.tablas[t].pid}
          <5>1. Tira(fin, r, t, w)
            BY <4>1, <3>3, <3>11 DEF Tira
          <5>2. t \in DOMAIN fin.tablas /\ Bien(fin, ab, n)
            BY <3>9, <2>2
          <5> QED BY <5>1, <5>2, TirarTabla
        <4> QED BY <4>2, <3>11
      <3>5. PidsDe(fin.tablas) = PidsDe(s.tablas)
        BY <2>3 DEF PidsDe
      <3>6. "tabla ajena" \notin w => p = pid
        BY <3>w, <1>a
      <3>7. s.rarezas \subseteq w
        BY <2>3, <3>3
      <3>8. fin.tablas[t].pid = pid
        BY <2>1, <2>3
      <3> QED BY <3>4, <3>5, <3>6, <3>7, <3>8, <2>5, <1>r DEF Termina
    <2> QED BY <2>4, <2>5
  <1> QED BY <1>1, <1>2

LEMMA EndProcessBien ==
  ASSUME NEW s, NEW ab, NEW n, Bien(s, ab, n), NEW p
  PROVE  /\ Bien(end_process(s, p), ab, n)
         /\ p \in vivos => Termina(s, end_process(s, p), p)
         /\ p \notin vivos => end_process(s, p) = s
  BY BorrarBien DEF end_process

-----------------------------------------------------------------------------
(* The inductive invariant *)

Resto ==
  /\ pid \in 0 .. MaxPid /\ vivos \subseteq 1 .. pid /\ activos \subseteq 1 .. pid
  /\ abriendo \in Apertura \cup {Nada} /\ enDisco \subseteq Rutas
  /\ ultimo \in [op : {"ninguno", "abrir", "mover", "leer", "escribir", "borrar"},
                 pid : 0 .. MaxPid, fd : Fds, ruta : Rutas \cup {Nada}]

\* A fault while the descriptor is made leaves the entry counted, and the Kernel down.
AInv ==
  /\ Resto /\ TablaDeCadaUno
  /\ \E ab : Bien(Estado, ab, pid) /\ (~caido \/ abriendo # Nada => ab = abriendo)

LEMMA ElEstado ==
  /\ Estado.tablas = tabla_de_archivos_por_proceso /\ Estado.global = tabla_global_de_archivos
  /\ Estado.caido = caido /\ Estado.rarezas = rarezas /\ Estado.codigo = 0
  BY DEF Estado, tablas, global

LEMMA ElEstadoDespues ==
  /\ Estado'.tablas = tabla_de_archivos_por_proceso'
  /\ Estado'.global = tabla_global_de_archivos'
  /\ Estado'.caido = caido' /\ Estado'.rarezas = rarezas' /\ Estado'.codigo = 0
  BY DEF Estado, tablas, global

LEMMA SonTipos == AInv => TypeOK
  <1> SUFFICES ASSUME AInv
               PROVE  TypeOK
    OBVIOUS
  <1>1. Estado \in Estados
    BY DEF AInv, Bien
  <1>2. /\ tabla_de_archivos_por_proceso \in Seq(TablaDeProceso)
        /\ tabla_global_de_archivos \in Seq(Entrada) /\ caido \in BOOLEAN
        /\ rarezas \in SUBSET LasRarezas
    BY <1>1, ElEstado DEF Estados
  <1> QED BY <1>2 DEF AInv, Resto, TypeOK, Entrada, LasRarezas

\* The pids of the tables, as TablaDeCadaUno says it
LEMMA CadaUnoEs ==
  ASSUME tabla_de_archivos_por_proceso \in Seq(TablaDeProceso)
  PROVE  TablaDeCadaUno <=>
           ("tabla ajena" \notin rarezas /\ ~caido =>
              vivos = PidsDe(tabla_de_archivos_por_proceso))
  <1>1. {t.pid : t \in Range(tabla_de_archivos_por_proceso)} = PidsDe(tabla_de_archivos_por_proceso)
    BY DEF Range, PidsDe
  <1> QED BY <1>1 DEF TablaDeCadaUno, tablas

LEMMA CadaUnoEsDespues ==
  ASSUME tabla_de_archivos_por_proceso' \in Seq(TablaDeProceso)
  PROVE  TablaDeCadaUno' <=>
           ("tabla ajena" \notin rarezas' /\ ~caido' =>
              vivos' = PidsDe(tabla_de_archivos_por_proceso'))
  <1>1. {t.pid : t \in Range(tabla_de_archivos_por_proceso')} = PidsDe(tabla_de_archivos_por_proceso')
    BY DEF Range, PidsDe
  <1> QED BY <1>1 DEF TablaDeCadaUno, tablas

\* What a function of the Kernel returns is what the next state keeps.
LEMMA QuedaBien ==
  ASSUME NEW r, NEW ab, NEW n, Bien(r, ab, n), Queda(r)
  PROVE  /\ Bien(Estado', ab, n) /\ tabla_de_archivos_por_proceso' \in Seq(TablaDeProceso)
         /\ tabla_de_archivos_por_proceso' = r.tablas
         /\ caido' = r.caido /\ rarezas' = r.rarezas
  <1>1. /\ tabla_de_archivos_por_proceso' = r.tablas /\ tabla_global_de_archivos' = r.global
        /\ caido' = r.caido /\ rarezas' = r.rarezas
    BY DEF Queda
  <1>2. r \in Estados
    BY DEF Bien
  <1>3. Estado' \in Estados
    <2>1. /\ r.tablas \in Seq(TablaDeProceso) /\ r.global \in Seq(Entrada) /\ r.caido \in BOOLEAN
          /\ r.rarezas \in SUBSET LasRarezas
      BY <1>2 DEF Estados
    <2>2. 0 \in Int
      OBVIOUS
    <2>3. Estado' = [tablas |-> r.tablas, global |-> r.global, caido |-> r.caido,
                     rarezas |-> r.rarezas, codigo |-> 0]
      BY <1>1 DEF Estado, tablas, global
    <2> QED BY <2>1, <2>2, <2>3, EstadoDe, Zenon
  <1>4. Estado'.tablas = r.tablas /\ Estado'.global = r.global /\ Estado'.rarezas = r.rarezas
    BY <1>1, ElEstadoDespues
  <1>5. Bien(Estado', ab, n)
    BY <1>3, <1>4 DEF Bien
  <1> QED BY <1>1, <1>2, <1>5 DEF Estados

\* The state a handler is in
LEMMA Partida ==
  ASSUME AInv, ~caido
  PROVE  /\ Bien(Estado, abriendo, pid)
         /\ tabla_de_archivos_por_proceso \in Seq(TablaDeProceso)
         /\ tabla_global_de_archivos \in Seq(Entrada)
         /\ rarezas \in SUBSET LasRarezas /\ caido \in BOOLEAN
         /\ Unicas(tabla_global_de_archivos)
         /\ TablasBien(tabla_de_archivos_por_proceso, pid)
         /\ "desplazada" \notin rarezas =>
              /\ Fieles(tabla_de_archivos_por_proceso, tabla_global_de_archivos)
              /\ AbriendoFiel(abriendo, tabla_global_de_archivos)
              /\ Contadas(tabla_de_archivos_por_proceso, tabla_global_de_archivos, abriendo,
                          "fuga" \in rarezas)
  <1>1. Bien(Estado, abriendo, pid) /\ Estado \in Estados
    BY DEF AInv, Bien
  <1>2. /\ tabla_de_archivos_por_proceso \in Seq(TablaDeProceso)
        /\ tabla_global_de_archivos \in Seq(Entrada)
        /\ rarezas \in SUBSET LasRarezas /\ caido \in BOOLEAN
    BY <1>1, ElEstado DEF Estados
  <1>3. /\ Unicas(tabla_global_de_archivos)
        /\ TablasBien(tabla_de_archivos_por_proceso, pid)
        /\ "desplazada" \notin rarezas =>
              /\ Fieles(tabla_de_archivos_por_proceso, tabla_global_de_archivos)
              /\ AbriendoFiel(abriendo, tabla_global_de_archivos)
              /\ Contadas(tabla_de_archivos_por_proceso, tabla_global_de_archivos, abriendo,
                          "fuga" \in rarezas)
    BY <1>1, ElEstado DEF Bien
  <1> QED BY <1>1, <1>2, <1>3

-----------------------------------------------------------------------------
(* Steps *)

\* What every step keeps, or makes so
Sano == AInv /\ PedidoJustificado /\ KernelEnPie

LEMMA PedidoNinguno ==
  ASSUME ultimo' = SinPedido
  PROVE  PedidoJustificado'
  BY DEF PedidoJustificado, SinPedido

\* The end of a process p, of the state s the handler has come to
LEMMA TerminarSano ==
  ASSUME AInv, ~caido, NEW s, Bien(s, abriendo, pid), Sigue(Estado, s), NEW p \in Pids,
         Queda(end_process(s, p)), vivos' = vivos \ {p},
         activos' \subseteq activos, ultimo' = SinPedido,
         pid' = pid, abriendo' = abriendo, enDisco' = enDisco
  PROVE  Sano'
  <1>r. PICK r : r = end_process(s, p)
    OBVIOUS
  <1>1. /\ Bien(r, abriendo, pid)
        /\ p \in vivos => Termina(s, r, p)
        /\ p \notin vivos => r = s
    BY <1>r, EndProcessBien
  <1>2. /\ Bien(Estado', abriendo, pid) /\ tabla_de_archivos_por_proceso' \in Seq(TablaDeProceso)
        /\ tabla_de_archivos_por_proceso' = r.tablas
        /\ caido' = r.caido /\ rarezas' = r.rarezas
    BY <1>1, <1>r, QuedaBien
  <1>3. /\ PidsDe(s.tablas) = PidsDe(tabla_de_archivos_por_proceso)
        /\ rarezas \subseteq s.rarezas
        /\ s.caido => "desplazada" \in s.rarezas
    BY ElEstado DEF Sigue, PidsDe
  <1>4. r.caido => "desplazada" \in r.rarezas
    BY <1>1, <1>3 DEF Termina
  <1>5. KernelEnPie'
    BY <1>2, <1>4 DEF KernelEnPie
  <1>6. TablaDeCadaUno'
    <2> SUFFICES ASSUME "tabla ajena" \notin r.rarezas, ~r.caido
                 PROVE  vivos' = PidsDe(r.tablas)
      BY <1>2, CadaUnoEsDespues
    <2>1. "tabla ajena" \notin rarezas
      BY <1>1, <1>3 DEF Termina
    <2>2. vivos = PidsDe(tabla_de_archivos_por_proceso)
      BY <2>1, Partida, CadaUnoEs DEF AInv
    <2>3. CASE p \in vivos
      BY <2>2, <2>3, <1>1, <1>3 DEF Termina
    <2>4. CASE p \notin vivos
      BY <2>2, <2>4, <1>1, <1>3
    <2> QED BY <2>3, <2>4
  <1>7. Resto'
    <2>1. SinPedido \in [op : {"ninguno", "abrir", "mover", "leer", "escribir", "borrar"},
                         pid : 0 .. MaxPid, fd : Fds, ruta : Rutas \cup {Nada}]
      BY ArchivosAssumption DEF SinPedido, Fds, FD_INICIAL_ARCHIVOS
    <2> QED BY <2>1 DEF AInv, Resto
  <1>8. AInv'
    <2>1. Bien(Estado', abriendo', pid')
      BY <1>2
    <2> QED BY <2>1, <1>6, <1>7 DEF AInv
  <1> QED BY <1>5, <1>8, PedidoNinguno DEF Sano


Pedidos == [op : {"ninguno", "abrir", "mover", "leer", "escribir", "borrar"},
            pid : 0 .. MaxPid, fd : Fds, ruta : Rutas \cup {Nada}]

LEMMA SinPedidoEs == SinPedido \in Pedidos
  BY ArchivosAssumption DEF SinPedido, Pedidos, Fds, FD_INICIAL_ARCHIVOS

\* A step that leaves the tables as r, and asks the file server for nothing
LEMMA PasoSano ==
  ASSUME NEW r, Bien(r, abriendo', pid'), Queda(r), ultimo' = SinPedido, Resto',
         r.caido => "desplazada" \in r.rarezas,
         "tabla ajena" \notin r.rarezas /\ ~r.caido => vivos' = PidsDe(r.tablas)
  PROVE  Sano'
  <1>1. /\ Bien(Estado', abriendo', pid') /\ tabla_de_archivos_por_proceso' \in Seq(TablaDeProceso)
        /\ tabla_de_archivos_por_proceso' = r.tablas
        /\ caido' = r.caido /\ rarezas' = r.rarezas
    BY QuedaBien
  <1>2. KernelEnPie'
    BY <1>1 DEF KernelEnPie
  <1>3. TablaDeCadaUno'
    BY <1>1, CadaUnoEsDespues
  <1>4. AInv'
    BY <1>1, <1>3 DEF AInv
  <1> QED BY <1>2, <1>4, PedidoNinguno DEF Sano

LEMMA MismoEstado ==
  ASSUME AInv, ~caido
  PROVE  Estado = [Estado EXCEPT !.caido = FALSE]
  <1>s. PICK s : s = Estado
    OBVIOUS
  <1>1. s \in Estados /\ s.caido = FALSE
    BY <1>s, Partida, ElEstado DEF Bien
  <1>2. s = [s EXCEPT !.caido = FALSE]
    BY <1>1 DEF Estados
  <1> QED BY <1>2, <1>s

\* What is asked of the file server leaves the tables alone
LEMMA ContestarBien ==
  ASSUME AInv, ~caido, NEW anota \in Pedidos, NEW c \in BOOLEAN,
         Contesta([Estado EXCEPT !.caido = c], anota), pid' = pid, enDisco' \subseteq Rutas,
         abriendo' = abriendo \/ (c /\ abriendo' = Nada)
  PROVE  /\ AInv' /\ tabla_de_archivos_por_proceso' = tabla_de_archivos_por_proceso
         /\ rarezas' = rarezas /\ caido' = c /\ ultimo' = anota
  <1>r. PICK r : r = [Estado EXCEPT !.caido = c]
    OBVIOUS
  <1>1. Bien(Estado, abriendo, pid) /\ Estado \in Estados
    BY Partida DEF Bien
  <1>2. /\ r \in Estados /\ r.tablas = Estado.tablas /\ r.global = Estado.global
        /\ r.rarezas = Estado.rarezas /\ r.caido = c
    BY <1>1, <1>r DEF Estados
  <1>3. Bien(r, abriendo, pid)
    BY <1>1, <1>2 DEF Bien
  <1>4. /\ Queda(r) /\ ultimo' = anota /\ vivos' = vivos /\ activos' = activos
    BY <1>r DEF Contesta
  <1>5. /\ Bien(Estado', abriendo, pid) /\ tabla_de_archivos_por_proceso' \in Seq(TablaDeProceso)
        /\ tabla_de_archivos_por_proceso' = r.tablas
        /\ caido' = r.caido /\ rarezas' = r.rarezas
    BY <1>3, <1>4, QuedaBien
  <1>6. /\ tabla_de_archivos_por_proceso' = tabla_de_archivos_por_proceso
        /\ caido' = c /\ rarezas' = rarezas
    BY <1>2, <1>5, ElEstado
  <1>7. TablaDeCadaUno'
    <2>1. "tabla ajena" \notin rarezas => vivos = PidsDe(tabla_de_archivos_por_proceso)
      BY Partida, CadaUnoEs DEF AInv
    <2> QED BY <2>1, <1>4, <1>5, <1>6, CadaUnoEsDespues
  <1>8. Resto'
    <2>1. abriendo' \in Apertura \cup {Nada}
      BY DEF AInv, Resto
    <2> QED BY <2>1, <1>4 DEF AInv, Resto, Pedidos
  <1>9. Bien(Estado', abriendo, pid') /\ (~caido' \/ abriendo' # Nada => abriendo = abriendo')
    BY <1>5, <1>6
  <1>10. AInv'
    BY <1>7, <1>8, <1>9 DEF AInv
  <1> QED BY <1>4, <1>6, <1>10

\* The handler has found no table of the process, or no descriptor to read from.
Perdido(op, p, fd) ==
  \/ "desplazada" \in rarezas
  \/ TablaDe(tabla_de_archivos_por_proceso, p) = 0
  \/ /\ op = "leer"
     /\ Buscar(tabla_de_archivos_por_proceso[TablaDe(tabla_de_archivos_por_proceso, p)].lista_de_archivos, fd) = 0

LEMMA MuereSano ==
  ASSUME AInv, ~caido, NEW op \in {"abrir", "mover", "leer", "escribir", "borrar"},
         NEW p \in Pids, NEW fd \in Fds, Muere(op, p, fd), Perdido(op, p, fd),
         pid' = pid, enDisco' = enDisco, abriendo' \in {abriendo, Nada}
  PROVE  Sano'
  <1>a. PICK a : a = [op |-> op, pid |-> p, fd |-> fd, ruta |-> Nada]
    OBVIOUS
  <1>1. /\ a \in Pedidos /\ a.op = op /\ a.pid = p /\ a.fd = fd /\ a.ruta = Nada
    BY <1>a, ArchivosAssumption DEF Pedidos, Pids
  <1>2. Contesta([Estado EXCEPT !.caido = TRUE], a)
    BY <1>a DEF Muere
  <1>3. enDisco' \subseteq Rutas
    BY DEF AInv, Resto
  <1>4. /\ AInv' /\ tabla_de_archivos_por_proceso' = tabla_de_archivos_por_proceso
        /\ rarezas' = rarezas /\ caido' = TRUE /\ ultimo' = a
    BY <1>1, <1>2, <1>3, ContestarBien
  <1>5. KernelEnPie'
    BY <1>1, <1>4 DEF KernelEnPie, Perdido, tablas
  <1>6. PedidoJustificado'
    BY <1>1, <1>4 DEF PedidoJustificado
  <1> QED BY <1>4, <1>5, <1>6 DEF Sano

\* d is the descriptor fd of the process p.
Abierto(p, fd, d) ==
  /\ d \in DescriptoresDe(p) /\ d.fd = fd
  /\ "desplazada" \notin rarezas =>
       /\ d.referencia \in DOMAIN tabla_global_de_archivos
       /\ tabla_global_de_archivos[d.referencia].ruta = d.ruta

LEMMA AbiertoHallado ==
  ASSUME AInv, ~caido, NEW p, NEW fd,
         NEW t, t = TablaDe(tabla_de_archivos_por_proceso, p), t # 0,
         NEW k, k = Buscar(tabla_de_archivos_por_proceso[t].lista_de_archivos, fd), k # 0
  PROVE  /\ t \in DOMAIN tabla_de_archivos_por_proceso
         /\ k \in DOMAIN tabla_de_archivos_por_proceso[t].lista_de_archivos
         /\ Abierto(p, fd, tabla_de_archivos_por_proceso[t].lista_de_archivos[k])
  <1>ts. PICK ts : ts = tabla_de_archivos_por_proceso
    OBVIOUS
  <1>d. PICK d : d = ts[t].lista_de_archivos[k]
    OBVIOUS
  <1>0. ts \in Seq(TablaDeProceso)
    BY <1>ts, Partida
  <1>1. t \in DOMAIN ts /\ ts[t].pid = p
    BY <1>0, <1>ts, TablaHallada
  <1>2. ts[t].lista_de_archivos \in Seq(Descriptor)
    BY <1>0, <1>1, DeLaLista
  <1>3. k \in DOMAIN ts[t].lista_de_archivos /\ d.fd = fd
    BY <1>2, <1>d, <1>ts, DescriptorHallado
  <1>4. d \in DescriptoresDe(p)
    BY <1>1, <1>3, <1>d, <1>ts DEF DescriptoresDe, Range, tablas
  <1>5. ASSUME "desplazada" \notin rarezas
        PROVE  /\ d.referencia \in DOMAIN tabla_global_de_archivos
               /\ tabla_global_de_archivos[d.referencia].ruta = d.ruta
    <2>1. Fieles(ts, tabla_global_de_archivos)
      BY <1>5, <1>ts, Partida
    <2> QED BY <2>1, <1>1, <1>3, <1>d DEF Fieles
  <1> QED BY <1>1, <1>3, <1>4, <1>5, <1>d, <1>ts DEF Abierto

\* A request about the file of d
LEMMA PedidoSano ==
  ASSUME AInv, ~caido, NEW op \in {"leer", "escribir", "borrar"},
         NEW p \in Pids, NEW fd \in Fds, NEW d,
         d.referencia \in DOMAIN tabla_global_de_archivos,
         Contesta(Estado, [op |-> op, pid |-> p, fd |-> fd, ruta |-> global[d.referencia].ruta]),
         Perdido(op, p, fd) \/ (Abierto(p, fd, d) /\ (op = "escribir" => PuedeEscribir(d))),
         pid' = pid, enDisco' \subseteq Rutas, abriendo' = abriendo
  PROVE  Sano'
  <1>r. PICK ruta : ruta = tabla_global_de_archivos[d.referencia].ruta
    OBVIOUS
  <1>a. PICK a : a = [op |-> op, pid |-> p, fd |-> fd, ruta |-> ruta]
    OBVIOUS
  <1>0. ruta \in Rutas
    <2>1. tabla_global_de_archivos \in Seq(Entrada)
      BY Partida
    <2>2. tabla_global_de_archivos[d.referencia] \in Entrada
      BY <2>1, ElementoDe
    <2> QED BY <2>2, <1>r DEF Entrada
  <1>1. /\ a \in Pedidos /\ a.op = op /\ a.pid = p /\ a.fd = fd /\ a.ruta = ruta
    BY <1>0, <1>a, ArchivosAssumption DEF Pedidos, Pids
  <1>2. Contesta([Estado EXCEPT !.caido = FALSE], a)
    <2>1. Estado = [Estado EXCEPT !.caido = FALSE]
      BY MismoEstado
    <2>2. Contesta(Estado, a)
      BY <1>a, <1>r DEF global
    <2> QED BY <2>1, <2>2
  <1>4. /\ AInv' /\ tabla_de_archivos_por_proceso' = tabla_de_archivos_por_proceso
        /\ rarezas' = rarezas /\ caido' = FALSE /\ ultimo' = a
    BY <1>1, <1>2, ContestarBien
  <1>5. KernelEnPie'
    BY <1>4 DEF KernelEnPie
  <1>6. PedidoJustificado'
    <2>1. DescriptoresDe(p)' = DescriptoresDe(p)
      BY <1>4 DEF DescriptoresDe, tablas
    <2>2. CASE Perdido(op, p, fd)
      BY <2>2, <1>1, <1>4 DEF PedidoJustificado, Perdido, tablas
    <2>3. CASE Abierto(p, fd, d) /\ (op = "escribir" => PuedeEscribir(d))
      <3>1. "desplazada" \notin rarezas => d.ruta = ruta
        BY <2>3, <1>r DEF Abierto
      <3>2. d \in DescriptoresDe(p)' /\ d.fd = fd /\ (op = "escribir" => "escritura" \in d.flags)
        BY <2>1, <2>3 DEF Abierto, PuedeEscribir
      <3> QED BY <3>1, <3>2, <1>1, <1>4 DEF PedidoJustificado
    <2> QED BY <2>2, <2>3
  <1> QED BY <1>4, <1>5, <1>6 DEF Sano

LEMMA PedirSano ==
  ASSUME AInv, ~caido, NEW op \in {"leer", "escribir"},
         NEW p \in Pids, NEW fd \in Fds, NEW d, Pedir(d, op, p, fd),
         Perdido(op, p, fd) \/ (Abierto(p, fd, d) /\ (op = "escribir" => PuedeEscribir(d))),
         pid' = pid, enDisco' = enDisco, abriendo' = abriendo
  PROVE  Sano'
  <1>1. CASE d.referencia \in DOMAIN tabla_global_de_archivos
    <2>1. enDisco' \subseteq Rutas
      BY DEF AInv, Resto
    <2>2. Contesta(Estado, [op |-> op, pid |-> p, fd |-> fd, ruta |-> global[d.referencia].ruta])
      BY <1>1 DEF Pedir, global
    <2> QED BY <1>1, <2>1, <2>2, PedidoSano
  <1>2. CASE d.referencia \notin DOMAIN tabla_global_de_archivos
    <2>1. Muere(op, p, fd)
      BY <1>2 DEF Pedir, global
    <2>2. Perdido(op, p, fd)
      BY <1>2 DEF Abierto, Perdido
    <2> QED BY <2>1, <2>2, MuereSano
  <1> QED BY <1>1, <1>2

LEMMA AbortarSano ==
  ASSUME AInv, ~caido, NEW p \in Pids, Aborta(Estado, p),
         pid' = pid, enDisco' = enDisco, abriendo' = abriendo
  PROVE  Sano'
  <1>1. Bien(Estado, abriendo, pid) /\ Sigue(Estado, Estado)
    BY Partida, SigueMismo
  <1>2. /\ Queda(end_process(Estado, p)) /\ vivos' = vivos \ {p} /\ activos' \subseteq activos
        /\ ultimo' = SinPedido
    BY DEF Aborta
  <1> QED BY <1>1, <1>2, TerminarSano

LEMMA NingunoSano ==
  ASSUME AInv, ~caido, Contesta(Estado, SinPedido),
         pid' = pid, enDisco' = enDisco, abriendo' = abriendo
  PROVE  Sano'
  <1>1. Estado = [Estado EXCEPT !.caido = FALSE]
    BY MismoEstado
  <1>2. Contesta([Estado EXCEPT !.caido = FALSE], SinPedido)
    BY <1>1
  <1>3. enDisco' \subseteq Rutas
    BY DEF AInv, Resto
  <1>4. AInv' /\ caido' = FALSE /\ ultimo' = SinPedido
    BY <1>2, <1>3, SinPedidoEs, ContestarBien
  <1> QED BY <1>4, PedidoNinguno DEF Sano, KernelEnPie

\* The table a request is attended with is that of the process, or the process has none.
LEMMA LaTabla ==
  ASSUME NEW p, NEW t \in TablasPosibles(p)
  PROVE  /\ TablaDe(tabla_de_archivos_por_proceso, p) = 0
              \/ t = TablaDe(tabla_de_archivos_por_proceso, p)
         /\ t = 0 => TablaDe(tabla_de_archivos_por_proceso, p) = 0
  BY DEF TablasPosibles, tablas

LEMMA PasoTerminar ==
  ASSUME AInv, NEW p \in Pids, Terminar(p)
  PROVE  Sano'
  <1>1. ~caido /\ abriendo' = abriendo /\ pid' = pid /\ enDisco' = enDisco
    BY DEF Terminar, Atiende
  <1>2. /\ Queda(end_process(Estado, p)) /\ vivos' = vivos \ {p} /\ activos' \subseteq activos
        /\ ultimo' = SinPedido
    BY DEF Terminar
  <1>3. Bien(Estado, abriendo, pid) /\ Sigue(Estado, Estado)
    BY <1>1, Partida, SigueMismo
  <1> QED BY <1>1, <1>2, <1>3, TerminarSano

LEMMA PasoFinish ==
  ASSUME AInv, NEW p \in Pids, finish_process(p)
  PROVE  Sano'
  <1>1. ~caido /\ abriendo' = abriendo /\ pid' = pid /\ enDisco' = enDisco
    BY DEF finish_process
  <1>2. /\ Queda(end_process(Estado, p)) /\ vivos' = vivos \ {p} /\ activos' \subseteq activos
        /\ ultimo' = SinPedido
    BY DEF finish_process
  <1>3. Bien(Estado, abriendo, pid) /\ Sigue(Estado, Estado)
    BY <1>1, Partida, SigueMismo
  <1> QED BY <1>1, <1>2, <1>3, TerminarSano

LEMMA PasoEscribir ==
  ASSUME AInv, NEW p \in Pids, NEW fd \in Fds, execute_write(p, fd)
  PROVE  Sano'
  <1>1. ~caido /\ abriendo' = abriendo /\ pid' = pid /\ enDisco' = enDisco
    BY DEF execute_write, Atiende
  <1>2. CASE Contesta(Estado, SinPedido)
    BY <1>1, <1>2, NingunoSano
  <1>3. CASE Aborta(Estado, p)
    BY <1>1, <1>3, AbortarSano
  <1>4. ASSUME NEW t \in TablasPosibles(p),
               IF t = 0 THEN Muere("escribir", p, fd)
               ELSE LET k == Buscar(tablas[t].lista_de_archivos, fd)
                        d == tablas[t].lista_de_archivos[k]
                    IN  IF k = 0 THEN Aborta(Estado, p)
                        ELSE IF ~PuedeEscribir(d) THEN Aborta(Estado, p)
                        ELSE Pedir(d, "escribir", p, fd)
        PROVE  Sano'
    <2>k. PICK k : k = Buscar(tabla_de_archivos_por_proceso[t].lista_de_archivos, fd)
      OBVIOUS
    <2>d. PICK d : d = tabla_de_archivos_por_proceso[t].lista_de_archivos[k]
      OBVIOUS
    <2>1. CASE t = 0
      <3>1. Muere("escribir", p, fd) /\ Perdido("escribir", p, fd)
        BY <1>4, <2>1, LaTabla DEF Perdido
      <3> QED BY <3>1, <1>1, MuereSano
    <2>2. CASE t # 0 /\ (k = 0 \/ ~PuedeEscribir(d))
      <3>1. Aborta(Estado, p)
        BY <1>4, <2>2, <2>k, <2>d DEF tablas
      <3> QED BY <3>1, <1>3
    <2>3. CASE t # 0 /\ k # 0 /\ PuedeEscribir(d)
      <3>1. Pedir(d, "escribir", p, fd)
        BY <1>4, <2>3, <2>k, <2>d DEF tablas
      <3>2. Perdido("escribir", p, fd) \/ Abierto(p, fd, d)
        <4>1. CASE TablaDe(tabla_de_archivos_por_proceso, p) = 0
          BY <4>1 DEF Perdido
        <4>2. CASE t = TablaDe(tabla_de_archivos_por_proceso, p)
          BY <4>2, <2>3, <2>k, <2>d, <1>1, AbiertoHallado
        <4> QED BY <4>1, <4>2, LaTabla
      <3> QED BY <3>1, <3>2, <2>3, <1>1, PedirSano
    <2> QED BY <2>1, <2>2, <2>3
  <1> QED BY <1>2, <1>3, <1>4 DEF execute_write

LEMMA LecturaSano ==
  ASSUME AInv, ~caido, NEW p \in Pids, NEW fd \in Fds, NEW d, PedirLectura(d, p, fd),
         Perdido("leer", p, fd) \/ Abierto(p, fd, d),
         pid' = pid, enDisco' = enDisco, abriendo' = abriendo
  PROVE  Sano'
  <1>1. CASE Pedir(d, "leer", p, fd)
    BY <1>1, PedirSano
  <1>2. CASE Aborta(Estado, p)
    BY <1>2, AbortarSano
  <1> QED BY <1>1, <1>2 DEF PedirLectura

LEMMA PasoLeer ==
  ASSUME AInv, NEW p \in Pids, NEW fd \in Fds, execute_read(p, fd)
  PROVE  Sano'
  <1>1. ~caido /\ abriendo' = abriendo /\ pid' = pid /\ enDisco' = enDisco
    BY DEF execute_read, Atiende
  <1>2. PICK t \in TablasPosibles(p) :
           IF t = 0 THEN Muere("leer", p, fd)
           ELSE LET k == Buscar(tablas[t].lista_de_archivos, fd)
                    restos == UNION {Range(tablas[u].lista_de_archivos) : u \in DOMAIN tablas}
                IN  \/ k # 0 /\ PedirLectura(tablas[t].lista_de_archivos[k], p, fd)
                    \/ k = 0 /\ Muere("leer", p, fd)
                    \/ k = 0 /\ \E d \in restos : PedirLectura(d, p, fd)
    BY DEF execute_read
  <1>k. PICK k : k = Buscar(tabla_de_archivos_por_proceso[t].lista_de_archivos, fd)
    OBVIOUS
  <1>3. CASE t = 0
    <2>1. Muere("leer", p, fd) /\ Perdido("leer", p, fd)
      BY <1>2, <1>3, LaTabla DEF Perdido
    <2> QED BY <2>1, <1>1, MuereSano
  <1>4. CASE t # 0 /\ k # 0
    <2>d. PICK d : d = tabla_de_archivos_por_proceso[t].lista_de_archivos[k]
      OBVIOUS
    <2>1. PedirLectura(d, p, fd)
      BY <1>2, <1>4, <1>k, <2>d DEF tablas
    <2>2. Perdido("leer", p, fd) \/ Abierto(p, fd, d)
      <3>1. CASE TablaDe(tabla_de_archivos_por_proceso, p) = 0
        BY <3>1 DEF Perdido
      <3>2. CASE t = TablaDe(tabla_de_archivos_por_proceso, p)
        BY <3>2, <1>4, <1>k, <2>d, <1>1, AbiertoHallado
      <3> QED BY <3>1, <3>2, LaTabla
    <2> QED BY <2>1, <2>2, <1>1, LecturaSano
  <1>5. CASE t # 0 /\ k = 0
    <2>1. Perdido("leer", p, fd)
      BY <1>5, <1>k, LaTabla DEF Perdido
    <2>2. Muere("leer", p, fd) \/ \E d : PedirLectura(d, p, fd)
      BY <1>2, <1>5, <1>k DEF tablas
    <2>3. CASE Muere("leer", p, fd)
      BY <2>1, <2>3, <1>1, MuereSano
    <2>4. CASE \E d : PedirLectura(d, p, fd)
      BY <2>1, <2>4, <1>1, LecturaSano
    <2> QED BY <2>2, <2>3, <2>4
  <1> QED BY <1>3, <1>4, <1>5

LEMMA PasoCerrar ==
  ASSUME AInv, NEW p \in Pids, NEW fd \in Fds, CerrarArchivo(p, fd)
  PROVE  Sano'
  <1>1. ~caido /\ abriendo' = abriendo /\ pid' = pid /\ enDisco' = enDisco
    BY DEF CerrarArchivo, Atiende
  <1>s. PICK s : s = IF fd = 1 THEN [Estado EXCEPT !.codigo = 1] ELSE execute_close(Estado, p, fd)
    OBVIOUS
  <1>2. IF s.codigo < 0 THEN Aborta(s, p) ELSE Contesta(s, SinPedido)
    BY <1>s DEF CerrarArchivo
  <1>3. Bien(s, abriendo, pid) /\ Sigue(Estado, s)
    <2>1. Bien(Estado, abriendo, pid) /\ 1 \in Int
      BY <1>1, Partida
    <2>2. CASE fd = 1
      <3>1. Bien([Estado EXCEPT !.codigo = 1], abriendo, pid) /\ Sigue(Estado, [Estado EXCEPT !.codigo = 1])
        BY <2>1, CodigoBien
      <3> QED BY <3>1, <2>2, <1>s
    <2>3. CASE fd # 1
      BY <2>1, <2>3, <1>s, CloseBien
    <2> QED BY <2>2, <2>3
  <1>4. CASE Aborta(s, p)
    <2>1. /\ Queda(end_process(s, p)) /\ vivos' = vivos \ {p} /\ activos' \subseteq activos
          /\ ultimo' = SinPedido
      BY <1>4 DEF Aborta
    <2> QED BY <2>1, <1>1, <1>3, TerminarSano
  <1>5. CASE Contesta(s, SinPedido)
    <2>1. Queda(s) /\ ultimo' = SinPedido /\ vivos' = vivos /\ activos' = activos
      BY <1>5 DEF Contesta
    <2>2. Bien(s, abriendo', pid')
      BY <1>1, <1>3
    <2>3. /\ s.caido => "desplazada" \in s.rarezas
          /\ rarezas \subseteq s.rarezas
          /\ PidsDe(s.tablas) = PidsDe(tabla_de_archivos_por_proceso)
      BY <1>1, <1>3, ElEstado DEF Sigue, PidsDe
    <2>4. "tabla ajena" \notin rarezas => vivos = PidsDe(tabla_de_archivos_por_proceso)
      BY <1>1, Partida, CadaUnoEs DEF AInv
    <2>5. Resto'
      BY <1>1, <2>1, SinPedidoEs DEF AInv, Resto, Pedidos
    <2> QED BY <2>1, <2>2, <2>3, <2>4, <2>5, PasoSano
  <1> QED BY <1>2, <1>4, <1>5

LEMMA PasoBorrar ==
  ASSUME AInv, NEW p \in Pids, NEW fd \in Fds, execute_delete(p, fd)
  PROVE  Sano'
  <1>1. ~caido /\ abriendo' = abriendo /\ pid' = pid
    BY DEF execute_delete, Atiende
  <1>t. PICK t : t = TablaDe(tabla_de_archivos_por_proceso, p)
    OBVIOUS
  <1>k. PICK k : k = IF t = 0 THEN 0
                     ELSE Buscar(tabla_de_archivos_por_proceso[t].lista_de_archivos, fd)
    OBVIOUS
  <1>d. PICK d : d = tabla_de_archivos_por_proceso[t].lista_de_archivos[k]
    OBVIOUS
  <1>2. ASSUME k # 0
        PROVE  Abierto(p, fd, d)
    <2>1. t # 0 /\ k = Buscar(tabla_de_archivos_por_proceso[t].lista_de_archivos, fd)
      BY <1>2, <1>k
    <2> QED BY <2>1, <1>2, <1>t, <1>d, <1>1, AbiertoHallado
  <1>3. CASE Contesta(Estado, SinPedido) /\ enDisco' = enDisco
    BY <1>1, <1>3, NingunoSano
  <1>4. CASE k # 0 /\ d.referencia \notin DOMAIN global /\ Muere("borrar", p, fd) /\ enDisco' = enDisco
    <2>1. Perdido("borrar", p, fd)
      BY <1>2, <1>4 DEF Abierto, Perdido, global
    <2> QED BY <2>1, <1>1, <1>4, MuereSano
  <1>5. CASE /\ k # 0 /\ d.referencia \in DOMAIN global
             /\ Contesta(Estado, [op |-> "borrar", pid |-> p, fd |-> fd,
                                  ruta |-> global[d.referencia].ruta])
             /\ enDisco' = enDisco \ {global[d.referencia].ruta}
    <2>1. enDisco' \subseteq Rutas
      BY <1>5 DEF AInv, Resto
    <2>2. d.referencia \in DOMAIN tabla_global_de_archivos
      BY <1>5 DEF global
    <2>3. Abierto(p, fd, d)
      BY <1>2, <1>5
    <2>4. Contesta(Estado, [op |-> "borrar", pid |-> p, fd |-> fd,
                            ruta |-> global[d.referencia].ruta])
      BY <1>5
    <2> QED BY <2>1, <2>2, <2>3, <2>4, <1>1, PedidoSano
  <1>6. \/ Contesta(Estado, SinPedido) /\ enDisco' = enDisco
        \/ k # 0 /\ d.referencia \notin DOMAIN global /\ Muere("borrar", p, fd) /\ enDisco' = enDisco
        \/ /\ k # 0 /\ d.referencia \in DOMAIN global
           /\ Contesta(Estado, [op |-> "borrar", pid |-> p, fd |-> fd,
                                ruta |-> global[d.referencia].ruta])
           /\ enDisco' = enDisco \ {global[d.referencia].ruta}
    BY <1>t, <1>k, <1>d DEF execute_delete, tablas
  <1> QED BY <1>3, <1>4, <1>5, <1>6

-----------------------------------------------------------------------------
(* Moving the cursor *)

\* The tables us are ts but for what the properties do not look at.
Igualadas(ts, us) ==
  /\ us \in Seq(TablaDeProceso) /\ DOMAIN us = DOMAIN ts
  /\ \A u \in DOMAIN ts :
       /\ us[u].pid = ts[u].pid /\ us[u].current_fd = ts[u].current_fd
       /\ Len(us[u].lista_de_archivos) = Len(ts[u].lista_de_archivos)
       /\ DOMAIN us[u].lista_de_archivos = DOMAIN ts[u].lista_de_archivos
       /\ \A j \in DOMAIN ts[u].lista_de_archivos :
            /\ us[u].lista_de_archivos[j].fd = ts[u].lista_de_archivos[j].fd
            /\ us[u].lista_de_archivos[j].referencia = ts[u].lista_de_archivos[j].referencia
            /\ us[u].lista_de_archivos[j].ruta = ts[u].lista_de_archivos[j].ruta

LEMMA IgualadasBien ==
  ASSUME NEW ts, NEW us, Igualadas(ts, us), NEW n, TablasBien(ts, n), NEW g
  PROVE  /\ TablasBien(us, n) /\ PidsDe(us) = PidsDe(ts)
         /\ \A i : Nominas(us, i) = Nominas(ts, i)
         /\ Fieles(ts, g) => Fieles(us, g)
  <1> USE DEF Igualadas
  <1>1. ASSUME NEW u \in DOMAIN us
        PROVE  us[u].pid <= n /\ ListaBien(us[u])
    <2>1. ts[u].pid <= n /\ ListaBien(ts[u])
      BY DEF TablasBien
    <2> QED BY <2>1 DEF ListaBien
  <1>2. TablasBien(us, n)
    BY <1>1 DEF TablasBien
  <1>3. PidsDe(us) = PidsDe(ts)
    BY DEF PidsDe
  <1>4. ASSUME NEW i
        PROVE  Nominas(us, i) = Nominas(ts, i)
    <2>1. ASSUME NEW x \in Nominas(us, i)
          PROVE  x \in Nominas(ts, i)
      <3>t. PICK t \in DOMAIN us : \E k \in DOMAIN us[t].lista_de_archivos :
               /\ x = <<us[t].pid, us[t].lista_de_archivos[k].fd>>
               /\ us[t].lista_de_archivos[k].referencia = i
        BY DEF Nominas
      <3>k. PICK k \in DOMAIN us[t].lista_de_archivos :
               /\ x = <<us[t].pid, us[t].lista_de_archivos[k].fd>>
               /\ us[t].lista_de_archivos[k].referencia = i
        BY <3>t
      <3>1. t \in DOMAIN ts /\ k \in DOMAIN ts[t].lista_de_archivos
        OBVIOUS
      <3>2. /\ x = <<ts[t].pid, ts[t].lista_de_archivos[k].fd>>
            /\ ts[t].lista_de_archivos[k].referencia = i
        BY <3>k
      <3>3. x \in Pids \X Fds
        BY DEF Nominas
      <3> QED BY <3>1, <3>2, <3>3 DEF Nominas
    <2>2. ASSUME NEW x \in Nominas(ts, i)
          PROVE  x \in Nominas(us, i)
      <3>t. PICK t \in DOMAIN ts : \E k \in DOMAIN ts[t].lista_de_archivos :
               /\ x = <<ts[t].pid, ts[t].lista_de_archivos[k].fd>>
               /\ ts[t].lista_de_archivos[k].referencia = i
        BY DEF Nominas
      <3>k. PICK k \in DOMAIN ts[t].lista_de_archivos :
               /\ x = <<ts[t].pid, ts[t].lista_de_archivos[k].fd>>
               /\ ts[t].lista_de_archivos[k].referencia = i
        BY <3>t
      <3>1. t \in DOMAIN us /\ k \in DOMAIN us[t].lista_de_archivos
        OBVIOUS
      <3>2. /\ x = <<us[t].pid, us[t].lista_de_archivos[k].fd>>
            /\ us[t].lista_de_archivos[k].referencia = i
        BY <3>k
      <3>3. x \in Pids \X Fds
        BY DEF Nominas
      <3> QED BY <3>1, <3>2, <3>3 DEF Nominas
    <2> QED BY <2>1, <2>2
  <1>5. ASSUME Fieles(ts, g), NEW u \in DOMAIN us, NEW j \in DOMAIN us[u].lista_de_archivos
        PROVE  /\ us[u].lista_de_archivos[j].referencia \in DOMAIN g
               /\ g[us[u].lista_de_archivos[j].referencia].ruta = us[u].lista_de_archivos[j].ruta
    <2>1. u \in DOMAIN ts /\ j \in DOMAIN ts[u].lista_de_archivos
      OBVIOUS
    <2>2. /\ ts[u].lista_de_archivos[j].referencia \in DOMAIN g
          /\ g[ts[u].lista_de_archivos[j].referencia].ruta = ts[u].lista_de_archivos[j].ruta
      BY <2>1, <1>5 DEF Fieles
    <2> QED BY <2>1, <2>2
  <1>6. Fieles(ts, g) => Fieles(us, g)
    BY <1>5 DEF Fieles
  <1> QED BY <1>2, <1>3, <1>4, <1>6

Movido(s, t, k, position) == [s EXCEPT !.tablas[t].lista_de_archivos[k].offset = position]

LEMMA MoverBien ==
  ASSUME NEW s, NEW ab, NEW n, Bien(s, ab, n),
         NEW t \in DOMAIN s.tablas, NEW k \in DOMAIN s.tablas[t].lista_de_archivos,
         NEW position \in Posiciones,
         NEW r, r = Movido(s, t, k, position)
  PROVE  /\ Bien(r, ab, n) /\ r.caido = s.caido /\ r.rarezas = s.rarezas
         /\ PidsDe(r.tablas) = PidsDe(s.tablas)
  <1>ts. PICK ts : ts = s.tablas
    OBVIOUS
  <1>l. PICK l : l = ts[t].lista_de_archivos
    OBVIOUS
  <1>e. PICK e : e = [l[k] EXCEPT !.offset = position]
    OBVIOUS
  <1>m. PICK m : m = [l EXCEPT ![k] = e]
    OBVIOUS
  <1>us. PICK us : us = [ts EXCEPT ![t].lista_de_archivos = m]
    OBVIOUS
  <1>0. s \in Estados /\ ts \in Seq(TablaDeProceso) /\ TablasBien(ts, n) /\ t \in DOMAIN ts
    BY <1>ts DEF Bien, Estados
  <1>1. l \in Seq(Descriptor) /\ k \in DOMAIN l /\ l[k] \in Descriptor
    <2>1. k \in DOMAIN l
      BY <1>l, <1>ts
    <2>2. l \in Seq(Descriptor)
      BY <1>0, <1>l, DeLaLista
    <2> QED BY <2>1, <2>2, ElementoDe
  <1>2. /\ e \in Descriptor /\ e.fd = l[k].fd /\ e.referencia = l[k].referencia
        /\ e.ruta = l[k].ruta
    BY <1>1, <1>e DEF Descriptor
  <1>3. m \in Seq(Descriptor) /\ Len(m) = Len(l) /\ DOMAIN m = DOMAIN l
        /\ m[k] = e /\ \A j \in DOMAIN l : j # k => m[j] = l[j]
    BY <1>1, <1>2, <1>m
  <1>4. /\ us \in Seq(TablaDeProceso) /\ DOMAIN us = DOMAIN ts
        /\ \A u \in DOMAIN ts : /\ us[u].pid = ts[u].pid /\ us[u].current_fd = ts[u].current_fd
                                /\ u # t => us[u] = ts[u]
        /\ us[t].lista_de_archivos = m
    <2>1. m \in Seq(Descriptor)
      BY <1>3
    <2> QED BY <2>1, <1>0, <1>us, OtraLista
  <1>5. Igualadas(ts, us)
    <2>1. ASSUME NEW u \in DOMAIN ts
          PROVE  /\ Len(us[u].lista_de_archivos) = Len(ts[u].lista_de_archivos)
                 /\ DOMAIN us[u].lista_de_archivos = DOMAIN ts[u].lista_de_archivos
      BY <1>l, <1>3, <1>4
    <2>2. ASSUME NEW u \in DOMAIN ts, NEW j \in DOMAIN ts[u].lista_de_archivos
          PROVE  /\ us[u].lista_de_archivos[j].fd = ts[u].lista_de_archivos[j].fd
                 /\ us[u].lista_de_archivos[j].referencia = ts[u].lista_de_archivos[j].referencia
                 /\ us[u].lista_de_archivos[j].ruta = ts[u].lista_de_archivos[j].ruta
      <3>1. CASE u # t
        BY <3>1, <1>4
      <3>2. CASE u = t
        <4>1. us[u].lista_de_archivos = m /\ ts[u].lista_de_archivos = l /\ j \in DOMAIN l
          BY <3>2, <1>4, <1>l
        <4>2. m[j].fd = l[j].fd /\ m[j].referencia = l[j].referencia /\ m[j].ruta = l[j].ruta
          BY <4>1, <1>2, <1>3
        <4> QED BY <4>1, <4>2
      <3> QED BY <3>1, <3>2
    <2> QED BY <2>1, <2>2, <1>4 DEF Igualadas
  <1>6. r = [s EXCEPT !.tablas = us]
    <2>1. r = [s EXCEPT !.tablas[t].lista_de_archivos[k] = e]
      BY <1>0, <1>1, <1>e, <1>l, <1>ts DEF Movido
    <2>2. r = [s EXCEPT !.tablas[t].lista_de_archivos = m]
      BY <2>1, <1>m, <1>l, <1>ts
    <2> QED BY <2>2, <1>us, <1>ts
  <1>7. /\ r \in Estados /\ r.tablas = us /\ r.global = s.global /\ r.caido = s.caido
        /\ r.rarezas = s.rarezas
    BY <1>0, <1>4, <1>6 DEF Estados
  <1>8. /\ TablasBien(us, n) /\ PidsDe(us) = PidsDe(ts)
        /\ \A i : Nominas(us, i) = Nominas(ts, i)
        /\ Fieles(ts, s.global) => Fieles(us, s.global)
    BY <1>0, <1>5, IgualadasBien
  <1>9. Contadas(us, s.global, ab, "fuga" \in s.rarezas)
          <=> Contadas(ts, s.global, ab, "fuga" \in s.rarezas)
    BY <1>8 DEF Contadas
  <1>10. Bien(r, ab, n)
    BY <1>7, <1>8, <1>9, <1>ts DEF Bien
  <1> QED BY <1>7, <1>8, <1>10, <1>ts

LEMMA PasoMover ==
  ASSUME AInv, NEW p \in Pids, NEW fd \in Fds, NEW position \in Posiciones,
         move_cursor(p, fd, position)
  PROVE  Sano'
  <1>1. ~caido /\ abriendo' = abriendo /\ pid' = pid /\ enDisco' = enDisco
    BY DEF move_cursor, Atiende
  <1>2. CASE Aborta(Estado, p)
    BY <1>1, <1>2, AbortarSano
  <1>3. ASSUME NEW t \in TablasPosibles(p),
               IF t = 0 THEN Muere("mover", p, fd)
               ELSE LET k == Buscar(tablas[t].lista_de_archivos, fd)
                    IN  IF k = 0 THEN Aborta(Estado, p)
                        ELSE Contesta([Estado EXCEPT !.tablas[t].lista_de_archivos[k].offset = position],
                                      SinPedido)
        PROVE  Sano'
    <2>k. PICK k : k = Buscar(tabla_de_archivos_por_proceso[t].lista_de_archivos, fd)
      OBVIOUS
    <2>1. CASE t = 0
      <3>1. Muere("mover", p, fd) /\ Perdido("mover", p, fd)
        BY <1>3, <2>1, LaTabla DEF Perdido
      <3> QED BY <3>1, <1>1, MuereSano
    <2>2. CASE t # 0 /\ k = 0
      BY <1>2, <1>3, <2>2, <2>k DEF tablas
    <2>3. CASE t # 0 /\ k # 0
      <3>r. PICK r : r = Movido(Estado, t, k, position)
        OBVIOUS
      <3>1. Contesta(r, SinPedido)
        BY <1>3, <2>3, <2>k, <3>r DEF tablas, Movido
      <3>2. t \in DOMAIN tabla_de_archivos_por_proceso
        <4>0. tabla_de_archivos_por_proceso \in Seq(TablaDeProceso)
          BY <1>1, Partida
        <4>1. TablaDe(tabla_de_archivos_por_proceso, p) = 0
                \/ TablaDe(tabla_de_archivos_por_proceso, p) \in DOMAIN tabla_de_archivos_por_proceso
          BY <4>0, TablaHallada
        <4> QED BY <4>1, <2>3 DEF TablasPosibles, tablas
      <3>3. k \in DOMAIN tabla_de_archivos_por_proceso[t].lista_de_archivos
        <4>1. tabla_de_archivos_por_proceso[t].lista_de_archivos \in Seq(Descriptor)
          BY <1>1, <3>2, Partida, DeLaLista
        <4> QED BY <4>1, <2>3, <2>k, DescriptorHallado
      <3>4. Bien(Estado, abriendo, pid)
        BY <1>1, Partida
      <3>5. /\ Bien(r, abriendo, pid) /\ r.caido = caido /\ r.rarezas = rarezas
            /\ PidsDe(r.tablas) = PidsDe(tabla_de_archivos_por_proceso)
        <4>1. t \in DOMAIN Estado.tablas /\ k \in DOMAIN Estado.tablas[t].lista_de_archivos
          BY <3>2, <3>3, ElEstado
        <4>2. /\ Bien(r, abriendo, pid) /\ r.caido = Estado.caido /\ r.rarezas = Estado.rarezas
              /\ PidsDe(r.tablas) = PidsDe(Estado.tablas)
          BY <4>1, <3>4, <3>r, MoverBien
        <4> QED BY <4>2, ElEstado
      <3>6. Queda(r) /\ ultimo' = SinPedido /\ vivos' = vivos /\ activos' = activos
        BY <3>1 DEF Contesta
      <3>7. "tabla ajena" \notin rarezas => vivos = PidsDe(tabla_de_archivos_por_proceso)
        BY <1>1, Partida, CadaUnoEs DEF AInv
      <3>8. Resto'
        BY <1>1, <3>6, SinPedidoEs DEF AInv, Resto, Pedidos
      <3>9. Bien(r, abriendo', pid')
        BY <1>1, <3>5
      <3> QED BY <1>1, <3>5, <3>6, <3>7, <3>8, <3>9, PasoSano
    <2> QED BY <2>1, <2>2, <2>3
  <1> QED BY <1>2, <1>3 DEF move_cursor

-----------------------------------------------------------------------------
(* A process more *)

\* The tables ts with that of the process n + 1
ConNueva(ts, n) ==
  Append(ts, [pid |-> n + 1, current_fd |-> FD_INICIAL_ARCHIVOS, lista_de_archivos |-> <<>>])

LEMMA ConTabla ==
  ASSUME NEW ts \in Seq(TablaDeProceso), NEW n \in Nat, n + 1 \in Pids, TablasBien(ts, n),
         NEW us, us = ConNueva(ts, n)
  PROVE  /\ us \in Seq(TablaDeProceso) /\ TablasBien(us, n + 1)
         /\ PidsDe(us) = PidsDe(ts) \cup {n + 1}
         /\ \A i : Nominas(us, i) = Nominas(ts, i)
         /\ \A g : Fieles(ts, g) => Fieles(us, g)
  <1>x. PICK x : x = [pid |-> n + 1, current_fd |-> FD_INICIAL_ARCHIVOS, lista_de_archivos |-> <<>>]
    OBVIOUS
  <1>us. us = Append(ts, x)
    BY <1>x DEF ConNueva
  <1>1. x \in TablaDeProceso /\ x.pid = n + 1 /\ x.lista_de_archivos = <<>>
        /\ x.current_fd = FD_INICIAL_ARCHIVOS /\ DOMAIN x.lista_de_archivos = {}
    <2>1. <<>> \in Seq(Descriptor) /\ DOMAIN <<>> = {}
      OBVIOUS
    <2>2. FD_INICIAL_ARCHIVOS \in Fds
      BY ArchivosAssumption DEF Fds, FD_INICIAL_ARCHIVOS
    <2> QED BY <2>1, <2>2, <1>x DEF TablaDeProceso
  <1>m. PICK m : m = Len(ts) + 1
    OBVIOUS
  <1>2. /\ us \in Seq(TablaDeProceso) /\ DOMAIN us = 1 .. Len(ts) + 1
        /\ \A j \in DOMAIN us : \/ j \in DOMAIN ts /\ us[j] = ts[j]
                                \/ j = m /\ us[j] = x
        /\ \A j \in DOMAIN ts : j \in DOMAIN us /\ us[j] = ts[j]
        /\ m \in DOMAIN us /\ us[m] = x
    BY <1>1, <1>m, <1>us, Agregar
  <1>3. \A t \in DOMAIN ts : ts[t].pid \in Nat /\ ts[t].pid <= n /\ ts[t].pid <= n + 1
                             /\ ts[t].pid # n + 1 /\ ListaBien(ts[t])
    <2> SUFFICES ASSUME NEW t \in DOMAIN ts
                 PROVE  ts[t].pid \in Nat /\ ts[t].pid <= n /\ ts[t].pid <= n + 1
                        /\ ts[t].pid # n + 1 /\ ListaBien(ts[t])
      OBVIOUS
    <2>1. ts[t].pid \in Pids
      BY DeLaLista
    <2>2. ts[t].pid \in Nat
      BY <2>1, ArchivosAssumption DEF Pids
    <2>3. ts[t].pid <= n /\ ListaBien(ts[t])
      BY DEF TablasBien
    <2> QED BY <2>2, <2>3
  <1>4. ListaBien(x)
    <2>1. Len(<<>>) = 0 /\ DOMAIN <<>> = {} /\ 0 + FD_INICIAL_ARCHIVOS <= FD_INICIAL_ARCHIVOS
      BY DEF FD_INICIAL_ARCHIVOS
    <2> QED BY <2>1, <1>1 DEF ListaBien
  <1>5. TablasBien(us, n + 1)
    <2>1. ASSUME NEW t \in DOMAIN us
          PROVE  us[t].pid <= n + 1 /\ ListaBien(us[t])
      <3>1. n + 1 <= n + 1
        OBVIOUS
      <3> QED BY <3>1, <1>1, <1>2, <1>3, <1>4
    <2>2. ASSUME NEW t \in DOMAIN us, NEW u \in DOMAIN us, us[t].pid = us[u].pid
          PROVE  t = u
      <3>1. CASE t \in DOMAIN ts /\ us[t] = ts[t] /\ u \in DOMAIN ts /\ us[u] = ts[u]
        BY <3>1, <2>2 DEF TablasBien
      <3>2. CASE t = m /\ us[t] = x /\ u = m
        BY <3>2
      <3>3. CASE t \in DOMAIN ts /\ us[t] = ts[t] /\ us[u] = x
        BY <3>3, <2>2, <1>1, <1>3
      <3>4. CASE u \in DOMAIN ts /\ us[u] = ts[u] /\ us[t] = x
        BY <3>4, <2>2, <1>1, <1>3
      <3> QED BY <3>1, <3>2, <3>3, <3>4, <1>2
    <2> QED BY <2>1, <2>2 DEF TablasBien
  <1>6. PidsDe(us) = PidsDe(ts) \cup {n + 1}
    <2>1. ASSUME NEW p \in PidsDe(us)
          PROVE  p \in PidsDe(ts) \cup {n + 1}
      BY <1>1, <1>2 DEF PidsDe
    <2>2. ASSUME NEW p \in PidsDe(ts) \cup {n + 1}
          PROVE  p \in PidsDe(us)
      <3>1. CASE p \in PidsDe(ts)
        BY <3>1, <1>2 DEF PidsDe
      <3>2. CASE p = n + 1
        BY <3>2, <1>1, <1>2 DEF PidsDe
      <3> QED BY <3>1, <3>2
    <2> QED BY <2>1, <2>2
  <1>7. ASSUME NEW i
        PROVE  Nominas(us, i) = Nominas(ts, i)
    <2>1. ASSUME NEW y \in Nominas(us, i)
          PROVE  y \in Nominas(ts, i)
      <3>1. PICK t \in DOMAIN us : \E k \in DOMAIN us[t].lista_de_archivos :
               /\ y = <<us[t].pid, us[t].lista_de_archivos[k].fd>>
               /\ us[t].lista_de_archivos[k].referencia = i
        BY DEF Nominas
      <3>2. t \in DOMAIN ts /\ us[t] = ts[t]
        BY <3>1, <1>1, <1>2
      <3>3. y \in Pids \X Fds
        BY DEF Nominas
      <3> QED BY <3>1, <3>2, <3>3 DEF Nominas
    <2>2. ASSUME NEW y \in Nominas(ts, i)
          PROVE  y \in Nominas(us, i)
      <3>1. PICK t \in DOMAIN ts : \E k \in DOMAIN ts[t].lista_de_archivos :
               /\ y = <<ts[t].pid, ts[t].lista_de_archivos[k].fd>>
               /\ ts[t].lista_de_archivos[k].referencia = i
        BY DEF Nominas
      <3>2. t \in DOMAIN us /\ us[t] = ts[t]
        BY <1>2
      <3>3. y \in Pids \X Fds
        BY DEF Nominas
      <3> QED BY <3>1, <3>2, <3>3 DEF Nominas
    <2> QED BY <2>1, <2>2
  <1>8. ASSUME NEW g, Fieles(ts, g)
        PROVE  Fieles(us, g)
    <2> SUFFICES ASSUME NEW t \in DOMAIN us, NEW k \in DOMAIN us[t].lista_de_archivos
                 PROVE  /\ us[t].lista_de_archivos[k].referencia \in DOMAIN g
                        /\ g[us[t].lista_de_archivos[k].referencia].ruta = us[t].lista_de_archivos[k].ruta
      BY DEF Fieles
    <2>1. t \in DOMAIN ts /\ us[t] = ts[t]
      BY <1>1, <1>2
    <2> QED BY <2>1, <1>8 DEF Fieles
  <1> QED BY <1>2, <1>5, <1>6, <1>7, <1>8

LEMMA PasoCrear ==
  ASSUME AInv, create_PCB
  PROVE  Sano'
  <1>ts. PICK ts : ts = tabla_de_archivos_por_proceso
    OBVIOUS
  <1>us. PICK us : us = ConNueva(ts, pid)
    OBVIOUS
  <1>1. /\ ~caido /\ pid' = pid + 1 /\ vivos' = vivos \cup {pid + 1}
        /\ activos' = activos \cup {pid + 1} /\ ultimo' = SinPedido
        /\ tabla_de_archivos_por_proceso' = us
        /\ tabla_global_de_archivos' = tabla_global_de_archivos /\ abriendo' = abriendo
        /\ enDisco' = enDisco /\ caido' = caido /\ rarezas' = rarezas
    BY <1>ts, <1>us DEF create_PCB, tablas, ConNueva
  <1>2. /\ pid \in Nat /\ pid + 1 \in Pids /\ pid + 1 \in 0 .. MaxPid
        /\ vivos \subseteq 1 .. pid /\ activos \subseteq 1 .. pid
    BY ArchivosAssumption DEF create_PCB, AInv, Resto, Pids
  <1>3. Bien(Estado, abriendo, pid) /\ ts \in Seq(TablaDeProceso) /\ TablasBien(ts, pid)
    BY <1>1, <1>ts, Partida
  <1>4. /\ us \in Seq(TablaDeProceso) /\ TablasBien(us, pid + 1)
        /\ PidsDe(us) = PidsDe(ts) \cup {pid + 1}
        /\ \A i : Nominas(us, i) = Nominas(ts, i)
        /\ \A g : Fieles(ts, g) => Fieles(us, g)
    BY <1>2, <1>3, <1>us, ConTabla
  <1>r. PICK r : r = [Estado EXCEPT !.tablas = us]
    OBVIOUS
  <1>5. /\ r \in Estados /\ r.tablas = us /\ r.global = Estado.global /\ r.caido = Estado.caido
        /\ r.rarezas = Estado.rarezas
    BY <1>3, <1>4, <1>r DEF Bien, Estados
  <1>6. Contadas(us, Estado.global, abriendo, "fuga" \in Estado.rarezas)
          <=> Contadas(ts, Estado.global, abriendo, "fuga" \in Estado.rarezas)
    BY <1>4 DEF Contadas
  <1>7. Bien(r, abriendo, pid + 1)
    BY <1>3, <1>4, <1>5, <1>6, <1>ts, ElEstado DEF Bien
  <1>8. Queda(r)
    BY <1>1, <1>5, ElEstado DEF Queda
  <1>9. r.caido = FALSE /\ r.rarezas = rarezas
    BY <1>1, <1>5, Partida, ElEstado
  <1>10. "tabla ajena" \notin rarezas => vivos' = PidsDe(r.tablas)
    <2>1. "tabla ajena" \notin rarezas => vivos = PidsDe(ts)
      BY <1>1, <1>ts, Partida, CadaUnoEs DEF AInv
    <2> QED BY <2>1, <1>1, <1>4, <1>5
  <1>11. Resto'
    <2>1. vivos' \subseteq 1 .. pid + 1 /\ activos' \subseteq 1 .. pid + 1
      BY <1>1, <1>2
    <2> QED BY <2>1, <1>1, <1>2, SinPedidoEs DEF AInv, Resto, Pedidos
  <1>12. Bien(r, abriendo', pid')
    BY <1>1, <1>7
  <1> QED BY <1>1, <1>8, <1>9, <1>10, <1>11, <1>12, PasoSano

-----------------------------------------------------------------------------
(* Opening a file *)

\* h is the global table g with an instance more of a file, whose entry is at m.
Instanciada(g, h, m, ruta) ==
  /\ h \in Seq(Entrada) /\ Unicas(h) /\ m \in DOMAIN h /\ h[m].ruta = ruta
  /\ m \in 1 .. Cardinality(Rutas)
  /\ \A j \in DOMAIN g : j \in DOMAIN h /\ h[j].ruta = g[j].ruta
  /\ \A j \in DOMAIN h : j # m => j \in DOMAIN g /\ h[j] = g[j]
  /\ m \in DOMAIN g => h[m].instancias = g[m].instancias + 1
  /\ m \notin DOMAIN g => h[m].instancias = 1

LEMMA EnGlobalBien ==
  ASSUME tabla_global_de_archivos \in Seq(Entrada), Unicas(tabla_global_de_archivos),
         NEW ruta \in Rutas
  PROVE  Instanciada(tabla_global_de_archivos, EnGlobal(ruta)[1], EnGlobal(ruta)[2], ruta)
  <1>g. PICK g : g = tabla_global_de_archivos
    OBVIOUS
  <1>i. PICK i : i = SelectInSeq(g, LAMBDA a : a.ruta = ruta)
    OBVIOUS
  <1>h. PICK h : h = EnGlobal(ruta)[1]
    OBVIOUS
  <1>m. PICK m : m = EnGlobal(ruta)[2]
    OBVIOUS
  <1>0. g \in Seq(Entrada) /\ Unicas(g)
    BY <1>g
  <1>1. \/ i = 0 /\ \A j \in DOMAIN g : g[j].ruta # ruta
        \/ i \in DOMAIN g /\ g[i].ruta = ruta
    <2> DEFINE I == {j \in 1 .. Len(g) : g[j].ruta = ruta}
    <2>1. i = IF I # {} THEN Min(I) ELSE 0
      BY <1>i DEF SelectInSeq
    <2>2. DOMAIN g = 1 .. Len(g) /\ I \in SUBSET Nat
      BY <1>0
    <2>3. ASSUME I # {}
          PROVE  Min(I) \in I
      BY <2>2, <2>3, MinimoEsta
    <2> QED BY <2>1, <2>2, <2>3
  <1>2. CASE i # 0
    <2>1. i \in DOMAIN g /\ g[i].ruta = ruta
      BY <1>1, <1>2
    <2>c. PICK c : c = g[i].instancias
      OBVIOUS
    <2>y. PICK y : y = [g[i] EXCEPT !.instancias = c + 1]
      OBVIOUS
    <2>2. h = [g EXCEPT ![i].instancias = @ + 1] /\ m = i
      BY <1>2, <1>g, <1>i, <1>h, <1>m DEF EnGlobal, global
    <2>3. h = [g EXCEPT ![i] = y]
      BY <2>1, <2>2, <2>c, <2>y
    <2>4. g[i] \in Entrada
      BY <1>0, <2>1, ElementoDe
    <2>5. c \in Nat /\ c + 1 \in Nat \ {0}
      BY <2>4, <2>c DEF Entrada
    <2>6. y \in Entrada /\ y.ruta = ruta /\ y.instancias = c + 1
      BY <2>1, <2>4, <2>5, <2>y DEF Entrada
    <2>7. /\ h \in Seq(Entrada) /\ DOMAIN h = DOMAIN g /\ h[i] = y
          /\ \A j \in DOMAIN g : j # i => h[j] = g[j]
      BY <1>0, <2>1, <2>3, <2>6
    <2>8. \A j \in DOMAIN g : h[j].ruta = g[j].ruta
      BY <2>1, <2>6, <2>7
    <2>9. Unicas(h)
      BY <1>0, <2>7, <2>8 DEF Unicas
    <2>10. m \in 1 .. Cardinality(Rutas)
      <3>1. Len(h) <= Cardinality(Rutas) /\ Cardinality(Rutas) \in Nat
        BY <2>7, <2>9, LargoDeGlobal
      <3>2. m \in 1 .. Len(h) /\ Len(h) \in Nat
        BY <2>1, <2>2, <2>7
      <3> QED BY <3>1, <3>2
    <2>11. Instanciada(g, h, m, ruta)
      BY <2>1, <2>2, <2>6, <2>7, <2>8, <2>9, <2>10, <2>c DEF Instanciada
    <2> QED BY <2>11, <1>g, <1>h, <1>m
  <1>3. CASE i = 0
    <2>y. PICK y : y = [ruta |-> ruta, instancias |-> 1]
      OBVIOUS
    <2>1. \A j \in DOMAIN g : g[j].ruta # ruta
      BY <1>0, <1>1, <1>3
    <2>2. h = Append(g, y) /\ m = Len(g) + 1
      BY <1>3, <1>g, <1>i, <1>h, <1>m, <2>y DEF EnGlobal, global
    <2>3. y \in Entrada /\ y.ruta = ruta /\ y.instancias = 1
      BY <2>y DEF Entrada
    <2>4. /\ h \in Seq(Entrada) /\ DOMAIN h = 1 .. Len(g) + 1
          /\ \A j \in DOMAIN h : \/ j \in DOMAIN g /\ h[j] = g[j]
                                 \/ j = m /\ h[j] = y
          /\ \A j \in DOMAIN g : j \in DOMAIN h /\ h[j] = g[j]
          /\ m \in DOMAIN h /\ h[m] = y
      BY <1>0, <2>2, <2>3, Agregar
    <2>5. m \notin DOMAIN g
      <3>1. Len(g) \in Nat /\ DOMAIN g = 1 .. Len(g)
        BY <1>0
      <3> QED BY <3>1, <2>2
    <2>6. Unicas(h)
      <3> SUFFICES ASSUME NEW a \in DOMAIN h, NEW b \in DOMAIN h, h[a].ruta = h[b].ruta
                   PROVE  a = b
        BY DEF Unicas
      <3>1. CASE a \in DOMAIN g /\ b \in DOMAIN g
        BY <3>1, <2>4, <1>0 DEF Unicas
      <3>2. CASE a = m /\ b = m
        BY <3>2
      <3>3. CASE a \in DOMAIN g /\ b = m
        BY <3>3, <2>1, <2>3, <2>4
      <3>4. CASE a = m /\ b \in DOMAIN g
        BY <3>4, <2>1, <2>3, <2>4
      <3> QED BY <3>1, <3>2, <3>3, <3>4, <2>4
    <2>7. m \in 1 .. Cardinality(Rutas)
      <3>1. Len(h) <= Cardinality(Rutas) /\ Cardinality(Rutas) \in Nat
        BY <2>4, <2>6, LargoDeGlobal
      <3>2. m \in 1 .. Len(h) /\ Len(h) \in Nat
        BY <2>4
      <3> QED BY <3>1, <3>2
    <2>8. Instanciada(g, h, m, ruta)
      BY <2>3, <2>4, <2>5, <2>6, <2>7 DEF Instanciada
    <2> QED BY <2>8, <1>g, <1>h, <1>m
  <1> QED BY <1>2, <1>3

\* The state s with the global table h, and the file of its entry m being opened
LEMMA AbrirBien ==
  ASSUME NEW s, NEW n, Bien(s, Nada, n), NEW h, NEW m, NEW ruta, Instanciada(s.global, h, m, ruta),
         NEW ab, ab # Nada, ab.referencia = m, ab.ruta = ruta,
         NEW r \in Estados, r.tablas = s.tablas, r.global = h, r.rarezas = s.rarezas
  PROVE  Bien(r, ab, n)
  <1>g. PICK g : g = s.global
    OBVIOUS
  <1>ts. PICK ts : ts = s.tablas
    OBVIOUS
  <1>0. /\ h \in Seq(Entrada) /\ Unicas(h) /\ m \in DOMAIN h /\ h[m].ruta = ruta
        /\ \A j \in DOMAIN g : j \in DOMAIN h /\ h[j].ruta = g[j].ruta
        /\ \A j \in DOMAIN h : j # m => j \in DOMAIN g /\ h[j] = g[j]
        /\ m \in DOMAIN g => h[m].instancias = g[m].instancias + 1
        /\ m \notin DOMAIN g => h[m].instancias = 1
    BY <1>g DEF Instanciada
  <1>1. TablasBien(ts, n) /\ g \in Seq(Entrada)
    BY <1>g, <1>ts DEF Bien, Estados
  <1>2. ASSUME "desplazada" \notin s.rarezas
        PROVE  Fieles(ts, h) /\ AbriendoFiel(ab, h) /\ Contadas(ts, h, ab, "fuga" \in s.rarezas)
    <2>1. Fieles(ts, g) /\ Contadas(ts, g, Nada, "fuga" \in s.rarezas)
      BY <1>2, <1>g, <1>ts DEF Bien
    <2>2. Fieles(ts, h)
      BY <2>1, <1>0 DEF Fieles
    <2>3. AbriendoFiel(ab, h)
      BY <1>0 DEF AbriendoFiel
    <2>4. ASSUME NEW j \in DOMAIN h
          PROVE  /\ Cardinality(Nominas(ts, j)) + UnoSi(ab, j) <= h[j].instancias
                 /\ "fuga" \notin s.rarezas =>
                      Cardinality(Nominas(ts, j)) + UnoSi(ab, j) = h[j].instancias
      <3>c. PICK c : c = Cardinality(Nominas(ts, j))
        OBVIOUS
      <3>0. c \in Nat
        BY <3>c, NominasFinitas
      <3>1. CASE j # m
        <4>1. UnoSi(ab, j) = UnoSi(Nada, j) /\ j \in DOMAIN g /\ h[j] = g[j]
          BY <3>1, <1>0 DEF UnoSi
        <4> QED BY <4>1, <2>1 DEF Contadas
      <3>2. CASE j = m /\ m \in DOMAIN g
        <4>1. UnoSi(ab, j) = 1 /\ UnoSi(Nada, j) = 0 /\ h[j].instancias = g[j].instancias + 1
          BY <3>2, <1>0 DEF UnoSi
        <4>2. /\ c + UnoSi(Nada, j) <= g[j].instancias
              /\ "fuga" \notin s.rarezas => c + UnoSi(Nada, j) = g[j].instancias
          BY <3>2, <3>c, <2>1 DEF Contadas
        <4>x. PICK x : x = g[j].instancias
          OBVIOUS
        <4>3. x \in Nat
          <5>1. g[j] \in Entrada
            BY <3>2, <1>1, ElementoDe
          <5> QED BY <5>1, <4>x DEF Entrada
        <4>4. /\ c + 1 <= x + 1
              /\ "fuga" \notin s.rarezas => c + 1 = x + 1
          BY <4>1, <4>2, <4>3, <4>x, <3>0
        <4> QED BY <4>1, <4>4, <4>x, <3>c
      <3>3. CASE j = m /\ m \notin DOMAIN g
        <4>1. Nominas(ts, j) = {}
          <5> SUFFICES ASSUME NEW y \in Nominas(ts, j)
                       PROVE  FALSE
            OBVIOUS
          <5>t. PICK t \in DOMAIN ts : \E k \in DOMAIN ts[t].lista_de_archivos :
                  ts[t].lista_de_archivos[k].referencia = j
            BY DEF Nominas
          <5>k. PICK k \in DOMAIN ts[t].lista_de_archivos :
                  ts[t].lista_de_archivos[k].referencia = j
            BY <5>t
          <5> QED BY <5>k, <2>1, <3>3 DEF Fieles
        <4>2. c = 0
          BY <4>1, <3>c, FS_EmptySet
        <4>3. UnoSi(ab, j) = 1 /\ h[j].instancias = 1
          BY <3>3, <1>0 DEF UnoSi
        <4> QED BY <4>2, <4>3, <3>c
      <3> QED BY <3>1, <3>2, <3>3
    <2>5. Contadas(ts, h, ab, "fuga" \in s.rarezas)
      BY <2>4 DEF Contadas
    <2> QED BY <2>2, <2>3, <2>5
  <1> QED BY <1>0, <1>1, <1>2, <1>ts DEF Bien

LEMMA PasoAbrir ==
  ASSUME AInv, NEW p \in Pids, NEW ruta \in Rutas, NEW flags \in Permisos,
         execute_open(p, ruta, flags)
  PROVE  Sano'
  <1>1. ~caido /\ abriendo = Nada /\ pid' = pid
    BY DEF execute_open, Atiende
  <1>2. CASE Aborta(Estado, p) /\ enDisco' = enDisco /\ abriendo' = abriendo
    BY <1>1, <1>2, AbortarSano
  <1>3. CASE /\ enDisco' = enDisco \cup {ruta}
             /\ abriendo' = [pid |-> p, ruta |-> ruta, referencia |-> EnGlobal(ruta)[2],
                             flags |-> flags]
             /\ tabla_global_de_archivos' = EnGlobal(ruta)[1]
             /\ ultimo' = SinPedido
             /\ UNCHANGED <<vivos, activos, tabla_de_archivos_por_proceso, caido, rarezas>>
    <2>h. PICK h : h = EnGlobal(ruta)[1]
      OBVIOUS
    <2>m. PICK m : m = EnGlobal(ruta)[2]
      OBVIOUS
    <2>ab. PICK ab : ab = [pid |-> p, ruta |-> ruta, referencia |-> m, flags |-> flags]
      OBVIOUS
    <2>1. Bien(Estado, Nada, pid) /\ Estado \in Estados
      BY <1>1, Partida DEF Bien
    <2>2. Instanciada(tabla_global_de_archivos, h, m, ruta)
      BY <1>1, <2>h, <2>m, Partida, EnGlobalBien
    <2>3. ab \in Apertura /\ ab # Nada /\ ab.referencia = m /\ ab.ruta = ruta
      <3>1. m \in 1 .. Cardinality(Rutas)
        BY <2>2 DEF Instanciada
      <3>2. ab \in Apertura
        BY <3>1, <2>ab DEF Apertura
      <3> QED BY <3>2, <2>ab, ArchivosAssumption
    <2>r. PICK r : r = [Estado EXCEPT !.global = h]
      OBVIOUS
    <2>4. /\ r \in Estados /\ r.tablas = Estado.tablas /\ r.global = h /\ r.caido = Estado.caido
          /\ r.rarezas = Estado.rarezas
      BY <2>1, <2>2, <2>r DEF Instanciada, Estados
    <2>5. Bien(r, ab, pid)
      <3>1. Instanciada(Estado.global, h, m, ruta)
        BY <2>2, ElEstado
      <3> QED BY <3>1, <2>1, <2>3, <2>4, AbrirBien
    <2>6. abriendo' = ab /\ Queda(r)
      BY <1>3, <2>4, <2>h, <2>m, <2>ab, ElEstado DEF Queda
    <2>7. r.caido = FALSE /\ r.rarezas = rarezas /\ r.tablas = tabla_de_archivos_por_proceso
      BY <1>1, <2>4, Partida, ElEstado
    <2>8. "tabla ajena" \notin rarezas => vivos = PidsDe(tabla_de_archivos_por_proceso)
      BY <1>1, Partida, CadaUnoEs DEF AInv
    <2>9. Resto'
      BY <1>1, <1>3, <2>3, <2>6, SinPedidoEs DEF AInv, Resto, Pedidos
    <2>10. Bien(r, abriendo', pid')
      BY <2>5, <2>6, <1>1
    <2>11. ultimo' = SinPedido /\ vivos' = vivos
      BY <1>3
    <2> QED BY <2>6, <2>7, <2>8, <2>9, <2>10, <2>11, PasoSano
  <1>4. \/ Aborta(Estado, p) /\ enDisco' = enDisco /\ abriendo' = abriendo
        \/ /\ enDisco' = enDisco \cup {ruta}
           /\ abriendo' = [pid |-> p, ruta |-> ruta, referencia |-> EnGlobal(ruta)[2],
                           flags |-> flags]
           /\ tabla_global_de_archivos' = EnGlobal(ruta)[1]
           /\ ultimo' = SinPedido
           /\ UNCHANGED <<vivos, activos, tabla_de_archivos_por_proceso, caido, rarezas>>
    BY DEF execute_open
  <1> QED BY <1>2, <1>3, <1>4

-----------------------------------------------------------------------------
(* The descriptor of a file that is opened *)

LEMMA ListaConDescriptor ==
  ASSUME NEW x \in TablaDeProceso, ListaBien(x), NEW d \in Descriptor, d.fd = x.current_fd + 1,
         NEW y, y = MasDescriptor(x, d)
  PROVE  /\ y \in TablaDeProceso /\ y.pid = x.pid /\ ListaBien(y)
         /\ \A k \in DOMAIN x.lista_de_archivos : x.lista_de_archivos[k].fd # d.fd
         /\ \A k \in DOMAIN y.lista_de_archivos :
              \/ k \in DOMAIN x.lista_de_archivos /\ y.lista_de_archivos[k] = x.lista_de_archivos[k]
              \/ y.lista_de_archivos[k] = d
         /\ \A k \in DOMAIN x.lista_de_archivos :
              k \in DOMAIN y.lista_de_archivos /\ y.lista_de_archivos[k] = x.lista_de_archivos[k]
         /\ \E k \in DOMAIN y.lista_de_archivos : y.lista_de_archivos[k] = d
  <1>l. PICK l : l = x.lista_de_archivos
    OBVIOUS
  <1>c. PICK c : c = x.current_fd
    OBVIOUS
  <1>m. PICK m : m = Append(l, d)
    OBVIOUS
  <1>n. PICK n : n = Len(l)
    OBVIOUS
  <1>0. l \in Seq(Descriptor) /\ c \in Nat /\ n \in Nat /\ d.fd = c + 1 /\ DOMAIN l = 1 .. n
    BY <1>l, <1>c, <1>n, ArchivosAssumption DEF TablaDeProceso, Fds, FD_INICIAL_ARCHIVOS
  <1>1. /\ n + FD_INICIAL_ARCHIVOS <= c /\ \A k \in DOMAIN l : l[k].fd <= c
        /\ \A j, k \in DOMAIN l : l[j].fd = l[k].fd => j = k
    BY <1>l, <1>c, <1>n DEF ListaBien
  <1>2. /\ m \in Seq(Descriptor) /\ DOMAIN m = 1 .. n + 1
        /\ \A j \in DOMAIN m : \/ j \in DOMAIN l /\ m[j] = l[j]
                               \/ j = n + 1 /\ m[j] = d
        /\ \A j \in DOMAIN l : j \in DOMAIN m /\ m[j] = l[j]
        /\ n + 1 \in DOMAIN m /\ m[n + 1] = d
    BY <1>0, <1>m, <1>n, Agregar
  <1>3. y = [x EXCEPT !.current_fd = d.fd, !.lista_de_archivos = m]
    BY <1>l, <1>m DEF MasDescriptor
  <1>4. /\ y \in TablaDeProceso /\ y.pid = x.pid /\ y.current_fd = c + 1
        /\ y.lista_de_archivos = m
    <2>1. d.fd \in Fds
      BY DEF Descriptor
    <2> QED BY <2>1, <1>0, <1>2, <1>3 DEF TablaDeProceso
  <1>5. \A k \in DOMAIN l : l[k].fd \in Nat /\ l[k].fd <= c + 1 /\ l[k].fd # d.fd
    <2> SUFFICES ASSUME NEW k \in DOMAIN l
                 PROVE  l[k].fd \in Nat /\ l[k].fd <= c + 1 /\ l[k].fd # d.fd
      OBVIOUS
    <2>1. l[k] \in Descriptor
      BY <1>0, ElementoDe
    <2>f. PICK f : f = l[k].fd
      OBVIOUS
    <2>2. f \in Nat
      BY <2>1, <2>f, ArchivosAssumption DEF Descriptor, Fds, FD_INICIAL_ARCHIVOS
    <2>3. f <= c
      BY <1>1, <2>f
    <2> QED BY <2>2, <2>3, <2>f, <1>0
  <1>6. ListaBien(y)
    <2>1. Len(m) + FD_INICIAL_ARCHIVOS <= c + 1
      <3>1. Len(m) = n + 1
        BY <1>0, <1>2
      <3>2. \A a, b \in Nat : a + FD_INICIAL_ARCHIVOS <= b => (a + 1) + FD_INICIAL_ARCHIVOS <= b + 1
        BY DEF FD_INICIAL_ARCHIVOS
      <3> QED BY <3>1, <3>2, <1>0, <1>1
    <2>2. \A k \in DOMAIN m : m[k].fd <= c + 1
      BY <1>0, <1>2, <1>5
    <2>3. ASSUME NEW j \in DOMAIN m, NEW k \in DOMAIN m, m[j].fd = m[k].fd
          PROVE  j = k
      <3>1. CASE j \in DOMAIN l /\ k \in DOMAIN l
        BY <3>1, <2>3, <1>1, <1>2
      <3>2. CASE j = n + 1 /\ k = n + 1
        BY <3>2
      <3>3. CASE j \in DOMAIN l /\ m[j] = l[j] /\ m[k] = d
        BY <3>3, <2>3, <1>5
      <3>4. CASE k \in DOMAIN l /\ m[k] = l[k] /\ m[j] = d
        BY <3>4, <2>3, <1>5
      <3> QED BY <3>1, <3>2, <3>3, <3>4, <1>2
    <2> QED BY <2>1, <2>2, <2>3, <1>4 DEF ListaBien
  <1> QED BY <1>2, <1>4, <1>5, <1>6, <1>l

\* The tables us are ts with the descriptor d, of name x, which names the entry e.
Puesto(ts, us, n, x, e) ==
  /\ us \in Seq(TablaDeProceso) /\ TablasBien(us, n) /\ PidsDe(us) = PidsDe(ts)
  /\ \A i : i # e => Nominas(us, i) = Nominas(ts, i)
  /\ Nominas(us, e) = Nominas(ts, e) \cup {x} /\ x \notin Nominas(ts, e)

LEMMA Poner ==
  ASSUME NEW ts \in Seq(TablaDeProceso), NEW n, TablasBien(ts, n), NEW t \in DOMAIN ts,
         NEW d \in Descriptor, d.fd = ts[t].current_fd + 1
  PROVE  /\ Puesto(ts, ConDescriptor(ts, t, d), n, <<ts[t].pid, d.fd>>, d.referencia)
         /\ \A g : /\ Fieles(ts, g)
                   /\ d.referencia \in DOMAIN g /\ g[d.referencia].ruta = d.ruta
                   => Fieles(ConDescriptor(ts, t, d), g)
  <1>x. PICK x : x = ts[t]
    OBVIOUS
  <1>y. PICK y : y = MasDescriptor(x, d)
    OBVIOUS
  <1>us. PICK us : us = ConDescriptor(ts, t, d)
    OBVIOUS
  <1>p. PICK p : p = ts[t].pid
    OBVIOUS
  <1>0. x \in TablaDeProceso /\ ListaBien(x) /\ p \in Pids /\ d.fd \in Fds /\ x.pid = p
    BY <1>x, <1>p, DeLaLista DEF TablasBien, Descriptor
  <1>1. /\ y \in TablaDeProceso /\ y.pid = x.pid /\ ListaBien(y)
        /\ \A k \in DOMAIN x.lista_de_archivos : x.lista_de_archivos[k].fd # d.fd
        /\ \A k \in DOMAIN y.lista_de_archivos :
              \/ k \in DOMAIN x.lista_de_archivos /\ y.lista_de_archivos[k] = x.lista_de_archivos[k]
              \/ y.lista_de_archivos[k] = d
        /\ \A k \in DOMAIN x.lista_de_archivos :
              k \in DOMAIN y.lista_de_archivos /\ y.lista_de_archivos[k] = x.lista_de_archivos[k]
        /\ \E k \in DOMAIN y.lista_de_archivos : y.lista_de_archivos[k] = d
    <2>1. d.fd = x.current_fd + 1
      BY <1>x
    <2> QED BY <2>1, <1>0, <1>y, ListaConDescriptor
  <1>2. us = [ts EXCEPT ![t] = y]
    BY <1>x, <1>y, <1>us DEF ConDescriptor
  <1>3. /\ us \in Seq(TablaDeProceso) /\ DOMAIN us = DOMAIN ts /\ us[t] = y
        /\ \A u \in DOMAIN ts : u # t => us[u] = ts[u]
    BY <1>1, <1>2
  <1>4. \A u \in DOMAIN ts : us[u].pid = ts[u].pid
    BY <1>1, <1>3, <1>x
  <1>5. TablasBien(us, n)
    <2>1. ASSUME NEW u \in DOMAIN us
          PROVE  us[u].pid <= n /\ ListaBien(us[u])
      BY <1>1, <1>3, <1>4 DEF TablasBien
    <2>2. \A u, v \in DOMAIN us : us[u].pid = us[v].pid => u = v
      BY <1>3, <1>4 DEF TablasBien
    <2> QED BY <2>1, <2>2 DEF TablasBien
  <1>6. PidsDe(us) = PidsDe(ts)
    BY <1>3, <1>4 DEF PidsDe
  \* Where a name of us comes from
  <1>7. ASSUME NEW i, NEW z \in Nominas(us, i)
        PROVE  z \in Nominas(ts, i) \/ (z = <<p, d.fd>> /\ i = d.referencia)
    <2>u. PICK u \in DOMAIN us : \E k \in DOMAIN us[u].lista_de_archivos :
             /\ z = <<us[u].pid, us[u].lista_de_archivos[k].fd>>
             /\ us[u].lista_de_archivos[k].referencia = i
      BY DEF Nominas
    <2>k. PICK k \in DOMAIN us[u].lista_de_archivos :
             /\ z = <<us[u].pid, us[u].lista_de_archivos[k].fd>>
             /\ us[u].lista_de_archivos[k].referencia = i
      BY <2>u
    <2>0. z \in Pids \X Fds /\ u \in DOMAIN ts
      BY <1>3 DEF Nominas
    <2>1. CASE k \in DOMAIN ts[u].lista_de_archivos
                 /\ us[u].lista_de_archivos[k] = ts[u].lista_de_archivos[k]
      <3>1. /\ z = <<ts[u].pid, ts[u].lista_de_archivos[k].fd>>
            /\ ts[u].lista_de_archivos[k].referencia = i
        BY <2>k, <2>1, <2>0, <1>4
      <3> QED BY <3>1, <2>0, <2>1 DEF Nominas
    <2>2. CASE u = t /\ us[u].lista_de_archivos[k] = d
      BY <2>2, <2>k, <2>0, <1>4, <1>p
    <2> QED BY <2>1, <2>2, <2>0, <1>1, <1>3, <1>x
  \* and where one of ts stays
  <1>8. ASSUME NEW i, NEW z \in Nominas(ts, i)
        PROVE  z \in Nominas(us, i)
    <2>u. PICK u \in DOMAIN ts : \E k \in DOMAIN ts[u].lista_de_archivos :
             /\ z = <<ts[u].pid, ts[u].lista_de_archivos[k].fd>>
             /\ ts[u].lista_de_archivos[k].referencia = i
      BY DEF Nominas
    <2>k. PICK k \in DOMAIN ts[u].lista_de_archivos :
             /\ z = <<ts[u].pid, ts[u].lista_de_archivos[k].fd>>
             /\ ts[u].lista_de_archivos[k].referencia = i
      BY <2>u
    <2>0. z \in Pids \X Fds /\ u \in DOMAIN us
      BY <1>3 DEF Nominas
    <2>1. k \in DOMAIN us[u].lista_de_archivos /\ us[u].lista_de_archivos[k] = ts[u].lista_de_archivos[k]
      BY <1>1, <1>3, <1>x
    <2>2. /\ z = <<us[u].pid, us[u].lista_de_archivos[k].fd>>
          /\ us[u].lista_de_archivos[k].referencia = i
      BY <2>1, <2>k, <1>4
    <2> QED BY <2>0, <2>1, <2>2 DEF Nominas
  <1>9. <<p, d.fd>> \in Nominas(us, d.referencia)
    <2>1. PICK k \in DOMAIN us[t].lista_de_archivos : us[t].lista_de_archivos[k] = d
      BY <1>1, <1>3
    <2>2. /\ <<p, d.fd>> = <<us[t].pid, us[t].lista_de_archivos[k].fd>>
          /\ us[t].lista_de_archivos[k].referencia = d.referencia
      BY <2>1, <1>4, <1>p
    <2>3. <<p, d.fd>> \in Pids \X Fds /\ t \in DOMAIN us
      BY <1>0, <1>3
    <2> QED BY <2>2, <2>3 DEF Nominas
  <1>10. <<p, d.fd>> \notin Nominas(ts, d.referencia)
    <2> SUFFICES ASSUME <<p, d.fd>> \in Nominas(ts, d.referencia)
                 PROVE  FALSE
      OBVIOUS
    <2>1. PICK u \in DOMAIN ts : \E k \in DOMAIN ts[u].lista_de_archivos :
             <<p, d.fd>> = <<ts[u].pid, ts[u].lista_de_archivos[k].fd>>
      BY DEF Nominas
    <2>2. u = t
      BY <2>1, <1>p DEF TablasBien
    <2> QED BY <2>1, <2>2, <1>1, <1>x
  <1>11. ASSUME NEW i, i # d.referencia
         PROVE  Nominas(us, i) = Nominas(ts, i)
    <2>1. \A z : z \in Nominas(us, i) => z \in Nominas(ts, i)
      BY <1>7, <1>11
    <2>2. \A z : z \in Nominas(ts, i) => z \in Nominas(us, i)
      BY <1>8
    <2> QED BY <2>1, <2>2
  <1>12. Nominas(us, d.referencia) = Nominas(ts, d.referencia) \cup {<<p, d.fd>>}
    BY <1>7, <1>8, <1>9
  <1>13. ASSUME NEW g, Fieles(ts, g), d.referencia \in DOMAIN g, g[d.referencia].ruta = d.ruta
         PROVE  Fieles(us, g)
    <2> SUFFICES ASSUME NEW u \in DOMAIN us, NEW k \in DOMAIN us[u].lista_de_archivos,
                        NEW f, f = us[u].lista_de_archivos[k]
                 PROVE  f.referencia \in DOMAIN g /\ g[f.referencia].ruta = f.ruta
      BY DEF Fieles
    <2>1. CASE k \in DOMAIN ts[u].lista_de_archivos /\ f = ts[u].lista_de_archivos[k]
      BY <2>1, <1>3, <1>13 DEF Fieles
    <2>2. CASE f = d
      BY <2>2, <1>13
    <2> QED BY <2>1, <2>2, <1>1, <1>3, <1>x
  <1>14. Puesto(ts, us, n, <<p, d.fd>>, d.referencia)
    BY <1>3, <1>5, <1>6, <1>10, <1>11, <1>12 DEF Puesto
  <1> QED BY <1>13, <1>14, <1>p, <1>us

LEMMA SumaCero ==
  ASSUME NEW c \in Nat
  PROVE  (c + 1) + 0 = c + 1
  OBVIOUS

\* The state s with the descriptor d, of the file that was being opened
Registra(s, r, ab, t, d) ==
  /\ t \in DOMAIN s.tablas /\ d \in Descriptor /\ d.fd = s.tablas[t].current_fd + 1
  /\ ab # Nada /\ d.referencia = ab.referencia /\ d.ruta = ab.ruta
  /\ r \in Estados /\ r.tablas = ConDescriptor(s.tablas, t, d) /\ r.global = s.global
  /\ s.rarezas \subseteq r.rarezas
  /\ r.rarezas \subseteq s.rarezas \cup {"tabla de otro"}

LEMMA RegistrarBien ==
  ASSUME NEW s, NEW ab, NEW n, Bien(s, ab, n), NEW r, NEW t, NEW d, Registra(s, r, ab, t, d)
  PROVE  Bien(r, Nada, n) /\ PidsDe(r.tablas) = PidsDe(s.tablas)
  <1> USE DEF Registra
  <1>g. PICK g : g = s.global
    OBVIOUS
  <1>ts. PICK ts : ts = s.tablas
    OBVIOUS
  <1>us. PICK us : us = ConDescriptor(ts, t, d)
    OBVIOUS
  <1>e. PICK e : e = d.referencia
    OBVIOUS
  <1>x. PICK x : x = <<ts[t].pid, d.fd>>
    OBVIOUS
  <1>1. /\ TablasBien(ts, n) /\ ts \in Seq(TablaDeProceso) /\ g \in Seq(Entrada) /\ Unicas(g)
        /\ t \in DOMAIN ts /\ d.fd = ts[t].current_fd + 1
    BY <1>g, <1>ts DEF Bien, Estados
  <1>2. /\ Puesto(ts, us, n, x, e)
        /\ \A h : Fieles(ts, h) /\ d.referencia \in DOMAIN h /\ h[d.referencia].ruta = d.ruta
                  => Fieles(us, h)
    BY <1>1, <1>us, <1>e, <1>x, Poner
  <1>3. /\ us \in Seq(TablaDeProceso) /\ TablasBien(us, n) /\ PidsDe(us) = PidsDe(ts)
        /\ \A i : i # e => Nominas(us, i) = Nominas(ts, i)
        /\ Nominas(us, e) = Nominas(ts, e) \cup {x} /\ x \notin Nominas(ts, e)
    BY <1>2 DEF Puesto
  <1>4. Cardinality(Nominas(us, e)) = Cardinality(Nominas(ts, e)) + 1
    <2>1. IsFiniteSet(Nominas(ts, e))
      BY NominasFinitas
    <2>2. Cardinality(Nominas(ts, e) \cup {x}) = Cardinality(Nominas(ts, e)) + 1
      BY <1>3, <2>1, FS_AddElement
    <2> QED BY <1>3, <2>2
  <1>5. r.tablas = us
    BY <1>ts, <1>us
  <1>6. ("desplazada" \in r.rarezas <=> "desplazada" \in s.rarezas)
        /\ ("fuga" \in r.rarezas <=> "fuga" \in s.rarezas)
    OBVIOUS
  <1>7. ASSUME "desplazada" \notin s.rarezas
        PROVE  Fieles(us, g) /\ AbriendoFiel(Nada, g) /\ Contadas(us, g, Nada, "fuga" \in s.rarezas)
    <2>1. Fieles(ts, g) /\ AbriendoFiel(ab, g) /\ Contadas(ts, g, ab, "fuga" \in s.rarezas)
      BY <1>7, <1>g, <1>ts DEF Bien
    <2>2. e \in DOMAIN g /\ g[e].ruta = d.ruta
      BY <2>1, <1>e DEF AbriendoFiel
    <2>3. Fieles(us, g)
      BY <2>1, <2>2, <1>2, <1>e
    <2>4. AbriendoFiel(Nada, g)
      BY DEF AbriendoFiel
    <2>5. ASSUME NEW j \in DOMAIN g
          PROVE  Cardinality(Nominas(us, j)) + UnoSi(Nada, j)
                   = Cardinality(Nominas(ts, j)) + UnoSi(ab, j)
      <3>0. Cardinality(Nominas(ts, j)) \in Nat
        BY NominasFinitas
      <3>1. CASE j = e
        <4>1. UnoSi(Nada, j) = 0 /\ UnoSi(ab, j) = 1
          BY <3>1, <1>e DEF UnoSi
        <4>2. Cardinality(Nominas(us, j)) = Cardinality(Nominas(ts, j)) + 1
          BY <3>1, <1>4
        <4>c. PICK c : c = Cardinality(Nominas(ts, j))
          OBVIOUS
        <4>5. c \in Nat
          BY <4>c, <3>0
        <4>3. (c + 1) + 0 = c + 1
          BY <4>5, SumaCero
        <4>4. Cardinality(Nominas(us, j)) = c + 1
          BY <4>2, <4>c
        <4> QED BY <4>1, <4>3, <4>4, <4>5, <4>c
      <3>2. CASE j # e
        <4>1. UnoSi(Nada, j) = 0 /\ UnoSi(ab, j) = 0
          BY <3>2, <1>e DEF UnoSi
        <4>2. Nominas(us, j) = Nominas(ts, j)
          BY <3>2, <1>3
        <4> QED BY <4>1, <4>2
      <3> QED BY <3>1, <3>2
    <2>6. Contadas(us, g, Nada, "fuga" \in s.rarezas)
      BY <2>1, <2>5 DEF Contadas
    <2> QED BY <2>3, <2>4, <2>6
  <1>8. Bien(r, Nada, n)
    <2>1. "desplazada" \notin r.rarezas =>
            Fieles(us, g) /\ AbriendoFiel(Nada, g) /\ Contadas(us, g, Nada, "fuga" \in r.rarezas)
      <3> SUFFICES ASSUME "desplazada" \notin r.rarezas
                   PROVE  /\ Fieles(us, g) /\ AbriendoFiel(Nada, g)
                          /\ Contadas(us, g, Nada, "fuga" \in r.rarezas)
        OBVIOUS
      <3>1. Fieles(us, g) /\ AbriendoFiel(Nada, g) /\ Contadas(us, g, Nada, "fuga" \in s.rarezas)
        BY <1>6, <1>7
      <3>2. Contadas(us, g, Nada, "fuga" \in r.rarezas)
        BY <3>1, <1>6 DEF Contadas
      <3> QED BY <3>1, <3>2
    <2> QED BY <2>1, <1>1, <1>3, <1>5, <1>g DEF Bien
  <1> QED BY <1>3, <1>5, <1>8, <1>ts

LEMMA PasoRegistrar ==
  ASSUME AInv, RegistrarApertura
  PROVE  Sano'
  <1>1. ~caido /\ abriendo # Nada /\ abriendo' = Nada /\ pid' = pid /\ enDisco' = enDisco
    BY DEF RegistrarApertura
  <1>2. abriendo \in Apertura
    BY <1>1 DEF AInv, Resto
  <1>p. PICK p : p = abriendo.pid
    OBVIOUS
  <1>3. p \in Pids /\ abriendo.ruta \in Rutas /\ abriendo.flags \in Permisos
        /\ abriendo.referencia \in 1 .. Cardinality(Rutas)
    BY <1>2, <1>p DEF Apertura
  <1>ts. PICK ts : ts = tabla_de_archivos_por_proceso
    OBVIOUS
  <1>4. PICK t \in TablasPosibles(p) :
          IF t = 0 THEN Muere("abrir", p, 0)
          ELSE LET fd == ts[t].current_fd + 1
                   d == [fd |-> fd, flags |-> abriendo.flags, offset |-> 0,
                         referencia |-> abriendo.referencia, ruta |-> abriendo.ruta]
                   s == [Estado EXCEPT !.tablas = ConDescriptor(@, t, d),
                                       !.rarezas = IF ts[t].pid = p THEN @
                                                   ELSE @ \cup {"tabla de otro"}]
               IN  fd \in Fds /\ Contesta(s, SinPedido)
    BY <1>p, <1>ts DEF RegistrarApertura, tablas
  <1>5. CASE t = 0
    <2>1. Muere("abrir", p, 0) /\ Perdido("abrir", p, 0) /\ 0 \in Fds
      BY <1>4, <1>5, LaTabla, ArchivosAssumption DEF Perdido, Fds, FD_INICIAL_ARCHIVOS
    <2> QED BY <2>1, <1>1, <1>3, MuereSano
  <1>6. CASE t # 0
    <2>fd. PICK fd : fd = ts[t].current_fd + 1
      OBVIOUS
    <2>d. PICK d : d = [fd |-> fd, flags |-> abriendo.flags, offset |-> 0,
                        referencia |-> abriendo.referencia, ruta |-> abriendo.ruta]
      OBVIOUS
    <2>w. PICK w : w = IF ts[t].pid = p THEN rarezas ELSE rarezas \cup {"tabla de otro"}
      OBVIOUS
    <2>us. PICK us : us = ConDescriptor(ts, t, d)
      OBVIOUS
    <2>r. PICK r : r = [Estado EXCEPT !.tablas = us, !.rarezas = w]
      OBVIOUS
    <2>1. t \in DOMAIN ts /\ ts \in Seq(TablaDeProceso) /\ TablasBien(ts, pid)
          /\ Bien(Estado, abriendo, pid) /\ rarezas \in SUBSET LasRarezas
      <3>1. /\ ts \in Seq(TablaDeProceso) /\ TablasBien(ts, pid)
            /\ Bien(Estado, abriendo, pid) /\ rarezas \in SUBSET LasRarezas
        BY <1>1, <1>ts, Partida
      <3>2. TablaDe(ts, p) = 0 \/ TablaDe(ts, p) \in DOMAIN ts
        BY <3>1, TablaHallada
      <3> QED BY <3>1, <3>2, <1>6, <1>ts DEF TablasPosibles, tablas
    <2>e. PICK s : s = [Estado EXCEPT !.tablas = ConDescriptor(@, t, d),
                                      !.rarezas = IF ts[t].pid = p THEN @
                                                  ELSE @ \cup {"tabla de otro"}]
      OBVIOUS
    <2>2. fd \in Fds /\ Contesta(s, SinPedido)
      BY <1>4, <1>6, <2>fd, <2>d, <2>e
    <2>3. /\ d \in Descriptor /\ d.fd = fd /\ d.referencia = abriendo.referencia
          /\ d.ruta = abriendo.ruta
      BY <2>2, <2>d, <1>3 DEF Descriptor
    <2>4. s = r
      <3>1. Estado.tablas = ts /\ Estado.rarezas = rarezas /\ Estado \in Estados
        BY <2>1, <1>ts, ElEstado DEF Bien
      <3> QED BY <3>1, <2>w, <2>r, <2>us, <2>e
    <2>5. us \in Seq(TablaDeProceso)
      <3>1. d.fd = ts[t].current_fd + 1
        BY <2>3, <2>fd
      <3>2. Puesto(ts, ConDescriptor(ts, t, d), pid, <<ts[t].pid, d.fd>>, d.referencia)
        BY <3>1, <2>1, <2>3, Poner
      <3> QED BY <3>2, <2>us DEF Puesto
    <2>6. /\ r \in Estados /\ r.tablas = us /\ r.global = Estado.global
          /\ r.caido = Estado.caido /\ r.rarezas = w
      <3>1. w \in SUBSET LasRarezas /\ Estado \in Estados
        BY <2>1, <2>w DEF LasRarezas, Bien
      <3> QED BY <3>1, <2>5, <2>r DEF Estados
    <2>7. Bien(r, Nada, pid) /\ PidsDe(r.tablas) = PidsDe(ts)
      <3>1. /\ t \in DOMAIN Estado.tablas /\ d.fd = Estado.tablas[t].current_fd + 1
            /\ r.tablas = ConDescriptor(Estado.tablas, t, d)
        BY <2>1, <2>3, <2>6, <2>fd, <2>us, <1>ts, ElEstado
      <3>2. Estado.rarezas \subseteq r.rarezas
            /\ r.rarezas \subseteq Estado.rarezas \cup {"tabla de otro"}
        BY <2>6, <2>w, ElEstado
      <3>a. /\ Bien(Estado, abriendo, pid) /\ abriendo # Nada /\ d \in Descriptor
            /\ d.referencia = abriendo.referencia /\ d.ruta = abriendo.ruta
            /\ r \in Estados /\ r.global = Estado.global
        BY <2>1, <2>3, <2>6, <1>1
      <3>3. Bien(r, Nada, pid) /\ PidsDe(r.tablas) = PidsDe(Estado.tablas)
        <4>1. Registra(Estado, r, abriendo, t, d)
          BY <3>1, <3>2, <3>a DEF Registra
        <4> QED BY <4>1, <3>a, RegistrarBien
      <3> QED BY <3>3, <1>ts, ElEstado
    <2>8. Queda(r) /\ ultimo' = SinPedido /\ vivos' = vivos /\ activos' = activos
      BY <2>2, <2>4 DEF Contesta
    <2>9. r.caido = FALSE /\ ("tabla ajena" \in r.rarezas <=> "tabla ajena" \in rarezas)
      <3>1. Estado.caido = FALSE
        BY <1>1, Partida, ElEstado
      <3>2. "tabla ajena" \in w <=> "tabla ajena" \in rarezas
        BY <2>w
      <3> QED BY <3>1, <3>2, <2>6
    <2>10. "tabla ajena" \notin rarezas => vivos = PidsDe(ts)
      BY <1>1, <1>ts, Partida, CadaUnoEs DEF AInv
    <2>11. Resto'
      BY <1>1, <2>8, SinPedidoEs DEF AInv, Resto, Pedidos
    <2>12. Bien(r, abriendo', pid')
      BY <1>1, <2>7
    <2> QED BY <2>7, <2>8, <2>9, <2>10, <2>11, <2>12, PasoSano
  <1> QED BY <1>5, <1>6

-----------------------------------------------------------------------------
(* Every step *)

LEMMA InicioSano == Init => Sano
  <1> SUFFICES ASSUME Init
               PROVE  Sano
    OBVIOUS
  <1> USE DEF Init
  <1>1. Estado \in Estados /\ Estado.tablas = <<>> /\ Estado.global = <<>>
    <2>1. <<>> \in Seq(TablaDeProceso) /\ <<>> \in Seq(Entrada)
      OBVIOUS
    <2>2. {} \in SUBSET LasRarezas /\ FALSE \in BOOLEAN /\ 0 \in Int
      OBVIOUS
    <2>3. Estado = [tablas |-> <<>>, global |-> <<>>, caido |-> FALSE, rarezas |-> {}, codigo |-> 0]
      BY DEF Estado, tablas, global
    <2>4. [tablas |-> <<>>, global |-> <<>>, caido |-> FALSE, rarezas |-> {}, codigo |-> 0] \in Estados
      BY <2>1, <2>2, EstadoDe, Zenon
    <2> QED BY <2>3, <2>4, ElEstado
  <1>d. DOMAIN <<>> = {}
    OBVIOUS
  <1>2. Bien(Estado, Nada, pid)
    <2>1. Unicas(<<>>) /\ TablasBien(<<>>, pid) /\ Fieles(<<>>, <<>>) /\ AbriendoFiel(Nada, <<>>)
      BY <1>d DEF Unicas, TablasBien, Fieles, AbriendoFiel
    <2>2. Contadas(<<>>, <<>>, Nada, "fuga" \in Estado.rarezas)
      BY <1>d DEF Contadas
    <2> QED BY <1>1, <2>1, <2>2 DEF Bien
  <1>3. Resto
    BY SinPedidoEs, ArchivosAssumption DEF Resto, Pedidos
  <1>4. TablaDeCadaUno
    BY <1>d DEF TablaDeCadaUno, Range, tablas
  <1>5. AInv
    <2>1. Bien(Estado, abriendo, pid)
      BY <1>2
    <2> QED BY <2>1, <1>3, <1>4 DEF AInv
  <1> QED BY <1>5 DEF Sano, PedidoJustificado, KernelEnPie, SinPedido

LEMMA SinCambioSano ==
  ASSUME Sano, UNCHANGED vars
  PROVE  Sano'
  <1> USE DEF vars, tablas, global
  <1>1. Estado' = Estado
    BY DEF Estado
  <1>2. TablaDeCadaUno'
    BY DEF Sano, AInv, TablaDeCadaUno
  <1>3. Resto'
    BY DEF Sano, AInv, Resto
  <1>4. AInv'
    <2>1. PICK ab : Bien(Estado, ab, pid) /\ (~caido \/ abriendo # Nada => ab = abriendo)
      BY DEF Sano, AInv
    <2>2. Bien(Estado', ab, pid') /\ (~caido' \/ abriendo' # Nada => ab = abriendo')
      BY <2>1, <1>1
    <2> QED BY <2>2, <1>2, <1>3 DEF AInv
  <1>5. \A p : DescriptoresDe(p)' = DescriptoresDe(p)
    BY DEF DescriptoresDe
  <1>6. PedidoJustificado'
    BY <1>5 DEF Sano, PedidoJustificado
  <1>7. KernelEnPie'
    BY DEF Sano, KernelEnPie
  <1> QED BY <1>4, <1>6, <1>7 DEF Sano

LEMMA PasoDeTodos ==
  ASSUME Sano, [Next]_vars
  PROVE  Sano'
  <1>0. AInv
    BY DEF Sano
  <1>1. CASE create_PCB
    BY <1>0, <1>1, PasoCrear
  <1>2. CASE RegistrarApertura
    BY <1>0, <1>2, PasoRegistrar
  <1>3. ASSUME NEW p \in Pids, NEW ruta \in Rutas, NEW flags \in Permisos,
               execute_open(p, ruta, flags)
        PROVE  Sano'
    BY <1>0, <1>3, PasoAbrir
  <1>4. ASSUME NEW p \in Pids, NEW fd \in Fds, NEW position \in Posiciones,
               move_cursor(p, fd, position)
        PROVE  Sano'
    BY <1>0, <1>4, PasoMover
  <1>5. ASSUME NEW p \in Pids, NEW fd \in Fds, execute_read(p, fd)
        PROVE  Sano'
    BY <1>0, <1>5, PasoLeer
  <1>6. ASSUME NEW p \in Pids, NEW fd \in Fds, execute_write(p, fd)
        PROVE  Sano'
    BY <1>0, <1>6, PasoEscribir
  <1>7. ASSUME NEW p \in Pids, NEW fd \in Fds, CerrarArchivo(p, fd)
        PROVE  Sano'
    BY <1>0, <1>7, PasoCerrar
  <1>8. ASSUME NEW p \in Pids, NEW fd \in Fds, execute_delete(p, fd)
        PROVE  Sano'
    BY <1>0, <1>8, PasoBorrar
  <1>9. ASSUME NEW p \in Pids, Terminar(p)
        PROVE  Sano'
    BY <1>0, <1>9, PasoTerminar
  <1>10. ASSUME NEW p \in Pids, finish_process(p)
         PROVE  Sano'
    BY <1>0, <1>10, PasoFinish
  <1>11. CASE UNCHANGED vars
    BY <1>11, SinCambioSano
  <1> QED BY <1>1, <1>2, <1>3, <1>4, <1>5, <1>6, <1>7, <1>8, <1>9, <1>10, <1>11 DEF Next

-----------------------------------------------------------------------------
(* What the invariant says *)

LEMMA SonFieles ==
  ASSUME AInv
  PROVE  DescriptorFiel
  <1> SUFFICES ASSUME "desplazada" \notin rarezas
               PROVE  /\ \A p \in Pids : \A d \in DescriptoresDe(p) :
                           d.referencia \in DOMAIN global /\ global[d.referencia].ruta = d.ruta
                      /\ abriendo # Nada =>
                           /\ abriendo.referencia \in DOMAIN global
                           /\ global[abriendo.referencia].ruta = abriendo.ruta
    BY DEF DescriptorFiel
  <1>1. PICK ab : Bien(Estado, ab, pid) /\ (~caido \/ abriendo # Nada => ab = abriendo)
    BY DEF AInv
  <1>2. /\ Fieles(tabla_de_archivos_por_proceso, tabla_global_de_archivos)
        /\ AbriendoFiel(ab, tabla_global_de_archivos)
    BY <1>1, ElEstado DEF Bien
  <1>3. ASSUME NEW p, NEW d \in DescriptoresDe(p)
        PROVE  d.referencia \in DOMAIN global /\ global[d.referencia].ruta = d.ruta
    <2>1. PICK x \in Range(tabla_de_archivos_por_proceso) : d \in Range(x.lista_de_archivos)
      BY DEF DescriptoresDe, tablas
    <2>2. PICK t \in DOMAIN tabla_de_archivos_por_proceso : x = tabla_de_archivos_por_proceso[t]
      BY <2>1 DEF Range
    <2>3. PICK k \in DOMAIN x.lista_de_archivos : d = x.lista_de_archivos[k]
      BY <2>1 DEF Range
    <2> QED BY <1>2, <2>2, <2>3 DEF Fieles, global
  <1>4. abriendo # Nada => /\ abriendo.referencia \in DOMAIN global
                           /\ global[abriendo.referencia].ruta = abriendo.ruta
    BY <1>1, <1>2 DEF AbriendoFiel, global
  <1> QED BY <1>3, <1>4

LEMMA SonContadas ==
  ASSUME AInv
  PROVE  CuentaDeInstancias
  <1> SUFFICES ASSUME "desplazada" \notin rarezas, ~caido, NEW i \in DOMAIN tabla_global_de_archivos
               PROVE  /\ Instancias(i) <= tabla_global_de_archivos[i].instancias
                      /\ "fuga" \notin rarezas =>
                           Instancias(i) = tabla_global_de_archivos[i].instancias
    BY DEF CuentaDeInstancias, global
  <1>1. /\ Contadas(tabla_de_archivos_por_proceso, tabla_global_de_archivos, abriendo,
                    "fuga" \in rarezas)
        /\ TablasBien(tabla_de_archivos_por_proceso, pid)
    BY Partida
  <1>2. Cardinality(Nombres(i)) = Cardinality(Nominas(tabla_de_archivos_por_proceso, i))
    BY <1>1, SonTipos, MismasNominas
  <1>3. Instancias(i) = Cardinality(Nominas(tabla_de_archivos_por_proceso, i)) + UnoSi(abriendo, i)
    BY <1>2 DEF Instancias, UnoSi
  <1> QED BY <1>1, <1>3 DEF Contadas

\* A file that is deleted has one descriptor.
LEMMA UnoLoTiene ==
  ASSUME AInv, ~caido, "desplazada" \notin rarezas, NEW p \in Pids, NEW fd, NEW d, Abierto(p, fd, d),
         tabla_global_de_archivos[d.referencia].instancias = 1
  PROVE  Cardinality({n \in Pids \X UNION {DescriptoresDe(q) : q \in Pids} :
                        n[2] \in DescriptoresDe(n[1])
                        /\ n[2].ruta = tabla_global_de_archivos[d.referencia].ruta}) = 1
  <1>ts. PICK ts : ts = tabla_de_archivos_por_proceso
    OBVIOUS
  <1>g. PICK g : g = tabla_global_de_archivos
    OBVIOUS
  <1>r. PICK ruta : ruta = g[d.referencia].ruta
    OBVIOUS
  <1>e. PICK e : e = d.referencia
    OBVIOUS
  <1>1. /\ ts \in Seq(TablaDeProceso) /\ TablasBien(ts, pid) /\ Unicas(g)
        /\ Fieles(ts, g) /\ Contadas(ts, g, abriendo, "fuga" \in rarezas)
    BY <1>ts, <1>g, Partida
  <1>2. d \in DescriptoresDe(p) /\ d.fd = fd /\ e \in DOMAIN g /\ d.ruta = ruta
    BY <1>g, <1>r, <1>e DEF Abierto
  <1>3. ASSUME NEW q, NEW f \in DescriptoresDe(q)
        PROVE  \E t \in DOMAIN ts : /\ ts[t].pid = q
                                    /\ \E k \in DOMAIN ts[t].lista_de_archivos :
                                         f = ts[t].lista_de_archivos[k]
    <2>1. PICK x \in Range(ts) : x.pid = q /\ f \in Range(x.lista_de_archivos)
      BY <1>ts DEF DescriptoresDe, tablas
    <2>2. PICK t \in DOMAIN ts : x = ts[t]
      BY <2>1 DEF Range
    <2>3. PICK k \in DOMAIN x.lista_de_archivos : f = x.lista_de_archivos[k]
      BY <2>1 DEF Range
    <2> QED BY <2>1, <2>2, <2>3
  <1>4. ASSUME NEW q \in Pids, NEW f \in DescriptoresDe(q), f.referencia = e
        PROVE  <<q, f.fd>> \in Nominas(ts, e)
    <2>1. PICK t \in DOMAIN ts : /\ ts[t].pid = q
                                 /\ \E k \in DOMAIN ts[t].lista_de_archivos :
                                      f = ts[t].lista_de_archivos[k]
      BY <1>3
    <2>2. PICK k \in DOMAIN ts[t].lista_de_archivos : f = ts[t].lista_de_archivos[k]
      BY <2>1
    <2>3. f.fd \in Fds
      BY <2>2, <1>1, DeLaLista
    <2> QED BY <2>1, <2>2, <2>3, <1>4 DEF Nominas
  <1>5. Nominas(ts, e) = {<<p, fd>>}
    <2>1. <<p, fd>> \in Nominas(ts, e)
      BY <1>2, <1>4, <1>e
    <2>2. Cardinality(Nominas(ts, e)) + UnoSi(abriendo, e) <= 1
      BY <1>1, <1>2, <1>g, <1>e DEF Contadas
    <2>c. PICK c : c = Cardinality(Nominas(ts, e))
      OBVIOUS
    <2>3. IsFiniteSet(Nominas(ts, e)) /\ c \in Nat /\ UnoSi(abriendo, e) \in {0, 1}
      BY <2>c, NominasFinitas DEF UnoSi
    <2>4. c <= 1
      BY <2>2, <2>3, <2>c
    <2>5. Cardinality(Nominas(ts, e) \ {<<p, fd>>}) = c - 1
      BY <2>1, <2>3, <2>c, FS_RemoveElement
    <2>6. c - 1 \in Nat
      <3>1. IsFiniteSet(Nominas(ts, e) \ {<<p, fd>>})
        BY <2>1, <2>3, FS_RemoveElement
      <3> QED BY <3>1, <2>5, FS_CardinalityType
    <2>7. c - 1 = 0
      BY <2>3, <2>4, <2>6
    <2>8. Nominas(ts, e) \ {<<p, fd>>} = {}
      <3>1. IsFiniteSet(Nominas(ts, e) \ {<<p, fd>>})
        BY <2>1, <2>3, FS_RemoveElement
      <3> QED BY <3>1, <2>5, <2>7, FS_EmptySet
    <2> QED BY <2>1, <2>8
  <1>6. ASSUME NEW q \in Pids, NEW f \in DescriptoresDe(q), f.ruta = ruta
        PROVE  q = p /\ f = d
    <2>1. PICK t \in DOMAIN ts : /\ ts[t].pid = q
                                 /\ \E k \in DOMAIN ts[t].lista_de_archivos :
                                      f = ts[t].lista_de_archivos[k]
      BY <1>3
    <2>2. PICK k \in DOMAIN ts[t].lista_de_archivos : f = ts[t].lista_de_archivos[k]
      BY <2>1
    <2>3. f.referencia \in DOMAIN g /\ g[f.referencia].ruta = ruta
      BY <2>2, <1>1, <1>6 DEF Fieles
    <2>4. f.referencia = e
      BY <2>3, <1>1, <1>2, <1>r, <1>e DEF Unicas
    <2>5. <<q, f.fd>> = <<p, fd>>
      BY <2>4, <1>4, <1>5
    <2>6. PICK u \in DOMAIN ts : /\ ts[u].pid = p
                                 /\ \E j \in DOMAIN ts[u].lista_de_archivos :
                                      d = ts[u].lista_de_archivos[j]
      BY <1>2, <1>3
    <2>7. PICK j \in DOMAIN ts[u].lista_de_archivos : d = ts[u].lista_de_archivos[j]
      BY <2>6
    <2>8. t = u
      BY <2>1, <2>5, <2>6, <1>1 DEF TablasBien
    <2>9. k = j
      BY <2>2, <2>5, <2>7, <2>8, <1>1, <1>2 DEF TablasBien, ListaBien
    <2> QED BY <2>2, <2>5, <2>7, <2>8, <2>9
  <1> DEFINE S == {n \in Pids \X UNION {DescriptoresDe(q) : q \in Pids} :
                     n[2] \in DescriptoresDe(n[1]) /\ n[2].ruta = ruta}
  <1>7. S = {<<p, d>>}
    <2>1. <<p, d>> \in S
      BY <1>2
    <2>2. ASSUME NEW n \in S
          PROVE  n = <<p, d>>
      <3>1. n[1] \in Pids /\ n[2] \in DescriptoresDe(n[1]) /\ n[2].ruta = ruta /\ n = <<n[1], n[2]>>
        OBVIOUS
      <3>2. n[1] = p /\ n[2] = d
        BY <3>1, <1>6
      <3> QED BY <3>1, <3>2
    <2> HIDE DEF S
    <2> QED BY <2>1, <2>2
  <1>8. Cardinality(S) = 1
    <2> HIDE DEF S
    <2> QED BY <1>7, FS_Singleton
  <1> QED BY <1>8, <1>r, <1>g

LEMMA BorradoDe ==
  ASSUME AInv, [Next]_vars
  PROVE  [\A ruta \in enDisco \ enDisco' : "desplazada" \notin rarezas =>
            Cardinality({n \in Pids \X UNION {DescriptoresDe(q) : q \in Pids} :
                           n[2] \in DescriptoresDe(n[1]) /\ n[2].ruta = ruta}) = 1]_vars
  <1> SUFFICES ASSUME NEW ruta \in enDisco \ enDisco', "desplazada" \notin rarezas
               PROVE  Cardinality({n \in Pids \X UNION {DescriptoresDe(q) : q \in Pids} :
                                     n[2] \in DescriptoresDe(n[1]) /\ n[2].ruta = ruta}) = 1
    OBVIOUS
  <1>1. \E p \in Pids, fd \in Fds : execute_delete(p, fd)
    <2>1. ~(enDisco \subseteq enDisco')
      OBVIOUS
    <2>2. create_PCB => enDisco \subseteq enDisco'
      BY DEF create_PCB
    <2>3. RegistrarApertura => enDisco \subseteq enDisco'
      BY DEF RegistrarApertura
    <2>4. ASSUME NEW p, NEW r, NEW f, execute_open(p, r, f)
          PROVE  enDisco \subseteq enDisco'
      BY <2>4 DEF execute_open
    <2>5. ASSUME NEW p, NEW fd, NEW position, move_cursor(p, fd, position)
          PROVE  enDisco \subseteq enDisco'
      BY <2>5 DEF move_cursor
    <2>6. ASSUME NEW p, NEW fd, execute_read(p, fd)
          PROVE  enDisco \subseteq enDisco'
      BY <2>6 DEF execute_read
    <2>7. ASSUME NEW p, NEW fd, execute_write(p, fd)
          PROVE  enDisco \subseteq enDisco'
      BY <2>7 DEF execute_write
    <2>8. ASSUME NEW p, NEW fd, CerrarArchivo(p, fd)
          PROVE  enDisco \subseteq enDisco'
      BY <2>8 DEF CerrarArchivo
    <2>9. ASSUME NEW p, Terminar(p)
          PROVE  enDisco \subseteq enDisco'
      BY <2>9 DEF Terminar
    <2>10. ASSUME NEW p, finish_process(p)
           PROVE  enDisco \subseteq enDisco'
      BY <2>10 DEF finish_process
    <2>11. UNCHANGED vars => enDisco \subseteq enDisco'
      BY DEF vars
    <2> QED BY <2>1, <2>2, <2>3, <2>4, <2>5, <2>6, <2>7, <2>8, <2>9, <2>10, <2>11 DEF Next
  <1>2. PICK p \in Pids, fd \in Fds : execute_delete(p, fd)
    BY <1>1
  <1>3. ~caido
    BY <1>2 DEF execute_delete, Atiende
  <1>t. PICK t : t = TablaDe(tabla_de_archivos_por_proceso, p)
    OBVIOUS
  <1>k. PICK k : k = IF t = 0 THEN 0
                     ELSE Buscar(tabla_de_archivos_por_proceso[t].lista_de_archivos, fd)
    OBVIOUS
  <1>d. PICK d : d = tabla_de_archivos_por_proceso[t].lista_de_archivos[k]
    OBVIOUS
  <1>4. /\ k # 0 /\ UnicaInstancia(d.referencia)
        /\ enDisco' = enDisco \ {global[d.referencia].ruta}
    BY <1>2, <1>t, <1>k, <1>d DEF execute_delete, tablas
  <1>5. Abierto(p, fd, d)
    <2>1. t # 0 /\ k = Buscar(tabla_de_archivos_por_proceso[t].lista_de_archivos, fd)
      BY <1>4, <1>k
    <2> QED BY <2>1, <1>3, <1>4, <1>t, <1>d, AbiertoHallado
  <1>6. /\ tabla_global_de_archivos[d.referencia].instancias = 1
        /\ ruta = tabla_global_de_archivos[d.referencia].ruta
    BY <1>4 DEF UnicaInstancia, global
  <1> QED BY <1>3, <1>5, <1>6, UnoLoTiene

-----------------------------------------------------------------------------
(* Theorems *)

\* What the tables, the files and the requests are made of, whatever the processes do.
THEOREM TiposDeArchivos == Spec => []TypeOK
  <1>1. Init => Sano
    BY InicioSano
  <1>2. Sano /\ [Next]_vars => Sano'
    BY PasoDeTodos
  <1>3. Sano => TypeOK
    BY SonTipos DEF Sano
  <1> QED BY <1>1, <1>2, <1>3, PTL DEF Spec

\* The three tables agree: a process has its own, a descriptor names the entry of the file
\* it was opened for, in the tables and in what is asked of the file server, and an entry
\* counts who names it (execute_open, execute_close, borrarTablaDeArchivos).
THEOREM LasTablasConcuerdan == Spec => []TablasAcordes
  <1>1. Init => Sano
    BY InicioSano
  <1>2. Sano /\ [Next]_vars => Sano'
    BY PasoDeTodos
  <1>3. Sano => TablasAcordes
    BY SonFieles, SonContadas DEF Sano, AInv, TablasAcordes
  <1> QED BY <1>1, <1>2, <1>3, PTL DEF Spec

\* The Kernel follows no null pointer for an open descriptor until an entry moves.
THEOREM ElKernelSigueEnPie == Spec => []KernelEnPie
  <1>1. Init => Sano
    BY InicioSano
  <1>2. Sano /\ [Next]_vars => Sano'
    BY PasoDeTodos
  <1>3. Sano => KernelEnPie
    BY DEF Sano
  <1> QED BY <1>1, <1>2, <1>3, PTL DEF Spec

\* execute_delete takes from the disk only what one descriptor has open.
THEOREM SoloSeBorraLoPropio == Spec => BorradoSinOtros
  <1>1. Init => Sano
    BY InicioSano
  <1>2. Sano /\ [Next]_vars => Sano'
    BY PasoDeTodos
  <1>3. Sano /\ [Next]_vars =>
          [\A ruta \in enDisco \ enDisco' : "desplazada" \notin rarezas =>
             Cardinality({n \in Pids \X UNION {DescriptoresDe(q) : q \in Pids} :
                            n[2] \in DescriptoresDe(n[1]) /\ n[2].ruta = ruta}) = 1]_vars
    BY BorradoDe DEF Sano
  <1> QED BY <1>1, <1>2, <1>3, PTL DEF Spec, BorradoSinOtros
=============================================================================
