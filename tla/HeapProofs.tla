----------------------------- MODULE HeapProofs -----------------------------
(***************************************************************************)
(* Theorems about the heap of the processes, for any number of processes,  *)
(* pages and sizes, and whatever may be read beyond a page.                *)
(***************************************************************************)
EXTENDS Heap, TLAPS, SequenceTheorems, FiniteSetTheorems, WellFoundedInduction

-----------------------------------------------------------------------------
(* The invariant *)

\* The chain of a page, as it is in its frame
Cadena == UNION {[D -> Metadata] : D \in SUBSET (0 .. tamanio_pagina - 1)}
Pagina == [pid : Pids, pagina : Paginas, espacio_libre : Int, meta : Cadena]

\* A pointer has its metadata before it
ConMetadata == [pagina : Paginas, offset : tamanio_metadata .. tamanio_pagina - 1, size : Nat]

\* The lists have what they should, and the page of a pointer is one of the process.
Tipos(pags, h) ==
  /\ pags \in Seq(Pagina) /\ Len(pags) <= MaxPaginas /\ DOMAIN h \subseteq Pids
  /\ \A q \in Pids : PunterosDe(h, q) \in Seq(ConMetadata)
  /\ \A q \in Pids : \A n \in DOMAIN PunterosDe(h, q) :
       \E k \in DOMAIN pags : pags[k].pid = q /\ pags[k].pagina = PunterosDe(h, q)[n].pagina

SinRepetir(pags) ==
  \A j, k \in DOMAIN pags : pags[j].pid = pags[k].pid /\ pags[j].pagina = pags[k].pagina => j = k

Distintos(ps) ==
  \A i, j \in DOMAIN ps : ps[i].pagina = ps[j].pagina /\ ps[i].offset = ps[j].offset => i = j

\* The blocks taken of a page are those with a pointer.
Acorde(g, h) == Encadenados(g.meta) /\ Tomados(g.meta) = Apuntados(PunterosDe(h, g.pid), g.pagina)

\* A process has a page once, and a pointer once, and chains and pointers agree.
Regular(pags, h) ==
  /\ SinRepetir(pags)
  /\ \A q \in Pids : Distintos(PunterosDe(h, q))
  /\ \A k \in DOMAIN pags : Acorde(pags[k], h)

\* The bytes taken for free are those there are, and a page has something in it.
LibreExacto(pags) == \A k \in DOMAIN pags : pags[k].espacio_libre = SumaLibre(pags[k].meta)
Ocupada(g, h) == esta_ocupada(PunterosDe(h, g.pid), g.pagina)
Exacto(pags, h) == LibreExacto(pags) /\ \A k \in DOMAIN pags : Ocupada(pags[k], h)

\* The only free block is the last one.
UltimoLibre(meta, d) ==
  /\ d \in DOMAIN meta /\ meta[d].isFree /\ Fin(d, meta[d]) = tamanio_pagina
  /\ \A c \in DOMAIN meta \ {d} : ~meta[c].isFree

Apilada(meta, libre) == \E d \in DOMAIN meta : UltimoLibre(meta, d) /\ meta[d].size = libre

Crecientes(ps) == \A i, j \in DOMAIN ps : i < j => ps[i].offset < ps[j].offset

\* A process has one page at the most, which is a stack.
EnPila(pags, h) ==
  /\ \A j, k \in DOMAIN pags : pags[j].pid = pags[k].pid => j = k
  /\ \A k \in DOMAIN pags : Apilada(pags[k].meta, pags[k].espacio_libre)
  /\ \A q \in Pids : Crecientes(PunterosDe(h, q))

Rarezas == {"fuera", "basura", "otra pagina", "pagina repetida"}

InvTipos ==
  /\ Tipos(paginas_heap, heap)
  /\ vivos \subseteq Pids /\ desordenados \subseteq Pids /\ rarezas \subseteq Rarezas

InvRegular == rarezas \subseteq {"otra pagina"} => Regular(paginas_heap, heap)
InvExacto == rarezas = {} => Exacto(paginas_heap, heap)
InvEnPila == desordenados = {} => rarezas = {} /\ EnPila(paginas_heap, heap)

IInv == InvTipos /\ InvRegular /\ InvExacto /\ InvEnPila

-----------------------------------------------------------------------------
(* Sequences *)

\* A set of positions that is not empty has a first one
LEMMA MinimoEsta ==
  ASSUME NEW S \in SUBSET Nat, S # {}
  PROVE  Min(S) \in S /\ \A y \in S : Min(S) <= y
  <1> DEFINE R == {ss \in Nat \X Nat : ss[1] < ss[2]}
  <1>1. R = OpToRel(<, Nat)
    BY DEF OpToRel
  <1>2. \A x, y \in Nat : <<y, x>> \notin R => x <= y
    OBVIOUS
  <1> HIDE DEF R
  <1>3. IsWellFoundedOn(R, Nat)
    BY <1>1, NatLessThanWellFounded
  <1>4. PICK x \in S : \A y \in S : <<y, x>> \notin R
    BY <1>3, WFMin
  <1>5. \A y \in S : x <= y
    BY <1>2, <1>4
  <1> QED BY <1>5 DEF Min

LEMMA HayMinimo ==
  ASSUME NEW S \in SUBSET Nat, S # {}
  PROVE  \E x \in S : \A y \in S : x <= y
  BY MinimoEsta

LEMMA ElementoDe ==
  ASSUME NEW S, NEW s \in Seq(S), NEW i \in DOMAIN s
  PROVE  s[i] \in S
  OBVIOUS

\* What RemoveAt leaves
LEMMA Quitar ==
  ASSUME NEW S, NEW s \in Seq(S), NEW i \in DOMAIN s
  PROVE  /\ RemoveAt(s, i) \in Seq(S)
         /\ Len(RemoveAt(s, i)) = Len(s) - 1
         /\ \A j \in 1 .. i - 1 : RemoveAt(s, i)[j] = s[j]
         /\ \A j \in i .. Len(s) - 1 : RemoveAt(s, i)[j] = s[j + 1]
  <1>n. PICK n : n = Len(s)
    OBVIOUS
  <1>0. n \in Nat /\ i \in 1 .. n /\ \A j \in 1 .. n : s[j] \in S
    BY <1>n
  <1> DEFINE antes   == SubSeq(s, 1, i - 1)
             despues == SubSeq(s, i + 1, n)
  <1>1. /\ antes \in Seq(S) /\ Len(antes) = i - 1
        /\ \A j \in 1 .. i - 1 : antes[j] = s[j]
    <2>1. 1 \in Int /\ i - 1 \in Int /\ \A j \in 1 .. i - 1 : s[j] \in S
      BY <1>0
    <2>2. /\ antes \in Seq(S) /\ Len(antes) = IF 1 <= i - 1 THEN (i - 1) - 1 + 1 ELSE 0
          /\ \A j \in 1 .. (i - 1) - 1 + 1 : antes[j] = s[1 + j - 1]
      BY <2>1, SubSeqProperties
    <2> QED BY <2>2, <1>0
  <1>2. /\ despues \in Seq(S) /\ Len(despues) = n - i
        /\ \A j \in 1 .. n - i : despues[j] = s[i + j]
    <2>1. n \in Int /\ i + 1 \in Int /\ \A j \in i + 1 .. n : s[j] \in S
      BY <1>0
    <2>2. /\ despues \in Seq(S)
          /\ Len(despues) = IF i + 1 <= n THEN n - (i + 1) + 1 ELSE 0
          /\ \A j \in 1 .. n - (i + 1) + 1 : despues[j] = s[(i + 1) + j - 1]
      BY <2>1, SubSeqProperties
    <2>3. \A j \in 1 .. n - i : (i + 1) + j - 1 = i + j
      BY <1>0
    <2> QED BY <2>2, <2>3, <1>0
  <1>3. RemoveAt(s, i) = antes \o despues
    BY <1>n DEF RemoveAt
  <1> HIDE DEF antes, despues
  <1>4. /\ antes \o despues \in Seq(S)
        /\ Len(antes \o despues) = n - 1
        /\ \A j \in 1 .. i - 1 : (antes \o despues)[j] = s[j]
        /\ \A j \in 1 .. n - i : (antes \o despues)[(i - 1) + j] = s[i + j]
    <2>1. Len(antes) + Len(despues) = n - 1
      BY <1>0, <1>1, <1>2
    <2>2. /\ antes \o despues \in Seq(S)
          /\ Len(antes \o despues) = Len(antes) + Len(despues)
          /\ \A j \in 1 .. Len(antes) + Len(despues) :
               (antes \o despues)[j] = IF j <= Len(antes) THEN antes[j]
                                      ELSE despues[j - Len(antes)]
      BY <1>1, <1>2, ConcatProperties
    <2>3. \A j \in 1 .. n - 1 :
             (antes \o despues)[j] = IF j <= i - 1 THEN antes[j] ELSE despues[j - (i - 1)]
      BY <2>1, <2>2, <1>1
    <2>4. ASSUME NEW j \in 1 .. i - 1
          PROVE  (antes \o despues)[j] = s[j]
      <3>1. j \in 1 .. n - 1 /\ j <= i - 1
        BY <1>0
      <3> QED BY <3>1, <2>3, <1>1
    <2>5. ASSUME NEW j \in 1 .. n - i
          PROVE  (antes \o despues)[(i - 1) + j] = s[i + j]
      <3>m. PICK m : m = (i - 1) + j
        OBVIOUS
      <3>1. m \in 1 .. n - 1 /\ ~(m <= i - 1) /\ m - (i - 1) = j
        <4>1. i \in Nat /\ j \in Nat /\ n \in Nat /\ i >= 1 /\ j >= 1 /\ j <= n - i
          BY <1>0
        <4>2. m \in Nat /\ m = (i - 1) + j
          BY <3>m, <4>1
        <4>3. m <= n - 1 /\ 1 <= m /\ ~(m <= i - 1)
          BY <4>1, <4>2
        <4>4. m - (i - 1) = j
          BY <4>1, <4>2
        <4> QED BY <4>1, <4>2, <4>3, <4>4
      <3>2. (antes \o despues)[m] = despues[m - (i - 1)]
        BY <3>1, <2>3
      <3> QED BY <3>1, <3>2, <3>m, <1>2
    <2> QED BY <2>1, <2>2, <2>4, <2>5
  <1>5. ASSUME NEW j \in i .. n - 1
        PROVE  RemoveAt(s, i)[j] = s[j + 1]
    <2>m. PICK m : m = j - (i - 1)
      OBVIOUS
    <2>1. m \in 1 .. n - i /\ (i - 1) + m = j /\ i + m = j + 1
      <3>1. i \in Nat /\ j \in Nat /\ n \in Nat /\ i <= j /\ j <= n - 1
        BY <1>0
      <3> QED BY <2>m, <3>1
    <2>2. (antes \o despues)[(i - 1) + m] = s[i + m]
      BY <2>1, <1>4
    <2> QED BY <2>1, <2>2, <1>3
  <1> QED BY <1>3, <1>4, <1>5, <1>n

\* Every element but one
LEMMA QuitarDeja ==
  ASSUME NEW S, NEW s \in Seq(S), NEW i \in DOMAIN s
  PROVE  /\ \A j \in DOMAIN RemoveAt(s, i) :
              \E m \in DOMAIN s : m # i /\ RemoveAt(s, i)[j] = s[m]
         /\ \A m \in DOMAIN s : m # i =>
              \E j \in DOMAIN RemoveAt(s, i) : RemoveAt(s, i)[j] = s[m]
  <1>n. PICK n : n = Len(s)
    OBVIOUS
  <1>t. PICK t : t = RemoveAt(s, i)
    OBVIOUS
  <1>0. n \in Nat /\ i \in 1 .. n /\ DOMAIN s = 1 .. n
    BY <1>n
  <1>1. /\ t \in Seq(S) /\ Len(t) = n - 1
        /\ \A j \in 1 .. i - 1 : t[j] = s[j]
        /\ \A j \in i .. n - 1 : t[j] = s[j + 1]
    BY <1>n, <1>t, Quitar
  <1>2. DOMAIN t = 1 .. n - 1
    BY <1>1
  <1>3. ASSUME NEW j \in 1 .. n - 1
        PROVE  \E m \in 1 .. n : m # i /\ t[j] = s[m]
    <2>1. CASE j \in 1 .. i - 1
      <3>1. j \in 1 .. n /\ j # i
        BY <2>1, <1>0
      <3> QED BY <3>1, <2>1, <1>1
    <2>2. CASE j \in i .. n - 1
      <3>1. j + 1 \in 1 .. n /\ j + 1 # i
        BY <2>2, <1>0
      <3> QED BY <3>1, <2>2, <1>1
    <2> QED BY <2>1, <2>2, <1>0
  <1>4. ASSUME NEW m \in 1 .. n, m # i
        PROVE  \E j \in 1 .. n - 1 : t[j] = s[m]
    <2>1. CASE m < i
      <3>1. m \in 1 .. i - 1 /\ m \in 1 .. n - 1
        BY <2>1, <1>0
      <3> QED BY <3>1, <1>1
    <2>2. CASE m > i
      <3>1. m - 1 \in i .. n - 1 /\ (m - 1) + 1 = m /\ m - 1 \in 1 .. n - 1
        BY <2>2, <1>0
      <3> QED BY <3>1, <1>1
    <2> QED BY <2>1, <2>2, <1>4, <1>0
  <1> QED BY <1>0, <1>2, <1>3, <1>4, <1>t

\* An element more, at the end
LEMMA Agregar ==
  ASSUME NEW S, NEW s \in Seq(S), NEW x \in S
  PROVE  /\ Append(s, x) \in Seq(S) /\ DOMAIN Append(s, x) = 1 .. Len(s) + 1
         /\ \A j \in DOMAIN Append(s, x) :
              \/ j \in DOMAIN s /\ Append(s, x)[j] = s[j]
              \/ j = Len(s) + 1 /\ Append(s, x)[j] = x
         /\ \A j \in DOMAIN s : j \in DOMAIN Append(s, x) /\ Append(s, x)[j] = s[j]
         /\ Len(s) + 1 \in DOMAIN Append(s, x) /\ Append(s, x)[Len(s) + 1] = x
  <1>n. PICK n : n = Len(s)
    OBVIOUS
  <1>0. n \in Nat /\ DOMAIN s = 1 .. n
    BY <1>n
  <1>1. /\ Append(s, x) \in Seq(S) /\ Len(Append(s, x)) = n + 1
        /\ \A j \in 1 .. n : Append(s, x)[j] = s[j]
        /\ Append(s, x)[n + 1] = x
    BY <1>n, AppendProperties
  <1>2. DOMAIN Append(s, x) = 1 .. n + 1
    BY <1>1
  <1> QED BY <1>0, <1>1, <1>2, <1>n


\* Two that are left were two
LEMMA QuitarSepara ==
  ASSUME NEW S, NEW s \in Seq(S), NEW k \in DOMAIN s,
         NEW i \in DOMAIN RemoveAt(s, k), NEW j \in DOMAIN RemoveAt(s, k)
  PROVE  \E a, b \in DOMAIN s :
           RemoveAt(s, k)[i] = s[a] /\ RemoveAt(s, k)[j] = s[b] /\ (a = b => i = j)
  <1>x. PICK x : x = Len(s)
    OBVIOUS
  <1>r. PICK r : r = RemoveAt(s, k)
    OBVIOUS
  <1>1. /\ Len(r) = x - 1 /\ r \in Seq(S)
        /\ \A m \in 1 .. k - 1 : r[m] = s[m]
        /\ \A m \in k .. x - 1 : r[m] = s[m + 1]
    BY <1>x, <1>r, Quitar
  <1>2. x \in Nat /\ k \in 1 .. x /\ DOMAIN s = 1 .. x /\ DOMAIN r = 1 .. x - 1
    BY <1>x, <1>1
  <1>3. i \in 1 .. x - 1 /\ j \in 1 .. x - 1
    BY <1>2, <1>r
  <1> DEFINE De(m) == IF m < k THEN m ELSE m + 1
  <1>4. /\ De(i) \in 1 .. x /\ De(j) \in 1 .. x
        /\ De(i) = De(j) => i = j
    BY <1>2, <1>3
  <1>5. ASSUME NEW m \in 1 .. x - 1
        PROVE  r[m] = s[De(m)]
    <2>1. CASE m < k
      <3>1. m \in 1 .. k - 1 /\ De(m) = m
        BY <1>2, <2>1
      <3> QED BY <3>1, <1>1
    <2>2. CASE ~(m < k)
      <3>1. m \in k .. x - 1 /\ De(m) = m + 1
        BY <1>2, <2>2
      <3> QED BY <3>1, <1>1
    <2> QED BY <2>1, <2>2
  <1> HIDE DEF De
  <1>6. r[i] = s[De(i)] /\ r[j] = s[De(j)]
    BY <1>3, <1>5
  <1> QED BY <1>2, <1>4, <1>6, <1>r

-----------------------------------------------------------------------------
(* Chains *)

LEMMA Tamanio == tamanio_pagina \in Nat /\ tamanio_pagina >= 10 /\ tamanio_metadata = 5
  BY HeapAssumption DEF HeapAssumption, tamanio_metadata

LEMMA DeCadena ==
  ASSUME NEW w
  PROVE  w \in Cadena <=> /\ w = [c \in DOMAIN w |-> w[c]]
                          /\ DOMAIN w \subseteq 0 .. tamanio_pagina - 1
                          /\ \A c \in DOMAIN w : w[c] \in Metadata
  <1>1. ASSUME w \in Cadena
        PROVE  /\ w = [c \in DOMAIN w |-> w[c]]
               /\ DOMAIN w \subseteq 0 .. tamanio_pagina - 1
               /\ \A c \in DOMAIN w : w[c] \in Metadata
    <2>1. PICK D \in SUBSET (0 .. tamanio_pagina - 1) : w \in [D -> Metadata]
      BY <1>1 DEF Cadena
    <2> QED BY <2>1
  <1>2. ASSUME w = [c \in DOMAIN w |-> w[c]],
               DOMAIN w \subseteq 0 .. tamanio_pagina - 1,
               \A c \in DOMAIN w : w[c] \in Metadata
        PROVE  w \in Cadena
    <2>1. w \in [DOMAIN w -> Metadata]
      BY <1>2
    <2> QED BY <1>2, <2>1, Zenon DEF Cadena
  <1> QED BY <1>1, <1>2

LEMMA BloqueDe ==
  ASSUME NEW w \in Cadena, NEW c \in DOMAIN w
  PROVE  /\ c \in 0 .. tamanio_pagina - 1 /\ c \in Nat
         /\ w[c] \in Metadata /\ w[c].size \in Nat /\ w[c].isFree \in BOOLEAN
         /\ Fin(c, w[c]) = c + 5 + w[c].size /\ Fin(c, w[c]) \in Nat
  <1>1. c \in 0 .. tamanio_pagina - 1 /\ w[c] \in Metadata
    BY DeCadena
  <1>2. c \in Nat /\ w[c].size \in Nat /\ w[c].isFree \in BOOLEAN
    BY <1>1, Tamanio DEF Metadata
  <1>3. Fin(c, w[c]) = c + 5 + w[c].size
    BY Tamanio DEF Fin
  <1> QED BY <1>1, <1>2, <1>3

\* Metadata is written whole, and takes away what it falls on
LEMMA EscribeDa ==
  ASSUME NEW w \in Cadena, NEW c \in 0 .. tamanio_pagina - 1, NEW m \in Metadata
  PROVE  /\ Escribe(w, c, m) \in Cadena
         /\ DOMAIN Escribe(w, c, m) = {c} \cup {e \in DOMAIN w : e + 5 <= c \/ c + 5 <= e}
         /\ Escribe(w, c, m)[c] = m
         /\ \A e \in DOMAIN Escribe(w, c, m) : e # c => e \in DOMAIN w /\ Escribe(w, c, m)[e] = w[e]
  <1>v. PICK v : v = Escribe(w, c, m)
    OBVIOUS
  <1>1. v = [d \in {c} \cup {e \in DOMAIN w : e + 5 <= c \/ c + 5 <= e} |-> IF d = c THEN m ELSE w[d]]
    BY <1>v, Tamanio DEF Escribe
  <1>2. DOMAIN v = {c} \cup {e \in DOMAIN w : e + 5 <= c \/ c + 5 <= e}
    BY <1>1
  <1>3. v[c] = m /\ \A e \in DOMAIN v : e # c => e \in DOMAIN w /\ v[e] = w[e]
    BY <1>1
  <1>4. v \in Cadena
    <2>1. \A e \in DOMAIN v : e \in 0 .. tamanio_pagina - 1 /\ v[e] \in Metadata
      BY <1>2, <1>3, DeCadena
    <2>2. v = [e \in DOMAIN v |-> v[e]]
      BY <1>1
    <2> QED BY <2>1, <2>2, DeCadena
  <1> QED BY <1>v, <1>2, <1>3, <1>4

\* v is w with m in c, and without d
Absorbido(w, c, d, m, v) ==
  /\ v \in Cadena
  /\ DOMAIN v = {c} \cup {e \in DOMAIN w \ {d} : e + 5 <= c \/ c + 5 <= e}
  /\ v[c] = m
  /\ \A e \in DOMAIN v : e # c => e \in DOMAIN w /\ v[e] = w[e]

LEMMA AbsorbeDa ==
  ASSUME NEW w \in Cadena, NEW c \in 0 .. tamanio_pagina - 1, NEW d, NEW m \in Metadata
  PROVE  Absorbido(w, c, d, m, Absorbe(w, c, d, m))
  <1>v. PICK v : v = Restrict(w, DOMAIN w \ {d})
    OBVIOUS
  <1>1. v = [e \in DOMAIN w \ {d} |-> w[e]]
    BY <1>v DEF Restrict
  <1>2. DOMAIN v = DOMAIN w \ {d} /\ \A e \in DOMAIN v : v[e] = w[e]
    BY <1>1
  <1>3. v \in Cadena
    <2>1. \A e \in DOMAIN v : e \in 0 .. tamanio_pagina - 1 /\ v[e] \in Metadata
      BY <1>2, DeCadena
    <2>2. v = [e \in DOMAIN v |-> v[e]]
      BY <1>1
    <2> QED BY <2>1, <2>2, DeCadena
  <1>4. Absorbe(w, c, d, m) = Escribe(v, c, m)
    BY <1>v DEF Absorbe
  <1>x. PICK x : x = Escribe(v, c, m)
    OBVIOUS
  <1>5. /\ x \in Cadena /\ DOMAIN x = {c} \cup {e \in DOMAIN v : e + 5 <= c \/ c + 5 <= e}
        /\ x[c] = m /\ \A e \in DOMAIN x : e # c => e \in DOMAIN v /\ x[e] = v[e]
    BY <1>x, <1>3, EscribeDa
  <1>6. \A e \in DOMAIN x : e # c => e \in DOMAIN w /\ x[e] = w[e]
    BY <1>2, <1>5
  <1>7. Absorbido(w, c, d, m, x)
    BY <1>2, <1>5, <1>6 DEF Absorbido
  <1> QED BY <1>4, <1>7, <1>x
 
LEMMA UnBloque ==
  ASSUME NEW n \in Nat, NEW b \in BOOLEAN
  PROVE  [size |-> n, isFree |-> b] \in Metadata
  BY DEF Metadata

\* A block cut in two
LEMMA PartidaDa ==
  ASSUME NEW w \in Cadena, NEW c \in 0 .. tamanio_pagina - 1, NEW m \in Metadata,
         NEW e \in Nat, m.size >= e + 5, c + 5 + e <= tamanio_pagina - 5,
         NEW v, v = Partida(w, c, m, e), NEW d, d = c + 5 + e
  PROVE  /\ v \in Cadena /\ c \in DOMAIN v /\ d \in DOMAIN v
         /\ v[c] = [size |-> e, isFree |-> FALSE]
         /\ v[d] = [size |-> m.size - (e + 5), isFree |-> TRUE]
         /\ \A x \in DOMAIN v : x # c /\ x # d => x \in DOMAIN w /\ v[x] = w[x]
         /\ \A x \in DOMAIN w : /\ x + 5 <= c \/ c + 5 <= x
                                /\ x + 5 <= d \/ d + 5 <= x
                                => x \in DOMAIN v
  <1>0. c \in Nat /\ d \in 0 .. tamanio_pagina - 1 /\ m.size \in Nat /\ m.size - (e + 5) \in Nat
    BY Tamanio DEF Metadata
  <1>u. PICK u : u = Escribe(w, c, [size |-> e, isFree |-> FALSE])
    OBVIOUS
  <1>1. [size |-> e, isFree |-> FALSE] \in Metadata /\ [size |-> m.size - (e + 5), isFree |-> TRUE] \in Metadata
    BY <1>0, UnBloque
  <1>2. /\ u \in Cadena /\ DOMAIN u = {c} \cup {x \in DOMAIN w : x + 5 <= c \/ c + 5 <= x}
        /\ u[c] = [size |-> e, isFree |-> FALSE]
        /\ \A x \in DOMAIN u : x # c => x \in DOMAIN w /\ u[x] = w[x]
    BY <1>1, <1>u, EscribeDa, ZenonT(30)
  <1>3. v = Escribe(u, d, [size |-> m.size - (e + 5), isFree |-> TRUE])
    <2>1. d = c + e + tamanio_metadata
      BY <1>0, Tamanio
    <2> QED BY <1>u, <2>1, Tamanio DEF Partida
  <1>4. /\ v \in Cadena /\ DOMAIN v = {d} \cup {x \in DOMAIN u : x + 5 <= d \/ d + 5 <= x}
        /\ v[d] = [size |-> m.size - (e + 5), isFree |-> TRUE]
        /\ \A x \in DOMAIN v : x # d => x \in DOMAIN u /\ v[x] = u[x]
    <2>m. PICK r : r = [size |-> m.size - (e + 5), isFree |-> TRUE]
      OBVIOUS
    <2>1. r \in Metadata /\ v = Escribe(u, d, r)
      BY <1>1, <1>3, <2>m
    <2>2. /\ Escribe(u, d, r) \in Cadena
          /\ DOMAIN Escribe(u, d, r) = {d} \cup {x \in DOMAIN u : x + 5 <= d \/ d + 5 <= x}
          /\ Escribe(u, d, r)[d] = r
          /\ \A x \in DOMAIN Escribe(u, d, r) : x # d => x \in DOMAIN u /\ Escribe(u, d, r)[x] = u[x]
      BY <1>0, <1>2, <2>1, EscribeDa, ZenonT(30)
    <2> QED BY <2>m, <2>1, <2>2
  <1>5. c \in DOMAIN v /\ c # d
    BY <1>0, <1>2, <1>4
  <1> QED BY <1>2, <1>4, <1>5

\* The blocks of a chain do not overlap, and are within the page
LEMMA BloqueDentro ==
  ASSUME NEW w \in Cadena, Encadenados(w), NEW c \in DOMAIN w
  PROVE  /\ Fin(c, w[c]) \in DOMAIN w \cup {tamanio_pagina}
         /\ Fin(c, w[c]) <= tamanio_pagina
         /\ c + 5 <= Fin(c, w[c])
         /\ \A d \in DOMAIN w : /\ c < d => Fin(c, w[c]) <= d
                                /\ d < c => d + 5 <= Fin(d, w[d]) /\ Fin(d, w[d]) <= c
                                /\ d # c => d + 5 <= c \/ c + 5 <= d
  <1>1. Fin(c, w[c]) \in DOMAIN w \cup {tamanio_pagina}
    BY DEF Encadenados
  <1>2. Fin(c, w[c]) <= tamanio_pagina
    <2>1. CASE Fin(c, w[c]) \in DOMAIN w
      <3>1. Fin(c, w[c]) \in 0 .. tamanio_pagina - 1
        BY <2>1, BloqueDe
      <3> QED BY <3>1, Tamanio
    <2> QED BY <1>1, <2>1, Tamanio
  <1>3. c + 5 <= Fin(c, w[c])
    BY BloqueDe
  <1>4. ASSUME NEW d \in DOMAIN w
        PROVE  /\ c < d => Fin(c, w[c]) <= d
               /\ d < c => d + 5 <= Fin(d, w[d]) /\ Fin(d, w[d]) <= c
               /\ d # c => d + 5 <= c \/ c + 5 <= d
    <2>1. /\ c < d => Fin(c, w[c]) <= d
          /\ d < c => Fin(d, w[d]) <= c
      BY DEF Encadenados
    <2>2. d + 5 <= Fin(d, w[d]) /\ d \in Nat /\ c \in Nat
          /\ Fin(d, w[d]) \in Nat /\ Fin(c, w[c]) \in Nat
      BY BloqueDe
    <2> QED BY <1>3, <2>1, <2>2
  <1> QED BY <1>1, <1>2, <1>3, <1>4

\* Cutting a free block leaves the page filled
LEMMA PartidaEncadena ==
  ASSUME NEW w \in Cadena, Encadenados(w), NEW c \in DOMAIN w, w[c].isFree,
         NEW e \in Nat, w[c].size >= e + 5,
         NEW v, v = Partida(w, c, w[c], e), NEW d, d = c + 5 + e
  PROVE  /\ v \in Cadena /\ Encadenados(v)
         /\ d \notin DOMAIN w /\ DOMAIN v = DOMAIN w \cup {d} /\ c < d
         /\ c + 5 + e <= tamanio_pagina - 5
         /\ v[c] = [size |-> e, isFree |-> FALSE]
         /\ v[d] = [size |-> w[c].size - (e + 5), isFree |-> TRUE]
         /\ \A x \in DOMAIN w : x # c => v[x] = w[x]
         /\ Fin(d, v[d]) = Fin(c, w[c])
  <1>s. PICK s : s = w[c].size
    OBVIOUS
  <1>f. PICK f : f = Fin(c, w[c])
    OBVIOUS
  <1>0. /\ c \in 0 .. tamanio_pagina - 1 /\ c \in Nat /\ w[c] \in Metadata
        /\ s \in Nat /\ s >= e + 5 /\ f = c + 5 + s /\ f <= tamanio_pagina
    BY <1>s, <1>f, BloqueDe, BloqueDentro
  <1>1. d + 5 <= f /\ d + 5 <= tamanio_pagina /\ d \in Nat /\ c + 5 <= d /\ s - (e + 5) \in Nat
    BY <1>0, Tamanio
  <1>2. \A x \in DOMAIN w : /\ x \in Nat
                            /\ x # c => x + 5 <= c \/ f <= x
    BY <1>0, <1>f, BloqueDentro, BloqueDe
  <1>3. /\ v \in Cadena /\ c \in DOMAIN v /\ d \in DOMAIN v
        /\ v[c] = [size |-> e, isFree |-> FALSE]
        /\ v[d] = [size |-> s - (e + 5), isFree |-> TRUE]
        /\ \A x \in DOMAIN v : x # c /\ x # d => x \in DOMAIN w /\ v[x] = w[x]
        /\ \A x \in DOMAIN w : /\ x + 5 <= c \/ c + 5 <= x
                               /\ x + 5 <= d \/ d + 5 <= x
                               => x \in DOMAIN v
    <2>1. c + 5 + e <= tamanio_pagina - 5
      BY <1>0, <1>1, Tamanio
    <2> QED BY <1>0, <1>s, <2>1, PartidaDa
  <1>4. d \notin DOMAIN w
    BY <1>0, <1>1, <1>2
  <1>5. DOMAIN v = DOMAIN w \cup {d}
    <2>1. ASSUME NEW x \in DOMAIN w, x # c
          PROVE  x \in DOMAIN v
      <3>1. /\ x + 5 <= c \/ c + 5 <= x
            /\ x + 5 <= d \/ d + 5 <= x
        <4>1. x \in Nat /\ (x + 5 <= c \/ f <= x)
          BY <1>2, <2>1
        <4>2. c \in Nat /\ d \in Nat /\ f \in Nat /\ c + 5 <= d /\ d + 5 <= f
          BY <1>0, <1>1
        <4> QED BY <4>1, <4>2
      <3> QED BY <3>1, <1>3
    <2> QED BY <1>3, <2>1
  <1>6. \A x \in DOMAIN w : x # c => v[x] = w[x]
    BY <1>3, <1>4, <1>5
  <1>7. Fin(d, v[d]) = f /\ Fin(c, v[c]) = d
    BY <1>0, <1>1, <1>3, Tamanio DEF Fin
  <1>8. Encadenados(v)
    <2>1. 0 \in DOMAIN v
      BY <1>5 DEF Encadenados
    <2>2. ASSUME NEW x \in DOMAIN v
          PROVE  Fin(x, v[x]) \in DOMAIN v \cup {tamanio_pagina}
      <3>1. CASE x = c
        BY <3>1, <1>7, <1>5
      <3>2. CASE x = d
        <4>1. f \in DOMAIN w \cup {tamanio_pagina}
          BY <1>f, BloqueDentro
        <4> QED BY <3>2, <4>1, <1>7, <1>5
      <3>3. CASE x # c /\ x # d
        <4>1. x \in DOMAIN w /\ v[x] = w[x]
          BY <3>3, <1>3
        <4>2. Fin(x, w[x]) \in DOMAIN w \cup {tamanio_pagina}
          BY <4>1, BloqueDentro
        <4> QED BY <4>1, <4>2, <1>5
      <3> QED BY <3>1, <3>2, <3>3
    <2>3. ASSUME NEW x \in DOMAIN v, NEW y \in DOMAIN v, x < y
          PROVE  Fin(x, v[x]) <= y
      <3>0. ASSUME NEW z \in DOMAIN v, z # c, z # d
            PROVE  /\ z \in DOMAIN w /\ v[z] = w[z] /\ z \in Nat
                   /\ Fin(z, v[z]) \in Nat
                   /\ z < c => Fin(z, v[z]) <= c
                   /\ z < c \/ f <= z
        <4>1. z \in DOMAIN w /\ v[z] = w[z] /\ z \in Nat /\ Fin(z, v[z]) \in Nat
          BY <3>0, <1>3, BloqueDe
        <4>2. z < c => Fin(z, w[z]) <= c
          BY <4>1, BloqueDentro
        <4> QED BY <4>1, <4>2, <3>0, <1>0, <1>2
      <3>1. CASE x = c
        <4>1. CASE y = d
          BY <3>1, <4>1, <1>7, <1>1
        <4>2. CASE y # d
          <5>1. y # c /\ y \in Nat /\ (y < c \/ f <= y)
            BY <3>0, <3>1, <2>3, <4>2, <1>0
          <5> QED BY <5>1, <3>1, <2>3, <1>7, <1>0, <1>1
        <4> QED BY <4>1, <4>2
      <3>2. CASE x = d
        <4>1. y # c /\ y # d
          BY <3>2, <2>3, <1>0, <1>1
        <4>2. y \in Nat /\ (y < c \/ f <= y)
          BY <3>0, <4>1
        <4> QED BY <4>2, <3>2, <2>3, <1>7, <1>0, <1>1
      <3>3. CASE x # c /\ x # d
        <4>1. /\ x \in DOMAIN w /\ v[x] = w[x] /\ x \in Nat /\ Fin(x, v[x]) \in Nat
              /\ x < c => Fin(x, v[x]) <= c /\ (x < c \/ f <= x)
          BY <3>0, <3>3
        <4>2. x < c \/ f <= x
          BY <3>0, <3>3
        <4>3. CASE y = c
          BY <4>1, <4>3, <2>3
        <4>4. CASE y = d
          BY <4>1, <4>2, <4>4, <2>3, <1>0, <1>1
        <4>5. CASE y # c /\ y # d
          <5>1. y \in DOMAIN w
            BY <3>0, <4>5
          <5>2. Fin(x, w[x]) <= y
            BY <4>1, <5>1, <2>3, BloqueDentro
          <5> QED BY <4>1, <5>2
        <4> QED BY <4>3, <4>4, <4>5
      <3> QED BY <3>1, <3>2, <3>3
    <2> QED BY <2>1, <2>2, <2>3 DEF Encadenados
  <1>9. c < d /\ c + 5 + e <= tamanio_pagina - 5
    BY <1>0, <1>1, Tamanio
  <1> QED BY <1>3, <1>4, <1>5, <1>6, <1>7, <1>8, <1>9, <1>s, <1>f

\* Joining two free blocks of the chain leaves the page filled, with the same blocks taken
LEMMA UnidosEncadenan ==
  ASSUME NEW w \in Cadena, Encadenados(w), NEW c \in DOMAIN w, w[c].isFree,
         NEW d \in DOMAIN w, d = Fin(c, w[c]), w[d].isFree,
         NEW v, v = Absorbe(w, c, d, Unidos(w[c], w[d]))
  PROVE  /\ v \in Cadena /\ Encadenados(v)
         /\ DOMAIN v = DOMAIN w \ {d} /\ c # d /\ c < d
         /\ v[c] = [size |-> w[c].size + 5 + w[d].size, isFree |-> TRUE]
         /\ \A x \in DOMAIN v : x # c => v[x] = w[x]
         /\ Fin(c, v[c]) = Fin(d, w[d])
  <1>s. PICK s : s = w[c].size
    OBVIOUS
  <1>t. PICK t : t = w[d].size
    OBVIOUS
  <1>f. PICK f : f = Fin(d, w[d])
    OBVIOUS
  <1>0. /\ c \in 0 .. tamanio_pagina - 1 /\ c \in Nat /\ d \in Nat
        /\ s \in Nat /\ t \in Nat /\ d = c + 5 + s /\ f = d + 5 + t /\ f <= tamanio_pagina
    BY <1>s, <1>t, <1>f, BloqueDe, BloqueDentro
  <1>u. PICK u : u = [size |-> s + 5 + t, isFree |-> TRUE]
    OBVIOUS
  <1>1. u = Unidos(w[c], w[d]) /\ u \in Metadata
    <2>1. s + 5 + t \in Nat
      BY <1>0
    <2>2. u \in Metadata
      BY <1>u, <2>1, UnBloque
    <2> QED BY <1>u, <1>s, <1>t, <2>2, Tamanio DEF Unidos
  <1>2. /\ v \in Cadena
        /\ DOMAIN v = {c} \cup {e \in DOMAIN w \ {d} : e + 5 <= c \/ c + 5 <= e}
        /\ v[c] = u
        /\ \A e \in DOMAIN v : e # c => e \in DOMAIN w /\ v[e] = w[e]
    <2>1. v = Absorbe(w, c, d, u)
      BY <1>1
    <2>2. Absorbido(w, c, d, u, v)
      <3>1. c \in 0 .. tamanio_pagina - 1 /\ u \in Metadata
        BY <1>0, <1>1
      <3>2. Absorbido(w, c, d, u, Absorbe(w, c, d, u))
        BY <3>1, AbsorbeDa
      <3> QED BY <3>2, <2>1, Zenon
    <2> QED BY <2>2 DEF Absorbido
  <1>3. c # d /\ c < d
    BY <1>0
  <1>4. DOMAIN v = DOMAIN w \ {d}
    <2>1. \A e \in DOMAIN w : e # c => e + 5 <= c \/ c + 5 <= e
      BY BloqueDentro
    <2> QED BY <1>2, <1>3, <2>1
  <1>5. Fin(c, v[c]) = f
    <2>1. u.size = s + 5 + t
      BY <1>u
    <2> QED BY <1>0, <1>2, <2>1, Tamanio DEF Fin
  <1>6. Encadenados(v)
    <2>1. 0 \in DOMAIN v
      <3>1. 0 \in DOMAIN w
        BY DEF Encadenados
      <3> QED BY <3>1, <1>4, <1>0
    <2>0. \A x \in DOMAIN w : /\ x # c => x < c \/ d <= x
                              /\ x # d => x < d \/ f <= x
                              /\ x \in Nat
                              /\ Fin(x, w[x]) \in Nat
      <3>1. ASSUME NEW x \in DOMAIN w
            PROVE  /\ x # c => x < c \/ d <= x
                   /\ x # d => x < d \/ f <= x
                   /\ x \in Nat /\ Fin(x, w[x]) \in Nat
        <4>1. /\ x \in Nat /\ Fin(x, w[x]) \in Nat
          BY BloqueDe
        <4>2. /\ c < x => d <= x
              /\ d < x => f <= x
          BY <1>f, BloqueDentro
        <4> QED BY <4>1, <4>2, <1>0
      <3> QED BY <3>1
    <2>2. ASSUME NEW x \in DOMAIN v
          PROVE  Fin(x, v[x]) \in DOMAIN v \cup {tamanio_pagina}
      <3>1. CASE x = c
        <4>1. f \in DOMAIN w \cup {tamanio_pagina}
          BY <1>f, BloqueDentro
        <4>2. f # d
          BY <1>0
        <4> QED BY <3>1, <4>1, <4>2, <1>4, <1>5
      <3>2. CASE x # c
        <4>1. x \in DOMAIN w /\ x # d /\ v[x] = w[x]
          BY <3>2, <1>2, <1>4
        <4>2. Fin(x, w[x]) \in DOMAIN w \cup {tamanio_pagina}
          BY <4>1, BloqueDentro
        <4>3. Fin(x, w[x]) # d
          <5>1. CASE x < c
            <6>1. Fin(x, w[x]) <= c
              BY <4>1, <5>1, BloqueDentro
            <6> QED BY <6>1, <1>0, <2>0, <4>1
          <5>2. CASE ~(x < c)
            <6>1. x >= d /\ x \in Nat
              BY <5>2, <2>0, <3>2, <4>1, <1>0
            <6>2. x + 5 <= Fin(x, w[x])
              BY <4>1, BloqueDentro
            <6>3. Fin(x, w[x]) \in Nat
              BY <2>0, <4>1
            <6> QED BY <6>1, <6>2, <6>3, <1>0
          <5> QED BY <5>1, <5>2
        <4> QED BY <4>1, <4>2, <4>3, <1>4
      <3> QED BY <3>1, <3>2
    <2>3. ASSUME NEW x \in DOMAIN v, NEW y \in DOMAIN v, x < y
          PROVE  Fin(x, v[x]) <= y
      <3>0. /\ x \in DOMAIN w /\ y \in DOMAIN w /\ x # d /\ y # d
            /\ x # c => v[x] = w[x]
        BY <1>2, <1>4
      <3>1. CASE x = c
        <4>1. y \in Nat /\ (y # c => y < c \/ d <= y) /\ (y # d => y < d \/ f <= y)
          BY <2>0, <3>0
        <4>2. f <= y
          BY <4>1, <3>0, <3>1, <2>3, <1>0
        <4> QED BY <3>1, <4>2, <1>5
      <3>2. CASE x # c
        <4>1. Fin(x, w[x]) <= y
          BY <3>0, <2>3, BloqueDentro
        <4> QED BY <4>1, <3>0, <3>2
      <3> QED BY <3>1, <3>2
    <2> QED BY <2>1, <2>2, <2>3 DEF Encadenados
  <1>7. \A x \in DOMAIN v : x # c => v[x] = w[x]
    BY <1>2
  <1>8. v[c] = [size |-> w[c].size + 5 + w[d].size, isFree |-> TRUE]
    BY <1>2, <1>u, <1>s, <1>t
  <1> QED BY <1>2, <1>3, <1>4, <1>5, <1>6, <1>7, <1>8, <1>f

\* A taken block marked free leaves the page filled
LEMMA LiberarEncadena ==
  ASSUME NEW w \in Cadena, Encadenados(w), NEW c \in DOMAIN w,
         NEW v, v = Escribe(w, c, [size |-> w[c].size, isFree |-> TRUE])
  PROVE  /\ v \in Cadena /\ Encadenados(v) /\ DOMAIN v = DOMAIN w
         /\ v[c] = [size |-> w[c].size, isFree |-> TRUE]
         /\ \A x \in DOMAIN w : x # c => v[x] = w[x]
         /\ \A x \in DOMAIN w : Fin(x, v[x]) = Fin(x, w[x])
  <1>u. PICK u : u = [size |-> w[c].size, isFree |-> TRUE]
    OBVIOUS
  <1>0. c \in 0 .. tamanio_pagina - 1 /\ u \in Metadata /\ u.size = w[c].size
    BY <1>u, BloqueDe, UnBloque
  <1>1. /\ v \in Cadena /\ DOMAIN v = {c} \cup {e \in DOMAIN w : e + 5 <= c \/ c + 5 <= e}
        /\ v[c] = u /\ \A e \in DOMAIN v : e # c => e \in DOMAIN w /\ v[e] = w[e]
    <2>1. v = Escribe(w, c, u)
      BY <1>u
    <2>2. /\ Escribe(w, c, u) \in Cadena
          /\ DOMAIN Escribe(w, c, u) = {c} \cup {e \in DOMAIN w : e + 5 <= c \/ c + 5 <= e}
          /\ Escribe(w, c, u)[c] = u
          /\ \A e \in DOMAIN Escribe(w, c, u) : e # c => e \in DOMAIN w /\ Escribe(w, c, u)[e] = w[e]
      BY <1>0, EscribeDa
    <2> QED BY <2>1, <2>2, Zenon
  <1>2. DOMAIN v = DOMAIN w
    <2>1. \A e \in DOMAIN w : e # c => e + 5 <= c \/ c + 5 <= e
      BY BloqueDentro
    <2> QED BY <1>1, <2>1
  <1>3. \A x \in DOMAIN w : x # c => v[x] = w[x]
    BY <1>1, <1>2
  <1>4. \A x \in DOMAIN w : Fin(x, v[x]) = Fin(x, w[x])
    <2>1. \A x \in DOMAIN w : v[x].size = w[x].size
      BY <1>0, <1>1, <1>3
    <2> QED BY <2>1 DEF Fin
  <1>5. Encadenados(v)
    BY <1>2, <1>4 DEF Encadenados
  <1> QED BY <1>1, <1>2, <1>3, <1>4, <1>5, <1>u

LEMMA NuevaEncadena ==
  /\ PaginaNueva \in Cadena /\ Encadenados(PaginaNueva)
  /\ DOMAIN PaginaNueva = {0}
  /\ PaginaNueva[0] = [size |-> tamanio_pagina - 5, isFree |-> TRUE]
  <1>w. PICK w : w = PaginaNueva
    OBVIOUS
  <1>u. PICK u : u = [size |-> tamanio_pagina - 5, isFree |-> TRUE]
    OBVIOUS
  <1>1. w = [c \in {0} |-> u]
    BY <1>w, <1>u, Tamanio DEF PaginaNueva
  <1>2. DOMAIN w = {0} /\ w[0] = u /\ w = [c \in DOMAIN w |-> w[c]]
    BY <1>1
  <1>3. u \in Metadata /\ u.size = tamanio_pagina - 5
    <2>1. tamanio_pagina - 5 \in Nat
      BY Tamanio
    <2> QED BY <1>u, <2>1, UnBloque
  <1>4. w \in Cadena
    <2>1. DOMAIN w \subseteq 0 .. tamanio_pagina - 1
      BY <1>2, Tamanio
    <2> QED BY <1>2, <1>3, <2>1, DeCadena
  <1>5. Fin(0, w[0]) = tamanio_pagina
    BY <1>2, <1>3, Tamanio DEF Fin
  <1>6. Encadenados(w)
    BY <1>2, <1>5 DEF Encadenados
  <1> QED BY <1>w, <1>u, <1>2, <1>4, <1>6

-----------------------------------------------------------------------------
(* Blocks taken *)

LEMMA TomadosSon ==
  ASSUME NEW w, NEW x
  PROVE  x \in Tomados(w) <=> \E c \in DOMAIN w : ~w[c].isFree /\ x = <<c + 5, w[c].size>>
  BY Tamanio DEF Tomados

\* An offset is of one block
LEMMA TomadoUnico ==
  ASSUME NEW w \in Cadena, NEW c \in DOMAIN w, NEW s, <<c + 5, s>> \in Tomados(w)
  PROVE  ~w[c].isFree /\ w[c].size = s
  <1>1. PICK d \in DOMAIN w : ~w[d].isFree /\ <<c + 5, s>> = <<d + 5, w[d].size>>
    BY TomadosSon
  <1>2. c \in Nat /\ d \in Nat /\ c + 5 = d + 5
    BY <1>1, BloqueDe
  <1>3. c = d
    BY <1>2
  <1> QED BY <1>1, <1>3

LEMMA PartidaToma ==
  ASSUME NEW w \in Cadena, Encadenados(w), NEW c \in DOMAIN w, w[c].isFree,
         NEW e \in Nat, w[c].size >= e + 5,
         NEW v, v = Partida(w, c, w[c], e)
  PROVE  Tomados(v) = Tomados(w) \cup {<<c + 5, e>>}
  <1>d. PICK d : d = c + 5 + e
    OBVIOUS
  <1>1. /\ d \notin DOMAIN w /\ DOMAIN v = DOMAIN w \cup {d}
        /\ v[c] = [size |-> e, isFree |-> FALSE]
        /\ v[d] = [size |-> w[c].size - (e + 5), isFree |-> TRUE]
        /\ \A x \in DOMAIN w : x # c => v[x] = w[x]
    BY <1>d, PartidaEncadena
  <1>2. ~v[c].isFree /\ v[c].size = e /\ v[d].isFree
    BY <1>1
  <1>3. ASSUME NEW x \in Tomados(v)
        PROVE  x \in Tomados(w) \cup {<<c + 5, e>>}
    <2>1. PICK y \in DOMAIN v : ~v[y].isFree /\ x = <<y + 5, v[y].size>>
      BY TomadosSon
    <2>2. CASE y = c
      BY <2>1, <2>2, <1>2
    <2>3. CASE y # c
      <3>1. y \in DOMAIN w /\ v[y] = w[y]
        BY <1>1, <1>2, <2>1, <2>3
      <3>2. x \in Tomados(w)
        BY <2>1, <3>1, TomadosSon
      <3> QED BY <3>2
    <2> QED BY <2>2, <2>3
  <1>4. ASSUME NEW x \in Tomados(w)
        PROVE  x \in Tomados(v)
    <2>1. PICK y \in DOMAIN w : ~w[y].isFree /\ x = <<y + 5, w[y].size>>
      BY TomadosSon
    <2>2. y # c
      BY <2>1
    <2>3. y \in DOMAIN v /\ v[y] = w[y]
      BY <2>2, <1>1
    <2> QED BY <2>1, <2>3, TomadosSon
  <1>5. <<c + 5, e>> \in Tomados(v)
    <2>1. c \in DOMAIN v
      BY <1>1
    <2> QED BY <1>2, <2>1, TomadosSon
  <1> QED BY <1>3, <1>4, <1>5

LEMMA UnidosToman ==
  ASSUME NEW w \in Cadena, Encadenados(w), NEW c \in DOMAIN w, w[c].isFree,
         NEW d \in DOMAIN w, d = Fin(c, w[c]), w[d].isFree,
         NEW v, v = Absorbe(w, c, d, Unidos(w[c], w[d]))
  PROVE  Tomados(v) = Tomados(w)
  <1>1. /\ DOMAIN v = DOMAIN w \ {d} /\ c # d
        /\ v[c] = [size |-> w[c].size + 5 + w[d].size, isFree |-> TRUE]
        /\ \A x \in DOMAIN v : x # c => v[x] = w[x]
    BY UnidosEncadenan
  <1>2. v[c].isFree
    BY <1>1
  <1>3. \A y : y \in DOMAIN v /\ ~v[y].isFree <=> y \in DOMAIN w /\ ~w[y].isFree
    BY <1>1, <1>2
  <1>4. \A y : y \in DOMAIN v /\ ~v[y].isFree => v[y] = w[y]
    BY <1>1, <1>2
  <1>5. ASSUME NEW x
        PROVE  x \in Tomados(v) <=> x \in Tomados(w)
    BY <1>3, <1>4, TomadosSon
  <1> QED BY <1>5

LEMMA LiberarSuelta ==
  ASSUME NEW w \in Cadena, Encadenados(w), NEW c \in DOMAIN w, ~w[c].isFree,
         NEW v, v = Escribe(w, c, [size |-> w[c].size, isFree |-> TRUE])
  PROVE  Tomados(v) = Tomados(w) \ {<<c + 5, w[c].size>>}
  <1>1. /\ DOMAIN v = DOMAIN w
        /\ v[c] = [size |-> w[c].size, isFree |-> TRUE]
        /\ \A x \in DOMAIN w : x # c => v[x] = w[x]
    BY LiberarEncadena
  <1>2. v[c].isFree
    BY <1>1
  <1>3. ASSUME NEW x \in Tomados(v)
        PROVE  x \in Tomados(w) /\ x # <<c + 5, w[c].size>>
    <2>1. PICK y \in DOMAIN v : ~v[y].isFree /\ x = <<y + 5, v[y].size>>
      BY TomadosSon
    <2>2. y # c /\ y \in DOMAIN w /\ v[y] = w[y]
      BY <2>1, <1>1, <1>2
    <2>3. y \in Nat /\ c \in Nat
      BY <2>2, BloqueDe
    <2>4. x[1] = y + 5 /\ y + 5 # c + 5
      BY <2>1, <2>2, <2>3
    <2>5. x \in Tomados(w)
      BY <2>1, <2>2, TomadosSon
    <2>6. x # <<c + 5, w[c].size>>
      BY <2>4
    <2> QED BY <2>5, <2>6
  <1>4. ASSUME NEW x \in Tomados(w), x # <<c + 5, w[c].size>>
        PROVE  x \in Tomados(v)
    <2>1. PICK y \in DOMAIN w : ~w[y].isFree /\ x = <<y + 5, w[y].size>>
      BY TomadosSon
    <2>2. y # c
      BY <2>1, <1>4
    <2>3. y \in DOMAIN v /\ v[y] = w[y]
      BY <1>1, <2>2
    <2> QED BY <2>1, <2>3, TomadosSon
  <1> QED BY <1>3, <1>4

LEMMA NuevaSinTomados == Tomados(PaginaNueva) = {}
  <1>1. \A c \in DOMAIN PaginaNueva : PaginaNueva[c].isFree
    BY NuevaEncadena
  <1> QED BY <1>1, TomadosSon

-----------------------------------------------------------------------------
(* Bytes that are free *)

\* The function SumaLibre defines, up to a place
Sumas(w, m, f) ==
  f = [c \in 0 .. m |-> IF c = 0 THEN 0 ELSE f[c - 1] + LibresEn(w, c - 1)]

LEMMA HaySumas ==
  ASSUME NEW w, NEW m \in Nat
  PROVE  \E f : Sumas(w, m, f)
  <1> DEFINE Sin == {x \in Nat : ~(\E f : Sumas(w, x, f))}
  <1>1. ASSUME Sin # {}
        PROVE  FALSE
    <2>1. Sin \in SUBSET Nat
      OBVIOUS
    <2> HIDE DEF Sin
    <2>2. PICK x \in Sin : \A y \in Sin : x <= y
      BY <1>1, <2>1, HayMinimo
    <2>3. x \in Nat /\ ~(\E f : Sumas(w, x, f))
      BY <2>2 DEF Sin
    <2>4. CASE x = 0
      <3> DEFINE g == [c \in 0 .. 0 |-> 0]
      <3>1. g = [c \in 0 .. 0 |-> IF c = 0 THEN 0 ELSE g[c - 1] + LibresEn(w, c - 1)]
        OBVIOUS
      <3>2. Sumas(w, 0, g)
        BY <3>1 DEF Sumas
      <3> QED BY <3>2, <2>3, <2>4
    <2>5. CASE x # 0
      <3>1. x - 1 \in Nat /\ ~(x <= x - 1)
        BY <2>3, <2>5
      <3>2. x - 1 \notin Sin
        BY <3>1, <2>2
      <3>3. PICK f : Sumas(w, x - 1, f)
        BY <3>1, <3>2 DEF Sin
      <3> DEFINE g == [c \in 0 .. x |-> IF c = x THEN f[x - 1] + LibresEn(w, x - 1) ELSE f[c]]
      <3>4. ASSUME NEW c \in 0 .. x
            PROVE  g[c] = IF c = 0 THEN 0 ELSE g[c - 1] + LibresEn(w, c - 1)
        <4>1. CASE c = x
          <5>1. x - 1 \in 0 .. x /\ x - 1 # x /\ c # 0
            BY <2>3, <2>5, <4>1
          <5> QED BY <5>1, <4>1
        <4>2. CASE c # x
          <5>1. c \in 0 .. x - 1 /\ g[c] = f[c]
            BY <2>3, <4>2
          <5>2. f[c] = IF c = 0 THEN 0 ELSE f[c - 1] + LibresEn(w, c - 1)
            BY <5>1, <3>3 DEF Sumas
          <5>3. c # 0 => c - 1 \in 0 .. x /\ c - 1 # x
            BY <5>1, <2>3
          <5>4. c # 0 => g[c - 1] = f[c - 1]
            BY <5>3
          <5> HIDE DEF g
          <5> QED BY <5>1, <5>2, <5>4
        <4> QED BY <4>1, <4>2
      <3>5. Sumas(w, x, g)
        <4>1. DOMAIN g = 0 .. x /\ g = [c \in DOMAIN g |-> g[c]]
          OBVIOUS
        <4> HIDE DEF g
        <4> QED BY <4>1, <3>4 DEF Sumas
      <3> QED BY <3>5, <2>3
    <2> QED BY <2>4, <2>5
  <1> QED BY <1>1

LEMMA LibresEnNat ==
  ASSUME NEW w \in Cadena, NEW c
  PROVE  LibresEn(w, c) \in Nat
  <1>1. c \in DOMAIN w => w[c].size \in Nat
    BY BloqueDe
  <1> QED BY <1>1 DEF LibresEn, EnCadena

\* Two chains that are equal but in two places: so are the bytes free
LEMMA SumasDeDos ==
  ASSUME NEW w \in Cadena, NEW v \in Cadena, NEW a \in 0 .. tamanio_pagina - 1, NEW b \in 0 .. tamanio_pagina - 1,
         a < b,
         \A c \in 0 .. tamanio_pagina - 1 : c # a /\ c # b => LibresEn(v, c) = LibresEn(w, c),
         NEW f, Sumas(w, tamanio_pagina, f), NEW g, Sumas(v, tamanio_pagina, g),
         NEW da \in Int, da = LibresEn(v, a) - LibresEn(w, a),
         NEW db \in Int, db = LibresEn(v, b) - LibresEn(w, b)
  PROVE  /\ f[tamanio_pagina] \in Nat /\ g[tamanio_pagina] \in Nat
         /\ g[tamanio_pagina] = f[tamanio_pagina] + da + db
  <1> DEFINE Bueno(c) == /\ f[c] \in Nat /\ g[c] \in Nat
                         /\ g[c] = f[c] + (IF a < c THEN da ELSE 0) + (IF b < c THEN db ELSE 0)
  <1> DEFINE Malos == {c \in 0 .. tamanio_pagina : ~Bueno(c)}
  <1>t. tamanio_pagina \in Nat
    BY Tamanio
  <1>0. a \in Nat /\ b \in Nat /\ a < tamanio_pagina /\ b < tamanio_pagina
    BY <1>t
  <1>1. ASSUME Malos # {}
        PROVE  FALSE
    <2>1. Malos \in SUBSET Nat
      OBVIOUS
    <2>2. \A y \in Malos : y \in 0 .. tamanio_pagina /\ ~Bueno(y)
      OBVIOUS
    <2>3. \A y \in 0 .. tamanio_pagina : y \notin Malos => Bueno(y)
      OBVIOUS
    <2> HIDE DEF Malos, Bueno
    <2>4. PICK x \in Malos : \A y \in Malos : x <= y
      BY <1>1, <2>1, HayMinimo
    <2>5. x \in 0 .. tamanio_pagina /\ ~Bueno(x)
      BY <2>2
    <2>6. CASE x = 0
      <3>1. f[0] = 0 /\ g[0] = 0
        BY <1>t DEF Sumas
      <3>2. ~(a < 0) /\ ~(b < 0)
        BY <1>0
      <3>3. Bueno(0)
        BY <3>1, <3>2 DEF Bueno
      <3> QED BY <3>3, <2>5, <2>6
    <2>7. CASE x # 0
      <3>y. PICK y : y = x - 1
        OBVIOUS
      <3>1. y \in 0 .. tamanio_pagina /\ ~(x <= y) /\ y \in Nat /\ x = y + 1 /\ x \in Nat
            /\ y \in 0 .. tamanio_pagina - 1
        BY <2>5, <2>7, <3>y, <1>t
      <3>2. Bueno(y)
        BY <3>1, <2>3, <2>4
      <3>3. f[x] = f[y] + LibresEn(w, y) /\ g[x] = g[y] + LibresEn(v, y)
        BY <2>5, <2>7, <3>y DEF Sumas
      <3>4. LibresEn(w, y) \in Nat /\ LibresEn(v, y) \in Nat
        BY LibresEnNat
      <3>l. PICK l, m : l = LibresEn(w, y) /\ m = LibresEn(v, y)
        OBVIOUS
      <3>f. PICK fy, gy : fy = f[y] /\ gy = g[y]
        OBVIOUS
      <3>5. /\ fy \in Nat /\ gy \in Nat /\ l \in Nat /\ m \in Nat
            /\ gy = fy + (IF a < y THEN da ELSE 0) + (IF b < y THEN db ELSE 0)
        BY <3>2, <3>4, <3>l, <3>f DEF Bueno
      <3>6. /\ y = a => m - l = da
            /\ y = b => m - l = db
            /\ y # a /\ y # b => m = l
        BY <3>1, <3>l
      <3>7. f[x] = fy + l /\ g[x] = gy + m
        BY <3>3, <3>l, <3>f
      <3>8. gy + m = fy + l + (IF a < x THEN da ELSE 0) + (IF b < x THEN db ELSE 0)
        <4>1. CASE y = a
          BY <4>1, <3>1, <3>5, <3>6, <1>0
        <4>2. CASE y = b
          BY <4>2, <3>1, <3>5, <3>6, <1>0
        <4>3. CASE y # a /\ y # b
          <5>1. (a < x <=> a < y) /\ (b < x <=> b < y)
            BY <4>3, <3>1, <1>0
          <5> QED BY <4>3, <5>1, <3>5, <3>6
        <4> QED BY <4>1, <4>2, <4>3
      <3>9. Bueno(x)
        BY <3>5, <3>7, <3>8 DEF Bueno
      <3> QED BY <3>9, <2>5
    <2> QED BY <2>6, <2>7
  <1>2. Bueno(tamanio_pagina)
    BY <1>1, <1>t
  <1> QED BY <1>2, <1>0

LEMMA SumaLibreEs ==
  ASSUME NEW w
  PROVE  \E f : Sumas(w, tamanio_pagina, f) /\ SumaLibre(w) = f[tamanio_pagina]
  <1>f. PICK f : f = CHOOSE g : Sumas(w, tamanio_pagina, g)
    OBVIOUS
  <1>1. Sumas(w, tamanio_pagina, f)
    BY <1>f, Tamanio, HaySumas
  <1>2. SumaLibre(w) = f[tamanio_pagina]
    BY <1>f, Zenon DEF SumaLibre, Sumas
  <1> QED BY <1>1, <1>2

LEMMA SumaDeDos ==
  ASSUME NEW w \in Cadena, NEW v \in Cadena, NEW a \in 0 .. tamanio_pagina - 1, NEW b \in 0 .. tamanio_pagina - 1,
         a < b,
         \A c \in 0 .. tamanio_pagina - 1 : c # a /\ c # b => LibresEn(v, c) = LibresEn(w, c)
  PROVE  /\ SumaLibre(w) \in Nat /\ SumaLibre(v) \in Nat
         /\ SumaLibre(v) = SumaLibre(w) + (LibresEn(v, a) - LibresEn(w, a)) + (LibresEn(v, b) - LibresEn(w, b))
  <1>f. PICK f : Sumas(w, tamanio_pagina, f) /\ SumaLibre(w) = f[tamanio_pagina]
    BY SumaLibreEs
  <1>g. PICK g : Sumas(v, tamanio_pagina, g) /\ SumaLibre(v) = g[tamanio_pagina]
    BY SumaLibreEs
  <1>d. PICK da, db : da = LibresEn(v, a) - LibresEn(w, a) /\ db = LibresEn(v, b) - LibresEn(w, b)
    OBVIOUS
  <1>1. LibresEn(v, a) \in Nat /\ LibresEn(w, a) \in Nat /\ LibresEn(v, b) \in Nat /\ LibresEn(w, b) \in Nat
    BY LibresEnNat
  <1>2. da \in Int /\ db \in Int
    BY <1>1, <1>d
  <1>3. /\ f[tamanio_pagina] \in Nat /\ g[tamanio_pagina] \in Nat
        /\ g[tamanio_pagina] = f[tamanio_pagina] + da + db
    BY <1>f, <1>g, <1>d, <1>2, SumasDeDos
  <1> QED BY <1>3, <1>f, <1>g, <1>d

LEMMA LibresDe ==
  ASSUME NEW w, NEW c
  PROVE  /\ c \notin DOMAIN w => LibresEn(w, c) = 0
         /\ c \in DOMAIN w /\ w[c].isFree => LibresEn(w, c) = w[c].size
         /\ c \in DOMAIN w /\ ~w[c].isFree => LibresEn(w, c) = 0
  BY DEF LibresEn, EnCadena

LEMMA PartidaResta ==
  ASSUME NEW w \in Cadena, Encadenados(w), NEW c \in DOMAIN w, w[c].isFree,
         NEW e \in Nat, w[c].size >= e + 5,
         NEW v, v = Partida(w, c, w[c], e)
  PROVE  SumaLibre(w) \in Nat /\ SumaLibre(v) = SumaLibre(w) - (e + 5)
  <1>d. PICK d : d = c + 5 + e
    OBVIOUS
  <1>s. PICK s : s = w[c].size
    OBVIOUS
  <1>1. /\ v \in Cadena /\ d \notin DOMAIN w /\ DOMAIN v = DOMAIN w \cup {d} /\ c < d
        /\ v[c] = [size |-> e, isFree |-> FALSE]
        /\ v[d] = [size |-> s - (e + 5), isFree |-> TRUE]
        /\ \A x \in DOMAIN w : x # c => v[x] = w[x]
    BY <1>d, <1>s, PartidaEncadena, SMTT(20)
  <1>2. /\ ~v[c].isFree /\ v[d].isFree /\ v[d].size = s - (e + 5)
        /\ c \in DOMAIN v /\ d \in DOMAIN v
    BY <1>1
  <1>3. /\ LibresEn(v, c) = 0 /\ LibresEn(w, c) = s
        /\ LibresEn(v, d) = s - (e + 5) /\ LibresEn(w, d) = 0
    BY <1>1, <1>2, <1>s, LibresDe
  <1>4. \A x \in 0 .. tamanio_pagina - 1 : x # c /\ x # d => LibresEn(v, x) = LibresEn(w, x)
    BY <1>1 DEF LibresEn, EnCadena
  <1>5. c \in 0 .. tamanio_pagina - 1 /\ d \in 0 .. tamanio_pagina - 1 /\ s \in Nat
    BY <1>1, <1>2, <1>s, BloqueDe
  <1>6. /\ SumaLibre(w) \in Nat
        /\ SumaLibre(v) = SumaLibre(w) + (LibresEn(v, c) - LibresEn(w, c)) + (LibresEn(v, d) - LibresEn(w, d))
    BY <1>1, <1>4, <1>5, SumaDeDos
  <1> QED BY <1>3, <1>5, <1>6

LEMMA UnidosSuman ==
  ASSUME NEW w \in Cadena, Encadenados(w), NEW c \in DOMAIN w, w[c].isFree,
         NEW d \in DOMAIN w, d = Fin(c, w[c]), w[d].isFree,
         NEW v, v = Absorbe(w, c, d, Unidos(w[c], w[d]))
  PROVE  SumaLibre(w) \in Nat /\ SumaLibre(v) = SumaLibre(w) + 5
  <1>s. PICK s, t : s = w[c].size /\ t = w[d].size
    OBVIOUS
  <1>1. /\ v \in Cadena /\ DOMAIN v = DOMAIN w \ {d} /\ c # d /\ c < d
        /\ v[c] = [size |-> s + 5 + t, isFree |-> TRUE]
        /\ \A x \in DOMAIN v : x # c => v[x] = w[x]
    BY <1>s, UnidosEncadenan
  <1>2. v[c].isFree /\ v[c].size = s + 5 + t /\ c \in DOMAIN v /\ d \notin DOMAIN v
    BY <1>1
  <1>3. /\ LibresEn(v, c) = s + 5 + t /\ LibresEn(w, c) = s
        /\ LibresEn(v, d) = 0 /\ LibresEn(w, d) = t
    BY <1>1, <1>2, <1>s, LibresDe
  <1>4. \A x \in 0 .. tamanio_pagina - 1 : x # c /\ x # d => LibresEn(v, x) = LibresEn(w, x)
    BY <1>1 DEF LibresEn, EnCadena
  <1>5. c \in 0 .. tamanio_pagina - 1 /\ d \in 0 .. tamanio_pagina - 1 /\ s \in Nat /\ t \in Nat
    BY <1>s, BloqueDe
  <1>6. /\ SumaLibre(w) \in Nat
        /\ SumaLibre(v) = SumaLibre(w) + (LibresEn(v, c) - LibresEn(w, c)) + (LibresEn(v, d) - LibresEn(w, d))
    BY <1>1, <1>4, <1>5, SumaDeDos
  <1> QED BY <1>3, <1>5, <1>6

LEMMA LiberarSuma ==
  ASSUME NEW w \in Cadena, Encadenados(w), NEW c \in DOMAIN w, ~w[c].isFree,
         NEW v, v = Escribe(w, c, [size |-> w[c].size, isFree |-> TRUE])
  PROVE  SumaLibre(w) \in Nat /\ SumaLibre(v) = SumaLibre(w) + w[c].size
  <1>s. PICK s : s = w[c].size
    OBVIOUS
  <1>d. PICK d : d = c + 1
    OBVIOUS
  <1>1. /\ v \in Cadena /\ DOMAIN v = DOMAIN w
        /\ v[c] = [size |-> s, isFree |-> TRUE]
        /\ \A x \in DOMAIN w : x # c => v[x] = w[x]
    BY <1>s, LiberarEncadena
  <1>2. v[c].isFree /\ v[c].size = s /\ c \in DOMAIN v
    BY <1>1
  <1>3. LibresEn(v, c) = s /\ LibresEn(w, c) = 0
    BY <1>2, LibresDe
  <1>4. \A x \in 0 .. tamanio_pagina - 1 : x # c => LibresEn(v, x) = LibresEn(w, x)
    BY <1>1 DEF LibresEn, EnCadena
  <1>5. c \in 0 .. tamanio_pagina - 1 /\ d \in 0 .. tamanio_pagina - 1 /\ s \in Nat /\ c < d
    <2>1. c \in 0 .. tamanio_pagina - 1 /\ c + 5 + s <= tamanio_pagina /\ s \in Nat
      BY <1>s, BloqueDe, BloqueDentro
    <2> QED BY <1>d, <2>1, Tamanio
  <1>6. LibresEn(v, d) = LibresEn(w, d) /\ LibresEn(w, d) \in Nat
    <2>1. d # c
      BY <1>5, BloqueDe
    <2>2. LibresEn(w, d) \in Nat
      BY LibresEnNat
    <2> QED BY <1>4, <1>5, <2>1, <2>2
  <1>7. /\ SumaLibre(w) \in Nat
        /\ SumaLibre(v) = SumaLibre(w) + (LibresEn(v, c) - LibresEn(w, c)) + (LibresEn(v, d) - LibresEn(w, d))
    BY <1>1, <1>4, <1>5, SumaDeDos
  <1> QED BY <1>3, <1>5, <1>6, <1>7, <1>s

LEMMA NuevaLibre == SumaLibre(PaginaNueva) = tamanio_pagina - 5
  <1>w. PICK w : w = PaginaNueva
    OBVIOUS
  <1>1. /\ w \in Cadena /\ DOMAIN w = {0} /\ w[0] = [size |-> tamanio_pagina - 5, isFree |-> TRUE]
    BY <1>w, NuevaEncadena
  <1>f. PICK f : Sumas(w, tamanio_pagina, f) /\ SumaLibre(w) = f[tamanio_pagina]
    BY SumaLibreEs
  <1>2. LibresEn(w, 0) = tamanio_pagina - 5 /\ \A c \in Nat : c # 0 => LibresEn(w, c) = 0
    BY <1>1, LibresDe
  <1> DEFINE Malos == {c \in 1 .. tamanio_pagina : f[c] # tamanio_pagina - 5}
  <1>3. ASSUME Malos # {}
        PROVE  FALSE
    <2>1. Malos \in SUBSET Nat
      OBVIOUS
    <2>2. \A y : y \in Malos <=> y \in 1 .. tamanio_pagina /\ f[y] # tamanio_pagina - 5
      OBVIOUS
    <2> HIDE DEF Malos
    <2>3. PICK x \in Malos : \A y \in Malos : x <= y
      BY <1>3, <2>1, HayMinimo
    <2>y. PICK y : y = x - 1
      OBVIOUS
    <2>4. x \in 1 .. tamanio_pagina /\ y \in Nat /\ ~(x <= y) /\ x # 0 /\ x \in 0 .. tamanio_pagina
      BY <2>2, <2>3, <2>y, Tamanio
    <2>5. f[x] = f[y] + LibresEn(w, y)
      BY <2>4, <2>y, <1>f DEF Sumas
    <2>6. CASE y = 0
      <3>1. f[0] = 0
        BY <1>f, Tamanio DEF Sumas
      <3>2. f[x] = tamanio_pagina - 5
        BY <3>1, <2>5, <2>6, <1>2, Tamanio
      <3> QED BY <3>2, <2>2, <2>3
    <2>7. CASE y # 0
      <3>1. y \in 1 .. tamanio_pagina
        BY <2>4, <2>7, <2>y, Tamanio
      <3>2. f[y] = tamanio_pagina - 5
        BY <3>1, <2>2, <2>3, <2>4
      <3>3. f[x] = tamanio_pagina - 5
        BY <3>2, <2>4, <2>5, <2>7, <1>2, Tamanio
      <3> QED BY <3>3, <2>2, <2>3
    <2> QED BY <2>6, <2>7
  <1>4. f[tamanio_pagina] = tamanio_pagina - 5
    BY <1>3, Tamanio
  <1> QED BY <1>4, <1>f, <1>w

-----------------------------------------------------------------------------
(* Looking for a block *)

\* The function alocar defines
Desde(w, e, f) ==
  f = [c \in 0 .. tamanio_pagina |->
         IF c = tamanio_pagina THEN {[offset |-> -1, meta |-> w, raro |-> {"fuera"}]}
         ELSE UNION {
           IF m.isFree /\ m.size >= e + tamanio_metadata
             THEN {[offset |-> c + tamanio_metadata, meta |-> Partida(w, c, m, e),
                    raro |-> IF EnCadena(w, c) THEN {} ELSE {"basura"}]}
             ELSE f[Hasta(Fin(c, m))] : m \in Lee(w, c)}]

\* What it is at a place, from what it is further on
DesdeAqui(w, e, c, f) ==
  IF c = tamanio_pagina THEN {[offset |-> -1, meta |-> w, raro |-> {"fuera"}]}
  ELSE UNION {
    IF m.isFree /\ m.size >= e + tamanio_metadata
      THEN {[offset |-> c + tamanio_metadata, meta |-> Partida(w, c, m, e),
             raro |-> IF EnCadena(w, c) THEN {} ELSE {"basura"}]}
      ELSE f[Hasta(Fin(c, m))] : m \in Lee(w, c)}

LEMMA LeeMetadata ==
  ASSUME NEW w \in Cadena, NEW c, NEW m \in Lee(w, c)
  PROVE  m \in Metadata
  <1>1. c \in DOMAIN w => w[c] \in Metadata
    BY DeCadena
  <1> QED BY <1>1, HeapAssumption DEF Lee, EnCadena, HeapAssumption

LEMMA HastaAvanza ==
  ASSUME NEW c \in 0 .. tamanio_pagina - 1, NEW m \in Metadata
  PROVE  /\ Hasta(Fin(c, m)) \in 0 .. tamanio_pagina /\ Hasta(Fin(c, m)) > c
         /\ Fin(c, m) \in Nat /\ Fin(c, m) = c + 5 + m.size
  <1>1. m.size \in Nat /\ c \in Nat
    BY Tamanio DEF Metadata
  <1>2. Fin(c, m) = c + 5 + m.size
    BY Tamanio DEF Fin
  <1> QED BY <1>1, <1>2, Tamanio DEF Hasta

LEMMA DesdeAquiIgual ==
  ASSUME NEW w \in Cadena, NEW e, NEW c \in 0 .. tamanio_pagina, NEW f, NEW g,
         \A x \in 0 .. tamanio_pagina : x > c => f[x] = g[x]
  PROVE  DesdeAqui(w, e, c, f) = DesdeAqui(w, e, c, g)
  <1>1. CASE c = tamanio_pagina
    BY <1>1 DEF DesdeAqui
  <1>2. CASE c # tamanio_pagina
    <2>1. c \in 0 .. tamanio_pagina - 1
      BY <1>2, Tamanio
    <2>2. \A m \in Lee(w, c) : f[Hasta(Fin(c, m))] = g[Hasta(Fin(c, m))]
      <3>1. ASSUME NEW m \in Lee(w, c)
            PROVE  f[Hasta(Fin(c, m))] = g[Hasta(Fin(c, m))]
        <4>1. m \in Metadata
          BY LeeMetadata
        <4>2. Hasta(Fin(c, m)) \in 0 .. tamanio_pagina /\ Hasta(Fin(c, m)) > c
          BY <2>1, <4>1, HastaAvanza
        <4> QED BY <4>2
      <3> QED BY <3>1
    <2>3. ASSUME NEW F, NEW G, \A m \in Lee(w, c) : F[Hasta(Fin(c, m))] = G[Hasta(Fin(c, m))],
                 NEW r \in DesdeAqui(w, e, c, F)
          PROVE  r \in DesdeAqui(w, e, c, G)
      <3>1. PICK m \in Lee(w, c) :
              r \in IF m.isFree /\ m.size >= e + tamanio_metadata
                      THEN {[offset |-> c + tamanio_metadata, meta |-> Partida(w, c, m, e),
                             raro |-> IF EnCadena(w, c) THEN {} ELSE {"basura"}]}
                      ELSE F[Hasta(Fin(c, m))]
        BY <1>2, <2>3, Zenon DEF DesdeAqui
      <3>2. r \in IF m.isFree /\ m.size >= e + tamanio_metadata
                    THEN {[offset |-> c + tamanio_metadata, meta |-> Partida(w, c, m, e),
                           raro |-> IF EnCadena(w, c) THEN {} ELSE {"basura"}]}
                    ELSE G[Hasta(Fin(c, m))]
        BY <3>1, <2>3, Zenon
      <3> QED BY <3>2, <1>2, Zenon DEF DesdeAqui
    <2>4. \A r \in DesdeAqui(w, e, c, f) : r \in DesdeAqui(w, e, c, g)
      BY <2>2, <2>3
    <2>5. \A m \in Lee(w, c) : g[Hasta(Fin(c, m))] = f[Hasta(Fin(c, m))]
      BY <2>2
    <2>6. \A r \in DesdeAqui(w, e, c, g) : r \in DesdeAqui(w, e, c, f)
      BY <2>3, <2>5
    <2> QED BY <2>4, <2>6
  <1> QED BY <1>1, <1>2

\* It is defined from each place on
LEMMA HayDesde ==
  ASSUME NEW w \in Cadena, NEW e
  PROVE  \E f : Desde(w, e, f)
  <1> DEFINE Bueno(h) == \E f : \A c \in h .. tamanio_pagina : f[c] = DesdeAqui(w, e, c, f)
  <1> DEFINE Malos == {n \in 0 .. tamanio_pagina : ~Bueno(tamanio_pagina - n)}
  <1>t. tamanio_pagina \in Nat
    BY Tamanio
  <1>1. ASSUME Malos # {}
        PROVE  FALSE
    <2>1. Malos \in SUBSET Nat
      OBVIOUS
    <2>2. \A n : n \in Malos <=> n \in 0 .. tamanio_pagina /\ ~Bueno(tamanio_pagina - n)
      OBVIOUS
    <2> HIDE DEF Malos, Bueno
    <2>3. PICK n \in Malos : \A y \in Malos : n <= y
      BY <1>1, <2>1, HayMinimo
    <2>h. PICK h : h = tamanio_pagina - n
      OBVIOUS
    <2>4. n \in 0 .. tamanio_pagina /\ h \in 0 .. tamanio_pagina /\ ~Bueno(h)
      BY <2>2, <2>h, <1>t
    <2>5. \E f : \A c \in h + 1 .. tamanio_pagina : f[c] = DesdeAqui(w, e, c, f)
      <3>1. CASE n = 0
        <4>1. h + 1 .. tamanio_pagina = {}
          BY <3>1, <2>h, <1>t
        <4> QED BY <4>1
      <3>2. CASE n # 0
        <4>1. n - 1 \in 0 .. tamanio_pagina /\ ~(n <= n - 1) /\ tamanio_pagina - (n - 1) = h + 1
          BY <3>2, <2>4, <2>h, <1>t
        <4>2. Bueno(h + 1)
          BY <4>1, <2>2, <2>3
        <4> QED BY <4>2 DEF Bueno
      <3> QED BY <3>1, <3>2
    <2>6. PICK f : \A c \in h + 1 .. tamanio_pagina : f[c] = DesdeAqui(w, e, c, f)
      BY <2>5
    <2>a. PICK a : a = DesdeAqui(w, e, h, f)
      OBVIOUS
    <2>g. PICK g : g = [c \in 0 .. tamanio_pagina |-> IF c = h THEN a ELSE f[c]]
      OBVIOUS
    <2>7. g[h] = a /\ \A c \in 0 .. tamanio_pagina : c # h => g[c] = f[c]
      BY <2>4, <2>g
    <2>8. ASSUME NEW c \in h .. tamanio_pagina
          PROVE  g[c] = DesdeAqui(w, e, c, g)
      <3>1. c \in 0 .. tamanio_pagina
        BY <2>4
      <3>2. \A x \in 0 .. tamanio_pagina : x > c => f[x] = g[x]
        BY <2>4, <2>7
      <3>3. DesdeAqui(w, e, c, f) = DesdeAqui(w, e, c, g)
        BY <3>1, <3>2, DesdeAquiIgual
      <3>4. g[c] = DesdeAqui(w, e, c, f)
        <4>1. CASE c = h
          BY <4>1, <2>7, <2>a
        <4>2. CASE c # h
          <5>1. c \in h + 1 .. tamanio_pagina
            BY <4>2, <2>4
          <5> QED BY <5>1, <3>1, <4>2, <2>6, <2>7
        <4> QED BY <4>1, <4>2
      <3> QED BY <3>3, <3>4
    <2>9. Bueno(h)
      BY <2>8 DEF Bueno
    <2> QED BY <2>9, <2>4
  <1>2. Bueno(0)
    <2>1. tamanio_pagina \in 0 .. tamanio_pagina /\ tamanio_pagina - tamanio_pagina = 0
      BY <1>t
    <2>2. tamanio_pagina \notin Malos
      BY <1>1
    <2> QED BY <2>1, <2>2
  <1>3. PICK f : \A c \in 0 .. tamanio_pagina : f[c] = DesdeAqui(w, e, c, f)
    BY <1>2
  <1>g. PICK g : g = [c \in 0 .. tamanio_pagina |-> f[c]]
    OBVIOUS
  <1>4. \A c \in 0 .. tamanio_pagina : g[c] = f[c]
    BY <1>g
  <1>5. ASSUME NEW c \in 0 .. tamanio_pagina
        PROVE  g[c] = DesdeAqui(w, e, c, g)
    <2>1. DesdeAqui(w, e, c, f) = DesdeAqui(w, e, c, g)
      BY <1>4, DesdeAquiIgual
    <2> QED BY <2>1, <1>3, <1>4
  <1>6. g = [c \in 0 .. tamanio_pagina |-> DesdeAqui(w, e, c, g)]
    BY <1>5, <1>g
  <1>7. Desde(w, e, g)
    BY <1>6, Zenon DEF Desde, DesdeAqui
  <1> QED BY <1>7

LEMMA AlocarEs ==
  ASSUME NEW w \in Cadena, NEW e
  PROVE  \E f : /\ alocar(w, e) = f[0]
                /\ \A c \in 0 .. tamanio_pagina : f[c] = DesdeAqui(w, e, c, f)
  <1>f. PICK f : f = CHOOSE g : Desde(w, e, g)
    OBVIOUS
  <1>1. Desde(w, e, f)
    BY <1>f, HayDesde
  <1>2. alocar(w, e) = f[0]
    BY <1>f, Zenon DEF alocar, Desde
  <1>3. f = [c \in 0 .. tamanio_pagina |-> DesdeAqui(w, e, c, f)]
    BY <1>1, Zenon DEF Desde, DesdeAqui
  <1>4. \A c \in 0 .. tamanio_pagina : f[c] = DesdeAqui(w, e, c, f)
    BY <1>3
  <1> QED BY <1>2, <1>4

\* A block that is free and big enough, or none
Hallado(w, e, r) ==
  \/ r.offset = -1 /\ r.raro = {"fuera"} /\ r.meta = w
  \/ \E c \in 0 .. tamanio_pagina - 1 : \E m \in Lee(w, c) :
       /\ m \in Metadata /\ m.isFree /\ m.size >= e + 5
       /\ r.offset = c + 5 /\ r.meta = Partida(w, c, m, e)
       /\ r.raro = IF EnCadena(w, c) THEN {} ELSE {"basura"}

LEMMA AlocarHalla ==
  ASSUME NEW w \in Cadena, NEW e, NEW r \in alocar(w, e)
  PROVE  Hallado(w, e, r)
  <1>f. PICK f : /\ alocar(w, e) = f[0]
                 /\ \A c \in 0 .. tamanio_pagina : f[c] = DesdeAqui(w, e, c, f)
    BY AlocarEs
  <1> DEFINE Malos == {n \in 0 .. tamanio_pagina : \E x \in f[tamanio_pagina - n] : ~Hallado(w, e, x)}
  <1>t. tamanio_pagina \in Nat
    BY Tamanio
  <1>1. ASSUME Malos # {}
        PROVE  FALSE
    <2>1. Malos \in SUBSET Nat
      OBVIOUS
    <2>2. \A n : n \in Malos <=> n \in 0 .. tamanio_pagina /\ \E x \in f[tamanio_pagina - n] : ~Hallado(w, e, x)
      OBVIOUS
    <2> HIDE DEF Malos
    <2>3. PICK n \in Malos : \A y \in Malos : n <= y
      BY <1>1, <2>1, HayMinimo
    <2>h. PICK h : h = tamanio_pagina - n
      OBVIOUS
    <2>4. n \in 0 .. tamanio_pagina /\ h \in 0 .. tamanio_pagina
      BY <2>2, <2>3, <2>h, <1>t
    <2>5. PICK x \in f[h] : ~Hallado(w, e, x)
      BY <2>2, <2>3, <2>h
    <2>6. x \in DesdeAqui(w, e, h, f)
      BY <2>4, <2>5, <1>f
    <2>7. CASE h = tamanio_pagina
      <3>1. x = [offset |-> -1, meta |-> w, raro |-> {"fuera"}]
        BY <2>6, <2>7 DEF DesdeAqui
      <3> QED BY <3>1, <2>5 DEF Hallado
    <2>8. CASE h # tamanio_pagina
      <3>0. h \in 0 .. tamanio_pagina - 1
        BY <2>4, <2>8, <1>t
      <3>1. PICK m \in Lee(w, h) :
              x \in IF m.isFree /\ m.size >= e + tamanio_metadata
                      THEN {[offset |-> h + tamanio_metadata, meta |-> Partida(w, h, m, e),
                             raro |-> IF EnCadena(w, h) THEN {} ELSE {"basura"}]}
                      ELSE f[Hasta(Fin(h, m))]
        BY <2>6, <2>8, Zenon DEF DesdeAqui
      <3>2. m \in Metadata
        BY LeeMetadata
      <3>3. CASE m.isFree /\ m.size >= e + tamanio_metadata
        <4>1. x = [offset |-> h + 5, meta |-> Partida(w, h, m, e),
                   raro |-> IF EnCadena(w, h) THEN {} ELSE {"basura"}]
          BY <3>1, <3>3, Tamanio
        <4>2. /\ x.offset = h + 5 /\ x.meta = Partida(w, h, m, e)
              /\ x.raro = IF EnCadena(w, h) THEN {} ELSE {"basura"}
          BY <4>1
        <4>3. m.size >= e + 5
          BY <3>3, Tamanio
        <4> QED BY <4>2, <4>3, <3>0, <3>2, <3>3, <2>5 DEF Hallado
      <3>4. CASE ~(m.isFree /\ m.size >= e + tamanio_metadata)
        <4>k. PICK k : k = Hasta(Fin(h, m))
          OBVIOUS
        <4>1. x \in f[k]
          BY <3>1, <3>4, <4>k
        <4>2. k \in 0 .. tamanio_pagina /\ k > h
          BY <3>0, <3>2, <4>k, HastaAvanza
        <4>y. PICK y : y = tamanio_pagina - k
          OBVIOUS
        <4>3. y \in 0 .. tamanio_pagina /\ tamanio_pagina - y = k /\ ~(n <= y)
          BY <4>2, <4>y, <2>4, <2>h, <1>t
        <4>4. y \in Malos
          BY <4>1, <4>3, <2>2, <2>5
        <4> QED BY <4>3, <4>4, <2>3
      <3> QED BY <3>3, <3>4
    <2> QED BY <2>7, <2>8
  <1>2. tamanio_pagina \in 0 .. tamanio_pagina /\ tamanio_pagina - tamanio_pagina = 0
    BY <1>t
  <1>3. \A x \in f[0] : Hallado(w, e, x)
    <2>1. tamanio_pagina \notin Malos
      BY <1>1
    <2> QED BY <2>1, <1>2
  <1> QED BY <1>3, <1>f

\* In a page that is a stack, what is looked for is found at its end
LEMMA AlocarEnPila ==
  ASSUME NEW w \in Cadena, Encadenados(w), NEW d \in DOMAIN w, UltimoLibre(w, d),
         NEW e \in Nat, w[d].size >= e + 5, NEW r \in alocar(w, e)
  PROVE  r.offset = d + 5 /\ r.meta = Partida(w, d, w[d], e) /\ r.raro = {}
  <1>f. PICK f : /\ alocar(w, e) = f[0]
                 /\ \A c \in 0 .. tamanio_pagina : f[c] = DesdeAqui(w, e, c, f)
    BY AlocarEs
  <1> DEFINE Halla(x) == x.offset = d + 5 /\ x.meta = Partida(w, d, w[d], e) /\ x.raro = {}
  <1> DEFINE Malos == {n \in 0 .. tamanio_pagina :
                         tamanio_pagina - n \in DOMAIN w /\ \E x \in f[tamanio_pagina - n] : ~Halla(x)}
  <1>t. tamanio_pagina \in Nat
    BY Tamanio
  <1>0. /\ d \in 0 .. tamanio_pagina - 1 /\ w[d].isFree /\ Fin(d, w[d]) = tamanio_pagina
        /\ \A c \in DOMAIN w : c # d => ~w[c].isFree
    BY BloqueDe DEF UltimoLibre
  <1>1. ASSUME Malos # {}
        PROVE  FALSE
    <2>1. Malos \in SUBSET Nat
      OBVIOUS
    <2>2. \A n : n \in Malos <=> /\ n \in 0 .. tamanio_pagina /\ tamanio_pagina - n \in DOMAIN w
                                 /\ \E x \in f[tamanio_pagina - n] : ~Halla(x)
      OBVIOUS
    <2> HIDE DEF Malos
    <2>3. PICK n \in Malos : \A y \in Malos : n <= y
      BY <1>1, <2>1, HayMinimo
    <2>h. PICK h : h = tamanio_pagina - n
      OBVIOUS
    <2>4. n \in 0 .. tamanio_pagina /\ h \in DOMAIN w
      BY <2>2, <2>3, <2>h
    <2>5. PICK x \in f[h] : ~Halla(x)
      BY <2>2, <2>3, <2>h
    <2>0. h \in 0 .. tamanio_pagina - 1 /\ h \in 0 .. tamanio_pagina /\ h # tamanio_pagina
          /\ w[h] \in Metadata /\ Fin(h, w[h]) \in Nat
      BY <2>4, BloqueDe, <1>t
    <2>6. x \in DesdeAqui(w, e, h, f)
      BY <2>0, <2>5, <1>f
    <2>7. Lee(w, h) = {w[h]}
      BY <2>4 DEF Lee, EnCadena
    <2>8. x \in IF w[h].isFree /\ w[h].size >= e + tamanio_metadata
                  THEN {[offset |-> h + tamanio_metadata, meta |-> Partida(w, h, w[h], e),
                         raro |-> IF EnCadena(w, h) THEN {} ELSE {"basura"}]}
                  ELSE f[Hasta(Fin(h, w[h]))]
      <3>1. PICK m \in Lee(w, h) :
              x \in IF m.isFree /\ m.size >= e + tamanio_metadata
                      THEN {[offset |-> h + tamanio_metadata, meta |-> Partida(w, h, m, e),
                             raro |-> IF EnCadena(w, h) THEN {} ELSE {"basura"}]}
                      ELSE f[Hasta(Fin(h, m))]
        BY <2>0, <2>6, Zenon DEF DesdeAqui
      <3>2. m = w[h]
        BY <2>7
      <3> QED BY <3>1, <3>2, Zenon
    <2>9. CASE h = d
      <3>1. w[h].isFree /\ w[h].size >= e + tamanio_metadata /\ EnCadena(w, h)
        BY <2>4, <2>9, <1>0, Tamanio DEF EnCadena
      <3>2. x = [offset |-> d + 5, meta |-> Partida(w, d, w[d], e), raro |-> {}]
        BY <2>8, <2>9, <3>1, Tamanio
      <3> QED BY <3>2, <2>5
    <2>10. CASE h # d
      <3>1. ~w[h].isFree
        BY <2>4, <2>10, <1>0
      <3>k. PICK k : k = Fin(h, w[h])
        OBVIOUS
      <3>2. x \in f[Hasta(k)]
        BY <2>8, <3>1, <3>k
      <3>3. k \in DOMAIN w
        <4>1. k \in DOMAIN w \cup {tamanio_pagina} /\ k <= tamanio_pagina /\ h + 5 <= k
          BY <2>4, <3>k, BloqueDentro
        <4>2. h < d => k <= d
          BY <2>4, <3>k, BloqueDentro
        <4>3. d < h => tamanio_pagina <= h
          BY <2>4, <1>0, BloqueDentro
        <4>4. k # tamanio_pagina
          BY <4>2, <4>3, <2>0, <2>10, <1>0, <1>t
        <4> QED BY <4>1, <4>4
      <3>4. k \in 0 .. tamanio_pagina - 1 /\ h + 5 <= k
        BY <2>4, <3>3, <3>k, BloqueDe, BloqueDentro
      <3>5. Hasta(k) = k
        BY <3>4, <1>t DEF Hasta
      <3>y. PICK y : y = tamanio_pagina - k
        OBVIOUS
      <3>6. y \in 0 .. tamanio_pagina /\ tamanio_pagina - y = k /\ ~(n <= y)
        BY <3>4, <3>y, <2>0, <2>4, <2>h, <1>t
      <3>7. y \in Malos
        BY <3>2, <3>3, <3>5, <3>6, <2>2, <2>5
      <3> QED BY <3>6, <3>7, <2>3
    <2> QED BY <2>9, <2>10
  <1>2. tamanio_pagina \in 0 .. tamanio_pagina /\ tamanio_pagina - tamanio_pagina = 0
    BY <1>t
  <1>3. 0 \in DOMAIN w
    BY DEF Encadenados
  <1>4. \A x \in f[0] : Halla(x)
    <2>1. tamanio_pagina \notin Malos
      BY <1>1
    <2> QED BY <2>1, <1>2, <1>3
  <1> QED BY <1>4, <1>f

-----------------------------------------------------------------------------
(* Compacting a page *)

\* Where the loop is, and what it has done
EnCurso == [meta : Cadena, libre : Int, raro : SUBSET {"basura", "fuera"}, c : Nat]

LEMMA UnCurso ==
  ASSUME NEW w \in Cadena, NEW l \in Int, NEW x \in SUBSET {"basura", "fuera"}, NEW c \in Nat
  PROVE  /\ [meta |-> w, libre |-> l, raro |-> x, c |-> c] \in EnCurso
         /\ [meta |-> w, libre |-> l, raro |-> x, c |-> c].meta = w
         /\ [meta |-> w, libre |-> l, raro |-> x, c |-> c].libre = l
         /\ [meta |-> w, libre |-> l, raro |-> x, c |-> c].raro = x
         /\ [meta |-> w, libre |-> l, raro |-> x, c |-> c].c = c
  BY DEF EnCurso

\* A turn goes on from e to r: over blocks, or joining two.
Pasa(e, r) ==
  /\ r \in EnCurso /\ r.meta = e.meta /\ r.libre = e.libre /\ r.raro = e.raro
  /\ r.c >= e.c + 5
Une(e, r, m, o) ==
  /\ m \in Lee(e.meta, e.c) /\ o \in Lee(e.meta, Fin(e.c, m)) /\ m.isFree /\ o.isFree
  /\ m \in Metadata /\ o \in Metadata
  /\ r \in EnCurso /\ r.meta = Absorbe(e.meta, e.c, Fin(e.c, m), Unidos(m, o))
  /\ r.libre = e.libre + 5
  /\ r.raro = e.raro \cup (IF EnCadena(e.meta, e.c) /\ EnCadena(e.meta, Fin(e.c, m)) THEN {} ELSE {"basura"})
                     \cup (IF e.c \in Desplazamientos THEN {} ELSE {"fuera"})
  /\ r.c = Fin(e.c, Unidos(m, o)) /\ r.c >= e.c + 5

\* What a turn does when it reads m
Turno(e, m) ==
  IF ~m.isFree THEN {[e EXCEPT !.c = Fin(e.c, m)]}
  ELSE {IF o.isFree
          THEN [meta  |-> Absorbe(e.meta, e.c, Fin(e.c, m), Unidos(m, o)),
                libre |-> e.libre + tamanio_metadata,
                raro  |-> e.raro \cup (IF EnCadena(e.meta, e.c) /\ EnCadena(e.meta, Fin(e.c, m))
                                        THEN {} ELSE {"basura"})
                                 \cup (IF e.c \in Desplazamientos THEN {} ELSE {"fuera"}),
                c     |-> Fin(e.c, Unidos(m, o))]
          ELSE [e EXCEPT !.c = Fin(Fin(e.c, m), m)]
        : o \in Lee(e.meta, Fin(e.c, m))}

LEMMA CompactaTurno ==
  ASSUME NEW e, NEW r \in Compacta(e), ~(e.c >= tamanio_pagina)
  PROVE  \E m \in Lee(e.meta, e.c) : r \in Turno(e, m)
  <1>1. Compacta(e) = UNION {Turno(e, m) : m \in Lee(e.meta, e.c)}
    BY Zenon DEF Compacta, Turno
  <1> QED BY <1>1, Zenon

LEMMA UnidosEs ==
  ASSUME NEW m \in Metadata, NEW o \in Metadata, NEW c \in Nat
  PROVE  /\ Unidos(m, o) \in Metadata
         /\ Fin(c, Unidos(m, o)) \in Nat /\ Fin(c, Unidos(m, o)) >= c + 5
         /\ Fin(c, m) \in Nat /\ Fin(c, m) >= c + 5
         /\ Unidos(m, o).isFree
  <1>s. PICK s, t : s = m.size /\ t = o.size
    OBVIOUS
  <1>1. s \in Nat /\ t \in Nat /\ s + 5 + t \in Nat
    BY <1>s DEF Metadata
  <1>u. PICK u : u = [size |-> s + 5 + t, isFree |-> TRUE]
    OBVIOUS
  <1>2. u \in Metadata /\ u.size = s + 5 + t /\ u.isFree
    BY <1>1, <1>u, UnBloque
  <1>3. u = Unidos(m, o)
    BY <1>u, <1>s, Tamanio DEF Unidos
  <1>4. Fin(c, u) = c + 5 + (s + 5 + t) /\ Fin(c, m) = c + 5 + s
    BY <1>2, <1>s, Tamanio DEF Fin
  <1> QED BY <1>1, <1>2, <1>3, <1>4

LEMMA MueveEs ==
  ASSUME NEW e \in EnCurso, NEW x \in Nat, x >= e.c + 5
  PROVE  Pasa(e, [e EXCEPT !.c = x])
  BY DEF Pasa, EnCurso

LEMMA UnaVuelta ==
  ASSUME NEW e \in EnCurso, NEW r \in Compacta(e)
  PROVE  \/ e.c >= tamanio_pagina /\ r = e
         \/ e.c < tamanio_pagina /\ Pasa(e, r)
         \/ e.c < tamanio_pagina /\ \E m, o : Une(e, r, m, o)
  <1>0. /\ e.meta \in Cadena /\ e.libre \in Int /\ e.raro \in SUBSET {"basura", "fuera"} /\ e.c \in Nat
    BY DEF EnCurso
  <1>1. CASE e.c >= tamanio_pagina
    <2>1. Compacta(e) = {e}
      BY <1>1 DEF Compacta
    <2> QED BY <1>1, <2>1
  <1>2. CASE ~(e.c >= tamanio_pagina)
    <2>1. PICK m \in Lee(e.meta, e.c) : r \in Turno(e, m)
      BY <1>2, CompactaTurno
    <2>0. e.c < tamanio_pagina /\ e.c \in 0 .. tamanio_pagina - 1
      BY <1>0, <1>2, Tamanio
    <2>2. m \in Metadata
      BY <1>0, LeeMetadata
    <2>3. Fin(e.c, m) \in Nat /\ Fin(e.c, m) >= e.c + 5
      BY <1>0, <2>2, UnidosEs
    <2>4. CASE ~m.isFree
      <3>1. r = [e EXCEPT !.c = Fin(e.c, m)]
        BY <2>1, <2>4 DEF Turno
      <3>2. Pasa(e, r)
        BY <3>1, <2>3, MueveEs
      <3> QED BY <3>2, <2>0
    <2>5. CASE m.isFree
      <3>1. PICK o \in Lee(e.meta, Fin(e.c, m)) :
              r = IF o.isFree
                    THEN [meta  |-> Absorbe(e.meta, e.c, Fin(e.c, m), Unidos(m, o)),
                          libre |-> e.libre + tamanio_metadata,
                          raro  |-> e.raro \cup (IF EnCadena(e.meta, e.c) /\ EnCadena(e.meta, Fin(e.c, m))
                                                  THEN {} ELSE {"basura"})
                                           \cup (IF e.c \in Desplazamientos THEN {} ELSE {"fuera"}),
                          c     |-> Fin(e.c, Unidos(m, o))]
                    ELSE [e EXCEPT !.c = Fin(Fin(e.c, m), m)]
        BY <2>1, <2>5, Zenon DEF Turno
      <3>2. o \in Metadata
        BY <1>0, LeeMetadata
      <3>3. CASE ~o.isFree
        <4>1. r = [e EXCEPT !.c = Fin(Fin(e.c, m), m)]
          BY <3>1, <3>3
        <4>2. Fin(Fin(e.c, m), m) \in Nat /\ Fin(Fin(e.c, m), m) >= Fin(e.c, m) + 5
          BY <2>2, <2>3, UnidosEs
        <4>3. Fin(Fin(e.c, m), m) >= e.c + 5
          BY <1>0, <2>3, <4>2
        <4>4. Pasa(e, r)
          BY <4>1, <4>2, <4>3, MueveEs
        <4> QED BY <4>4, <2>0
      <3>4. CASE o.isFree
        <4>w. PICK w : w = Absorbe(e.meta, e.c, Fin(e.c, m), Unidos(m, o))
          OBVIOUS
        <4>x. PICK x : x = e.raro \cup (IF EnCadena(e.meta, e.c) /\ EnCadena(e.meta, Fin(e.c, m))
                                         THEN {} ELSE {"basura"})
                                  \cup (IF e.c \in Desplazamientos THEN {} ELSE {"fuera"})
          OBVIOUS
        <4>y. PICK y : y = Fin(e.c, Unidos(m, o))
          OBVIOUS
        <4>1. y \in Nat /\ y >= e.c + 5 /\ Unidos(m, o) \in Metadata
          BY <1>0, <2>2, <3>2, <4>y, UnidosEs
        <4>2. w \in Cadena
          <5>1. Absorbido(e.meta, e.c, Fin(e.c, m), Unidos(m, o), w)
            BY <1>0, <2>0, <4>1, <4>w, AbsorbeDa
          <5> QED BY <5>1 DEF Absorbido
        <4>3. x \in SUBSET {"basura", "fuera"}
          BY <1>0, <4>x
        <4>4. r = [meta |-> w, libre |-> e.libre + 5, raro |-> x, c |-> y]
          BY <3>1, <3>4, <4>w, <4>x, <4>y, Tamanio
        <4>5. e.libre + 5 \in Int
          BY <1>0
        <4>6. r \in EnCurso /\ r.meta = w /\ r.libre = e.libre + 5 /\ r.raro = x /\ r.c = y
          BY <4>1, <4>2, <4>3, <4>4, <4>5, UnCurso
        <4>7. Une(e, r, m, o)
          BY <4>6, <4>1, <4>w, <4>x, <4>y, <2>1, <2>2, <2>5, <3>1, <3>2, <3>4 DEF Une
        <4> QED BY <4>7, <2>0
      <3> QED BY <3>3, <3>4
    <2> QED BY <2>4, <2>5
  <1> QED BY <1>1, <1>2

\* The function compactar_pagina defines, up to a turn
Turnos(w, l, n, f) ==
  f = [k \in 0 .. n |->
         IF k = 0 THEN {[meta |-> w, libre |-> l, raro |-> {}, c |-> 0]}
         ELSE UNION {Compacta(e) : e \in f[k - 1]}]

LEMMA HayTurnos ==
  ASSUME NEW w, NEW l, NEW n \in Nat
  PROVE  \E f : Turnos(w, l, n, f)
  <1> DEFINE Sin == {x \in Nat : ~(\E f : Turnos(w, l, x, f))}
  <1>i. PICK ini : ini = {[meta |-> w, libre |-> l, raro |-> {}, c |-> 0]}
    OBVIOUS
  <1>0. \A x, f : Turnos(w, l, x, f) <=>
          f = [k \in 0 .. x |-> IF k = 0 THEN ini ELSE UNION {Compacta(e) : e \in f[k - 1]}]
    BY <1>i DEF Turnos
  <1>1. ASSUME Sin # {}
        PROVE  FALSE
    <2>1. Sin \in SUBSET Nat
      OBVIOUS
    <2> HIDE DEF Sin
    <2>2. PICK x \in Sin : \A y \in Sin : x <= y
      BY <1>1, <2>1, HayMinimo
    <2>3. x \in Nat /\ ~(\E f : Turnos(w, l, x, f))
      BY <2>2 DEF Sin
    <2>4. CASE x = 0
      <3> DEFINE g == [k \in 0 .. 0 |-> ini]
      <3>1. g = [k \in 0 .. 0 |-> IF k = 0 THEN ini ELSE UNION {Compacta(e) : e \in g[k - 1]}]
        OBVIOUS
      <3> HIDE DEF g
      <3>2. Turnos(w, l, 0, g)
        BY <3>1, <1>0
      <3> QED BY <3>2, <2>3, <2>4
    <2>5. CASE x # 0
      <3>1. x - 1 \in Nat /\ ~(x <= x - 1)
        BY <2>3, <2>5
      <3>2. x - 1 \notin Sin
        BY <3>1, <2>2
      <3>3. PICK f : Turnos(w, l, x - 1, f)
        BY <3>1, <3>2 DEF Sin
      <3>u. PICK u : u = UNION {Compacta(e) : e \in f[x - 1]}
        OBVIOUS
      <3> DEFINE g == [k \in 0 .. x |-> IF k = x THEN u ELSE f[k]]
      <3>4. ASSUME NEW k \in 0 .. x
            PROVE  g[k] = IF k = 0 THEN ini ELSE UNION {Compacta(e) : e \in g[k - 1]}
        <4>1. CASE k = x
          <5>1. x - 1 \in 0 .. x /\ x - 1 # x /\ k # 0
            BY <2>3, <2>5, <4>1
          <5>2. g[k] = u /\ g[k - 1] = f[x - 1]
            BY <5>1, <4>1
          <5> HIDE DEF g
          <5> QED BY <5>1, <5>2, <3>u
        <4>2. CASE k # x
          <5>1. k \in 0 .. x - 1 /\ g[k] = f[k]
            BY <2>3, <4>2
          <5>2. f = [j \in 0 .. x - 1 |-> IF j = 0 THEN ini ELSE UNION {Compacta(e) : e \in f[j - 1]}]
            BY <3>3, <1>0
          <5>3. f[k] = IF k = 0 THEN ini ELSE UNION {Compacta(e) : e \in f[k - 1]}
            BY <5>1, <5>2
          <5>4. k # 0 => k - 1 \in 0 .. x /\ k - 1 # x
            BY <5>1, <2>3
          <5>5. k # 0 => g[k - 1] = f[k - 1]
            BY <5>4
          <5> HIDE DEF g
          <5> QED BY <5>1, <5>3, <5>5
        <4> QED BY <4>1, <4>2
      <3>5. Turnos(w, l, x, g)
        <4>1. DOMAIN g = 0 .. x /\ g = [k \in DOMAIN g |-> g[k]]
          OBVIOUS
        <4> HIDE DEF g
        <4>2. g = [k \in 0 .. x |-> IF k = 0 THEN ini ELSE UNION {Compacta(e) : e \in g[k - 1]}]
          BY <4>1, <3>4
        <4> QED BY <4>2, <1>0
      <3> QED BY <3>5, <2>3
    <2> QED BY <2>4, <2>5
  <1> QED BY <1>1

LEMMA CompactarEs ==
  ASSUME NEW w, NEW l
  PROVE  \E f : /\ compactar_pagina(w, l) = f[tamanio_pagina]
                /\ f[0] = {[meta |-> w, libre |-> l, raro |-> {}, c |-> 0]}
                /\ \A k \in 1 .. tamanio_pagina : \A r \in f[k] : \E e \in f[k - 1] : r \in Compacta(e)
  <1>f. PICK f : f = CHOOSE g : Turnos(w, l, tamanio_pagina, g)
    OBVIOUS
  <1>1. Turnos(w, l, tamanio_pagina, f)
    BY <1>f, Tamanio, HayTurnos
  <1>2. compactar_pagina(w, l) = f[tamanio_pagina]
    BY <1>f, Zenon DEF compactar_pagina, Turnos
  <1>3. f[0] = {[meta |-> w, libre |-> l, raro |-> {}, c |-> 0]}
    <2>1. 0 \in 0 .. tamanio_pagina
      BY Tamanio
    <2> QED BY <1>1, <2>1, Zenon DEF Turnos
  <1>4. ASSUME NEW k \in 1 .. tamanio_pagina, NEW r \in f[k]
        PROVE  \E e \in f[k - 1] : r \in Compacta(e)
    <2>1. k \in 0 .. tamanio_pagina /\ k # 0
      OBVIOUS
    <2>2. f[k] = UNION {Compacta(e) : e \in f[k - 1]}
      BY <1>1, <2>1, Zenon DEF Turnos
    <2> QED BY <2>2
  <1> QED BY <1>2, <1>3, <1>4

\* What has been done so far, from w with l bytes free
Sigue(w, l, r) ==
  /\ r \in EnCurso
  /\ Encadenados(w) /\ r.raro = {} =>
       /\ Encadenados(r.meta) /\ Tomados(r.meta) = Tomados(w)
       /\ r.libre = l + (SumaLibre(r.meta) - SumaLibre(w))

LEMMA SumaLibreNat ==
  ASSUME NEW w \in Cadena
  PROVE  SumaLibre(w) \in Nat
  <1>1. 0 \in 0 .. tamanio_pagina - 1 /\ 1 \in 0 .. tamanio_pagina - 1 /\ 0 < 1
    BY Tamanio
  <1> QED BY <1>1, SumaDeDos

LEMMA SigueUnaVuelta ==
  ASSUME NEW w \in Cadena, NEW l \in Int, NEW e, Sigue(w, l, e), NEW r \in Compacta(e)
  PROVE  Sigue(w, l, r)
  <1>0. /\ e \in EnCurso /\ e.meta \in Cadena /\ e.libre \in Int /\ e.c \in Nat
        /\ e.raro \in SUBSET {"basura", "fuera"}
    BY DEF Sigue, EnCurso
  <1>1. CASE r = e
    BY <1>1
  <1>2. CASE Pasa(e, r)
    BY <1>2 DEF Pasa, Sigue
  <1>3. ASSUME NEW m, NEW o, Une(e, r, m, o)
        PROVE  Sigue(w, l, r)
    <2>1. SUFFICES ASSUME Encadenados(w), r.raro = {}
                   PROVE  /\ Encadenados(r.meta) /\ Tomados(r.meta) = Tomados(w)
                          /\ r.libre = l + (SumaLibre(r.meta) - SumaLibre(w))
      BY <1>3 DEF Sigue, Une
    <2>2. e.raro = {} /\ EnCadena(e.meta, e.c) /\ EnCadena(e.meta, Fin(e.c, m))
      BY <1>3, <2>1 DEF Une
    <2>3. /\ Encadenados(e.meta) /\ Tomados(e.meta) = Tomados(w)
          /\ e.libre = l + (SumaLibre(e.meta) - SumaLibre(w))
      BY <2>1, <2>2 DEF Sigue
    <2>v. PICK v, c : v = e.meta /\ c = e.c
      OBVIOUS
    <2>d. PICK d : d = Fin(c, m)
      OBVIOUS
    <2>4. c \in DOMAIN v /\ d \in DOMAIN v /\ m = v[c] /\ o = v[d] /\ m.isFree /\ o.isFree
      BY <1>3, <2>2, <2>v, <2>d DEF Une, EnCadena, Lee
    <2>5. /\ v \in Cadena /\ Encadenados(v) /\ v[c].isFree /\ v[d].isFree /\ d = Fin(c, v[c])
          /\ r.meta = Absorbe(v, c, d, Unidos(v[c], v[d]))
          /\ r.libre = e.libre + 5
      BY <1>0, <1>3, <2>3, <2>v, <2>d, <2>4 DEF Une
    <2>6. Encadenados(r.meta)
      BY <2>4, <2>5, UnidosEncadenan
    <2>7. Tomados(r.meta) = Tomados(v)
      BY <2>4, <2>5, UnidosToman
    <2>8. SumaLibre(v) \in Nat /\ SumaLibre(r.meta) = SumaLibre(v) + 5
      BY <2>4, <2>5, UnidosSuman
    <2>9. SumaLibre(w) \in Nat
      BY SumaLibreNat
    <2>10. r.libre = l + (SumaLibre(r.meta) - SumaLibre(w))
      BY <2>3, <2>5, <2>8, <2>9, <2>v
    <2> QED BY <2>3, <2>6, <2>7, <2>10, <2>v
  <1> QED BY <1>0, <1>1, <1>2, <1>3, UnaVuelta

LEMMA CompactarBien ==
  ASSUME NEW w \in Cadena, NEW l \in Int, NEW r \in compactar_pagina(w, l)
  PROVE  Sigue(w, l, r)
  <1>f. PICK f : /\ compactar_pagina(w, l) = f[tamanio_pagina]
                 /\ f[0] = {[meta |-> w, libre |-> l, raro |-> {}, c |-> 0]}
                 /\ \A k \in 1 .. tamanio_pagina : \A x \in f[k] : \E e \in f[k - 1] : x \in Compacta(e)
    BY CompactarEs
  <1> DEFINE Malos == {k \in 0 .. tamanio_pagina : \E x \in f[k] : ~Sigue(w, l, x)}
  <1>1. ASSUME Malos # {}
        PROVE  FALSE
    <2>1. Malos \in SUBSET Nat
      OBVIOUS
    <2>2. \A k : k \in Malos <=> k \in 0 .. tamanio_pagina /\ \E x \in f[k] : ~Sigue(w, l, x)
      OBVIOUS
    <2> HIDE DEF Malos
    <2>3. PICK k \in Malos : \A y \in Malos : k <= y
      BY <1>1, <2>1, HayMinimo
    <2>4. PICK x \in f[k] : ~Sigue(w, l, x)
      BY <2>2
    <2>5. CASE k = 0
      <3>i. PICK ini : ini = [meta |-> w, libre |-> l, raro |-> {}, c |-> 0]
        OBVIOUS
      <3>1. x = ini
        BY <1>f, <2>4, <2>5, <3>i
      <3>2. {} \in SUBSET {"basura", "fuera"} /\ 0 \in Nat
        OBVIOUS
      <3>3. ini \in EnCurso /\ ini.meta = w /\ ini.libre = l
        BY <3>i, <3>2, UnCurso
      <3>4. l = l + (SumaLibre(w) - SumaLibre(w))
        BY SumaLibreNat
      <3>5. Sigue(w, l, ini)
        BY <3>3, <3>4 DEF Sigue
      <3> QED BY <3>1, <3>5, <2>4
    <2>6. CASE k # 0
      <3>1. k \in 1 .. tamanio_pagina /\ k - 1 \in 0 .. tamanio_pagina /\ ~(k <= k - 1)
        BY <2>2, <2>6, Tamanio
      <3>2. PICK e \in f[k - 1] : x \in Compacta(e)
        BY <1>f, <2>4, <3>1
      <3>3. Sigue(w, l, e)
        BY <2>2, <2>3, <3>1, <3>2
      <3> QED BY <2>4, <3>2, <3>3, SigueUnaVuelta
    <2> QED BY <2>5, <2>6
  <1>2. tamanio_pagina \in 0 .. tamanio_pagina
    BY Tamanio
  <1> QED BY <1>1, <1>2, <1>f

LEMMA UnidosMiden ==
  ASSUME NEW w \in Cadena, Encadenados(w), NEW c \in DOMAIN w, w[c].isFree,
         NEW d \in DOMAIN w, d = Fin(c, w[c]), w[d].isFree,
         NEW v, v = Absorbe(w, c, d, Unidos(w[c], w[d]))
  PROVE  v \in Cadena /\ Fin(c, Unidos(w[c], w[d])) = Fin(d, w[d])
  <1>1. /\ v \in Cadena
        /\ v[c] = [size |-> w[c].size + 5 + w[d].size, isFree |-> TRUE] /\ Fin(c, v[c]) = Fin(d, w[d])
    <2>1. /\ v \in Cadena /\ Encadenados(v)
          /\ DOMAIN v = DOMAIN w \ {d} /\ c # d /\ c < d
          /\ v[c] = [size |-> w[c].size + 5 + w[d].size, isFree |-> TRUE]
          /\ \A x \in DOMAIN v : x # c => v[x] = w[x]
          /\ Fin(c, v[c]) = Fin(d, w[d])
      BY UnidosEncadenan
    <2> QED BY <2>1
  <1>2. v[c] = Unidos(w[c], w[d])
    BY <1>1, Tamanio DEF Unidos
  <1> QED BY <1>1, <1>2

\* In a page that is a stack whose last taken block, in c, has been freed, it is joined
\* with the rest
LEMMA CompactarPila ==
  ASSUME NEW w \in Cadena, Encadenados(w), NEW c \in DOMAIN w, w[c].isFree,
         NEW d \in DOMAIN w, d = Fin(c, w[c]), w[d].isFree, Fin(d, w[d]) = tamanio_pagina,
         \A x \in DOMAIN w : x # c /\ x # d => ~w[x].isFree,
         NEW l \in Int, NEW r \in compactar_pagina(w, l)
  PROVE  /\ r.meta = Absorbe(w, c, d, Unidos(w[c], w[d]))
         /\ r.libre = l + 5 /\ r.raro = {}
  <1>f. PICK f : /\ compactar_pagina(w, l) = f[tamanio_pagina]
                 /\ f[0] = {[meta |-> w, libre |-> l, raro |-> {}, c |-> 0]}
                 /\ \A k \in 1 .. tamanio_pagina : \A x \in f[k] : \E e \in f[k - 1] : x \in Compacta(e)
    BY CompactarEs
  <1>v. PICK v : v = Absorbe(w, c, d, Unidos(w[c], w[d]))
    OBVIOUS
  <1>t. tamanio_pagina \in Nat
    BY Tamanio
  <1>0. /\ c \in 0 .. tamanio_pagina - 1 /\ c \in Nat /\ d \in 0 .. tamanio_pagina - 1
        /\ c + 5 <= d /\ w[c] \in Metadata /\ w[d] \in Metadata
        /\ Lee(w, c) = {w[c]} /\ Lee(w, d) = {w[d]}
    BY BloqueDe, BloqueDentro DEF Lee, EnCadena
  <1>u. Fin(c, Unidos(w[c], w[d])) = tamanio_pagina
    BY <1>v, UnidosMiden
  <1> DEFINE Antes(e, k) == /\ e \in EnCurso /\ e.meta = w /\ e.libre = l /\ e.raro = {}
                            /\ e.c \in DOMAIN w /\ k <= e.c /\ e.c <= c
             Despues(e) == e \in EnCurso /\ e.meta = v /\ e.libre = l + 5 /\ e.raro = {} /\ e.c = tamanio_pagina
             Bueno(e, k) == Antes(e, k) \/ Despues(e)
  <1> DEFINE Malos == {k \in 0 .. tamanio_pagina : \E x \in f[k] : ~Bueno(x, k)}
  <1>1. ASSUME Malos # {}
        PROVE  FALSE
    <2>1. Malos \in SUBSET Nat
      OBVIOUS
    <2>2. \A k : k \in Malos <=> k \in 0 .. tamanio_pagina /\ \E x \in f[k] : ~Bueno(x, k)
      OBVIOUS
    <2> HIDE DEF Malos, Bueno
    <2>3. PICK k \in Malos : \A y \in Malos : k <= y
      BY <1>1, <2>1, HayMinimo
    <2>4. PICK x \in f[k] : ~Bueno(x, k)
      BY <2>2
    <2>5. CASE k = 0
      <3>i. PICK ini : ini = [meta |-> w, libre |-> l, raro |-> {}, c |-> 0]
        OBVIOUS
      <3>1. x = ini
        BY <1>f, <2>4, <2>5, <3>i
      <3>2. {} \in SUBSET {"basura", "fuera"} /\ 0 \in Nat
        OBVIOUS
      <3>3. ini \in EnCurso /\ ini.meta = w /\ ini.libre = l /\ ini.raro = {} /\ ini.c = 0
        BY <3>i, <3>2, UnCurso
      <3>4. 0 \in DOMAIN w /\ 0 <= c
        BY <1>0 DEF Encadenados
      <3>5. Bueno(ini, 0)
        BY <3>3, <3>4 DEF Bueno
      <3> QED BY <3>1, <3>5, <2>4, <2>5
    <2>6. CASE k # 0
      <3>0. k \in 1 .. tamanio_pagina /\ k - 1 \in 0 .. tamanio_pagina /\ ~(k <= k - 1)
        BY <2>2, <2>6, Tamanio
      <3>1. PICK e \in f[k - 1] : x \in Compacta(e)
        BY <1>f, <2>4, <3>0
      <3>2. Bueno(e, k - 1)
        BY <2>2, <2>3, <3>0, <3>1
      <3>3. CASE Despues(e)
        <4>1. Compacta(e) = {e}
          BY <3>3, <1>t DEF Compacta
        <4>2. x = e
          BY <4>1, <3>1
        <4> QED BY <3>3, <4>2, <2>4 DEF Bueno
      <3>4. CASE Antes(e, k - 1)
        <4>0. /\ e \in EnCurso /\ e.meta = w /\ e.libre = l /\ e.raro = {} /\ e.c \in DOMAIN w
              /\ k - 1 <= e.c /\ e.c <= c /\ Lee(w, e.c) = {w[e.c]}
          BY <3>4 DEF Lee, EnCadena
        <4>a. /\ e.c \in 0 .. tamanio_pagina - 1 /\ e.c \in Nat /\ w[e.c] \in Metadata
          BY <4>0, BloqueDe
        <4>b. ~(e.c >= tamanio_pagina)
          BY <4>a, <1>t
        <4>1. PICK m \in Lee(w, e.c) : x \in Turno(e, m)
          BY <4>0, <4>b, <3>1, CompactaTurno
        <4>2. m = w[e.c]
          BY <4>0, <4>1
        <4>3. CASE e.c # c
          <5>1. e.c # d
            BY <4>0, <1>0, <1>t
          <5>2. ~m.isFree
            BY <4>0, <4>2, <4>3, <5>1
          <5>y. PICK y : y = Fin(e.c, w[e.c])
            OBVIOUS
          <5>3. x = [e EXCEPT !.c = y]
            BY <4>1, <4>2, <5>2, <5>y DEF Turno
          <5>4. y \in DOMAIN w \cup {tamanio_pagina} /\ e.c + 5 <= y
            BY <4>0, <5>y, BloqueDentro
          <5>5. y <= c
            <6>1. e.c < c
              BY <4>0, <4>3, <4>a, <1>0
            <6> QED BY <4>0, <5>y, <6>1, BloqueDentro
          <5>6. y \in DOMAIN w /\ y \in Nat
            <6>1. y # tamanio_pagina
              BY <5>5, <1>0, <1>t
            <6>2. y \in DOMAIN w
              BY <5>4, <6>1
            <6> QED BY <6>2, BloqueDe
          <5>7. /\ x \in EnCurso /\ x.meta = w /\ x.libre = l /\ x.raro = {} /\ x.c = y
            <6>1. y >= e.c + 5
              BY <5>4, <5>6, <4>a
            <6>2. Pasa(e, x)
              BY <4>0, <5>3, <5>6, <6>1, MueveEs
            <6>3. x.c = y
              BY <4>0, <5>3 DEF EnCurso
            <6> QED BY <6>2, <6>3, <4>0 DEF Pasa
          <5>8. k <= y
            BY <5>4, <5>6, <4>0, <4>a, <3>0
          <5> QED BY <5>5, <5>6, <5>7, <5>8, <2>4 DEF Bueno
        <4>4. CASE e.c = c
          <5>1. m = w[c] /\ m.isFree /\ Fin(e.c, m) = d
            BY <4>2, <4>4
          <5>2. x \in {IF o.isFree
                         THEN [meta  |-> Absorbe(e.meta, e.c, Fin(e.c, m), Unidos(m, o)),
                               libre |-> e.libre + tamanio_metadata,
                               raro  |-> e.raro \cup (IF EnCadena(e.meta, e.c) /\ EnCadena(e.meta, Fin(e.c, m))
                                                       THEN {} ELSE {"basura"})
                                                \cup (IF e.c \in Desplazamientos THEN {} ELSE {"fuera"}),
                               c     |-> Fin(e.c, Unidos(m, o))]
                         ELSE [e EXCEPT !.c = Fin(Fin(e.c, m), m)]
                       : o \in Lee(e.meta, Fin(e.c, m))}
            BY <4>1, <5>1, Zenon DEF Turno
          <5>3. PICK o \in Lee(e.meta, Fin(e.c, m)) :
                  x = IF o.isFree
                         THEN [meta  |-> Absorbe(e.meta, e.c, Fin(e.c, m), Unidos(m, o)),
                               libre |-> e.libre + tamanio_metadata,
                               raro  |-> e.raro \cup (IF EnCadena(e.meta, e.c) /\ EnCadena(e.meta, Fin(e.c, m))
                                                       THEN {} ELSE {"basura"})
                                                \cup (IF e.c \in Desplazamientos THEN {} ELSE {"fuera"}),
                               c     |-> Fin(e.c, Unidos(m, o))]
                         ELSE [e EXCEPT !.c = Fin(Fin(e.c, m), m)]
            BY <5>2, Zenon
          <5>4. o = w[d] /\ o.isFree
            BY <5>1, <5>3, <4>0, <1>0
          <5>5. EnCadena(w, c) /\ EnCadena(w, d) /\ c \in Desplazamientos
            BY <1>0, Tamanio DEF EnCadena, Desplazamientos
          <5>6. x = [meta |-> v, libre |-> l + 5, raro |-> {}, c |-> tamanio_pagina]
            <6>1. x = [meta  |-> Absorbe(e.meta, e.c, Fin(e.c, m), Unidos(m, o)),
                       libre |-> e.libre + tamanio_metadata,
                       raro  |-> e.raro \cup (IF EnCadena(e.meta, e.c) /\ EnCadena(e.meta, Fin(e.c, m))
                                               THEN {} ELSE {"basura"})
                                        \cup (IF e.c \in Desplazamientos THEN {} ELSE {"fuera"}),
                       c     |-> Fin(e.c, Unidos(m, o))]
              BY <5>3, <5>4
            <6>2. /\ Absorbe(e.meta, e.c, Fin(e.c, m), Unidos(m, o)) = v
                  /\ Fin(e.c, Unidos(m, o)) = tamanio_pagina
              BY <5>1, <5>4, <4>0, <4>4, <1>v, <1>u
            <6>3. e.libre + tamanio_metadata = l + 5
              BY <4>0, Tamanio
            <6>4. e.raro \cup (IF EnCadena(e.meta, e.c) /\ EnCadena(e.meta, Fin(e.c, m))
                                 THEN {} ELSE {"basura"})
                         \cup (IF e.c \in Desplazamientos THEN {} ELSE {"fuera"}) = {}
              BY <4>0, <4>4, <5>1, <5>5
            <6> QED BY <6>1, <6>2, <6>3, <6>4
          <5>7. v \in Cadena /\ l + 5 \in Int /\ {} \in SUBSET {"basura", "fuera"}
            <6>1. v \in Cadena
              BY <1>v, UnidosMiden
            <6> QED BY <6>1
          <5>8. x \in EnCurso /\ x.meta = v /\ x.libre = l + 5 /\ x.raro = {} /\ x.c = tamanio_pagina
            BY <5>6, <5>7, <1>t, UnCurso, ZenonT(30)
          <5> QED BY <5>8, <2>4 DEF Bueno
        <4> QED BY <4>3, <4>4
      <3> QED BY <3>2, <3>3, <3>4 DEF Bueno
    <2> QED BY <2>5, <2>6
  <1>2. tamanio_pagina \in 0 .. tamanio_pagina
    BY <1>t
  <1>3. Bueno(r, tamanio_pagina)
    BY <1>1, <1>2, <1>f
  <1>4. ~Antes(r, tamanio_pagina)
    <2>1. r.c \in DOMAIN w => r.c \in Nat
      BY BloqueDe
    <2> QED BY <2>1, <1>0, <1>t
  <1> QED BY <1>3, <1>4, <1>v

-----------------------------------------------------------------------------
(* The lists of the Kernel *)

LEMMA UnaPagina ==
  ASSUME NEW s \in Seq(Pagina), NEW k \in DOMAIN s
  PROVE  /\ s[k] \in Pagina /\ s[k].pid \in Pids /\ s[k].pagina \in Paginas
         /\ s[k].espacio_libre \in Int /\ s[k].meta \in Cadena
  <1>1. s[k] \in Pagina
    BY ElementoDe
  <1> QED BY <1>1 DEF Pagina

LEMMA MarcoEs ==
  ASSUME NEW s \in Seq(Pagina), NEW p, NEW x
  PROVE  \/ /\ Marco(s, p, x) = 0
            /\ \A k \in DOMAIN s : ~(s[k].pid = p /\ s[k].pagina = x)
         \/ /\ Marco(s, p, x) \in DOMAIN s /\ Marco(s, p, x) # 0
            /\ s[Marco(s, p, x)].pid = p /\ s[Marco(s, p, x)].pagina = x
            /\ \A k \in DOMAIN s : s[k].pid = p /\ s[k].pagina = x => Marco(s, p, x) <= k
  <1> DEFINE I == {i \in 1 .. Len(s) : s[i].pid = p /\ s[i].pagina = x}
  <1>1. Marco(s, p, x) = IF I # {} THEN Min(I) ELSE 0
    BY DEF Marco, SelectInSeq
  <1>2. DOMAIN s = 1 .. Len(s) /\ I \in SUBSET Nat
    OBVIOUS
  <1>3. ASSUME I # {}
        PROVE  Min(I) \in I /\ \A y \in I : Min(I) <= y
    BY <1>2, <1>3, MinimoEsta
  <1> QED BY <1>1, <1>2, <1>3

LEMMA DeProcesoEs ==
  ASSUME NEW s \in Seq(Pagina), NEW p
  PROVE  \/ /\ DeProceso(s, p) = 0
            /\ \A k \in DOMAIN s : s[k].pid # p
         \/ /\ DeProceso(s, p) \in DOMAIN s /\ DeProceso(s, p) # 0
            /\ s[DeProceso(s, p)].pid = p
            /\ \A k \in DOMAIN s : s[k].pid = p => DeProceso(s, p) <= k
  <1> DEFINE I == {i \in 1 .. Len(s) : s[i].pid = p}
  <1>1. DeProceso(s, p) = IF I # {} THEN Min(I) ELSE 0
    BY DEF DeProceso, SelectInSeq
  <1>2. DOMAIN s = 1 .. Len(s) /\ I \in SUBSET Nat
    OBVIOUS
  <1>3. ASSUME I # {}
        PROVE  Min(I) \in I /\ \A y \in I : Min(I) <= y
    BY <1>2, <1>3, MinimoEsta
  <1> QED BY <1>1, <1>2, <1>3

LEMMA ConEspacioEs ==
  ASSUME NEW s \in Seq(Pagina), NEW p, NEW e
  PROVE  \/ /\ ConEspacio(s, p, e) = 0
            /\ \A k \in DOMAIN s : ~(s[k].pid = p /\ s[k].espacio_libre >= e + 5)
         \/ /\ ConEspacio(s, p, e) \in DOMAIN s /\ ConEspacio(s, p, e) # 0
            /\ s[ConEspacio(s, p, e)].pid = p /\ s[ConEspacio(s, p, e)].espacio_libre >= e + 5
  <1> DEFINE I == {i \in 1 .. Len(s) : s[i].pid = p /\ s[i].espacio_libre >= e + tamanio_metadata}
  <1>1. ConEspacio(s, p, e) = IF I # {} THEN Min(I) ELSE 0
    BY DEF ConEspacio, SelectInSeq
  <1>2. DOMAIN s = 1 .. Len(s) /\ I \in SUBSET Nat
    OBVIOUS
  <1>3. ASSUME I # {}
        PROVE  Min(I) \in I /\ \A y \in I : Min(I) <= y
    BY <1>2, <1>3, MinimoEsta
  <1> QED BY <1>1, <1>2, <1>3, Tamanio

LEMMA CuantasSon ==
  ASSUME NEW s \in Seq(Pagina), NEW p
  PROVE  /\ Cuantas(s, p) \in 0 .. Len(s)
         /\ (\A k \in DOMAIN s : s[k].pid # p) => Cuantas(s, p) = 0
  <1>n. PICK n : n = Len(s)
    OBVIOUS
  <1> DEFINE I == {k \in DOMAIN s : s[k].pid = p}
  <1>1. n \in Nat /\ DOMAIN s = 1 .. n
    BY <1>n
  <1>2. IsFiniteSet(1 .. n) /\ Cardinality(1 .. n) = n
    BY <1>1, FS_Interval
  <1>3. I \subseteq 1 .. n
    BY <1>1
  <1>4. IsFiniteSet(I) /\ Cardinality(I) <= n /\ Cardinality(I) \in Nat
    BY <1>2, <1>3, FS_Subset, FS_CardinalityType
  <1>5. (\A k \in DOMAIN s : s[k].pid # p) => Cardinality(I) = 0
    BY FS_EmptySet
  <1> QED BY <1>1, <1>4, <1>5, <1>n DEF Cuantas

\* A page with other metadata, and with another count
MetaCambiada(s, f, w, t) ==
  /\ t \in Seq(Pagina) /\ Len(t) = Len(s) /\ DOMAIN t = DOMAIN s
  /\ \A j \in DOMAIN s : /\ t[j].pid = s[j].pid /\ t[j].pagina = s[j].pagina
                         /\ t[j].espacio_libre = s[j].espacio_libre
                         /\ t[j].meta = IF j = f THEN w ELSE s[j].meta

LEMMA CambiaMeta ==
  ASSUME NEW s \in Seq(Pagina), NEW f \in DOMAIN s, NEW w \in Cadena
  PROVE  MetaCambiada(s, f, w, [s EXCEPT ![f].meta = w])
  <1>t. PICK t : t = [s EXCEPT ![f].meta = w]
    OBVIOUS
  <1>g. PICK g : g = [s[f] EXCEPT !.meta = w]
    OBVIOUS
  <1>1. /\ g \in Pagina /\ g.pid = s[f].pid /\ g.pagina = s[f].pagina
        /\ g.espacio_libre = s[f].espacio_libre /\ g.meta = w
    <2>1. s[f] \in Pagina
      BY UnaPagina
    <2> QED BY <2>1, <1>g DEF Pagina
  <1>2. t = [s EXCEPT ![f] = g]
    BY <1>g, <1>t
  <1>3. t \in Seq(Pagina) /\ Len(t) = Len(s) /\ DOMAIN t = DOMAIN s
    BY <1>1, <1>2
  <1>4. \A j \in DOMAIN s : t[j] = IF j = f THEN g ELSE s[j]
    BY <1>2
  <1>5. MetaCambiada(s, f, w, t)
    BY <1>1, <1>3, <1>4 DEF MetaCambiada
  <1> QED BY <1>5, <1>t

LibreCambiado(s, k, l, t) ==
  /\ t \in Seq(Pagina) /\ Len(t) = Len(s) /\ DOMAIN t = DOMAIN s
  /\ \A j \in DOMAIN s : /\ t[j].pid = s[j].pid /\ t[j].pagina = s[j].pagina
                         /\ t[j].meta = s[j].meta
                         /\ t[j].espacio_libre = IF j = k THEN l ELSE s[j].espacio_libre

LEMMA CambiaLibre ==
  ASSUME NEW s \in Seq(Pagina), NEW k \in DOMAIN s, NEW l \in Int
  PROVE  LibreCambiado(s, k, l, [s EXCEPT ![k].espacio_libre = l])
  <1>t. PICK t : t = [s EXCEPT ![k].espacio_libre = l]
    OBVIOUS
  <1>g. PICK g : g = [s[k] EXCEPT !.espacio_libre = l]
    OBVIOUS
  <1>1. /\ g \in Pagina /\ g.pid = s[k].pid /\ g.pagina = s[k].pagina
        /\ g.espacio_libre = l /\ g.meta = s[k].meta
    <2>1. s[k] \in Pagina
      BY UnaPagina
    <2> QED BY <2>1, <1>g DEF Pagina
  <1>2. t = [s EXCEPT ![k] = g]
    BY <1>g, <1>t
  <1>3. t \in Seq(Pagina) /\ Len(t) = Len(s) /\ DOMAIN t = DOMAIN s
    BY <1>1, <1>2
  <1>4. \A j \in DOMAIN s : t[j] = IF j = k THEN g ELSE s[j]
    BY <1>2
  <1>5. LibreCambiado(s, k, l, t)
    BY <1>1, <1>3, <1>4 DEF LibreCambiado
  <1> QED BY <1>5, <1>t

\* Both at once
Cambiadas(s, f, w, k, l, t) ==
  /\ t \in Seq(Pagina) /\ Len(t) = Len(s) /\ DOMAIN t = DOMAIN s
  /\ \A j \in DOMAIN s : /\ t[j].pid = s[j].pid /\ t[j].pagina = s[j].pagina
                         /\ t[j].meta = IF j = f THEN w ELSE s[j].meta
                         /\ t[j].espacio_libre = IF j = k THEN l ELSE s[j].espacio_libre

LEMMA CambiaPaginas ==
  ASSUME NEW s \in Seq(Pagina), NEW f \in DOMAIN s, NEW w \in Cadena, NEW k \in DOMAIN s, NEW l \in Int
  PROVE  Cambiadas(s, f, w, k, l, [[s EXCEPT ![f].meta = w] EXCEPT ![k].espacio_libre = l])
  <1>v. PICK v : v = [s EXCEPT ![f].meta = w]
    OBVIOUS
  <1>t. PICK t : t = [v EXCEPT ![k].espacio_libre = l]
    OBVIOUS
  <1>1. MetaCambiada(s, f, w, v)
    BY <1>v, CambiaMeta
  <1>2. v \in Seq(Pagina) /\ k \in DOMAIN v
    BY <1>1 DEF MetaCambiada
  <1>3. LibreCambiado(v, k, l, t)
    BY <1>2, <1>t, CambiaLibre
  <1>4. Cambiadas(s, f, w, k, l, t)
    BY <1>1, <1>3 DEF MetaCambiada, LibreCambiado, Cambiadas
  <1> QED BY <1>4, <1>t, <1>v

\* The function SinPaginasDe defines, and what it leaves of the first n pages
Quedan(s, p, n, f) ==
  f = [k \in 0 .. n |->
         IF k = 0 THEN <<>>
         ELSE IF s[k].pid = p THEN f[k - 1] ELSE Append(f[k - 1], s[k])]

Resto(s, p, n, t, h) ==
  /\ t \in Seq(Pagina) /\ Len(t) <= n /\ h \in [1 .. Len(t) -> 1 .. n]
  /\ \A i \in 1 .. Len(t) : t[i] = s[h[i]] /\ s[h[i]].pid # p
  /\ \A i, j \in 1 .. Len(t) : h[i] = h[j] => i = j
  /\ \A m \in 1 .. n : s[m].pid # p => \E i \in 1 .. Len(t) : h[i] = m

LEMMA HayResto ==
  ASSUME NEW s \in Seq(Pagina), NEW p, NEW n \in 0 .. Len(s)
  PROVE  \E f : Quedan(s, p, n, f) /\ \E h : Resto(s, p, n, f[n], h)
  <1> DEFINE Bueno(x) == \E f : Quedan(s, p, x, f) /\ \E h : Resto(s, p, x, f[x], h)
  <1> DEFINE Malos == {x \in 0 .. Len(s) : ~Bueno(x)}
  <1>l. Len(s) \in Nat
    OBVIOUS
  <1>1. ASSUME Malos # {}
        PROVE  FALSE
    <2>1. Malos \in SUBSET Nat
      OBVIOUS
    <2>2. \A x : x \in Malos <=> x \in 0 .. Len(s) /\ ~Bueno(x)
      OBVIOUS
    <2> HIDE DEF Malos, Bueno
    <2>3. PICK x \in Malos : \A y \in Malos : x <= y
      BY <1>1, <2>1, HayMinimo
    <2>4. x \in 0 .. Len(s) /\ ~Bueno(x)
      BY <2>2
    <2>5. CASE x = 0
      <3>f. PICK f : f = [k \in 0 .. 0 |-> <<>>]
        OBVIOUS
      <3>1. f[0] = <<>> /\ f = [k \in 0 .. 0 |-> IF k = 0 THEN <<>>
                                 ELSE IF s[k].pid = p THEN f[k - 1] ELSE Append(f[k - 1], s[k])]
        BY <3>f
      <3>h. PICK h : h = [i \in 1 .. 0 |-> i]
        OBVIOUS
      <3>2. Len(<<>>) = 0 /\ <<>> \in Seq(Pagina) /\ 1 .. 0 = {} /\ h \in [1 .. 0 -> 1 .. 0]
        BY <3>h
      <3>3. Resto(s, p, 0, <<>>, h)
        BY <3>2 DEF Resto
      <3>4. Quedan(s, p, 0, f)
        BY <3>1, Zenon DEF Quedan
      <3>5. Bueno(0)
        BY <3>1, <3>3, <3>4 DEF Bueno
      <3> QED BY <3>5, <2>4, <2>5
    <2>6. CASE x # 0
      <3>y. PICK y : y = x - 1
        OBVIOUS
      <3>1. y \in 0 .. Len(s) /\ ~(x <= y) /\ x \in 1 .. Len(s) /\ x = y + 1 /\ x \in DOMAIN s
        BY <2>4, <2>6, <3>y, <1>l
      <3>2. Bueno(y)
        BY <2>2, <2>3, <3>1
      <3>3. PICK f : Quedan(s, p, y, f) /\ \E h : Resto(s, p, y, f[y], h)
        BY <3>2 DEF Bueno
      <3>t. PICK t : t = f[y]
        OBVIOUS
      <3>h. PICK h : Resto(s, p, y, t, h)
        BY <3>3, <3>t
      <3>u. PICK u : u = IF s[x].pid = p THEN t ELSE Append(t, s[x])
        OBVIOUS
      <3>g. PICK g : g = [k \in 0 .. x |-> IF k = x THEN u ELSE f[k]]
        OBVIOUS
      <3>4. g[x] = u /\ \A k \in 0 .. y : g[k] = f[k]
        BY <3>1, <3>g
      <3>5. Quedan(s, p, x, g)
        <4>1. ASSUME NEW k \in 0 .. x
              PROVE  g[k] = IF k = 0 THEN <<>>
                            ELSE IF s[k].pid = p THEN g[k - 1] ELSE Append(g[k - 1], s[k])
          <5>1. CASE k = x
            <6>1. k # 0 /\ g[k - 1] = t
              BY <5>1, <3>1, <3>y, <3>4, <3>t
            <6> QED BY <6>1, <5>1, <3>4, <3>u
          <5>2. CASE k # x
            <6>1. k \in 0 .. y
              BY <5>2, <3>1
            <6>2. f[k] = IF k = 0 THEN <<>>
                         ELSE IF s[k].pid = p THEN f[k - 1] ELSE Append(f[k - 1], s[k])
              BY <6>1, <3>3 DEF Quedan
            <6>3. k # 0 => g[k - 1] = f[k - 1]
              BY <6>1, <3>1, <3>4
            <6> QED BY <6>1, <6>2, <6>3, <3>4
          <5> QED BY <5>1, <5>2
        <4>2. g = [k \in 0 .. x |-> g[k]]
          BY <3>g
        <4>3. g = [k \in 0 .. x |-> IF k = 0 THEN <<>>
                                    ELSE IF s[k].pid = p THEN g[k - 1] ELSE Append(g[k - 1], s[k])]
          BY <4>1, <4>2
        <4> QED BY <4>3, Zenon DEF Quedan
      <3>n. PICK n1 : n1 = Len(t)
        OBVIOUS
      <3>6. /\ t \in Seq(Pagina) /\ n1 \in Nat /\ n1 <= y /\ h \in [1 .. n1 -> 1 .. y]
            /\ \A i \in 1 .. n1 : t[i] = s[h[i]] /\ s[h[i]].pid # p
            /\ \A i, j \in 1 .. n1 : h[i] = h[j] => i = j
            /\ \A m \in 1 .. y : s[m].pid # p => \E i \in 1 .. n1 : h[i] = m
        BY <3>h, <3>n, SMTT(20) DEF Resto
      <3>7. CASE s[x].pid = p
        <4>1. u = t
          BY <3>7, <3>u
        <4>2. n1 <= x /\ h \in [1 .. n1 -> 1 .. x]
          BY <3>1, <3>6
        <4>3. \A m \in 1 .. x : s[m].pid # p => \E i \in 1 .. n1 : h[i] = m
          BY <3>1, <3>6, <3>7
        <4>4. Resto(s, p, x, u, h)
          BY <4>1, <4>2, <4>3, <3>6, <3>n DEF Resto
        <4>5. Bueno(x)
          BY <4>4, <3>4, <3>5 DEF Bueno
        <4> QED BY <4>5, <2>4
      <3>8. CASE s[x].pid # p
        <4>1. u = Append(t, s[x]) /\ s[x] \in Pagina
          BY <3>8, <3>u, <3>1, UnaPagina
        <4>2. /\ u \in Seq(Pagina) /\ Len(u) = n1 + 1 /\ u[n1 + 1] = s[x]
              /\ \A i \in 1 .. n1 : u[i] = t[i]
          BY <4>1, <3>6, <3>n
        <4>i. PICK h2 : h2 = [i \in 1 .. n1 + 1 |-> IF i = n1 + 1 THEN x ELSE h[i]]
          OBVIOUS
        <4>3. /\ h2[n1 + 1] = x /\ \A i \in 1 .. n1 : h2[i] = h[i]
              /\ h2 \in [1 .. n1 + 1 -> 1 .. x]
          <5>1. n1 + 1 \in 1 .. n1 + 1 /\ \A i \in 1 .. n1 : i \in 1 .. n1 + 1 /\ i # n1 + 1
            BY <3>6
          <5>2. h2[n1 + 1] = x /\ \A i \in 1 .. n1 : h2[i] = h[i]
            BY <5>1, <4>i
          <5>3. \A i \in 1 .. n1 + 1 : h2[i] \in 1 .. x
            <6>1. \A i \in 1 .. n1 + 1 : i = n1 + 1 \/ i \in 1 .. n1
              BY <3>6
            <6>2. \A i \in 1 .. n1 : h[i] \in 1 .. x
              BY <3>1, <3>6
            <6>3. x \in 1 .. x
              BY <3>1
            <6> QED BY <6>1, <6>2, <6>3, <5>2
          <5> QED BY <5>2, <5>3, <4>i
        <4>4. \A i \in 1 .. n1 + 1 : i = n1 + 1 \/ i \in 1 .. n1
          BY <3>6
        <4>5. \A i \in 1 .. n1 + 1 : u[i] = s[h2[i]] /\ s[h2[i]].pid # p
          BY <4>2, <4>3, <4>4, <3>6, <3>8
        <4>6. ASSUME NEW i \in 1 .. n1 + 1, NEW j \in 1 .. n1 + 1, h2[i] = h2[j]
              PROVE  i = j
          <5>1. \A m \in 1 .. n1 : h2[m] # x
            <6>1. \A m \in 1 .. n1 : h2[m] \in 1 .. y
              BY <4>3, <3>6
            <6>2. x \notin 1 .. y
              BY <3>1
            <6> QED BY <6>1, <6>2
          <5> QED BY <5>1, <4>3, <4>4, <4>6, <3>6
        <4>7. ASSUME NEW m \in 1 .. x, s[m].pid # p
              PROVE  \E i \in 1 .. n1 + 1 : h2[i] = m
          <5>1. CASE m = x
            <6>1. n1 + 1 \in 1 .. n1 + 1
              BY <3>6
            <6> QED BY <6>1, <5>1, <4>3
          <5>2. CASE m # x
            <6>1. m \in 1 .. y
              BY <5>2, <3>1
            <6>2. PICK i \in 1 .. n1 : h[i] = m
              BY <6>1, <4>7, <3>6
            <6>3. i \in 1 .. n1 + 1 /\ h2[i] = m
              BY <6>2, <4>3, <3>6
            <6> QED BY <6>3
          <5> QED BY <5>1, <5>2
        <4>8. n1 + 1 <= x
          BY <3>1, <3>6
        <4>9. Resto(s, p, x, u, h2)
          BY <4>2, <4>3, <4>5, <4>6, <4>7, <4>8 DEF Resto
        <4>10. Bueno(x)
          BY <4>9, <3>4, <3>5 DEF Bueno
        <4> QED BY <4>10, <2>4
      <3> QED BY <3>7, <3>8
    <2> QED BY <2>5, <2>6
  <1> QED BY <1>1

LEMMA QuedanUnicos ==
  ASSUME NEW s, NEW p, NEW n \in Nat, NEW f, Quedan(s, p, n, f), NEW g, Quedan(s, p, n, g)
  PROVE  f[n] = g[n]
  <1> DEFINE Malos == {k \in 0 .. n : f[k] # g[k]}
  <1>1. ASSUME Malos # {}
        PROVE  FALSE
    <2>1. Malos \in SUBSET Nat
      OBVIOUS
    <2>2. \A k : k \in Malos <=> k \in 0 .. n /\ f[k] # g[k]
      OBVIOUS
    <2> HIDE DEF Malos
    <2>3. PICK x \in Malos : \A y \in Malos : x <= y
      BY <1>1, <2>1, HayMinimo
    <2>4. x \in 0 .. n /\ f[x] # g[x]
      BY <2>2
    <2>5. /\ f[x] = IF x = 0 THEN <<>> ELSE IF s[x].pid = p THEN f[x - 1] ELSE Append(f[x - 1], s[x])
          /\ g[x] = IF x = 0 THEN <<>> ELSE IF s[x].pid = p THEN g[x - 1] ELSE Append(g[x - 1], s[x])
      BY <2>4 DEF Quedan
    <2>6. CASE x = 0
      BY <2>4, <2>5, <2>6
    <2>7. CASE x # 0
      <3>1. x - 1 \in 0 .. n /\ ~(x <= x - 1)
        BY <2>4, <2>7
      <3>2. f[x - 1] = g[x - 1]
        BY <3>1, <2>2, <2>3
      <3> QED BY <3>2, <2>4, <2>5, <2>7
    <2> QED BY <2>6, <2>7
  <1>2. n \in 0 .. n
    OBVIOUS
  <1> QED BY <1>1, <1>2

\* The pages of the others, each of them once
LEMMA SinPaginasDeEs ==
  ASSUME NEW s \in Seq(Pagina), NEW p
  PROVE  \E h : Resto(s, p, Len(s), SinPaginasDe(s, p), h)
  <1>n. PICK n : n = Len(s)
    OBVIOUS
  <1>1. n \in Nat /\ n \in 0 .. Len(s)
    BY <1>n
  <1>2. PICK f : Quedan(s, p, n, f) /\ \E h : Resto(s, p, n, f[n], h)
    BY <1>1, HayResto
  <1>g. PICK g : g = CHOOSE x : Quedan(s, p, n, x)
    OBVIOUS
  <1>3. Quedan(s, p, n, g)
    BY <1>2, <1>g
  <1>4. SinPaginasDe(s, p) = g[n]
    BY <1>g, <1>n, Zenon DEF SinPaginasDe, Quedan
  <1>5. g[n] = f[n]
    BY <1>1, <1>2, <1>3, QuedanUnicos
  <1> QED BY <1>2, <1>4, <1>5, <1>n

-----------------------------------------------------------------------------
(* Pointers *)

\* Only the list of p is another
PunterosComo(h, p, x, h2) == \A q : PunterosDe(h2, q) = IF q = p THEN x ELSE PunterosDe(h, q)

LEMMA PonerPunteros ==
  ASSUME NEW h, NEW p, NEW x,
         NEW h2, h2 = [q \in DOMAIN h \cup {p} |-> IF q = p THEN x ELSE h[q]]
  PROVE  DOMAIN h2 = DOMAIN h \cup {p} /\ PunterosComo(h, p, x, h2)
  BY DEF PunterosComo, PunterosDe

LEMMA CambiarPunteros ==
  ASSUME NEW h, NEW p \in DOMAIN h, NEW x, NEW h2, h2 = [h EXCEPT ![p] = x]
  PROVE  DOMAIN h2 = DOMAIN h /\ PunterosComo(h, p, x, h2)
  BY DEF PunterosComo, PunterosDe

LEMMA SacarPunteros ==
  ASSUME NEW h, NEW p, NEW h2, h2 = Restrict(h, DOMAIN h \ {p})
  PROVE  DOMAIN h2 = DOMAIN h \ {p} /\ PunterosComo(h, p, <<>>, h2)
  BY DEF PunterosComo, PunterosDe, Restrict

LEMMA UnPuntero ==
  ASSUME NEW ps \in Seq(ConMetadata), NEW n \in DOMAIN ps
  PROVE  /\ ps[n] \in ConMetadata /\ ps[n].pagina \in Paginas
         /\ ps[n].offset \in 5 .. tamanio_pagina - 1 /\ ps[n].size \in Nat
         /\ ps[n].offset \in Nat
  <1>1. ps[n] \in ConMetadata
    BY ElementoDe
  <1>2. ps[n].pagina \in Paginas /\ ps[n].offset \in 5 .. tamanio_pagina - 1 /\ ps[n].size \in Nat
    BY <1>1, Tamanio DEF ConMetadata
  <1> QED BY <1>1, <1>2

LEMMA ApuntadosSon ==
  ASSUME NEW ps, NEW g, NEW x
  PROVE  x \in Apuntados(ps, g) <=> \E n \in DOMAIN ps : ps[n].pagina = g /\ x = <<ps[n].offset, ps[n].size>>
  <1>1. \A v : v \in Range(ps) <=> \E n \in DOMAIN ps : v = ps[n]
    BY DEF Range
  <1> QED BY <1>1 DEF Apuntados

LEMMA MasUno ==
  ASSUME NEW ps \in Seq(ConMetadata), NEW u \in ConMetadata, NEW ps2, ps2 = Append(ps, u),
         NEW n, n = Len(ps) + 1
  PROVE  /\ ps2 \in Seq(ConMetadata) /\ n \in DOMAIN ps2 /\ ps2[n] = u /\ n \notin DOMAIN ps
         /\ DOMAIN ps2 = DOMAIN ps \cup {n}
         /\ \A i \in DOMAIN ps : ps2[i] = ps[i] /\ i < n
  OBVIOUS

ConUno(ps, u, n, ps2) ==
  /\ ps2[n] = u /\ n \notin DOMAIN ps /\ DOMAIN ps2 = DOMAIN ps \cup {n}
  /\ \A i \in DOMAIN ps : ps2[i] = ps[i]

\* Those of a list, with those of a pointer if it is of the page
MasApuntados(S, u, g) == S \cup (IF u.pagina = g THEN {<<u.offset, u.size>>} ELSE {})

LEMMA ApuntadosConUno ==
  ASSUME NEW ps, NEW u, NEW ps2, NEW n, NEW g, ConUno(ps, u, n, ps2)
  PROVE  Apuntados(ps2, g) = MasApuntados(Apuntados(ps, g), u, g)
  <1>1. ASSUME NEW x
        PROVE  x \in Apuntados(ps2, g) <=> x \in Apuntados(ps, g) \/ (u.pagina = g /\ x = <<u.offset, u.size>>)
    <2>1. x \in Apuntados(ps2, g) <=> \E i \in DOMAIN ps2 : ps2[i].pagina = g /\ x = <<ps2[i].offset, ps2[i].size>>
      BY ApuntadosSon
    <2>2. x \in Apuntados(ps, g) <=> \E i \in DOMAIN ps : ps[i].pagina = g /\ x = <<ps[i].offset, ps[i].size>>
      BY ApuntadosSon
    <2> QED BY <2>1, <2>2 DEF ConUno
  <1> QED BY <1>1 DEF MasApuntados

LEMMA ApuntadosMas ==
  ASSUME NEW ps \in Seq(ConMetadata), NEW u \in ConMetadata, NEW g
  PROVE  Apuntados(Append(ps, u), g) = MasApuntados(Apuntados(ps, g), u, g)
  <1>q. PICK ps2 : ps2 = Append(ps, u)
    OBVIOUS
  <1>n. PICK n : n = Len(ps) + 1
    OBVIOUS
  <1>1. ConUno(ps, u, n, ps2)
    BY <1>n, <1>q, MasUno DEF ConUno
  <1>2. Apuntados(ps2, g) = MasApuntados(Apuntados(ps, g), u, g)
    BY <1>1, ApuntadosConUno
  <1> QED BY <1>2, <1>q

\* A pointer less, of those that are distinct
LEMMA ApuntadosMenos ==
  ASSUME NEW ps \in Seq(ConMetadata), Distintos(ps), NEW n \in DOMAIN ps,
         NEW ps2, ps2 = RemoveAt(ps, n), NEW g
  PROVE  /\ Apuntados(ps2, g) = Apuntados(ps, g) \ (IF ps[n].pagina = g THEN {<<ps[n].offset, ps[n].size>>} ELSE {})
         /\ Distintos(ps2)
  <1>1. /\ \A j \in DOMAIN ps2 : \E m \in DOMAIN ps : m # n /\ ps2[j] = ps[m]
        /\ \A m \in DOMAIN ps : m # n => \E j \in DOMAIN ps2 : ps2[j] = ps[m]
    BY QuitarDeja
  <1>2. ASSUME NEW x \in Apuntados(ps2, g)
        PROVE  x \in Apuntados(ps, g) /\ (ps[n].pagina = g => x # <<ps[n].offset, ps[n].size>>)
    <2>1. PICK j \in DOMAIN ps2 : ps2[j].pagina = g /\ x = <<ps2[j].offset, ps2[j].size>>
      BY ApuntadosSon
    <2>2. PICK m \in DOMAIN ps : m # n /\ ps2[j] = ps[m]
      BY <1>1
    <2>3. ps[m].pagina = g /\ x = <<ps[m].offset, ps[m].size>>
      BY <2>1, <2>2
    <2>4. x \in Apuntados(ps, g)
      BY <2>3, ApuntadosSon
    <2>5. ps[n].pagina = g => ps[m].offset # ps[n].offset
      BY <2>2, <2>3 DEF Distintos
    <2> QED BY <2>3, <2>4, <2>5
  <1>3. ASSUME NEW x \in Apuntados(ps, g), ps[n].pagina = g => x # <<ps[n].offset, ps[n].size>>
        PROVE  x \in Apuntados(ps2, g)
    <2>1. PICK m \in DOMAIN ps : ps[m].pagina = g /\ x = <<ps[m].offset, ps[m].size>>
      BY ApuntadosSon
    <2>2. m # n
      BY <2>1, <1>3
    <2>3. PICK j \in DOMAIN ps2 : ps2[j] = ps[m]
      BY <1>1, <2>2
    <2> QED BY <2>1, <2>3, ApuntadosSon
  <1>4. Distintos(ps2)
    <2> SUFFICES ASSUME NEW i \in DOMAIN ps2, NEW j \in DOMAIN ps2,
                        ps2[i].pagina = ps2[j].pagina, ps2[i].offset = ps2[j].offset
                 PROVE  i = j
      BY DEF Distintos
    <2>1. PICK a \in DOMAIN ps, b \in DOMAIN ps : ps2[i] = ps[a] /\ ps2[j] = ps[b] /\ (a = b => i = j)
      BY QuitarSepara
    <2>2. a = b
      BY <2>1 DEF Distintos
    <2> QED BY <2>1, <2>2
  <1> QED BY <1>2, <1>3, <1>4

LEMMA OcupadaSi ==
  ASSUME NEW g, NEW h
  PROVE  Ocupada(g, h) <=> \E n \in DOMAIN PunterosDe(h, g.pid) : PunterosDe(h, g.pid)[n].pagina = g.pagina
  BY DEF Ocupada, esta_ocupada

-----------------------------------------------------------------------------
(* Ending a process *)

LEMMA TerminarTipos ==
  ASSUME NEW s, NEW h, Tipos(s, h), NEW p, NEW t, t = SinPaginasDe(s, p),
         NEW h2, DOMAIN h2 \subseteq Pids, PunterosComo(h, p, <<>>, h2)
  PROVE  Tipos(t, h2)
  <1>0. s \in Seq(Pagina) /\ Len(s) \in Nat /\ Len(s) <= MaxPaginas /\ MaxPaginas \in Nat
    BY HeapAssumption DEF Tipos, HeapAssumption
  <1>1. PICK f : Resto(s, p, Len(s), t, f)
    BY <1>0, SinPaginasDeEs
  <1>2. t \in Seq(Pagina) /\ Len(t) <= MaxPaginas
    <2>1. t \in Seq(Pagina) /\ Len(t) <= Len(s)
      BY <1>1 DEF Resto
    <2>2. Len(t) \in Nat
      BY <2>1
    <2> QED BY <2>1, <2>2, <1>0
  <1>3. ASSUME NEW q \in Pids
        PROVE  /\ PunterosDe(h2, q) \in Seq(ConMetadata)
               /\ \A n \in DOMAIN PunterosDe(h2, q) :
                    \E k \in DOMAIN t : t[k].pid = q /\ t[k].pagina = PunterosDe(h2, q)[n].pagina
    <2>1. CASE q = p
      <3>1. PunterosDe(h2, q) = <<>>
        BY <2>1 DEF PunterosComo
      <3> QED BY <3>1
    <2>2. CASE q # p
      <3>1. PunterosDe(h2, q) = PunterosDe(h, q)
        BY <2>2 DEF PunterosComo
      <3>2. ASSUME NEW n \in DOMAIN PunterosDe(h, q)
            PROVE  \E k \in DOMAIN t : t[k].pid = q /\ t[k].pagina = PunterosDe(h, q)[n].pagina
        <4>1. PICK m \in DOMAIN s : s[m].pid = q /\ s[m].pagina = PunterosDe(h, q)[n].pagina
          BY DEF Tipos
        <4>2. m \in 1 .. Len(s) /\ s[m].pid # p
          BY <1>0, <2>2, <4>1
        <4>3. PICK i \in 1 .. Len(t) : f[i] = m
          BY <1>1, <4>2 DEF Resto
        <4>4. t[i] = s[m] /\ i \in DOMAIN t
          BY <1>1, <1>2, <4>3 DEF Resto
        <4> QED BY <4>1, <4>4
      <3> QED BY <3>1, <3>2 DEF Tipos
    <2> QED BY <2>1, <2>2
  <1> QED BY <1>2, <1>3 DEF Tipos

\* What the pages left are
LEMMA PaginasDeOtros ==
  ASSUME NEW s \in Seq(Pagina), NEW p, NEW t, t = SinPaginasDe(s, p)
  PROVE  /\ \A j \in DOMAIN t : \E k \in DOMAIN s : t[j] = s[k] /\ s[k].pid # p
         /\ \A i, j \in DOMAIN t :
              \E a, b \in DOMAIN s : t[i] = s[a] /\ t[j] = s[b] /\ (a = b => i = j)
  <1>1. PICK f : Resto(s, p, Len(s), t, f)
    BY SinPaginasDeEs
  <1>2. DOMAIN t = 1 .. Len(t) /\ DOMAIN s = 1 .. Len(s)
    BY <1>1 DEF Resto
  <1>3. \A j \in DOMAIN t : f[j] \in DOMAIN s /\ t[j] = s[f[j]] /\ s[f[j]].pid # p
    BY <1>1, <1>2 DEF Resto
  <1>4. \A i, j \in DOMAIN t : f[i] = f[j] => i = j
    BY <1>1, <1>2 DEF Resto
  <1> QED BY <1>3, <1>4

LEMMA TerminarRegular ==
  ASSUME NEW s, NEW h, Tipos(s, h), Regular(s, h), NEW p, NEW t, t = SinPaginasDe(s, p),
         NEW h2, PunterosComo(h, p, <<>>, h2)
  PROVE  Regular(t, h2)
  <1>0. s \in Seq(Pagina)
    BY DEF Tipos
  <1>1. SinRepetir(t)
    <2> SUFFICES ASSUME NEW i \in DOMAIN t, NEW j \in DOMAIN t,
                        t[i].pid = t[j].pid, t[i].pagina = t[j].pagina
                 PROVE  i = j
      BY DEF SinRepetir
    <2>1. PICK a \in DOMAIN s, b \in DOMAIN s : t[i] = s[a] /\ t[j] = s[b] /\ (a = b => i = j)
      BY <1>0, PaginasDeOtros
    <2> QED BY <2>1 DEF Regular, SinRepetir
  <1>2. ASSUME NEW q \in Pids
        PROVE  Distintos(PunterosDe(h2, q))
    <2>1. CASE q = p
      <3>1. PunterosDe(h2, q) = <<>>
        BY <2>1 DEF PunterosComo
      <3> QED BY <3>1 DEF Distintos
    <2>2. CASE q # p
      BY <2>2 DEF PunterosComo, Regular
    <2> QED BY <2>1, <2>2
  <1>3. ASSUME NEW j \in DOMAIN t
        PROVE  Acorde(t[j], h2)
    <2>1. PICK k \in DOMAIN s : t[j] = s[k] /\ s[k].pid # p
      BY <1>0, PaginasDeOtros
    <2>2. PunterosDe(h2, s[k].pid) = PunterosDe(h, s[k].pid)
      BY <2>1 DEF PunterosComo
    <2> QED BY <2>1, <2>2 DEF Regular, Acorde
  <1> QED BY <1>1, <1>2, <1>3 DEF Regular

LEMMA TerminarExacto ==
  ASSUME NEW s, NEW h, Tipos(s, h), Exacto(s, h), NEW p, NEW t, t = SinPaginasDe(s, p),
         NEW h2, PunterosComo(h, p, <<>>, h2)
  PROVE  Exacto(t, h2)
  <1>0. s \in Seq(Pagina)
    BY DEF Tipos
  <1>1. ASSUME NEW j \in DOMAIN t
        PROVE  t[j].espacio_libre = SumaLibre(t[j].meta) /\ Ocupada(t[j], h2)
    <2>1. PICK k \in DOMAIN s : t[j] = s[k] /\ s[k].pid # p
      BY <1>0, PaginasDeOtros
    <2>2. PunterosDe(h2, s[k].pid) = PunterosDe(h, s[k].pid)
      BY <2>1 DEF PunterosComo
    <2> QED BY <2>1, <2>2 DEF Exacto, LibreExacto, Ocupada
  <1> QED BY <1>1 DEF Exacto, LibreExacto

LEMMA TerminarEnPila ==
  ASSUME NEW s, NEW h, Tipos(s, h), EnPila(s, h), NEW p, NEW t, t = SinPaginasDe(s, p),
         NEW h2, PunterosComo(h, p, <<>>, h2)
  PROVE  EnPila(t, h2)
  <1>0. s \in Seq(Pagina)
    BY DEF Tipos
  <1>1. ASSUME NEW i \in DOMAIN t, NEW j \in DOMAIN t, t[i].pid = t[j].pid
        PROVE  i = j
    <2>1. PICK a \in DOMAIN s, b \in DOMAIN s : t[i] = s[a] /\ t[j] = s[b] /\ (a = b => i = j)
      BY <1>0, PaginasDeOtros
    <2> QED BY <2>1, <1>1 DEF EnPila
  <1>2. ASSUME NEW j \in DOMAIN t
        PROVE  Apilada(t[j].meta, t[j].espacio_libre)
    <2>1. PICK k \in DOMAIN s : t[j] = s[k]
      BY <1>0, PaginasDeOtros
    <2> QED BY <2>1 DEF EnPila
  <1>3. ASSUME NEW q \in Pids
        PROVE  Crecientes(PunterosDe(h2, q))
    <2>1. CASE q = p
      <3>1. PunterosDe(h2, q) = <<>>
        BY <2>1 DEF PunterosComo
      <3> QED BY <3>1 DEF Crecientes
    <2>2. CASE q # p
      BY <2>2 DEF PunterosComo, EnPila
    <2> QED BY <2>1, <2>2
  <1> QED BY <1>1, <1>2, <1>3 DEF EnPila

-----------------------------------------------------------------------------
(* A block that is asked for *)

\* From s and h to t and h2: r is taken from frame f, and counted in page k
Reservado(s, h, p, k, f, e, r, u, t, h2) ==
  /\ k \in DOMAIN s /\ s[k].pid = p /\ p \in Pids
  /\ f \in DOMAIN s /\ s[f].pid = p /\ s[f].pagina = s[k].pagina
  /\ e \in Nat /\ r \in alocar(s[f].meta, e)
  /\ r.offset # -1 /\ r.offset + e \in Desplazamientos
  /\ u = [pagina |-> s[k].pagina, offset |-> r.offset, size |-> e]
  /\ Cambiadas(s, f, r.meta, k, s[k].espacio_libre - (e + 5), t)
  /\ DOMAIN h2 \subseteq Pids /\ PunterosComo(h, p, Append(PunterosDe(h, p), u), h2)

LEMMA Alocado ==
  ASSUME NEW w \in Cadena, NEW e \in Nat, NEW r \in alocar(w, e),
         r.offset # -1, r.offset + e \in Desplazamientos
  PROVE  /\ r.meta \in Cadena /\ r.offset \in 5 .. tamanio_pagina - 1
         /\ r.raro \in SUBSET {"basura"}
         /\ r.raro = {} => \E c \in DOMAIN w : /\ w[c].isFree /\ w[c].size >= e + 5
                                               /\ r.offset = c + 5 /\ r.meta = Partida(w, c, w[c], e)
  <1>1. Hallado(w, e, r)
    BY AlocarHalla
  <1>2. PICK c \in 0 .. tamanio_pagina - 1 : \E m \in Lee(w, c) :
          /\ m \in Metadata /\ m.isFree /\ m.size >= e + 5
          /\ r.offset = c + 5 /\ r.meta = Partida(w, c, m, e)
          /\ r.raro = IF EnCadena(w, c) THEN {} ELSE {"basura"}
    BY <1>1 DEF Hallado
  <1>3. PICK m \in Lee(w, c) :
          /\ m \in Metadata /\ m.isFree /\ m.size >= e + 5
          /\ r.offset = c + 5 /\ r.meta = Partida(w, c, m, e)
          /\ r.raro = IF EnCadena(w, c) THEN {} ELSE {"basura"}
    BY <1>2
  <1>4. c + 5 + e <= tamanio_pagina - 5 /\ c \in Nat
    BY <1>3, Tamanio DEF Desplazamientos
  <1>5. r.meta \in Cadena
    <2>d. PICK d : d = c + 5 + e
      OBVIOUS
    <2>v. PICK v : v = Partida(w, c, m, e)
      OBVIOUS
    <2>1. /\ v \in Cadena /\ c \in DOMAIN v /\ d \in DOMAIN v
          /\ v[c] = [size |-> e, isFree |-> FALSE]
          /\ v[d] = [size |-> m.size - (e + 5), isFree |-> TRUE]
          /\ \A x \in DOMAIN v : x # c /\ x # d => x \in DOMAIN w /\ v[x] = w[x]
          /\ \A x \in DOMAIN w : /\ x + 5 <= c \/ c + 5 <= x
                                 /\ x + 5 <= d \/ d + 5 <= x
                                 => x \in DOMAIN v
      BY <1>3, <1>4, <2>d, <2>v, PartidaDa
    <2> QED BY <2>1, <2>v, <1>3
  <1>6. r.offset \in 5 .. tamanio_pagina - 1
    BY <1>3, <1>4, Tamanio
  <1>7. r.raro = {} => c \in DOMAIN w /\ m = w[c]
    BY <1>3 DEF EnCadena, Lee
  <1> QED BY <1>3, <1>5, <1>6, <1>7

LEMMA PunteroNuevo ==
  ASSUME NEW s \in Seq(Pagina), NEW h, NEW p, NEW k, NEW f, NEW e, NEW r, NEW u, NEW t, NEW h2,
         Reservado(s, h, p, k, f, e, r, u, t, h2)
  PROVE  /\ u \in ConMetadata /\ u.pagina = s[k].pagina /\ u.offset = r.offset /\ u.size = e
         /\ r.meta \in Cadena /\ r.raro \in SUBSET {"basura"}
         /\ s[f].meta \in Cadena
         /\ r.raro = {} => \E c \in DOMAIN s[f].meta :
              /\ s[f].meta[c].isFree /\ s[f].meta[c].size >= e + 5
              /\ r.offset = c + 5 /\ r.meta = Partida(s[f].meta, c, s[f].meta[c], e)
  <1>1. /\ k \in DOMAIN s /\ f \in DOMAIN s /\ e \in Nat /\ r \in alocar(s[f].meta, e)
        /\ r.offset # -1 /\ r.offset + e \in Desplazamientos
        /\ u = [pagina |-> s[k].pagina, offset |-> r.offset, size |-> e]
    BY DEF Reservado
  <1>2. s[f].meta \in Cadena /\ s[k].pagina \in Paginas
    BY <1>1, UnaPagina
  <1>3. /\ r.meta \in Cadena /\ r.offset \in 5 .. tamanio_pagina - 1
        /\ r.raro \in SUBSET {"basura"}
        /\ r.raro = {} => \E c \in DOMAIN s[f].meta :
             /\ s[f].meta[c].isFree /\ s[f].meta[c].size >= e + 5
             /\ r.offset = c + 5 /\ r.meta = Partida(s[f].meta, c, s[f].meta[c], e)
    BY <1>1, <1>2, Alocado
  <1>4. u \in ConMetadata /\ u.pagina = s[k].pagina /\ u.offset = r.offset /\ u.size = e
    BY <1>1, <1>2, <1>3, Tamanio DEF ConMetadata
  <1> QED BY <1>2, <1>3, <1>4

LEMMA ReservaTipos ==
  ASSUME NEW s, NEW h, Tipos(s, h),
         NEW p, NEW k, NEW f, NEW e, NEW r, NEW u, NEW t, NEW h2,
         Reservado(s, h, p, k, f, e, r, u, t, h2)
  PROVE  Tipos(t, h2)
  <1>0. s \in Seq(Pagina) /\ Len(s) <= MaxPaginas
    BY DEF Tipos
  <1>1. /\ t \in Seq(Pagina) /\ Len(t) = Len(s) /\ DOMAIN t = DOMAIN s
        /\ \A j \in DOMAIN s : t[j].pid = s[j].pid /\ t[j].pagina = s[j].pagina
    BY DEF Reservado, Cambiadas
  <1>2. u \in ConMetadata /\ u.pagina = s[k].pagina
    BY <1>0, PunteroNuevo
  <1>3. k \in DOMAIN s /\ s[k].pid = p /\ p \in Pids
    BY DEF Reservado
  <1>4. ASSUME NEW q \in Pids
        PROVE  /\ PunterosDe(h2, q) \in Seq(ConMetadata)
               /\ \A n \in DOMAIN PunterosDe(h2, q) :
                    \E j \in DOMAIN t : t[j].pid = q /\ t[j].pagina = PunterosDe(h2, q)[n].pagina
    <2>ps. PICK ps, ps2 : ps = PunterosDe(h, q) /\ ps2 = PunterosDe(h2, q)
      OBVIOUS
    <2>1. /\ ps \in Seq(ConMetadata)
          /\ \A n \in DOMAIN ps : \E j \in DOMAIN s : s[j].pid = q /\ s[j].pagina = ps[n].pagina
      BY <2>ps DEF Tipos
    <2>2. CASE q = p
      <3>1. ps2 = Append(ps, u)
        BY <2>ps, <2>2 DEF Reservado, PunterosComo
      <3>n. PICK n : n = Len(ps) + 1
        OBVIOUS
      <3>2. /\ ps2 \in Seq(ConMetadata) /\ n \in DOMAIN ps2 /\ ps2[n] = u /\ n \notin DOMAIN ps
            /\ DOMAIN ps2 = DOMAIN ps \cup {n}
            /\ \A i \in DOMAIN ps : ps2[i] = ps[i] /\ i < n
        BY <1>2, <2>1, <3>1, <3>n, MasUno
      <3>3. ASSUME NEW i \in DOMAIN ps2
            PROVE  \E j \in DOMAIN t : t[j].pid = q /\ t[j].pagina = ps2[i].pagina
        <4>1. CASE i = n
          BY <4>1, <3>2, <1>1, <1>2, <1>3, <2>2
        <4>2. CASE i # n
          <5>1. i \in DOMAIN ps /\ ps2[i] = ps[i]
            BY <4>2, <3>2
          <5> QED BY <5>1, <2>1, <1>1
        <4> QED BY <4>1, <4>2
      <3> QED BY <3>2, <3>3, <2>ps
    <2>3. CASE q # p
      <3>1. ps2 = ps
        BY <2>ps, <2>3 DEF Reservado, PunterosComo
      <3> QED BY <3>1, <2>1, <2>ps, <1>1
    <2> QED BY <2>2, <2>3
  <1>5. DOMAIN h2 \subseteq Pids
    BY DEF Reservado
  <1> QED BY <1>0, <1>1, <1>4, <1>5 DEF Tipos

\* The frame is that of the page, and what was cut was a block of its chain
LEMMA ReservaEnSuPagina ==
  ASSUME NEW s, NEW h, Tipos(s, h), SinRepetir(s),
         NEW p, NEW k, NEW f, NEW e, NEW r, NEW u, NEW t, NEW h2,
         Reservado(s, h, p, k, f, e, r, u, t, h2), r.raro = {}
  PROVE  /\ f = k /\ s \in Seq(Pagina) /\ s[k].meta \in Cadena
         /\ \E c \in DOMAIN s[k].meta :
              /\ s[k].meta[c].isFree /\ s[k].meta[c].size >= e + 5 /\ e \in Nat
              /\ u.offset = c + 5 /\ r.meta = Partida(s[k].meta, c, s[k].meta[c], e)
  <1>0. s \in Seq(Pagina)
    BY DEF Tipos
  <1>1. f = k
    BY DEF Reservado, SinRepetir
  <1>2. /\ s[f].meta \in Cadena /\ u.offset = r.offset
        /\ \E c \in DOMAIN s[f].meta :
              /\ s[f].meta[c].isFree /\ s[f].meta[c].size >= e + 5
              /\ r.offset = c + 5 /\ r.meta = Partida(s[f].meta, c, s[f].meta[c], e)
    BY <1>0, PunteroNuevo
  <1>3. e \in Nat
    BY DEF Reservado
  <1> QED BY <1>0, <1>1, <1>2, <1>3

LEMMA ReservaRegular ==
  ASSUME NEW s, NEW h, Tipos(s, h), Regular(s, h),
         NEW p, NEW k, NEW f, NEW e, NEW r, NEW u, NEW t, NEW h2,
         Reservado(s, h, p, k, f, e, r, u, t, h2), r.raro = {}
  PROVE  Regular(t, h2)
  <1>0. /\ s \in Seq(Pagina) /\ SinRepetir(s)
        /\ k \in DOMAIN s /\ s[k].pid = p /\ p \in Pids
        /\ \A q \in Pids : PunterosDe(h, q) \in Seq(ConMetadata) /\ Distintos(PunterosDe(h, q))
        /\ \A j \in DOMAIN s : Acorde(s[j], h)
    BY DEF Tipos, Regular, Reservado
  <1>w. PICK w : w = s[k].meta
    OBVIOUS
  <1>ps. PICK ps : ps = PunterosDe(h, p)
    OBVIOUS
  <1>1. f = k /\ w \in Cadena
        /\ \E c \in DOMAIN w : /\ w[c].isFree /\ w[c].size >= e + 5 /\ e \in Nat
                               /\ u.offset = c + 5 /\ r.meta = Partida(w, c, w[c], e)
    BY <1>0, <1>w, ReservaEnSuPagina
  <1>2. PICK c \in DOMAIN w : /\ w[c].isFree /\ w[c].size >= e + 5 /\ e \in Nat
                              /\ u.offset = c + 5 /\ r.meta = Partida(w, c, w[c], e)
    BY <1>1
  <1>3. u \in ConMetadata /\ u.pagina = s[k].pagina /\ u.size = e
    BY <1>0, PunteroNuevo
  <1>4. Encadenados(w) /\ Tomados(w) = Apuntados(ps, u.pagina)
    BY <1>0, <1>3, <1>w, <1>ps DEF Acorde
  <1>5. /\ DOMAIN t = DOMAIN s
        /\ \A j \in DOMAIN s : /\ t[j].pid = s[j].pid /\ t[j].pagina = s[j].pagina
                               /\ t[j].meta = IF j = k THEN r.meta ELSE s[j].meta
    BY <1>1 DEF Reservado, Cambiadas
  <1>6. /\ PunterosDe(h2, p) = Append(ps, u)
        /\ \A q : q # p => PunterosDe(h2, q) = PunterosDe(h, q)
    BY <1>ps DEF Reservado, PunterosComo
  <1>7. \A j \in DOMAIN ps : ~(ps[j].pagina = u.pagina /\ ps[j].offset = u.offset)
    <2>1. ASSUME NEW j \in DOMAIN ps, ps[j].pagina = u.pagina, ps[j].offset = u.offset
          PROVE  FALSE
      <3>1. <<ps[j].offset, ps[j].size>> \in Apuntados(ps, u.pagina)
        BY <2>1, ApuntadosSon
      <3>2. <<c + 5, ps[j].size>> \in Tomados(w)
        BY <3>1, <2>1, <1>2, <1>4
      <3>3. ~w[c].isFree
        BY <3>2, <1>1, TomadoUnico
      <3> QED BY <3>3, <1>2
    <2> QED BY <2>1
  <1>8. SinRepetir(t)
    BY <1>0, <1>5 DEF SinRepetir
  <1>9. ASSUME NEW q \in Pids
        PROVE  Distintos(PunterosDe(h2, q))
    <2>1. CASE q = p
      <3>n. PICK n : n = Len(ps) + 1
        OBVIOUS
      <3>q. PICK ps2 : ps2 = PunterosDe(h2, p)
        OBVIOUS
      <3>0. ps \in Seq(ConMetadata) /\ Distintos(ps)
        BY <1>0, <1>ps
      <3>1. /\ n \in DOMAIN ps2 /\ ps2[n] = u /\ n \notin DOMAIN ps
            /\ DOMAIN ps2 = DOMAIN ps \cup {n}
            /\ \A i \in DOMAIN ps : ps2[i] = ps[i]
        BY <1>3, <1>6, <3>0, <3>n, <3>q, MasUno
      <3>2. Distintos(ps2)
        BY <3>0, <3>1, <1>7 DEF Distintos
      <3> QED BY <3>2, <3>q, <2>1
    <2>2. CASE q # p
      BY <2>2, <1>0, <1>6
    <2> QED BY <2>1, <2>2
  <1>10. ASSUME NEW j \in DOMAIN t
         PROVE  Acorde(t[j], h2)
    <2>1. j \in DOMAIN s /\ Acorde(s[j], h) /\ t[j].pid = s[j].pid /\ t[j].pagina = s[j].pagina
      BY <1>0, <1>5
    <2>2. CASE j = k
      <3>v. PICK v : v = r.meta
        OBVIOUS
      <3>1. v = Partida(w, c, w[c], e)
        BY <3>v, <1>2
      <3>d. PICK d : d = c + 5 + e
        OBVIOUS
      <3>2. Encadenados(v)
        <4>1. /\ v \in Cadena /\ Encadenados(v)
              /\ d \notin DOMAIN w /\ DOMAIN v = DOMAIN w \cup {d} /\ c < d
              /\ c + 5 + e <= tamanio_pagina - 5
              /\ v[c] = [size |-> e, isFree |-> FALSE]
              /\ v[d] = [size |-> w[c].size - (e + 5), isFree |-> TRUE]
              /\ \A x \in DOMAIN w : x # c => v[x] = w[x]
              /\ Fin(d, v[d]) = Fin(c, w[c])
          BY <3>1, <3>d, <1>1, <1>2, <1>4, PartidaEncadena
        <4> QED BY <4>1
      <3>3. Tomados(v) = Tomados(w) \cup {<<c + 5, e>>}
        BY <3>1, <1>1, <1>2, <1>4, PartidaToma
      <3>4. Apuntados(Append(ps, u), u.pagina) = MasApuntados(Apuntados(ps, u.pagina), u, u.pagina)
        <4>1. ps \in Seq(ConMetadata)
          BY <1>0, <1>ps
        <4> QED BY <4>1, <1>3, ApuntadosMas
      <3>5. Apuntados(Append(ps, u), u.pagina) = Apuntados(ps, u.pagina) \cup {<<c + 5, e>>}
        BY <3>4, <1>2, <1>3 DEF MasApuntados
      <3>6. t[j].meta = v /\ t[j].pid = p /\ t[j].pagina = u.pagina
        BY <2>1, <2>2, <3>v, <1>0, <1>3, <1>5
      <3>7. Tomados(v) = Apuntados(PunterosDe(h2, p), u.pagina)
        BY <3>3, <3>5, <1>4, <1>6
      <3> QED BY <3>2, <3>6, <3>7 DEF Acorde
    <2>3. CASE j # k
      <3>1. t[j].meta = s[j].meta
        BY <2>1, <2>3, <1>5
      <3>2. Apuntados(PunterosDe(h2, s[j].pid), s[j].pagina) = Apuntados(PunterosDe(h, s[j].pid), s[j].pagina)
        <4>1. CASE s[j].pid # p
          BY <4>1, <1>6
        <4>2. CASE s[j].pid = p
          <5>1. u.pagina # s[j].pagina
            BY <4>2, <2>1, <2>3, <1>0, <1>3 DEF SinRepetir
          <5>2. Apuntados(Append(ps, u), s[j].pagina) = MasApuntados(Apuntados(ps, s[j].pagina), u, s[j].pagina)
            <6>1. ps \in Seq(ConMetadata)
              BY <1>0, <1>ps
            <6> QED BY <6>1, <1>3, ApuntadosMas
          <5>3. Apuntados(Append(ps, u), s[j].pagina) = Apuntados(ps, s[j].pagina)
            BY <5>1, <5>2 DEF MasApuntados
          <5> QED BY <5>3, <4>2, <1>6, <1>ps
        <4> QED BY <4>1, <4>2
      <3> QED BY <3>1, <3>2, <2>1 DEF Acorde
    <2> QED BY <2>2, <2>3
  <1> QED BY <1>8, <1>9, <1>10 DEF Regular

\* Every page but k may be relied on to have something in it
LEMMA ReservaExacto ==
  ASSUME NEW s, NEW h, Tipos(s, h), Regular(s, h), LibreExacto(s),
         NEW p, NEW k, NEW f, NEW e, NEW r, NEW u, NEW t, NEW h2,
         Reservado(s, h, p, k, f, e, r, u, t, h2), r.raro = {},
         \A j \in DOMAIN s : j # k => Ocupada(s[j], h)
  PROVE  Exacto(t, h2)
  <1>0. /\ s \in Seq(Pagina) /\ SinRepetir(s)
        /\ k \in DOMAIN s /\ s[k].pid = p /\ p \in Pids
        /\ \A q \in Pids : PunterosDe(h, q) \in Seq(ConMetadata)
        /\ \A j \in DOMAIN s : Acorde(s[j], h)
    BY DEF Tipos, Regular, Reservado
  <1>w. PICK w : w = s[k].meta
    OBVIOUS
  <1>ps. PICK ps : ps = PunterosDe(h, p)
    OBVIOUS
  <1>1. f = k /\ w \in Cadena
        /\ \E c \in DOMAIN w : /\ w[c].isFree /\ w[c].size >= e + 5 /\ e \in Nat
                               /\ u.offset = c + 5 /\ r.meta = Partida(w, c, w[c], e)
    BY <1>0, <1>w, ReservaEnSuPagina
  <1>2. PICK c \in DOMAIN w : /\ w[c].isFree /\ w[c].size >= e + 5 /\ e \in Nat
                              /\ u.offset = c + 5 /\ r.meta = Partida(w, c, w[c], e)
    BY <1>1
  <1>3. u \in ConMetadata /\ u.pagina = s[k].pagina
    BY <1>0, PunteroNuevo
  <1>4. Encadenados(w)
    BY <1>0, <1>w DEF Acorde
  <1>5. /\ DOMAIN t = DOMAIN s
        /\ \A j \in DOMAIN s : /\ t[j].pid = s[j].pid /\ t[j].pagina = s[j].pagina
                               /\ t[j].meta = IF j = k THEN r.meta ELSE s[j].meta
                               /\ t[j].espacio_libre = IF j = k THEN s[k].espacio_libre - (e + 5)
                                                       ELSE s[j].espacio_libre
    BY <1>1 DEF Reservado, Cambiadas
  <1>6. /\ PunterosDe(h2, p) = Append(ps, u)
        /\ \A q : q # p => PunterosDe(h2, q) = PunterosDe(h, q)
    BY <1>ps DEF Reservado, PunterosComo
  <1>7. SumaLibre(w) \in Nat /\ SumaLibre(r.meta) = SumaLibre(w) - (e + 5)
    BY <1>1, <1>2, <1>4, PartidaResta
  <1>8. LibreExacto(t)
    <2>1. ASSUME NEW j \in DOMAIN t
          PROVE  t[j].espacio_libre = SumaLibre(t[j].meta)
      <3>1. j \in DOMAIN s /\ s[j].espacio_libre = SumaLibre(s[j].meta)
        BY <1>5 DEF LibreExacto
      <3>2. CASE j = k
        BY <3>1, <3>2, <1>5, <1>7, <1>w
      <3>3. CASE j # k
        BY <3>1, <3>3, <1>5
      <3> QED BY <3>2, <3>3
    <2> QED BY <2>1 DEF LibreExacto
  <1>n. PICK n : n = Len(ps) + 1
    OBVIOUS
  <1>q. PICK ps2 : ps2 = PunterosDe(h2, p)
    OBVIOUS
  <1>9. /\ n \in DOMAIN ps2 /\ ps2[n] = u /\ n \notin DOMAIN ps
        /\ DOMAIN ps2 = DOMAIN ps \cup {n}
        /\ \A i \in DOMAIN ps : ps2[i] = ps[i]
    <2>1. ps \in Seq(ConMetadata)
      BY <1>0, <1>ps
    <2> QED BY <1>3, <1>6, <2>1, <1>n, <1>q, MasUno
  <1>10. ASSUME NEW j \in DOMAIN t
         PROVE  Ocupada(t[j], h2)
    <2>0. j \in DOMAIN s /\ t[j].pid = s[j].pid /\ t[j].pagina = s[j].pagina
      BY <1>5
    <2>1. CASE j = k
      BY <2>0, <2>1, <1>0, <1>3, <1>9, <1>q, OcupadaSi
    <2>2. CASE j # k
      <3>1. PICK i \in DOMAIN PunterosDe(h, s[j].pid) : PunterosDe(h, s[j].pid)[i].pagina = s[j].pagina
        BY <2>0, <2>2, OcupadaSi
      <3>2. i \in DOMAIN PunterosDe(h2, s[j].pid) /\ PunterosDe(h2, s[j].pid)[i] = PunterosDe(h, s[j].pid)[i]
        <4>1. CASE s[j].pid = p
          BY <4>1, <3>1, <1>9, <1>q, <1>ps
        <4>2. CASE s[j].pid # p
          BY <4>2, <3>1, <1>6
        <4> QED BY <4>1, <4>2
      <3> QED BY <3>1, <3>2, <2>0, OcupadaSi
    <2> QED BY <2>1, <2>2
  <1> QED BY <1>8, <1>10 DEF Exacto

\* In a stack there is always where the count says, and nothing odd comes of it
LEMMA ReservaHallada ==
  ASSUME NEW w \in Cadena, Encadenados(w), NEW l, Apilada(w, l), NEW e \in Nat, l >= e + 5,
         NEW r \in alocar(w, e)
  PROVE  /\ r.offset # -1 /\ r.offset + e \in Desplazamientos /\ r.raro = {}
         /\ \E d \in DOMAIN w : /\ UltimoLibre(w, d) /\ w[d].size = l
                                /\ r.offset = d + 5 /\ r.meta = Partida(w, d, w[d], e)
  <1>1. PICK d \in DOMAIN w : UltimoLibre(w, d) /\ w[d].size = l
    BY DEF Apilada
  <1>2. r.offset = d + 5 /\ r.meta = Partida(w, d, w[d], e) /\ r.raro = {}
    BY <1>1, AlocarEnPila
  <1>3. d \in Nat /\ l \in Nat /\ d + 5 + l = tamanio_pagina
    BY <1>1, BloqueDe DEF UltimoLibre
  <1>4. r.offset # -1 /\ r.offset + e \in Desplazamientos
    BY <1>2, <1>3, Tamanio DEF Desplazamientos
  <1> QED BY <1>1, <1>2, <1>4

\* What is cut from the last block leaves a stack
LEMMA PartidaApila ==
  ASSUME NEW w \in Cadena, Encadenados(w), NEW d \in DOMAIN w, UltimoLibre(w, d),
         NEW e \in Nat, w[d].size >= e + 5, NEW v, v = Partida(w, d, w[d], e)
  PROVE  Apilada(v, w[d].size - (e + 5))
  <1>c. PICK c : c = d + 5 + e
    OBVIOUS
  <1>s. PICK s : s = w[d].size
    OBVIOUS
  <1>0. w[d].isFree /\ Fin(d, w[d]) = tamanio_pagina /\ \A x \in DOMAIN w : x # d => ~w[x].isFree
    BY DEF UltimoLibre
  <1>1. /\ v \in Cadena /\ Encadenados(v)
        /\ c \notin DOMAIN w /\ DOMAIN v = DOMAIN w \cup {c} /\ d < c
        /\ d + 5 + e <= tamanio_pagina - 5
        /\ v[d] = [size |-> e, isFree |-> FALSE]
        /\ v[c] = [size |-> w[d].size - (e + 5), isFree |-> TRUE]
        /\ \A x \in DOMAIN w : x # d => v[x] = w[x]
        /\ Fin(c, v[c]) = Fin(d, w[d])
    BY <1>0, <1>c, PartidaEncadena
  <1>2. v[c].isFree /\ v[c].size = s - (e + 5) /\ ~v[d].isFree
    BY <1>1, <1>s
  <1>3. \A x \in DOMAIN v : x # c => ~v[x].isFree
    <2>1. ASSUME NEW x \in DOMAIN v, x # c
          PROVE  ~v[x].isFree
      <3>1. x \in DOMAIN w
        BY <1>1, <2>1
      <3>2. x # d => v[x] = w[x]
        BY <1>1, <3>1
      <3> QED BY <3>1, <3>2, <1>0, <1>2
    <2> QED BY <2>1
  <1>4. UltimoLibre(v, c)
    <2>1. c \in DOMAIN v /\ Fin(c, v[c]) = tamanio_pagina
      BY <1>0, <1>1
    <2> QED BY <2>1, <1>2, <1>3 DEF UltimoLibre
  <1>5. c \in DOMAIN v
    BY <1>1
  <1> QED BY <1>2, <1>4, <1>5, <1>s DEF Apilada

LEMMA ReservaEnPila ==
  ASSUME NEW s, NEW h, Tipos(s, h), Regular(s, h), EnPila(s, h),
         NEW p, NEW k, NEW f, NEW e, NEW r, NEW u, NEW t, NEW h2,
         Reservado(s, h, p, k, f, e, r, u, t, h2), s[k].espacio_libre >= e + 5
  PROVE  EnPila(t, h2)
  <1>0. /\ s \in Seq(Pagina) /\ SinRepetir(s)
        /\ k \in DOMAIN s /\ s[k].pid = p /\ p \in Pids /\ f = k
        /\ \A q \in Pids : PunterosDe(h, q) \in Seq(ConMetadata)
        /\ \A j \in DOMAIN s : Acorde(s[j], h)
        /\ \A j \in DOMAIN s : Apilada(s[j].meta, s[j].espacio_libre)
        /\ e \in Nat /\ r \in alocar(s[k].meta, e)
    BY DEF Tipos, Regular, EnPila, Reservado
  <1>w. PICK w : w = s[k].meta
    OBVIOUS
  <1>l. PICK l : l = s[k].espacio_libre
    OBVIOUS
  <1>ps. PICK ps : ps = PunterosDe(h, p)
    OBVIOUS
  <1>1. /\ w \in Cadena /\ Encadenados(w) /\ Apilada(w, l) /\ r \in alocar(w, e) /\ l >= e + 5
    BY <1>0, <1>w, <1>l, UnaPagina DEF Acorde
  <1>2. PICK d \in DOMAIN w : /\ UltimoLibre(w, d) /\ w[d].size = l
                              /\ r.offset = d + 5 /\ r.meta = Partida(w, d, w[d], e)
    BY <1>0, <1>1, ReservaHallada
  <1>3. Apilada(r.meta, l - (e + 5))
    <2>v. PICK v : v = r.meta
      OBVIOUS
    <2>1. Apilada(v, w[d].size - (e + 5))
      BY <1>0, <1>1, <1>2, <2>v, PartidaApila
    <2> QED BY <2>1, <2>v, <1>2
  <1>4. u \in ConMetadata /\ u.pagina = s[k].pagina /\ u.offset = d + 5
    BY <1>0, <1>2, PunteroNuevo
  <1>5. /\ DOMAIN t = DOMAIN s
        /\ \A j \in DOMAIN s : /\ t[j].pid = s[j].pid
                               /\ t[j].meta = IF j = k THEN r.meta ELSE s[j].meta
                               /\ t[j].espacio_libre = IF j = k THEN l - (e + 5) ELSE s[j].espacio_libre
    BY <1>0, <1>l DEF Reservado, Cambiadas
  <1>6. /\ PunterosDe(h2, p) = Append(ps, u)
        /\ \A q : q # p => PunterosDe(h2, q) = PunterosDe(h, q)
    BY <1>ps DEF Reservado, PunterosComo
  \* All the pointers are of the page, and their blocks before the free one
  <1>7. \A i \in DOMAIN ps : ps[i].offset < u.offset
    <2>1. ASSUME NEW i \in DOMAIN ps
          PROVE  ps[i].offset < u.offset
      <3>1. PICK j \in DOMAIN s : s[j].pid = p /\ s[j].pagina = ps[i].pagina
        BY <1>0, <1>ps DEF Tipos
      <3>2. j = k
        BY <3>1, <1>0 DEF EnPila
      <3>3. <<ps[i].offset, ps[i].size>> \in Apuntados(ps, s[k].pagina)
        BY <3>1, <3>2, ApuntadosSon
      <3>4. <<ps[i].offset, ps[i].size>> \in Tomados(w)
        BY <3>3, <1>0, <1>w, <1>ps DEF Acorde
      <3>5. PICK c \in DOMAIN w : ~w[c].isFree /\ <<ps[i].offset, ps[i].size>> = <<c + 5, w[c].size>>
        BY <3>4, TomadosSon
      <3>6. c \in Nat /\ d \in Nat /\ c # d /\ w[d].isFree
        BY <3>5, <1>1, <1>2, BloqueDe DEF UltimoLibre
      <3>7. ~(d < c)
        <4>1. Fin(d, w[d]) = tamanio_pagina /\ c < tamanio_pagina
          BY <1>1, <1>2, BloqueDe, Tamanio DEF UltimoLibre
        <4>2. d < c => Fin(d, w[d]) <= c
          BY <1>1, BloqueDentro
        <4> QED BY <4>1, <4>2, <3>6, Tamanio
      <3>8. ps[i].offset = c + 5
        BY <3>5
      <3> QED BY <3>6, <3>7, <3>8, <1>4
    <2> QED BY <2>1
  <1>8. ASSUME NEW q \in Pids
        PROVE  Crecientes(PunterosDe(h2, q))
    <2>1. CASE q = p
      <3>n. PICK n : n = Len(ps) + 1
        OBVIOUS
      <3>q. PICK ps2 : ps2 = PunterosDe(h2, p)
        OBVIOUS
      <3>0. ps \in Seq(ConMetadata) /\ Crecientes(ps) /\ DOMAIN ps = 1 .. Len(ps) /\ Len(ps) \in Nat
        BY <1>0, <1>ps DEF EnPila
      <3>1. /\ n \in DOMAIN ps2 /\ ps2[n] = u /\ n \notin DOMAIN ps
            /\ DOMAIN ps2 = DOMAIN ps \cup {n}
            /\ \A i \in DOMAIN ps : ps2[i] = ps[i] /\ i < n
        BY <1>4, <1>6, <3>0, <3>n, <3>q, MasUno
      <3>2. Crecientes(ps2)
        <4> SUFFICES ASSUME NEW i \in DOMAIN ps2, NEW j \in DOMAIN ps2, i < j
                     PROVE  ps2[i].offset < ps2[j].offset
          BY DEF Crecientes
        <4>1. i # n
          <5>1. j \in DOMAIN ps => j < n /\ j \in Nat
            BY <3>0, <3>1
          <5>2. j \in DOMAIN ps \/ j = n
            BY <3>1
          <5>3. n \in Nat
            BY <3>0, <3>n
          <5> QED BY <5>1, <5>2, <5>3
        <4>2. i \in DOMAIN ps /\ ps2[i] = ps[i]
          BY <4>1, <3>1
        <4>3. CASE j = n
          BY <4>2, <4>3, <3>1, <1>7
        <4>4. CASE j # n
          <5>1. j \in DOMAIN ps /\ ps2[j] = ps[j]
            BY <4>4, <3>1
          <5> QED BY <5>1, <4>2, <3>0 DEF Crecientes
        <4> QED BY <4>3, <4>4
      <3> QED BY <3>2, <3>q, <2>1
    <2>2. CASE q # p
      BY <2>2, <1>6 DEF EnPila
    <2> QED BY <2>1, <2>2
  <1>9. \A i, j \in DOMAIN t : t[i].pid = t[j].pid => i = j
    BY <1>5 DEF EnPila
  <1>10. \A j \in DOMAIN t : Apilada(t[j].meta, t[j].espacio_libre)
    BY <1>0, <1>3, <1>5
  <1> QED BY <1>8, <1>9, <1>10 DEF EnPila


-----------------------------------------------------------------------------
(* A new page *)

\* t is s with page x of p at the end, in n
ConNueva(s, p, x, n, t) ==
  /\ t \in Seq(Pagina) /\ Len(t) <= MaxPaginas
  /\ n \notin DOMAIN s /\ DOMAIN t = DOMAIN s \cup {n}
  /\ \A j \in DOMAIN s : t[j] = s[j]
  /\ t[n].pid = p /\ t[n].pagina = x
  /\ t[n].espacio_libre = tamanio_pagina - 5 /\ t[n].meta = PaginaNueva

LEMMA NuevaDa ==
  ASSUME NEW s \in Seq(Pagina), NEW p \in Pids, Len(s) < MaxPaginas,
         NEW x, x = PrimeraPagina + Cuantas(s, p)
  PROVE  ConNueva(s, p, x, Len(s) + 1,
                  Append(s, [pid |-> p, pagina |-> x,
                             espacio_libre |-> tamanio_pagina - tamanio_metadata, meta |-> PaginaNueva]))
  <1>g. PICK g : g = [pid |-> p, pagina |-> x,
                      espacio_libre |-> tamanio_pagina - tamanio_metadata, meta |-> PaginaNueva]
    OBVIOUS
  <1>t. PICK t : t = Append(s, g)
    OBVIOUS
  <1>n. PICK n : n = Len(s) + 1
    OBVIOUS
  <1>0. Len(s) \in Nat /\ MaxPaginas \in Nat /\ PrimeraPagina \in Nat /\ Len(s) < MaxPaginas
    BY HeapAssumption DEF HeapAssumption
  <1>1. x \in Paginas
    <2>1. Cuantas(s, p) \in 0 .. Len(s)
      BY CuantasSon
    <2> QED BY <1>0, <2>1 DEF Paginas
  <1>2. PaginaNueva \in Cadena
    BY NuevaEncadena
  <1>3. tamanio_pagina - tamanio_metadata = tamanio_pagina - 5 /\ tamanio_pagina - 5 \in Int
    BY Tamanio
  <1>4. /\ g \in Pagina /\ g.pid = p /\ g.pagina = x
        /\ g.espacio_libre = tamanio_pagina - 5 /\ g.meta = PaginaNueva
    BY <1>g, <1>1, <1>2, <1>3 DEF Pagina
  <1>5. /\ t \in Seq(Pagina) /\ Len(t) = n /\ DOMAIN t = DOMAIN s \cup {n} /\ n \notin DOMAIN s
        /\ t[n] = g /\ \A j \in DOMAIN s : t[j] = s[j]
    BY <1>4, <1>t, <1>n
  <1>6. n <= MaxPaginas
    BY <1>0, <1>n
  <1>7. ConNueva(s, p, x, n, t)
    BY <1>4, <1>5, <1>6 DEF ConNueva
  <1> QED BY <1>7, <1>n, <1>t, <1>g

LEMMA NuevaTipos ==
  ASSUME NEW s, NEW h, Tipos(s, h), NEW p, NEW x, NEW n, NEW t, ConNueva(s, p, x, n, t)
  PROVE  Tipos(t, h)
  <1>1. t \in Seq(Pagina) /\ Len(t) <= MaxPaginas
    BY DEF ConNueva
  <1>2. ASSUME NEW q \in Pids, NEW i \in DOMAIN PunterosDe(h, q)
        PROVE  \E k \in DOMAIN t : t[k].pid = q /\ t[k].pagina = PunterosDe(h, q)[i].pagina
    <2>1. PICK k \in DOMAIN s : s[k].pid = q /\ s[k].pagina = PunterosDe(h, q)[i].pagina
      BY DEF Tipos
    <2>2. k \in DOMAIN t /\ t[k] = s[k]
      BY DEF ConNueva
    <2> QED BY <2>1, <2>2
  <1> QED BY <1>1, <1>2 DEF Tipos

\* Nothing is taken in it, and no pointer is of it
LEMMA NuevaRegular ==
  ASSUME NEW s, NEW h, Tipos(s, h), Regular(s, h),
         NEW p \in Pids, NEW x, NEW n, NEW t, ConNueva(s, p, x, n, t),
         \A k \in DOMAIN s : ~(s[k].pid = p /\ s[k].pagina = x)
  PROVE  Regular(t, h)
  <1>0. /\ n \notin DOMAIN s /\ DOMAIN t = DOMAIN s \cup {n}
        /\ \A j \in DOMAIN s : t[j] = s[j]
        /\ t[n].pid = p /\ t[n].pagina = x /\ t[n].meta = PaginaNueva
    BY DEF ConNueva
  <1>1. SinRepetir(t)
    <2> SUFFICES ASSUME NEW i \in DOMAIN t, NEW j \in DOMAIN t,
                        t[i].pid = t[j].pid, t[i].pagina = t[j].pagina
                 PROVE  i = j
      BY DEF SinRepetir
    <2>1. CASE i = n
      <3>1. j \notin DOMAIN s
        BY <1>0, <2>1
      <3> QED BY <3>1, <2>1, <1>0
    <2>2. CASE j = n
      <3>1. i \notin DOMAIN s
        BY <1>0, <2>2
      <3> QED BY <3>1, <2>2, <1>0
    <2>3. CASE i # n /\ j # n
      <3>1. i \in DOMAIN s /\ j \in DOMAIN s /\ t[i] = s[i] /\ t[j] = s[j]
        BY <1>0, <2>3
      <3>2. SinRepetir(s)
        BY DEF Regular
      <3> QED BY <3>1, <3>2 DEF SinRepetir
    <2> QED BY <2>1, <2>2, <2>3
  <1>2. Apuntados(PunterosDe(h, p), x) = {}
    <2>1. ASSUME NEW y \in Apuntados(PunterosDe(h, p), x)
          PROVE  FALSE
      <3>1. PICK i \in DOMAIN PunterosDe(h, p) : PunterosDe(h, p)[i].pagina = x
        BY ApuntadosSon
      <3>2. PICK k \in DOMAIN s : s[k].pid = p /\ s[k].pagina = PunterosDe(h, p)[i].pagina
        BY DEF Tipos
      <3> QED BY <3>1, <3>2
    <2> QED BY <2>1
  <1>3. Acorde(t[n], h)
    BY <1>0, <1>2, NuevaEncadena, NuevaSinTomados DEF Acorde
  <1>4. \A j \in DOMAIN t : Acorde(t[j], h)
    <2>1. \A j \in DOMAIN s : Acorde(s[j], h)
      BY DEF Regular
    <2> QED BY <2>1, <1>0, <1>3
  <1>5. \A q \in Pids : Distintos(PunterosDe(h, q))
    BY DEF Regular
  <1> QED BY <1>1, <1>4, <1>5 DEF Regular

LEMMA NuevaExacto ==
  ASSUME NEW s, LibreExacto(s), NEW p, NEW x, NEW n, NEW t, ConNueva(s, p, x, n, t)
  PROVE  LibreExacto(t)
  <1>0. /\ DOMAIN t = DOMAIN s \cup {n} /\ \A j \in DOMAIN s : t[j] = s[j]
        /\ t[n].espacio_libre = tamanio_pagina - 5 /\ t[n].meta = PaginaNueva
    BY DEF ConNueva
  <1>1. t[n].espacio_libre = SumaLibre(t[n].meta)
    BY <1>0, NuevaLibre
  <1> QED BY <1>0, <1>1 DEF LibreExacto

LEMMA NuevaEnPila ==
  ASSUME NEW s, NEW h, EnPila(s, h), NEW p, NEW x, NEW n, NEW t, ConNueva(s, p, x, n, t),
         \A k \in DOMAIN s : s[k].pid # p
  PROVE  EnPila(t, h)
  <1>0. /\ n \notin DOMAIN s /\ DOMAIN t = DOMAIN s \cup {n}
        /\ \A j \in DOMAIN s : t[j] = s[j]
        /\ t[n].pid = p /\ t[n].espacio_libre = tamanio_pagina - 5 /\ t[n].meta = PaginaNueva
    BY DEF ConNueva
  <1>1. \A i, j \in DOMAIN t : t[i].pid = t[j].pid => i = j
    <2> SUFFICES ASSUME NEW i \in DOMAIN t, NEW j \in DOMAIN t, t[i].pid = t[j].pid
                 PROVE  i = j
      OBVIOUS
    <2>1. i \in DOMAIN s => j \in DOMAIN s
      BY <1>0
    <2>2. j \in DOMAIN s => i \in DOMAIN s
      BY <1>0
    <2>3. CASE i \in DOMAIN s
      <3>1. t[i] = s[i] /\ t[j] = s[j] /\ j \in DOMAIN s
        BY <2>1, <2>3, <1>0
      <3> QED BY <3>1, <2>3 DEF EnPila
    <2>4. CASE i \notin DOMAIN s
      BY <2>2, <2>4, <1>0
    <2> QED BY <2>3, <2>4
  <1>2. Apilada(t[n].meta, t[n].espacio_libre)
    <2>w. PICK w : w = PaginaNueva
      OBVIOUS
    <2>1. w \in Cadena /\ DOMAIN w = {0} /\ w[0] = [size |-> tamanio_pagina - 5, isFree |-> TRUE]
      BY <2>w, NuevaEncadena
    <2>2. Fin(0, w[0]) = tamanio_pagina /\ w[0].isFree /\ w[0].size = tamanio_pagina - 5
      BY <2>1, Tamanio DEF Fin
    <2>3. UltimoLibre(w, 0)
      BY <2>1, <2>2 DEF UltimoLibre
    <2>4. Apilada(w, tamanio_pagina - 5)
      BY <2>1, <2>2, <2>3 DEF Apilada
    <2> QED BY <2>4, <2>w, <1>0
  <1>3. \A j \in DOMAIN t : Apilada(t[j].meta, t[j].espacio_libre)
    BY <1>0, <1>2 DEF EnPila
  <1>4. \A q \in Pids : Crecientes(PunterosDe(h, q))
    BY DEF EnPila
  <1> QED BY <1>1, <1>3, <1>4 DEF EnPila

\* The block will be in it
LEMMA NuevaConEspacio ==
  ASSUME NEW s \in Seq(Pagina), NEW p, NEW e \in Nat, e <= tamanio_pagina - 10,
         ConEspacio(s, p, e) = 0, NEW x, NEW n, NEW t, ConNueva(s, p, x, n, t)
  PROVE  ConEspacio(t, p, e) = n
  <1>k. PICK k : k = ConEspacio(t, p, e)
    OBVIOUS
  <1>0. /\ n \notin DOMAIN s /\ DOMAIN t = DOMAIN s \cup {n} /\ t \in Seq(Pagina)
        /\ \A j \in DOMAIN s : t[j] = s[j]
        /\ t[n].pid = p /\ t[n].espacio_libre = tamanio_pagina - 5
    BY DEF ConNueva
  <1>1. \A j \in DOMAIN s : ~(s[j].pid = p /\ s[j].espacio_libre >= e + 5)
    <2>1. 0 \notin DOMAIN s
      OBVIOUS
    <2> QED BY <2>1, ConEspacioEs
  <1>2. \/ /\ k = 0
           /\ \A j \in DOMAIN t : ~(t[j].pid = p /\ t[j].espacio_libre >= e + 5)
        \/ k \in DOMAIN t /\ t[k].pid = p /\ t[k].espacio_libre >= e + 5
    BY <1>0, <1>k, ConEspacioEs
  <1>3. t[n].espacio_libre >= e + 5
    BY <1>0, Tamanio
  <1>4. k \in DOMAIN t /\ t[k].pid = p /\ t[k].espacio_libre >= e + 5
    BY <1>0, <1>2, <1>3
  <1>5. k \notin DOMAIN s
    BY <1>0, <1>1, <1>4
  <1> QED BY <1>0, <1>4, <1>5, <1>k

-----------------------------------------------------------------------------
(* A pointer that is freed *)

\* From s and h to t and h2: pointer n, which is u, is freed in frame f, which leaves v, and
\* page k is compacted, which gives r and leaves c.
Liberado(s, h, p, n, k, f, u, v, r, c, t, h2) ==
  /\ p \in Pids /\ n \in DOMAIN PunterosDe(h, p) /\ u = PunterosDe(h, p)[n]
  /\ k \in DOMAIN s /\ s[k].pid = p
  /\ f \in DOMAIN s /\ s[f].pid = p /\ s[f].pagina = u.pagina
  /\ MetaCambiada(s, f, Escribe(s[f].meta, u.offset - 5, [size |-> u.size, isFree |-> TRUE]), v)
  /\ r \in compactar_pagina(v[k].meta, s[k].espacio_libre + u.size)
  /\ Cambiadas(v, k, r.meta, k, r.libre, c)
  /\ t = IF esta_ocupada(PunterosDe(h2, p), s[k].pagina) THEN c ELSE RemoveAt(c, k)
  /\ DOMAIN h2 \subseteq Pids /\ PunterosComo(h, p, RemoveAt(PunterosDe(h, p), n), h2)

\* A page that is given back takes nothing from what is said of the others
LEMMA QuitarRegular ==
  ASSUME NEW c \in Seq(Pagina), NEW h, Regular(c, h), NEW k \in DOMAIN c, NEW t, t = RemoveAt(c, k)
  PROVE  Regular(t, h)
  <1>1. SinRepetir(t)
    <2> SUFFICES ASSUME NEW i \in DOMAIN t, NEW j \in DOMAIN t,
                        t[i].pid = t[j].pid, t[i].pagina = t[j].pagina
                 PROVE  i = j
      BY DEF SinRepetir
    <2>1. PICK a \in DOMAIN c, b \in DOMAIN c : t[i] = c[a] /\ t[j] = c[b] /\ (a = b => i = j)
      BY QuitarSepara
    <2> QED BY <2>1 DEF Regular, SinRepetir
  <1>2. \A j \in DOMAIN t : Acorde(t[j], h)
    <2>1. \A j \in DOMAIN t : \E m \in DOMAIN c : t[j] = c[m]
      BY QuitarDeja
    <2> QED BY <2>1 DEF Regular
  <1>3. \A q \in Pids : Distintos(PunterosDe(h, q))
    BY DEF Regular
  <1> QED BY <1>1, <1>2, <1>3 DEF Regular

LEMMA QuitarEnPila ==
  ASSUME NEW c \in Seq(Pagina), NEW h, EnPila(c, h), NEW k \in DOMAIN c, NEW t, t = RemoveAt(c, k)
  PROVE  EnPila(t, h)
  <1>1. ASSUME NEW i \in DOMAIN t, NEW j \in DOMAIN t, t[i].pid = t[j].pid
        PROVE  i = j
    <2>1. PICK a \in DOMAIN c, b \in DOMAIN c : t[i] = c[a] /\ t[j] = c[b] /\ (a = b => i = j)
      BY QuitarSepara
    <2> QED BY <2>1, <1>1 DEF EnPila
  <1>2. \A j \in DOMAIN t : Apilada(t[j].meta, t[j].espacio_libre)
    <2>1. \A j \in DOMAIN t : \E m \in DOMAIN c : t[j] = c[m]
      BY QuitarDeja
    <2> QED BY <2>1 DEF EnPila
  <1>3. \A q \in Pids : Crecientes(PunterosDe(h, q))
    BY DEF EnPila
  <1> QED BY <1>1, <1>2, <1>3 DEF EnPila

\* The pages, before one is given back
LEMMA PaginasLiberadas ==
  ASSUME NEW s, NEW h, NEW p, NEW n, NEW k, NEW f, NEW u, NEW v, NEW r, NEW c, NEW t, NEW h2,
         Liberado(s, h, p, n, k, f, u, v, r, c, t, h2)
  PROVE  /\ c \in Seq(Pagina) /\ Len(c) = Len(s) /\ DOMAIN c = DOMAIN s
         /\ \A j \in DOMAIN s : /\ c[j].pid = s[j].pid /\ c[j].pagina = s[j].pagina
                                /\ c[j].meta = IF j = k THEN r.meta ELSE v[j].meta
                                /\ c[j].espacio_libre = IF j = k THEN r.libre ELSE s[j].espacio_libre
  <1>1. /\ v \in Seq(Pagina) /\ Len(v) = Len(s) /\ DOMAIN v = DOMAIN s
        /\ \A j \in DOMAIN s : /\ v[j].pid = s[j].pid /\ v[j].pagina = s[j].pagina
                               /\ v[j].espacio_libre = s[j].espacio_libre
    BY DEF Liberado, MetaCambiada
  <1>2. /\ c \in Seq(Pagina) /\ Len(c) = Len(v) /\ DOMAIN c = DOMAIN v
        /\ \A j \in DOMAIN v : /\ c[j].pid = v[j].pid /\ c[j].pagina = v[j].pagina
                               /\ c[j].meta = IF j = k THEN r.meta ELSE v[j].meta
                               /\ c[j].espacio_libre = IF j = k THEN r.libre ELSE v[j].espacio_libre
    BY DEF Liberado, Cambiadas
  <1> QED BY <1>1, <1>2

\* The pointers
LEMMA PunterosLiberados ==
  ASSUME NEW s, NEW h, Tipos(s, h),
         NEW p, NEW n, NEW k, NEW f, NEW u, NEW v, NEW r, NEW c, NEW t, NEW h2,
         Liberado(s, h, p, n, k, f, u, v, r, c, t, h2)
  PROVE  /\ p \in Pids /\ PunterosDe(h, p) \in Seq(ConMetadata) /\ n \in DOMAIN PunterosDe(h, p)
         /\ u = PunterosDe(h, p)[n] /\ u \in ConMetadata
         /\ PunterosDe(h2, p) = RemoveAt(PunterosDe(h, p), n) /\ PunterosDe(h2, p) \in Seq(ConMetadata)
         /\ \A q : q # p => PunterosDe(h2, q) = PunterosDe(h, q)
         /\ \A i \in DOMAIN PunterosDe(h2, p) : \E m \in DOMAIN PunterosDe(h, p) :
              m # n /\ PunterosDe(h2, p)[i] = PunterosDe(h, p)[m]
         /\ \A m \in DOMAIN PunterosDe(h, p) : m # n =>
              \E i \in DOMAIN PunterosDe(h2, p) : PunterosDe(h2, p)[i] = PunterosDe(h, p)[m]
  <1>ps. PICK ps : ps = PunterosDe(h, p)
    OBVIOUS
  <1>1. /\ p \in Pids /\ n \in DOMAIN ps /\ u = ps[n]
        /\ PunterosDe(h2, p) = RemoveAt(ps, n)
        /\ \A q : q # p => PunterosDe(h2, q) = PunterosDe(h, q)
    BY <1>ps DEF Liberado, PunterosComo
  <1>2. ps \in Seq(ConMetadata)
    BY <1>1, <1>ps DEF Tipos
  <1>3. u \in ConMetadata
    BY <1>1, <1>2, UnPuntero
  <1>4. RemoveAt(ps, n) \in Seq(ConMetadata)
    BY <1>1, <1>2, Quitar
  <1>5. /\ \A i \in DOMAIN RemoveAt(ps, n) : \E m \in DOMAIN ps : m # n /\ RemoveAt(ps, n)[i] = ps[m]
        /\ \A m \in DOMAIN ps : m # n => \E i \in DOMAIN RemoveAt(ps, n) : RemoveAt(ps, n)[i] = ps[m]
    BY <1>1, <1>2, QuitarDeja
  <1> QED BY <1>1, <1>2, <1>3, <1>4, <1>5, <1>ps

\* A page is given back when no pointer is in it
LEMMA LiberadoTipos ==
  ASSUME NEW s, NEW h, Tipos(s, h),
         NEW p, NEW n, NEW k, NEW f, NEW u, NEW v, NEW r, NEW c, NEW t, NEW h2,
         Liberado(s, h, p, n, k, f, u, v, r, c, t, h2)
  PROVE  Tipos(t, h2)
  <1>ps. PICK ps, ps2 : ps = PunterosDe(h, p) /\ ps2 = PunterosDe(h2, p)
    OBVIOUS
  <1>0. /\ s \in Seq(Pagina) /\ Len(s) <= MaxPaginas /\ Len(s) \in Nat /\ MaxPaginas \in Nat
        /\ \A q \in Pids : PunterosDe(h, q) \in Seq(ConMetadata)
        /\ \A q \in Pids : \A i \in DOMAIN PunterosDe(h, q) :
             \E j \in DOMAIN s : s[j].pid = q /\ s[j].pagina = PunterosDe(h, q)[i].pagina
    BY HeapAssumption DEF Tipos, HeapAssumption
  <1>1. /\ c \in Seq(Pagina) /\ Len(c) = Len(s) /\ DOMAIN c = DOMAIN s
        /\ \A j \in DOMAIN s : c[j].pid = s[j].pid /\ c[j].pagina = s[j].pagina
    BY PaginasLiberadas
  <1>2. /\ p \in Pids /\ n \in DOMAIN ps
        /\ ps2 \in Seq(ConMetadata)
        /\ \A q : q # p => PunterosDe(h2, q) = PunterosDe(h, q)
        /\ \A i \in DOMAIN ps2 : \E m \in DOMAIN ps : m # n /\ ps2[i] = ps[m]
    BY <1>ps, PunterosLiberados
  <1>3. /\ k \in DOMAIN s /\ s[k].pid = p
        /\ t = IF esta_ocupada(ps2, s[k].pagina) THEN c ELSE RemoveAt(c, k)
        /\ DOMAIN h2 \subseteq Pids
    BY <1>ps DEF Liberado
  <1>4. \A q \in Pids : PunterosDe(h2, q) \in Seq(ConMetadata)
    BY <1>0, <1>2, <1>ps
  \* Before a page is given back, every pointer has its own
  <1>5. ASSUME NEW q \in Pids, NEW i \in DOMAIN PunterosDe(h2, q)
        PROVE  \E j \in DOMAIN s : s[j].pid = q /\ s[j].pagina = PunterosDe(h2, q)[i].pagina
    <2>1. CASE q = p
      <3>1. PICK m \in DOMAIN ps : ps2[i] = ps[m]
        BY <2>1, <1>2, <1>ps
      <3>2. PICK j \in DOMAIN s : s[j].pid = p /\ s[j].pagina = ps[m].pagina
        BY <1>0, <1>2, <1>ps
      <3> QED BY <3>1, <3>2, <2>1, <1>ps
    <2>2. CASE q # p
      BY <2>2, <1>0, <1>2
    <2> QED BY <2>1, <2>2
  <1>6. CASE esta_ocupada(ps2, s[k].pagina)
    <2>1. t = c
      BY <1>3, <1>6
    <2>2. t \in Seq(Pagina) /\ Len(t) <= MaxPaginas
      BY <2>1, <1>0, <1>1
    <2>3. ASSUME NEW q \in Pids, NEW i \in DOMAIN PunterosDe(h2, q)
          PROVE  \E j \in DOMAIN t : t[j].pid = q /\ t[j].pagina = PunterosDe(h2, q)[i].pagina
      <3>1. PICK j \in DOMAIN s : s[j].pid = q /\ s[j].pagina = PunterosDe(h2, q)[i].pagina
        BY <1>5
      <3> QED BY <3>1, <2>1, <1>1
    <2> QED BY <2>2, <2>3, <1>3, <1>4 DEF Tipos
  <1>7. CASE ~esta_ocupada(ps2, s[k].pagina)
    <2>1. t = RemoveAt(c, k) /\ k \in DOMAIN c
      BY <1>1, <1>3, <1>7
    <2>2. /\ t \in Seq(Pagina) /\ Len(t) = Len(c) - 1
      BY <2>1, <1>1, Quitar
    <2>3. Len(t) <= MaxPaginas
      BY <2>2, <1>0, <1>1
    <2>4. \A m \in DOMAIN c : m # k => \E j \in DOMAIN t : t[j] = c[m]
      BY <2>1, <1>1, QuitarDeja
    <2>5. ASSUME NEW q \in Pids, NEW i \in DOMAIN PunterosDe(h2, q)
          PROVE  \E j \in DOMAIN t : t[j].pid = q /\ t[j].pagina = PunterosDe(h2, q)[i].pagina
      <3>1. PICK j \in DOMAIN s : s[j].pid = q /\ s[j].pagina = PunterosDe(h2, q)[i].pagina
        BY <1>5
      <3>2. j # k
        <4>1. ASSUME j = k
              PROVE  FALSE
          <5>1. q = p /\ ps2[i].pagina = s[k].pagina /\ i \in DOMAIN ps2
            BY <4>1, <3>1, <1>3, <1>ps
          <5> QED BY <5>1, <1>7 DEF esta_ocupada
        <4> QED BY <4>1
      <3>3. PICK m \in DOMAIN t : t[m] = c[j]
        BY <2>4, <3>1, <3>2, <1>1
      <3> QED BY <3>1, <3>3, <1>1
    <2> QED BY <2>2, <2>3, <2>5, <1>3, <1>4 DEF Tipos
  <1> QED BY <1>6, <1>7

\* The block of a pointer is one taken in the frame of its page
LEMMA BloqueLiberado ==
  ASSUME NEW s, NEW h, Tipos(s, h), Regular(s, h),
         NEW p, NEW n, NEW k, NEW f, NEW u, NEW v, NEW r, NEW c, NEW t, NEW h2,
         Liberado(s, h, p, n, k, f, u, v, r, c, t, h2)
  PROVE  /\ s[f].meta \in Cadena /\ Encadenados(s[f].meta) /\ f \in DOMAIN s
         /\ u.offset - 5 \in DOMAIN s[f].meta /\ ~s[f].meta[u.offset - 5].isFree
         /\ s[f].meta[u.offset - 5].size = u.size
         /\ v[f].meta = Escribe(s[f].meta, u.offset - 5, [size |-> u.size, isFree |-> TRUE])
         /\ \A j \in DOMAIN s : j # f => v[j].meta = s[j].meta
  <1>ps. PICK ps : ps = PunterosDe(h, p)
    OBVIOUS
  <1>w. PICK w : w = s[f].meta
    OBVIOUS
  <1>0. /\ f \in DOMAIN s /\ s[f].pid = p /\ s[f].pagina = u.pagina
        /\ v[f].meta = Escribe(s[f].meta, u.offset - 5, [size |-> u.size, isFree |-> TRUE])
        /\ \A j \in DOMAIN s : j # f => v[j].meta = s[j].meta
    BY DEF Liberado, MetaCambiada
  <1>1. s \in Seq(Pagina) /\ Acorde(s[f], h)
    BY <1>0 DEF Tipos, Regular
  <1>2. w \in Cadena /\ Encadenados(w) /\ Tomados(w) = Apuntados(ps, u.pagina)
    BY <1>0, <1>1, <1>w, <1>ps, UnaPagina DEF Acorde
  <1>3. n \in DOMAIN ps /\ u = ps[n] /\ u \in ConMetadata
    BY <1>ps, PunterosLiberados
  <1>4. <<u.offset, u.size>> \in Apuntados(ps, u.pagina)
    BY <1>3, ApuntadosSon
  <1>5. PICK b \in DOMAIN w : ~w[b].isFree /\ <<u.offset, u.size>> = <<b + 5, w[b].size>>
    BY <1>2, <1>4, TomadosSon
  <1>6. b \in Nat
    BY <1>2, BloqueDe
  <1>7. u.offset = b + 5 /\ u.size = w[b].size
    BY <1>5
  <1>8. u.offset - 5 = b
    BY <1>6, <1>7
  <1> QED BY <1>0, <1>2, <1>5, <1>7, <1>8, <1>w

\* Freed, before anything is compacted
LEMMA LiberadoAcorde ==
  ASSUME NEW s, NEW h, Tipos(s, h), Regular(s, h),
         NEW p, NEW n, NEW k, NEW f, NEW u, NEW v, NEW r, NEW c, NEW t, NEW h2,
         Liberado(s, h, p, n, k, f, u, v, r, c, t, h2),
         NEW j \in DOMAIN s
  PROVE  Acorde(v[j], h2)
  <1>ps. PICK ps, ps2 : ps = PunterosDe(h, p) /\ ps2 = PunterosDe(h2, p)
    OBVIOUS
  <1>0. /\ f \in DOMAIN s /\ s[f].pid = p /\ s[f].pagina = u.pagina /\ v[j].pid = s[j].pid /\ v[j].pagina = s[j].pagina
        /\ SinRepetir(s) /\ Acorde(s[j], h) /\ p \in Pids
    BY DEF Liberado, MetaCambiada, Regular
  <1>1. /\ ps \in Seq(ConMetadata) /\ n \in DOMAIN ps /\ u = ps[n] /\ ps2 = RemoveAt(ps, n)
        /\ \A q : q # p => PunterosDe(h2, q) = PunterosDe(h, q)
    BY <1>ps, PunterosLiberados
  <1>2. Distintos(ps)
    BY <1>0, <1>ps DEF Regular
  <1>3. \A g : Apuntados(ps2, g) = Apuntados(ps, g) \ (IF u.pagina = g THEN {<<u.offset, u.size>>} ELSE {})
    BY <1>1, <1>2, ApuntadosMenos
  <1>4. CASE j = f
    <2>w. PICK w : w = s[f].meta
      OBVIOUS
    <2>b. PICK b : b = u.offset - 5
      OBVIOUS
    <2>x. PICK x : x = v[f].meta
      OBVIOUS
    <2>1. /\ w \in Cadena /\ Encadenados(w) /\ b \in DOMAIN w /\ ~w[b].isFree
          /\ w[b].size = u.size /\ x = Escribe(w, b, [size |-> w[b].size, isFree |-> TRUE])
      <3>1. /\ w \in Cadena /\ Encadenados(w) /\ b \in DOMAIN w /\ ~w[b].isFree /\ w[b].size = u.size
            /\ x = Escribe(w, b, [size |-> u.size, isFree |-> TRUE])
        BY <2>w, <2>b, <2>x, BloqueLiberado
      <3> QED BY <3>1
    <2>2. Encadenados(x)
      BY <2>1, LiberarEncadena
    <2>3. Tomados(x) = Tomados(w) \ {<<b + 5, w[b].size>>}
      BY <2>1, LiberarSuelta
    <2>4. b + 5 = u.offset
      <3>1. u.offset \in Nat
        BY <1>1, UnPuntero
      <3> QED BY <3>1, <2>b
    <2>5. Tomados(w) = Apuntados(ps, u.pagina)
      BY <1>0, <1>4, <1>ps, <2>w DEF Acorde
    <2>6. Tomados(x) = Apuntados(ps2, u.pagina)
      BY <2>1, <2>3, <2>4, <2>5, <1>3
    <2>7. v[j].meta = x /\ v[j].pid = p /\ v[j].pagina = u.pagina
      BY <1>0, <1>4, <2>x
    <2> QED BY <2>2, <2>6, <2>7, <1>ps DEF Acorde
  <1>5. CASE j # f
    <2>1. v[j].meta = s[j].meta
      BY <1>5 DEF Liberado, MetaCambiada
    <2>2. Apuntados(PunterosDe(h2, s[j].pid), s[j].pagina) = Apuntados(PunterosDe(h, s[j].pid), s[j].pagina)
      <3>1. CASE s[j].pid # p
        BY <3>1, <1>1
      <3>2. CASE s[j].pid = p
        <4>1. u.pagina # s[j].pagina
          BY <3>2, <1>0, <1>5 DEF SinRepetir
        <4>2. Apuntados(ps2, s[j].pagina) = Apuntados(ps, s[j].pagina)
          BY <4>1, <1>3
        <4> QED BY <4>2, <3>2, <1>ps
      <3> QED BY <3>1, <3>2
    <2> QED BY <2>1, <2>2, <1>0 DEF Acorde
  <1> QED BY <1>4, <1>5

LEMMA LiberadoRegular ==
  ASSUME NEW s, NEW h, Tipos(s, h), Regular(s, h),
         NEW p, NEW n, NEW k, NEW f, NEW u, NEW v, NEW r, NEW c, NEW t, NEW h2,
         Liberado(s, h, p, n, k, f, u, v, r, c, t, h2), r.raro = {}
  PROVE  Regular(c, h2) /\ Regular(t, h2)
  <1>0. /\ s \in Seq(Pagina) /\ SinRepetir(s) /\ k \in DOMAIN s
        /\ v \in Seq(Pagina) /\ DOMAIN v = DOMAIN s
        /\ r \in compactar_pagina(v[k].meta, s[k].espacio_libre + u.size)
        /\ t = IF esta_ocupada(PunterosDe(h2, p), s[k].pagina) THEN c ELSE RemoveAt(c, k)
    BY DEF Tipos, Regular, Liberado, MetaCambiada
  <1>1. /\ c \in Seq(Pagina) /\ DOMAIN c = DOMAIN s
        /\ \A j \in DOMAIN s : /\ c[j].pid = s[j].pid /\ c[j].pagina = s[j].pagina
                               /\ c[j].meta = IF j = k THEN r.meta ELSE v[j].meta
    BY PaginasLiberadas
  <1>2. \A j \in DOMAIN s : Acorde(v[j], h2) /\ v[j].pid = s[j].pid /\ v[j].pagina = s[j].pagina
    <2>1. \A j \in DOMAIN s : Acorde(v[j], h2)
      BY LiberadoAcorde
    <2>2. \A j \in DOMAIN s : v[j].pid = s[j].pid /\ v[j].pagina = s[j].pagina
      BY DEF Liberado, MetaCambiada
    <2> QED BY <2>1, <2>2
  <1>3. Encadenados(r.meta) /\ Tomados(r.meta) = Tomados(v[k].meta)
    <2>1. v[k].meta \in Cadena /\ s[k].espacio_libre \in Int
      BY <1>0, UnaPagina
    <2>2. u.size \in Nat
      BY PunterosLiberados DEF ConMetadata
    <2>3. s[k].espacio_libre + u.size \in Int
      BY <2>1, <2>2
    <2>4. Sigue(v[k].meta, s[k].espacio_libre + u.size, r)
      BY <2>1, <2>3, <1>0, CompactarBien
    <2>5. Encadenados(v[k].meta)
      BY <1>0, <1>2 DEF Acorde
    <2> QED BY <2>4, <2>5 DEF Sigue
  <1>4. ASSUME NEW j \in DOMAIN c
        PROVE  Acorde(c[j], h2)
    <2>1. j \in DOMAIN s /\ Acorde(v[j], h2) /\ c[j].pid = v[j].pid /\ c[j].pagina = v[j].pagina
      BY <1>1, <1>2
    <2>2. CASE j = k
      <3>1. c[j].meta = r.meta
        BY <2>1, <2>2, <1>1
      <3> QED BY <2>1, <2>2, <3>1, <1>3 DEF Acorde
    <2>3. CASE j # k
      <3>1. c[j].meta = v[j].meta
        BY <2>1, <2>3, <1>1
      <3> QED BY <2>1, <3>1 DEF Acorde
    <2> QED BY <2>2, <2>3
  <1>5. SinRepetir(c)
    BY <1>0, <1>1 DEF SinRepetir
  <1>6. ASSUME NEW q \in Pids
        PROVE  Distintos(PunterosDe(h2, q))
    <2>1. CASE q = p
      <3>1. /\ PunterosDe(h, p) \in Seq(ConMetadata) /\ n \in DOMAIN PunterosDe(h, p)
            /\ PunterosDe(h2, p) = RemoveAt(PunterosDe(h, p), n) /\ p \in Pids
        BY PunterosLiberados
      <3>2. Distintos(PunterosDe(h, p))
        BY <3>1 DEF Regular
      <3> QED BY <3>1, <3>2, <2>1, ApuntadosMenos
    <2>2. CASE q # p
      <3>1. PunterosDe(h2, q) = PunterosDe(h, q)
        BY <2>2, PunterosLiberados
      <3> QED BY <3>1 DEF Regular
    <2> QED BY <2>1, <2>2
  <1>7. Regular(c, h2)
    BY <1>4, <1>5, <1>6 DEF Regular
  <1>8. Regular(t, h2)
    <2>1. CASE t = c
      BY <2>1, <1>7
    <2>2. CASE t = RemoveAt(c, k)
      BY <2>2, <1>0, <1>1, <1>7, QuitarRegular
    <2> QED BY <2>1, <2>2, <1>0
  <1> QED BY <1>7, <1>8

\* While what is freed is in the page that is compacted, the count is exact
LEMMA LiberadoExacto ==
  ASSUME NEW s, NEW h, Tipos(s, h), Regular(s, h), Exacto(s, h),
         NEW p, NEW n, NEW k, NEW f, NEW u, NEW v, NEW r, NEW c, NEW t, NEW h2,
         Liberado(s, h, p, n, k, f, u, v, r, c, t, h2), r.raro = {}, s[k].pagina = u.pagina
  PROVE  Exacto(t, h2)
  <1>ps. PICK ps, ps2 : ps = PunterosDe(h, p) /\ ps2 = PunterosDe(h2, p)
    OBVIOUS
  <1>0. /\ s \in Seq(Pagina) /\ SinRepetir(s) /\ k \in DOMAIN s /\ s[k].pid = p /\ f = k
        /\ r \in compactar_pagina(v[k].meta, s[k].espacio_libre + u.size)
        /\ t = IF esta_ocupada(ps2, s[k].pagina) THEN c ELSE RemoveAt(c, k)
        /\ v \in Seq(Pagina) /\ DOMAIN v = DOMAIN s
    <2>1. SinRepetir(s)
      BY DEF Regular
    <2>2. f = k
      BY <2>1 DEF Liberado, SinRepetir
    <2>3. /\ s \in Seq(Pagina) /\ k \in DOMAIN s /\ s[k].pid = p
          /\ r \in compactar_pagina(v[k].meta, s[k].espacio_libre + u.size)
          /\ t = IF esta_ocupada(ps2, s[k].pagina) THEN c ELSE RemoveAt(c, k)
          /\ v \in Seq(Pagina) /\ DOMAIN v = DOMAIN s
      BY <1>ps DEF Tipos, Liberado, MetaCambiada
    <2> QED BY <2>1, <2>2, <2>3
  <1>1. /\ c \in Seq(Pagina) /\ DOMAIN c = DOMAIN s
        /\ \A j \in DOMAIN s : /\ c[j].pid = s[j].pid /\ c[j].pagina = s[j].pagina
                               /\ c[j].meta = IF j = k THEN r.meta ELSE v[j].meta
                               /\ c[j].espacio_libre = IF j = k THEN r.libre ELSE s[j].espacio_libre
    BY PaginasLiberadas
  <1>2. /\ ps \in Seq(ConMetadata) /\ n \in DOMAIN ps /\ u = ps[n] /\ u \in ConMetadata
        /\ \A q : q # p => PunterosDe(h2, q) = PunterosDe(h, q)
        /\ \A m \in DOMAIN ps : m # n => \E i \in DOMAIN ps2 : ps2[i] = ps[m]
    BY <1>ps, PunterosLiberados
  <1>3. r.libre = SumaLibre(r.meta)
    <2>w. PICK w : w = s[k].meta
      OBVIOUS
    <2>b. PICK b : b = u.offset - 5
      OBVIOUS
    <2>x. PICK x : x = v[k].meta
      OBVIOUS
    <2>l. PICK l : l = s[k].espacio_libre
      OBVIOUS
    <2>1. /\ w \in Cadena /\ Encadenados(w) /\ b \in DOMAIN w /\ ~w[b].isFree /\ w[b].size = u.size
          /\ x = Escribe(w, b, [size |-> u.size, isFree |-> TRUE])
      BY <2>w, <2>b, <2>x, <1>0, BloqueLiberado
    <2>2. x = Escribe(w, b, [size |-> w[b].size, isFree |-> TRUE])
      BY <2>1
    <2>3. SumaLibre(w) \in Nat /\ SumaLibre(x) = SumaLibre(w) + u.size
      BY <2>1, <2>2, LiberarSuma
    <2>4. x \in Cadena /\ Encadenados(x)
      BY <2>1, <2>2, LiberarEncadena
    <2>5. l = SumaLibre(w)
      BY <1>0, <2>l, <2>w DEF Exacto, LibreExacto
    <2>6. u.size \in Nat /\ l + u.size \in Int
      BY <1>2, <2>3, <2>5 DEF ConMetadata
    <2>7. Sigue(x, l + u.size, r)
      <3>1. r \in compactar_pagina(x, l + u.size)
        BY <1>0, <2>x, <2>l
      <3> QED BY <3>1, <2>4, <2>6, CompactarBien
    <2>8. /\ r.libre = (l + u.size) + (SumaLibre(r.meta) - SumaLibre(x))
          /\ r.meta \in Cadena
      BY <2>4, <2>7 DEF Sigue, EnCurso
    <2>9. SumaLibre(r.meta) \in Nat /\ SumaLibre(x) \in Nat
      BY <2>4, <2>8, SumaLibreNat
    <2> QED BY <2>3, <2>5, <2>6, <2>8, <2>9
  <1>4. \A j \in DOMAIN c : c[j].espacio_libre = SumaLibre(c[j].meta)
    <2>1. ASSUME NEW j \in DOMAIN c, j # k
          PROVE  c[j].espacio_libre = SumaLibre(c[j].meta)
      <3>1. v[j].meta = s[j].meta
        BY <2>1, <1>0, <1>1 DEF Liberado, MetaCambiada
      <3>2. c[j].espacio_libre = s[j].espacio_libre /\ c[j].meta = s[j].meta /\ j \in DOMAIN s
        BY <2>1, <3>1, <1>1
      <3>3. s[j].espacio_libre = SumaLibre(s[j].meta)
        BY <3>2 DEF Exacto, LibreExacto
      <3> QED BY <3>2, <3>3
    <2>2. c[k].espacio_libre = SumaLibre(c[k].meta)
      BY <1>0, <1>1, <1>3
    <2> QED BY <2>1, <2>2
  <1>5. ASSUME NEW j \in DOMAIN c, j # k
        PROVE  Ocupada(c[j], h2)
    <2>1. j \in DOMAIN s /\ c[j].pid = s[j].pid /\ c[j].pagina = s[j].pagina
      BY <1>1
    <2>2. Ocupada(s[j], h)
      BY <2>1 DEF Exacto
    <2>3. PICK m \in DOMAIN PunterosDe(h, s[j].pid) : PunterosDe(h, s[j].pid)[m].pagina = s[j].pagina
      BY <2>2, OcupadaSi
    <2>4. CASE s[j].pid = p
      <3>1. s[j].pagina # u.pagina
        BY <2>1, <2>4, <1>0, <1>5 DEF SinRepetir
      <3>2. m \in DOMAIN ps /\ ps[m].pagina = s[j].pagina /\ m # n
        BY <2>3, <2>4, <3>1, <1>2, <1>ps
      <3>3. PICK i \in DOMAIN ps2 : ps2[i] = ps[m]
        BY <3>2, <1>2
      <3>4. i \in DOMAIN PunterosDe(h2, c[j].pid) /\ PunterosDe(h2, c[j].pid)[i].pagina = c[j].pagina
        BY <3>2, <3>3, <2>1, <2>4, <1>ps
      <3> QED BY <3>4, OcupadaSi
    <2>5. CASE s[j].pid # p
      <3>1. PunterosDe(h2, c[j].pid) = PunterosDe(h, s[j].pid)
        BY <2>1, <2>5, <1>2
      <3> QED BY <3>1, <2>1, <2>3, OcupadaSi
    <2> QED BY <2>4, <2>5
  <1>6. CASE esta_ocupada(ps2, s[k].pagina)
    <2>1. t = c
      BY <1>0, <1>6
    <2>2. Ocupada(c[k], h2)
      BY <1>0, <1>1, <1>6, <1>ps DEF Ocupada
    <2> QED BY <2>1, <2>2, <1>4, <1>5 DEF Exacto, LibreExacto
  <1>7. CASE ~esta_ocupada(ps2, s[k].pagina)
    <2>1. t = RemoveAt(c, k) /\ k \in DOMAIN c
      BY <1>0, <1>1, <1>7
    <2>2. \A j \in DOMAIN t : \E m \in DOMAIN c : m # k /\ t[j] = c[m]
      BY <2>1, <1>1, QuitarDeja
    <2>3. \A j \in DOMAIN t : t[j].espacio_libre = SumaLibre(t[j].meta) /\ Ocupada(t[j], h2)
      BY <2>2, <1>4, <1>5
    <2> QED BY <2>3 DEF Exacto, LibreExacto
  <1> QED BY <1>6, <1>7

\* In a stack, the block of the last pointer is followed by the free one
LEMMA UltimoTomado ==
  ASSUME NEW w \in Cadena, Encadenados(w), NEW d \in DOMAIN w, UltimoLibre(w, d),
         NEW b \in DOMAIN w, ~w[b].isFree,
         \A x \in DOMAIN w : ~w[x].isFree => x <= b
  PROVE  Fin(b, w[b]) = d
  <1>0. /\ w[d].isFree /\ Fin(d, w[d]) = tamanio_pagina
        /\ \A x \in DOMAIN w : x # d => ~w[x].isFree
    BY DEF UltimoLibre
  <1>1. b \in Nat /\ d \in Nat /\ b # d /\ b < tamanio_pagina /\ d < tamanio_pagina /\ tamanio_pagina \in Nat
    BY <1>0, BloqueDe, Tamanio
  <1>x. PICK x : x = Fin(b, w[b])
    OBVIOUS
  <1>2. x \in Nat /\ x \in DOMAIN w \cup {tamanio_pagina} /\ b + 5 <= x
    BY <1>x, BloqueDe, BloqueDentro
  <1>3. ~(d < b)
    <2>1. d < b => Fin(d, w[d]) <= b
      BY BloqueDentro
    <2> QED BY <2>1, <1>0, <1>1
  <1>4. x <= d
    <2>1. b < d => x <= d
      BY <1>x, BloqueDentro
    <2> QED BY <2>1, <1>1, <1>3
  <1>5. x \in DOMAIN w
    BY <1>1, <1>2, <1>4
  <1>6. w[x].isFree
    BY <1>1, <1>2, <1>5
  <1> QED BY <1>0, <1>5, <1>6, <1>x

\* Two free blocks at the end, joined
Juntado(r, libre, mide) == r.raro = {} /\ r.libre = libre /\ Apilada(r.meta, mide)

LEMMA UnidosApilan ==
  ASSUME NEW w \in Cadena, Encadenados(w), NEW c \in DOMAIN w, w[c].isFree,
         NEW d \in DOMAIN w, d = Fin(c, w[c]), w[d].isFree, Fin(d, w[d]) = tamanio_pagina,
         \A x \in DOMAIN w : x # c /\ x # d => ~w[x].isFree,
         NEW l \in Int, NEW r \in compactar_pagina(w, l)
  PROVE  Juntado(r, l + 5, w[c].size + 5 + w[d].size)
  <1>1. r.meta = Absorbe(w, c, d, Unidos(w[c], w[d])) /\ r.libre = l + 5 /\ r.raro = {}
    BY CompactarPila
  <1>v. PICK v : v = Absorbe(w, c, d, Unidos(w[c], w[d]))
    OBVIOUS
  <1>2. /\ v \in Cadena /\ Encadenados(v)
        /\ DOMAIN v = DOMAIN w \ {d} /\ c # d /\ c < d
        /\ v[c] = [size |-> w[c].size + 5 + w[d].size, isFree |-> TRUE]
        /\ \A x \in DOMAIN v : x # c => v[x] = w[x]
        /\ Fin(c, v[c]) = Fin(d, w[d])
    BY <1>v, UnidosEncadenan
  <1>3. c \in DOMAIN v /\ v[c].isFree /\ Fin(c, v[c]) = tamanio_pagina
    BY <1>2
  <1>4. \A x \in DOMAIN v \ {c} : ~v[x].isFree
    BY <1>2
  <1>5. UltimoLibre(v, c)
    BY <1>3, <1>4 DEF UltimoLibre
  <1>6. v[c].size = w[c].size + 5 + w[d].size
    BY <1>2
  <1>7. Apilada(v, w[c].size + 5 + w[d].size)
    BY <1>3, <1>5, <1>6 DEF Apilada
  <1> QED BY <1>1, <1>7, <1>v DEF Juntado

\* The last block of a stack, freed, is joined with the rest
LEMMA LiberadoApila ==
  ASSUME NEW w \in Cadena, Encadenados(w), NEW l \in Int, Apilada(w, l),
         NEW b \in DOMAIN w, ~w[b].isFree,
         \A x \in DOMAIN w : ~w[x].isFree => x <= b,
         NEW v, v = Escribe(w, b, [size |-> w[b].size, isFree |-> TRUE]),
         NEW r \in compactar_pagina(v, l + w[b].size)
  PROVE  r.raro = {} /\ Apilada(r.meta, r.libre)
  <1>1. PICK d \in DOMAIN w : UltimoLibre(w, d) /\ w[d].size = l
    BY DEF Apilada
  <1>2. Fin(b, w[b]) = d
    BY <1>1, UltimoTomado
  <1>3. /\ w[d].isFree /\ Fin(d, w[d]) = tamanio_pagina
        /\ \A x \in DOMAIN w : x # d => ~w[x].isFree
    BY <1>1 DEF UltimoLibre
  <1>4. /\ v \in Cadena /\ Encadenados(v) /\ DOMAIN v = DOMAIN w
        /\ v[b] = [size |-> w[b].size, isFree |-> TRUE]
        /\ \A x \in DOMAIN w : x # b => v[x] = w[x]
        /\ \A x \in DOMAIN w : Fin(x, v[x]) = Fin(x, w[x])
    BY LiberarEncadena
  <1>5. /\ b \in DOMAIN v /\ v[b].isFree /\ d \in DOMAIN v /\ d = Fin(b, v[b]) /\ v[d].isFree
        /\ Fin(d, v[d]) = tamanio_pagina /\ v[d] = w[d] /\ v[b].size = w[b].size
    <2>1. b # d
      BY <1>3
    <2>2. v[b].isFree /\ v[b].size = w[b].size
      BY <1>4
    <2>3. v[d] = w[d] /\ v[d].isFree
      BY <2>1, <1>3, <1>4
    <2>4. d = Fin(b, v[b]) /\ Fin(d, v[d]) = tamanio_pagina
      BY <2>3, <1>2, <1>3, <1>4
    <2> QED BY <2>2, <2>3, <2>4, <1>1, <1>4
  <1>6. \A x \in DOMAIN v : x # b /\ x # d => ~v[x].isFree
    BY <1>3, <1>4
  <1>m. PICK m : m = l + w[b].size
    OBVIOUS
  <1>7. w[b].size \in Nat /\ m \in Int /\ r \in compactar_pagina(v, m)
    BY <1>m, BloqueDe
  <1>8. v \in Cadena /\ Encadenados(v)
    BY <1>4
  <1>9. Juntado(r, m + 5, v[b].size + 5 + v[d].size)
    BY <1>5, <1>6, <1>7, <1>8, UnidosApilan
  <1>10. m + 5 = v[b].size + 5 + v[d].size
    BY <1>1, <1>5, <1>7, <1>m
  <1> QED BY <1>9, <1>10 DEF Juntado

\* Freeing the last pointer of a stack leaves a stack, and nothing odd comes of it
LEMMA LiberadoEnPila ==
  ASSUME NEW s, NEW h, Tipos(s, h), Regular(s, h), EnPila(s, h),
         NEW p, NEW n, NEW k, NEW f, NEW u, NEW v, NEW r, NEW c, NEW t, NEW h2,
         Liberado(s, h, p, n, k, f, u, v, r, c, t, h2)
  PROVE  n = Len(PunterosDe(h, p)) => r.raro = {} /\ s[k].pagina = u.pagina /\ EnPila(t, h2)
  <1>n. SUFFICES ASSUME n = Len(PunterosDe(h, p))
                 PROVE  r.raro = {} /\ s[k].pagina = u.pagina /\ EnPila(t, h2)
    OBVIOUS
  <1>ps. PICK ps, ps2 : ps = PunterosDe(h, p) /\ ps2 = PunterosDe(h2, p)
    OBVIOUS
  <1>0. /\ s \in Seq(Pagina) /\ k \in DOMAIN s /\ f = k /\ s[k].pid = p /\ s[k].pagina = u.pagina
        /\ r \in compactar_pagina(v[k].meta, s[k].espacio_libre + u.size)
        /\ t = IF esta_ocupada(ps2, s[k].pagina) THEN c ELSE RemoveAt(c, k)
    <2>1. f = k
      BY DEF Liberado, EnPila
    <2>2. s[k].pagina = u.pagina
      BY <2>1 DEF Liberado
    <2> QED BY <2>1, <2>2, <1>ps DEF Tipos, Liberado
  <1>1. /\ c \in Seq(Pagina) /\ DOMAIN c = DOMAIN s
        /\ \A j \in DOMAIN s : /\ c[j].pid = s[j].pid
                               /\ c[j].meta = IF j = k THEN r.meta ELSE v[j].meta
                               /\ c[j].espacio_libre = IF j = k THEN r.libre ELSE s[j].espacio_libre
    BY PaginasLiberadas
  <1>2. /\ ps \in Seq(ConMetadata) /\ n \in DOMAIN ps /\ u = ps[n] /\ p \in Pids
        /\ ps2 = RemoveAt(ps, n) /\ n = Len(ps)
        /\ \A q : q # p => PunterosDe(h2, q) = PunterosDe(h, q)
    BY <1>n, <1>ps, PunterosLiberados
  <1>3. Crecientes(ps)
    BY <1>2, <1>ps DEF EnPila
  <1>w. PICK w : w = s[k].meta
    OBVIOUS
  <1>b. PICK b : b = u.offset - 5
    OBVIOUS
  <1>x. PICK x : x = v[k].meta
    OBVIOUS
  <1>l. PICK l : l = s[k].espacio_libre
    OBVIOUS
  <1>4. /\ w \in Cadena /\ Encadenados(w) /\ b \in DOMAIN w /\ ~w[b].isFree /\ w[b].size = u.size
        /\ x = Escribe(w, b, [size |-> u.size, isFree |-> TRUE])
    <2>1. /\ s[f].meta \in Cadena /\ Encadenados(s[f].meta) /\ f \in DOMAIN s
          /\ u.offset - 5 \in DOMAIN s[f].meta /\ ~s[f].meta[u.offset - 5].isFree
          /\ s[f].meta[u.offset - 5].size = u.size
          /\ v[f].meta = Escribe(s[f].meta, u.offset - 5, [size |-> u.size, isFree |-> TRUE])
          /\ \A j \in DOMAIN s : j # f => v[j].meta = s[j].meta
      BY BloqueLiberado
    <2> QED BY <2>1, <1>w, <1>b, <1>x, <1>0
  <1>5. ASSUME NEW y \in DOMAIN w, ~w[y].isFree
        PROVE  y <= b
    <2>1. <<y + 5, w[y].size>> \in Tomados(w)
      BY <1>5, TomadosSon
    <2>2. Tomados(w) = Apuntados(ps, s[k].pagina)
      BY <1>0, <1>w, <1>ps DEF Regular, Acorde
    <2>3. PICK i \in DOMAIN ps : <<y + 5, w[y].size>> = <<ps[i].offset, ps[i].size>>
      BY <2>1, <2>2, ApuntadosSon
    <2>4. y + 5 = ps[i].offset
      BY <2>3
    <2>5. ps[i].offset \in Nat /\ ps[n].offset \in Nat /\ y \in Nat
      BY <1>2, <1>4, UnPuntero, BloqueDe
    <2>6. ps[i].offset <= ps[n].offset
      <3>1. i = n \/ i < n
        BY <1>2
      <3>2. i < n => ps[i].offset < ps[n].offset
        BY <1>2, <1>3 DEF Crecientes
      <3> QED BY <3>1, <3>2, <2>5
    <2>7. y + 5 <= u.offset /\ u.offset \in Nat
      BY <2>4, <2>5, <2>6, <1>2
    <2> QED BY <2>5, <2>7, <1>b
  <1>6. Apilada(w, l) /\ l \in Int
    BY <1>0, <1>w, <1>l, UnaPagina DEF EnPila
  <1>7. r.raro = {} /\ Apilada(r.meta, r.libre)
    <2>1. x = Escribe(w, b, [size |-> w[b].size, isFree |-> TRUE])
      BY <1>4
    <2>2. r \in compactar_pagina(x, l + w[b].size)
      BY <1>0, <1>4, <1>x, <1>l
    <2> QED BY <2>1, <2>2, <1>4, <1>5, <1>6, LiberadoApila
  <1>8. EnPila(c, h2)
    <2>1. \A i, j \in DOMAIN c : c[i].pid = c[j].pid => i = j
      BY <1>1 DEF EnPila
    <2>2. ASSUME NEW j \in DOMAIN c
          PROVE  Apilada(c[j].meta, c[j].espacio_libre)
      <3>1. CASE j = k
        BY <3>1, <1>0, <1>1, <1>7
      <3>2. CASE j # k
        <4>1. v[j].meta = s[j].meta
          BY <3>2, <1>0, <1>1 DEF Liberado, MetaCambiada
        <4>2. c[j].meta = s[j].meta /\ c[j].espacio_libre = s[j].espacio_libre /\ j \in DOMAIN s
          BY <4>1, <3>2, <1>1
        <4> QED BY <4>2 DEF EnPila
      <3> QED BY <3>1, <3>2
    <2>3. ASSUME NEW q \in Pids
          PROVE  Crecientes(PunterosDe(h2, q))
      <3>1. CASE q = p
        <4>1. /\ ps2 \in Seq(ConMetadata) /\ Len(ps2) = n - 1 /\ n \in Nat
              /\ \A j \in 1 .. n - 1 : ps2[j] = ps[j]
          <5>1. /\ RemoveAt(ps, n) \in Seq(ConMetadata) /\ Len(RemoveAt(ps, n)) = Len(ps) - 1
                /\ \A j \in 1 .. n - 1 : RemoveAt(ps, n)[j] = ps[j]
            BY <1>2, Quitar
          <5> QED BY <5>1, <1>2
        <4>2. DOMAIN ps2 = 1 .. n - 1 /\ DOMAIN ps = 1 .. n
          BY <4>1, <1>2
        <4>3. Crecientes(ps2)
          <5> SUFFICES ASSUME NEW i \in DOMAIN ps2, NEW j \in DOMAIN ps2, i < j
                       PROVE  ps2[i].offset < ps2[j].offset
            BY DEF Crecientes
          <5>1. i \in DOMAIN ps /\ j \in DOMAIN ps /\ ps2[i] = ps[i] /\ ps2[j] = ps[j]
            BY <4>1, <4>2
          <5> QED BY <5>1, <1>3 DEF Crecientes
        <4> QED BY <4>3, <3>1, <1>ps
      <3>2. CASE q # p
        BY <3>2, <1>2 DEF EnPila
      <3> QED BY <3>1, <3>2
    <2> QED BY <2>1, <2>2, <2>3 DEF EnPila
  <1>9. EnPila(t, h2)
    <2>1. CASE t = c
      BY <2>1, <1>8
    <2>2. CASE t = RemoveAt(c, k)
      BY <2>2, <1>0, <1>1, <1>8, QuitarEnPila
    <2> QED BY <2>1, <2>2, <1>0
  <1> QED BY <1>0, <1>7, <1>9

-----------------------------------------------------------------------------
(* What a request for a block does *)

\* Looking for a block in page k of s gives r, in frame f.  If it is outside the page,
\* pages are those that were.
AlocadoEn(s0, s, h, p, k, e, nuevas, R, f, r, t, h2, R2) ==
  \/ /\ r.offset = -1 \/ r.offset + e \notin Desplazamientos
     /\ k \in DOMAIN s /\ f \in DOMAIN s /\ s[f].pid = p /\ s[k].pid = p /\ r \in alocar(s[f].meta, e)
     /\ e \in Nat /\ t = s0 /\ h2 = h /\ R2 = R \cup nuevas \cup {"fuera"}
  \/ \E u : Reservado(s, h, p, k, f, e, r, u, t, h2) /\ R2 = R \cup r.raro \cup nuevas

LEMMA AlocarEnDa ==
  ASSUME NEW s0, s0 = paginas_heap, NEW h, h = heap, DOMAIN h \subseteq Pids, NEW R, R = rarezas,
         NEW s \in Seq(Pagina), NEW p \in Pids, NEW k \in DOMAIN s, s[k].pid = p,
         NEW e \in Nat, NEW nuevas, AlocarEn(s, p, k, e, nuevas)
  PROVE  \E f, r : AlocadoEn(s0, s, h, p, k, e, nuevas, R, f, r, paginas_heap', heap', rarezas')
  <1>f. PICK f : f = Marco(s, p, s[k].pagina)
    OBVIOUS
  <1>t. PICK t, h2, R2 : t = paginas_heap' /\ h2 = heap' /\ R2 = rarezas'
    OBVIOUS
  <1>1. f \in DOMAIN s /\ s[f].pid = p /\ s[f].pagina = s[k].pagina
    BY <1>f, MarcoEs
  <1>2. PICK r \in alocar(s[f].meta, e) :
          IF r.offset = -1 \/ r.offset + e \notin Desplazamientos
           THEN rarezas' = rarezas \cup nuevas \cup {"fuera"} /\ UNCHANGED <<paginas_heap, heap>>
           ELSE /\ rarezas' = rarezas \cup r.raro \cup nuevas
                /\ paginas_heap' = [[s EXCEPT ![f].meta = r.meta]
                                      EXCEPT ![k].espacio_libre = @ - (e + tamanio_metadata)]
                /\ heap' = [q \in DOMAIN heap \cup {p} |->
                              IF q = p THEN Append(PunterosDe(heap, p), [pagina |-> s[k].pagina,
                                                                         offset |-> r.offset,
                                                                         size |-> e])
                              ELSE heap[q]]
    BY <1>f DEF AlocarEn
  <1>3. CASE r.offset = -1 \/ r.offset + e \notin Desplazamientos
    <2>1. t = s0 /\ h2 = h /\ R2 = R \cup nuevas \cup {"fuera"}
      BY <1>2, <1>3, <1>t
    <2>2. AlocadoEn(s0, s, h, p, k, e, nuevas, R, f, r, t, h2, R2)
      BY <2>1, <1>1, <1>2, <1>3 DEF AlocadoEn
    <2> QED BY <2>2, <1>t
  <1>4. CASE ~(r.offset = -1 \/ r.offset + e \notin Desplazamientos)
    <2>u. PICK u : u = [pagina |-> s[k].pagina, offset |-> r.offset, size |-> e]
      OBVIOUS
    <2>v. PICK v : v = [s EXCEPT ![f].meta = r.meta]
      OBVIOUS
    <2>1. /\ R2 = R \cup r.raro \cup nuevas
          /\ t = [v EXCEPT ![k].espacio_libre = @ - (e + tamanio_metadata)]
          /\ h2 = [q \in DOMAIN h \cup {p} |-> IF q = p THEN Append(PunterosDe(h, p), u) ELSE h[q]]
      BY <1>2, <1>4, <1>t, <2>u, <2>v
    <2>2. s[f].meta \in Cadena /\ s[k].espacio_libre \in Int
      BY <1>1, UnaPagina
    <2>3. r.meta \in Cadena
      BY <1>2, <1>4, <2>2, Alocado
    <2>4. /\ v \in Seq(Pagina) /\ k \in DOMAIN v /\ v[k].espacio_libre = s[k].espacio_libre
      BY <1>1, <2>3, <2>v, CambiaMeta DEF MetaCambiada
    <2>l. PICK l : l = s[k].espacio_libre - (e + 5)
      OBVIOUS
    <2>5. t = [v EXCEPT ![k].espacio_libre = l] /\ l \in Int
      BY <2>1, <2>2, <2>4, <2>l, Tamanio
    <2>6. Cambiadas(s, f, r.meta, k, l, t)
      <3>1. t = [[s EXCEPT ![f].meta = r.meta] EXCEPT ![k].espacio_libre = l]
        BY <2>5, <2>v
      <3>w. PICK w : w = r.meta
        OBVIOUS
      <3>2. w \in Cadena /\ l \in Int /\ f \in DOMAIN s
        BY <3>w, <2>3, <2>5, <1>1
      <3>3. Cambiadas(s, f, w, k, l, [[s EXCEPT ![f].meta = w] EXCEPT ![k].espacio_libre = l])
        BY <3>2, CambiaPaginas
      <3> QED BY <3>1, <3>3, <3>w
    <2>7. DOMAIN h2 = DOMAIN h \cup {p} /\ PunterosComo(h, p, Append(PunterosDe(h, p), u), h2)
      <3>x. PICK x : x = Append(PunterosDe(h, p), u)
        OBVIOUS
      <3>1. h2 = [q \in DOMAIN h \cup {p} |-> IF q = p THEN x ELSE h[q]]
        BY <2>1, <3>x
      <3>2. DOMAIN h2 = DOMAIN h \cup {p} /\ PunterosComo(h, p, x, h2)
        BY <3>1 DEF PunterosComo, PunterosDe
      <3> QED BY <3>2, <3>x
    <2>8. Reservado(s, h, p, k, f, e, r, u, t, h2)
      BY <1>1, <1>2, <1>4, <2>6, <2>7, <2>u, <2>l DEF Reservado
    <2>9. AlocadoEn(s0, s, h, p, k, e, nuevas, R, f, r, t, h2, R2)
      BY <2>1, <2>8 DEF AlocadoEn
    <2> QED BY <2>9, <1>t
  <1> QED BY <1>3, <1>4

LEMMA AlocadoTipos ==
  ASSUME NEW s0, NEW s, NEW h, Tipos(s0, h), Tipos(s, h), NEW p, NEW k, NEW e, NEW nuevas, NEW R,
         NEW f, NEW r, NEW t, NEW h2, NEW R2, AlocadoEn(s0, s, h, p, k, e, nuevas, R, f, r, t, h2, R2),
         R \subseteq Rarezas, nuevas \subseteq Rarezas
  PROVE  Tipos(t, h2) /\ R2 \subseteq Rarezas
  <1>1. CASE t = s0 /\ h2 = h /\ R2 = R \cup nuevas \cup {"fuera"}
    BY <1>1 DEF Rarezas
  <1>2. CASE \E u : Reservado(s, h, p, k, f, e, r, u, t, h2) /\ R2 = R \cup r.raro \cup nuevas
    <2>1. PICK u : Reservado(s, h, p, k, f, e, r, u, t, h2) /\ R2 = R \cup r.raro \cup nuevas
      BY <1>2
    <2>2. Tipos(t, h2)
      BY <2>1, ReservaTipos
    <2>3. s \in Seq(Pagina)
      BY DEF Tipos
    <2>4. r.raro \in SUBSET {"basura"}
      BY <2>1, <2>3, PunteroNuevo
    <2>5. R2 \subseteq Rarezas
      BY <2>1, <2>4 DEF Rarezas
    <2> QED BY <2>2, <2>5
  <1> QED BY <1>1, <1>2 DEF AlocadoEn

LEMMA AlocadoRegular ==
  ASSUME NEW s0, NEW s, NEW h, Tipos(s, h), Regular(s, h), NEW p, NEW k, NEW e, NEW nuevas, NEW R,
         NEW f, NEW r, NEW t, NEW h2, NEW R2, AlocadoEn(s0, s, h, p, k, e, nuevas, R, f, r, t, h2, R2),
         R2 \subseteq {"otra pagina"}
  PROVE  Regular(t, h2)
  <1>1. "fuera" \notin R2
    OBVIOUS
  <1>2. PICK u : Reservado(s, h, p, k, f, e, r, u, t, h2) /\ R2 = R \cup r.raro \cup nuevas
    BY <1>1 DEF AlocadoEn
  <1>3. s \in Seq(Pagina)
    BY DEF Tipos
  <1>4. r.raro \in SUBSET {"basura"}
    BY <1>2, <1>3, PunteroNuevo
  <1>5. r.raro = {}
    <2>1. "basura" \notin R2
      OBVIOUS
    <2> QED BY <2>1, <1>2, <1>4
  <1> QED BY <1>2, <1>5, ReservaRegular

LEMMA AlocadoExacto ==
  ASSUME NEW s0, NEW s, NEW h, Tipos(s, h), Regular(s, h), LibreExacto(s),
         NEW p, NEW k, NEW e, NEW nuevas, NEW R,
         NEW f, NEW r, NEW t, NEW h2, NEW R2, AlocadoEn(s0, s, h, p, k, e, nuevas, R, f, r, t, h2, R2),
         R2 = {}, \A j \in DOMAIN s : j # k => Ocupada(s[j], h)
  PROVE  Exacto(t, h2)
  <1>1. PICK u : Reservado(s, h, p, k, f, e, r, u, t, h2) /\ R2 = R \cup r.raro \cup nuevas
    BY DEF AlocadoEn
  <1>2. r.raro = {}
    BY <1>1
  <1> QED BY <1>1, <1>2, ReservaExacto

LEMMA AlocadoEnPila ==
  ASSUME NEW s0, NEW s, NEW h, Tipos(s, h), Regular(s, h), EnPila(s, h),
         NEW p, NEW k, NEW e, NEW f, NEW r, NEW t, NEW h2, NEW R2,
         AlocadoEn(s0, s, h, p, k, e, {}, {}, f, r, t, h2, R2), s[k].espacio_libre >= e + 5
  PROVE  R2 = {} /\ EnPila(t, h2)
  <1>1. k \in DOMAIN s /\ f \in DOMAIN s /\ s[f].pid = s[k].pid /\ r \in alocar(s[f].meta, e) /\ e \in Nat
    BY DEF AlocadoEn, Reservado
  <1>2. f = k
    BY <1>1 DEF EnPila
  <1>w. PICK w : w = s[k].meta
    OBVIOUS
  <1>l. PICK l : l = s[k].espacio_libre
    OBVIOUS
  <1>3. s \in Seq(Pagina)
    BY DEF Tipos
  <1>4. w \in Cadena /\ Encadenados(w) /\ Apilada(w, l) /\ l >= e + 5 /\ r \in alocar(w, e)
    BY <1>1, <1>2, <1>3, <1>w, <1>l, UnaPagina DEF Regular, Acorde, EnPila
  <1>5. r.offset # -1 /\ r.offset + e \in Desplazamientos /\ r.raro = {}
    BY <1>1, <1>4, ReservaHallada
  <1>6. PICK u : Reservado(s, h, p, k, f, e, r, u, t, h2) /\ R2 = {} \cup r.raro \cup {}
    BY <1>5 DEF AlocadoEn
  <1>7. EnPila(t, h2)
    BY <1>6, ReservaEnPila
  <1> QED BY <1>5, <1>6, <1>7

-----------------------------------------------------------------------------
(* The invariant holds, action by action *)

LEMMA TamanioPedido ==
  ASSUME NEW e \in Espacios, e <= tam_max_disponible
  PROVE  e \in Nat /\ e <= tamanio_pagina - 10
  BY HeapAssumption, Tamanio DEF HeapAssumption, tam_max_disponible

LEMMA PasoReservarEnPagina ==
  ASSUME IInv, NEW p \in Pids, NEW e \in Espacios, ReservarEnPagina(p, e)
  PROVE  IInv'
  <1>s. PICK s, h, R : s = paginas_heap /\ h = heap /\ R = rarezas
    OBVIOUS
  <1>t. PICK t, h2, R2 : t = paginas_heap' /\ h2 = heap' /\ R2 = rarezas'
    OBVIOUS
  <1>k. PICK k : k = ConEspacio(s, p, e)
    OBVIOUS
  <1>0. /\ Tipos(s, h) /\ vivos \subseteq Pids /\ desordenados \subseteq Pids /\ R \subseteq Rarezas
        /\ R \subseteq {"otra pagina"} => Regular(s, h)
        /\ R = {} => Exacto(s, h)
        /\ desordenados = {} => R = {} /\ EnPila(s, h)
    BY <1>s DEF IInv, InvTipos, InvRegular, InvExacto, InvEnPila
  <1>1. /\ k # 0 /\ e <= tam_max_disponible /\ AlocarEn(s, p, k, e, {})
        /\ vivos' = vivos /\ desordenados' = desordenados
    BY <1>s, <1>k DEF ReservarEnPagina
  <1>2. e \in Nat
    BY <1>1, TamanioPedido
  <1>3. s \in Seq(Pagina) /\ DOMAIN h \subseteq Pids
    BY <1>0 DEF Tipos
  <1>4. k \in DOMAIN s /\ s[k].pid = p /\ s[k].espacio_libre >= e + 5
    BY <1>1, <1>3, <1>k, ConEspacioEs
  <1>5. PICK f, r : AlocadoEn(s, s, h, p, k, e, {}, R, f, r, t, h2, R2)
    <2>1. \E f, r : AlocadoEn(s, s, h, p, k, e, {}, R, f, r, paginas_heap', heap', rarezas')
      BY <1>1, <1>2, <1>3, <1>4, <1>s, AlocarEnDa
    <2> QED BY <2>1, <1>t
  <1>6. Tipos(t, h2) /\ R2 \subseteq Rarezas
    BY <1>0, <1>5, AlocadoTipos
  <1>7. R \subseteq R2
    BY <1>5 DEF AlocadoEn
  <1>8. ASSUME R2 \subseteq {"otra pagina"}
        PROVE  Regular(t, h2)
    <2>1. Regular(s, h)
      BY <1>0, <1>7, <1>8
    <2> QED BY <2>1, <1>0, <1>5, <1>8, AlocadoRegular
  <1>9. ASSUME R2 = {}
        PROVE  Exacto(t, h2)
    <2>1. Regular(s, h) /\ Exacto(s, h)
      BY <1>0, <1>7, <1>9
    <2>2. LibreExacto(s) /\ \A j \in DOMAIN s : j # k => Ocupada(s[j], h)
      BY <2>1 DEF Exacto
    <2> QED BY <2>1, <2>2, <1>0, <1>5, <1>9, AlocadoExacto
  <1>10. ASSUME desordenados = {}
         PROVE  R2 = {} /\ EnPila(t, h2)
    <2>1. R = {} /\ Regular(s, h) /\ EnPila(s, h)
      BY <1>0, <1>10
    <2>2. AlocadoEn(s, s, h, p, k, e, {}, {}, f, r, t, h2, R2)
      BY <2>1, <1>5
    <2> QED BY <2>1, <2>2, <1>0, <1>4, AlocadoEnPila
  <1>11. InvTipos'
    BY <1>0, <1>1, <1>6, <1>t DEF InvTipos
  <1>12. InvRegular'
    BY <1>8, <1>t DEF InvRegular
  <1>13. InvExacto'
    BY <1>9, <1>t DEF InvExacto
  <1>14. InvEnPila'
    BY <1>1, <1>10, <1>t DEF InvEnPila
  <1> QED BY <1>11, <1>12, <1>13, <1>14 DEF IInv

LEMMA PasoReservarEnPaginaNueva ==
  ASSUME IInv, NEW p \in Pids, NEW e \in Espacios, ReservarEnPaginaNueva(p, e)
  PROVE  IInv'
  <1>s. PICK s0, h, R : s0 = paginas_heap /\ h = heap /\ R = rarezas
    OBVIOUS
  <1>t. PICK t, h2, R2 : t = paginas_heap' /\ h2 = heap' /\ R2 = rarezas'
    OBVIOUS
  <1>x. PICK x : x = PrimeraPagina + Cuantas(s0, p)
    OBVIOUS
  <1>v. PICK s : s = Append(s0, [pid |-> p, pagina |-> x,
                                 espacio_libre |-> tamanio_pagina - tamanio_metadata, meta |-> PaginaNueva])
    OBVIOUS
  <1>k. PICK k : k = ConEspacio(s, p, e)
    OBVIOUS
  <1>n. PICK nuevas : nuevas = IF Marco(s0, p, x) # 0 THEN {"pagina repetida"} ELSE {}
    OBVIOUS
  <1>0. /\ Tipos(s0, h) /\ vivos \subseteq Pids /\ desordenados \subseteq Pids /\ R \subseteq Rarezas
        /\ R \subseteq {"otra pagina"} => Regular(s0, h)
        /\ R = {} => Exacto(s0, h)
        /\ desordenados = {} => R = {} /\ EnPila(s0, h)
    BY <1>s DEF IInv, InvTipos, InvRegular, InvExacto, InvEnPila
  <1>1. /\ e <= tam_max_disponible /\ ConEspacio(s0, p, e) = 0 /\ Len(s0) < MaxPaginas
        /\ vivos' = vivos
        /\ desordenados' = IF DeProceso(s0, p) # 0 THEN desordenados \cup {p} ELSE desordenados
    BY <1>s DEF ReservarEnPaginaNueva
  <1>2. AlocarEn(s, p, k, e, nuevas)
    <2>1. SOLICITAR_HEAP(p) = s
      BY <1>s, <1>v, <1>x DEF SOLICITAR_HEAP
    <2>2. AlocarEn(SOLICITAR_HEAP(p), p, ConEspacio(SOLICITAR_HEAP(p), p, e), e,
                   IF Marco(paginas_heap, p, PrimeraPagina + Cuantas(paginas_heap, p)) # 0
                   THEN {"pagina repetida"} ELSE {})
      BY DEF ReservarEnPaginaNueva
    <2> QED BY <2>1, <2>2, <1>s, <1>x, <1>k, <1>n
  <1>3. e \in Nat /\ e <= tamanio_pagina - 10
    BY <1>1, TamanioPedido
  <1>4. s0 \in Seq(Pagina) /\ DOMAIN h \subseteq Pids
    BY <1>0 DEF Tipos
  <1>m. PICK m : m = Len(s0) + 1
    OBVIOUS
  <1>5. ConNueva(s0, p, x, m, s)
    BY <1>1, <1>4, <1>x, <1>v, <1>m, NuevaDa
  <1>6. k = m
    BY <1>1, <1>3, <1>4, <1>5, <1>k, NuevaConEspacio
  <1>7. /\ s \in Seq(Pagina) /\ k \in DOMAIN s /\ s[k].pid = p /\ s[k].espacio_libre >= e + 5
        /\ \A j \in DOMAIN s : j # k => j \in DOMAIN s0 /\ s[j] = s0[j]
    BY <1>3, <1>5, <1>6, Tamanio DEF ConNueva
  <1>8. Tipos(s, h)
    BY <1>0, <1>5, NuevaTipos
  <1>9. PICK f, r : AlocadoEn(s0, s, h, p, k, e, nuevas, R, f, r, t, h2, R2)
    <2>1. \E f, r : AlocadoEn(s0, s, h, p, k, e, nuevas, R, f, r, paginas_heap', heap', rarezas')
      BY <1>2, <1>3, <1>4, <1>7, <1>s, AlocarEnDa
    <2> QED BY <2>1, <1>t
  <1>10. nuevas \subseteq Rarezas
    BY <1>n DEF Rarezas
  <1>11. Tipos(t, h2) /\ R2 \subseteq Rarezas
    BY <1>0, <1>8, <1>9, <1>10, AlocadoTipos
  <1>12. R \subseteq R2 /\ nuevas \subseteq R2
    BY <1>9 DEF AlocadoEn
  \* Unless its number is repeated, the pages agree with the new one
  <1>13. ASSUME R2 \subseteq {"otra pagina"}
         PROVE  Regular(s, h)
    <2>1. Regular(s0, h) /\ "pagina repetida" \notin nuevas
      BY <1>0, <1>12, <1>13
    <2>2. Marco(s0, p, x) = 0
      BY <2>1, <1>n
    <2>3. \A j \in DOMAIN s0 : ~(s0[j].pid = p /\ s0[j].pagina = x)
      BY <2>2, <1>4, MarcoEs
    <2>4. Tipos(s0, h) /\ Regular(s0, h)
      BY <2>1, <1>0
    <2> QED BY <2>3, <2>4, <1>5, NuevaRegular
  <1>14. ASSUME R2 \subseteq {"otra pagina"}
         PROVE  Regular(t, h2)
    BY <1>8, <1>9, <1>13, <1>14, AlocadoRegular
  <1>15. ASSUME R2 = {}
         PROVE  Exacto(t, h2)
    <2>1. Exacto(s0, h) /\ Regular(s, h)
      BY <1>0, <1>12, <1>13, <1>15
    <2>2. LibreExacto(s)
      BY <2>1, <1>5, NuevaExacto DEF Exacto
    <2>3. \A j \in DOMAIN s : j # k => Ocupada(s[j], h)
      BY <2>1, <1>7 DEF Exacto
    <2> QED BY <2>1, <2>2, <2>3, <1>8, <1>9, <1>15, AlocadoExacto
  <1>16. ASSUME desordenados' = {}
         PROVE  R2 = {} /\ EnPila(t, h2)
    <2>1. DeProceso(s0, p) = 0 /\ desordenados = {}
      BY <1>1, <1>16
    <2>2. R = {} /\ EnPila(s0, h) /\ Regular(s0, h)
      BY <2>1, <1>0
    <2>3. \A j \in DOMAIN s0 : s0[j].pid # p
      BY <2>1, <1>4, DeProcesoEs
    <2>4. Marco(s0, p, x) = 0
      BY <2>3, <1>4, MarcoEs
    <2>5. Regular(s, h)
      BY <2>2, <2>3, <1>0, <1>5, NuevaRegular
    <2>6. EnPila(s, h)
      BY <2>2, <2>3, <1>5, NuevaEnPila
    <2>7. AlocadoEn(s0, s, h, p, k, e, {}, {}, f, r, t, h2, R2)
      BY <2>2, <2>4, <1>9, <1>n
    <2> QED BY <2>5, <2>6, <2>7, <1>7, <1>8, AlocadoEnPila
  <1>17. InvTipos'
    <2>1. desordenados' \subseteq Pids
      BY <1>0, <1>1
    <2> QED BY <2>1, <1>0, <1>1, <1>11, <1>t DEF InvTipos
  <1>18. InvRegular'
    BY <1>14, <1>t DEF InvRegular
  <1>19. InvExacto'
    BY <1>15, <1>t DEF InvExacto
  <1>20. InvEnPila'
    BY <1>16, <1>t DEF InvEnPila
  <1> QED BY <1>17, <1>18, <1>19, <1>20 DEF IInv

LEMMA PasoTerminar ==
  ASSUME IInv, NEW p \in Pids, Terminar(p)
  PROVE  IInv'
  <1>s. PICK s, h : s = paginas_heap /\ h = heap
    OBVIOUS
  <1>t. PICK t, h2 : t = paginas_heap' /\ h2 = heap'
    OBVIOUS
  <1>0. /\ Tipos(s, h) /\ vivos \subseteq Pids /\ desordenados \subseteq Pids /\ rarezas \subseteq Rarezas
        /\ rarezas \subseteq {"otra pagina"} => Regular(s, h)
        /\ rarezas = {} => Exacto(s, h)
        /\ desordenados = {} => rarezas = {} /\ EnPila(s, h)
    BY <1>s DEF IInv, InvTipos, InvRegular, InvExacto, InvEnPila
  <1>1. /\ vivos' = vivos \ {p} /\ t = SinPaginasDe(s, p) /\ h2 = Restrict(h, DOMAIN h \ {p})
        /\ desordenados' = desordenados /\ rarezas' = rarezas
    BY <1>s, <1>t DEF Terminar
  <1>2. DOMAIN h2 = DOMAIN h \ {p} /\ PunterosComo(h, p, <<>>, h2)
    BY <1>1, SacarPunteros
  <1>3. DOMAIN h2 \subseteq Pids
    BY <1>0, <1>2 DEF Tipos
  <1>4. Tipos(t, h2)
    BY <1>0, <1>1, <1>2, <1>3, TerminarTipos
  <1>5. Regular(s, h) => Regular(t, h2)
    BY <1>0, <1>1, <1>2, TerminarRegular
  <1>6. Exacto(s, h) => Exacto(t, h2)
    BY <1>0, <1>1, <1>2, TerminarExacto
  <1>7. EnPila(s, h) => EnPila(t, h2)
    BY <1>0, <1>1, <1>2, TerminarEnPila
  <1>8. InvTipos'
    BY <1>0, <1>1, <1>4, <1>t DEF InvTipos
  <1>9. InvRegular'
    BY <1>0, <1>1, <1>5, <1>t DEF InvRegular
  <1>10. InvExacto'
    BY <1>0, <1>1, <1>6, <1>t DEF InvExacto
  <1>11. InvEnPila'
    BY <1>0, <1>1, <1>7, <1>t DEF InvEnPila
  <1> QED BY <1>8, <1>9, <1>10, <1>11 DEF IInv

LEMMA PasoLiberarMemoria ==
  ASSUME IInv, NEW p \in Pids, NEW n, LiberarMemoria(p, n)
  PROVE  IInv'
  <1>s. PICK s, h, R : s = paginas_heap /\ h = heap /\ R = rarezas
    OBVIOUS
  <1>t. PICK t, h2, R2 : t = paginas_heap' /\ h2 = heap' /\ R2 = rarezas'
    OBVIOUS
  <1>0. /\ Tipos(s, h) /\ vivos \subseteq Pids /\ desordenados \subseteq Pids /\ R \subseteq Rarezas
        /\ R \subseteq {"otra pagina"} => Regular(s, h)
        /\ R = {} => Exacto(s, h)
        /\ desordenados = {} => R = {} /\ EnPila(s, h)
    BY <1>s DEF IInv, InvTipos, InvRegular, InvExacto, InvEnPila
  <1>u. PICK u, resto : u = h[p][n] /\ resto = RemoveAt(h[p], n)
    OBVIOUS
  <1>f. PICK f, k : f = Marco(s, p, u.pagina) /\ k = DeProceso(s, p)
    OBVIOUS
  <1>w. PICK w : w = Escribe(s[f].meta, u.offset - 5, [size |-> u.size, isFree |-> TRUE])
    OBVIOUS
  <1>v. PICK v : v = [s EXCEPT ![f].meta = w]
    OBVIOUS
  <1>g. PICK g : g = Marco(v, p, v[k].pagina)
    OBVIOUS
  <1>1. /\ p \in DOMAIN h /\ n \in DOMAIN h[p]
        /\ h2 = [h EXCEPT ![p] = resto]
        /\ desordenados' = IF n # Len(h[p]) THEN desordenados \cup {p} ELSE desordenados
        /\ vivos' = vivos
    BY <1>s, <1>t, <1>u DEF LiberarMemoria
  <1>2. PICK r \in compactar_pagina(v[g].meta, v[k].espacio_libre + Devueltos(u)) :
          /\ t = IF ~esta_ocupada(resto, v[k].pagina)
                 THEN RemoveAt([[v EXCEPT ![g].meta = r.meta] EXCEPT ![k].espacio_libre = r.libre], g)
                 ELSE [[v EXCEPT ![g].meta = r.meta] EXCEPT ![k].espacio_libre = r.libre]
          /\ R2 = R \cup r.raro \cup (IF v[k].pagina # u.pagina THEN {"otra pagina"} ELSE {})
    <2>1. v = [s EXCEPT ![f].meta = Escribe(@, u.offset - tamanio_metadata, [size |-> u.size, isFree |-> TRUE])]
      <3>1. u.offset - tamanio_metadata = u.offset - 5
        BY Tamanio
      <3> QED BY <3>1, <1>w, <1>v
    <2> QED BY <2>1, <1>s, <1>t, <1>u, <1>f, <1>g DEF LiberarMemoria, buscar_pagina
  <1>3. /\ s \in Seq(Pagina) /\ DOMAIN h \subseteq Pids
        /\ PunterosDe(h, p) = h[p] /\ h[p] \in Seq(ConMetadata)
        /\ \E j \in DOMAIN s : s[j].pid = p /\ s[j].pagina = u.pagina
    <2>1. PunterosDe(h, p) = h[p]
      BY <1>1 DEF PunterosDe
    <2>2. /\ s \in Seq(Pagina) /\ DOMAIN h \subseteq Pids
          /\ \A q \in Pids : PunterosDe(h, q) \in Seq(ConMetadata)
          /\ \A q \in Pids : \A m \in DOMAIN PunterosDe(h, q) :
               \E j \in DOMAIN s : s[j].pid = q /\ s[j].pagina = PunterosDe(h, q)[m].pagina
      BY <1>0 DEF Tipos
    <2>3. h[p] \in Seq(ConMetadata)
      BY <2>1, <2>2
    <2>4. \E j \in DOMAIN s : s[j].pid = p /\ s[j].pagina = u.pagina
      BY <2>1, <2>2, <1>1, <1>u
    <2> QED BY <2>1, <2>2, <2>3, <2>4
  <1>4. f \in DOMAIN s /\ s[f].pid = p /\ s[f].pagina = u.pagina
    BY <1>3, <1>f, MarcoEs
  <1>5. k \in DOMAIN s /\ s[k].pid = p /\ \A j \in DOMAIN s : s[j].pid = p => k <= j
    BY <1>3, <1>f, DeProcesoEs
  <1>6. w \in Cadena
    <2>1. s[f].meta \in Cadena
      BY <1>3, <1>4, UnaPagina
    <2>2. u.offset \in 5 .. tamanio_pagina - 1 /\ u.size \in Nat
      BY <1>1, <1>3, <1>u, UnPuntero
    <2>3. u.offset - 5 \in 0 .. tamanio_pagina - 1
      BY <2>2, Tamanio
    <2>4. [size |-> u.size, isFree |-> TRUE] \in Metadata
      BY <2>2, UnBloque
    <2> QED BY <2>1, <2>3, <2>4, <1>w, EscribeDa
  <1>7. MetaCambiada(s, f, w, v)
    BY <1>3, <1>4, <1>6, <1>v, CambiaMeta
  <1>8. /\ v \in Seq(Pagina) /\ DOMAIN v = DOMAIN s
        /\ \A j \in DOMAIN s : /\ v[j].pid = s[j].pid /\ v[j].pagina = s[j].pagina
                               /\ v[j].espacio_libre = s[j].espacio_libre
    BY <1>7 DEF MetaCambiada
  \* The frame that is compacted is that of the first page of the process
  <1>9. g = k
    <2>1. g \in DOMAIN v /\ v[g].pid = p /\ g <= k
      BY <1>5, <1>8, <1>g, MarcoEs
    <2>2. k <= g
      BY <2>1, <1>5, <1>8
    <2>3. g \in Nat /\ k \in Nat
      BY <2>1, <1>3, <1>5, <1>8
    <2> QED BY <2>1, <2>2, <2>3
  <1>10. r \in compactar_pagina(v[k].meta, s[k].espacio_libre + u.size)
    BY <1>2, <1>5, <1>8, <1>9 DEF Devueltos
  <1>11. r.meta \in Cadena /\ r.libre \in Int /\ r.raro \subseteq {"basura", "fuera"}
    <2>l. PICK l : l = s[k].espacio_libre + u.size
      OBVIOUS
    <2>1. v[k].meta \in Cadena /\ s[k].espacio_libre \in Int
      BY <1>3, <1>5, <1>8, UnaPagina
    <2>2. u.size \in Nat
      BY <1>1, <1>3, <1>u, UnPuntero
    <2>3. Sigue(v[k].meta, l, r)
      BY <2>1, <2>2, <2>l, <1>10, CompactarBien
    <2> QED BY <2>3 DEF Sigue, EnCurso
  <1>c. PICK c : c = [[v EXCEPT ![k].meta = r.meta] EXCEPT ![k].espacio_libre = r.libre]
    OBVIOUS
  <1>12. Cambiadas(v, k, r.meta, k, r.libre, c)
    <2>1. PICK y, l : y = r.meta /\ l = r.libre
      OBVIOUS
    <2>2. v \in Seq(Pagina) /\ k \in DOMAIN v /\ y \in Cadena /\ l \in Int
      BY <2>1, <1>5, <1>8, <1>11
    <2>3. Cambiadas(v, k, y, k, l, [[v EXCEPT ![k].meta = y] EXCEPT ![k].espacio_libre = l])
      BY <2>2, CambiaPaginas
    <2> QED BY <2>1, <2>3, <1>c
  <1>13. DOMAIN h2 = DOMAIN h /\ PunterosComo(h, p, resto, h2)
    BY <1>1, CambiarPunteros
  <1>14. PunterosDe(h2, p) = resto /\ resto = RemoveAt(PunterosDe(h, p), n)
    BY <1>3, <1>13, <1>u DEF PunterosComo
  <1>15. t = IF esta_ocupada(PunterosDe(h2, p), s[k].pagina) THEN c ELSE RemoveAt(c, k)
    BY <1>2, <1>5, <1>8, <1>9, <1>14, <1>c
  <1>16. Liberado(s, h, p, n, k, f, u, v, r, c, t, h2)
    <2>1. n \in DOMAIN PunterosDe(h, p) /\ u = PunterosDe(h, p)[n]
      BY <1>1, <1>3, <1>u
    <2>2. DOMAIN h2 \subseteq Pids /\ PunterosComo(h, p, RemoveAt(PunterosDe(h, p), n), h2)
      BY <1>3, <1>13, <1>14
    <2>3. MetaCambiada(s, f, Escribe(s[f].meta, u.offset - 5, [size |-> u.size, isFree |-> TRUE]), v)
      BY <1>7, <1>w
    <2> QED BY <2>1, <2>2, <2>3, <1>4, <1>5, <1>10, <1>12, <1>15 DEF Liberado
  <1>17. R2 = R \cup r.raro \cup (IF s[k].pagina # u.pagina THEN {"otra pagina"} ELSE {})
    BY <1>2, <1>5, <1>8
  <1>18. Tipos(t, h2)
    BY <1>0, <1>16, LiberadoTipos
  <1>19. ASSUME R2 \subseteq {"otra pagina"}
         PROVE  Regular(t, h2)
    <2>1. "basura" \notin R2 /\ "fuera" \notin R2
      BY <1>19
    <2>2. R \subseteq {"otra pagina"} /\ r.raro = {}
      BY <2>1, <1>11, <1>17, <1>19
    <2>3. Regular(s, h)
      BY <2>2, <1>0
    <2>4. Regular(c, h2) /\ Regular(t, h2)
      BY <2>2, <2>3, <1>0, <1>16, LiberadoRegular
    <2> QED BY <2>4
  <1>20. ASSUME R2 = {}
         PROVE  Exacto(t, h2)
    <2>1. R = {} /\ r.raro = {} /\ s[k].pagina = u.pagina
      BY <1>17, <1>20
    <2>2. Regular(s, h) /\ Exacto(s, h)
      BY <2>1, <1>0
    <2> QED BY <2>1, <2>2, <1>0, <1>16, LiberadoExacto
  <1>21. ASSUME desordenados' = {}
         PROVE  R2 = {} /\ EnPila(t, h2)
    <2>1. desordenados = {} /\ n = Len(PunterosDe(h, p))
      BY <1>1, <1>3, <1>21
    <2>2. R = {} /\ EnPila(s, h) /\ Regular(s, h)
      BY <2>1, <1>0
    <2>3. r.raro = {} /\ s[k].pagina = u.pagina /\ EnPila(t, h2)
      BY <2>1, <2>2, <1>0, <1>16, LiberadoEnPila
    <2> QED BY <2>2, <2>3, <1>17
  <1>22. InvTipos'
    <2>1. desordenados' \subseteq Pids /\ vivos' \subseteq Pids
      BY <1>0, <1>1
    <2>2. R2 \subseteq Rarezas
      BY <1>0, <1>11, <1>17 DEF Rarezas
    <2> QED BY <2>1, <2>2, <1>18, <1>t DEF InvTipos
  <1>23. InvRegular'
    BY <1>19, <1>t DEF InvRegular
  <1>24. InvExacto'
    BY <1>20, <1>t DEF InvExacto
  <1>25. InvEnPila'
    BY <1>21, <1>t DEF InvEnPila
  <1> QED BY <1>22, <1>23, <1>24, <1>25 DEF IInv

-----------------------------------------------------------------------------
(* Theorems *)

LEMMA InitInv ==
  ASSUME Init
  PROVE  IInv
  <1>1. paginas_heap = <<>> /\ heap = <<>> /\ vivos = Pids /\ desordenados = {} /\ rarezas = {}
    BY DEF Init
  <1>2. DOMAIN heap = {} /\ \A q : PunterosDe(heap, q) = <<>>
    BY <1>1 DEF PunterosDe
  <1>3. DOMAIN paginas_heap = {} /\ paginas_heap \in Seq(Pagina) /\ Len(paginas_heap) <= MaxPaginas
    BY <1>1, HeapAssumption DEF HeapAssumption
  <1>4. Tipos(paginas_heap, heap)
    <2>1. <<>> \in Seq(ConMetadata) /\ DOMAIN <<>> = {}
      OBVIOUS
    <2>2. /\ \A q \in Pids : PunterosDe(heap, q) \in Seq(ConMetadata)
          /\ \A q \in Pids : \A n \in DOMAIN PunterosDe(heap, q) : FALSE
      BY <2>1, <1>2
    <2>3. DOMAIN heap \subseteq Pids
      BY <1>2
    <2> QED BY <2>2, <2>3, <1>3 DEF Tipos
  <1>5. Regular(paginas_heap, heap)
    BY <1>2, <1>3 DEF Regular, SinRepetir, Distintos
  <1>6. Exacto(paginas_heap, heap)
    BY <1>3 DEF Exacto, LibreExacto
  <1>7. EnPila(paginas_heap, heap)
    BY <1>2, <1>3 DEF EnPila, Crecientes
  <1> QED BY <1>1, <1>4, <1>5, <1>6, <1>7 DEF IInv, InvTipos, InvRegular, InvExacto, InvEnPila

LEMMA NextInv ==
  ASSUME IInv, [Next]_vars
  PROVE  IInv'
  <1>1. CASE Next
    <2>1. PICK p \in Pids :
            \/ \E espacio \in Espacios :
                 ReservarEnPagina(p, espacio) \/ ReservarEnPaginaNueva(p, espacio)
                   \/ ReservarRechazado(p, espacio)
            \/ p \in DOMAIN heap /\ \E n \in DOMAIN heap[p] : LiberarMemoria(p, n)
            \/ LiberarRechazado(p)
            \/ end_process(p)
      BY <1>1 DEF Next
    <2>2. CASE \E espacio \in Espacios : ReservarEnPagina(p, espacio)
      BY <2>2, PasoReservarEnPagina
    <2>3. CASE \E espacio \in Espacios : ReservarEnPaginaNueva(p, espacio)
      BY <2>3, PasoReservarEnPaginaNueva
    <2>4. CASE \E espacio \in Espacios : ReservarRechazado(p, espacio)
      BY <2>4, PasoTerminar DEF ReservarRechazado
    <2>5. CASE \E n \in DOMAIN heap[p] : LiberarMemoria(p, n)
      BY <2>5, PasoLiberarMemoria
    <2>6. CASE LiberarRechazado(p)
      BY <2>6, PasoTerminar DEF LiberarRechazado
    <2>7. CASE end_process(p)
      BY <2>7, PasoTerminar DEF end_process
    <2> QED BY <2>1, <2>2, <2>3, <2>4, <2>5, <2>6, <2>7
  <1>2. CASE UNCHANGED vars
    <2>1. /\ paginas_heap' = paginas_heap /\ heap' = heap /\ vivos' = vivos
          /\ desordenados' = desordenados /\ rarezas' = rarezas
      BY <1>2 DEF vars
    <2> QED BY <2>1 DEF IInv, InvTipos, InvRegular, InvExacto, InvEnPila
  <1> QED BY <1>1, <1>2

\* Pages, chains, pointers and counts of free bytes agree as far as IInv says, whatever is
\* asked for and freed in RESERVAR and LIBERAR, and whichever processes end.
THEOREM HeapInv == Spec => []IInv
  <1>1. Init => IInv
    BY InitInv
  <1>2. IInv /\ [Next]_vars => IInv'
    BY NextInv
  <1> QED BY <1>1, <1>2, PTL DEF Spec

LEMMA PunterosSanos ==
  ASSUME Tipos(paginas_heap, heap), NEW p \in DOMAIN heap
  PROVE  /\ p \in Pids /\ PunterosDe(heap, p) = heap[p]
         /\ heap[p] \in Seq(ConMetadata) /\ heap[p] \in Seq(Puntero)
  <1>1. p \in Pids /\ PunterosDe(heap, p) = heap[p]
    BY DEF Tipos, PunterosDe
  <1>2. heap[p] \in Seq(ConMetadata)
    BY <1>1 DEF Tipos
  <1>3. ConMetadata \subseteq Puntero
    BY Tamanio DEF ConMetadata, Puntero
  <1>4. heap[p] \in Seq(Puntero)
    BY <1>2, <1>3
  <1> QED BY <1>1, <1>2, <1>4

\* The lists of the Kernel hold what they should: a page is of a process and has a number of
\* those Memoria has, its metadata is within it, and so are the pointers.
THEOREM TiposDelHeap == Spec => []TypeOK
  <1>1. ASSUME IInv
        PROVE  TypeOK
    <2>0. /\ Tipos(paginas_heap, heap) /\ paginas_heap \in Seq(Pagina) /\ DOMAIN heap \subseteq Pids
          /\ vivos \subseteq Pids /\ desordenados \subseteq Pids /\ rarezas \subseteq Rarezas
      BY <1>1 DEF IInv, InvTipos, Tipos
    <2>1. ASSUME NEW k \in DOMAIN paginas_heap
          PROVE  LET g == paginas_heap[k]
                 IN  /\ [pid |-> g.pid, pagina |-> g.pagina, espacio_libre |-> g.espacio_libre] \in PaginaHeap
                     /\ DOMAIN g.meta \subseteq 0 .. tamanio_pagina - 1
                     /\ \A c \in DOMAIN g.meta : g.meta[c] \in Metadata
      <3>g. PICK g : g = paginas_heap[k]
        OBVIOUS
      <3>1. /\ g.pid \in Pids /\ g.pagina \in Paginas /\ g.espacio_libre \in Int /\ g.meta \in Cadena
        BY <2>0, <3>g, UnaPagina
      <3>2. DOMAIN g.meta \subseteq 0 .. tamanio_pagina - 1 /\ \A c \in DOMAIN g.meta : g.meta[c] \in Metadata
        BY <3>1, DeCadena
      <3>3. [pid |-> g.pid, pagina |-> g.pagina, espacio_libre |-> g.espacio_libre] \in PaginaHeap
        BY <3>1 DEF PaginaHeap
      <3> QED BY <3>2, <3>3, <3>g
    <2>2. \A p \in DOMAIN heap : heap[p] \in Seq(Puntero)
      BY <2>0, PunterosSanos
    <2> QED BY <2>0, <2>1, <2>2 DEF TypeOK, Rarezas
  <1> QED BY <1>1, HeapInv, PTL

\* While no garbage was taken for a free block and no page number is repeated, the blocks of
\* every page fill it and those taken are the ones with a pointer; and the bytes
\* paginas_heap says are free are those of its free blocks, until what is freed in a page is
\* counted in another.
THEOREM LasPaginasSonSusBloques == Spec => []PaginasBienFormadas
  <1>1. ASSUME IInv
        PROVE  PaginasBienFormadas
    <2>1. Teselado
      BY <1>1 DEF IInv, InvRegular, Regular, Acorde, Teselado
    <2>2. EspacioExacto
      BY <1>1 DEF IInv, InvExacto, Exacto, LibreExacto, EspacioExacto
    <2> QED BY <2>1, <2>2 DEF PaginasBienFormadas
  <1> QED BY <1>1, HeapInv, PTL

\* LIBERAR gives no page back with a pointer in it; and while pages are not mistaken it
\* keeps none without.
THEOREM LasPaginasSeUsan == Spec => []PaginasConUso
  <1>1. ASSUME IInv
        PROVE  PaginasConUso
    <2>0. Tipos(paginas_heap, heap)
      BY <1>1 DEF IInv, InvTipos
    <2>1. ASSUME NEW p \in DOMAIN heap, NEW n \in DOMAIN heap[p]
          PROVE  Marco(paginas_heap, p, heap[p][n].pagina) # 0
      <3>1. p \in Pids /\ PunterosDe(heap, p) = heap[p]
        BY <2>0, PunterosSanos
      <3>2. PICK k \in DOMAIN paginas_heap :
              paginas_heap[k].pid = p /\ paginas_heap[k].pagina = heap[p][n].pagina
        BY <2>0, <3>1 DEF Tipos
      <3>3. paginas_heap \in Seq(Pagina)
        BY <2>0 DEF Tipos
      <3> QED BY <3>2, <3>3, MarcoEs
    <2>2. rarezas = {} => \A k \in DOMAIN paginas_heap :
             esta_ocupada(PunterosDe(heap, paginas_heap[k].pid), paginas_heap[k].pagina)
      BY <1>1 DEF IInv, InvExacto, Exacto, Ocupada
    <2> QED BY <2>1, <2>2 DEF PaginasConUso
  <1> QED BY <1>1, HeapInv, PTL

\* A program that frees in the reverse order of its requests, and fits in a page, meets
\* nothing of what alocar and compactar_pagina do wrong.
THEOREM LaPilaEsSegura == Spec => []DisciplinaDePila
  <1>1. IInv => DisciplinaDePila
    BY DEF IInv, InvEnPila, DisciplinaDePila
  <1> QED BY <1>1, HeapInv, PTL
=============================================================================
