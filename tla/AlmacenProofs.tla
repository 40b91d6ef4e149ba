--------------------------- MODULE AlmacenProofs ---------------------------
(***************************************************************************)
(* Theorems about what the memory process keeps for its clients: the cache *)
(* holds what the frames hold, pages are where the table says, and the     *)
(* whole is the store of pages of AlmacenPaginas.                          *)
(***************************************************************************)
EXTENDS MCMemoria, MemoriaProofs

-----------------------------------------------------------------------------
(* Looking a page up *)

Lista(pid, pagina) == indice[calcular_posicion(pid, pagina)]

\* The k-th element of its list is the first frame that holds the page.
EsElPrimero(pid, pagina, k) ==
  /\ k \in 1 .. Len(Lista(pid, pagina))
  /\ tabla[Lista(pid, pagina)[k]] = [pid |-> pid, pagina |-> pagina]
  /\ \A j \in 1 .. Len(Lista(pid, pagina)) :
       j < k => tabla[Lista(pid, pagina)[j]] # [pid |-> pid, pagina |-> pagina]

NoEsta(pid, pagina) ==
  \A j \in 1 .. Len(Lista(pid, pagina)) :
    tabla[Lista(pid, pagina)[j]] # [pid |-> pid, pagina |-> pagina]

\* buscar_en_indice returns the first frame of the list that holds the page, ...
LEMMA BuscarPrimero ==
  ASSUME NEW pid, NEW pagina, NEW k, EsElPrimero(pid, pagina, k),
         Len(Lista(pid, pagina)) \in Nat
  PROVE  buscar_en_indice(pid, pagina) = Lista(pid, pagina)[k]
<1> DEFINE lista == indice[calcular_posicion(pid, pagina)]
           hits  == {i \in 1 .. Len(lista) : tabla[lista[i]] = [pid |-> pid, pagina |-> pagina]}
<1>0. lista = Lista(pid, pagina)
  BY DEF Lista
<1>1. k \in hits /\ hits \in SUBSET Nat
  BY <1>0 DEF EsElPrimero
<1>2. \A j \in hits : ~(j < k)
  BY <1>0 DEF EsElPrimero
<1>3. Minimo(hits) \in hits /\ \A j \in hits : Minimo(hits) <= j
  BY <1>1, MinimoEsta
<1>4. buscar_en_indice(pid, pagina) = IF hits = {} THEN -1 ELSE lista[Minimo(hits)]
  BY DEF buscar_en_indice
<1> HIDE DEF hits
<1>5. Minimo(hits) = k
  <2>1. Minimo(hits) \in Nat /\ k \in Nat
    BY <1>1, <1>3
  <2>2. ~(Minimo(hits) < k) /\ Minimo(hits) <= k
    BY <1>1, <1>2, <1>3
  <2> QED
    BY <2>1, <2>2
<1> QED
  BY <1>0, <1>1, <1>4, <1>5

\* ... or -1.
LEMMA BuscarNada ==
  ASSUME NEW pid, NEW pagina, NoEsta(pid, pagina)
  PROVE  buscar_en_indice(pid, pagina) = -1
BY DEF buscar_en_indice, NoEsta, Lista

\* One of the two happens.
LEMMA BuscarCasos ==
  TipoTabla => \A pid, pagina \in Int :
    /\ Lista(pid, pagina) \in Seq(Frames)
    /\ Len(Lista(pid, pagina)) \in Nat
    /\ \/ NoEsta(pid, pagina) /\ buscar_en_indice(pid, pagina) = -1
       \/ \E k \in Nat : /\ EsElPrimero(pid, pagina, k)
                         /\ buscar_en_indice(pid, pagina) = Lista(pid, pagina)[k]
<1> SUFFICES ASSUME TipoTabla, NEW pid \in Int, NEW pagina \in Int
             PROVE  /\ Lista(pid, pagina) \in Seq(Frames)
                    /\ Len(Lista(pid, pagina)) \in Nat
                    /\ \/ NoEsta(pid, pagina) /\ buscar_en_indice(pid, pagina) = -1
                       \/ \E k \in Nat : /\ EsElPrimero(pid, pagina, k)
                                         /\ buscar_en_indice(pid, pagina) = Lista(pid, pagina)[k]
  OBVIOUS
<1> DEFINE hits == {i \in 1 .. Len(Lista(pid, pagina)) :
                      tabla[Lista(pid, pagina)[i]] = [pid |-> pid, pagina |-> pagina]}
<1>1. Lista(pid, pagina) \in Seq(Frames) /\ Len(Lista(pid, pagina)) \in Nat
  BY PosicionEsFrame, LenProperties DEF TipoTabla, Lista
<1>2. CASE hits = {}
  <2>1. NoEsta(pid, pagina)
    BY <1>2 DEF NoEsta
  <2> QED
    BY <2>1, <1>1, BuscarNada
<1>3. CASE hits # {}
  <2>1. hits \in SUBSET Nat
    OBVIOUS
  <2>2. Minimo(hits) \in hits /\ \A j \in hits : Minimo(hits) <= j
    BY <2>1, <1>3, MinimoEsta
  <2>3. PICK k \in hits : \A j \in hits : k <= j
    BY <2>2
  <2>4. EsElPrimero(pid, pagina, k) /\ k \in Nat
    <3>1. k \in Nat /\ k \in 1 .. Len(Lista(pid, pagina))
      BY <1>1, <2>3
    <3>2. \A j \in 1 .. Len(Lista(pid, pagina)) : j < k => j \notin hits
      BY <3>1, <2>3
    <3> QED
      BY <3>1, <3>2, <2>3 DEF EsElPrimero
  <2> QED
    BY <2>4, <1>1, BuscarPrimero
<1> QED
  BY <1>2, <1>3

LEMMA BuscarCasosDespues ==
  TipoTabla' => \A pid, pagina \in Int :
    /\ Lista(pid, pagina)' \in Seq(Frames)
    /\ Len(Lista(pid, pagina)') \in Nat
    /\ \/ NoEsta(pid, pagina)' /\ buscar_en_indice(pid, pagina)' = -1
       \/ \E k \in Nat : /\ EsElPrimero(pid, pagina, k)'
                         /\ buscar_en_indice(pid, pagina)' = Lista(pid, pagina)'[k]
<1>1. TipoTabla' => (\A pid, pagina \in Int :
    /\ Lista(pid, pagina) \in Seq(Frames)
    /\ Len(Lista(pid, pagina)) \in Nat
    /\ \/ NoEsta(pid, pagina) /\ buscar_en_indice(pid, pagina) = -1
       \/ \E k \in Nat : /\ EsElPrimero(pid, pagina, k)
                         /\ buscar_en_indice(pid, pagina) = Lista(pid, pagina)[k])'
  BY BuscarCasos, PTL
<1> QED
  BY <1>1

\* The first frame of the list after the step is the only k of which it can be said.
LEMMA BuscarPrimeroDespues ==
  ASSUME TipoTabla', NEW pid \in Int, NEW pagina \in Int, NEW k, EsElPrimero(pid, pagina, k)'
  PROVE  buscar_en_indice(pid, pagina)' = Lista(pid, pagina)'[k]
<1>1. Len(Lista(pid, pagina)') \in Nat
  BY BuscarCasosDespues
<1>2. ~NoEsta(pid, pagina)'
  BY DEF NoEsta, EsElPrimero
<1>3. PICK m \in Nat : /\ EsElPrimero(pid, pagina, m)'
                       /\ buscar_en_indice(pid, pagina)' = Lista(pid, pagina)'[m]
  BY <1>2, BuscarCasosDespues
<1>4. m = k
  <2>1. m \in 1 .. Len(Lista(pid, pagina)') /\ k \in 1 .. Len(Lista(pid, pagina)')
    BY <1>3 DEF EsElPrimero
  <2>2. ~(m < k) /\ ~(k < m)
    BY <2>1, <1>3 DEF EsElPrimero
  <2> QED
    BY <2>1, <2>2, <1>1
<1> QED
  BY <1>3, <1>4

LEMMA BuscarNadaDespues ==
  ASSUME TipoTabla', NEW pid \in Int, NEW pagina \in Int, NoEsta(pid, pagina)'
  PROVE  buscar_en_indice(pid, pagina)' = -1
<1>1. \A k : ~EsElPrimero(pid, pagina, k)'
  BY DEF NoEsta, EsElPrimero
<1> QED
  BY <1>1, BuscarCasosDespues

\* A page that is in the table is found.
LEMMA BuscarEncuentra ==
  ASSUME TipoTabla, IndiceCoherente, NEW pid \in Nat, NEW pagina \in Int
  PROVE  /\ Tiene(pid, pagina) <=> buscar_en_indice(pid, pagina) \in Frames
         /\ ~Tiene(pid, pagina) <=> buscar_en_indice(pid, pagina) = -1
         /\ Tiene(pid, pagina) =>
              tabla[buscar_en_indice(pid, pagina)] = [pid |-> pid, pagina |-> pagina]
<1> DEFINE frame == buscar_en_indice(pid, pagina)
<1>1. \/ frame = -1
      \/ frame \in Frames /\ tabla[frame] = [pid |-> pid, pagina |-> pagina]
  BY BuscarDevuelveLaPagina
<1>2. Tiene(pid, pagina) => frame # -1
  <2> SUFFICES ASSUME Tiene(pid, pagina) PROVE frame # -1
    OBVIOUS
  <2>1. PICK f \in Frames : tabla[f] = [pid |-> pid, pagina |-> pagina]
    BY DEF Tiene
  <2>2. PICK i \in 1 .. Len(Lista(pid, pagina)) : Lista(pid, pagina)[i] = f
    BY <2>1 DEF IndiceCoherente, De, Lista
  <2>3. ~NoEsta(pid, pagina)
    BY <2>1, <2>2 DEF NoEsta
  <2>4. PICK k \in Nat : EsElPrimero(pid, pagina, k) /\ frame = Lista(pid, pagina)[k]
    BY <2>3, BuscarCasos
  <2>5. frame \in Frames
    BY <2>4, BuscarCasos, ElementOfSeq DEF EsElPrimero
  <2> QED
    BY <2>5 DEF Frames
<1>3. -1 \notin Frames
  BY DEF Frames
<1> HIDE DEF frame
<1>4. Tiene(pid, pagina) <=> frame \in Frames
  BY <1>1, <1>2, <1>3 DEF Tiene
<1> QED
  BY <1>1, <1>3, <1>4 DEF frame

\* The lists name frames of processes.
LEMMA ListaDeFrames ==
  ASSUME TipoTabla, IndiceCoherente, NEW pos \in Frames, NEW i \in 1 .. Len(indice[pos])
  PROVE  indice[pos][i] \in Frames /\ tabla[indice[pos][i]].pid >= 0
BY ElementOfSeq DEF TipoTabla, IndiceCoherente


\* Giving a page a frame changes no other lookup, and not its own if it had one: the
\* frame goes at the end of the list.
LEMMA BuscarTrasUbicar ==
  ASSUME TipoTabla, TipoTabla', IndiceCoherente, NEW pid \in Nat, NEW pagina \in Int,
         UbicarPagina(pid, pagina), NEW q \in Int, NEW r \in Int,
         (q = pid /\ r = pagina) => Tiene(q, r)
  PROVE  buscar_en_indice(q, r)' = buscar_en_indice(q, r)
<1> DEFINE pos == calcular_posicion(pid, pagina)
           frame == PrimerLibre(pos)
<1>1. pos \in Frames
  BY PosicionEsFrame
<1>2. frame \in Frames /\ tabla[frame].pid = -2
  BY <1>1, PrimerLibreEsLibre DEF UbicarPagina, Libres, LIBRE
<1>3. /\ tabla' = [tabla EXCEPT ![frame] = [pid |-> pid, pagina |-> pagina]]
      /\ indice' = [indice EXCEPT ![pos] = Append(indice[pos], frame)]
  BY DEF UbicarPagina
<1>4. indice[pos] \in Seq(Frames) /\ Len(indice[pos]) \in Nat
  BY <1>1, LenProperties DEF TipoTabla
<1>5. /\ Len(Append(indice[pos], frame)) = Len(indice[pos]) + 1
      /\ \A i \in 1 .. Len(indice[pos]) : Append(indice[pos], frame)[i] = indice[pos][i]
      /\ Append(indice[pos], frame)[Len(indice[pos]) + 1] = frame
  BY <1>1, <1>2, <1>4, AppendProperties
<1> HIDE DEF frame
<1>6. /\ tabla'[frame] = [pid |-> pid, pagina |-> pagina]
      /\ \A f \in Frames : f # frame => tabla'[f] = tabla[f]
  BY <1>2, <1>3 DEF TipoTabla
<1>7. calcular_posicion(q, r) \in Frames
  BY PosicionEsFrame
<1>8. \A j \in 1 .. Len(Lista(q, r)) : tabla'[Lista(q, r)[j]] = tabla[Lista(q, r)[j]]
  <2>1. \A j \in 1 .. Len(Lista(q, r)) :
           Lista(q, r)[j] \in Frames /\ tabla[Lista(q, r)[j]].pid >= 0
    BY <1>7, ListaDeFrames DEF Lista
  <2> QED
    BY <2>1, <1>2, <1>6
<1>9. /\ Len(Lista(q, r)) \in Nat
      /\ \A j \in 1 .. Len(Lista(q, r)) :
           j \in 1 .. Len(Lista(q, r)') /\ Lista(q, r)'[j] = Lista(q, r)[j]
      /\ \A j \in 1 .. Len(Lista(q, r)') :
           \/ j \in 1 .. Len(Lista(q, r))
           \/ j = Len(Lista(q, r)) + 1 /\ Lista(q, r)'[j] = frame
  <2>0. /\ Len(Lista(q, r)) \in Nat
        /\ Lista(q, r)' = indice'[calcular_posicion(q, r)]
    BY BuscarCasos DEF Lista, calcular_posicion
  <2>1. CASE calcular_posicion(q, r) = pos
    <3>1. Lista(q, r)' = Append(indice[pos], frame) /\ Lista(q, r) = indice[pos]
      BY <2>0, <2>1, <1>3, <1>7 DEF TipoTabla, Lista
    <3> QED
      BY <3>1, <1>4, <1>5
  <2>2. CASE calcular_posicion(q, r) # pos
    <3>1. Lista(q, r)' = Lista(q, r)
      BY <2>0, <2>2, <1>3, <1>7 DEF TipoTabla, Lista
    <3> QED
      BY <3>1, <2>0
  <2> QED
    BY <2>1, <2>2
<1>10. CASE NoEsta(q, r)
  <2>1. ~(q = pid /\ r = pagina)
    <3>1. buscar_en_indice(q, r) = -1
      BY <1>10, BuscarNada
    <3>2. ~Tiene(pid, pagina) <=> buscar_en_indice(pid, pagina) = -1
      BY BuscarEncuentra
    <3> QED
      BY <3>1, <3>2
  <2>2. tabla'[frame] # [pid |-> q, pagina |-> r]
    BY <2>1, <1>6
  <2>3. NoEsta(q, r)'
    BY <2>2, <1>8, <1>9, <1>10 DEF NoEsta
  <2> QED
    BY <2>3, <1>10, BuscarNadaDespues, BuscarNada
<1>11. CASE ~NoEsta(q, r)
  <2>1. PICK k \in Nat : EsElPrimero(q, r, k) /\ buscar_en_indice(q, r) = Lista(q, r)[k]
    BY <1>11, BuscarCasos
  <2>2. k \in 1 .. Len(Lista(q, r)) /\ k \in 1 .. Len(Lista(q, r)')
    BY <2>1, <1>9 DEF EsElPrimero
  <2>3. \A j \in 1 .. Len(Lista(q, r)') : j < k => j \in 1 .. Len(Lista(q, r))
    BY <2>2, <1>9
  <2>4. tabla'[Lista(q, r)'[k]] = [pid |-> q, pagina |-> r]
    BY <2>1, <2>2, <1>8, <1>9 DEF EsElPrimero
  <2>5. EsElPrimero(q, r, k)'
    BY <2>1, <2>2, <2>3, <2>4, <1>8, <1>9 DEF EsElPrimero
  <2>6. buscar_en_indice(q, r)' = Lista(q, r)'[k]
    BY <2>5, BuscarPrimeroDespues
  <2> QED
    BY <2>1, <2>2, <2>6, <1>9
<1> QED
  BY <1>10, <1>11


\* Giving a frame back changes no lookup but that of its page: the rest of the list
\* keeps its order.
LEMMA BuscarTrasLiberar ==
  ASSUME TipoTabla, TipoTabla', IndiceCoherente, NEW frame \in Frames,
         tabla[frame].pid >= 0, LiberarMarco(frame), NEW q \in Int, NEW r \in Int,
         q >= 0, tabla[frame] # [pid |-> q, pagina |-> r]
  PROVE  buscar_en_indice(q, r)' = buscar_en_indice(q, r)
<1> DEFINE pos == calcular_posicion(tabla[frame].pid, tabla[frame].pagina)
           lista == indice[pos]
           b == borrar_de_indice(lista, frame)
<1>1. pos \in Frames /\ pos = De(frame)
  BY PosicionEsFrame DEF TipoTabla, De
<1>2. /\ tabla' = [tabla EXCEPT ![frame] = EntradaLibre]
      /\ indice' = [indice EXCEPT ![pos] = b]
  BY DEF LiberarMarco
<1>3. lista \in Seq(Frames) /\ Len(lista) \in Nat
  BY <1>1, LenProperties DEF TipoTabla
<1> HIDE DEF pos, b
<1>4. PICK m \in 1 .. Len(lista) : lista[m] = frame
  BY <1>1 DEF IndiceCoherente
<1>5. \A i \in 1 .. Len(lista) : lista[i] = frame => i = m
  BY <1>1, <1>4 DEF IndiceCoherente
<1>6. /\ Len(b) = Len(lista) - 1
      /\ \A i \in 1 .. Len(b) : b[i] = IF i < m THEN lista[i] ELSE lista[i + 1]
  <2>1. \A i \in 1 .. Len(lista) : lista[i] = lista[m] => i = m
    BY <1>4, <1>5
  <2>2. b = borrar_de_indice(lista, lista[m])
    BY <1>4 DEF b
  <2> HIDE DEF lista
  <2> QED
    BY <2>1, <2>2, <1>3, BorrarCorre
<1>7. /\ tabla'[frame] = EntradaLibre
      /\ \A f \in Frames : f # frame => tabla'[f] = tabla[f]
  BY <1>2 DEF TipoTabla
<1>8. EntradaLibre # [pid |-> q, pagina |-> r]
  BY DEF EntradaLibre, LIBRE
<1>9. calcular_posicion(q, r) \in Frames /\ Len(Lista(q, r)) \in Nat
  BY PosicionEsFrame, BuscarCasos
<1>10. \A j \in 1 .. Len(Lista(q, r)) :
         tabla'[Lista(q, r)[j]] = [pid |-> q, pagina |-> r]
           <=> tabla[Lista(q, r)[j]] = [pid |-> q, pagina |-> r]
  <2>1. \A j \in 1 .. Len(Lista(q, r)) : Lista(q, r)[j] \in Frames
    BY <1>9, ListaDeFrames DEF Lista
  <2> QED
    BY <2>1, <1>7, <1>8
<1>11. Lista(q, r)' = indice'[calcular_posicion(q, r)]
  BY DEF Lista, calcular_posicion
<1>12. CASE calcular_posicion(q, r) # pos
  <2>1. Lista(q, r)' = Lista(q, r)
    BY <1>2, <1>9, <1>11, <1>12 DEF TipoTabla, Lista
  <2>2. CASE NoEsta(q, r)
    <3>1. NoEsta(q, r)'
      BY <2>1, <2>2, <1>10 DEF NoEsta
    <3> QED
      BY <3>1, <2>2, BuscarNada, BuscarNadaDespues
  <2>3. CASE ~NoEsta(q, r)
    <3>1. PICK k \in Nat : EsElPrimero(q, r, k) /\ buscar_en_indice(q, r) = Lista(q, r)[k]
      BY <2>3, BuscarCasos
    <3>2. EsElPrimero(q, r, k)'
      BY <2>1, <3>1, <1>10 DEF EsElPrimero
    <3>3. buscar_en_indice(q, r)' = Lista(q, r)'[k]
      BY <3>2, BuscarPrimeroDespues
    <3> QED
      BY <3>1, <3>3, <2>1
  <2> QED
    BY <2>2, <2>3
<1>13. CASE calcular_posicion(q, r) = pos
  <2>1. Lista(q, r)' = b /\ Lista(q, r) = lista
    BY <1>1, <1>2, <1>11, <1>13 DEF TipoTabla, Lista
  <2> HIDE DEF lista
  <2> DEFINE Antes(j) == IF j < m THEN j ELSE j + 1
  <2>2. \A j \in 1 .. Len(b) :
           /\ Antes(j) \in 1 .. Len(lista) /\ Antes(j) # m /\ b[j] = lista[Antes(j)]
           /\ \A i \in 1 .. Len(b) : i < j => Antes(i) < Antes(j)
    BY <1>3, <1>4, <1>6
  <2>3. \A i \in 1 .. Len(lista) : i # m => \E j \in 1 .. Len(b) : Antes(j) = i
    <3> SUFFICES ASSUME NEW i \in 1 .. Len(lista), i # m
                 PROVE  \E j \in 1 .. Len(b) : Antes(j) = i
      OBVIOUS
    <3>1. CASE i < m
      BY <3>1, <1>3, <1>4, <1>6
    <3>2. CASE i > m
      <4>1. i - 1 \in 1 .. Len(b) /\ Antes(i - 1) = i
        BY <3>2, <1>3, <1>4, <1>6
      <4> QED
        BY <4>1
    <3> QED
      BY <3>1, <3>2, <1>3, <1>4
  <2> HIDE DEF Antes
  <2>4. \A j \in 1 .. Len(b) : tabla'[b[j]] = [pid |-> q, pagina |-> r]
            <=> tabla[lista[Antes(j)]] = [pid |-> q, pagina |-> r]
    BY <2>1, <2>2, <1>10
  <2>5. tabla[lista[m]] # [pid |-> q, pagina |-> r]
    BY <1>4
  <2>6. CASE NoEsta(q, r)
    <3>1. NoEsta(q, r)'
      BY <2>1, <2>2, <2>4, <2>6 DEF NoEsta
    <3> QED
      BY <3>1, <2>6, BuscarNada, BuscarNadaDespues
  <2>7. CASE ~NoEsta(q, r)
    <3>1. PICK k \in Nat : EsElPrimero(q, r, k) /\ buscar_en_indice(q, r) = Lista(q, r)[k]
      BY <2>7, BuscarCasos
    <3>2. k \in 1 .. Len(lista) /\ k # m
      BY <2>1, <2>5, <3>1 DEF EsElPrimero
    <3>3. PICK j \in 1 .. Len(b) : Antes(j) = k
      BY <2>3, <3>2
    <3>4. \A i \in 1 .. Len(b) : i < j => tabla'[b[i]] # [pid |-> q, pagina |-> r]
      BY <2>1, <2>2, <2>4, <3>1, <3>3 DEF EsElPrimero
    <3>5. tabla'[b[j]] = [pid |-> q, pagina |-> r]
      BY <2>1, <2>4, <3>1, <3>3 DEF EsElPrimero
    <3>6. EsElPrimero(q, r, j)'
      BY <2>1, <3>4, <3>5 DEF EsElPrimero
    <3>7. buscar_en_indice(q, r)' = Lista(q, r)'[j]
      BY <3>6, BuscarPrimeroDespues
    <3> QED
      BY <2>1, <2>2, <3>1, <3>3, <3>7
  <2> QED
    BY <2>6, <2>7
<1> QED
  BY <1>12, <1>13

-----------------------------------------------------------------------------
(* What reads and writes leave in the cache *)

\* buscar_entrada returns an entry of the page when there is one.
LEMMA EntradaEsta ==
  ASSUME NEW pid, NEW pagina, esta_en_cache(pid, pagina)
  PROVE  buscar_entrada(pid, pagina) \in EnCache(pid, pagina)
<1> DEFINE S == EnCache(pid, pagina)
           faltan == {Entradas - i : i \in S}
<1>1. S # {} /\ \A i \in S : i \in 0 .. Entradas - 1
  BY DEF EnCache, Slots, esta_en_cache
<1>2. Entradas \in Nat
  BY MemoriaAssumption
<1> HIDE DEF S
<1>3. faltan \in SUBSET Nat /\ faltan # {}
  BY <1>1, <1>2
<1>4. Minimo(faltan) \in faltan /\ \A y \in faltan : Minimo(faltan) <= y
  BY <1>3, MinimoEsta
<1>5. PICK k \in S : Minimo(faltan) = Entradas - k
  BY <1>4
<1>6. \A i \in S : k >= i
  <2> SUFFICES ASSUME NEW i \in S PROVE k >= i
    OBVIOUS
  <2>1. Entradas - k <= Entradas - i
    BY <1>4, <1>5
  <2> QED
    BY <2>1, <1>1, <1>2
<1>7. Maximo(S) \in S
  BY <1>6 DEF Maximo
<1> QED
  BY <1>7 DEF buscar_entrada, S

\* The entry of a page
Entrada(pid, pagina, datos) == [pid |-> pid, pagina |-> pagina, contenido |-> datos]

\* insertar_entrada overwrites one entry with the page, or none where there is no cache.
LEMMA InsertarDeja ==
  ASSUME TypeOK, NEW pid, NEW pagina, NEW datos, insertar_entrada(pid, pagina, datos)
  PROVE  \E aux \in Int : \A j \in Slots :
           cache'[j] = IF j = aux THEN Entrada(pid, pagina, datos) ELSE cache[j]
<1>1. CASE Entradas > 0 /\ CacheXProc > 0
  <2>1. PICK aux \in EntradaElegida(aumentar_referencias, pid) :
          cache' = [cache EXCEPT ![aux] = Entrada(pid, pagina, datos)]
    BY <1>1 DEF insertar_entrada, Entrada
  <2>2. \A j \in Slots :
          cache'[j] = IF j = aux THEN Entrada(pid, pagina, datos) ELSE cache[j]
    BY <2>1 DEF TypeOK, TipoPaginas
  <2>3. CASE aux \in Slots
    BY <2>2, <2>3 DEF Slots
  <2>4. CASE aux \notin Slots
    <3>1. \A j \in Slots : j # aux /\ j # -1
      BY <2>4 DEF Slots
    <3>2. \A j \in Slots :
            cache'[j] = IF j = -1 THEN Entrada(pid, pagina, datos) ELSE cache[j]
      BY <2>2, <3>1
    <3> QED
      BY <3>2
  <2> QED
    BY <2>3, <2>4
<1>2. CASE ~(Entradas > 0 /\ CacheXProc > 0)
  <2>1. cache' = cache
    BY <1>2 DEF insertar_entrada
  <2>2. \A j \in Slots : j # -1
    BY DEF Slots
  <2>3. \A j \in Slots :
          cache'[j] = IF j = -1 THEN Entrada(pid, pagina, datos) ELSE cache[j]
    BY <2>1, <2>2
  <2> QED
    BY <2>3
<1> QED
  BY <1>1, <1>2

\* The frame of a page takes new words, and so does what is cached of it; a page that
\* was not cached takes one entry.
Escrito(pid, pagina, nueva) ==
  /\ memoria' = [memoria EXCEPT ![buscar_en_indice(pid, pagina)] = nueva]
  /\ \A j \in Slots :
       \/ /\ ~(cache[j].pid = pid /\ cache[j].pagina = pagina)
          /\ cache'[j] = cache[j]
       \/ /\ cache'[j].pid = pid /\ cache'[j].pagina = pagina
          /\ \/ cache'[j].contenido = nueva
             \/ /\ esta_en_cache(pid, pagina)
                /\ \/ cache[j].contenido # memoria[buscar_en_indice(pid, pagina)]
                   \/ \E i \in EnCache(pid, pagina) : i # j
  /\ esta_en_cache(pid, pagina) =>
       \A j \in Slots : /\ cache'[j].pid = cache[j].pid
                        /\ cache'[j].pagina = cache[j].pagina
  /\ ~esta_en_cache(pid, pagina) =>
       \E aux \in Int : \A j \in Slots :
         cache'[j] = IF j = aux THEN Entrada(pid, pagina, nueva) ELSE cache[j]

\* escritura writes the frame, and the entry that buscar_entrada finds: all that is
\* cached of the page when it is cached once, and was what the frame held.
LEMMA EscrituraDeja ==
  ASSUME TypeOK, NEW pid \in Nat, NEW pagina \in Int, NEW offset, NEW v,
         escritura(pid, pagina, offset, v)
  PROVE  /\ Escrito(pid, pagina, ConPalabras(memoria[buscar_en_indice(pid, pagina)], offset, v))
         /\ \A j \in Slots : \/ cache'[j] = cache[j]
                             \/ (cache'[j].pid = pid /\ cache'[j].pagina = pagina)
<1> DEFINE frame == buscar_en_indice(pid, pagina)
           nueva == ConPalabras(memoria[frame], offset, v)
           i     == buscar_entrada(pid, pagina)
<1>1. memoria' = [memoria EXCEPT ![frame] = nueva]
  BY DEF escritura
<1>2. CASE esta_en_cache(pid, pagina)
  <2>1. cache' = [cache EXCEPT ![i].contenido = ConPalabras(cache[i].contenido, offset, v)]
    BY <1>2 DEF escritura
  <2>2. i \in EnCache(pid, pagina)
    BY <1>2, EntradaEsta
  <2>3. i \in Slots /\ cache[i].pid = pid /\ cache[i].pagina = pagina
    BY <2>2 DEF EnCache
  <2>4. cache[i].contenido = memoria[frame] => ConPalabras(cache[i].contenido, offset, v) = nueva
    OBVIOUS
  <2> HIDE DEF i, frame, nueva
  <2>5. \A j \in Slots :
          cache'[j] = IF j = i
                      THEN [cache[i] EXCEPT !.contenido = ConPalabras(cache[i].contenido, offset, v)]
                      ELSE cache[j]
    BY <2>1 DEF TypeOK, TipoPaginas
  <2>6. cache[i] \in [pid : Int, pagina : Int, contenido : Pagina]
    BY <2>3 DEF TypeOK, TipoPaginas
  <2>7. /\ cache'[i].pid = pid /\ cache'[i].pagina = pagina
        /\ cache'[i].contenido = ConPalabras(cache[i].contenido, offset, v)
    BY <2>3, <2>5, <2>6
  <2>8. \A j \in Slots : j # i => cache'[j] = cache[j]
    BY <2>5
  <2>9. \A j \in Slots :
          \/ /\ ~(cache[j].pid = pid /\ cache[j].pagina = pagina)
             /\ cache'[j] = cache[j]
          \/ /\ cache'[j].pid = pid /\ cache'[j].pagina = pagina
             /\ \/ cache'[j].contenido = nueva
                \/ /\ esta_en_cache(pid, pagina)
                   /\ \/ cache[j].contenido # memoria[frame]
                      \/ \E k \in EnCache(pid, pagina) : k # j
    BY <1>2, <2>2, <2>4, <2>7, <2>8
  <2>10. \A j \in Slots : cache'[j].pid = cache[j].pid /\ cache'[j].pagina = cache[j].pagina
    BY <2>3, <2>7, <2>8
  <2>11. Escrito(pid, pagina, nueva)
    BY <1>1, <1>2, <2>9, <2>10 DEF frame, Escrito
  <2> QED
    BY <2>9, <2>11 DEF frame, nueva
<1>3. CASE ~esta_en_cache(pid, pagina)
  <2>1. insertar_entrada(pid, pagina, nueva)
    BY <1>3 DEF escritura
  <2> HIDE DEF nueva
  <2>2. PICK aux \in Int : \A j \in Slots :
          cache'[j] = IF j = aux THEN Entrada(pid, pagina, nueva) ELSE cache[j]
    BY <2>1, InsertarDeja
  <2>3. \A j \in Slots : ~(cache[j].pid = pid /\ cache[j].pagina = pagina)
    BY <1>3 DEF esta_en_cache, EnCache
  <2>4. \A j \in Slots :
          \/ /\ ~(cache[j].pid = pid /\ cache[j].pagina = pagina)
             /\ cache'[j] = cache[j]
          \/ /\ cache'[j].pid = pid /\ cache'[j].pagina = pagina
             /\ cache'[j].contenido = nueva
    BY <2>2, <2>3 DEF Entrada
  <2>5. Escrito(pid, pagina, nueva)
    BY <1>1, <1>3, <2>2, <2>4 DEF frame, Escrito
  <2> QED
    BY <2>4, <2>5 DEF frame, nueva
<1> QED
  BY <1>2, <1>3

-----------------------------------------------------------------------------
(* The threads and their requests *)

\* A thread outside its section has no request; inside, the request is of the kind its
\* place says and of a process that the Kernel has sent.  Only the Kernel's thread
\* loads and ends processes.
HilosAcordes ==
  \A t \in Hilos :
    /\ t \notin EnSeccion => pedido[t] = SinPedido
    /\ t \in EnSeccion => pedido[t].pid \in Creados
    /\ pc[t] = "lectura" => pedido[t].op \in {"leer", "obtener"}
    /\ pc[t] = "escritura" => pedido[t].op = "guardar"
    /\ pc[t] \in {"ubicar", "cargar"} => t = Kernel /\ pedido[t] = carga[pedido[t].pid]
    /\ pc[t] = "finalizar" => t = Kernel /\ pedido[t].op = "eliminar"

\* A process is in one request at a time, that of its end apart: its CPU waits while
\* the Kernel serves it, but the Kernel's console does not wait for its CPU.
UnoPorProceso ==
  \A t, u \in EnSeccion :
    pedido[t].pid = pedido[u].pid => t = u \/ pc[t] = "finalizar" \/ pc[u] = "finalizar"

\* What the Kernel sent is a NUEVO_PROCESO of that process.
CargasBien ==
  \A pid \in Creados :
    /\ carga[pid].op = "nuevo" /\ carga[pid].pid = pid
    /\ carga[pid].pag \in Stacks /\ carga[pid].largo \in Scripts

HilosBien == HilosAcordes /\ UnoPorProceso /\ CargasBien

\* Sending a process does not touch those sent before.
SoloAgrega == Creados \subseteq Creados' /\ \A q \in Creados : carga'[q] = carga[q]

\* The thread that takes a request
LEMMA AtenderHilos ==
  ASSUME TypeOK, HilosBien, SoloAgrega, NEW t \in Hilos, NEW p \in Pedido, NEW donde,
         Atender(t, p, donde),
         \/ donde = "recv"
         \/ donde = "lectura" /\ p.op \in {"leer", "obtener"}
         \/ donde = "escritura" /\ p.op = "guardar"
         \/ donde = "ubicar" /\ t = Kernel /\ p = carga'[p.pid]
         \/ donde = "finalizar" /\ t = Kernel /\ p.op = "eliminar",
         donde # "recv" => p.pid \in Creados',
         donde \notin {"recv", "finalizar"} =>
           \A u \in EnSeccion : pedido[u].pid = p.pid => pc[u] = "finalizar"
  PROVE  HilosAcordes' /\ UnoPorProceso'
<1>1. /\ pc[t] = "recv" /\ pc \in [Hilos -> Lugares]
      /\ pc' = [pc EXCEPT ![t] = donde]
      /\ pedido' = [pedido EXCEPT ![t] = IF donde = "recv" THEN SinPedido ELSE p]
  BY DEF Atender, Ir, TypeOK, TipoHilos
<1>2. /\ \A u \in Hilos : u # t => pc'[u] = pc[u] /\ pedido'[u] = pedido[u]
      /\ pc'[t] = donde /\ pedido'[t] = IF donde = "recv" THEN SinPedido ELSE p
  BY <1>1 DEF TypeOK, TipoHilos
<1>3. EnSeccion' = IF donde = "recv" THEN EnSeccion ELSE EnSeccion \cup {t}
  BY <1>1, <1>2 DEF EnSeccion
<1>4. t \notin EnSeccion
  BY <1>1 DEF EnSeccion
<1>5. HilosAcordes'
  <2>1. ASSUME NEW u \in Hilos, u # t
        PROVE  /\ u \notin EnSeccion' => pedido'[u] = SinPedido
               /\ u \in EnSeccion' => pedido'[u].pid \in Creados'
               /\ pc'[u] = "lectura" => pedido'[u].op \in {"leer", "obtener"}
               /\ pc'[u] = "escritura" => pedido'[u].op = "guardar"
               /\ pc'[u] \in {"ubicar", "cargar"} =>
                    u = Kernel /\ pedido'[u] = carga'[pedido'[u].pid]
               /\ pc'[u] = "finalizar" => u = Kernel /\ pedido'[u].op = "eliminar"
    <3>1. u \in EnSeccion' <=> u \in EnSeccion
      BY <2>1, <1>3
    <3>2. pc[u] \in {"ubicar", "cargar"} => u \in EnSeccion
      BY DEF EnSeccion
    <3> QED
      BY <2>1, <3>1, <3>2, <1>2 DEF HilosBien, HilosAcordes, SoloAgrega
  <2>2. /\ t \notin EnSeccion' => pedido'[t] = SinPedido
        /\ t \in EnSeccion' => pedido'[t].pid \in Creados'
        /\ pc'[t] = "lectura" => pedido'[t].op \in {"leer", "obtener"}
        /\ pc'[t] = "escritura" => pedido'[t].op = "guardar"
        /\ pc'[t] \in {"ubicar", "cargar"} =>
             t = Kernel /\ pedido'[t] = carga'[pedido'[t].pid]
        /\ pc'[t] = "finalizar" => t = Kernel /\ pedido'[t].op = "eliminar"
    BY <1>2, <1>3, <1>4
  <2> QED
    BY <2>1, <2>2 DEF HilosAcordes
<1>6. UnoPorProceso'
  <2> SUFFICES ASSUME NEW u \in EnSeccion', NEW w \in EnSeccion',
                      pedido'[u].pid = pedido'[w].pid, u # w
               PROVE  pc'[u] = "finalizar" \/ pc'[w] = "finalizar"
    BY DEF UnoPorProceso
  <2>0. u \in Hilos /\ w \in Hilos
    BY DEF EnSeccion
  <2>1. CASE u # t /\ w # t
    BY <2>0, <2>1, <1>2, <1>3 DEF HilosBien, UnoPorProceso
  <2>2. CASE u = t
    <3>1. donde # "recv" /\ w \in EnSeccion /\ w # t
      BY <2>2, <1>3, <1>4
    <3> QED
      BY <2>0, <2>2, <3>1, <1>2
  <2>3. CASE w = t
    <3>1. donde # "recv" /\ u \in EnSeccion /\ u # t
      BY <2>3, <1>3, <1>4
    <3> QED
      BY <2>0, <2>3, <3>1, <1>2
  <2> QED
    BY <2>1, <2>2, <2>3
<1> QED
  BY <1>5, <1>6

\* The thread that ends its request
LEMMA TerminarHilos ==
  ASSUME TypeOK, HilosBien, NEW t \in Hilos, Terminar(t), carga' = carga
  PROVE  HilosBien'
<1>1. /\ pc \in [Hilos -> Lugares]
      /\ \A u \in Hilos : u # t => pc'[u] = pc[u] /\ pedido'[u] = pedido[u]
      /\ pc'[t] = "recv" /\ pedido'[t] = SinPedido
  BY DEF Terminar, Ir, TypeOK, TipoHilos
<1>2. EnSeccion' = EnSeccion \ {t} /\ Creados' = Creados
  BY <1>1 DEF EnSeccion, Creados
<1>3. CargasBien'
  BY <1>2 DEF HilosBien, CargasBien
<1>4. HilosAcordes'
  BY <1>1, <1>2 DEF HilosBien, HilosAcordes
<1>5. UnoPorProceso'
  BY <1>1, <1>2 DEF HilosBien, UnoPorProceso, EnSeccion
<1> QED
  BY <1>3, <1>4, <1>5 DEF HilosBien

\* Steps after which every thread has the request it had, and is where it was or as far
LEMMA QuietosHilos ==
  ASSUME HilosBien, pedido' = pedido, carga' = carga,
         \A u \in Hilos : \/ pc'[u] = pc[u]
                          \/ u \notin EnSeccion /\ pc'[u] \in {"recv", "cerrado"}
                          \/ pc[u] = "ubicar" /\ pc'[u] = "cargar"
  PROVE  HilosBien'
<1>1. EnSeccion' = EnSeccion /\ Creados' = Creados
  BY DEF EnSeccion, Creados
<1>2. CargasBien'
  BY <1>1 DEF HilosBien, CargasBien
<1>3. HilosAcordes'
  BY <1>1 DEF HilosBien, HilosAcordes, EnSeccion
<1>4. UnoPorProceso'
  BY <1>1 DEF HilosBien, UnoPorProceso, EnSeccion
<1> QED
  BY <1>2, <1>3, <1>4 DEF HilosBien

\* The process of a request that may be sent is in none but that of its end.
LEMMA DisponibleSolo ==
  ASSUME TypeOK, HilosBien, NEW pid \in Disponibles
  PROVE  /\ pid \in Creados
         /\ \A u \in EnSeccion : pedido[u].pid = pid => pc[u] = "finalizar"
<1>1. pid \in Creados /\ \A u \in Hilos : pedido[u].pid = pid => pedido[u].op = "eliminar"
  BY DEF Disponibles
<1>2. SUFFICES ASSUME NEW u \in EnSeccion, pedido[u].op = "eliminar", pedido[u].pid = pid
               PROVE  pc[u] = "finalizar"
  BY <1>1 DEF EnSeccion
<1>3. u \in Hilos /\ pc[u] \in Lugares
  BY DEF EnSeccion, TypeOK, TipoHilos
<1>4. pc[u] \notin {"ubicar", "cargar"}
  BY <1>1, <1>2, <1>3 DEF HilosBien, HilosAcordes, CargasBien
<1> QED
  BY <1>2, <1>3, <1>4 DEF HilosBien, HilosAcordes, Lugares, EnSeccion

\* The requests, one by one
LEMMA PedidosHilos ==
  ASSUME TypeOK, HilosBien, NEW t \in Hilos, PedidoDeCpu(t)
  PROVE  HilosBien'
<1>1. SoloAgrega /\ CargasBien'
  BY DEF PedidoDeCpu, LeerEnCache, LeerSinCache, GuardarValor, SoloAgrega, Creados,
         HilosBien, CargasBien
<1>2. ASSUME NEW p \in Lecturas, LeerEnCache(t, p) \/ LeerSinCache(t, p) PROVE HilosBien'
  <2>1. p \in Pedido /\ p.pid \in Disponibles /\ p.op \in {"leer", "obtener"}
    BY TipoPedidos DEF Lecturas
  <2>2. Atender(t, p, "recv") \/ Atender(t, p, "lectura")
    BY <1>2 DEF LeerEnCache, LeerSinCache
  <2>3. p.pid \in Creados' /\ \A u \in EnSeccion : pedido[u].pid = p.pid => pc[u] = "finalizar"
    BY <2>1, <1>1, DisponibleSolo DEF SoloAgrega
  <2> QED
    BY <1>1, <2>1, <2>2, <2>3, AtenderHilos DEF HilosBien
<1>3. ASSUME NEW p \in Escrituras, GuardarValor(t, p) PROVE HilosBien'
  <2>1. p \in Pedido /\ p.pid \in Disponibles /\ p.op = "guardar"
    BY TipoPedidos DEF Escrituras
  <2>2. Atender(t, p, "escritura")
    BY <1>3 DEF GuardarValor
  <2>3. p.pid \in Creados' /\ \A u \in EnSeccion : pedido[u].pid = p.pid => pc[u] = "finalizar"
    BY <2>1, <1>1, DisponibleSolo DEF SoloAgrega
  <2> QED
    BY <1>1, <2>1, <2>2, <2>3, AtenderHilos DEF HilosBien
<1> QED
  BY <1>2, <1>3 DEF PedidoDeCpu

\* What the Kernel sends of a process is new.
LEMMA CargaNueva ==
  ASSUME TypeOK, HilosBien, NEW p \in Cargas, NEW t, NuevoProceso(t, p)
  PROVE  /\ p \in Pedido /\ p.pid \in Pids /\ p.pid \notin Creados
         /\ p.op = "nuevo" /\ p.pag \in Stacks /\ p.largo \in Scripts
         /\ SoloAgrega /\ CargasBien' /\ p.pid \in Creados' /\ carga'[p.pid] = p
         /\ Creados' = Creados \cup {p.pid}
         /\ \A u \in EnSeccion : pedido[u].pid # p.pid
<1>1. /\ p \in Pedido /\ p.pid \in Pids /\ p.pid \notin Creados
      /\ p.op = "nuevo" /\ p.pag \in Stacks /\ p.largo \in Scripts
  BY TipoPedidos DEF Cargas
<1>2. carga' = [carga EXCEPT ![p.pid] = p] /\ carga \in [Pids -> Pedido]
  BY DEF NuevoProceso, TypeOK
<1>3. carga'[p.pid] = p /\ \A q \in Pids : q # p.pid => carga'[q] = carga[q]
  BY <1>1, <1>2
<1>4. p # SinPedido
  BY <1>1 DEF SinPedido
<1>5. Creados' = Creados \cup {p.pid}
  BY <1>1, <1>3, <1>4 DEF Creados
<1>6. SoloAgrega
  BY <1>1, <1>3, <1>5 DEF SoloAgrega, Creados
<1>7. CargasBien'
  <2> SUFFICES ASSUME NEW q \in Creados'
               PROVE  /\ carga'[q].op = "nuevo" /\ carga'[q].pid = q
                      /\ carga'[q].pag \in Stacks /\ carga'[q].largo \in Scripts
    BY DEF CargasBien
  <2>1. CASE q = p.pid
    BY <2>1, <1>1, <1>3
  <2>2. CASE q \in Creados
    BY <2>2, <1>6 DEF SoloAgrega, HilosBien, CargasBien
  <2> QED
    BY <2>1, <2>2, <1>5
<1>8. \A u \in EnSeccion : pedido[u].pid # p.pid
  BY <1>1 DEF HilosBien, HilosAcordes, EnSeccion
<1> QED
  BY <1>1, <1>3, <1>5, <1>6, <1>7, <1>8

\* Every step keeps the threads and their requests in agreement.
LEMMA HilosSiguen == TypeOK /\ HilosBien /\ [Next]_vars => HilosBien'
<1> SUFFICES ASSUME TypeOK, HilosBien, [Next]_vars PROVE HilosBien'
  OBVIOUS
<1>0. Kernel \in Hilos
  BY MemoriaAssumption
<1>1. ASSUME carga' = carga PROVE SoloAgrega /\ CargasBien'
  BY <1>1 DEF SoloAgrega, Creados, HilosBien, CargasBien
<1>2. ASSUME NEW p \in Cargas, NuevoProceso(Kernel, p) PROVE HilosBien'
  <2>1. Atender(Kernel, p, "ubicar") \/ Atender(Kernel, p, "recv")
    BY <1>2 DEF NuevoProceso
  <2> QED
    BY <1>0, <1>2, <2>1, CargaNueva, AtenderHilos DEF HilosBien
<1>3. ASSUME NEW p \in Bajas, EliminarProceso(Kernel, p) PROVE HilosBien'
  <2>1. p \in Pedido /\ p.op = "eliminar" /\ p.pid \in Creados
    BY TipoPedidos DEF Bajas
  <2>2. Atender(Kernel, p, "finalizar") /\ carga' = carga
    BY <1>3 DEF EliminarProceso
  <2>3. SoloAgrega /\ CargasBien' /\ p.pid \in Creados'
    BY <1>1, <2>1, <2>2 DEF SoloAgrega
  <2> QED
    BY <1>0, <2>1, <2>2, <2>3, AtenderHilos DEF HilosBien
<1>4. ASSUME NEW p \in Pedido, SolicitarHeap(Kernel, p) \/ LiberarPagina(Kernel, p)
      PROVE  HilosBien'
  <2>1. Atender(Kernel, p, "recv") /\ carga' = carga
    BY <1>4 DEF SolicitarHeap, LiberarPagina
  <2> QED
    BY <1>0, <1>1, <2>1, AtenderHilos DEF HilosBien
<1>5. CASE PedidoDeKernel(Kernel)
  BY <1>0, <1>2, <1>3, <1>4, <1>5, PedidosHilos, TipoPedidos DEF PedidoDeKernel
<1>6. ASSUME NEW t \in Hilos, Paso(t) PROVE HilosBien'
  <2>1. CASE LeerTrasRetardo(t) \/ GuardarTrasRetardo(t) \/ FinalizarFin(t)
    <3>1. Terminar(t) /\ carga' = carga
      BY <2>1 DEF LeerTrasRetardo, GuardarTrasRetardo, FinalizarFin
    <3> QED
      BY <3>1, TerminarHilos
  <2>2. CASE UbicarTrasPedido(t)
    <3>1. pedido' = pedido /\ carga' = carga /\ pc[t] = "ubicar"
      BY <2>2 DEF UbicarTrasPedido
    <3>2. pc' = [pc EXCEPT ![t] = "cargar"] \/ pc' = [pc EXCEPT ![t] = "ubicar"]
      BY <2>2 DEF UbicarTrasPedido, Ir
    <3>3. \A u \in Hilos : pc'[u] = pc[u] \/ (pc[u] = "ubicar" /\ pc'[u] = "cargar")
      BY <3>1, <3>2 DEF TypeOK, TipoHilos
    <3> QED
      BY <3>1, <3>3, QuietosHilos
  <2>3. CASE CargarScript(t)
    <3>1. carga' = carga /\ (Terminar(t) \/ (pedido' = pedido /\ pc' = pc))
      <4>1. Terminar(t) \/ UNCHANGED <<mutex, pc, pedido>>
        BY <2>3, Zenon DEF CargarScript
      <4>2. UNCHANGED <<tabla, indice, carga>>
        BY <2>3, Zenon DEF CargarScript
      <4> QED
        BY <4>1, <4>2
    <3> QED
      BY <3>1, TerminarHilos, QuietosHilos
  <2>4. CASE FinalizarMarco(t)
    <3>1. pedido' = pedido /\ pc' = pc /\ carga' = carga
      BY <2>4 DEF FinalizarMarco
    <3> QED
      BY <3>1, QuietosHilos
  <2> QED
    BY <1>6, <2>1, <2>2, <2>3, <2>4 DEF Paso
<1>7. ASSUME NEW t \in Hilos, Desconectar(t) \/ Conectar(t) PROVE HilosBien'
  <2>1. /\ pedido' = pedido /\ carga' = carga /\ t \notin EnSeccion
        /\ \A u \in Hilos : pc'[u] = pc[u] \/ (u = t /\ pc'[u] \in {"recv", "cerrado"})
    BY <1>7 DEF Desconectar, Conectar, Ir, TypeOK, TipoHilos, EnSeccion
  <2> QED
    BY <2>1, QuietosHilos
<1>8. CASE flush \/ UNCHANGED vars
  <2>1. pedido' = pedido /\ pc' = pc /\ carga' = carga
    BY <1>8 DEF flush, vars
  <2> QED
    BY <2>1, QuietosHilos
<1> QED
  BY <1>0, <1>5, <1>6, <1>7, <1>8, PedidosHilos DEF Next

LEMMA HilosDesdeElInicio == Init => HilosBien
<1> SUFFICES ASSUME Init PROVE HilosBien
  OBVIOUS
<1>1. EnSeccion = {} /\ Creados = {}
  BY DEF Init, EnSeccion, Creados
<1> QED
  BY <1>1 DEF Init, HilosBien, HilosAcordes, UnoPorProceso, CargasBien, EnSeccion

\* A thread serves the kind of request its place says, of a process that was sent; and a
\* process is in one request at a time, that of its end apart.
THEOREM PedidosEnOrden == Spec => []HilosBien
BY HilosDesdeElInicio, HilosSiguen, TiposCorrectos, PTL DEF Spec

-----------------------------------------------------------------------------
(* The cache holds what the frames hold *)

EsDe(i, q, r) == cache[i].pid = q /\ cache[i].pagina = r

\* A process that is being ended, or has no frame (it has ended, or was refused)
Muriendo(q) == EnBaja(q) \/ MarcosDe(q) = {}

\* A page that may be asked for: it has a frame, or its process is being ended
Existe(q, r) == Tiene(q, r) \/ Muriendo(q)

\* The frames are of processes that the Kernel has sent.
Nacidos == \A f \in Frames : tabla[f].pid >= 0 => tabla[f].pid \in Creados

\* While a process is loaded its pages appear in order, and no more of them is cached
\* than what has been written.
CargaEnCurso ==
  \A p \in Pedido : pedido[Kernel] = p =>
    /\ pc[Kernel] = "ubicar" =>
         /\ vuelta[Kernel] < paginas_usadas(p) + p.pag
         /\ \A r \in Nat : r < vuelta[Kernel] => Tiene(p.pid, r)
         /\ \A i \in Slots : cache[i].pid # p.pid
    /\ pc[Kernel] = "cargar" =>
         /\ vuelta[Kernel] < paginas_usadas(p)
         /\ \A r \in Nat : r < paginas_usadas(p) + p.pag => Tiene(p.pid, r)
         /\ \A i \in Slots : cache[i].pid = p.pid => cache[i].pagina < vuelta[Kernel]

\* The page that a thread is going to read is not cached by the time it inserts it, but
\* for a read that crosses the end of a page of code; the one it is going to write
\* exists and is not of code.
Pendientes ==
  \A t \in Hilos, p \in Pedido : pedido[t] = p =>
    /\ pc[t] = "lectura" /\ p.ini + p.largo <= Tam => ~esta_en_cache(p.pid, p.pag)
    /\ pc[t] = "lectura" /\ p.ini + p.largo > Tam => p.pag + 1 < PaginasDeCodigo(p.pid)
    /\ pc[t] = "escritura" => p.pag >= PaginasDeCodigo(p.pid) /\ Existe(p.pid, p.pag)

\* Only pages of code, which are not written again, are cached twice.
SinRepetidas ==
  \A i, j \in Slots : \A q \in Nat, r \in Int :
    EsDe(i, q, r) /\ EsDe(j, q, r) => i = j \/ r + 1 < PaginasDeCodigo(q)

\* A page that is cached without a frame is of a process that is being ended or is dead.
ConMarco ==
  \A i \in Slots :
    /\ cache[i].pid # NADIE => cache[i].pid \in Creados
    /\ \A q \in Nat, r \in Int : EsDe(i, q, r) => Existe(q, r)

\* CacheFiel, page by page
Fiel ==
  \A i \in Slots : \A q \in Nat, r \in Int :
    EsDe(i, q, r) /\ ~EnBaja(q) /\ Tiene(q, r) =>
      cache[i].contenido = memoria[buscar_en_indice(q, r)]

CacheBien == Nacidos /\ CargaEnCurso /\ Pendientes /\ SinRepetidas /\ ConMarco /\ Fiel

Estado == TypeOK /\ IndiceCoherente /\ AdminAcorde /\ HilosBien

\* Only the Kernel's thread ends processes.
LEMMA BajaDelKernel ==
  HilosBien => \A q : EnBaja(q) <=> pc[Kernel] = "finalizar" /\ pedido[Kernel].pid = q
BY MemoriaAssumption DEF HilosBien, HilosAcordes, EnBaja

LEMMA BajaDelKernelDespues ==
  HilosBien' => \A q : EnBaja(q)' <=> pc'[Kernel] = "finalizar" /\ pedido'[Kernel].pid = q
<1>1. HilosBien' =>
        (\A q : EnBaja(q) <=> pc[Kernel] = "finalizar" /\ pedido[Kernel].pid = q)'
  BY BajaDelKernel, PTL
<1> QED
  BY <1>1

LEMMA BuscarEncuentraDespues ==
  TipoTabla' /\ IndiceCoherente' =>
    \A pid \in Nat, pagina \in Int :
      /\ Tiene(pid, pagina)' <=> buscar_en_indice(pid, pagina)' \in Frames
      /\ ~Tiene(pid, pagina)' <=> buscar_en_indice(pid, pagina)' = -1
      /\ Tiene(pid, pagina)' =>
           tabla'[buscar_en_indice(pid, pagina)'] = [pid |-> pid, pagina |-> pagina]
<1>1. TipoTabla /\ IndiceCoherente =>
        \A pid \in Nat, pagina \in Int :
          /\ Tiene(pid, pagina) <=> buscar_en_indice(pid, pagina) \in Frames
          /\ ~Tiene(pid, pagina) <=> buscar_en_indice(pid, pagina) = -1
          /\ Tiene(pid, pagina) =>
               tabla[buscar_en_indice(pid, pagina)] = [pid |-> pid, pagina |-> pagina]
  BY BuscarEncuentra
<1>2. TipoTabla' /\ IndiceCoherente' =>
       (\A pid \in Nat, pagina \in Int :
          /\ Tiene(pid, pagina) <=> buscar_en_indice(pid, pagina) \in Frames
          /\ ~Tiene(pid, pagina) <=> buscar_en_indice(pid, pagina) = -1
          /\ Tiene(pid, pagina) =>
               tabla[buscar_en_indice(pid, pagina)] = [pid |-> pid, pagina |-> pagina])'
  BY <1>1, PTL
<1> QED
  BY <1>2

\* Where table and index stay, lookups do.
LEMMA TablaIgual ==
  ASSUME tabla' = tabla, indice' = indice
  PROVE  \A q, r : /\ buscar_en_indice(q, r)' = buscar_en_indice(q, r)
                   /\ Tiene(q, r)' = Tiene(q, r)
                   /\ MarcosDe(q)' = MarcosDe(q)
<1>1. \A q, r : calcular_posicion(q, r)' = calcular_posicion(q, r)
  BY DEF calcular_posicion
<1> QED
  BY <1>1 DEF buscar_en_indice, Tiene, MarcosDe

\* ... and the pages of code of the processes that were sent.
LEMMA CodigoIgual ==
  ASSUME SoloAgrega
  PROVE  \A q \in Creados : PaginasDeCodigo(q)' = PaginasDeCodigo(q)
BY DEF SoloAgrega, PaginasDeCodigo, paginas_usadas

\* What is said page by page is CacheFiel.
LEMMA FielEsCacheFiel == Estado /\ CacheBien => CacheFiel
<1> SUFFICES ASSUME Estado, CacheBien, NEW i \in Slots,
                    cache[i].pid # NADIE, ~EnBaja(cache[i].pid),
                    buscar_en_indice(cache[i].pid, cache[i].pagina) >= 0
             PROVE  cache[i].contenido
                      = memoria[buscar_en_indice(cache[i].pid, cache[i].pagina)]
  BY DEF CacheFiel
<1>1. cache[i].pid \in Nat /\ cache[i].pagina \in Int
  BY MemoriaAssumption
  DEF CacheBien, ConMarco, Creados, Estado, TypeOK, TipoPaginas
<1>2. EsDe(i, cache[i].pid, cache[i].pagina)
  BY DEF EsDe
<1>3. ~Tiene(cache[i].pid, cache[i].pagina)
        <=> buscar_en_indice(cache[i].pid, cache[i].pagina) = -1
  BY <1>1, BuscarEncuentra DEF Estado, TypeOK
<1>4. Tiene(cache[i].pid, cache[i].pagina)
  BY <1>3
<1> QED
  BY <1>1, <1>2, <1>4 DEF CacheBien, Fiel

\* Where table and cache stay and no end of a process is over, nothing that exists is lost.
LEMMA NadaSePierde ==
  ASSUME tabla' = tabla, indice' = indice, \A q : EnBaja(q) => EnBaja(q)'
  PROVE  \A q, r : Existe(q, r) => Existe(q, r)'
BY TablaIgual DEF Existe, Muriendo

\* Division of a length by the size of a page
LEMMA Division ==
  ASSUME NEW x \in Nat, NEW T \in Nat \ {0}
  PROVE  /\ x \div T \in Nat /\ x % T \in 0 .. T - 1
         /\ x = (x \div T) * T + (x % T)
<1>1. x \div T \in Int /\ x = T * (x \div T) + (x % T) /\ x % T \in 0 .. T - 1
  OBVIOUS
<1> DEFINE q == x \div T
<1>2. q \in Int /\ T * q <= x /\ x < T * q + T /\ T * q = q * T
  BY <1>1
<1> HIDE DEF q
<1>3. q >= 0
  <2>1. SUFFICES ASSUME q <= -1 PROVE FALSE
    BY <1>2
  <2>2. T * q <= -T
    BY <2>1, <1>2
  <2> QED
    BY <2>2, <1>2
<1>4. q \in Nat /\ T * q = q * T
  BY <1>2, <1>3
<1> QED
  BY <1>1, <1>4 DEF q

\* A script takes at least a page.
LEMMA ScriptConPaginas ==
  ASSUME NEW p \in Pedido, p.largo \in Scripts
  PROVE  paginas_usadas(p) \in Nat \ {0}
<1> DEFINE d == p.largo \div Tam
           m == p.largo % Tam
<1>1. Tam \in Nat \ {0} /\ p.largo \in Nat \ {0}
  BY MemoriaAssumption
<1>2. d \in Nat /\ m \in 0 .. Tam - 1 /\ p.largo = d * Tam + m
  BY <1>1, Division
<1>3. paginas_usadas(p) = d + (IF m > 0 THEN 1 ELSE 0)
  BY DEF paginas_usadas
<1> HIDE DEF d, m
<1>4. d > 0 \/ m > 0
  <2>1. SUFFICES ASSUME d = 0, m = 0 PROVE FALSE
    BY <1>2
  <2>2. d * Tam = 0
    BY <2>1, <1>1
  <2> QED
    BY <2>1, <2>2, <1>1, <1>2
<1> QED
  BY <1>2, <1>3, <1>4

\* A request is taken, and nothing else happens.
LEMMA CacheAtender ==
  ASSUME Estado, CacheBien, HilosBien', SoloAgrega, NEW t \in Hilos, NEW p \in Pedido,
         NEW donde, Atender(t, p, donde),
         tabla' = tabla, indice' = indice, memoria' = memoria, cache' = cache,
         donde = "lectura" =>
           /\ p.pid \in Creados
           /\ p.ini + p.largo <= Tam => ~esta_en_cache(p.pid, p.pag)
           /\ p.ini + p.largo > Tam => p.pag + 1 < PaginasDeCodigo(p.pid),
         donde = "escritura" =>
           p.pid \in Creados /\ p.pag >= PaginasDeCodigo(p.pid) /\ Tiene(p.pid, p.pag),
         donde = "ubicar" =>
           p.pid \in Pids \ Creados /\ p.pag \in Stacks /\ p.largo \in Scripts,
         donde # "cargar"
  PROVE  CacheBien'
<1>1. /\ pc[t] = "recv" /\ pc \in [Hilos -> Lugares]
      /\ \A u \in Hilos : u # t =>
           pc'[u] = pc[u] /\ pedido'[u] = pedido[u] /\ vuelta'[u] = vuelta[u]
      /\ pc'[t] = donde /\ vuelta'[t] = 0
      /\ pedido'[t] = IF donde = "recv" THEN SinPedido ELSE p
  BY DEF Atender, Ir, Estado, TypeOK, TipoHilos
<1>2. \A q : EnBaja(q) => EnBaja(q)'
  BY <1>1 DEF EnBaja
<1>3. \A q, r : /\ Existe(q, r) => Existe(q, r)'
                /\ Tiene(q, r)' = Tiene(q, r)
                /\ buscar_en_indice(q, r)' = buscar_en_indice(q, r)
                /\ esta_en_cache(q, r)' = esta_en_cache(q, r)
  BY <1>2, NadaSePierde, TablaIgual DEF esta_en_cache, EnCache
<1>4. \A q \in Creados : q \in Creados' /\ PaginasDeCodigo(q)' = PaginasDeCodigo(q)
  BY CodigoIgual DEF SoloAgrega
<1>5. Nacidos'
  BY <1>4 DEF CacheBien, Nacidos
<1>6. CargaEnCurso'
  <2>1. CASE t = Kernel
    <3>1. CASE donde = "ubicar"
      <4>1. pedido'[Kernel] = p /\ pc'[Kernel] = "ubicar" /\ vuelta'[Kernel] = 0
        BY <1>1, <2>1, <3>1
      <4>2. 0 < paginas_usadas(p) + p.pag
        <5>1. paginas_usadas(p) \in Nat \ {0} /\ p.pag \in Nat
          BY <3>1, ScriptConPaginas, MemoriaAssumption
        <5> QED
          BY <5>1
      <4>3. \A i \in Slots : cache[i].pid # p.pid
        <5>1. p.pid \in Nat /\ p.pid \notin Creados
          BY <3>1, MemoriaAssumption
        <5> QED
          BY <5>1 DEF CacheBien, ConMarco, NADIE
      <4> QED
        BY <4>1, <4>2, <4>3 DEF CargaEnCurso, paginas_usadas
    <3>2. CASE donde # "ubicar"
      <4>1. pc'[Kernel] \notin {"ubicar", "cargar"}
        BY <1>1, <2>1, <3>2
      <4> QED
        BY <4>1 DEF CargaEnCurso
    <3> QED
      BY <3>1, <3>2
  <2>2. CASE t # Kernel
    <3>1. pc'[Kernel] = pc[Kernel] /\ pedido'[Kernel] = pedido[Kernel]
          /\ vuelta'[Kernel] = vuelta[Kernel]
      BY <1>1, <2>2, MemoriaAssumption
    <3> QED
      BY <3>1, <1>3 DEF CacheBien, CargaEnCurso, paginas_usadas
  <2> QED
    BY <2>1, <2>2
<1>7. Pendientes'
  <2> SUFFICES ASSUME NEW u \in Hilos, NEW x \in Pedido, pedido'[u] = x
               PROVE  /\ pc'[u] = "lectura" /\ x.ini + x.largo <= Tam => ~esta_en_cache(x.pid, x.pag)'
                      /\ pc'[u] = "lectura" /\ x.ini + x.largo > Tam =>
                           x.pag + 1 < PaginasDeCodigo(x.pid)'
                      /\ pc'[u] = "escritura" =>
                           x.pag >= PaginasDeCodigo(x.pid)' /\ Existe(x.pid, x.pag)'
    BY DEF Pendientes
  <2>1. CASE u = t
    <3>1. CASE donde = "lectura"
      BY <2>1, <3>1, <1>1, <1>3, <1>4
    <3>2. CASE donde = "escritura"
      BY <2>1, <3>2, <1>1, <1>3, <1>4 DEF Existe
    <3> QED
      BY <2>1, <3>1, <3>2, <1>1
  <2>2. CASE u # t
    <3>1. pc'[u] = pc[u] /\ pedido[u] = x
      BY <2>2, <1>1
    <3>2. pc[u] \in {"lectura", "escritura"} => x.pid \in Creados
      BY <3>1 DEF Estado, HilosBien, HilosAcordes, EnSeccion
    <3> QED
      BY <3>1, <3>2, <1>3, <1>4 DEF CacheBien, Pendientes
  <2> QED
    BY <2>1, <2>2
<1>8. SinRepetidas'
  <2> SUFFICES ASSUME NEW i \in Slots, NEW j \in Slots, NEW q \in Nat, NEW r \in Int,
                      EsDe(i, q, r), EsDe(j, q, r), i # j
               PROVE  r + 1 < PaginasDeCodigo(q)'
    BY DEF SinRepetidas, EsDe
  <2>1. q \in Creados
    BY DEF CacheBien, ConMarco, EsDe, NADIE
  <2> QED
    BY <2>1, <1>4 DEF CacheBien, SinRepetidas
<1>9. ConMarco'
  BY <1>3, <1>4 DEF CacheBien, ConMarco, EsDe
<1>10. Fiel'
  BY <1>2, <1>3 DEF CacheBien, Fiel, EsDe
<1> QED
  BY <1>5, <1>6, <1>7, <1>8, <1>9, <1>10 DEF CacheBien

\* Steps that change neither pages nor cache, and after which threads are where they
\* were or out of their section
LEMMA CacheQuieta ==
  ASSUME Estado, CacheBien,
         tabla' = tabla, indice' = indice, memoria' = memoria, cache' = cache, carga' = carga,
         \A u \in Hilos :
           \/ pc'[u] = pc[u] /\ pedido'[u] = pedido[u] /\ vuelta'[u] = vuelta[u]
           \/ pc[u] # "finalizar" /\ pc'[u] \in {"recv", "cerrado"}
  PROVE  CacheBien'
<1>2. \A q : EnBaja(q) => EnBaja(q)'
  BY DEF EnBaja
<1>3. \A q, r : /\ Existe(q, r) => Existe(q, r)'
                /\ Tiene(q, r)' = Tiene(q, r)
                /\ buscar_en_indice(q, r)' = buscar_en_indice(q, r)
                /\ esta_en_cache(q, r)' = esta_en_cache(q, r)
  BY <1>2, NadaSePierde, TablaIgual DEF esta_en_cache, EnCache
<1>4. /\ Creados' = Creados
      /\ \A q : PaginasDeCodigo(q)' = PaginasDeCodigo(q)
  BY DEF Creados, PaginasDeCodigo, paginas_usadas
<1>5. Nacidos'
  BY <1>4 DEF CacheBien, Nacidos
<1>6. CargaEnCurso'
  <2>1. \/ pc'[Kernel] = pc[Kernel] /\ pedido'[Kernel] = pedido[Kernel]
           /\ vuelta'[Kernel] = vuelta[Kernel]
        \/ pc'[Kernel] \in {"recv", "cerrado"}
    BY MemoriaAssumption
  <2> QED
    BY <2>1, <1>3 DEF CacheBien, CargaEnCurso, paginas_usadas
<1>7. Pendientes'
  <2> SUFFICES ASSUME NEW u \in Hilos, NEW x \in Pedido, pedido'[u] = x,
                      pc'[u] = pc[u], pedido'[u] = pedido[u]
               PROVE  /\ pc[u] = "lectura" /\ x.ini + x.largo <= Tam => ~esta_en_cache(x.pid, x.pag)'
                      /\ pc[u] = "lectura" /\ x.ini + x.largo > Tam =>
                           x.pag + 1 < PaginasDeCodigo(x.pid)'
                      /\ pc[u] = "escritura" =>
                           x.pag >= PaginasDeCodigo(x.pid)' /\ Existe(x.pid, x.pag)'
    BY DEF Pendientes
  <2> QED
    BY <1>3, <1>4 DEF CacheBien, Pendientes
<1>8. SinRepetidas'
  BY <1>4 DEF CacheBien, SinRepetidas, EsDe
<1>9. ConMarco'
  BY <1>3, <1>4 DEF CacheBien, ConMarco, EsDe
<1>10. Fiel'
  BY <1>2, <1>3 DEF CacheBien, Fiel, EsDe
<1> QED
  BY <1>5, <1>6, <1>7, <1>8, <1>9, <1>10 DEF CacheBien

\* A thread puts page r of the process of its request in the cache, or writes it there,
\* and then ends its request or goes on to the next page of the script.
LEMMA CachePone ==
  ASSUME Estado, CacheBien, NEW t \in Hilos, NEW p \in Pedido, NEW r \in Int,
         tabla' = tabla, indice' = indice, carga' = carga,
         pedido[t] = p, pc[t] \in {"lectura", "escritura", "cargar"},
         pc[t] = "cargar" => r = vuelta[t],
         \A u \in Hilos : u # t =>
           pc'[u] = pc[u] /\ pedido'[u] = pedido[u] /\ vuelta'[u] = vuelta[u],
         \/ pc'[t] = "recv"
         \/ /\ pc[t] = "cargar" /\ pc'[t] = "cargar" /\ pedido'[t] = p
            /\ vuelta'[t] = r + 1 /\ r + 1 < paginas_usadas(p),
         \A j \in Slots : \/ cache'[j] = cache[j]
                          \/ cache'[j].pid = p.pid /\ cache'[j].pagina = r,
         Existe(p.pid, r)
  PROVE  /\ Nacidos' /\ CargaEnCurso' /\ Pendientes' /\ ConMarco'
         /\ p.pid \in Creados /\ Creados' = Creados
         /\ \A q : PaginasDeCodigo(q)' = PaginasDeCodigo(q)
         /\ \A q : EnBaja(q)' = EnBaja(q)
<1>1. \A q : EnBaja(q)' <=> EnBaja(q)
  BY DEF EnBaja
<1>2. \A q, x : /\ Existe(q, x) => Existe(q, x)'
                /\ Tiene(q, x)' = Tiene(q, x)
  BY <1>1, NadaSePierde, TablaIgual
<1>3. /\ Creados' = Creados
      /\ \A q : PaginasDeCodigo(q)' = PaginasDeCodigo(q)
  BY DEF Creados, PaginasDeCodigo, paginas_usadas
<1>4. t \in EnSeccion /\ p.pid \in Creados
  BY DEF EnSeccion, Estado, HilosBien, HilosAcordes
<1>5. \A u \in Hilos : u # t /\ pc[u] \in {"lectura", "escritura", "ubicar", "cargar"} =>
        pedido[u].pid # p.pid
  BY <1>4 DEF EnSeccion, Estado, HilosBien, UnoPorProceso
<1>6. Nacidos'
  BY <1>3 DEF CacheBien, Nacidos
<1>7. CargaEnCurso'
  <2>0. Kernel \in Hilos
    BY MemoriaAssumption
  <2>1. CASE t # Kernel
    <3>1. /\ pc'[Kernel] = pc[Kernel] /\ pedido'[Kernel] = pedido[Kernel]
          /\ vuelta'[Kernel] = vuelta[Kernel]
      BY <2>0, <2>1
    <3>2. ASSUME pc[Kernel] \in {"ubicar", "cargar"}, NEW j \in Slots,
                 cache'[j].pid = pedido[Kernel].pid
          PROVE  cache'[j] = cache[j]
      BY <2>0, <2>1, <3>2, <1>5
    <3> QED
      BY <3>1, <3>2, <1>2 DEF CacheBien, CargaEnCurso, paginas_usadas
  <2>2. CASE t = Kernel /\ pc'[t] = "recv"
    BY <2>2 DEF CargaEnCurso
  <2>3. CASE t = Kernel /\ pc'[t] # "recv"
    <3>1. /\ pc[t] = "cargar" /\ pc'[Kernel] = "cargar" /\ pedido'[Kernel] = p
          /\ vuelta'[Kernel] = r + 1 /\ r + 1 < paginas_usadas(p)
      BY <2>3
    <3>2. \A x \in Nat : x < paginas_usadas(p) + p.pag => Tiene(p.pid, x)'
      BY <2>3, <3>1, <1>2 DEF CacheBien, CargaEnCurso
    <3>3. \A j \in Slots : cache'[j].pid = p.pid => cache'[j].pagina < r + 1
      <4> SUFFICES ASSUME NEW j \in Slots, cache'[j].pid = p.pid
                   PROVE  cache'[j].pagina < r + 1
        OBVIOUS
      <4>1. CASE cache'[j] = cache[j]
        <5>1. cache[j].pagina < r /\ cache[j].pagina \in Int
          BY <2>3, <3>1, <4>1
          DEF CacheBien, CargaEnCurso, Estado, TypeOK, TipoPaginas
        <5> QED
          BY <4>1, <5>1
      <4>2. CASE cache'[j].pagina = r
        BY <4>2
      <4> QED
        BY <4>1, <4>2
    <3> QED
      BY <3>1, <3>2, <3>3 DEF CargaEnCurso, paginas_usadas
  <2> QED
    BY <2>1, <2>2, <2>3
<1>8. Pendientes'
  <2> SUFFICES ASSUME NEW u \in Hilos, NEW x \in Pedido, pedido'[u] = x,
                      pc'[u] \in {"lectura", "escritura"}
               PROVE  /\ pc'[u] = "lectura" /\ x.ini + x.largo <= Tam => ~esta_en_cache(x.pid, x.pag)'
                      /\ pc'[u] = "lectura" /\ x.ini + x.largo > Tam =>
                           x.pag + 1 < PaginasDeCodigo(x.pid)'
                      /\ pc'[u] = "escritura" =>
                           x.pag >= PaginasDeCodigo(x.pid)' /\ Existe(x.pid, x.pag)'
    BY DEF Pendientes
  <2>1. u # t /\ pc'[u] = pc[u] /\ pedido[u] = x
    OBVIOUS
  <2>2. x.pid # p.pid
    BY <2>1, <1>5
  <2>3. esta_en_cache(x.pid, x.pag)' => esta_en_cache(x.pid, x.pag)
    BY <2>2 DEF esta_en_cache, EnCache
  <2> QED
    BY <2>1, <2>3, <1>2, <1>3 DEF CacheBien, Pendientes
<1>9. ConMarco'
  <2> SUFFICES ASSUME NEW j \in Slots
               PROVE  /\ cache'[j].pid # NADIE => cache'[j].pid \in Creados
                      /\ \A q \in Nat, x \in Int : EsDe(j, q, x)' => Existe(q, x)'
    BY <1>3 DEF ConMarco
  <2>1. CASE cache'[j] = cache[j]
    BY <2>1, <1>2 DEF CacheBien, ConMarco, EsDe
  <2>2. CASE cache'[j].pid = p.pid /\ cache'[j].pagina = r
    BY <2>2, <1>2, <1>4 DEF EsDe
  <2> QED
    BY <2>1, <2>2
<1> QED
  BY <1>1, <1>3, <1>4, <1>6, <1>7, <1>8, <1>9

\* LEER and OBTENER_VALOR put in the cache what the frame holds.
LEMMA CacheLeer ==
  ASSUME Estado, CacheBien, NEW t \in Hilos, LeerTrasRetardo(t)
  PROVE  CacheBien'
<1>1. PICK p \in Pedido : p = pedido[t]
  BY DEF Estado, TypeOK, TipoHilos
<1>2. /\ pc[t] = "lectura" /\ p.pid \in Nat /\ p.pag \in Int
      /\ tabla' = tabla /\ indice' = indice /\ memoria' = memoria /\ carga' = carga
      /\ Terminar(t)
  BY <1>1 DEF LeerTrasRetardo, Pedido
<1>3. /\ \A u \in Hilos : u # t =>
           pc'[u] = pc[u] /\ pedido'[u] = pedido[u] /\ vuelta'[u] = vuelta[u]
      /\ pc'[t] = "recv"
  BY <1>2 DEF Terminar, Ir, Estado, TypeOK, TipoHilos
<1>4. PICK frame : frame = buscar_en_indice(p.pid, p.pag)
  OBVIOUS
<1>5. CASE frame < 0
  <2>1. cache' = cache
    BY <1>1, <1>4, <1>5 DEF LeerTrasRetardo
  <2> QED
    BY <2>1, <1>2, <1>3, CacheQuieta
<1>6. CASE ~(frame < 0)
  <2>1. insertar_entrada(p.pid, p.pag, memoria[frame])
    BY <1>1, <1>4, <1>6 DEF LeerTrasRetardo
  <2>2. PICK aux \in Int : \A j \in Slots :
          cache'[j] = IF j = aux THEN Entrada(p.pid, p.pag, memoria[frame]) ELSE cache[j]
    BY <2>1, InsertarDeja DEF Estado
  <2>3. Tiene(p.pid, p.pag)
    <3>1. ~Tiene(p.pid, p.pag) <=> frame = -1
      BY <1>2, <1>4, BuscarEncuentra DEF Estado, TypeOK
    <3> QED
      BY <3>1, <1>6
  <2>4. \A j \in Slots : \/ cache'[j] = cache[j]
                         \/ cache'[j].pid = p.pid /\ cache'[j].pagina = p.pag
    BY <2>2 DEF Entrada
  <2>5. /\ Nacidos' /\ CargaEnCurso' /\ Pendientes' /\ ConMarco'
        /\ p.pid \in Creados
        /\ \A q : PaginasDeCodigo(q)' = PaginasDeCodigo(q)
        /\ \A q : EnBaja(q)' = EnBaja(q)
    BY <1>1, <1>2, <1>3, <2>3, <2>4, CachePone DEF Existe
  <2>6. SinRepetidas'
    <3> SUFFICES ASSUME NEW i \in Slots, NEW j \in Slots, NEW q \in Nat, NEW x \in Int,
                        EsDe(i, q, x)', EsDe(j, q, x)', i # j
                 PROVE  x + 1 < PaginasDeCodigo(q)
      BY <2>5 DEF SinRepetidas
    <3>1. CASE i # aux /\ j # aux
      BY <3>1, <2>2 DEF CacheBien, SinRepetidas, EsDe
    <3>2. CASE i = aux \/ j = aux
      <4>1. /\ q = p.pid /\ x = p.pag
            /\ \E k \in Slots : EsDe(k, q, x)
        BY <3>2, <2>2 DEF EsDe, Entrada
      <4>2. esta_en_cache(p.pid, p.pag)
        BY <4>1 DEF esta_en_cache, EnCache, EsDe
      <4>3. p.ini \in Int /\ p.largo \in Int /\ Tam \in Int
        BY MemoriaAssumption DEF Pedido
      <4>4. p.ini + p.largo <= Tam \/ p.ini + p.largo > Tam
        BY <4>3
      <4> QED
        BY <4>1, <4>2, <4>4, <1>1, <1>2 DEF CacheBien, Pendientes
    <3> QED
      BY <3>1, <3>2
  <2>7. Fiel'
    <3> SUFFICES ASSUME NEW j \in Slots, NEW q \in Nat, NEW x \in Int,
                        EsDe(j, q, x)', ~EnBaja(q), Tiene(q, x)
                 PROVE  cache'[j].contenido = memoria[buscar_en_indice(q, x)]
      BY <1>2, <2>5, TablaIgual DEF Fiel
    <3>1. CASE j = aux
      BY <3>1, <2>2, <1>4 DEF EsDe, Entrada
    <3>2. CASE j # aux
      BY <3>2, <2>2 DEF EsDe, CacheBien, Fiel
    <3> QED
      BY <3>1, <3>2
  <2> QED
    BY <2>5, <2>6, <2>7 DEF CacheBien
<1> QED
  BY <1>5, <1>6

\* A write leaves the same in the frame and in the cache, and no page twice.
LEMMA CacheEscribir ==
  ASSUME Estado, CacheBien, NEW pid \in Nat, NEW r \in Int, NEW offset, NEW v,
         escritura(pid, r, offset, v), tabla' = tabla, indice' = indice,
         \A q : PaginasDeCodigo(q)' = PaginasDeCodigo(q),
         \A q : EnBaja(q)' = EnBaja(q),
         esta_en_cache(pid, r) => ~(r + 1 < PaginasDeCodigo(pid))
  PROVE  /\ SinRepetidas' /\ Fiel'
         /\ \A j \in Slots : \/ cache'[j] = cache[j]
                             \/ (cache'[j].pid = pid /\ cache'[j].pagina = r)
<1>1. PICK frame : frame = buscar_en_indice(pid, r)
  OBVIOUS
<1>2. PICK nueva : Escrito(pid, r, nueva)
  BY EscrituraDeja DEF Estado
<1>3. SinRepetidas'
  <2> SUFFICES ASSUME NEW i \in Slots, NEW j \in Slots, NEW q \in Nat, NEW x \in Int,
                      EsDe(i, q, x)', EsDe(j, q, x)', i # j
               PROVE  x + 1 < PaginasDeCodigo(q)
    BY DEF SinRepetidas
  <2>1. CASE esta_en_cache(pid, r)
    <3>1. EsDe(i, q, x) /\ EsDe(j, q, x)
      BY <2>1, <1>2 DEF EsDe, Escrito
    <3> QED
      BY <3>1 DEF CacheBien, SinRepetidas
  <2>2. CASE ~esta_en_cache(pid, r)
    <3>1. PICK aux \in Int : \A k \in Slots :
            cache'[k] = IF k = aux THEN Entrada(pid, r, nueva) ELSE cache[k]
      BY <2>2, <1>2 DEF Escrito
    <3>2. \A k \in Slots : ~EsDe(k, pid, r)
      BY <2>2 DEF esta_en_cache, EnCache, EsDe
    <3>3. i # aux /\ j # aux
      BY <3>1, <3>2 DEF EsDe, Entrada
    <3> QED
      BY <3>1, <3>3 DEF CacheBien, SinRepetidas, EsDe
  <2> QED
    BY <2>1, <2>2
<1>4. Fiel'
  <2> SUFFICES ASSUME NEW j \in Slots, NEW q \in Nat, NEW x \in Int,
                      EsDe(j, q, x)', ~EnBaja(q), Tiene(q, x)
               PROVE  cache'[j].contenido = memoria'[buscar_en_indice(q, x)]
    BY TablaIgual DEF Fiel
  <2>0. \A f \in Frames : f \in Posiciones
    BY MemoriaAssumption DEF Frames, Posiciones
  <2>1. CASE q = pid /\ x = r
    <3>1. frame \in Frames /\ frame = buscar_en_indice(q, x)
      BY <2>1, <1>1, BuscarEncuentra DEF Estado, TypeOK
    <3>2. memoria'[frame] = nueva
      BY <3>1, <2>0, <1>1, <1>2 DEF Escrito, Estado, TypeOK, TipoPaginas
    <3>3. cache'[j].contenido = nueva
      <4>1. SUFFICES ASSUME cache'[j].contenido # nueva PROVE FALSE
        OBVIOUS
      <4>2. /\ esta_en_cache(pid, r)
            /\ \/ cache[j].contenido # memoria[frame]
               \/ \E i \in EnCache(pid, r) : i # j
        BY <4>1, <2>1, <1>1, <1>2 DEF EsDe, Escrito
      <4>3. EsDe(j, q, x)
        BY <4>2, <1>2 DEF EsDe, Escrito
      <4>4. cache[j].contenido = memoria[frame]
        BY <4>3, <3>1 DEF CacheBien, Fiel
      <4>5. PICK i \in Slots : EsDe(i, q, x) /\ i # j
        BY <4>2, <4>4, <2>1 DEF EnCache, EsDe
      <4> QED
        BY <4>2, <4>3, <4>5, <2>1 DEF CacheBien, SinRepetidas
    <3> QED
      BY <3>1, <3>2, <3>3
  <2>2. CASE ~(q = pid /\ x = r)
    <3>1. cache'[j] = cache[j]
      BY <2>2, <1>2 DEF EsDe, Escrito
    <3>2. cache[j].contenido = memoria[buscar_en_indice(q, x)]
      BY <3>1 DEF CacheBien, Fiel, EsDe
    <3>3. /\ buscar_en_indice(q, x) \in Frames
          /\ tabla[buscar_en_indice(q, x)] = [pid |-> q, pagina |-> x]
      BY BuscarEncuentra DEF Estado, TypeOK
    <3>4. frame = -1 \/ tabla[frame] = [pid |-> pid, pagina |-> r]
      BY <1>1, BuscarEncuentra DEF Estado, TypeOK
    <3>5. buscar_en_indice(q, x) # frame
      BY <2>2, <3>3, <3>4 DEF Frames
    <3>6. memoria'[buscar_en_indice(q, x)] = memoria[buscar_en_indice(q, x)]
      BY <3>3, <3>5, <2>0, <1>1, <1>2 DEF Escrito, Estado, TypeOK, TipoPaginas
    <3> QED
      BY <3>1, <3>2, <3>6
  <2> QED
    BY <2>1, <2>2
<1>5. \A j \in Slots : \/ cache'[j] = cache[j]
                      \/ (cache'[j].pid = pid /\ cache'[j].pagina = r)
  <2> DEFINE nueva2 == ConPalabras(memoria[buscar_en_indice(pid, r)], offset, v)
  <2>1. TypeOK
    BY DEF Estado
  <2>2. /\ Escrito(pid, r, nueva2)
        /\ \A j \in Slots : \/ cache'[j] = cache[j]
                            \/ (cache'[j].pid = pid /\ cache'[j].pagina = r)
    BY <2>1, EscrituraDeja
  <2> QED
    BY <2>2
<1> QED
  BY <1>3, <1>4, <1>5

\* The script and the stack of a process take at least a page each.
LEMMA PaginasDeCarga ==
  ASSUME TypeOK, HilosBien, NEW q \in Creados
  PROVE  /\ PaginasDeCodigo(q) \in Nat \ {0} /\ carga[q].pag \in Nat \ {0}
         /\ q \in Nat \ {0}
<1>1. /\ carga[q] \in Pedido /\ carga[q].largo \in Scripts /\ carga[q].pag \in Stacks
      /\ q \in Pids
  BY DEF TypeOK, HilosBien, CargasBien, Creados
<1> QED
  BY <1>1, ScriptConPaginas, MemoriaAssumption DEF PaginasDeCodigo

\* GUARDAR_VALOR
LEMMA CacheGuardar ==
  ASSUME Estado, CacheBien, NEW t \in Hilos, GuardarTrasRetardo(t)
  PROVE  CacheBien'
<1>1. PICK p \in Pedido : p = pedido[t]
  BY DEF Estado, TypeOK, TipoHilos
<1>2. /\ pc[t] = "escritura" /\ p.pid \in Nat /\ p.pag \in Int
      /\ tabla' = tabla /\ indice' = indice /\ carga' = carga
      /\ escritura(p.pid, p.pag, p.ini, <<p.val>>)
      /\ Terminar(t)
  BY <1>1 DEF GuardarTrasRetardo, Pedido
<1>3. /\ \A u \in Hilos : u # t =>
           pc'[u] = pc[u] /\ pedido'[u] = pedido[u] /\ vuelta'[u] = vuelta[u]
      /\ pc'[t] = "recv"
  BY <1>2 DEF Terminar, Ir, Estado, TypeOK, TipoHilos
<1>4. p.pag >= PaginasDeCodigo(p.pid) /\ Existe(p.pid, p.pag)
  BY <1>1, <1>2 DEF CacheBien, Pendientes
<1>5. \A j \in Slots : \/ cache'[j] = cache[j]
                      \/ (cache'[j].pid = p.pid /\ cache'[j].pagina = p.pag)
  BY <1>2, EscrituraDeja DEF Estado
<1>6. /\ Nacidos' /\ CargaEnCurso' /\ Pendientes' /\ ConMarco'
      /\ p.pid \in Creados
      /\ \A q : PaginasDeCodigo(q)' = PaginasDeCodigo(q)
      /\ \A q : EnBaja(q)' = EnBaja(q)
  BY <1>1, <1>2, <1>3, <1>4, <1>5, CachePone
<1>7. ~(p.pag + 1 < PaginasDeCodigo(p.pid))
  <2>1. PaginasDeCodigo(p.pid) \in Nat
    BY <1>6, PaginasDeCarga DEF Estado
  <2> QED
    BY <2>1, <1>2, <1>4
<1>8. SinRepetidas' /\ Fiel'
  BY <1>2, <1>6, <1>7, CacheEscribir
<1> QED
  BY <1>6, <1>8 DEF CacheBien

\* A turn of NUEVO_PROCESO's second loop
LEMMA CacheCargar ==
  ASSUME Estado, CacheBien, NEW t \in Hilos, CargarScript(t)
  PROVE  CacheBien'
<1>1. PICK p \in Pedido : p = pedido[t]
  BY DEF Estado, TypeOK, TipoHilos
<1>2. PICK r \in Nat : r = vuelta[t]
  BY DEF Estado, TypeOK, TipoHilos
<1>3. /\ pc[t] = "cargar" /\ p.pid \in Nat
      /\ tabla' = tabla /\ indice' = indice /\ carga' = carga
      /\ escritura(p.pid, r, 0, Trozo(p, r))
      /\ \/ r + 1 = paginas_usadas(p) /\ Terminar(t)
         \/ /\ r + 1 # paginas_usadas(p)
            /\ vuelta' = [vuelta EXCEPT ![t] = r + 1]
            /\ pc' = pc /\ pedido' = pedido
  BY <1>1, <1>2 DEF CargarScript, Pedido
<1>4. t = Kernel /\ p = carga[p.pid] /\ p.pid \in Creados
  BY <1>1, <1>3 DEF Estado, HilosBien, HilosAcordes, EnSeccion
<1>5. paginas_usadas(p) \in Nat /\ p.pag \in Nat
  BY <1>4, PaginasDeCarga DEF Estado, PaginasDeCodigo
<1>6. /\ r < paginas_usadas(p)
      /\ \A x \in Nat : x < paginas_usadas(p) + p.pag => Tiene(p.pid, x)
      /\ \A i \in Slots : cache[i].pid = p.pid => cache[i].pagina < r
  BY <1>1, <1>2, <1>3, <1>4 DEF CacheBien, CargaEnCurso
<1>7. Existe(p.pid, r)
  <2>1. r < paginas_usadas(p) + p.pag
    BY <1>2, <1>5, <1>6
  <2> QED
    BY <2>1, <1>6 DEF Existe
<1>8. ~esta_en_cache(p.pid, r)
  <2>1. \A i \in Slots : ~(cache[i].pid = p.pid /\ cache[i].pagina = r)
    BY <1>2, <1>6
  <2> QED
    BY <2>1 DEF esta_en_cache, EnCache
<1>9. \A j \in Slots : \/ cache'[j] = cache[j]
                      \/ (cache'[j].pid = p.pid /\ cache'[j].pagina = r)
  BY <1>2, <1>3, EscrituraDeja DEF Estado
<1>10. /\ \A u \in Hilos : u # t =>
           pc'[u] = pc[u] /\ pedido'[u] = pedido[u] /\ vuelta'[u] = vuelta[u]
       /\ \/ pc'[t] = "recv"
          \/ /\ pc[t] = "cargar" /\ pc'[t] = "cargar" /\ pedido'[t] = p
             /\ vuelta'[t] = r + 1 /\ r + 1 < paginas_usadas(p)
  <2>1. CASE Terminar(t)
    BY <2>1 DEF Terminar, Ir, Estado, TypeOK, TipoHilos
  <2>2. CASE ~Terminar(t)
    <3>1. r + 1 < paginas_usadas(p)
      BY <2>2, <1>3, <1>5, <1>6
    <3> QED
      BY <3>1, <2>2, <1>1, <1>3 DEF Estado, TypeOK, TipoHilos
  <2> QED
    BY <2>1, <2>2
<1>11. /\ Nacidos' /\ CargaEnCurso' /\ Pendientes' /\ ConMarco'
       /\ \A q : PaginasDeCodigo(q)' = PaginasDeCodigo(q)
       /\ \A q : EnBaja(q)' = EnBaja(q)
  <2>1. pc[t] \in {"lectura", "escritura", "cargar"} /\ r \in Int
    BY <1>3
  <2> QED
    BY <2>1, <1>1, <1>2, <1>3, <1>7, <1>9, <1>10, CachePone
<1>12. SinRepetidas' /\ Fiel'
  BY <1>2, <1>3, <1>8, <1>11, CacheEscribir
<1> QED
  BY <1>11, <1>12 DEF CacheBien

\* What giving a page a frame does to the table
LEMMA TablaTrasUbicar ==
  ASSUME TypeOK, TypeOK', IndiceCoherente, NEW pid \in Nat, NEW n \in Int, UbicarPagina(pid, n)
  PROVE  /\ Tiene(pid, n)' /\ MarcosDe(pid)' # {}
         /\ \A q \in Nat, x \in Int : Tiene(q, x) => Tiene(q, x)'
         /\ \A q \in Nat, x \in Int : Tiene(q, x)' => Tiene(q, x) \/ (q = pid /\ x = n)
         /\ \A q \in Nat : q # pid => MarcosDe(q)' = MarcosDe(q)
         /\ \A q \in Nat, x \in Int :
              Tiene(q, x) => buscar_en_indice(q, x)' = buscar_en_indice(q, x)
<1>1. PICK frame \in Frames :
        /\ tabla[frame].pid = LIBRE
        /\ tabla' = [tabla EXCEPT ![frame] = [pid |-> pid, pagina |-> n]]
  <2>1. calcular_posicion(pid, n) \in Frames
    BY PosicionEsFrame
  <2> QED
    BY <2>1, PrimerLibreEsLibre DEF UbicarPagina, Libres
<1>2. /\ tabla'[frame] = [pid |-> pid, pagina |-> n]
      /\ \A f \in Frames : f # frame => tabla'[f] = tabla[f]
  BY <1>1 DEF TypeOK, TipoTabla
<1>3. \A q \in Nat, x \in Int : tabla[frame].pid # q /\ tabla[frame] # [pid |-> q, pagina |-> x]
  BY <1>1 DEF LIBRE
<1>4. \A q \in Nat, x \in Int :
        Tiene(q, x) => buscar_en_indice(q, x)' = buscar_en_indice(q, x)
  <2> SUFFICES ASSUME NEW q \in Nat, NEW x \in Int, Tiene(q, x)
               PROVE  buscar_en_indice(q, x)' = buscar_en_indice(q, x)
    OBVIOUS
  <2>1. TipoTabla /\ TipoTabla' /\ q \in Int
    BY DEF TypeOK
  <2>2. (q = pid /\ x = n) => Tiene(q, x)
    OBVIOUS
  <2> QED
    BY ONLY <2>1, <2>2, IndiceCoherente, UbicarPagina(pid, n), pid \in Nat, n \in Int,
            x \in Int, BuscarTrasUbicar
<1>5. \A q \in Nat : q # pid => MarcosDe(q)' = MarcosDe(q)
  <2> SUFFICES ASSUME NEW q \in Nat, q # pid PROVE MarcosDe(q)' = MarcosDe(q)
    OBVIOUS
  <2>1. tabla[frame].pid # q
    BY <1>1 DEF LIBRE
  <2>2. \A f \in Frames : tabla'[f].pid = q <=> tabla[f].pid = q
    BY <2>1, <1>2
  <2> QED
    BY <2>2 DEF MarcosDe
<1>6. Tiene(pid, n)' /\ MarcosDe(pid)' # {}
  BY <1>2 DEF Tiene, MarcosDe
<1>7. \A q \in Nat, x \in Int : Tiene(q, x) => Tiene(q, x)'
  BY <1>2, <1>3 DEF Tiene
<1>8. \A q \in Nat, x \in Int : Tiene(q, x)' => Tiene(q, x) \/ (q = pid /\ x = n)
  BY <1>2 DEF Tiene
<1> QED
  BY <1>4, <1>5, <1>6, <1>7, <1>8

\* What giving a frame back does to the table
LEMMA TablaTrasLiberar ==
  ASSUME TypeOK, TypeOK', IndiceCoherente, NEW frame \in Frames, tabla[frame].pid >= 0,
         LiberarMarco(frame)
  PROVE  /\ \A f \in Frames : tabla'[f] = IF f = frame THEN EntradaLibre ELSE tabla[f]
         /\ \A q \in Nat : MarcosDe(q)' = MarcosDe(q) \ {frame}
         /\ \A q \in Nat, x \in Int : Tiene(q, x)' => Tiene(q, x)
         /\ \A q \in Nat, x \in Int : tabla[frame] # [pid |-> q, pagina |-> x] =>
              /\ Tiene(q, x) => Tiene(q, x)'
              /\ buscar_en_indice(q, x)' = buscar_en_indice(q, x)
<1>1. \A f \in Frames : tabla'[f] = IF f = frame THEN EntradaLibre ELSE tabla[f]
  BY DEF LiberarMarco, TypeOK, TipoTabla
<1>2. \A q \in Nat, x \in Int : EntradaLibre.pid # q /\ EntradaLibre # [pid |-> q, pagina |-> x]
  BY DEF EntradaLibre, LIBRE
<1>3. \A q \in Nat, x \in Int : tabla[frame] # [pid |-> q, pagina |-> x] =>
        buscar_en_indice(q, x)' = buscar_en_indice(q, x)
  BY BuscarTrasLiberar DEF TypeOK
<1>4. \A q \in Nat : MarcosDe(q)' = MarcosDe(q) \ {frame}
  BY <1>1, <1>2 DEF MarcosDe
<1>5. \A q \in Nat, x \in Int : Tiene(q, x)' => Tiene(q, x)
  BY <1>1, <1>2 DEF Tiene
<1>6. \A q \in Nat, x \in Int : tabla[frame] # [pid |-> q, pagina |-> x] =>
        (Tiene(q, x) => Tiene(q, x)')
  BY <1>1 DEF Tiene
<1> QED
  BY <1>1, <1>3, <1>4, <1>5, <1>6

\* A process that exists gets a page, and no end of a process is under way: what was
\* cached is of other pages.
LEMMA CacheUbica ==
  ASSUME Estado, CacheBien, TypeOK', NEW pid \in Creados, NEW n \in Int, UbicarPagina(pid, n),
         cache' = cache, carga' = carga,
         \A q : ~EnBaja(q),
         \A f \in Frames : tabla[f].pid # LIBRE => memoria'[f] = memoria[f],
         \A u \in Hilos : pc'[u] \in {"lectura", "escritura"} =>
           pc'[u] = pc[u] /\ pedido'[u] = pedido[u],
         \/ MarcosDe(pid) # {}
         \/ /\ \A i \in Slots : cache[i].pid # pid
            /\ \A u \in Hilos : pc[u] = "escritura" => pedido[u].pid # pid
  PROVE  /\ Nacidos' /\ Pendientes' /\ SinRepetidas' /\ ConMarco' /\ Fiel'
         /\ Tiene(pid, n)'
         /\ \A q \in Nat, x \in Int : Tiene(q, x) => Tiene(q, x)'
<1>0. TypeOK /\ IndiceCoherente /\ HilosBien /\ pid \in Nat
  BY PaginasDeCarga DEF Estado
<1>1. /\ Tiene(pid, n)' /\ MarcosDe(pid)' # {}
      /\ \A q \in Nat, x \in Int : Tiene(q, x) => Tiene(q, x)'
      /\ \A q \in Nat, x \in Int : Tiene(q, x)' => Tiene(q, x) \/ (q = pid /\ x = n)
      /\ \A q \in Nat : q # pid => MarcosDe(q)' = MarcosDe(q)
      /\ \A q \in Nat, x \in Int :
           Tiene(q, x) => buscar_en_indice(q, x)' = buscar_en_indice(q, x)
  BY <1>0, TablaTrasUbicar
<1>2. Creados' = Creados /\ \A q : PaginasDeCodigo(q)' = PaginasDeCodigo(q)
  BY DEF Creados, PaginasDeCodigo, paginas_usadas
<1>3. \A q \in Nat, x \in Int :
        Existe(q, x) /\ (q # pid \/ MarcosDe(pid) # {}) => Existe(q, x)'
  <2> SUFFICES ASSUME NEW q \in Nat, NEW x \in Int, Existe(q, x),
                      q # pid \/ MarcosDe(pid) # {}, ~Tiene(q, x)
               PROVE  MarcosDe(q)' = {}
    BY <1>1 DEF Existe, Muriendo
  <2>1. MarcosDe(q) = {}
    BY DEF Existe, Muriendo
  <2> QED
    BY <2>1, <1>1
<1>4. Nacidos'
  <2>1. PICK frame : tabla' = [tabla EXCEPT ![frame] = [pid |-> pid, pagina |-> n]]
    BY DEF UbicarPagina
  <2>2. \A f \in Frames : tabla'[f] = tabla[f] \/ tabla'[f].pid = pid
    BY <2>1, <1>0 DEF TypeOK, TipoTabla
  <2> QED
    BY <2>2, <1>2 DEF CacheBien, Nacidos
<1>5. Pendientes'
  <2> SUFFICES ASSUME NEW u \in Hilos, NEW x \in Pedido, pedido'[u] = x,
                      pc'[u] = pc[u], pedido[u] = x
               PROVE  /\ pc[u] = "lectura" /\ x.ini + x.largo <= Tam => ~esta_en_cache(x.pid, x.pag)'
                      /\ pc[u] = "lectura" /\ x.ini + x.largo > Tam =>
                           x.pag + 1 < PaginasDeCodigo(x.pid)'
                      /\ pc[u] = "escritura" =>
                           x.pag >= PaginasDeCodigo(x.pid)' /\ Existe(x.pid, x.pag)'
    BY DEF Pendientes
  <2>1. esta_en_cache(x.pid, x.pag)' = esta_en_cache(x.pid, x.pag)
    BY DEF esta_en_cache, EnCache
  <2>2. x.pid \in Nat /\ x.pag \in Int
    BY DEF Pedido
  <2> QED
    BY <2>1, <2>2, <1>2, <1>3 DEF CacheBien, Pendientes
<1>6. SinRepetidas'
  BY <1>2 DEF CacheBien, SinRepetidas, EsDe
<1>7. ConMarco'
  <2>1. ASSUME NEW i \in Slots, NEW q \in Nat, NEW x \in Int, EsDe(i, q, x)'
        PROVE  Existe(q, x)'
    <3>1. EsDe(i, q, x)
      BY <2>1 DEF EsDe
    <3>2. q # pid \/ MarcosDe(pid) # {}
      BY <3>1 DEF EsDe
    <3> QED
      BY <3>1, <3>2, <1>3 DEF CacheBien, ConMarco
  <2> QED
    BY <2>1, <1>2 DEF CacheBien, ConMarco
<1>8. Fiel'
  <2> SUFFICES ASSUME NEW i \in Slots, NEW q \in Nat, NEW x \in Int,
                      EsDe(i, q, x)', Tiene(q, x)'
               PROVE  cache[i].contenido = memoria'[buscar_en_indice(q, x)']
    BY DEF Fiel
  <2>1. EsDe(i, q, x)
    BY DEF EsDe
  <2>2. Tiene(q, x)
    <3>1. SUFFICES ASSUME ~Tiene(q, x) PROVE FALSE
      OBVIOUS
    <3>2. q = pid
      BY <3>1, <1>1
    <3>3. MarcosDe(q) = {}
      BY <3>1, <2>1 DEF CacheBien, ConMarco, Existe, Muriendo
    <3> QED
      BY <3>2, <3>3, <2>1 DEF EsDe
  <2>3. PICK f \in Frames : f = buscar_en_indice(q, x) /\ tabla[f] = [pid |-> q, pagina |-> x]
    BY <2>2, <1>0, BuscarEncuentra DEF TypeOK
  <2>4. tabla[f].pid # LIBRE
    BY <2>3 DEF LIBRE
  <2>5. cache[i].contenido = memoria[f]
    BY <2>1, <2>2, <2>3 DEF CacheBien, Fiel
  <2> QED
    BY <2>2, <2>3, <2>4, <2>5, <1>1
<1> QED
  BY <1>1, <1>4, <1>5, <1>6, <1>7, <1>8

\* A turn of buscar_espacioV2
LEMMA CacheUbicar ==
  ASSUME Estado, CacheBien, TypeOK', NEW t \in Hilos, UbicarTrasPedido(t)
  PROVE  CacheBien'
<1>1. PICK p \in Pedido : p = pedido[t]
  BY DEF Estado, TypeOK, TipoHilos
<1>2. PICK n \in Nat : n = vuelta[t]
  BY DEF Estado, TypeOK, TipoHilos
<1>3. PICK total : total = paginas_usadas(p) + p.pag
  OBVIOUS
<1>4. /\ pc[t] = "ubicar" /\ UbicarPagina(p.pid, n)
      /\ vuelta' = [vuelta EXCEPT ![t] = IF n + 1 = total THEN 0 ELSE n + 1]
      /\ pc' = [pc EXCEPT ![t] = IF n + 1 = total THEN "cargar" ELSE "ubicar"]
      /\ memoria' = memoria /\ cache' = cache /\ pedido' = pedido /\ carga' = carga
  BY <1>1, <1>2, <1>3 DEF UbicarTrasPedido, Ir
<1>5. t = Kernel /\ p = carga[p.pid] /\ p.pid \in Creados /\ t \in EnSeccion
  BY <1>1, <1>4 DEF Estado, HilosBien, HilosAcordes, EnSeccion
<1>6. paginas_usadas(p) \in Nat \ {0} /\ p.pag \in Nat /\ p.pid \in Nat
  BY <1>5, PaginasDeCarga DEF Estado, PaginasDeCodigo
<1>7. /\ n < total
      /\ \A x \in Nat : x < n => Tiene(p.pid, x)
      /\ \A i \in Slots : cache[i].pid # p.pid
  BY <1>1, <1>2, <1>3, <1>4, <1>5 DEF CacheBien, CargaEnCurso
<1>8. \A q : ~EnBaja(q)
  BY <1>4, <1>5, BajaDelKernel DEF Estado
<1>9. /\ \A u \in Hilos : u # t => pc'[u] = pc[u] /\ vuelta'[u] = vuelta[u]
      /\ pc'[t] = IF n + 1 = total THEN "cargar" ELSE "ubicar"
      /\ vuelta'[t] = IF n + 1 = total THEN 0 ELSE n + 1
  BY <1>4 DEF Estado, TypeOK, TipoHilos
<1>10. \A u \in Hilos : pc[u] = "escritura" => pedido[u].pid # p.pid
  BY <1>1, <1>4, <1>5 DEF EnSeccion, Estado, HilosBien, UnoPorProceso
<1>11. /\ Nacidos' /\ Pendientes' /\ SinRepetidas' /\ ConMarco' /\ Fiel'
       /\ Tiene(p.pid, n)'
       /\ \A q \in Nat, x \in Int : Tiene(q, x) => Tiene(q, x)'
  <2>1. \A u \in Hilos : pc'[u] \in {"lectura", "escritura"} =>
          pc'[u] = pc[u] /\ pedido'[u] = pedido[u]
    BY <1>4, <1>9
  <2> QED
    BY <1>2, <1>4, <1>5, <1>7, <1>8, <1>10, <2>1, CacheUbica
<1>12. CargaEnCurso'
  <2>1. pedido'[Kernel] = p
    BY <1>1, <1>4, <1>5
  <2>2. \A i \in Slots : cache'[i].pid # p.pid
    BY <1>4, <1>7
  <2>3. \A x \in Nat : x < n + 1 => Tiene(p.pid, x)'
    <3> SUFFICES ASSUME NEW x \in Nat, x < n + 1 PROVE Tiene(p.pid, x)'
      OBVIOUS
    <3>1. x < n \/ x = n
      BY <1>2
    <3> QED
      BY <3>1, <1>6, <1>7, <1>11
  <2>4. CASE n + 1 = total
    <3>1. pc'[Kernel] = "cargar" /\ vuelta'[Kernel] = 0
      BY <2>4, <1>5, <1>9
    <3>2. 0 < paginas_usadas(p)
      BY <1>6
    <3> QED
      BY <2>1, <2>2, <2>3, <2>4, <3>1, <3>2, <1>3 DEF CargaEnCurso, paginas_usadas
  <2>5. CASE n + 1 # total
    <3>1. pc'[Kernel] = "ubicar" /\ vuelta'[Kernel] = n + 1
      BY <2>5, <1>5, <1>9
    <3>2. n + 1 < total
      BY <2>5, <1>2, <1>3, <1>6, <1>7
    <3> QED
      BY <2>1, <2>2, <2>3, <3>1, <3>2, <1>3 DEF CargaEnCurso, paginas_usadas
  <2> QED
    BY <2>4, <2>5
<1> QED
  BY <1>11, <1>12 DEF CacheBien

\* SOLICITAR_HEAP: the new page is not one that was cached.
LEMMA CacheHeap ==
  ASSUME Estado, CacheBien, TypeOK', HilosBien', NEW p \in Heaps, SolicitarHeap(Kernel, p)
  PROVE  CacheBien'
<1>0. Kernel \in Hilos
  BY MemoriaAssumption
<1>1. /\ p \in Pedido /\ p.pid \in Disponibles /\ MarcosDe(p.pid) # {}
      /\ p.pid \in Nat
  BY TipoPedidos DEF Heaps, Estado, Pedido
<1>2. p.pid \in Creados
  BY <1>1 DEF Disponibles
<1>3. /\ Atender(Kernel, p, "recv") /\ cache' = cache /\ carga' = carga
  BY DEF SolicitarHeap
<1>4. CASE marcos_libres >= 1
  <2>1. PICK n : n = paginas_de_proceso(p.pid)
    OBVIOUS
  <2>2. n \in Int
    BY <2>1, CuentaEsNat DEF paginas_de_proceso, MarcosDe
  <2>3. PICK frame : frame = PrimerLibre(calcular_posicion(p.pid, n))
    OBVIOUS
  <2>4. UbicarPagina(p.pid, n) /\ memoria' = [memoria EXCEPT ![frame][0] = Cabecera]
    BY <1>4, <2>1, <2>3 DEF SolicitarHeap
  <2>5. frame \in Libres
    <3>1. calcular_posicion(p.pid, n) \in Frames
      BY <1>1, <2>2, PosicionEsFrame
    <3> QED
      BY <2>3, <2>4, <3>1, PrimerLibreEsLibre DEF UbicarPagina
  <2>6. \A f \in Frames : tabla[f].pid # LIBRE => memoria'[f] = memoria[f]
    <3>1. \A f \in Frames : f \in Posiciones
      BY MemoriaAssumption DEF Frames, Posiciones
    <3> QED
      BY <2>4, <2>5, <3>1 DEF Libres, Estado, TypeOK, TipoPaginas
  <2>7. /\ pc[Kernel] = "recv" /\ pc'[Kernel] = "recv"
        /\ \A u \in Hilos : u # Kernel => pc'[u] = pc[u] /\ pedido'[u] = pedido[u]
    BY <1>0, <1>3 DEF Atender, Ir, Estado, TypeOK, TipoHilos
  <2>8. \A q : ~EnBaja(q)
    BY <2>7, BajaDelKernel DEF Estado
  <2>9. /\ Nacidos' /\ Pendientes' /\ SinRepetidas' /\ ConMarco' /\ Fiel'
    <3>1. \A u \in Hilos : pc'[u] \in {"lectura", "escritura"} =>
            pc'[u] = pc[u] /\ pedido'[u] = pedido[u]
      BY <2>7
    <3> QED
      BY <1>1, <1>2, <1>3, <2>2, <2>4, <2>6, <2>8, <3>1, CacheUbica
  <2>10. CargaEnCurso'
    BY <2>7 DEF CargaEnCurso
  <2> QED
    BY <2>9, <2>10 DEF CacheBien
<1>5. CASE ~(marcos_libres >= 1)
  <2>1. tabla' = tabla /\ indice' = indice /\ memoria' = memoria
    BY <1>5 DEF SolicitarHeap
  <2>2. SoloAgrega
    BY <1>3 DEF SoloAgrega, Creados
  <2> QED
    BY <1>0, <1>1, <1>3, <2>1, <2>2, CacheAtender
<1> QED
  BY <1>4, <1>5

\* Steps that at most empty entries of the cache and free frames
LEMMA CacheMengua ==
  ASSUME Estado, CacheBien, memoria' = memoria, carga' = carga,
         \A j \in Slots : cache'[j] = cache[j] \/ cache'[j].pid = NADIE,
         \A f \in Frames : tabla'[f] = tabla[f] \/ tabla'[f] = EntradaLibre,
         pc'[Kernel] \in {"ubicar", "cargar"} =>
           /\ tabla' = tabla /\ pc'[Kernel] = pc[Kernel]
           /\ pedido'[Kernel] = pedido[Kernel] /\ vuelta'[Kernel] = vuelta[Kernel],
         \A u \in Hilos : pc'[u] \in {"lectura", "escritura"} =>
           pc'[u] = pc[u] /\ pedido'[u] = pedido[u],
         \A j \in Slots : \A q \in Nat, x \in Int :
           EsDe(j, q, x)' =>
             /\ Existe(q, x)'
             /\ EnBaja(q)' \/ buscar_en_indice(q, x)' = buscar_en_indice(q, x),
         \A j \in Slots : \A q \in Nat : cache'[j].pid = q => (EnBaja(q) => EnBaja(q)'),
         \A u \in Hilos, p \in Pedido :
           pedido[u] = p /\ pc'[u] = "escritura" => Existe(p.pid, p.pag)'
  PROVE  CacheBien'
<1>1. Creados' = Creados /\ \A q : PaginasDeCodigo(q)' = PaginasDeCodigo(q)
  BY DEF Creados, PaginasDeCodigo, paginas_usadas
<1>2. \A j \in Slots : \A q \in Nat, x \in Int : EsDe(j, q, x)' => EsDe(j, q, x)
  BY DEF EsDe, NADIE
<1>3. Nacidos'
  BY <1>1 DEF CacheBien, Nacidos, EntradaLibre, LIBRE
<1>4. CargaEnCurso'
  <2> SUFFICES ASSUME NEW p \in Pedido, pedido'[Kernel] = p, pc'[Kernel] \in {"ubicar", "cargar"}
               PROVE  /\ pc[Kernel] = "ubicar" =>
                           /\ vuelta[Kernel] < paginas_usadas(p) + p.pag
                           /\ \A r \in Nat : r < vuelta[Kernel] => Tiene(p.pid, r)
                           /\ \A i \in Slots : cache'[i].pid # p.pid
                      /\ pc[Kernel] = "cargar" =>
                           /\ vuelta[Kernel] < paginas_usadas(p)
                           /\ \A r \in Nat : r < paginas_usadas(p) + p.pag => Tiene(p.pid, r)
                           /\ \A i \in Slots : cache'[i].pid = p.pid => cache'[i].pagina < vuelta[Kernel]
    BY DEF CargaEnCurso, paginas_usadas, Tiene
  <2>1. p.pid \in Nat
    BY DEF Pedido
  <2>2. \A i \in Slots : cache'[i].pid = p.pid => cache'[i] = cache[i]
    BY <2>1 DEF NADIE
  <2> QED
    BY <2>2 DEF CacheBien, CargaEnCurso
<1>5. Pendientes'
  <2> SUFFICES ASSUME NEW u \in Hilos, NEW x \in Pedido, pedido'[u] = x,
                      pc'[u] \in {"lectura", "escritura"}
               PROVE  /\ pc'[u] = "lectura" /\ x.ini + x.largo <= Tam => ~esta_en_cache(x.pid, x.pag)'
                      /\ pc'[u] = "lectura" /\ x.ini + x.largo > Tam =>
                           x.pag + 1 < PaginasDeCodigo(x.pid)'
                      /\ pc'[u] = "escritura" =>
                           x.pag >= PaginasDeCodigo(x.pid)' /\ Existe(x.pid, x.pag)'
    BY DEF Pendientes
  <2>1. pc'[u] = pc[u] /\ pedido[u] = x
    OBVIOUS
  <2>2. x.pid \in Nat
    BY DEF Pedido
  <2>3. esta_en_cache(x.pid, x.pag)' => esta_en_cache(x.pid, x.pag)
    BY <2>2 DEF esta_en_cache, EnCache, NADIE
  <2> QED
    BY <2>1, <2>3, <1>1 DEF CacheBien, Pendientes
<1>6. SinRepetidas'
  <2> SUFFICES ASSUME NEW i \in Slots, NEW j \in Slots, NEW q \in Nat, NEW x \in Int,
                      EsDe(i, q, x)', EsDe(j, q, x)', i # j
               PROVE  x + 1 < PaginasDeCodigo(q)
    BY <1>1 DEF SinRepetidas
  <2> QED
    BY <1>2 DEF CacheBien, SinRepetidas
<1>7. ConMarco'
  <2>1. \A i \in Slots : cache'[i].pid # NADIE => cache'[i].pid \in Creados
    BY DEF CacheBien, ConMarco
  <2> QED
    BY <2>1, <1>1 DEF ConMarco
<1>8. Fiel'
  <2> SUFFICES ASSUME NEW j \in Slots, NEW q \in Nat, NEW x \in Int,
                      EsDe(j, q, x)', ~EnBaja(q)', Tiene(q, x)'
               PROVE  cache'[j].contenido = memoria[buscar_en_indice(q, x)']
    BY DEF Fiel
  <2>1. EsDe(j, q, x) /\ cache'[j].pid = q /\ cache'[j] = cache[j]
    BY <1>2 DEF EsDe, NADIE
  <2>2. ~EnBaja(q)
    BY <2>1
  <2>3. Tiene(q, x)
    BY DEF Tiene, EntradaLibre, LIBRE
  <2>4. buscar_en_indice(q, x)' = buscar_en_indice(q, x)
    OBVIOUS
  <2> QED
    BY <2>1, <2>2, <2>3, <2>4 DEF CacheBien, Fiel
<1> QED
  BY <1>3, <1>4, <1>5, <1>6, <1>7, <1>8 DEF CacheBien

\* A turn of finalizar_proceso
LEMMA CacheFinalizarMarco ==
  ASSUME Estado, CacheBien, TypeOK', NEW t \in Hilos, FinalizarMarco(t)
  PROVE  CacheBien'
<1>1. PICK pid \in Nat : pid = pedido[t].pid
  BY DEF Estado, TypeOK, TipoHilos, Pedido
<1>2. /\ pc[t] = "finalizar" /\ MarcosDe(pid) # {}
      /\ LiberarMarco(Minimo(MarcosDe(pid)))
      /\ memoria' = memoria /\ cache' = cache /\ pc' = pc /\ pedido' = pedido
      /\ vuelta' = vuelta /\ carga' = carga
  BY <1>1 DEF FinalizarMarco
<1>3. PICK frame \in Frames : frame = Minimo(MarcosDe(pid)) /\ tabla[frame].pid = pid
  <2>1. MarcosDe(pid) \in SUBSET Nat
    BY DEF MarcosDe, Frames
  <2>2. Minimo(MarcosDe(pid)) \in MarcosDe(pid)
    BY <2>1, <1>2, MinimoEsta
  <2> QED
    BY <2>2 DEF MarcosDe
<1>4. t = Kernel
  BY <1>2 DEF Estado, HilosBien, HilosAcordes
<1>5. EnBaja(pid)' /\ \A q : EnBaja(q)' = EnBaja(q)
  BY <1>1, <1>2 DEF EnBaja
<1>6. /\ \A f \in Frames : tabla'[f] = IF f = frame THEN EntradaLibre ELSE tabla[f]
      /\ \A q \in Nat : MarcosDe(q)' = MarcosDe(q) \ {frame}
      /\ \A q \in Nat, x \in Int : tabla[frame] # [pid |-> q, pagina |-> x] =>
           /\ Tiene(q, x) => Tiene(q, x)'
           /\ buscar_en_indice(q, x)' = buscar_en_indice(q, x)
  BY <1>2, <1>3, TablaTrasLiberar DEF Estado
<1>7. \A q, x : q = pid \/ tabla[frame] # [pid |-> q, pagina |-> x]
  BY <1>3
<1>8. \A q \in Nat, x \in Int : Existe(q, x) => Existe(q, x)'
  <2> SUFFICES ASSUME NEW q \in Nat, NEW x \in Int, Existe(q, x) PROVE Existe(q, x)'
    OBVIOUS
  <2>1. CASE q = pid
    BY <2>1, <1>5 DEF Existe, Muriendo
  <2>2. CASE q # pid
    <3>1. /\ Tiene(q, x) => Tiene(q, x)'
          /\ MarcosDe(q) = {} => MarcosDe(q)' = {}
          /\ EnBaja(q)' = EnBaja(q)
      BY <2>2, <1>5, <1>6, <1>7
    <3> QED
      BY <3>1 DEF Existe, Muriendo
  <2> QED
    BY <2>1, <2>2
<1>9. \A q \in Nat, x \in Int :
        EnBaja(q)' \/ buscar_en_indice(q, x)' = buscar_en_indice(q, x)
  <2> SUFFICES ASSUME NEW q \in Nat, NEW x \in Int, ~EnBaja(q)'
               PROVE  buscar_en_indice(q, x)' = buscar_en_indice(q, x)
    OBVIOUS
  <2>1. q # pid
    BY <1>5
  <2> QED
    BY <2>1, <1>6, <1>7
<1>10. \A j \in Slots : \A q \in Nat, x \in Int : EsDe(j, q, x)' => Existe(q, x)'
  <2>1. \A j \in Slots : \A q \in Nat, x \in Int : EsDe(j, q, x)' = EsDe(j, q, x)
    BY <1>2 DEF EsDe
  <2> QED
    BY <2>1, <1>8 DEF CacheBien, ConMarco
<1>11. \A u \in Hilos, p \in Pedido :
         pedido[u] = p /\ pc'[u] = "escritura" => Existe(p.pid, p.pag)'
  BY <1>2, <1>8 DEF CacheBien, Pendientes, Pedido
<1> QED
  BY <1>2, <1>4, <1>5, <1>6, <1>9, <1>10, <1>11, CacheMengua

\* The end of finalizar_proceso: flush_process finds every entry of the process.
LEMMA CacheFinalizarFin ==
  ASSUME Estado, CacheBien, NEW t \in Hilos, FinalizarFin(t)
  PROVE  CacheBien'
<1>1. PICK pid \in Nat : pid = pedido[t].pid
  BY DEF Estado, TypeOK, TipoHilos, Pedido
<1>2. /\ pc[t] = "finalizar" /\ MarcosDe(pid) = {}
      /\ cache' = [i \in Slots |-> IF admin[i].pid = pid THEN EntradaVacia ELSE cache[i]]
      /\ Terminar(t)
      /\ tabla' = tabla /\ indice' = indice /\ memoria' = memoria /\ carga' = carga
  BY <1>1 DEF FinalizarFin
<1>3. /\ \A u \in Hilos : u # t => pc'[u] = pc[u] /\ pedido'[u] = pedido[u]
      /\ pc'[t] = "recv"
  BY <1>2 DEF Terminar, Ir, Estado, TypeOK, TipoHilos
<1>4. t = Kernel
  BY <1>2 DEF Estado, HilosBien, HilosAcordes
<1>5. /\ \A j \in Slots : cache'[j] = cache[j] \/ cache'[j].pid = NADIE
      /\ \A j \in Slots : cache'[j].pid # NADIE => cache'[j] = cache[j] /\ cache[j].pid # pid
  <2>1. \A j \in Slots : cache[j].pid = pid => admin[j].pid = pid
    BY DEF Estado, AdminAcorde, NADIE
  <2> QED
    BY <2>1, <1>2 DEF EntradaVacia
<1>6. \A q : EnBaja(q) => q = pid
  BY <1>1, <1>4, BajaDelKernel DEF Estado
<1>7. \A q, x : /\ Tiene(q, x)' = Tiene(q, x)
                /\ MarcosDe(q)' = MarcosDe(q)
                /\ buscar_en_indice(q, x)' = buscar_en_indice(q, x)
  BY <1>2, TablaIgual
<1>8. \A q, x : Existe(q, x) => Existe(q, x)'
  BY <1>2, <1>6, <1>7 DEF Existe, Muriendo
<1>9. \A j \in Slots : \A q \in Nat, x \in Int : EsDe(j, q, x)' => Existe(q, x)'
  <2>1. \A j \in Slots : \A q \in Nat, x \in Int : EsDe(j, q, x)' => EsDe(j, q, x)
    BY <1>5 DEF EsDe, NADIE
  <2> QED
    BY <2>1, <1>8 DEF CacheBien, ConMarco
<1>10. \A j \in Slots : \A q \in Nat : cache'[j].pid = q => (EnBaja(q) => EnBaja(q)')
  BY <1>5, <1>6 DEF NADIE
<1>11. \A u \in Hilos, p \in Pedido :
         pedido[u] = p /\ pc'[u] = "escritura" => Existe(p.pid, p.pag)'
  <2> SUFFICES ASSUME NEW u \in Hilos, NEW p \in Pedido, pedido[u] = p, pc'[u] = "escritura"
               PROVE  Existe(p.pid, p.pag)'
    OBVIOUS
  <2>1. pc[u] = "escritura"
    BY <1>3
  <2> QED
    BY <2>1, <1>8 DEF CacheBien, Pendientes
<1>12. \A f \in Frames : tabla'[f] = tabla[f] \/ tabla'[f] = EntradaLibre
  BY <1>2
<1>13. \A u \in Hilos : pc'[u] \in {"lectura", "escritura"} =>
         pc'[u] = pc[u] /\ pedido'[u] = pedido[u]
  BY <1>3
<1>14. pc'[Kernel] \notin {"ubicar", "cargar"}
  BY <1>3, <1>4
<1> QED
  BY <1>2, <1>5, <1>7, <1>9, <1>10, <1>11, <1>12, <1>13, <1>14, CacheMengua

\* LIBERAR_PAGINA: what was cached of the page goes with its frame.
LEMMA CacheLiberar ==
  ASSUME Estado, CacheBien, TypeOK', NEW p \in Liberaciones, LiberarPagina(Kernel, p)
  PROVE  CacheBien'
<1>0. Kernel \in Hilos
  BY MemoriaAssumption
<1>1. /\ p \in Pedido /\ p.pid \in Disponibles /\ p.pid \in Nat /\ p.pag \in Int
  BY TipoPedidos DEF Liberaciones, Estado, Pedido
<1>2. PICK frame : frame = buscar_en_indice(p.pid, p.pag)
  OBVIOUS
<1>3. /\ frame >= 0 /\ LiberarMarco(frame) /\ Atender(Kernel, p, "recv")
      /\ cache' = [i \in Slots |-> IF i \in EnCache(p.pid, p.pag)
                                   THEN [cache[i] EXCEPT !.pid = NADIE, !.pagina = NADIE]
                                   ELSE cache[i]]
      /\ memoria' = memoria /\ carga' = carga
  BY <1>2 DEF LiberarPagina
<1>4. frame \in Frames /\ tabla[frame] = [pid |-> p.pid, pagina |-> p.pag]
  <2>1. \/ frame = -1
        \/ frame \in Frames /\ tabla[frame] = [pid |-> p.pid, pagina |-> p.pag]
    BY <1>1, <1>2, BuscarDevuelveLaPagina DEF Estado, TypeOK
  <2>2. frame # -1
    <3>1. frame >= 0
      BY <1>3
    <3> QED
      BY <3>1
  <2> QED
    BY <2>1, <2>2
<1>5. /\ pc[Kernel] = "recv" /\ pc'[Kernel] = "recv"
      /\ \A u \in Hilos : u # Kernel => pc'[u] = pc[u] /\ pedido'[u] = pedido[u]
  BY <1>0, <1>3 DEF Atender, Ir, Estado, TypeOK, TipoHilos
<1>6. \A q : ~EnBaja(q)
  BY <1>5, BajaDelKernel DEF Estado
<1>7. /\ \A f \in Frames : tabla'[f] = IF f = frame THEN EntradaLibre ELSE tabla[f]
      /\ \A q \in Nat : MarcosDe(q)' = MarcosDe(q) \ {frame}
      /\ \A q \in Nat, x \in Int : tabla[frame] # [pid |-> q, pagina |-> x] =>
           /\ Tiene(q, x) => Tiene(q, x)'
           /\ buscar_en_indice(q, x)' = buscar_en_indice(q, x)
  <2>1. TypeOK /\ IndiceCoherente
    BY DEF Estado
  <2>2. LiberarMarco(frame)
    BY <1>3, Zenon
  <2>3. frame \in Frames /\ tabla[frame].pid >= 0
    BY <1>1, <1>4
  <2> QED
    BY <2>1, <2>2, <2>3, TablaTrasLiberar
<1>8. \A q \in Nat, x \in Int : ~(q = p.pid /\ x = p.pag) =>
        /\ Existe(q, x) => Existe(q, x)'
        /\ buscar_en_indice(q, x)' = buscar_en_indice(q, x)
  <2> SUFFICES ASSUME NEW q \in Nat, NEW x \in Int, ~(q = p.pid /\ x = p.pag)
               PROVE  /\ Existe(q, x) => Existe(q, x)'
                      /\ buscar_en_indice(q, x)' = buscar_en_indice(q, x)
    OBVIOUS
  <2>1. tabla[frame] # [pid |-> q, pagina |-> x]
    BY <1>4
  <2>2. MarcosDe(q) = {} => MarcosDe(q)' = {}
    BY <1>7
  <2> QED
    BY <2>1, <2>2, <1>6, <1>7 DEF Existe, Muriendo
<1>9. /\ \A j \in Slots : cache'[j] = cache[j] \/ cache'[j].pid = NADIE
      /\ \A j \in Slots : \A q \in Nat, x \in Int :
           EsDe(j, q, x)' => EsDe(j, q, x) /\ ~(q = p.pid /\ x = p.pag)
  <2> SUFFICES ASSUME NEW j \in Slots
               PROVE  /\ cache'[j] = cache[j] \/ cache'[j].pid = NADIE
                      /\ \A q \in Nat, x \in Int :
                           EsDe(j, q, x)' => EsDe(j, q, x) /\ ~(q = p.pid /\ x = p.pag)
    OBVIOUS
  <2>1. CASE j \in EnCache(p.pid, p.pag)
    <3>1. cache'[j].pid = NADIE
      BY <2>1, <1>3 DEF Estado, TypeOK, TipoPaginas
    <3> QED
      BY <3>1 DEF EsDe, NADIE
  <2>2. CASE j \notin EnCache(p.pid, p.pag)
    <3>1. cache'[j] = cache[j]
      BY <2>2, <1>3
    <3> QED
      BY <3>1, <2>2 DEF EsDe, EnCache
  <2> QED
    BY <2>1, <2>2
<1>10. \A j \in Slots : \A q \in Nat, x \in Int :
         EsDe(j, q, x)' =>
           Existe(q, x)' /\ buscar_en_indice(q, x)' = buscar_en_indice(q, x)
  BY <1>8, <1>9 DEF CacheBien, ConMarco
<1>11. \A u \in Hilos, x \in Pedido :
         pedido[u] = x /\ pc'[u] = "escritura" => Existe(x.pid, x.pag)'
  <2> SUFFICES ASSUME NEW u \in Hilos, NEW x \in Pedido, pedido[u] = x, pc'[u] = "escritura"
               PROVE  Existe(x.pid, x.pag)'
    OBVIOUS
  <2>1. pc[u] = "escritura" /\ u \in EnSeccion
    BY <1>5 DEF EnSeccion
  <2>2. x.pid # p.pid
    BY <2>1, <1>1, DisponibleSolo DEF Estado
  <2>3. Existe(x.pid, x.pag)
    BY <2>1 DEF CacheBien, Pendientes
  <2>4. x.pid \in Nat /\ x.pag \in Int
    BY DEF Pedido
  <2> QED
    BY <2>2, <2>3, <2>4, <1>8
<1>12. \A u \in Hilos : pc'[u] \in {"lectura", "escritura"} =>
         pc'[u] = pc[u] /\ pedido'[u] = pedido[u]
  BY <1>5
<1>13. /\ \A f \in Frames : tabla'[f] = tabla[f] \/ tabla'[f] = EntradaLibre
       /\ pc'[Kernel] \notin {"ubicar", "cargar"}
  BY <1>5, <1>7
<1> QED
  BY <1>3, <1>6, <1>9, <1>10, <1>11, <1>12, <1>13, CacheMengua

\* The console's flush
LEMMA CacheFlush ==
  ASSUME Estado, CacheBien, flush
  PROVE  CacheBien'
<1>1. /\ tabla' = tabla /\ indice' = indice /\ memoria' = memoria /\ carga' = carga
      /\ pc' = pc /\ pedido' = pedido /\ vuelta' = vuelta
      /\ \A j \in Slots : cache'[j].pid = NADIE
  BY DEF flush, EntradaVacia
<1>2. \A j \in Slots : \A q \in Nat, x \in Int : ~EsDe(j, q, x)' /\ cache'[j].pid # q
  BY <1>1 DEF EsDe, NADIE
<1>3. \A q, x : Existe(q, x) => Existe(q, x)'
  <2>1. \A q : EnBaja(q) => EnBaja(q)'
    BY <1>1 DEF EnBaja
  <2> QED
    BY <2>1, <1>1, NadaSePierde
<1>4. \A u \in Hilos, p \in Pedido :
        pedido[u] = p /\ pc'[u] = "escritura" => Existe(p.pid, p.pag)'
  BY <1>1, <1>3 DEF CacheBien, Pendientes
<1> QED
  BY <1>1, <1>2, <1>4, CacheMengua

\* The requests of a CPU, and of the Kernel's thread
LEMMA CachePedidoDeCpu ==
  ASSUME ~Permite("pagina_ausente"), Estado, CacheBien, HilosBien',
         NEW t \in Hilos, PedidoDeCpu(t)
  PROVE  CacheBien'
<1>1. ASSUME NEW p \in Lecturas, LeerEnCache(t, p)
      PROVE  CacheBien'
  <2>1. p \in Pedido /\ Atender(t, p, "recv")
    BY <1>1, TipoPedidos DEF LeerEnCache
  <2>2. /\ tabla' = tabla /\ indice' = indice /\ memoria' = memoria /\ cache' = cache
        /\ SoloAgrega
    BY <1>1 DEF LeerEnCache, SoloAgrega, Creados
  <2> QED
    BY <2>1, <2>2, CacheAtender
<1>2. ASSUME NEW p \in Lecturas, LeerSinCache(t, p)
      PROVE  CacheBien'
  <2>1. p \in Pedido /\ Atender(t, p, "lectura") /\ p.pid \in Creados
    BY <1>2, TipoPedidos DEF LeerSinCache, Lecturas, Disponibles
  <2>2. /\ tabla' = tabla /\ indice' = indice /\ memoria' = memoria /\ cache' = cache
        /\ SoloAgrega
    BY <1>2 DEF LeerSinCache, SoloAgrega, Creados
  <2>3. /\ p.ini + p.largo <= Tam => ~esta_en_cache(p.pid, p.pag)
        /\ p.ini + p.largo > Tam => p.pag + 1 < PaginasDeCodigo(p.pid)
    <3>1. p.ini \in Int /\ p.largo \in Int /\ Tam \in Int
      BY <2>1, MemoriaAssumption DEF Pedido
    <3>2. p.ini + p.largo <= Tam <=> ~(p.ini + p.largo > Tam)
      BY <3>1
    <3>3. p.ini + p.largo > Tam \/ ~esta_en_cache(p.pid, p.pag)
      BY <1>2 DEF LeerSinCache
    <3>4. p.ini + p.largo <= Tam \/ p.pag + 1 < PaginasDeCodigo(p.pid)
      BY <1>2 DEF Lecturas
    <3> QED
      BY <3>2, <3>3, <3>4
  <2> QED
    BY <2>1, <2>2, <2>3, CacheAtender
<1>3. ASSUME NEW p \in Escrituras, GuardarValor(t, p)
      PROVE  CacheBien'
  <2>1. /\ p \in Pedido /\ Atender(t, p, "escritura") /\ p.pid \in Creados
        /\ Tiene(p.pid, p.pag) /\ p.pag >= PaginasDeCodigo(p.pid)
    BY <1>3, TipoPedidos DEF GuardarValor, Escrituras, Disponibles
  <2>2. /\ tabla' = tabla /\ indice' = indice /\ memoria' = memoria /\ cache' = cache
        /\ SoloAgrega
    BY <1>3 DEF GuardarValor, SoloAgrega, Creados
  <2> QED
    BY <2>1, <2>2, CacheAtender
<1> QED
  BY <1>1, <1>2, <1>3 DEF PedidoDeCpu

LEMMA CachePedidoDeKernel ==
  ASSUME ~Permite("pagina_ausente"), Estado, CacheBien, HilosBien', TypeOK',
         PedidoDeKernel(Kernel)
  PROVE  CacheBien'
<1>0. Kernel \in Hilos
  BY MemoriaAssumption
<1>1. ASSUME NEW p \in Cargas, NuevoProceso(Kernel, p)
      PROVE  CacheBien'
  <2>1. /\ p \in Pedido /\ p.pid \in Pids \ Creados /\ p.pag \in Stacks /\ p.largo \in Scripts
        /\ SoloAgrega
    BY <1>1, CargaNueva DEF Estado
  <2>2. /\ tabla' = tabla /\ indice' = indice /\ memoria' = memoria /\ cache' = cache
        /\ (Atender(Kernel, p, "ubicar") \/ Atender(Kernel, p, "recv"))
    BY <1>1 DEF NuevoProceso
  <2> QED
    BY <1>0, <2>1, <2>2, CacheAtender
<1>2. ASSUME NEW p \in Bajas, EliminarProceso(Kernel, p)
      PROVE  CacheBien'
  <2>1. p \in Pedido /\ Atender(Kernel, p, "finalizar")
    BY <1>2, TipoPedidos DEF EliminarProceso
  <2>2. /\ tabla' = tabla /\ indice' = indice /\ memoria' = memoria /\ cache' = cache
        /\ SoloAgrega
    BY <1>2 DEF EliminarProceso, SoloAgrega, Creados
  <2> QED
    BY <1>0, <2>1, <2>2, CacheAtender
<1> QED
  BY <1>0, <1>1, <1>2, CachePedidoDeCpu, CacheHeap, CacheLiberar DEF PedidoDeKernel

\* Threads that connect or disconnect, and steps in which nothing happens
LEMMA CacheConexiones ==
  ASSUME Estado, CacheBien,
         (\E t \in Hilos : Desconectar(t) \/ Conectar(t)) \/ UNCHANGED vars
  PROVE  CacheBien'
<1>1. CASE UNCHANGED vars
  BY <1>1, CacheQuieta DEF vars
<1>2. ASSUME NEW t \in Hilos, Desconectar(t) \/ Conectar(t)
      PROVE  CacheBien'
  <2>1. /\ tabla' = tabla /\ indice' = indice /\ memoria' = memoria /\ cache' = cache
        /\ carga' = carga /\ pedido' = pedido /\ vuelta' = vuelta
        /\ pc[t] \in {"recv", "cerrado"}
        /\ (pc' = [pc EXCEPT ![t] = "recv"] \/ pc' = [pc EXCEPT ![t] = "cerrado"])
    BY <1>2 DEF Desconectar, Conectar, Ir
  <2>2. \A u \in Hilos :
          \/ pc'[u] = pc[u]
          \/ pc[u] # "finalizar" /\ pc'[u] \in {"recv", "cerrado"}
    BY <2>1 DEF Estado, TypeOK, TipoHilos
  <2> QED
    BY <2>1, <2>2, CacheQuieta
<1> QED
  BY <1>1, <1>2

LEMMA CacheSigue ==
  ASSUME ~Permite("pagina_ausente")
  PROVE  Estado /\ Estado' /\ CacheBien /\ [Next]_vars => CacheBien'
<1> SUFFICES ASSUME Estado, Estado', CacheBien, [Next]_vars PROVE CacheBien'
  OBVIOUS
<1>1. TypeOK' /\ HilosBien'
  BY DEF Estado
<1>2. CASE PedidoDeKernel(Kernel)
  BY <1>1, <1>2, CachePedidoDeKernel
<1>3. ASSUME NEW t \in Hilos, PedidoDeCpu(t)
      PROVE  CacheBien'
  BY <1>1, <1>3, CachePedidoDeCpu
<1>4. ASSUME NEW t \in Hilos, Paso(t)
      PROVE  CacheBien'
  BY <1>1, <1>4, CacheLeer, CacheGuardar, CacheUbicar, CacheCargar, CacheFinalizarMarco,
     CacheFinalizarFin DEF Paso
<1>5. CASE (\E t \in Hilos : Desconectar(t) \/ Conectar(t)) \/ UNCHANGED vars
  BY <1>5, CacheConexiones
<1>6. CASE flush
  BY <1>6, CacheFlush
<1> QED
  BY <1>2, <1>3, <1>4, <1>5, <1>6 DEF Next

LEMMA CacheAlInicio == Init => CacheBien
<1> SUFFICES ASSUME Init PROVE CacheBien
  OBVIOUS
<1>1. /\ \A f \in Frames : tabla[f].pid < 0
      /\ \A i \in Slots : cache[i].pid = NADIE
      /\ \A t \in Hilos : pc[t] \in {"recv", "cerrado"}
  BY DEF Init, EntradaLibre, LIBRE, ADMIN, EntradaVacia
<1>2. \A i \in Slots : \A q \in Nat, r \in Int : ~EsDe(i, q, r)
  BY <1>1 DEF EsDe, NADIE
<1>3. Nacidos /\ SinRepetidas /\ ConMarco /\ Fiel
  <2>1. Nacidos
    BY <1>1 DEF Init, Nacidos, EntradaLibre, LIBRE, ADMIN
  <2> QED
    BY <2>1, <1>1, <1>2 DEF SinRepetidas, ConMarco, Fiel
<1>4. CargaEnCurso /\ Pendientes
  BY <1>1, MemoriaAssumption DEF CargaEnCurso, Pendientes
<1> QED
  BY <1>3, <1>4 DEF CacheBien

LEMMA SiempreEnEstado == Spec => []Estado
<1>1. TypeOK /\ IndiceCoherente /\ AdminAcorde /\ HilosBien => Estado
  BY DEF Estado
<1> QED
  BY <1>1, TiposCorrectos, IndiceSiempreCoherente, CacheYAdminAcordes, PedidosEnOrden, PTL

LEMMA CacheSiempreBien ==
  ASSUME ~Permite("pagina_ausente")
  PROVE  Spec => []CacheBien
BY CacheAlInicio, CacheSigue, SiempreEnEstado, PTL DEF Spec

\* What is cached for a page is what its frame holds, however requests, ends of
\* processes, disconnections and flushes interleave, as long as no client writes a page
\* that its process does not have: escritura would then cache what no frame keeps.
THEOREM LaCacheEsFiel ==
  ASSUME ~Permite("pagina_ausente")
  PROVE  Spec => []CacheFiel
BY CacheSiempreBien, SiempreEnEstado, FielEsCacheFiel, PTL

-----------------------------------------------------------------------------
(* A frame for each page, and the pages of a process in a row *)

\* The pages of a process that is not being ended are numbered from 0 to its last.
Seguidas ==
  \A f \in Frames : \A q \in Nat :
    tabla[f].pid = q /\ ~EnBaja(q) =>
      tabla[f].pagina \in Nat /\ tabla[f].pagina < paginas_de_proceso(q)

\* buscar_espacioV2 numbers the pages as asignar_nueva_pagina would.
VueltaCuenta ==
  \A p \in Pedido : pedido[Kernel] = p /\ pc[Kernel] = "ubicar" =>
    vuelta[Kernel] = paginas_de_proceso(p.pid)

Ubicandose(q) == pc[Kernel] = "ubicar" /\ pedido[Kernel].pid = q

\* A process that has its pages has all those of its script and its stack.
CodigoEntero ==
  \A q \in Creados :
    \/ Muriendo(q) \/ Ubicandose(q)
    \/ \A r \in Nat : r < PaginasIniciales(q) => Tiene(q, r)

TablaBien == PaginasUnicas /\ Seguidas /\ VueltaCuenta /\ CodigoEntero

LEMMA InicialesIgual ==
  ASSUME SoloAgrega
  PROVE  \A q \in Creados : PaginasIniciales(q)' = PaginasIniciales(q)
BY DEF SoloAgrega, PaginasIniciales, PaginasDeCodigo, paginas_usadas

\* A page more, and a page less
LEMMA CuentaTrasUbicar ==
  ASSUME TypeOK, TypeOK', IndiceCoherente, NEW pid \in Nat, NEW n \in Int, UbicarPagina(pid, n)
  PROVE  /\ paginas_de_proceso(pid) \in Nat
         /\ paginas_de_proceso(pid)' = paginas_de_proceso(pid) + 1
         /\ \A q \in Nat : q # pid => paginas_de_proceso(q)' = paginas_de_proceso(q)
         /\ \E frame \in Frames : \A f \in Frames :
              tabla'[f] = IF f = frame THEN [pid |-> pid, pagina |-> n] ELSE tabla[f]
<1>1. PICK frame \in Frames :
        /\ tabla[frame].pid = LIBRE
        /\ tabla' = [tabla EXCEPT ![frame] = [pid |-> pid, pagina |-> n]]
  <2>1. calcular_posicion(pid, n) \in Frames
    BY PosicionEsFrame
  <2> QED
    BY <2>1, PrimerLibreEsLibre DEF UbicarPagina, Libres
<1>2. \A f \in Frames :
        tabla'[f] = IF f = frame THEN [pid |-> pid, pagina |-> n] ELSE tabla[f]
  BY <1>1 DEF TypeOK, TipoTabla
<1>3. frame \notin MarcosDe(pid) /\ MarcosDe(pid)' = MarcosDe(pid) \cup {frame}
  <2>1. tabla[frame].pid # pid
    BY <1>1 DEF LIBRE
  <2>2. \A f \in Frames : tabla'[f].pid = pid <=> f = frame \/ tabla[f].pid = pid
    BY <1>2
  <2> QED
    BY <2>1, <2>2 DEF MarcosDe
<1>4. IsFiniteSet(MarcosDe(pid))
  <2>1. IsFiniteSet(Frames)
    BY FS_Interval, MemoriaAssumption DEF Frames
  <2> QED
    BY <2>1, FS_Subset DEF MarcosDe
<1>5. paginas_de_proceso(pid) \in Nat
  BY <1>4, FS_CardinalityType DEF paginas_de_proceso
<1>6. paginas_de_proceso(pid)' = paginas_de_proceso(pid) + 1
  <2>1. Cardinality(MarcosDe(pid) \cup {frame}) = Cardinality(MarcosDe(pid)) + 1
    BY <1>3, <1>4, FS_AddElement
  <2> QED
    BY <2>1, <1>3 DEF paginas_de_proceso
<1>7. \A q \in Nat : q # pid => MarcosDe(q)' = MarcosDe(q)
  BY TablaTrasUbicar
<1>8. \A q \in Nat : q # pid => paginas_de_proceso(q)' = paginas_de_proceso(q)
  BY <1>7 DEF paginas_de_proceso
<1> QED
  BY <1>2, <1>5, <1>6, <1>8

LEMMA CuentaTrasLiberar ==
  ASSUME TypeOK, TypeOK', IndiceCoherente, NEW frame \in Frames, NEW pid \in Nat,
         tabla[frame].pid = pid, LiberarMarco(frame)
  PROVE  /\ paginas_de_proceso(pid) \in Nat
         /\ paginas_de_proceso(pid)' = paginas_de_proceso(pid) - 1
         /\ \A q \in Nat : q # pid => paginas_de_proceso(q)' = paginas_de_proceso(q)
<1>1. \A q \in Nat : MarcosDe(q)' = MarcosDe(q) \ {frame}
  <2>1. tabla[frame].pid >= 0
    OBVIOUS
  <2> QED
    BY <2>1, TablaTrasLiberar
<1>2. frame \in MarcosDe(pid) /\ \A q \in Nat : q # pid => frame \notin MarcosDe(q)
  BY DEF MarcosDe
<1>3. IsFiniteSet(MarcosDe(pid))
  <2>1. IsFiniteSet(Frames)
    BY FS_Interval, MemoriaAssumption DEF Frames
  <2> QED
    BY <2>1, FS_Subset DEF MarcosDe
<1>4. Cardinality(MarcosDe(pid) \ {frame}) = Cardinality(MarcosDe(pid)) - 1
  BY <1>2, <1>3, FS_RemoveElement
<1>5. \A q \in Nat : q # pid => MarcosDe(q)' = MarcosDe(q)
  BY <1>1, <1>2
<1>6. paginas_de_proceso(pid) \in Nat
  BY <1>3, FS_CardinalityType DEF paginas_de_proceso
<1> QED
  BY <1>1, <1>4, <1>5, <1>6 DEF paginas_de_proceso

\* Steps that change no page
LEMMA TablaQuieta ==
  ASSUME Estado, Estado', TablaBien, tabla' = tabla, SoloAgrega,
         \A q \in Nat : EnBaja(q) => EnBaja(q)' \/ MarcosDe(q) = {},
         \A q \in Creados' : q \in Creados \/ MarcosDe(q) = {},
         pc'[Kernel] = "ubicar" =>
           \/ /\ pc[Kernel] = "ubicar" /\ pedido'[Kernel] = pedido[Kernel]
              /\ vuelta'[Kernel] = vuelta[Kernel]
           \/ vuelta'[Kernel] = 0 /\ MarcosDe(pedido'[Kernel].pid) = {},
         pc[Kernel] = "ubicar" => pc'[Kernel] = "ubicar" /\ pedido'[Kernel] = pedido[Kernel]
  PROVE  TablaBien'
<1>1. \A q, r : /\ Tiene(q, r)' = Tiene(q, r) /\ MarcosDe(q)' = MarcosDe(q)
                /\ paginas_de_proceso(q)' = paginas_de_proceso(q)
  BY DEF Tiene, MarcosDe, paginas_de_proceso
<1>2. PaginasUnicas'
  BY DEF TablaBien, PaginasUnicas
<1>3. Seguidas'
  <2> SUFFICES ASSUME NEW f \in Frames, NEW q \in Nat, tabla[f].pid = q, ~EnBaja(q)'
               PROVE  tabla[f].pagina \in Nat /\ tabla[f].pagina < paginas_de_proceso(q)
    BY <1>1 DEF Seguidas
  <2>1. f \in MarcosDe(q)
    BY DEF MarcosDe
  <2>2. ~EnBaja(q)
    BY <2>1
  <2> QED
    BY <2>2 DEF TablaBien, Seguidas
<1>4. VueltaCuenta'
  <2> SUFFICES ASSUME NEW p \in Pedido, pedido'[Kernel] = p, pc'[Kernel] = "ubicar"
               PROVE  vuelta'[Kernel] = paginas_de_proceso(p.pid)
    BY <1>1 DEF VueltaCuenta
  <2>1. CASE pc[Kernel] = "ubicar" /\ pedido[Kernel] = p /\ vuelta'[Kernel] = vuelta[Kernel]
    BY <2>1 DEF TablaBien, VueltaCuenta
  <2>2. CASE vuelta'[Kernel] = 0 /\ MarcosDe(p.pid) = {}
    BY <2>2, FS_EmptySet DEF paginas_de_proceso
  <2> QED
    BY <2>1, <2>2
<1>5. CodigoEntero'
  <2> SUFFICES ASSUME NEW q \in Creados', ~Muriendo(q)', ~Ubicandose(q)',
                      NEW r \in Nat, r < PaginasIniciales(q)'
               PROVE  Tiene(q, r)
    BY <1>1 DEF CodigoEntero
  <2>1. MarcosDe(q) # {} /\ q \in Creados
    BY <1>1 DEF Muriendo
  <2>2. q \in Nat
    BY <2>1, PaginasDeCarga DEF Estado
  <2>3. ~Muriendo(q)
    BY <1>1, <2>1, <2>2 DEF Muriendo
  <2>4. ~Ubicandose(q)
    BY DEF Ubicandose
  <2>5. r < PaginasIniciales(q)
    BY <2>1, InicialesIgual
  <2> QED
    BY <2>1, <2>3, <2>4, <2>5 DEF TablaBien, CodigoEntero
<1> QED
  BY <1>2, <1>3, <1>4, <1>5 DEF TablaBien

\* A process gets its next page.
LEMMA TablaUbica ==
  ASSUME Estado, Estado', TablaBien, NEW pid \in Creados,
         UbicarPagina(pid, paginas_de_proceso(pid)), carga' = carga,
         \A q : ~EnBaja(q),
         pc[Kernel] = "ubicar" => pedido[Kernel].pid = pid,
         pc'[Kernel] = "ubicar" =>
           /\ pedido'[Kernel].pid = pid
           /\ vuelta'[Kernel] = paginas_de_proceso(pid) + 1,
         Ubicandose(pid)' \/ \A r \in Nat : r < PaginasIniciales(pid) => Tiene(pid, r)'
  PROVE  TablaBien'
<1>1. PICK n : n = paginas_de_proceso(pid)
  OBVIOUS
<1>2. /\ TypeOK /\ TypeOK' /\ IndiceCoherente /\ pid \in Nat
      /\ n \in Nat /\ UbicarPagina(pid, n)
  BY <1>1, PaginasDeCarga, CuentaEsNat DEF Estado, paginas_de_proceso, MarcosDe
<1>3. /\ paginas_de_proceso(pid)' = n + 1
      /\ \A q \in Nat : q # pid => paginas_de_proceso(q)' = paginas_de_proceso(q)
      /\ \E frame \in Frames : \A f \in Frames :
           tabla'[f] = IF f = frame THEN [pid |-> pid, pagina |-> n] ELSE tabla[f]
  <2>1. n \in Int
    BY <1>2
  <2> QED
    BY <1>1, <1>2, <2>1, CuentaTrasUbicar
<1>4. PICK frame \in Frames : \A f \in Frames :
        tabla'[f] = IF f = frame THEN [pid |-> pid, pagina |-> n] ELSE tabla[f]
  BY <1>3
<1>5. \A q \in Nat : /\ q # pid => MarcosDe(q)' = MarcosDe(q)
                     /\ \A x \in Int : Tiene(q, x) => Tiene(q, x)'
  <2>1. n \in Int
    BY <1>2
  <2> QED
    BY <1>2, <2>1, TablaTrasUbicar
<1>6. \A f \in Frames : tabla[f].pid = pid => tabla[f].pagina \in Nat /\ tabla[f].pagina < n
  BY <1>1, <1>2 DEF TablaBien, Seguidas
<1>7. PaginasUnicas'
  <2> SUFFICES ASSUME NEW f \in Frames, NEW g \in Frames, tabla'[f] = tabla'[g],
                      tabla'[f].pid >= 0, f # g
               PROVE  FALSE
    BY DEF PaginasUnicas
  <2>1. CASE f # frame /\ g # frame
    BY <2>1, <1>4 DEF TablaBien, PaginasUnicas
  <2>2. ASSUME NEW h \in Frames, tabla[h] = [pid |-> pid, pagina |-> n] PROVE FALSE
    BY <2>2, <1>2, <1>6
  <2> QED
    BY <2>1, <2>2, <1>4
<1>8. Seguidas'
  <2> SUFFICES ASSUME NEW f \in Frames, NEW q \in Nat, tabla'[f].pid = q
               PROVE  tabla'[f].pagina \in Nat /\ tabla'[f].pagina < paginas_de_proceso(q)'
    BY DEF Seguidas
  <2>1. CASE f = frame
    BY <2>1, <1>2, <1>3, <1>4
  <2>2. CASE f # frame /\ q = pid
    <3>1. tabla'[f] = tabla[f] /\ tabla[f].pid = pid
      BY <2>2, <1>4
    <3>2. tabla[f].pagina \in Nat /\ tabla[f].pagina < n
      BY <3>1, <1>6
    <3> QED
      BY <2>2, <3>1, <3>2, <1>2, <1>3
  <2>3. CASE f # frame /\ q # pid
    <3>1. tabla'[f] = tabla[f] /\ tabla[f].pid = q
      BY <2>3, <1>4
    <3> QED
      BY <2>3, <3>1, <1>3 DEF TablaBien, Seguidas
  <2> QED
    BY <2>1, <2>2, <2>3
<1>9. VueltaCuenta'
  BY <1>1, <1>3 DEF VueltaCuenta
<1>10. CodigoEntero'
  <2> SUFFICES ASSUME NEW q \in Creados, ~Muriendo(q)', ~Ubicandose(q)',
                      NEW r \in Nat, r < PaginasIniciales(q)
               PROVE  Tiene(q, r)'
    <3>1. Creados' = Creados /\ \A q : PaginasIniciales(q)' = PaginasIniciales(q)
      BY DEF Creados, PaginasIniciales, PaginasDeCodigo, paginas_usadas
    <3> QED
      BY <3>1 DEF CodigoEntero
  <2>1. CASE q = pid
    BY <2>1
  <2>2. CASE q # pid
    <3>1. q \in Nat
      BY PaginasDeCarga DEF Estado
    <3>2. ~Muriendo(q)
      BY <2>2, <3>1, <1>5 DEF Muriendo
    <3>3. ~Ubicandose(q)
      BY <2>2 DEF Ubicandose
    <3>4. Tiene(q, r)
      BY <3>2, <3>3 DEF TablaBien, CodigoEntero
    <3> QED
      BY <3>1, <3>4, <1>5
  <2> QED
    BY <2>1, <2>2
<1> QED
  BY <1>7, <1>8, <1>9, <1>10 DEF TablaBien

\* A frame is given back: by a process that is being ended, or that of the last page.
LEMMA TablaLibera ==
  ASSUME Estado, Estado', TablaBien, NEW frame \in Frames, NEW pid \in Nat,
         tabla[frame].pid = pid, LiberarMarco(frame), carga' = carga,
         pc[Kernel] # "ubicar", pc'[Kernel] # "ubicar",
         \A q \in Nat : EnBaja(q)' = EnBaja(q),
         \/ EnBaja(pid)
         \/ /\ tabla[frame].pagina + 1 = paginas_de_proceso(pid)
            /\ tabla[frame].pagina >= PaginasIniciales(pid)
  PROVE  TablaBien'
<1>0. TypeOK /\ TypeOK' /\ IndiceCoherente /\ tabla[frame].pid >= 0 /\ EntradaLibre.pid < 0
  BY DEF Estado, EntradaLibre, LIBRE
<1>1. /\ paginas_de_proceso(pid) \in Nat
      /\ paginas_de_proceso(pid)' = paginas_de_proceso(pid) - 1
      /\ \A q \in Nat : q # pid => paginas_de_proceso(q)' = paginas_de_proceso(q)
  BY <1>0, CuentaTrasLiberar
<1>2. /\ \A f \in Frames : tabla'[f] = IF f = frame THEN EntradaLibre ELSE tabla[f]
      /\ \A q \in Nat : MarcosDe(q)' = MarcosDe(q) \ {frame}
      /\ \A q \in Nat, x \in Int : tabla[frame] # [pid |-> q, pagina |-> x] =>
           (Tiene(q, x) => Tiene(q, x)')
  BY <1>0, TablaTrasLiberar
<1>3. PaginasUnicas'
  <2> SUFFICES ASSUME NEW f \in Frames, NEW g \in Frames, tabla'[f] = tabla'[g],
                      tabla'[f].pid >= 0
               PROVE  f = g
    BY DEF PaginasUnicas
  <2>1. ~(EntradaLibre.pid >= 0)
    BY DEF EntradaLibre, LIBRE
  <2>2. tabla'[f] = tabla[f] /\ tabla'[g] = tabla[g]
    BY <2>1, <1>2
  <2> QED
    BY <2>2 DEF TablaBien, PaginasUnicas
<1>4. Seguidas'
  <2> SUFFICES ASSUME NEW f \in Frames, NEW q \in Nat, tabla'[f].pid = q, ~EnBaja(q)
               PROVE  tabla'[f].pagina \in Nat /\ tabla'[f].pagina < paginas_de_proceso(q)'
    BY DEF Seguidas
  <2>1. f # frame /\ tabla'[f] = tabla[f]
    BY <1>0, <1>2
  <2>2. tabla[f].pagina \in Nat /\ tabla[f].pagina < paginas_de_proceso(q)
    BY <2>1 DEF TablaBien, Seguidas
  <2>3. CASE q # pid
    BY <2>1, <2>2, <2>3, <1>1
  <2>4. CASE q = pid
    <3>1. tabla[f].pagina # tabla[frame].pagina
      <4>1. tabla[f] = [pid |-> tabla[f].pid, pagina |-> tabla[f].pagina]
            /\ tabla[frame] = [pid |-> tabla[frame].pid, pagina |-> tabla[frame].pagina]
        BY <1>0 DEF TypeOK, TipoTabla
      <4>2. tabla[f] # tabla[frame]
        BY <1>0, <2>1 DEF TablaBien, PaginasUnicas
      <4> QED
        BY <4>1, <4>2, <2>1, <2>4
    <3>2. tabla[frame].pagina + 1 = paginas_de_proceso(pid) /\ tabla[frame].pagina \in Int
      BY <2>4, <1>0 DEF TypeOK, TipoTabla
    <3> QED
      BY <2>1, <2>2, <2>4, <3>1, <3>2, <1>1
  <2> QED
    BY <2>3, <2>4
<1>5. VueltaCuenta'
  BY DEF VueltaCuenta
<1>6. CodigoEntero'
  <2> SUFFICES ASSUME NEW q \in Creados, ~Muriendo(q)',
                      NEW r \in Nat, r < PaginasIniciales(q)
               PROVE  Tiene(q, r)'
    <3>1. Creados' = Creados /\ \A q : PaginasIniciales(q)' = PaginasIniciales(q)
      BY DEF Creados, PaginasIniciales, PaginasDeCodigo, paginas_usadas
    <3> QED
      BY <3>1 DEF CodigoEntero
  <2>1. q \in Nat /\ PaginasIniciales(q) \in Nat
    <3>1. /\ q \in Nat /\ PaginasDeCodigo(q) \in Nat /\ carga[q].pag \in Nat
      BY PaginasDeCarga DEF Estado
    <3> QED
      BY <3>1 DEF PaginasIniciales
  <2>2. ~Muriendo(q)
    BY <2>1, <1>2 DEF Muriendo
  <2>3. Tiene(q, r)
    BY <2>2 DEF TablaBien, CodigoEntero, Ubicandose
  <2>4. tabla[frame] # [pid |-> q, pagina |-> r]
    <3>1. SUFFICES ASSUME tabla[frame] = [pid |-> q, pagina |-> r] PROVE FALSE
      OBVIOUS
    <3>2. q = pid /\ r = tabla[frame].pagina /\ ~EnBaja(pid)
      BY <3>1, <2>2 DEF Muriendo
    <3> QED
      BY <3>2, <2>1
  <2> QED
    BY <2>1, <2>3, <2>4, <1>2
<1> QED
  BY <1>3, <1>4, <1>5, <1>6 DEF TablaBien

\* A request is taken, and no page is given or taken back.
LEMMA TablaAtender ==
  ASSUME Estado, Estado', CacheBien, TablaBien, NEW t \in Hilos, NEW p \in Pedido, NEW donde,
         Atender(t, p, donde), tabla' = tabla, SoloAgrega,
         donde = "ubicar" => p.pid \in Pids \ Creados
  PROVE  TablaBien'
<1>1. /\ pc[t] = "recv"
      /\ \A u \in Hilos : u # t =>
           pc'[u] = pc[u] /\ pedido'[u] = pedido[u] /\ vuelta'[u] = vuelta[u]
      /\ pc'[t] = donde /\ vuelta'[t] = 0
      /\ pedido'[t] = IF donde = "recv" THEN SinPedido ELSE p
  BY DEF Atender, Ir, Estado, TypeOK, TipoHilos
<1>2. Kernel \in Hilos
  BY MemoriaAssumption
<1>3. \A q \in Nat : EnBaja(q) => EnBaja(q)'
  BY <1>1 DEF EnBaja
<1>4. \A q \in Pids \ Creados : MarcosDe(q) = {}
  <2>1. \A q \in Pids : q >= 0
    BY MemoriaAssumption
  <2> QED
    BY <2>1 DEF CacheBien, Nacidos, MarcosDe
<1>5. \A q \in Creados' : q \in Creados \/ MarcosDe(q) = {}
  BY <1>4 DEF Creados
<1>6. CASE t # Kernel
  BY <1>1, <1>2, <1>3, <1>5, <1>6, TablaQuieta
<1>7. CASE t = Kernel
  <2>1. pc'[Kernel] = "ubicar" =>
          vuelta'[Kernel] = 0 /\ MarcosDe(pedido'[Kernel].pid) = {}
    BY <1>1, <1>4, <1>7
  <2>2. pc[Kernel] # "ubicar"
    BY <1>1, <1>7
  <2> QED
    BY <1>3, <1>5, <2>1, <2>2, TablaQuieta
<1> QED
  BY <1>6, <1>7

\* A thread ends its request, connects or disconnects, or goes on with its script.
LEMMA TablaSeguir ==
  ASSUME Estado, Estado', TablaBien, NEW t \in Hilos, tabla' = tabla, carga' = carga,
         pc[t] # "ubicar", pc'[t] # "ubicar",
         \A u \in Hilos : u # t =>
           pc'[u] = pc[u] /\ pedido'[u] = pedido[u] /\ vuelta'[u] = vuelta[u],
         pc[t] = "finalizar" => MarcosDe(pedido[t].pid) = {}
  PROVE  TablaBien'
<1>1. Kernel \in Hilos
  BY MemoriaAssumption
<1>2. SoloAgrega /\ Creados' = Creados
  BY DEF SoloAgrega, Creados
<1>3. \A q \in Nat : EnBaja(q) => EnBaja(q)' \/ MarcosDe(q) = {}
  BY DEF EnBaja
<1> QED
  BY <1>1, <1>2, <1>3, TablaQuieta

LEMMA TablaUbicar ==
  ASSUME Estado, Estado', CacheBien, CacheBien', TablaBien, NEW t \in Hilos, UbicarTrasPedido(t)
  PROVE  TablaBien'
<1>1. PICK p \in Pedido : p = pedido[t]
  BY DEF Estado, TypeOK, TipoHilos
<1>2. /\ pc[t] = "ubicar" /\ UbicarPagina(p.pid, vuelta[t])
      /\ vuelta' = [vuelta EXCEPT ![t] = IF vuelta[t] + 1 = paginas_usadas(p) + p.pag
                                         THEN 0 ELSE vuelta[t] + 1]
      /\ pc' = [pc EXCEPT ![t] = IF vuelta[t] + 1 = paginas_usadas(p) + p.pag
                                 THEN "cargar" ELSE "ubicar"]
      /\ pedido' = pedido /\ carga' = carga
  BY <1>1 DEF UbicarTrasPedido, Ir
<1>3. t = Kernel /\ p = carga[p.pid] /\ p.pid \in Creados
  BY <1>1, <1>2 DEF Estado, HilosBien, HilosAcordes, EnSeccion
<1>4. vuelta[Kernel] = paginas_de_proceso(p.pid)
  BY <1>1, <1>2, <1>3 DEF TablaBien, VueltaCuenta
<1>5. \A q : ~EnBaja(q)
  BY <1>2, <1>3, BajaDelKernel DEF Estado
<1>6. \/ pc'[Kernel] = "cargar"
      \/ pc'[Kernel] = "ubicar" /\ vuelta'[Kernel] = vuelta[Kernel] + 1
  BY <1>2, <1>3 DEF Estado, TypeOK, TipoHilos
<1>7. Ubicandose(p.pid)' \/ \A r \in Nat : r < PaginasIniciales(p.pid) => Tiene(p.pid, r)'
  <2>1. CASE pc'[Kernel] = "ubicar"
    BY <2>1, <1>1, <1>2, <1>3 DEF Ubicandose
  <2>2. CASE pc'[Kernel] = "cargar"
    <3>1. pedido'[Kernel] = p
      BY <1>1, <1>2, <1>3
    <3>2. \A r \in Nat : r < paginas_usadas(p) + p.pag => Tiene(p.pid, r)'
      BY <2>2, <3>1 DEF CacheBien, CargaEnCurso, paginas_usadas
    <3> QED
      BY <3>2, <1>3 DEF PaginasIniciales, PaginasDeCodigo
  <2> QED
    BY <2>1, <2>2, <1>6
<1> QED
  BY <1>1, <1>2, <1>3, <1>4, <1>5, <1>6, <1>7, TablaUbica

LEMMA TablaHeap ==
  ASSUME Estado, Estado', CacheBien, TablaBien, NEW p \in Heaps, SolicitarHeap(Kernel, p)
  PROVE  TablaBien'
<1>0. Kernel \in Hilos
  BY MemoriaAssumption
<1>1. /\ p \in Pedido /\ p.pid \in Disponibles /\ MarcosDe(p.pid) # {}
      /\ Atender(Kernel, p, "recv") /\ carga' = carga
  BY TipoPedidos DEF Heaps, Estado, SolicitarHeap
<1>2. p.pid \in Creados
  BY <1>1 DEF Disponibles
<1>3. pc[Kernel] = "recv" /\ pc'[Kernel] = "recv"
  BY <1>0, <1>1 DEF Atender, Ir, Estado, TypeOK, TipoHilos
<1>4. CASE marcos_libres >= 1
  <2>1. UbicarPagina(p.pid, paginas_de_proceso(p.pid))
    BY <1>4 DEF SolicitarHeap
  <2>2. \A q : ~EnBaja(q)
    BY <1>3, BajaDelKernel DEF Estado
  <2>3. \A r \in Nat : r < PaginasIniciales(p.pid) => Tiene(p.pid, r)'
    <3>1. ~Muriendo(p.pid) /\ ~Ubicandose(p.pid)
      BY <1>1, <1>3, <2>2 DEF Muriendo, Ubicandose
    <3>2. \A r \in Nat : r < PaginasIniciales(p.pid) => Tiene(p.pid, r)
      BY <1>2, <3>1 DEF TablaBien, CodigoEntero
    <3>3. TypeOK /\ TypeOK' /\ IndiceCoherente /\ p.pid \in Nat
          /\ paginas_de_proceso(p.pid) \in Int
      BY <1>2, PaginasDeCarga, CuentaEsNat DEF Estado, paginas_de_proceso, MarcosDe
    <3>4. \A x \in Int : Tiene(p.pid, x) => Tiene(p.pid, x)'
      BY <2>1, <3>3, TablaTrasUbicar
    <3> QED
      BY <3>2, <3>4
  <2> QED
    BY <1>1, <1>2, <1>3, <2>1, <2>2, <2>3, TablaUbica
<1>5. CASE ~(marcos_libres >= 1)
  <2>1. tabla' = tabla
    BY <1>5 DEF SolicitarHeap
  <2>2. SoloAgrega /\ Creados' = Creados
    BY <1>1 DEF SoloAgrega, Creados
  <2> QED
    BY <1>0, <1>1, <2>1, <2>2, TablaAtender
<1> QED
  BY <1>4, <1>5

LEMMA TablaFinalizarMarco ==
  ASSUME Estado, Estado', TablaBien, NEW t \in Hilos, FinalizarMarco(t)
  PROVE  TablaBien'
<1>1. PICK pid \in Nat : pid = pedido[t].pid
  BY DEF Estado, TypeOK, TipoHilos, Pedido
<1>2. /\ pc[t] = "finalizar" /\ MarcosDe(pid) # {}
      /\ LiberarMarco(Minimo(MarcosDe(pid)))
      /\ pc' = pc /\ pedido' = pedido /\ carga' = carga
  BY <1>1 DEF FinalizarMarco
<1>3. PICK frame \in Frames : frame = Minimo(MarcosDe(pid)) /\ tabla[frame].pid = pid
  <2>1. MarcosDe(pid) \in SUBSET Nat
    BY DEF MarcosDe, Frames
  <2>2. Minimo(MarcosDe(pid)) \in MarcosDe(pid)
    BY <2>1, <1>2, MinimoEsta
  <2> QED
    BY <2>2 DEF MarcosDe
<1>4. t = Kernel
  BY <1>2 DEF Estado, HilosBien, HilosAcordes
<1>5. EnBaja(pid) /\ \A q \in Nat : EnBaja(q)' = EnBaja(q)
  BY <1>1, <1>2 DEF EnBaja
<1>6. pc[Kernel] # "ubicar" /\ pc'[Kernel] # "ubicar"
  BY <1>2, <1>4
<1> QED
  BY <1>1, <1>2, <1>3, <1>5, <1>6, TablaLibera

LEMMA TablaLiberarPagina ==
  ASSUME ~Permite("libera_intermedia"), Estado, Estado', TablaBien,
         NEW p \in Liberaciones, LiberarPagina(Kernel, p)
  PROVE  TablaBien'
<1>0. Kernel \in Hilos
  BY MemoriaAssumption
<1>1. /\ p \in Pedido /\ p.pid \in Nat /\ p.pag \in Int
      /\ p.pag >= PaginasIniciales(p.pid) /\ p.pag + 1 = paginas_de_proceso(p.pid)
  BY TipoPedidos DEF Liberaciones, Estado, Pedido
<1>2. PICK frame : frame = buscar_en_indice(p.pid, p.pag)
  OBVIOUS
<1>3. LiberarMarco(frame) /\ Atender(Kernel, p, "recv") /\ carga' = carga
  BY <1>2 DEF LiberarPagina
<1>4. frame \in Frames /\ tabla[frame] = [pid |-> p.pid, pagina |-> p.pag]
  <2>1. \/ frame = -1
        \/ frame \in Frames /\ tabla[frame] = [pid |-> p.pid, pagina |-> p.pag]
    BY <1>1, <1>2, BuscarDevuelveLaPagina DEF Estado, TypeOK
  <2>2. frame >= 0
    BY <1>2, Zenon DEF LiberarPagina
  <2> QED
    BY <2>1, <2>2
<1>5. /\ pc[Kernel] = "recv" /\ pc'[Kernel] = "recv"
      /\ \A u \in Hilos : u # Kernel => pc'[u] = pc[u] /\ pedido'[u] = pedido[u]
  BY <1>0, <1>3 DEF Atender, Ir, Estado, TypeOK, TipoHilos
<1>6. \A q \in Nat : EnBaja(q)' = EnBaja(q)
  BY <1>5 DEF EnBaja
<1>7. pc[Kernel] # "ubicar" /\ pc'[Kernel] # "ubicar"
  BY <1>5
<1>8. /\ tabla[frame].pid = p.pid
      /\ tabla[frame].pagina + 1 = paginas_de_proceso(p.pid)
      /\ tabla[frame].pagina >= PaginasIniciales(p.pid)
  BY <1>1, <1>4
<1> QED
  BY <1>1, <1>3, <1>4, <1>6, <1>7, <1>8, TablaLibera

LEMMA TablaSigue ==
  ASSUME ~Permite("libera_intermedia")
  PROVE  Estado /\ Estado' /\ CacheBien /\ CacheBien' /\ TablaBien /\ [Next]_vars
         => TablaBien'
<1> SUFFICES ASSUME Estado, Estado', CacheBien, CacheBien', TablaBien, [Next]_vars
             PROVE  TablaBien'
  OBVIOUS
<1>0. Kernel \in Hilos
  BY MemoriaAssumption
<1>1. ASSUME NEW t \in Hilos, PedidoDeCpu(t)
      PROVE  TablaBien'
  <2>1. ASSUME NEW p \in Lecturas, LeerEnCache(t, p) \/ LeerSinCache(t, p)
        PROVE  TablaBien'
    <3>1. p \in Pedido /\ (Atender(t, p, "recv") \/ Atender(t, p, "lectura"))
          /\ tabla' = tabla /\ SoloAgrega
      BY <2>1, TipoPedidos DEF LeerEnCache, LeerSinCache, SoloAgrega, Creados
    <3> QED
      BY <3>1, TablaAtender
  <2>2. ASSUME NEW p \in Escrituras, GuardarValor(t, p)
        PROVE  TablaBien'
    <3>1. p \in Pedido /\ Atender(t, p, "escritura") /\ tabla' = tabla /\ SoloAgrega
      BY <2>2, TipoPedidos DEF GuardarValor, SoloAgrega, Creados
    <3> QED
      BY <3>1, TablaAtender
  <2> QED
    BY <1>1, <2>1, <2>2 DEF PedidoDeCpu
<1>2. CASE PedidoDeKernel(Kernel)
  <2>1. ASSUME NEW p \in Cargas, NuevoProceso(Kernel, p)
        PROVE  TablaBien'
    <3>1. p \in Pedido /\ p.pid \in Pids \ Creados /\ SoloAgrega
      BY <2>1, CargaNueva DEF Estado
    <3>2. (Atender(Kernel, p, "ubicar") \/ Atender(Kernel, p, "recv")) /\ tabla' = tabla
      BY <2>1 DEF NuevoProceso
    <3> QED
      BY <1>0, <3>1, <3>2, TablaAtender
  <2>2. ASSUME NEW p \in Bajas, EliminarProceso(Kernel, p)
        PROVE  TablaBien'
    <3>1. p \in Pedido /\ Atender(Kernel, p, "finalizar") /\ tabla' = tabla /\ SoloAgrega
      BY <2>2, TipoPedidos DEF EliminarProceso, SoloAgrega, Creados
    <3> QED
      BY <1>0, <3>1, TablaAtender
  <2> QED
    BY <1>0, <1>1, <1>2, <2>1, <2>2, TablaHeap, TablaLiberarPagina DEF PedidoDeKernel
<1>3. ASSUME NEW t \in Hilos, Paso(t)
      PROVE  TablaBien'
  <2>1. CASE LeerTrasRetardo(t) \/ GuardarTrasRetardo(t) \/ FinalizarFin(t)
    <3>1. Terminar(t) /\ carga' = carga /\ tabla' = tabla /\ pc[t] # "ubicar"
          /\ (pc[t] = "finalizar" => MarcosDe(pedido[t].pid) = {})
      BY <2>1 DEF LeerTrasRetardo, GuardarTrasRetardo, FinalizarFin
    <3>2. /\ pc'[t] # "ubicar"
          /\ \A u \in Hilos : u # t =>
               pc'[u] = pc[u] /\ pedido'[u] = pedido[u] /\ vuelta'[u] = vuelta[u]
      BY <3>1 DEF Terminar, Ir, Estado, TypeOK, TipoHilos
    <3> QED
      BY <3>1, <3>2, TablaSeguir
  <2>2. CASE CargarScript(t)
    <3>1. /\ pc[t] = "cargar" /\ tabla' = tabla /\ carga' = carga
          /\ \/ Terminar(t)
             \/ /\ vuelta' = [vuelta EXCEPT ![t] = @ + 1]
                /\ pc' = pc /\ pedido' = pedido
      BY <2>2 DEF CargarScript
    <3>2. /\ pc'[t] # "ubicar"
          /\ \A u \in Hilos : u # t =>
               pc'[u] = pc[u] /\ pedido'[u] = pedido[u] /\ vuelta'[u] = vuelta[u]
      BY <3>1 DEF Terminar, Ir, Estado, TypeOK, TipoHilos
    <3> QED
      BY <3>1, <3>2, TablaSeguir
  <2> QED
    BY <1>3, <2>1, <2>2, TablaUbicar, TablaFinalizarMarco DEF Paso
<1>4. ASSUME NEW t \in Hilos, Desconectar(t) \/ Conectar(t)
      PROVE  TablaBien'
  <2>1. /\ tabla' = tabla /\ carga' = carga /\ pedido' = pedido /\ vuelta' = vuelta
        /\ pc[t] \in {"recv", "cerrado"}
        /\ (pc' = [pc EXCEPT ![t] = "recv"] \/ pc' = [pc EXCEPT ![t] = "cerrado"])
    BY <1>4 DEF Desconectar, Conectar, Ir
  <2>2. pc'[t] # "ubicar" /\ \A u \in Hilos : u # t => pc'[u] = pc[u]
    BY <2>1 DEF Estado, TypeOK, TipoHilos
  <2> QED
    BY <2>1, <2>2, TablaSeguir
<1>5. CASE flush \/ UNCHANGED vars
  <2>1. /\ tabla' = tabla /\ carga' = carga /\ pedido' = pedido /\ vuelta' = vuelta
        /\ pc' = pc
    BY <1>5 DEF flush, vars
  <2>2. SoloAgrega /\ Creados' = Creados /\ \A q : EnBaja(q)' = EnBaja(q)
    BY <2>1 DEF SoloAgrega, Creados, EnBaja
  <2> QED
    BY <2>1, <2>2, TablaQuieta
<1> QED
  BY <1>1, <1>2, <1>3, <1>4, <1>5 DEF Next

LEMMA TablaAlInicio == Init => TablaBien
<1> SUFFICES ASSUME Init PROVE TablaBien
  OBVIOUS
<1>1. /\ \A f \in Frames : ~(tabla[f].pid >= 0) /\ \A q \in Nat : tabla[f].pid # q
      /\ pc[Kernel] = "recv" /\ Creados = {}
  BY MemoriaAssumption DEF Init, EntradaLibre, LIBRE, ADMIN, Creados
<1> QED
  BY <1>1 DEF TablaBien, PaginasUnicas, Seguidas, VueltaCuenta, CodigoEntero

LEMMA TablaSiempreBien ==
  ASSUME ~Permite("pagina_ausente"), ~Permite("libera_intermedia")
  PROVE  Spec => []TablaBien
BY TablaAlInicio, TablaSigue, CacheSiempreBien, SiempreEnEstado, PTL DEF Spec

\* A process that is not being ended has its pages in a row, from 0 to its last, each in a
\* frame of its own, and all those of its script and stack once they have been placed: as
\* long as the Kernel frees only last pages, asignar_nueva_pagina's count is a new number.
THEOREM PaginasEnFila ==
  ASSUME ~Permite("pagina_ausente"), ~Permite("libera_intermedia")
  PROVE  Spec => [](PaginasUnicas /\ Seguidas /\ CodigoEntero)
<1>1. TablaBien => PaginasUnicas /\ Seguidas /\ CodigoEntero
  BY DEF TablaBien
<1> QED
  BY <1>1, TablaSiempreBien, PTL

-----------------------------------------------------------------------------
(* The script stays in its pages *)

\* The page has been written by NUEVO_PROCESO, if it is of code.
Cargada(q, x) ==
  /\ pc[Kernel] = "ubicar" => pedido[Kernel].pid # q
  /\ pc[Kernel] = "cargar" => pedido[Kernel].pid # q \/ x < vuelta[Kernel]

\* The frame holds the words of the script that go in the page.
Escrita(f, q, x) ==
  \A w \in 0 .. Tam - 1 :
    x * Tam + w < carga[q].largo => memoria[f][w] = PalabraDeScript(q, x * Tam + w + 1)

\* ScriptIntegro, while the script is being loaded too
ScriptPorPartes ==
  \A f \in Frames : \A q \in Creados, x \in Int :
    tabla[f] = [pid |-> q, pagina |-> x] /\ Cargada(q, x) => Escrita(f, q, x)

\* Less times something is not more.
LEMMA PorMonotono ==
  ASSUME NEW a \in Int, NEW b \in Int, NEW k \in Nat, a <= b
  PROVE  a * k <= b * k /\ a * k \in Int /\ b * k \in Int
<1>1. PICK d \in Nat : b = a + d
  <2>1. b - a \in Nat /\ b = a + (b - a)
    OBVIOUS
  <2> QED
    BY <2>1
<1>2. b * k = a * k + d * k /\ a * k \in Int /\ d * k \in Nat
  BY <1>1
<1> QED
  BY <1>2

\* The pages of a script have room for it, ...
LEMMA PaginasAlcanzan ==
  ASSUME NEW p \in Pedido, p.largo \in Scripts, NEW x \in Int, x >= paginas_usadas(p),
         NEW w \in 0 .. Tam - 1
  PROVE  ~(x * Tam + w < p.largo)
<1> DEFINE d == p.largo \div Tam
           m == p.largo % Tam
<1>1. Tam \in Nat \ {0} /\ p.largo \in Nat \ {0}
  BY MemoriaAssumption
<1>2. d \in Nat /\ m \in 0 .. Tam - 1 /\ p.largo = d * Tam + m
  BY <1>1, Division
<1>3. paginas_usadas(p) = d + (IF m > 0 THEN 1 ELSE 0)
  BY DEF paginas_usadas
<1> HIDE DEF d, m
<1>4. CASE m > 0
  <2>1. d + 1 <= x
    BY <1>2, <1>3, <1>4
  <2>2. (d + 1) * Tam <= x * Tam /\ x * Tam \in Int
    BY <2>1, <1>1, <1>2, PorMonotono
  <2>3. (d + 1) * Tam = d * Tam + Tam /\ d * Tam \in Int
    BY <1>1, <1>2
  <2> QED
    BY <2>2, <2>3, <1>1, <1>2
<1>5. CASE m = 0
  <2>1. d <= x
    BY <1>2, <1>3, <1>5
  <2>2. d * Tam <= x * Tam /\ x * Tam \in Int /\ d * Tam \in Int
    BY <2>1, <1>1, <1>2, PorMonotono
  <2> QED
    BY <2>2, <1>1, <1>2, <1>5
<1> QED
  BY <1>2, <1>4, <1>5

\* ... and what the handler copies to each is what goes there, when the last piece is not
\* empty: it copies the remainder of the division, none for a whole number of pages.
LEMMA TrozoCompleto ==
  ASSUME NEW p \in Pedido, p.largo \in Scripts, p.largo % Tam # 0,
         NEW r \in Nat, r < paginas_usadas(p), NEW pagina, NEW w \in 0 .. Tam - 1,
         r * Tam + w < p.largo
  PROVE  ConPalabras(pagina, 0, Trozo(p, r))[w] = PalabraDeScript(p.pid, r * Tam + w + 1)
<1> DEFINE d == p.largo \div Tam
           m == p.largo % Tam
           largo == IF r < paginas_usadas(p) - 1 THEN Tam ELSE m
           desde == IF r < paginas_usadas(p) - 1 THEN r * Tam ELSE d * Tam
<1>1. Tam \in Nat \ {0} /\ p.largo \in Nat \ {0}
  BY MemoriaAssumption
<1>2. d \in Nat /\ m \in 0 .. Tam - 1 /\ p.largo = d * Tam + m
  BY <1>1, Division
<1>3. paginas_usadas(p) = d + (IF m > 0 THEN 1 ELSE 0) /\ m # 0
  BY DEF paginas_usadas
<1>4. Trozo(p, r) = [k \in 1 .. largo |-> PalabraDeScript(p.pid, desde + k)]
  BY DEF Trozo
<1> HIDE DEF d, m
<1>5. paginas_usadas(p) = d + 1 /\ d * Tam \in Nat /\ r * Tam \in Nat
  BY <1>1, <1>2, <1>3
<1>6. largo \in Nat /\ desde = r * Tam /\ w < largo
  <2>1. CASE r < d
    BY <2>1, <1>1, <1>2, <1>5
  <2>2. CASE r = d
    BY <2>2, <1>1, <1>2, <1>5
  <2> QED
    BY <2>1, <2>2, <1>2, <1>5
<1> HIDE DEF largo, desde
<1>7. Len(Trozo(p, r)) = largo
  <2>1. Trozo(p, r) \in Seq({PalabraDeScript(p.pid, desde + k) : k \in 1 .. largo})
    BY SMTT(20), <1>4, <1>6
  <2> QED
    BY <1>4, <1>6, <2>1, LenProperties
<1>8. w \in 0 .. 0 + Len(Trozo(p, r)) - 1 /\ w - 0 + 1 = w + 1 /\ w + 1 \in 1 .. largo
  BY <1>1, <1>6, <1>7
<1>9. ConPalabras(pagina, 0, Trozo(p, r))[w] = Trozo(p, r)[w + 1]
  BY <1>8 DEF ConPalabras
<1>10. Trozo(p, r)[w + 1] = PalabraDeScript(p.pid, r * Tam + (w + 1))
  BY <1>4, <1>6, <1>8
<1>11. r * Tam + (w + 1) = r * Tam + w + 1
  BY <1>1, <1>5
<1> QED
  BY <1>9, <1>10, <1>11

\* A page of code is written, is being written, or holds what it held.
LEMMA ScriptSi ==
  ASSUME Estado, Estado', ScriptPorPartes, SoloAgrega,
         \A f \in Frames : \A q \in Creados', x \in Int :
           tabla'[f] = [pid |-> q, pagina |-> x] /\ Cargada(q, x)' =>
             \/ /\ q \in Creados /\ tabla[f] = [pid |-> q, pagina |-> x]
                /\ Cargada(q, x) /\ memoria'[f] = memoria[f]
             \/ x >= PaginasDeCodigo(q)'
             \/ Escrita(f, q, x)'
  PROVE  ScriptPorPartes'
<1> SUFFICES ASSUME NEW f \in Frames, NEW q \in Creados', NEW x \in Int,
                    tabla'[f] = [pid |-> q, pagina |-> x], Cargada(q, x)'
             PROVE  Escrita(f, q, x)'
  BY DEF ScriptPorPartes
<1>1. CASE /\ q \in Creados /\ tabla[f] = [pid |-> q, pagina |-> x]
           /\ Cargada(q, x) /\ memoria'[f] = memoria[f]
  <2>1. carga'[q] = carga[q] /\ Escrita(f, q, x)
    BY <1>1 DEF SoloAgrega, ScriptPorPartes
  <2> QED
    BY <2>1, <1>1 DEF Escrita, PalabraDeScript
<1>2. CASE x >= PaginasDeCodigo(q)'
  <2>1. PICK p \in Pedido : p = carga'[q]
    BY DEF Estado, TypeOK, Creados
  <2>2. p.largo \in Scripts
    BY <2>1 DEF Estado, HilosBien, CargasBien
  <2>3. x >= paginas_usadas(p)
    BY <1>2, <2>1 DEF PaginasDeCodigo, paginas_usadas
  <2>4. \A w \in 0 .. Tam - 1 : ~(x * Tam + w < p.largo)
    BY <2>2, <2>3, PaginasAlcanzan
  <2> QED
    BY <2>1, <2>4 DEF Escrita
<1> QED
  BY <1>1, <1>2

\* Steps that write no frame and give none, other than those of a load
LEMMA ScriptQuieto ==
  ASSUME Estado, Estado', CacheBien, ScriptPorPartes, SoloAgrega, memoria' = memoria,
         \A f \in Frames : tabla'[f] = tabla[f] \/ tabla'[f] = EntradaLibre,
         \/ pc[Kernel] \notin {"ubicar", "cargar"}
         \/ /\ pc'[Kernel] = pc[Kernel] /\ pedido'[Kernel] = pedido[Kernel]
            /\ vuelta'[Kernel] = vuelta[Kernel]
  PROVE  ScriptPorPartes'
<1>1. ASSUME NEW f \in Frames, NEW q \in Creados', NEW x \in Int,
             tabla'[f] = [pid |-> q, pagina |-> x], Cargada(q, x)'
      PROVE  /\ q \in Creados /\ tabla[f] = [pid |-> q, pagina |-> x]
             /\ Cargada(q, x) /\ memoria'[f] = memoria[f]
  <2>1. q >= 0
    <3>1. q \in Pids
      BY <1>1 DEF Creados
    <3>2. Pids \subseteq Nat
      BY MemoriaAssumption
    <3> QED
      BY <3>1, <3>2
  <2>2. tabla[f] = [pid |-> q, pagina |-> x]
    <3>1. EntradaLibre # [pid |-> q, pagina |-> x]
      BY <2>1 DEF EntradaLibre, LIBRE
    <3> QED
      BY <1>1, <3>1
  <2>3. q \in Creados
    BY <2>1, <2>2 DEF CacheBien, Nacidos
  <2>4. Cargada(q, x)
    BY <1>1 DEF Cargada
  <2> QED
    BY <2>2, <2>3, <2>4
<1> QED
  BY <1>1, ScriptSi

\* GUARDAR_VALOR writes no page of code.
LEMMA ScriptGuardar ==
  ASSUME Estado, Estado', CacheBien, ScriptPorPartes, NEW t \in Hilos, GuardarTrasRetardo(t)
  PROVE  ScriptPorPartes'
<1>1. PICK p \in Pedido : p = pedido[t]
  BY DEF Estado, TypeOK, TipoHilos
<1>2. /\ pc[t] = "escritura" /\ p.pid \in Nat /\ p.pag \in Int
      /\ tabla' = tabla /\ carga' = carga
      /\ escritura(p.pid, p.pag, p.ini, <<p.val>>)
      /\ Terminar(t)
  BY <1>1 DEF GuardarTrasRetardo, Pedido
<1>3. /\ \A u \in Hilos : u # t =>
           pc'[u] = pc[u] /\ pedido'[u] = pedido[u] /\ vuelta'[u] = vuelta[u]
      /\ pc'[t] = "recv"
  BY <1>2 DEF Terminar, Ir, Estado, TypeOK, TipoHilos
<1>4. p.pag >= PaginasDeCodigo(p.pid)
  BY <1>1, <1>2 DEF CacheBien, Pendientes
<1>5. PICK frame : frame = buscar_en_indice(p.pid, p.pag)
  OBVIOUS
<1>6. \A f \in Frames : f # frame => memoria'[f] = memoria[f]
  <2>1. PICK nueva : memoria' = [memoria EXCEPT ![frame] = nueva]
    BY <1>2, <1>5 DEF escritura
  <2>2. \A f \in Frames : f \in Posiciones
    BY MemoriaAssumption DEF Frames, Posiciones
  <2> QED
    BY <2>1, <2>2 DEF Estado, TypeOK, TipoPaginas
<1>7. SoloAgrega /\ Creados' = Creados /\ \A q : PaginasDeCodigo(q)' = PaginasDeCodigo(q)
  BY <1>2 DEF SoloAgrega, Creados, PaginasDeCodigo, paginas_usadas
<1>8. ASSUME NEW f \in Frames, NEW q \in Creados', NEW x \in Int,
             tabla'[f] = [pid |-> q, pagina |-> x], Cargada(q, x)'
      PROVE  \/ /\ q \in Creados /\ tabla[f] = [pid |-> q, pagina |-> x]
                /\ Cargada(q, x) /\ memoria'[f] = memoria[f]
             \/ x >= PaginasDeCodigo(q)'
  <2>1. CASE f = frame
    <3>1. frame = -1 \/ tabla[frame] = [pid |-> p.pid, pagina |-> p.pag]
      BY <1>2, <1>5, BuscarDevuelveLaPagina DEF Estado, TypeOK
    <3>2. frame # -1
      BY <2>1 DEF Frames
    <3>3. q = p.pid /\ x = p.pag
      BY <1>8, <1>2, <2>1, <3>1, <3>2
    <3> QED
      BY <3>3, <1>4, <1>7
  <2>2. CASE f # frame
    <3>1. Cargada(q, x)
      <4>1. Kernel \in Hilos
        BY MemoriaAssumption
      <4> QED
        BY <4>1, <1>2, <1>3, <1>8 DEF Cargada
    <3> QED
      BY <3>1, <2>2, <1>2, <1>6, <1>7, <1>8
  <2> QED
    BY <2>1, <2>2
<1> QED
  BY <1>7, <1>8, ScriptSi

\* A turn of NUEVO_PROCESO's second loop writes its page, and no other.
LEMMA ScriptCargar ==
  ASSUME \A n \in Scripts : n % Tam # 0,
         Estado, Estado', CacheBien, TablaBien, ScriptPorPartes, NEW t \in Hilos, CargarScript(t)
  PROVE  ScriptPorPartes'
<1>1. PICK p \in Pedido : p = pedido[t]
  BY DEF Estado, TypeOK, TipoHilos
<1>2. PICK r \in Nat : r = vuelta[t]
  BY DEF Estado, TypeOK, TipoHilos
<1>3. /\ pc[t] = "cargar" /\ p.pid \in Nat /\ p.largo \in Int
      /\ tabla' = tabla /\ carga' = carga
      /\ escritura(p.pid, r, 0, Trozo(p, r))
      /\ \/ r + 1 = paginas_usadas(p) /\ Terminar(t)
         \/ /\ r + 1 # paginas_usadas(p)
            /\ vuelta' = [vuelta EXCEPT ![t] = r + 1]
            /\ pc' = pc /\ pedido' = pedido
  BY <1>1, <1>2 DEF CargarScript, Pedido
<1>4. t = Kernel /\ p = carga[p.pid] /\ p.pid \in Creados
  BY <1>1, <1>3 DEF Estado, HilosBien, HilosAcordes, EnSeccion
<1>5. /\ paginas_usadas(p) \in Nat /\ paginas_usadas(p) = PaginasDeCodigo(p.pid)
      /\ p.largo \in Scripts
  BY <1>4, PaginasDeCarga DEF Estado, PaginasDeCodigo, HilosBien, CargasBien
<1>6. r < paginas_usadas(p) /\ Tiene(p.pid, r)
  <2>1. /\ r < paginas_usadas(p)
        /\ \A x \in Nat : x < paginas_usadas(p) + p.pag => Tiene(p.pid, x)
    BY <1>1, <1>2, <1>3, <1>4 DEF CacheBien, CargaEnCurso
  <2>2. p.pag \in Nat
    BY <1>4, PaginasDeCarga DEF Estado
  <2>3. r < paginas_usadas(p) + p.pag
    BY <1>2, <1>5, <2>1, <2>2
  <2> QED
    BY <2>1, <2>3, <1>2
<1>7. PICK frame \in Frames :
        /\ frame = buscar_en_indice(p.pid, r)
        /\ tabla[frame] = [pid |-> p.pid, pagina |-> r]
  BY <1>2, <1>3, <1>6, BuscarEncuentra DEF Estado, TypeOK
<1>8. /\ memoria'[frame] = ConPalabras(memoria[frame], 0, Trozo(p, r))
      /\ \A f \in Frames : f # frame => memoria'[f] = memoria[f]
  <2>1. memoria' = [memoria EXCEPT ![frame] = ConPalabras(memoria[frame], 0, Trozo(p, r))]
    BY <1>3, <1>7 DEF escritura
  <2>2. \A f \in Frames : f \in Posiciones
    BY MemoriaAssumption DEF Frames, Posiciones
  <2> QED
    BY <2>1, <2>2 DEF Estado, TypeOK, TipoPaginas
<1>9. SoloAgrega /\ Creados' = Creados /\ \A q : PaginasDeCodigo(q)' = PaginasDeCodigo(q)
  BY <1>3 DEF SoloAgrega, Creados, PaginasDeCodigo, paginas_usadas
<1>10. Escrita(frame, p.pid, r)'
  <2> SUFFICES ASSUME NEW w \in 0 .. Tam - 1, r * Tam + w < p.largo
               PROVE  memoria'[frame][w] = PalabraDeScript(p.pid, r * Tam + w + 1)
    BY <1>3, <1>4 DEF Escrita, PalabraDeScript
  <2>1. p.largo % Tam # 0
    BY <1>5
  <2> QED
    BY <2>1, <1>2, <1>5, <1>6, <1>8, TrozoCompleto
<1>11. ASSUME NEW f \in Frames, NEW q \in Creados', NEW x \in Int,
              tabla'[f] = [pid |-> q, pagina |-> x], Cargada(q, x)'
       PROVE  \/ /\ q \in Creados /\ tabla[f] = [pid |-> q, pagina |-> x]
                 /\ Cargada(q, x) /\ memoria'[f] = memoria[f]
              \/ x >= PaginasDeCodigo(q)'
              \/ Escrita(f, q, x)'
  <2>1. CASE f = frame
    <3>1. q = p.pid /\ x = r
      BY <1>3, <1>7, <1>11, <2>1
    <3> QED
      BY <3>1, <2>1, <1>10
  <2>2. CASE f # frame /\ q # p.pid
    <3>1. Cargada(q, x)
      BY <2>2, <1>1, <1>3, <1>4 DEF Cargada
    <3> QED
      BY <3>1, <2>2, <1>3, <1>8, <1>9, <1>11
  <2>3. CASE f # frame /\ q = p.pid
    <3>1. x # r
      BY <2>3, <1>3, <1>7, <1>11 DEF TablaBien, PaginasUnicas
    <3>2. CASE x < r
      <4>1. Cargada(q, x)
        BY <2>3, <3>2, <1>1, <1>2, <1>3, <1>4 DEF Cargada
      <4> QED
        BY <4>1, <2>3, <1>3, <1>8, <1>9, <1>11
    <3>3. CASE r < x
      <4>1. CASE r + 1 = paginas_usadas(p)
        BY <4>1, <3>3, <2>3, <1>2, <1>5, <1>9
      <4>2. CASE r + 1 # paginas_usadas(p)
        <5>1. pc'[Kernel] = "cargar" /\ pedido'[Kernel] = p /\ vuelta'[Kernel] = r + 1
          BY <4>2, <1>1, <1>3, <1>4 DEF Estado, TypeOK, TipoHilos
        <5>2. x < r + 1
          BY <5>1, <2>3, <1>11 DEF Cargada
        <5> QED
          BY <5>2, <3>3, <1>2, <1>11
      <4> QED
        BY <4>1, <4>2
    <3> QED
      BY <3>1, <3>2, <3>3, <1>2, <1>11
  <2> QED
    BY <2>1, <2>2, <2>3
<1> QED
  BY <1>9, <1>11, ScriptSi

\* A page that is given is of stack or heap, or is not written yet.
LEMMA ScriptUbica ==
  ASSUME Estado, Estado', CacheBien, TablaBien, ScriptPorPartes, NEW pid \in Creados, NEW n \in Int,
         UbicarPagina(pid, n), carga' = carga,
         \A f \in Frames : tabla[f].pid # LIBRE => memoria'[f] = memoria[f],
         \A q \in Creados, x \in Int :
           Cargada(q, x)' => Cargada(q, x) \/ (q = pid /\ (x < 0 \/ x >= n)),
         Cargada(pid, n)' => n >= PaginasDeCodigo(pid),
         \A q : ~EnBaja(q), \A f \in Frames : tabla[f].pid = pid => tabla[f].pagina < n
  PROVE  ScriptPorPartes'
<1>1. PICK frame \in Frames : \A f \in Frames :
        tabla'[f] = IF f = frame THEN [pid |-> pid, pagina |-> n] ELSE tabla[f]
  <2>1. TypeOK /\ TypeOK' /\ IndiceCoherente /\ pid \in Nat
    BY PaginasDeCarga DEF Estado
  <2> QED
    BY <2>1, CuentaTrasUbicar
<1>2. SoloAgrega /\ Creados' = Creados /\ \A q : PaginasDeCodigo(q)' = PaginasDeCodigo(q)
  BY DEF SoloAgrega, Creados, PaginasDeCodigo, paginas_usadas
<1>3. ASSUME NEW f \in Frames, NEW q \in Creados', NEW x \in Int,
             tabla'[f] = [pid |-> q, pagina |-> x], Cargada(q, x)'
      PROVE  \/ /\ q \in Creados /\ tabla[f] = [pid |-> q, pagina |-> x]
                /\ Cargada(q, x) /\ memoria'[f] = memoria[f]
             \/ x >= PaginasDeCodigo(q)'
  <2>1. CASE f = frame
    <3>1. q = pid /\ x = n
      BY <1>1, <1>3, <2>1
    <3> QED
      BY <3>1, <1>2, <1>3
  <2>2. CASE f # frame
    <3>1. tabla[f] = [pid |-> q, pagina |-> x] /\ q \in Creados
      BY <1>1, <1>2, <1>3, <2>2
    <3>2. q \in Nat
      BY <3>1, PaginasDeCarga DEF Estado
    <3>3. memoria'[f] = memoria[f]
      BY <3>1, <3>2 DEF LIBRE
    <3>4. x \in Nat
      BY <3>1, <3>2 DEF TablaBien, Seguidas
    <3>5. q = pid => x < n
      BY <3>1
    <3>6. Cargada(q, x)
      BY <3>1, <3>4, <3>5, <1>3
    <3> QED
      BY <3>1, <3>3, <3>6
  <2> QED
    BY <2>1, <2>2
<1> QED
  BY <1>2, <1>3, ScriptSi

LEMMA ScriptUbicar ==
  ASSUME Estado, Estado', CacheBien, TablaBien, ScriptPorPartes,
         NEW t \in Hilos, UbicarTrasPedido(t)
  PROVE  ScriptPorPartes'
<1>1. PICK p \in Pedido : p = pedido[t]
  BY DEF Estado, TypeOK, TipoHilos
<1>2. PICK n \in Nat : n = vuelta[t]
  BY DEF Estado, TypeOK, TipoHilos
<1>3. /\ pc[t] = "ubicar" /\ UbicarPagina(p.pid, n)
      /\ vuelta' = [vuelta EXCEPT ![t] = IF n + 1 = paginas_usadas(p) + p.pag
                                         THEN 0 ELSE n + 1]
      /\ pc' = [pc EXCEPT ![t] = IF n + 1 = paginas_usadas(p) + p.pag
                                 THEN "cargar" ELSE "ubicar"]
      /\ pedido' = pedido /\ carga' = carga /\ memoria' = memoria
  BY <1>1, <1>2 DEF UbicarTrasPedido, Ir
<1>4. t = Kernel /\ p.pid \in Creados /\ p.pid \in Nat
  BY <1>1, <1>3 DEF Estado, HilosBien, HilosAcordes, EnSeccion, Pedido
<1>5. \/ pc'[Kernel] = "cargar" /\ vuelta'[Kernel] = 0
      \/ pc'[Kernel] = "ubicar"
  BY <1>3, <1>4 DEF Estado, TypeOK, TipoHilos
<1>6. pedido[Kernel] = p /\ pedido'[Kernel] = p /\ pc[Kernel] = "ubicar"
  BY <1>1, <1>3, <1>4
<1>7. \A q : ~EnBaja(q)
  BY <1>6, BajaDelKernel DEF Estado
<1>8. \A f \in Frames : tabla[f].pid = p.pid => tabla[f].pagina < n
  <2>1. n = paginas_de_proceso(p.pid)
    BY <1>2, <1>4, <1>6 DEF TablaBien, VueltaCuenta
  <2> QED
    BY <2>1, <1>4, <1>7 DEF TablaBien, Seguidas
<1>9. \A q \in Creados, x \in Int :
        Cargada(q, x)' => Cargada(q, x) \/ (q = p.pid /\ (x < 0 \/ x >= n))
  BY <1>5, <1>6 DEF Cargada
<1>10. ~Cargada(p.pid, n)'
  <2>1. ~(n < 0)
    BY <1>2
  <2> QED
    BY <2>1, <1>5, <1>6 DEF Cargada
<1>11. n \in Int
  BY <1>2
<1> QED
  BY <1>3, <1>4, <1>7, <1>8, <1>9, <1>10, <1>11, ScriptUbica

LEMMA ScriptHeap ==
  ASSUME Estado, Estado', CacheBien, TablaBien, ScriptPorPartes,
         NEW p \in Heaps, SolicitarHeap(Kernel, p)
  PROVE  ScriptPorPartes'
<1>0. Kernel \in Hilos
  BY MemoriaAssumption
<1>1. /\ p \in Pedido /\ p.pid \in Disponibles /\ MarcosDe(p.pid) # {}
      /\ Atender(Kernel, p, "recv") /\ carga' = carga /\ p.pid \in Nat
  BY TipoPedidos DEF Heaps, Estado, SolicitarHeap, Pedido
<1>2. p.pid \in Creados
  BY <1>1 DEF Disponibles
<1>3. pc[Kernel] = "recv" /\ pc'[Kernel] = "recv"
  BY <1>0, <1>1 DEF Atender, Ir, Estado, TypeOK, TipoHilos
<1>4. CASE marcos_libres >= 1
  <2>1. PICK n : n = paginas_de_proceso(p.pid)
    OBVIOUS
  <2>2. n \in Nat
    BY <2>1, CuentaEsNat DEF paginas_de_proceso, MarcosDe
  <2>3. PICK frame : frame = PrimerLibre(calcular_posicion(p.pid, n))
    OBVIOUS
  <2>4. UbicarPagina(p.pid, n) /\ memoria' = [memoria EXCEPT ![frame][0] = Cabecera]
    BY <1>4, <2>1, <2>3 DEF SolicitarHeap
  <2>5. frame \in Libres
    <3>1. calcular_posicion(p.pid, n) \in Frames
      BY <1>1, <2>2, PosicionEsFrame
    <3> QED
      BY <2>3, <2>4, <3>1, PrimerLibreEsLibre DEF UbicarPagina
  <2>6. \A f \in Frames : tabla[f].pid # LIBRE => memoria'[f] = memoria[f]
    <3>1. \A f \in Frames : f \in Posiciones
      BY MemoriaAssumption DEF Frames, Posiciones
    <3> QED
      BY <2>4, <2>5, <3>1 DEF Libres, Estado, TypeOK, TipoPaginas
  <2>7. \A q : ~EnBaja(q)
    BY <1>3, BajaDelKernel DEF Estado
  <2>8. \A f \in Frames : tabla[f].pid = p.pid => tabla[f].pagina < n
    BY <1>1, <2>1, <2>7 DEF TablaBien, Seguidas
  <2>9. n >= PaginasDeCodigo(p.pid)
    <3>1. PICK c \in Nat \ {0}, s \in Nat \ {0} :
            c = PaginasDeCodigo(p.pid) /\ s = carga[p.pid].pag
      BY <1>2, PaginasDeCarga DEF Estado
    <3>2. PaginasIniciales(p.pid) = c + s
      BY <3>1 DEF PaginasIniciales
    <3>3. ~Muriendo(p.pid) /\ ~Ubicandose(p.pid)
      BY <1>1, <1>3, <2>7 DEF Muriendo, Ubicandose
    <3>4. c + s - 1 \in Nat /\ c + s - 1 < PaginasIniciales(p.pid)
      BY <3>1, <3>2
    <3>5. Tiene(p.pid, c + s - 1)
      BY <1>2, <3>3, <3>4 DEF TablaBien, CodigoEntero
    <3>6. PICK f \in Frames : tabla[f] = [pid |-> p.pid, pagina |-> c + s - 1]
      BY <3>5 DEF Tiene
    <3>7. c + s - 1 < n
      BY <2>8, <3>6
    <3> QED
      BY <2>2, <3>1, <3>7
  <2>10. \A q, x : Cargada(q, x)
    BY <1>3 DEF Cargada
  <2>11. n \in Int
    BY <2>2
  <2> QED
    BY <1>1, <1>2, <2>4, <2>6, <2>7, <2>8, <2>9, <2>10, <2>11, ScriptUbica
<1>5. CASE ~(marcos_libres >= 1)
  <2>1. tabla' = tabla /\ memoria' = memoria
    BY <1>5 DEF SolicitarHeap
  <2>2. SoloAgrega
    BY <1>1 DEF SoloAgrega, Creados
  <2>3. pc[Kernel] \notin {"ubicar", "cargar"}
    BY <1>3
  <2> QED
    BY <2>1, <2>2, <2>3, ScriptQuieto
<1> QED
  BY <1>4, <1>5

\* A request is taken or ended, and no frame written or given.
LEMMA ScriptHilos ==
  ASSUME Estado, Estado', CacheBien, ScriptPorPartes, SoloAgrega, memoria' = memoria,
         NEW t \in Hilos, pc[t] \notin {"ubicar", "cargar"},
         \A f \in Frames : tabla'[f] = tabla[f] \/ tabla'[f] = EntradaLibre,
         \A u \in Hilos : u # t =>
           pc'[u] = pc[u] /\ pedido'[u] = pedido[u] /\ vuelta'[u] = vuelta[u]
  PROVE  ScriptPorPartes'
<1>1. Kernel \in Hilos
  BY MemoriaAssumption
<1>2. CASE t = Kernel
  BY <1>2, ScriptQuieto
<1>3. CASE t # Kernel
  BY <1>1, <1>3, ScriptQuieto
<1> QED
  BY <1>2, <1>3

LEMMA ScriptSigue ==
  ASSUME \A n \in Scripts : n % Tam # 0
  PROVE  Estado /\ Estado' /\ CacheBien /\ TablaBien /\ ScriptPorPartes /\ [Next]_vars
         => ScriptPorPartes'
<1> SUFFICES ASSUME Estado, Estado', CacheBien, TablaBien, ScriptPorPartes, [Next]_vars
             PROVE  ScriptPorPartes'
  OBVIOUS
<1>0. Kernel \in Hilos
  BY MemoriaAssumption
<1>1. ASSUME NEW t \in Hilos, NEW p, NEW donde, Atender(t, p, donde), SoloAgrega,
             memoria' = memoria, tabla' = tabla
      PROVE  ScriptPorPartes'
  <2>1. /\ pc[t] = "recv"
        /\ \A u \in Hilos : u # t =>
             pc'[u] = pc[u] /\ pedido'[u] = pedido[u] /\ vuelta'[u] = vuelta[u]
    BY <1>1 DEF Atender, Ir, Estado, TypeOK, TipoHilos
  <2> QED
    BY <1>1, <2>1, ScriptHilos
<1>2. ASSUME NEW t \in Hilos, PedidoDeCpu(t)
      PROVE  ScriptPorPartes'
  <2>1. SoloAgrega /\ memoria' = memoria /\ tabla' = tabla
    BY <1>2 DEF PedidoDeCpu, LeerEnCache, LeerSinCache, GuardarValor, SoloAgrega, Creados
  <2>2. \E p, donde : Atender(t, p, donde)
    BY <1>2 DEF PedidoDeCpu, LeerEnCache, LeerSinCache, GuardarValor
  <2> QED
    BY <2>1, <2>2, <1>1
<1>3. CASE PedidoDeKernel(Kernel)
  <2>1. ASSUME NEW p \in Cargas, NuevoProceso(Kernel, p)
        PROVE  ScriptPorPartes'
    <3>1. SoloAgrega
      BY <2>1, CargaNueva DEF Estado
    <3>2. /\ Atender(Kernel, p, "ubicar") \/ Atender(Kernel, p, "recv")
          /\ memoria' = memoria /\ tabla' = tabla
      BY <2>1 DEF NuevoProceso
    <3> QED
      BY <1>0, <1>1, <3>1, <3>2
  <2>2. ASSUME NEW p \in Bajas, EliminarProceso(Kernel, p)
        PROVE  ScriptPorPartes'
    <3>1. SoloAgrega /\ Atender(Kernel, p, "finalizar") /\ memoria' = memoria /\ tabla' = tabla
      BY <2>2 DEF EliminarProceso, SoloAgrega, Creados
    <3> QED
      BY <1>0, <1>1, <3>1
  <2>3. ASSUME NEW p \in Liberaciones, LiberarPagina(Kernel, p)
        PROVE  ScriptPorPartes'
    <3>1. PICK frame : frame = buscar_en_indice(p.pid, p.pag)
      OBVIOUS
    <3>2. /\ LiberarMarco(frame) /\ Atender(Kernel, p, "recv")
          /\ SoloAgrega /\ memoria' = memoria
      BY <2>3, <3>1 DEF LiberarPagina, SoloAgrega, Creados
    <3>3. \A f \in Frames : tabla'[f] = tabla[f] \/ tabla'[f] = EntradaLibre
      BY <3>2 DEF LiberarMarco, Estado, TypeOK, TipoTabla
    <3>4. /\ pc[Kernel] = "recv"
          /\ \A u \in Hilos : u # Kernel =>
               pc'[u] = pc[u] /\ pedido'[u] = pedido[u] /\ vuelta'[u] = vuelta[u]
      BY <1>0, <3>2 DEF Atender, Ir, Estado, TypeOK, TipoHilos
    <3> QED
      BY <1>0, <3>2, <3>3, <3>4, ScriptHilos
  <2> QED
    BY <1>0, <1>2, <1>3, <2>1, <2>2, <2>3, ScriptHeap DEF PedidoDeKernel
<1>4. ASSUME NEW t \in Hilos, Paso(t)
      PROVE  ScriptPorPartes'
  <2>1. CASE LeerTrasRetardo(t) \/ FinalizarFin(t)
    <3>1. /\ Terminar(t) /\ carga' = carga /\ tabla' = tabla /\ memoria' = memoria
          /\ pc[t] \notin {"ubicar", "cargar"}
      BY <2>1 DEF LeerTrasRetardo, FinalizarFin
    <3>2. /\ SoloAgrega
          /\ \A u \in Hilos : u # t =>
               pc'[u] = pc[u] /\ pedido'[u] = pedido[u] /\ vuelta'[u] = vuelta[u]
      BY <3>1 DEF Terminar, Ir, SoloAgrega, Creados, Estado, TypeOK, TipoHilos
    <3> QED
      BY <3>1, <3>2, ScriptHilos
  <2>2. CASE FinalizarMarco(t)
    <3>1. PICK frame : LiberarMarco(frame)
      BY <2>2 DEF FinalizarMarco
    <3>2. /\ pc[t] = "finalizar" /\ carga' = carga /\ memoria' = memoria
          /\ pc' = pc /\ pedido' = pedido /\ vuelta' = vuelta
      BY <2>2 DEF FinalizarMarco
    <3>3. \A f \in Frames : tabla'[f] = tabla[f] \/ tabla'[f] = EntradaLibre
      BY <3>1 DEF LiberarMarco, Estado, TypeOK, TipoTabla
    <3>4. SoloAgrega
      BY <3>2 DEF SoloAgrega, Creados
    <3> QED
      BY <3>2, <3>3, <3>4, ScriptHilos
  <2> QED
    BY <1>4, <2>1, <2>2, ScriptGuardar, ScriptUbicar, ScriptCargar DEF Paso
<1>5. ASSUME NEW t \in Hilos, Desconectar(t) \/ Conectar(t)
      PROVE  ScriptPorPartes'
  <2>1. /\ tabla' = tabla /\ carga' = carga /\ pedido' = pedido /\ vuelta' = vuelta
        /\ memoria' = memoria /\ pc[t] \in {"recv", "cerrado"}
        /\ (pc' = [pc EXCEPT ![t] = "recv"] \/ pc' = [pc EXCEPT ![t] = "cerrado"])
    BY <1>5 DEF Desconectar, Conectar, Ir
  <2>2. SoloAgrega /\ \A u \in Hilos : u # t => pc'[u] = pc[u]
    BY <2>1 DEF SoloAgrega, Creados, Estado, TypeOK, TipoHilos
  <2> QED
    BY <2>1, <2>2, ScriptHilos
<1>6. CASE flush \/ UNCHANGED vars
  <2>1. /\ tabla' = tabla /\ carga' = carga /\ pedido' = pedido /\ vuelta' = vuelta
        /\ memoria' = memoria /\ pc' = pc
    BY <1>6 DEF flush, vars
  <2>2. SoloAgrega
    BY <2>1 DEF SoloAgrega, Creados
  <2> QED
    BY <2>1, <2>2, ScriptQuieto
<1> QED
  BY <1>2, <1>3, <1>4, <1>5, <1>6 DEF Next

LEMMA ScriptAlInicio == Init => ScriptPorPartes
<1> SUFFICES ASSUME Init PROVE ScriptPorPartes
  OBVIOUS
<1>1. Creados = {}
  BY DEF Init, Creados
<1> QED
  BY <1>1 DEF ScriptPorPartes

LEMMA ScriptSiempre ==
  ASSUME ~Permite("pagina_ausente"), ~Permite("libera_intermedia"),
         \A n \in Scripts : n % Tam # 0
  PROVE  Spec => []ScriptPorPartes
BY ScriptAlInicio, ScriptSigue, CacheSiempreBien, TablaSiempreBien, SiempreEnEstado, PTL DEF Spec

\* Once no thread is loading, what is said page by page is ScriptIntegro.
LEMMA ScriptEsIntegro == Estado /\ ScriptPorPartes => ScriptIntegro
<1> SUFFICES ASSUME Estado, ScriptPorPartes, NEW f \in Frames,
                    tabla[f].pid \in Creados, \A t \in Hilos : pc[t] \notin {"ubicar", "cargar"},
                    NEW w \in 0 .. Tam - 1,
                    tabla[f].pagina * Tam + w < carga[tabla[f].pid].largo
             PROVE  memoria[f][w]
                      = PalabraDeScript(tabla[f].pid, tabla[f].pagina * Tam + w + 1)
  BY DEF ScriptIntegro
<1>1. PICK q \in Creados, x \in Int : tabla[f] = [pid |-> q, pagina |-> x]
  <2>1. tabla[f] \in [pid : Int, pagina : Int]
    BY DEF Estado, TypeOK, TipoTabla
  <2>2. tabla[f] = [pid |-> tabla[f].pid, pagina |-> tabla[f].pagina] /\ tabla[f].pagina \in Int
    BY <2>1
  <2> QED
    BY <2>2
<1>2. Cargada(q, x)
  BY MemoriaAssumption DEF Cargada
<1>3. Escrita(f, q, x)
  BY <1>1, <1>2 DEF ScriptPorPartes
<1>4. tabla[f].pid = q /\ tabla[f].pagina = x
  BY <1>1
<1> QED
  BY <1>3, <1>4 DEF Escrita

-----------------------------------------------------------------------------
(* Nothing is cached of the dead *)

\* CacheSinFantasmas, and what a thread is going to write
SinMuertas ==
  /\ \A j \in Slots : \A q \in Nat, x \in Int : EsDe(j, q, x) => Tiene(q, x) \/ EnBaja(q)
  /\ \A u \in Hilos, p \in Pedido :
       pedido[u] = p /\ pc[u] = "escritura" => Tiene(p.pid, p.pag)

\* The table stays; what enters the cache is of pages that exist.
LEMMA MuertasQuietas ==
  ASSUME SinMuertas, tabla' = tabla,
         \A j \in Slots : \A q \in Nat, x \in Int :
           EsDe(j, q, x)' => Tiene(q, x) \/ (EsDe(j, q, x) /\ (EnBaja(q) => EnBaja(q)')),
         \A u \in Hilos : pc'[u] = "escritura" =>
           \/ pc[u] = "escritura" /\ pedido'[u] = pedido[u]
           \/ \A p \in Pedido : pedido'[u] = p => Tiene(p.pid, p.pag)
  PROVE  SinMuertas'
<1>1. \A q, x : Tiene(q, x)' = Tiene(q, x)
  BY DEF Tiene
<1>2. \A j \in Slots : \A q \in Nat, x \in Int : EsDe(j, q, x)' => Tiene(q, x)' \/ EnBaja(q)'
  BY <1>1 DEF SinMuertas
<1>3. \A u \in Hilos, p \in Pedido :
        pedido'[u] = p /\ pc'[u] = "escritura" => Tiene(p.pid, p.pag)'
  BY <1>1 DEF SinMuertas
<1> QED
  BY <1>2, <1>3 DEF SinMuertas

\* A request is taken; if it is a write, of a page that the process has.
LEMMA MuertasAtender ==
  ASSUME Estado, SinMuertas, NEW t \in Hilos, NEW p \in Pedido, NEW donde,
         Atender(t, p, donde), tabla' = tabla, cache' = cache,
         donde = "escritura" => Tiene(p.pid, p.pag)
  PROVE  SinMuertas'
<1>1. /\ pc[t] = "recv" /\ pc'[t] = donde
      /\ donde # "recv" => pedido'[t] = p
      /\ \A u \in Hilos : u # t => pc'[u] = pc[u] /\ pedido'[u] = pedido[u]
  BY DEF Atender, Ir, Estado, TypeOK, TipoHilos
<1>2. \A q : EnBaja(q) => EnBaja(q)'
  BY <1>1 DEF EnBaja
<1>3. \A j, q, x : EsDe(j, q, x)' = EsDe(j, q, x)
  BY DEF EsDe
<1>4. \A u \in Hilos : pc'[u] = "escritura" =>
           \/ pc[u] = "escritura" /\ pedido'[u] = pedido[u]
           \/ \A y \in Pedido : pedido'[u] = y => Tiene(y.pid, y.pag)
  BY <1>1
<1> QED
  BY <1>2, <1>3, <1>4, MuertasQuietas

\* A thread that is not ending a process puts an existing page in the cache, or writes it.
LEMMA MuertasPone ==
  ASSUME Estado, SinMuertas, NEW t \in Hilos, NEW q \in Nat, NEW x \in Int, Tiene(q, x),
         tabla' = tabla, pc[t] # "finalizar", pc'[t] # "escritura",
         \A u \in Hilos : u # t => pc'[u] = pc[u] /\ pedido'[u] = pedido[u],
         \A j \in Slots : \/ cache'[j] = cache[j]
                          \/ cache'[j].pid = q /\ cache'[j].pagina = x
  PROVE  SinMuertas'
<1>1. \A y : EnBaja(y) => EnBaja(y)'
  BY DEF EnBaja
<1>2. \A j \in Slots : \A y \in Nat, z \in Int :
        EsDe(j, y, z)' => Tiene(y, z) \/ EsDe(j, y, z)
  BY DEF EsDe
<1> QED
  BY <1>1, <1>2, MuertasQuietas

LEMMA MuertasLeer ==
  ASSUME Estado, SinMuertas, NEW t \in Hilos, LeerTrasRetardo(t)
  PROVE  SinMuertas'
<1>1. PICK p \in Pedido : p = pedido[t]
  BY DEF Estado, TypeOK, TipoHilos
<1>2. PICK frame : frame = buscar_en_indice(p.pid, p.pag)
  OBVIOUS
<1>3. p.pid \in Nat /\ p.pag \in Int
  BY DEF Pedido
<1>4. /\ pc[t] = "lectura" /\ Terminar(t) /\ tabla' = tabla
      /\ frame < 0 => cache' = cache
      /\ ~(frame < 0) => insertar_entrada(p.pid, p.pag, memoria[frame])
  BY <1>1, <1>2 DEF LeerTrasRetardo
<1>5. pc'[t] = "recv" /\ \A u \in Hilos : u # t => pc'[u] = pc[u] /\ pedido'[u] = pedido[u]
  BY <1>4 DEF Terminar, Ir, Estado, TypeOK, TipoHilos
<1>6. CASE frame < 0
  <2>1. \A q : EnBaja(q) => EnBaja(q)'
    BY <1>4, <1>5 DEF EnBaja
  <2>2. cache' = cache /\ \A j, q, x : EsDe(j, q, x)' = EsDe(j, q, x)
    BY <1>4, <1>6 DEF EsDe
  <2> QED
    BY <1>4, <1>5, <2>1, <2>2, MuertasQuietas
<1>7. CASE ~(frame < 0)
  <2>1. Tiene(p.pid, p.pag)
    <3>1. ~Tiene(p.pid, p.pag) <=> frame = -1
      BY <1>2, <1>3, BuscarEncuentra DEF Estado, TypeOK
    <3> QED
      BY <3>1, <1>7
  <2>2. insertar_entrada(p.pid, p.pag, memoria[frame])
    BY <1>4, <1>7
  <2>3. \A j \in Slots : \/ cache'[j] = cache[j]
                         \/ cache'[j].pid = p.pid /\ cache'[j].pagina = p.pag
    <3>1. PICK aux \in Int : \A j \in Slots :
            cache'[j] = IF j = aux THEN Entrada(p.pid, p.pag, memoria[frame]) ELSE cache[j]
      BY <2>2, InsertarDeja DEF Estado
    <3> QED
      BY <3>1 DEF Entrada
  <2> QED
    BY <1>3, <1>4, <1>5, <2>1, <2>3, MuertasPone
<1> QED
  BY <1>6, <1>7

LEMMA MuertasEscribir ==
  ASSUME Estado, CacheBien, SinMuertas, NEW t \in Hilos,
         GuardarTrasRetardo(t) \/ CargarScript(t)
  PROVE  SinMuertas'
<1>1. PICK p \in Pedido : p = pedido[t]
  BY DEF Estado, TypeOK, TipoHilos
<1>2. p.pid \in Nat /\ p.pag \in Int /\ vuelta[t] \in Nat
  BY DEF Pedido, Estado, TypeOK, TipoHilos
<1>3. PICK x \in Int :
        /\ \E offset, v : escritura(p.pid, x, offset, v)
        /\ \/ pc[t] = "escritura" /\ x = p.pag /\ Terminar(t)
           \/ /\ pc[t] = "cargar" /\ x = vuelta[t]
              /\ Terminar(t) \/ (pc' = pc /\ pedido' = pedido)
        /\ tabla' = tabla
  <2>1. CASE GuardarTrasRetardo(t)
    <3>1. escritura(p.pid, p.pag, p.ini, <<p.val>>) /\ pc[t] = "escritura" /\ Terminar(t)
          /\ tabla' = tabla
      BY <1>1, <2>1 DEF GuardarTrasRetardo
    <3> QED
      BY <1>2, <3>1
  <2>2. CASE CargarScript(t)
    <3>1. /\ escritura(p.pid, vuelta[t], 0, Trozo(p, vuelta[t])) /\ pc[t] = "cargar"
          /\ Terminar(t) \/ (pc' = pc /\ pedido' = pedido)
          /\ tabla' = tabla
      BY <1>1, <2>2 DEF CargarScript
    <3> QED
      BY <1>2, <3>1
  <2> QED
    BY <2>1, <2>2
<1>4. Tiene(p.pid, x)
  <2>1. CASE pc[t] = "escritura"
    BY <1>1, <1>3, <2>1 DEF SinMuertas
  <2>2. CASE pc[t] = "cargar"
    <3>1. t = Kernel /\ p = carga[p.pid] /\ p.pid \in Creados
      BY <1>1, <2>2 DEF Estado, HilosBien, HilosAcordes, EnSeccion
    <3>2. p.pag \in Nat /\ paginas_usadas(p) \in Nat
      <4>1. p.pag \in Stacks /\ p.largo \in Scripts
        BY <3>1 DEF Estado, HilosBien, CargasBien
      <4> QED
        BY <4>1, ScriptConPaginas, MemoriaAssumption
    <3>3. /\ vuelta[Kernel] < paginas_usadas(p)
          /\ \A r \in Nat : r < paginas_usadas(p) + p.pag => Tiene(p.pid, r)
      BY <1>1, <2>2, <3>1 DEF CacheBien, CargaEnCurso
    <3>4. x = vuelta[Kernel] /\ vuelta[Kernel] \in Nat
      BY <1>2, <1>3, <2>2, <3>1
    <3> QED
      BY <3>2, <3>3, <3>4
  <2> QED
    BY <1>3, <2>1, <2>2
<1>5. /\ pc[t] # "finalizar" /\ pc'[t] # "escritura"
      /\ \A u \in Hilos : u # t => pc'[u] = pc[u] /\ pedido'[u] = pedido[u]
  <2>1. CASE Terminar(t)
    BY <1>3, <2>1 DEF Terminar, Ir, Estado, TypeOK, TipoHilos
  <2>2. CASE pc' = pc /\ pedido' = pedido /\ pc[t] = "cargar"
    BY <2>2
  <2> QED
    BY <1>3, <2>1, <2>2
<1>6. \A j \in Slots : \/ cache'[j] = cache[j]
                       \/ cache'[j].pid = p.pid /\ cache'[j].pagina = x
  BY <1>2, <1>3, EscrituraDeja DEF Estado
<1> QED
  BY <1>2, <1>3, <1>4, <1>5, <1>6, MuertasPone

\* A process gets a page.
LEMMA MuertasUbica ==
  ASSUME Estado, TypeOK', SinMuertas, NEW pid \in Nat, NEW n \in Int, UbicarPagina(pid, n),
         cache' = cache,
         \A q : EnBaja(q) => EnBaja(q)',
         \A u \in Hilos : pc'[u] = "escritura" => pc[u] = "escritura" /\ pedido'[u] = pedido[u]
  PROVE  SinMuertas'
<1>1. \A q \in Nat, x \in Int : Tiene(q, x) => Tiene(q, x)'
  BY TablaTrasUbicar DEF Estado
<1>2. \A j, q, x : EsDe(j, q, x)' = EsDe(j, q, x)
  BY DEF EsDe
<1>3. \A j \in Slots : \A q \in Nat, x \in Int : EsDe(j, q, x)' => Tiene(q, x)' \/ EnBaja(q)'
  BY <1>1, <1>2 DEF SinMuertas
<1>4. \A u \in Hilos, p \in Pedido :
        pedido'[u] = p /\ pc'[u] = "escritura" => Tiene(p.pid, p.pag)'
  BY <1>1 DEF SinMuertas, Pedido
<1> QED
  BY <1>3, <1>4 DEF SinMuertas

LEMMA MuertasUbicar ==
  ASSUME Estado, TypeOK', SinMuertas, NEW t \in Hilos, UbicarTrasPedido(t)
  PROVE  SinMuertas'
<1>1. PICK p \in Pedido : p = pedido[t]
  BY DEF Estado, TypeOK, TipoHilos
<1>2. p.pid \in Nat /\ vuelta[t] \in Int
  BY DEF Pedido, Estado, TypeOK, TipoHilos
<1>3. /\ pc[t] = "ubicar" /\ UbicarPagina(p.pid, vuelta[t])
      /\ cache' = cache /\ pedido' = pedido
      /\ (Ir(t, "cargar") \/ Ir(t, "ubicar"))
  BY <1>1 DEF UbicarTrasPedido
<1>4. pc'[t] \in {"ubicar", "cargar"} /\ \A u \in Hilos : u # t => pc'[u] = pc[u]
  BY <1>3 DEF Ir, Estado, TypeOK, TipoHilos
<1>5. \A q : EnBaja(q) => EnBaja(q)'
  BY <1>3, <1>4 DEF EnBaja
<1> QED
  BY <1>2, <1>3, <1>4, <1>5, MuertasUbica

LEMMA MuertasHeap ==
  ASSUME Estado, TypeOK', SinMuertas, NEW p \in Heaps, SolicitarHeap(Kernel, p)
  PROVE  SinMuertas'
<1>0. Kernel \in Hilos /\ p \in Pedido
  BY MemoriaAssumption, TipoPedidos DEF Estado
<1>1. PICK n : n = paginas_de_proceso(p.pid)
  OBVIOUS
<1>2. Atender(Kernel, p, "recv") /\ cache' = cache
  BY DEF SolicitarHeap
<1>3. \/ UbicarPagina(p.pid, n)
      \/ tabla' = tabla
  BY <1>1 DEF SolicitarHeap
<1>4. CASE tabla' = tabla
  BY <1>0, <1>2, <1>4, MuertasAtender
<1>5. CASE UbicarPagina(p.pid, n)
  <2>1. p.pid \in Nat /\ n \in Int
    <3>1. MarcosDe(p.pid) \in SUBSET Frames
      BY DEF MarcosDe
    <3> QED
      BY <3>1, <1>0, <1>1, CuentaEsNat DEF Pedido, paginas_de_proceso
  <2>2. /\ pc[Kernel] = "recv" /\ pc'[Kernel] = "recv"
        /\ \A u \in Hilos : u # Kernel => pc'[u] = pc[u] /\ pedido'[u] = pedido[u]
    BY <1>0, <1>2 DEF Atender, Ir, Estado, TypeOK, TipoHilos
  <2>3. \A q : EnBaja(q) => EnBaja(q)'
    BY <2>2 DEF EnBaja
  <2> QED
    BY <1>2, <1>5, <2>1, <2>2, <2>3, MuertasUbica
<1> QED
  BY <1>3, <1>4, <1>5

\* While finalizar_proceso takes the frames of a process no other thread is at a page.
LEMMA MuertasFinalizarMarco ==
  ASSUME Estado, TypeOK', Exclusion, SinMuertas, NEW t \in Hilos, FinalizarMarco(t)
  PROVE  SinMuertas'
<1>1. PICK pid \in Nat : pid = pedido[t].pid
  BY DEF Estado, TypeOK, TipoHilos, Pedido
<1>2. /\ pc[t] = "finalizar" /\ MarcosDe(pid) # {}
      /\ LiberarMarco(Minimo(MarcosDe(pid)))
      /\ cache' = cache /\ pc' = pc /\ pedido' = pedido
  BY <1>1 DEF FinalizarMarco
<1>3. PICK frame \in Frames : frame = Minimo(MarcosDe(pid)) /\ tabla[frame].pid = pid
  <2>1. MarcosDe(pid) \in SUBSET Nat
    BY DEF MarcosDe, Frames
  <2>2. Minimo(MarcosDe(pid)) \in MarcosDe(pid)
    BY <2>1, <1>2, MinimoEsta
  <2> QED
    BY <2>2 DEF MarcosDe
<1>4. EnBaja(pid)' /\ \A q : EnBaja(q)' = EnBaja(q)
  BY <1>1, <1>2 DEF EnBaja
<1>5. \A q \in Nat, x \in Int : tabla[frame] # [pid |-> q, pagina |-> x] =>
        (Tiene(q, x) => Tiene(q, x)')
  BY <1>2, <1>3, TablaTrasLiberar DEF Estado
<1>6. \A q, x : q = pid \/ tabla[frame] # [pid |-> q, pagina |-> x]
  BY <1>3
<1>7. \A j \in Slots : \A q \in Nat, x \in Int : EsDe(j, q, x)' => Tiene(q, x)' \/ EnBaja(q)'
  <2> SUFFICES ASSUME NEW j \in Slots, NEW q \in Nat, NEW x \in Int, EsDe(j, q, x)', q # pid
               PROVE  Tiene(q, x)' \/ EnBaja(q)'
    BY <1>4
  <2>1. EsDe(j, q, x)
    BY <1>2 DEF EsDe
  <2> QED
    BY <2>1, <1>4, <1>5, <1>6 DEF SinMuertas
<1>8. \A u \in Hilos : pc'[u] # "escritura"
  <2> SUFFICES ASSUME NEW u \in Hilos, pc[u] = "escritura" PROVE FALSE
    BY <1>2
  <2>1. t = u
    BY <1>2 DEF Exclusion, EnSeccion
  <2> QED
    BY <2>1, <1>2
<1> QED
  BY <1>7, <1>8 DEF SinMuertas

LEMMA MuertasFinalizarFin ==
  ASSUME Estado, SinMuertas, NEW t \in Hilos, FinalizarFin(t)
  PROVE  SinMuertas'
<1>1. PICK pid \in Nat : pid = pedido[t].pid
  BY DEF Estado, TypeOK, TipoHilos, Pedido
<1>2. /\ pc[t] = "finalizar" /\ Terminar(t) /\ tabla' = tabla
      /\ cache' = [i \in Slots |-> IF admin[i].pid = pid THEN EntradaVacia ELSE cache[i]]
  BY <1>1 DEF FinalizarFin
<1>3. pc'[t] = "recv" /\ \A u \in Hilos : u # t => pc'[u] = pc[u] /\ pedido'[u] = pedido[u]
  BY <1>2 DEF Terminar, Ir, Estado, TypeOK, TipoHilos
<1>4. \A q : EnBaja(q) => q = pid
  <2>1. t = Kernel
    BY <1>2 DEF Estado, HilosBien, HilosAcordes
  <2> QED
    BY <2>1, <1>1, BajaDelKernel DEF Estado
<1>5. \A j \in Slots : \A q \in Nat, x \in Int : EsDe(j, q, x)' => EsDe(j, q, x) /\ q # pid
  <2> SUFFICES ASSUME NEW j \in Slots, NEW q \in Nat, NEW x \in Int, EsDe(j, q, x)'
               PROVE  EsDe(j, q, x) /\ q # pid
    OBVIOUS
  <2>1. CASE admin[j].pid = pid
    <3>1. cache'[j].pid = NADIE
      BY <1>2, <2>1 DEF EntradaVacia
    <3> QED
      BY <3>1 DEF EsDe, NADIE
  <2>2. CASE admin[j].pid # pid
    <3>1. cache'[j] = cache[j]
      BY <1>2, <2>2
    <3>2. cache[j].pid # pid
      BY <2>2 DEF Estado, AdminAcorde, NADIE
    <3> QED
      BY <3>1, <3>2 DEF EsDe
  <2> QED
    BY <2>1, <2>2
<1>6. \A j \in Slots : \A q \in Nat, x \in Int :
        EsDe(j, q, x)' => EsDe(j, q, x) /\ (EnBaja(q) => EnBaja(q)')
  BY <1>4, <1>5
<1>7. \A u \in Hilos : pc'[u] = "escritura" => pc[u] = "escritura" /\ pedido'[u] = pedido[u]
  BY <1>3
<1> QED
  BY <1>2, <1>6, <1>7, MuertasQuietas

\* The page that LIBERAR_PAGINA frees leaves the cache in the same step.
LEMMA MuertasLiberar ==
  ASSUME Estado, TypeOK', Exclusion, SinMuertas, NEW p \in Liberaciones,
         LiberarPagina(Kernel, p)
  PROVE  SinMuertas'
<1>0. Kernel \in Hilos /\ p \in Pedido
  BY MemoriaAssumption, TipoPedidos DEF Liberaciones, Estado
<1>1. p.pid \in Nat /\ p.pag \in Int
  BY <1>0 DEF Pedido
<1>2. PICK frame : frame = buscar_en_indice(p.pid, p.pag)
  OBVIOUS
<1>3. /\ frame >= 0 /\ LiberarMarco(frame) /\ Atender(Kernel, p, "recv")
      /\ cache' = [i \in Slots |-> IF i \in EnCache(p.pid, p.pag)
                                   THEN [cache[i] EXCEPT !.pid = NADIE, !.pagina = NADIE]
                                   ELSE cache[i]]
  BY <1>2 DEF LiberarPagina
<1>4. frame \in Frames /\ tabla[frame] = [pid |-> p.pid, pagina |-> p.pag]
  <2>1. \/ frame = -1
        \/ frame \in Frames /\ tabla[frame] = [pid |-> p.pid, pagina |-> p.pag]
    BY <1>1, <1>2, BuscarDevuelveLaPagina DEF Estado, TypeOK
  <2>2. frame # -1
    <3>1. frame >= 0
      BY <1>3
    <3> QED
      BY <3>1
  <2> QED
    BY <2>1, <2>2
<1>5. /\ ~mutex /\ pc[Kernel] = "recv" /\ pc'[Kernel] = "recv"
      /\ \A u \in Hilos : u # Kernel => pc'[u] = pc[u]
  BY <1>0, <1>3 DEF Atender, Ir, Estado, TypeOK, TipoHilos
<1>6. \A u \in Hilos : pc[u] \in {"recv", "cerrado"}
  <2>1. EnSeccion = {}
    BY <1>5 DEF Exclusion
  <2> QED
    BY <2>1 DEF EnSeccion
<1>7. \A q \in Nat, x \in Int : tabla[frame] # [pid |-> q, pagina |-> x] =>
        (Tiene(q, x) => Tiene(q, x)')
  <2>1. TypeOK /\ IndiceCoherente
    BY DEF Estado
  <2>2. LiberarMarco(frame)
    BY <1>3, Zenon
  <2>3. frame \in Frames /\ tabla[frame].pid >= 0
    BY <1>1, <1>4
  <2> QED
    BY <2>1, <2>2, <2>3, TablaTrasLiberar
<1>8. \A j \in Slots : \A q \in Nat, x \in Int :
        EsDe(j, q, x)' => EsDe(j, q, x) /\ ~(q = p.pid /\ x = p.pag)
  <2> SUFFICES ASSUME NEW j \in Slots, NEW q \in Nat, NEW x \in Int, EsDe(j, q, x)'
               PROVE  EsDe(j, q, x) /\ ~(q = p.pid /\ x = p.pag)
    OBVIOUS
  <2>1. CASE j \in EnCache(p.pid, p.pag)
    <3>1. cache'[j].pid = NADIE
      BY <2>1, <1>3 DEF Estado, TypeOK, TipoPaginas
    <3> QED
      BY <3>1 DEF EsDe, NADIE
  <2>2. CASE j \notin EnCache(p.pid, p.pag)
    <3>1. cache'[j] = cache[j]
      BY <2>2, <1>3
    <3> QED
      BY <3>1, <2>2 DEF EsDe, EnCache
  <2> QED
    BY <2>1, <2>2
<1>9. \A j \in Slots : \A q \in Nat, x \in Int : EsDe(j, q, x)' => Tiene(q, x)'
  <2> SUFFICES ASSUME NEW j \in Slots, NEW q \in Nat, NEW x \in Int, EsDe(j, q, x)'
               PROVE  Tiene(q, x)'
    OBVIOUS
  <2>1. EsDe(j, q, x) /\ tabla[frame] # [pid |-> q, pagina |-> x]
    BY <1>4, <1>8
  <2>2. ~EnBaja(q)
    BY <1>6 DEF EnBaja
  <2> QED
    BY <2>1, <2>2, <1>7 DEF SinMuertas
<1>10. \A u \in Hilos : pc'[u] # "escritura"
  BY <1>5, <1>6
<1> QED
  BY <1>9, <1>10 DEF SinMuertas

LEMMA MuertasPedidos ==
  ASSUME ~Permite("pagina_ausente"), Estado, TypeOK', Exclusion, SinMuertas,
         PedidoDeKernel(Kernel) \/ \E t \in Hilos : PedidoDeCpu(t)
  PROVE  SinMuertas'
<1>0. Kernel \in Hilos
  BY MemoriaAssumption
<1>1. ASSUME NEW t \in Hilos, PedidoDeCpu(t)
      PROVE  SinMuertas'
  <2>1. ASSUME NEW p \in Lecturas, LeerEnCache(t, p) \/ LeerSinCache(t, p)
        PROVE  SinMuertas'
    <3>1. /\ p \in Pedido /\ tabla' = tabla /\ cache' = cache
          /\ Atender(t, p, "recv") \/ Atender(t, p, "lectura")
      BY <2>1, TipoPedidos DEF LeerEnCache, LeerSinCache, Estado
    <3> QED
      BY <3>1, MuertasAtender
  <2>2. ASSUME NEW p \in Escrituras, GuardarValor(t, p)
        PROVE  SinMuertas'
    <3>1. /\ p \in Pedido /\ tabla' = tabla /\ cache' = cache
          /\ Atender(t, p, "escritura") /\ Tiene(p.pid, p.pag)
      BY <2>2, TipoPedidos DEF GuardarValor, Escrituras, Estado
    <3> QED
      BY <3>1, MuertasAtender
  <2> QED
    BY <1>1, <2>1, <2>2 DEF PedidoDeCpu
<1>2. ASSUME NEW p \in Cargas, NuevoProceso(Kernel, p)
      PROVE  SinMuertas'
  <2>1. p \in Pedido
    BY CargaNueva, <1>2 DEF Estado
  <2>2. /\ tabla' = tabla /\ cache' = cache
        /\ Atender(Kernel, p, "ubicar") \/ Atender(Kernel, p, "recv")
    BY <1>2 DEF NuevoProceso
  <2> QED
    BY <1>0, <2>1, <2>2, MuertasAtender
<1>3. ASSUME NEW p \in Bajas, EliminarProceso(Kernel, p)
      PROVE  SinMuertas'
  <2>1. p \in Pedido /\ tabla' = tabla /\ cache' = cache /\ Atender(Kernel, p, "finalizar")
    BY <1>3, TipoPedidos DEF EliminarProceso, Estado
  <2> QED
    BY <1>0, <2>1, MuertasAtender
<1>4. ASSUME PedidoDeKernel(Kernel)
      PROVE  SinMuertas'
  BY <1>0, <1>1, <1>2, <1>3, <1>4, MuertasHeap, MuertasLiberar DEF PedidoDeKernel
<1> QED
  BY <1>1, <1>4

LEMMA MuertasConexiones ==
  ASSUME Estado, SinMuertas,
         (\E t \in Hilos : Desconectar(t) \/ Conectar(t)) \/ flush \/ UNCHANGED vars
  PROVE  SinMuertas'
<1>1. ASSUME NEW t \in Hilos, Desconectar(t) \/ Conectar(t)
      PROVE  SinMuertas'
  <2>1. /\ tabla' = tabla /\ cache' = cache /\ pedido' = pedido
        /\ pc[t] \in {"recv", "cerrado"}
        /\ (pc' = [pc EXCEPT ![t] = "recv"] \/ pc' = [pc EXCEPT ![t] = "cerrado"])
    BY <1>1 DEF Desconectar, Conectar, Ir
  <2>2. \A u \in Hilos : pc'[u] = pc[u] \/ (pc[u] # "finalizar" /\ pc'[u] # "escritura")
    BY <2>1 DEF Estado, TypeOK, TipoHilos
  <2>3. \A q : EnBaja(q) => EnBaja(q)'
    BY <2>1, <2>2 DEF EnBaja
  <2>4. \A j, q, x : EsDe(j, q, x)' = EsDe(j, q, x)
    BY <2>1 DEF EsDe
  <2> QED
    BY <2>1, <2>2, <2>3, <2>4, MuertasQuietas
<1>2. CASE flush \/ UNCHANGED vars
  <2>1. /\ tabla' = tabla /\ pc' = pc /\ pedido' = pedido
        /\ cache' = cache \/ \A j \in Slots : cache'[j].pid = NADIE
    BY <1>2 DEF flush, vars, EntradaVacia
  <2>2. \A j \in Slots : \A q \in Nat, x \in Int : EsDe(j, q, x)' => EsDe(j, q, x)
    BY <2>1 DEF EsDe, NADIE
  <2>3. \A q : EnBaja(q) => EnBaja(q)'
    BY <2>1 DEF EnBaja
  <2> QED
    BY <2>1, <2>2, <2>3, MuertasQuietas
<1> QED
  BY <1>1, <1>2

LEMMA MuertasSigue ==
  ASSUME ~Permite("pagina_ausente")
  PROVE  Estado /\ Estado' /\ CacheBien /\ Exclusion /\ SinMuertas /\ [Next]_vars
         => SinMuertas'
<1> SUFFICES ASSUME Estado, Estado', CacheBien, Exclusion, SinMuertas, [Next]_vars
             PROVE  SinMuertas'
  OBVIOUS
<1>1. TypeOK'
  BY DEF Estado
<1>2. CASE PedidoDeKernel(Kernel) \/ \E t \in Hilos : PedidoDeCpu(t)
  BY <1>1, <1>2, MuertasPedidos
<1>3. ASSUME NEW t \in Hilos, Paso(t)
      PROVE  SinMuertas'
  BY <1>1, <1>3, MuertasLeer, MuertasEscribir, MuertasUbicar, MuertasFinalizarMarco,
     MuertasFinalizarFin DEF Paso
<1>4. CASE (\E t \in Hilos : Desconectar(t) \/ Conectar(t)) \/ flush \/ UNCHANGED vars
  BY <1>4, MuertasConexiones
<1> QED
  BY <1>2, <1>3, <1>4 DEF Next

LEMMA MuertasSiempre ==
  ASSUME ~Permite("pagina_ausente"), ~Permite("desconexion")
  PROVE  Spec => []SinMuertas
<1>1. Init => SinMuertas
  <2> SUFFICES ASSUME Init PROVE SinMuertas
    OBVIOUS
  <2>1. /\ \A i \in Slots : cache[i].pid = NADIE
        /\ \A t \in Hilos : pc[t] # "escritura"
    BY DEF Init, EntradaVacia
  <2> QED
    BY <2>1 DEF SinMuertas, EsDe, NADIE
<1> QED
  BY <1>1, MuertasSigue, CacheSiempreBien, ExclusionSinDesconexion, SiempreEnEstado, PTL DEF Spec

LEMMA MuertasEsFantasmas == Estado /\ CacheBien /\ SinMuertas => CacheSinFantasmas
<1> SUFFICES ASSUME Estado, CacheBien, SinMuertas, NEW i \in Slots,
                    cache[i].pid # NADIE, ~EnBaja(cache[i].pid)
             PROVE  Tiene(cache[i].pid, cache[i].pagina)
  BY DEF CacheSinFantasmas
<1>1. cache[i].pid \in Nat /\ cache[i].pagina \in Int
  BY MemoriaAssumption
  DEF CacheBien, ConMarco, Creados, Estado, TypeOK, TipoPaginas
<1>2. EsDe(i, cache[i].pid, cache[i].pagina)
  BY DEF EsDe
<1> QED
  BY <1>1, <1>2 DEF SinMuertas

\* What the store rests on while its clients are well behaved, whatever the interleaving of
\* the threads: one request at a time, a frame for each page, the whole script in its pages,
\* nothing cached of the dead.  A script that fills its last page is left out: Trozo copies
\* the remainder of the division, and that is 0.
THEOREM ElAlmacenEstaIntegro ==
  ASSUME ~Permite("pagina_ausente"), ~Permite("libera_intermedia"), ~Permite("desconexion"),
         \A n \in Scripts : n % Tam # 0
  PROVE  Spec => []AlmacenIntegro
<1>1. TablaBien => PaginasUnicas
  BY DEF TablaBien
<1>2. PaginasUnicas /\ ScriptIntegro /\ CacheSinFantasmas /\ Exclusion => AlmacenIntegro
  BY DEF AlmacenIntegro
<1> QED
  BY <1>1, <1>2, ScriptEsIntegro, MuertasEsFantasmas, MuertasSiempre, ScriptSiempre,
     TablaSiempreBien, CacheSiempreBien, ExclusionSinDesconexion, SiempreEnEstado, PTL

-----------------------------------------------------------------------------
(* The store of pages *)

\* contenido is a function of the pages that have a frame.
ContenidoDicho ==
  /\ DOMAIN contenido = Mapeadas
  /\ contenido = [k \in Mapeadas |-> contenido[k]]
  /\ \A k \in Mapeadas : \E q \in Nat, x \in Int : k = <<q, x>>
  /\ \A q \in Nat, x \in Int : <<q, x>> \in Mapeadas <=> Tiene(q, x)
  /\ \A q \in Nat, x \in Int :
       Tiene(q, x) => contenido[<<q, x>>] = memoria[buscar_en_indice(q, x)]

LEMMA ContenidoEs == TypeOK => ContenidoDicho
<1> SUFFICES ASSUME TypeOK PROVE ContenidoDicho
  OBVIOUS
<1>1. \A f \in Frames : tabla[f] \in [pid : Int, pagina : Int]
  BY DEF TypeOK, TipoTabla
<1>2. DOMAIN contenido = Mapeadas /\ contenido = [k \in Mapeadas |-> contenido[k]]
  BY DEF contenido
<1>3. \A k \in Mapeadas : \E q \in Nat, x \in Int : k = <<q, x>>
  <2> SUFFICES ASSUME NEW k \in Mapeadas PROVE \E q \in Nat, x \in Int : k = <<q, x>>
    OBVIOUS
  <2>1. PICK f \in Frames : tabla[f].pid >= 0 /\ k = <<tabla[f].pid, tabla[f].pagina>>
    BY DEF Mapeadas
  <2>2. tabla[f].pid \in Nat /\ tabla[f].pagina \in Int
    BY <1>1, <2>1
  <2> QED
    BY <2>1, <2>2
<1>4. \A q \in Nat, x \in Int : <<q, x>> \in Mapeadas <=> Tiene(q, x)
  <2> SUFFICES ASSUME NEW q \in Nat, NEW x \in Int
               PROVE  <<q, x>> \in Mapeadas <=> Tiene(q, x)
    OBVIOUS
  <2>1. \A f \in Frames :
          tabla[f] = [pid |-> q, pagina |-> x] <=> tabla[f].pid = q /\ tabla[f].pagina = x
    BY <1>1
  <2>2. <<q, x>> \in Mapeadas <=>
          \E f \in Frames : tabla[f].pid >= 0 /\ tabla[f].pid = q /\ tabla[f].pagina = x
    BY DEF Mapeadas
  <2> QED
    BY <2>1, <2>2 DEF Tiene
<1>5. \A q \in Nat, x \in Int :
        Tiene(q, x) => contenido[<<q, x>>] = memoria[buscar_en_indice(q, x)]
  BY <1>4 DEF contenido
<1> QED
  BY <1>2, <1>3, <1>4, <1>5 DEF ContenidoDicho

LEMMA ContenidoEsDespues == TypeOK' => ContenidoDicho'
BY ContenidoEs, PTL

\* Two functions of pages are equal when they have the same pages and the same words in them.
LEMMA ContenidoIgual ==
  ASSUME tabla' = tabla, indice' = indice, memoria' = memoria
  PROVE  contenido' = contenido
<1>1. Mapeadas' = Mapeadas
  BY DEF Mapeadas
<1>2. \A q, x : buscar_en_indice(q, x)' = buscar_en_indice(q, x)
  BY TablaIgual
<1> QED
  BY <1>1, <1>2 DEF contenido

\* A step that touches no frame answers nothing or refuses.
LEMMA AlmacenResponde ==
  ASSUME tabla' = tabla, indice' = indice, memoria' = memoria,
         resp' = SinRespuesta \/ \E p \in Pedido : resp' = Error(p)
  PROVE  Almacen!Responder
<1>1. contenido' = contenido
  BY ContenidoIgual
<1>2. CASE resp' = SinRespuesta
  BY <1>1, <1>2 DEF Almacen!Responder, Almacen!Nada, SinRespuesta
<1>3. ASSUME NEW p \in Pedido, resp' = Error(p)
      PROVE  Almacen!Responder
  <2>1. resp' = [op |-> "error", pid |-> p.pid, pag |-> p.pag, ini |-> p.ini, val |-> <<>>]
    BY <1>3 DEF Error, Respuesta
  <2>2. resp' = Almacen!Rechazo(resp')
    BY <2>1 DEF Almacen!Rechazo
  <2> QED
    BY <1>1, <2>2 DEF Almacen!Responder
<1> QED
  BY <1>2, <1>3

LEMMA AlmacenAlInicio == Init => Almacen!Init
<1> SUFFICES ASSUME Init PROVE Almacen!Init
  OBVIOUS
<1>1. \A f \in Frames : ~(tabla[f].pid >= 0)
  BY DEF Init, EntradaLibre, LIBRE, ADMIN
<1>2. Mapeadas = {}
  BY <1>1 DEF Mapeadas
<1>3. contenido = << >>
  BY <1>2 DEF contenido
<1>4. resp = Almacen!Nada
  BY DEF Init, SinRespuesta, Almacen!Nada
<1> QED
  BY <1>3, <1>4 DEF Almacen!Init

\* Words of a page that exists are answered.
LEMMA AlmacenLee ==
  ASSUME TypeOK, tabla' = tabla, indice' = indice, memoria' = memoria,
         NEW p \in Pedido, p.op \in {"leer", "obtener"}, Tiene(p.pid, p.pag), NEW v,
         \A i \in 1 .. Len(v) :
           p.ini + i <= Tam => v[i] = memoria[buscar_en_indice(p.pid, p.pag)][p.ini + i - 1],
         resp' = Respuesta(p, v)
  PROVE  Almacen!Leer
<1>1. contenido' = contenido
  BY ContenidoIgual
<1>2. p.pid \in Nat /\ p.pag \in Int
  BY DEF Pedido
<1>3. /\ <<p.pid, p.pag>> \in DOMAIN contenido
      /\ contenido[<<p.pid, p.pag>>] = memoria[buscar_en_indice(p.pid, p.pag)]
  BY <1>2, ContenidoEs DEF ContenidoDicho
<1>4. /\ resp'.op = p.op /\ resp'.pid = p.pid /\ resp'.pag = p.pag /\ resp'.ini = p.ini
      /\ resp'.val = v
  BY DEF Respuesta
<1> QED
  BY <1>1, <1>3, <1>4 DEF Almacen!Leer, Almacen!Existentes

\* LEER and OBTENER_VALOR of a page that is cached: it exists, and the cache is faithful.
LEMMA AlmacenLeerEnCache ==
  ASSUME Estado, CacheBien, Exclusion, SinMuertas, NEW t \in Hilos, NEW p \in Lecturas,
         LeerEnCache(t, p)
  PROVE  Almacen!Leer
<1>1. /\ p \in Pedido /\ p.op \in {"leer", "obtener"} /\ p.largo \in Nat /\ p.ini \in Int
      /\ p.pid \in Nat /\ p.pag \in Int
  <2>1. p \in Pedido /\ p.op \in {"leer", "obtener"} /\ p.largo \in Largos
    BY TipoPedidos DEF Lecturas, Estado
  <2> QED
    BY <2>1, MemoriaAssumption DEF Pedido
<1>2. PICK e \in EnCache(p.pid, p.pag) : e = buscar_entrada(p.pid, p.pag)
  BY EntradaEsta DEF LeerEnCache
<1>3. /\ ~mutex /\ tabla' = tabla /\ indice' = indice /\ memoria' = memoria
      /\ resp' = Respuesta(p, [i \in 1 .. p.largo |-> cache[e].contenido[p.ini + i - 1]])
  BY <1>2 DEF LeerEnCache, Atender
<1>4. ~EnBaja(p.pid)
  BY <1>3 DEF Exclusion, EnSeccion, EnBaja
<1>5. e \in Slots /\ EsDe(e, p.pid, p.pag)
  BY <1>2 DEF EnCache, EsDe
<1>6. Tiene(p.pid, p.pag)
  BY <1>1, <1>4, <1>5 DEF SinMuertas
<1>7. cache[e].contenido = memoria[buscar_en_indice(p.pid, p.pag)]
  BY <1>1, <1>4, <1>5, <1>6 DEF CacheBien, Fiel
<1>8. PICK v : v = [i \in 1 .. p.largo |-> cache[e].contenido[p.ini + i - 1]]
  OBVIOUS
<1>9. \A i \in 1 .. Len(v) :
        p.ini + i <= Tam => v[i] = memoria[buscar_en_indice(p.pid, p.pag)][p.ini + i - 1]
  <2>1. Len(v) = p.largo
    BY <1>1, <1>8
  <2> QED
    BY <2>1, <1>7, <1>8
<1>10. TypeOK /\ resp' = Respuesta(p, v)
  BY <1>3, <1>8 DEF Estado
<1> QED
  BY <1>1, <1>3, <1>6, <1>9, <1>10, AlmacenLee

\* What lecturaV2 copies of the page itself
LEMMA PalabrasDeLaPagina ==
  ASSUME NEW frame, NEW ini \in Int, NEW largo \in Int, NEW i \in 1 .. Len(Palabras(frame, ini, largo)),
         ini + i <= Tam
  PROVE  Palabras(frame, ini, largo)[i] = memoria[frame][ini + i - 1]
<1> DEFINE v == Palabras(frame, ini, largo)
<1>1. v = [j \in 1 .. largo |-> IF ini + j <= Tam THEN memoria[frame][ini + j - 1]
                                ELSE memoria[frame + 1][ini + j - 1 - Tam]]
  BY DEF Palabras
<1>2. CASE largo >= 0
  <2>1. Len(v) = largo
    BY <1>1, <1>2
  <2> QED
    BY <1>1, <2>1
<1>3. CASE largo < 0
  <2>1. 1 .. largo = {}
    BY <1>3
  <2>2. v = << >>
    <3>1. \A D : D = {} => [j \in D |-> IF ini + j <= Tam THEN memoria[frame][ini + j - 1]
                                      ELSE memoria[frame + 1][ini + j - 1 - Tam]] = << >>
      OBVIOUS
    <3> QED
      BY <1>1, <2>1, <3>1
  <2>3. Len(v) = 0
    BY <2>2
  <2> QED
    BY <2>3
<1> QED
  BY <1>2, <1>3

LEMMA AlmacenLeerTrasRetardo ==
  ASSUME Estado, NEW t \in Hilos, LeerTrasRetardo(t)
  PROVE  Almacen!Leer \/ Almacen!Responder
<1>1. PICK p \in Pedido : p = pedido[t]
  BY DEF Estado, TypeOK, TipoHilos
<1>2. PICK frame : frame = buscar_en_indice(p.pid, p.pag)
  OBVIOUS
<1>3. p.pid \in Nat /\ p.pag \in Int /\ p.ini \in Int /\ p.largo \in Int
  BY DEF Pedido
<1>4. /\ pc[t] = "lectura" /\ tabla' = tabla /\ indice' = indice /\ memoria' = memoria
      /\ frame < 0 => resp' = Error(p) \/ resp' = SinRespuesta
      /\ ~(frame < 0) => resp' = Respuesta(p, Palabras(frame, p.ini, p.largo))
  BY <1>1, <1>2 DEF LeerTrasRetardo
<1>5. CASE frame < 0
  BY <1>4, <1>5, AlmacenResponde
<1>6. CASE ~(frame < 0)
  <2>1. Tiene(p.pid, p.pag)
    <3>1. ~Tiene(p.pid, p.pag) <=> frame = -1
      BY <1>2, <1>3, BuscarEncuentra DEF Estado, TypeOK
    <3> QED
      BY <3>1, <1>6
  <2>2. p.op \in {"leer", "obtener"}
    BY <1>1, <1>4 DEF Estado, HilosBien, HilosAcordes
  <2>3. \A i \in 1 .. Len(Palabras(frame, p.ini, p.largo)) : p.ini + i <= Tam =>
          Palabras(frame, p.ini, p.largo)[i]
            = memoria[buscar_en_indice(p.pid, p.pag)][p.ini + i - 1]
    BY <1>2, <1>3, PalabrasDeLaPagina
  <2>4. TypeOK
    BY DEF Estado
  <2> QED
    BY <1>4, <1>6, <2>1, <2>2, <2>3, <2>4, AlmacenLee
<1> QED
  BY <1>5, <1>6

\* The words of a page that exists change, and those of no other page: its frame is
\* another frame.
LEMMA AlmacenEscribe ==
  ASSUME TypeOK, TypeOK', IndiceCoherente, tabla' = tabla, indice' = indice,
         NEW q \in Nat, NEW x \in Int, Tiene(q, x),
         \A f \in Frames : f # buscar_en_indice(q, x) => memoria'[f] = memoria[f],
         resp'.op \in {"nada", "nuevo"}
  PROVE  Almacen!Escribir
<1>1. /\ ContenidoDicho /\ ContenidoDicho'
      /\ Mapeadas' = Mapeadas
      /\ \A y, z : /\ buscar_en_indice(y, z)' = buscar_en_indice(y, z)
                   /\ Tiene(y, z)' = Tiene(y, z)
  <2>1. Mapeadas' = Mapeadas
    BY DEF Mapeadas
  <2> QED
    BY <2>1, ContenidoEs, ContenidoEsDespues, TablaIgual
<1>2. DOMAIN contenido' = DOMAIN contenido
  BY <1>1 DEF ContenidoDicho
<1>3. <<q, x>> \in DOMAIN contenido
  BY <1>1 DEF ContenidoDicho
<1>4. \A k \in DOMAIN contenido : k # <<q, x>> => contenido'[k] = contenido[k]
  <2> SUFFICES ASSUME NEW k \in DOMAIN contenido, k # <<q, x>>
               PROVE  contenido'[k] = contenido[k]
    OBVIOUS
  <2>1. PICK y \in Nat, z \in Int : k = <<y, z>> /\ Tiene(y, z)
    BY <1>1 DEF ContenidoDicho
  <2>2. PICK f \in Frames : f = buscar_en_indice(y, z) /\ tabla[f] = [pid |-> y, pagina |-> z]
    <3>1. TipoTabla
      BY DEF TypeOK
    <3> QED
      BY <2>1, <3>1, BuscarEncuentra
  <2>3. tabla[buscar_en_indice(q, x)] = [pid |-> q, pagina |-> x]
    <3>1. TipoTabla
      BY DEF TypeOK
    <3> QED
      BY <3>1, BuscarEncuentra
  <2>4. f # buscar_en_indice(q, x)
    <3>1. SUFFICES ASSUME f = buscar_en_indice(q, x) PROVE FALSE
      OBVIOUS
    <3>2. [pid |-> y, pagina |-> z] = [pid |-> q, pagina |-> x]
      BY <3>1, <2>2, <2>3
    <3>3. y = q /\ z = x
      BY <3>2
    <3> QED
      BY <3>3, <2>1
  <2>5. memoria'[f] = memoria[f]
    BY <2>4
  <2>6. contenido[k] = memoria[f] /\ contenido'[k] = memoria'[f]
    BY <1>1, <2>1, <2>2 DEF ContenidoDicho
  <2> QED
    BY <2>5, <2>6
<1> QED
  BY <1>2, <1>3, <1>4 DEF Almacen!Escribir, Almacen!Existentes

LEMMA AlmacenGuarda ==
  ASSUME Estado, TypeOK', CacheBien, SinMuertas, NEW t \in Hilos,
         GuardarTrasRetardo(t) \/ CargarScript(t)
  PROVE  Almacen!Escribir
<1>1. PICK p \in Pedido : p = pedido[t]
  BY DEF Estado, TypeOK, TipoHilos
<1>2. p.pid \in Nat /\ p.pag \in Int /\ vuelta[t] \in Nat
  BY DEF Pedido, Estado, TypeOK, TipoHilos
<1>3. PICK x \in Int :
        /\ \E offset, v : escritura(p.pid, x, offset, v)
        /\ tabla' = tabla /\ indice' = indice /\ Tiene(p.pid, x)
        /\ resp'.op \in {"nada", "nuevo"}
  <2>1. CASE GuardarTrasRetardo(t)
    <3>1. /\ escritura(p.pid, p.pag, p.ini, <<p.val>>) /\ pc[t] = "escritura"
          /\ tabla' = tabla /\ indice' = indice /\ resp'.op = "nada"
      BY <1>1, <2>1 DEF GuardarTrasRetardo, SinRespuesta
    <3>2. Tiene(p.pid, p.pag)
      BY <1>1, <3>1 DEF SinMuertas
    <3> QED
      BY <1>2, <3>1, <3>2
  <2>2. CASE CargarScript(t)
    <3>1. /\ escritura(p.pid, vuelta[t], 0, Trozo(p, vuelta[t])) /\ pc[t] = "cargar"
          /\ tabla' = tabla /\ indice' = indice
          /\ resp'.op \in {"nada", p.op}
      BY <1>1, <2>2 DEF CargarScript, SinRespuesta, Respuesta
    <3>2. t = Kernel /\ p = carga[p.pid] /\ p.pid \in Creados
      BY <1>1, <3>1 DEF Estado, HilosBien, HilosAcordes, EnSeccion
    <3>3. p.op = "nuevo" /\ p.pag \in Nat /\ paginas_usadas(p) \in Nat
      <4>1. p.op = "nuevo" /\ p.pag \in Stacks /\ p.largo \in Scripts
        BY <3>2 DEF Estado, HilosBien, CargasBien
      <4> QED
        BY <4>1, ScriptConPaginas, MemoriaAssumption
    <3>4. /\ vuelta[Kernel] < paginas_usadas(p)
          /\ \A r \in Nat : r < paginas_usadas(p) + p.pag => Tiene(p.pid, r)
      BY <1>1, <3>1, <3>2 DEF CacheBien, CargaEnCurso
    <3>5. Tiene(p.pid, vuelta[t])
      BY <1>2, <3>2, <3>3, <3>4
    <3> QED
      BY <1>2, <3>1, <3>3, <3>5
  <2> QED
    BY <2>1, <2>2
<1>4. \A f \in Frames : f # buscar_en_indice(p.pid, x) => memoria'[f] = memoria[f]
  <2>1. PICK datos : memoria' = [memoria EXCEPT ![buscar_en_indice(p.pid, x)] = datos]
    BY <1>3 DEF escritura
  <2>2. \A f \in Frames : f \in Posiciones
    BY MemoriaAssumption DEF Frames, Posiciones
  <2> QED
    BY <2>1, <2>2 DEF Estado, TypeOK, TipoPaginas
<1> QED
  BY <1>2, <1>3, <1>4, AlmacenEscribe DEF Estado

\* A page that did not exist appears; the others stay where they are, with their words.
LEMMA AlmacenUbica ==
  ASSUME TypeOK, TypeOK', IndiceCoherente, NEW pid \in Nat, NEW n \in Int,
         UbicarPagina(pid, n), ~Tiene(pid, n),
         \A f \in Frames : tabla[f].pid # LIBRE => memoria'[f] = memoria[f],
         \/ resp' = SinRespuesta
         \/ resp' = [op |-> "heap", pid |-> pid, pag |-> 0, ini |-> 0, val |-> <<n>>]
  PROVE  Almacen!Mapear
<1>1. /\ Tiene(pid, n)'
      /\ \A q \in Nat, x \in Int : Tiene(q, x) => Tiene(q, x)'
      /\ \A q \in Nat, x \in Int : Tiene(q, x)' => Tiene(q, x) \/ (q = pid /\ x = n)
      /\ \A q \in Nat, x \in Int :
           Tiene(q, x) => buscar_en_indice(q, x)' = buscar_en_indice(q, x)
  BY TablaTrasUbicar
<1>2. ContenidoDicho /\ ContenidoDicho'
  BY ContenidoEs, ContenidoEsDespues
<1>3. PICK k : k = <<pid, n>>
  OBVIOUS
<1>4. k \notin DOMAIN contenido /\ k \in DOMAIN contenido'
  BY <1>1, <1>2, <1>3 DEF ContenidoDicho
<1>5. DOMAIN contenido' = DOMAIN contenido \cup {k}
  <2>1. \A y \in DOMAIN contenido : y \in DOMAIN contenido'
    <3> SUFFICES ASSUME NEW y \in DOMAIN contenido PROVE y \in DOMAIN contenido'
      OBVIOUS
    <3>1. PICK q \in Nat, x \in Int : y = <<q, x>> /\ Tiene(q, x)
      BY <1>2 DEF ContenidoDicho
    <3>2. Tiene(q, x)'
      BY <3>1, <1>1
    <3> QED
      BY <3>1, <3>2, <1>2 DEF ContenidoDicho
  <2>2. \A y \in DOMAIN contenido' : y \in DOMAIN contenido \/ y = k
    <3> SUFFICES ASSUME NEW y \in DOMAIN contenido' PROVE y \in DOMAIN contenido \/ y = k
      OBVIOUS
    <3>1. PICK q \in Nat, x \in Int : y = <<q, x>> /\ Tiene(q, x)'
      BY <1>2 DEF ContenidoDicho
    <3>2. Tiene(q, x) \/ (q = pid /\ x = n)
      BY <3>1, <1>1
    <3> QED
      BY <3>1, <3>2, <1>2, <1>3 DEF ContenidoDicho
  <2> QED
    BY <2>1, <2>2, <1>4
<1>6. \A y \in DOMAIN contenido : contenido'[y] = contenido[y]
  <2> SUFFICES ASSUME NEW y \in DOMAIN contenido PROVE contenido'[y] = contenido[y]
    OBVIOUS
  <2>1. PICK q \in Nat, x \in Int : y = <<q, x>> /\ Tiene(q, x)
    BY <1>2 DEF ContenidoDicho
  <2>2. PICK f \in Frames : f = buscar_en_indice(q, x) /\ tabla[f] = [pid |-> q, pagina |-> x]
    BY <2>1, BuscarEncuentra DEF TypeOK
  <2>3. memoria'[f] = memoria[f]
    BY <2>2 DEF LIBRE
  <2>4. Tiene(q, x)' /\ buscar_en_indice(q, x)' = f
    BY <2>1, <2>2, <1>1
  <2>5. /\ contenido[y] = memoria[buscar_en_indice(q, x)]
        /\ contenido'[y] = memoria'[buscar_en_indice(q, x)']
    BY <1>2, <2>1, <2>4 DEF ContenidoDicho
  <2> QED
    BY <2>2, <2>3, <2>4, <2>5
<1>7. resp' \in {Almacen!Nada,
                 [op |-> "heap", pid |-> k[1], pag |-> 0, ini |-> 0, val |-> <<k[2]>>]}
  BY <1>3 DEF Almacen!Nada, SinRespuesta
<1> QED
  BY <1>4, <1>5, <1>6, <1>7 DEF Almacen!Mapear, Almacen!Existentes

\* A page goes, and no other: only one frame holds it.
LEMMA AlmacenLibera ==
  ASSUME TypeOK, TypeOK', IndiceCoherente, PaginasUnicas, NEW frame \in Frames,
         tabla[frame].pid >= 0, LiberarMarco(frame), memoria' = memoria, resp' = SinRespuesta
  PROVE  Almacen!Desmapear
<1>1. /\ \A f \in Frames : tabla'[f] = IF f = frame THEN EntradaLibre ELSE tabla[f]
      /\ \A q \in Nat, x \in Int : Tiene(q, x)' => Tiene(q, x)
      /\ \A q \in Nat, x \in Int : tabla[frame] # [pid |-> q, pagina |-> x] =>
           /\ Tiene(q, x) => Tiene(q, x)'
           /\ buscar_en_indice(q, x)' = buscar_en_indice(q, x)
  BY TablaTrasLiberar
<1>2. ContenidoDicho /\ ContenidoDicho'
  BY ContenidoEs, ContenidoEsDespues
<1>3. PICK pid \in Nat, n \in Int : tabla[frame] = [pid |-> pid, pagina |-> n]
  <2>1. tabla[frame] \in [pid : Int, pagina : Int]
    BY DEF TypeOK, TipoTabla
  <2>2. /\ tabla[frame] = [pid |-> tabla[frame].pid, pagina |-> tabla[frame].pagina]
        /\ tabla[frame].pid \in Nat /\ tabla[frame].pagina \in Int
    BY <2>1
  <2> QED
    BY <2>2
<1>4. PICK k : k = <<pid, n>>
  OBVIOUS
<1>5. Tiene(pid, n) /\ ~Tiene(pid, n)'
  <2>1. Tiene(pid, n)
    BY <1>3 DEF Tiene
  <2>2. \A f \in Frames : tabla'[f] # [pid |-> pid, pagina |-> n]
    <3> SUFFICES ASSUME NEW f \in Frames, tabla'[f] = [pid |-> pid, pagina |-> n]
                 PROVE  FALSE
      OBVIOUS
    <3>1. EntradaLibre # [pid |-> pid, pagina |-> n]
      BY DEF EntradaLibre, LIBRE
    <3>2. f # frame /\ tabla[f] = [pid |-> pid, pagina |-> n]
      BY <1>1, <3>1
    <3> QED
      BY <3>2, <1>3 DEF PaginasUnicas
  <2> QED
    BY <2>1, <2>2 DEF Tiene
<1>6. k \in DOMAIN contenido /\ k \notin DOMAIN contenido'
  BY <1>2, <1>4, <1>5 DEF ContenidoDicho
<1>7. \A y \in DOMAIN contenido : y # k => y \in DOMAIN contenido' /\ contenido'[y] = contenido[y]
  <2> SUFFICES ASSUME NEW y \in DOMAIN contenido, y # k
               PROVE  y \in DOMAIN contenido' /\ contenido'[y] = contenido[y]
    OBVIOUS
  <2>1. PICK q \in Nat, x \in Int : y = <<q, x>> /\ Tiene(q, x)
    BY <1>2 DEF ContenidoDicho
  <2>2. tabla[frame] # [pid |-> q, pagina |-> x]
    <3>1. SUFFICES ASSUME [pid |-> pid, pagina |-> n] = [pid |-> q, pagina |-> x] PROVE FALSE
      BY <1>3
    <3>2. pid = q /\ n = x
      BY <3>1
    <3> QED
      BY <3>2, <2>1, <1>4
  <2>3. Tiene(q, x)' /\ buscar_en_indice(q, x)' = buscar_en_indice(q, x)
    BY <2>1, <2>2, <1>1
  <2>4. /\ contenido[y] = memoria[buscar_en_indice(q, x)]
        /\ contenido'[y] = memoria'[buscar_en_indice(q, x)']
    BY <1>2, <2>1, <2>3 DEF ContenidoDicho
  <2> QED
    BY <1>2, <2>1, <2>3, <2>4 DEF ContenidoDicho
<1>8. \A y \in DOMAIN contenido' : y \in DOMAIN contenido
  <2> SUFFICES ASSUME NEW y \in DOMAIN contenido' PROVE y \in DOMAIN contenido
    OBVIOUS
  <2>1. PICK q \in Nat, x \in Int : y = <<q, x>> /\ Tiene(q, x)'
    BY <1>2 DEF ContenidoDicho
  <2>2. Tiene(q, x)
    BY <2>1, <1>1
  <2> QED
    BY <2>1, <2>2, <1>2 DEF ContenidoDicho
<1>9. DOMAIN contenido' = DOMAIN contenido \ {k}
  BY <1>6, <1>7, <1>8
<1>10. contenido' = [y \in DOMAIN contenido' |-> contenido'[y]]
  BY <1>2 DEF ContenidoDicho
<1>11. contenido' = [y \in DOMAIN contenido \ {k} |-> contenido[y]]
  BY <1>7, <1>9, <1>10
<1>12. resp' = Almacen!Nada
  BY DEF Almacen!Nada, SinRespuesta
<1> QED
  BY <1>6, <1>11, <1>12 DEF Almacen!Desmapear, Almacen!Existentes

\* The number after the last page is one that the process does not have.
LEMMA PaginaNueva ==
  ASSUME Estado, TablaBien, NEW pid \in Nat, ~EnBaja(pid)
  PROVE  paginas_de_proceso(pid) \in Nat /\ ~Tiene(pid, paginas_de_proceso(pid))
<1>1. paginas_de_proceso(pid) \in Nat
  <2>1. MarcosDe(pid) \in SUBSET Frames
    BY DEF MarcosDe
  <2> QED
    BY <2>1, CuentaEsNat DEF paginas_de_proceso
<1>2. \A f \in Frames : tabla[f] # [pid |-> pid, pagina |-> paginas_de_proceso(pid)]
  <2> SUFFICES ASSUME NEW f \in Frames,
                      tabla[f] = [pid |-> pid, pagina |-> paginas_de_proceso(pid)]
               PROVE  FALSE
    OBVIOUS
  <2>1. tabla[f].pid = pid /\ tabla[f].pagina = paginas_de_proceso(pid)
    OBVIOUS
  <2>2. tabla[f].pagina < paginas_de_proceso(pid)
    BY <2>1 DEF TablaBien, Seguidas
  <2> QED
    BY <2>1, <2>2, <1>1
<1> QED
  BY <1>1, <1>2 DEF Tiene

LEMMA AlmacenUbicar ==
  ASSUME Estado, TypeOK', TablaBien, NEW t \in Hilos, UbicarTrasPedido(t)
  PROVE  Almacen!Mapear
<1>1. PICK p \in Pedido : p = pedido[t]
  BY DEF Estado, TypeOK, TipoHilos
<1>2. /\ pc[t] = "ubicar" /\ UbicarPagina(p.pid, vuelta[t])
      /\ memoria' = memoria /\ resp' = SinRespuesta
  BY <1>1 DEF UbicarTrasPedido
<1>3. t = Kernel /\ p.pid \in Nat
  BY <1>2 DEF Estado, HilosBien, HilosAcordes, Pedido
<1>4. vuelta[t] = paginas_de_proceso(p.pid)
  BY <1>1, <1>2, <1>3 DEF TablaBien, VueltaCuenta
<1>5. ~EnBaja(p.pid)
  BY <1>2, <1>3, BajaDelKernel DEF Estado
<1>6. ~Tiene(p.pid, vuelta[t]) /\ vuelta[t] \in Int
  BY <1>3, <1>4, <1>5, PaginaNueva
<1> QED
  BY <1>2, <1>3, <1>6, AlmacenUbica DEF Estado

LEMMA AlmacenHeap ==
  ASSUME Estado, TypeOK', TablaBien, NEW p \in Heaps, SolicitarHeap(Kernel, p)
  PROVE  Almacen!Mapear \/ Almacen!Responder
<1>0. Kernel \in Hilos
  BY MemoriaAssumption
<1>1. p \in Pedido /\ p.op = "heap" /\ p.pag = 0 /\ p.ini = 0 /\ p.pid \in Nat
  BY TipoPedidos DEF Heaps, Pedido
<1>2. CASE marcos_libres >= 1
  <2>1. PICK n : n = paginas_de_proceso(p.pid)
    OBVIOUS
  <2>2. PICK frame : frame = PrimerLibre(calcular_posicion(p.pid, n))
    OBVIOUS
  <2>3. /\ UbicarPagina(p.pid, n) /\ memoria' = [memoria EXCEPT ![frame][0] = Cabecera]
        /\ resp' = Respuesta(p, <<n>>)
    BY <1>2, <2>1, <2>2 DEF SolicitarHeap
  <2>4. pc[Kernel] = "recv"
    BY DEF SolicitarHeap, Atender
  <2>5. n \in Nat /\ ~Tiene(p.pid, n)
    BY <1>1, <2>1, <2>4, BajaDelKernel, PaginaNueva DEF Estado
  <2>6. frame \in Libres
    <3>1. calcular_posicion(p.pid, n) \in Frames
      BY <1>1, <2>5, PosicionEsFrame
    <3> QED
      BY <2>2, <2>3, <3>1, PrimerLibreEsLibre DEF UbicarPagina
  <2>7. \A f \in Frames : tabla[f].pid # LIBRE => memoria'[f] = memoria[f]
    <3>1. \A f \in Frames : f \in Posiciones
      BY MemoriaAssumption DEF Frames, Posiciones
    <3> QED
      BY <2>3, <2>6, <3>1 DEF Libres, Estado, TypeOK, TipoPaginas
  <2>8. resp' = [op |-> "heap", pid |-> p.pid, pag |-> 0, ini |-> 0, val |-> <<n>>]
    BY <1>1, <2>3 DEF Respuesta
  <2>9. TypeOK /\ IndiceCoherente
    BY DEF Estado
  <2> QED
    BY <1>1, <2>3, <2>5, <2>7, <2>8, <2>9, AlmacenUbica
<1>3. CASE ~(marcos_libres >= 1)
  <2>1. tabla' = tabla /\ indice' = indice /\ memoria' = memoria /\ resp' = Error(p)
    BY <1>3 DEF SolicitarHeap
  <2> QED
    BY <1>1, <2>1, AlmacenResponde
<1> QED
  BY <1>2, <1>3

LEMMA AlmacenFinaliza ==
  ASSUME Estado, TypeOK', TablaBien, NEW t \in Hilos, FinalizarMarco(t)
  PROVE  Almacen!Desmapear
<1>1. PICK pid \in Nat : pid = pedido[t].pid
  BY DEF Estado, TypeOK, TipoHilos, Pedido
<1>2. /\ MarcosDe(pid) # {} /\ LiberarMarco(Minimo(MarcosDe(pid)))
      /\ memoria' = memoria /\ resp' = SinRespuesta
  BY <1>1 DEF FinalizarMarco
<1>3. PICK frame \in Frames : frame = Minimo(MarcosDe(pid)) /\ tabla[frame].pid = pid
  <2>1. MarcosDe(pid) \in SUBSET Nat
    BY DEF MarcosDe, Frames
  <2>2. Minimo(MarcosDe(pid)) \in MarcosDe(pid)
    BY <2>1, <1>2, MinimoEsta
  <2> QED
    BY <2>2 DEF MarcosDe
<1> QED
  BY <1>2, <1>3, AlmacenLibera DEF Estado, TablaBien

LEMMA AlmacenLiberaPagina ==
  ASSUME Estado, TypeOK', TablaBien, NEW p \in Liberaciones, LiberarPagina(Kernel, p)
  PROVE  Almacen!Desmapear
<1>1. p.pid \in Nat /\ p.pag \in Int
  BY TipoPedidos DEF Pedido
<1>2. PICK frame : frame = buscar_en_indice(p.pid, p.pag)
  OBVIOUS
<1>3. frame >= 0 /\ LiberarMarco(frame) /\ memoria' = memoria /\ resp' = SinRespuesta
  BY <1>2 DEF LiberarPagina
<1>4. frame \in Frames /\ tabla[frame] = [pid |-> p.pid, pagina |-> p.pag]
  <2>1. \/ frame = -1
        \/ frame \in Frames /\ tabla[frame] = [pid |-> p.pid, pagina |-> p.pag]
    BY <1>1, <1>2, BuscarDevuelveLaPagina DEF Estado, TypeOK
  <2>2. frame # -1
    <3>1. frame >= 0
      BY <1>3
    <3> QED
      BY <3>1
  <2> QED
    BY <2>1, <2>2
<1>5. tabla[frame].pid >= 0
  BY <1>1, <1>4
<1>6. TypeOK /\ IndiceCoherente /\ PaginasUnicas
  BY DEF Estado, TablaBien
<1> QED
  BY <1>3, <1>4, <1>5, <1>6, AlmacenLibera

\* The other steps touch no frame, and answer nothing or refuse.
LEMMA AlmacenCalla ==
  ASSUME Estado,
         \/ \E t \in Hilos, p \in Lecturas : LeerSinCache(t, p)
         \/ \E t \in Hilos, p \in Escrituras : GuardarValor(t, p)
         \/ \E p \in Cargas : NuevoProceso(Kernel, p)
         \/ \E p \in Bajas : EliminarProceso(Kernel, p)
         \/ \E t \in Hilos : FinalizarFin(t) \/ Desconectar(t) \/ Conectar(t)
         \/ flush
  PROVE  Almacen!Responder
<1>1. ASSUME NEW p \in Cargas, NuevoProceso(Kernel, p)
      PROVE  Almacen!Responder
  <2>1. /\ tabla' = tabla /\ indice' = indice /\ memoria' = memoria
        /\ resp' = SinRespuesta \/ resp' = Error(p)
    BY <1>1 DEF NuevoProceso
  <2>2. p \in Pedido
    BY TipoPedidos
  <2> QED
    BY <2>1, <2>2, AlmacenResponde
<1>2. CASE ~(\E p \in Cargas : NuevoProceso(Kernel, p))
  <2>1. tabla' = tabla /\ indice' = indice /\ memoria' = memoria /\ resp' = SinRespuesta
    BY <1>2 DEF LeerSinCache, GuardarValor, EliminarProceso, FinalizarFin, Desconectar,
                Conectar, flush
  <2> QED
    BY <2>1, AlmacenResponde
<1> QED
  BY <1>1, <1>2

LEMMA AlmacenAvanza ==
  Estado /\ Estado' /\ CacheBien /\ TablaBien /\ Exclusion /\ SinMuertas /\ [Next]_vars
    => [Almacen!Next]_Almacen!vars
<1> SUFFICES ASSUME Estado, Estado', CacheBien, TablaBien, Exclusion, SinMuertas, [Next]_vars
             PROVE  Almacen!Next \/ UNCHANGED Almacen!vars
  OBVIOUS
<1>0. TypeOK' /\ Kernel \in Hilos
  BY MemoriaAssumption DEF Estado
<1>1. CASE UNCHANGED vars
  <2>1. contenido' = contenido /\ resp' = resp
    BY <1>1, ContenidoIgual DEF vars
  <2> QED
    BY <2>1 DEF Almacen!vars
<1>2. ASSUME NEW t \in Hilos, PedidoDeCpu(t)
      PROVE  Almacen!Next
  <2>1. ASSUME NEW p \in Lecturas, LeerEnCache(t, p)
        PROVE  Almacen!Next
    BY <2>1, AlmacenLeerEnCache DEF Almacen!Next
  <2> QED
    BY <1>2, <2>1, AlmacenCalla DEF PedidoDeCpu, Almacen!Next
<1>3. CASE PedidoDeKernel(Kernel)
  BY <1>0, <1>2, <1>3, AlmacenCalla, AlmacenHeap, AlmacenLiberaPagina
  DEF PedidoDeKernel, Almacen!Next
<1>4. ASSUME NEW t \in Hilos, Paso(t)
      PROVE  Almacen!Next
  BY <1>0, <1>4, AlmacenLeerTrasRetardo, AlmacenGuarda, AlmacenUbicar, AlmacenFinaliza,
     AlmacenCalla DEF Paso, Almacen!Next
<1>5. CASE (\E t \in Hilos : Desconectar(t) \/ Conectar(t)) \/ flush
  BY <1>5, AlmacenCalla DEF Almacen!Next
<1> QED
  BY <1>1, <1>2, <1>3, <1>4, <1>5 DEF Next

\* The memory process implements the store of pages of AlmacenPaginas, whatever the
\* interleaving of its threads: frames, index, cache, replacement and the sleeps of
\* RETARDO_MEMORIA are invisible to its clients, as long as they do not write pages they do
\* not have, the Kernel frees only last pages and no connection is closed.
THEOREM ImplementaLasPaginas ==
  ASSUME ~Permite("pagina_ausente"), ~Permite("libera_intermedia"), ~Permite("desconexion")
  PROVE  Spec => ImplementaAlmacen
BY AlmacenAlInicio, AlmacenAvanza, SiempreEnEstado, CacheSiempreBien, TablaSiempreBien,
   ExclusionSinDesconexion, MuertasSiempre, PTL DEF Spec, ImplementaAlmacen, Almacen!Spec

=============================================================================
