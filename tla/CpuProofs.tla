----------------------------- MODULE CpuProofs ------------------------------
(***************************************************************************)
(* The CPU, for every program, page size, depth of calls and order of the  *)
(* messages.                                                               *)
(*                                                                         *)
(* The stack is cut in slices: frame k owns the bytes from bases[k] to the *)
(* base of the next frame (to the stack pointer, the last one), and its    *)
(* variables are apart inside its slice.  Finishing a frame gives back at  *)
(* most its own slice, so what the frames below own never moves.           *)
(*                                                                         *)
(* A PCB is read as it was written: the words are a sequence of fields,    *)
(* and each reader stops where its writer did.                             *)
(*                                                                         *)
(* The connection is in one of a few phases, told by who has the process   *)
(* and by what travels: IInvCpu lists them.                                *)
(***************************************************************************)
EXTENDS Cpu, TLAPS, WellFoundedInduction, SequenceTheorems, FiniteSetTheorems

-----------------------------------------------------------------------------
(* The stack *)

\* The address of a variable from the beginning of the stack
Rel(v) == Direccion(v) - primerPaginaStack * tamanioPagina

EnOrden(s) == \A m, n \in DOMAIN s : m < n => Rel(s[m]) + sizeof_int <= Rel(s[n])

Ajenas(s, t) ==
  \A m \in DOMAIN s, n \in DOMAIN t :
     Rel(s[m]) + sizeof_int <= Rel(t[n]) \/ Rel(t[n]) + sizeof_int <= Rel(s[m])

Entre(s, base, tope) ==
  \A n \in DOMAIN s : base <= Rel(s[n]) /\ Rel(s[n]) + sizeof_int <= tope

\* A frame that owns the bytes from base to tope
Rebanada(r, base, tope) ==
  /\ base + sizeof_int * (Len(r.args) + Len(r.vars)) <= tope
  /\ Entre(r.args, base, tope) /\ Entre(r.vars, base, tope)
  /\ EnOrden(r.args) /\ EnOrden(r.vars) /\ Ajenas(r.args, r.vars)

Tope(k) == IF k = Ultimo THEN stackPointer ELSE bases[k + 1]

IInv ==
  /\ TypeOKPila
  /\ stackPointer <= tamanioStack * tamanioPagina
  /\ \A k \in Marcos : Rebanada(stack_index[k], bases[k], Tope(k))
  /\ RetornoVivo

-----------------------------------------------------------------------------
(* Addresses *)

LEMMA RelEntero ==
  ASSUME NEW v \in Variable
  PROVE  Direccion(v) \in Nat /\ Rel(v) \in Int
  <1>1. v.page \in Nat /\ v.offset \in Nat
    BY DEF Variable
  <1>2. tamanioPagina \in Nat /\ primerPaginaStack \in Nat
    BY PilaAssumption
  <1>3. v.page * tamanioPagina \in Nat /\ primerPaginaStack * tamanioPagina \in Nat
    BY <1>1, <1>2
  <1> QED BY <1>1, <1>3 DEF Rel, Direccion

LEMMA Division ==
  ASSUME NEW a \in Nat, NEW t \in Nat \ {0}
  PROVE  /\ a \div t \in Nat /\ a % t \in Nat
         /\ (a \div t) * t + (a % t) = a
         /\ (a \div t) * t <= a
  <1>1. a \div t \in Nat /\ a % t \in 0 .. t - 1
    BY SMT
  <1>2. a = t * (a \div t) + (a % t)
    BY SMT
  <1> QED BY <1>1, <1>2

LEMMA NuevaDireccion ==
  ASSUME stackPointer \in Nat, NEW i \in Ids
  PROVE  /\ NuevaVariable(i) \in Variable
         /\ Rel(NuevaVariable(i)) = stackPointer
  <1> DEFINE p == Pagina(stackPointer)
  <1>1. p \in Nat /\ p * tamanioPagina <= stackPointer
    <2>1. CASE stackPointer = 0
      BY <2>1, PilaAssumption DEF Pagina
    <2>2. CASE stackPointer # 0
      <3>1. stackPointer - 1 \in Nat /\ tamanioPagina \in Nat \ {0}
        BY <2>2, PilaAssumption
      <3>2. p = (stackPointer - 1) \div tamanioPagina
        BY <2>2 DEF Pagina
      <3>3. p \in Nat /\ p * tamanioPagina <= stackPointer - 1
        BY <3>1, <3>2, Division
      <3>4. p * tamanioPagina \in Nat
        BY <3>1, <3>3
      <3> QED BY <3>3, <3>4
    <2> QED BY <2>1, <2>2
  <1>2. /\ NuevaVariable(i).page = primerPaginaStack + p
        /\ NuevaVariable(i).offset = stackPointer - p * tamanioPagina
    BY DEF NuevaVariable
  <1>3. NuevaVariable(i) \in Variable
    <2> HIDE DEF p
    <2>1. primerPaginaStack + p \in Nat /\ stackPointer - p * tamanioPagina \in Nat
      BY <1>1, PilaAssumption
    <2> QED BY <1>2, <2>1 DEF NuevaVariable, Variable, p
  <1> HIDE DEF p
  <1>4. Direccion(NuevaVariable(i)) =
          (primerPaginaStack + p) * tamanioPagina + (stackPointer - p * tamanioPagina)
    BY <1>2 DEF Direccion
  <1>5. (primerPaginaStack + p) * tamanioPagina
          = primerPaginaStack * tamanioPagina + p * tamanioPagina
    BY <1>1, PilaAssumption
  <1>6. primerPaginaStack * tamanioPagina \in Nat /\ p * tamanioPagina \in Nat
    BY <1>1, PilaAssumption
  <1> QED BY <1>3, <1>4, <1>5, <1>6 DEF Rel

-----------------------------------------------------------------------------
(* Slices *)

LEMMA TamEntero == sizeof_int \in Nat \ {0} /\ tamanioPagina \in Nat \ {0}
                   /\ primerPaginaStack \in Nat /\ tamanioStack \in Nat
  BY PilaAssumption

LEMMA Producto ==
  ASSUME NEW c \in Nat, NEW n \in Nat
  PROVE  c * n \in Nat /\ c * (n + 1) = c * n + c
  OBVIOUS

LEMMA Suma ==
  ASSUME NEW x \in Nat, NEW y \in Nat
  PROVE  (x + 1) + y = x + y + 1 /\ x + (y + 1) = x + y + 1
  OBVIOUS

LEMMA Ocupado ==
  ASSUME NEW r \in Registro
  PROVE  /\ Len(r.args) \in Nat /\ Len(r.vars) \in Nat
         /\ sizeof_int * (Len(r.args) + Len(r.vars)) \in Nat
         /\ sizeof_int * (Len(r.args) + Len(r.vars) + 1)
              = sizeof_int * (Len(r.args) + Len(r.vars)) + sizeof_int
         /\ sizeof_int * Len(r.vars) \in Nat
         /\ sizeof_int * Len(r.vars) <= sizeof_int * (Len(r.args) + Len(r.vars))
  <1>1. Len(r.args) \in Nat /\ Len(r.vars) \in Nat
    BY DEF Registro
  <1> DEFINE a == Len(r.args)
             v == Len(r.vars)
  <1>a. a \in Nat /\ v \in Nat
    BY <1>1
  <1> HIDE DEF a, v
  <1>2. a \in Nat /\ v \in Nat /\ a + v \in Nat /\ sizeof_int \in Nat
    BY <1>a, TamEntero
  <1>3. /\ sizeof_int * (a + v) \in Nat
        /\ sizeof_int * (a + v + 1) = sizeof_int * (a + v) + sizeof_int
    BY <1>2, Producto
  <1>4. sizeof_int * a \in Nat /\ sizeof_int * v \in Nat
    BY <1>2, Producto
  <1>5. sizeof_int * (a + v) = sizeof_int * a + sizeof_int * v
    BY <1>2
  <1>6. sizeof_int * v <= sizeof_int * (a + v)
    BY <1>4, <1>5
  <1> QED BY <1>2, <1>3, <1>4, <1>6 DEF a, v

\* A slice may grow
LEMMA RebanadaCrece ==
  ASSUME NEW r \in Registro, NEW base \in Int, NEW tope \in Int, NEW mayor \in Int,
         Rebanada(r, base, tope), tope <= mayor
  PROVE  Rebanada(r, base, mayor)
  <1> DEFINE largo == sizeof_int * (Len(r.args) + Len(r.vars))
  <1>1. largo \in Nat
    BY Ocupado
  <1>2. base + largo <= tope
    BY DEF Rebanada
  <1> HIDE DEF largo
  <1>3. base + largo <= mayor
    BY <1>1, <1>2
  <1>4. ASSUME NEW s \in Seq(Variable), Entre(s, base, tope)
        PROVE  Entre(s, base, mayor)
    <2>1. \A n \in DOMAIN s : Rel(s[n]) \in Int
      BY RelEntero
    <2> QED BY <1>4, <2>1, TamEntero DEF Entre
  <1>5. r.args \in Seq(Variable) /\ r.vars \in Seq(Variable)
    BY DEF Registro
  <1> QED BY <1>3, <1>4, <1>5 DEF Rebanada, largo

\* A frame that has just begun owns nothing
LEMMA RebanadaVacia ==
  ASSUME NEW pos, NEW d, NEW base \in Nat
  PROVE  Rebanada(Vacio(pos, d), base, base)
  <1>1. sizeof_int * (0 + 0) = 0
    BY TamEntero
  <1>2. /\ Vacio(pos, d).args = <<>> /\ Vacio(pos, d).vars = <<>>
        /\ Len(<<>>) = 0 /\ DOMAIN <<>> = {}
    BY DEF Vacio
  <1>3. base + sizeof_int * (Len(Vacio(pos, d).args) + Len(Vacio(pos, d).vars)) <= base
    BY <1>1, <1>2
  <1> QED BY <1>2, <1>3 DEF Rebanada, Entre, EnOrden, Ajenas

\* A new variable at the end of the slice
LEMMA RebanadaConVariable ==
  ASSUME NEW r \in Registro, NEW base \in Nat, NEW tope \in Nat, NEW v \in Variable,
         Rebanada(r, base, tope), Rel(v) = tope
  PROVE  /\ ConVariable(r, v) \in Registro
         /\ Rebanada(ConVariable(r, v), base, tope + sizeof_int)
  <1> DEFINE q == ConVariable(r, v)
             mas == tope + sizeof_int
  <1>t. sizeof_int \in Nat /\ mas \in Nat
    BY TamEntero
  <1>1. r.args \in Seq(Variable) /\ r.vars \in Seq(Variable) /\ Len(r.args) \in Nat /\ Len(r.vars) \in Nat
    BY DEF Registro
  <1> DEFINE largo == sizeof_int * (Len(r.args) + Len(r.vars))
             luego == sizeof_int * (Len(r.args) + Len(r.vars) + 1)
  <1>2. largo \in Nat /\ luego = largo + sizeof_int
    BY Ocupado
  <1>3. base + largo <= tope
    BY DEF Rebanada
  <1> HIDE DEF largo, luego
  <1>4. base + luego <= mas /\ base <= tope
    BY <1>2, <1>3, <1>t
  \* Either list with the variable at its end
  <1>5. ASSUME NEW s \in Seq(Variable), Entre(s, base, tope), EnOrden(s)
        PROVE  /\ Append(s, v) \in Seq(Variable) /\ Len(Append(s, v)) = Len(s) + 1
               /\ Entre(s, base, mas)
               /\ Entre(Append(s, v), base, mas) /\ EnOrden(Append(s, v))
    <2>1. /\ Append(s, v) \in Seq(Variable) /\ Len(Append(s, v)) = Len(s) + 1
          /\ DOMAIN s = 1 .. Len(s) /\ Len(s) \in Nat
          /\ DOMAIN Append(s, v) = 1 .. Len(s) + 1
          /\ \A n \in DOMAIN s : Append(s, v)[n] = s[n]
          /\ Append(s, v)[Len(s) + 1] = v
      OBVIOUS
    <2>2. \A n \in DOMAIN s : Rel(s[n]) \in Int
      BY RelEntero
    <2>3. Entre(s, base, mas)
      BY <1>5, <1>t, <2>2 DEF Entre
    <2>4. \A n \in DOMAIN s : Rel(s[n]) + sizeof_int <= Rel(v)
      BY <1>5 DEF Entre
    <2>5. Entre(Append(s, v), base, mas)
      <3> SUFFICES ASSUME NEW n \in DOMAIN Append(s, v)
                   PROVE  /\ base <= Rel(Append(s, v)[n])
                          /\ Rel(Append(s, v)[n]) + sizeof_int <= mas
        BY DEF Entre
      <3>1. CASE n \in DOMAIN s
        BY <3>1, <2>1, <2>3 DEF Entre
      <3>2. CASE n = Len(s) + 1
        BY <3>2, <2>1, <1>4, <1>t
      <3> QED BY <3>1, <3>2, <2>1
    <2>6. EnOrden(Append(s, v))
      <3> SUFFICES ASSUME NEW m \in DOMAIN Append(s, v), NEW n \in DOMAIN Append(s, v), m < n
                   PROVE  Rel(Append(s, v)[m]) + sizeof_int <= Rel(Append(s, v)[n])
        BY DEF EnOrden
      <3>1. m \in DOMAIN s
        BY <2>1
      <3>2. CASE n \in DOMAIN s
        BY <3>1, <3>2, <2>1, <1>5 DEF EnOrden
      <3>3. CASE n = Len(s) + 1
        BY <3>1, <3>3, <2>1, <2>4
      <3> QED BY <3>2, <3>3, <2>1
    <2> QED BY <2>1, <2>3, <2>5, <2>6
  <1>6. ASSUME NEW s \in Seq(Variable), NEW t \in Seq(Variable), Entre(s, base, tope), Ajenas(s, t)
        PROVE  Ajenas(s, Append(t, v))
    <2>1. /\ DOMAIN t = 1 .. Len(t) /\ Len(t) \in Nat
          /\ DOMAIN Append(t, v) = 1 .. Len(t) + 1
          /\ \A n \in DOMAIN t : Append(t, v)[n] = t[n]
          /\ Append(t, v)[Len(t) + 1] = v
      OBVIOUS
    <2> SUFFICES ASSUME NEW m \in DOMAIN s, NEW n \in DOMAIN Append(t, v)
                 PROVE  \/ Rel(s[m]) + sizeof_int <= Rel(Append(t, v)[n])
                        \/ Rel(Append(t, v)[n]) + sizeof_int <= Rel(s[m])
      BY DEF Ajenas
    <2>2. CASE n \in DOMAIN t
      BY <2>1, <2>2, <1>6 DEF Ajenas
    <2>3. CASE n = Len(t) + 1
      BY <2>1, <2>3, <1>6 DEF Entre
    <2> QED BY <2>1, <2>2, <2>3
  <1>7. \A s, t : Ajenas(s, t) <=> Ajenas(t, s)
    BY DEF Ajenas
  <1>r. /\ Entre(r.args, base, tope) /\ Entre(r.vars, base, tope)
        /\ EnOrden(r.args) /\ EnOrden(r.vars) /\ Ajenas(r.args, r.vars)
    BY DEF Rebanada
  <1>8. CASE v.id \in Argumentos
    <2>1. q = [r EXCEPT !.args = Append(@, v)]
      BY <1>8 DEF ConVariable
    <2>2. q.args = Append(r.args, v) /\ q.vars = r.vars /\ q \in Registro
      BY <2>1, <1>1, <1>5, <1>r DEF Registro
    <2>l. Len(Append(r.args, v)) = Len(r.args) + 1
      BY <1>1, <1>5, <1>r
    <2>3. Len(q.args) + Len(q.vars) = Len(r.args) + Len(r.vars) + 1
      <3>1. Len(q.args) = Len(r.args) + 1 /\ Len(q.vars) = Len(r.vars)
        BY <2>2, <2>l
      <3>2. (Len(r.args) + 1) + Len(r.vars) = Len(r.args) + Len(r.vars) + 1
        BY <1>1, Suma
      <3> QED BY <3>1, <3>2, Zenon
    <2>4. base + sizeof_int * (Len(q.args) + Len(q.vars)) <= mas
      BY <2>3, <1>4 DEF luego
    <2>5. Entre(q.args, base, mas) /\ Entre(q.vars, base, mas) /\ EnOrden(q.args) /\ EnOrden(q.vars)
      BY <2>2, <1>1, <1>5, <1>r
    <2>6. Ajenas(q.args, q.vars)
      BY <2>2, <1>1, <1>6, <1>7, <1>r
    <2> QED BY <2>2, <2>4, <2>5, <2>6 DEF Rebanada
  <1>9. CASE v.id \notin Argumentos
    <2>1. q = [r EXCEPT !.vars = Append(@, v)]
      BY <1>9 DEF ConVariable
    <2>2. q.vars = Append(r.vars, v) /\ q.args = r.args /\ q \in Registro
      BY <2>1, <1>1, <1>5, <1>r DEF Registro
    <2>l. Len(Append(r.vars, v)) = Len(r.vars) + 1
      BY <1>1, <1>5, <1>r
    <2>3. Len(q.args) + Len(q.vars) = Len(r.args) + Len(r.vars) + 1
      <3>1. Len(q.vars) = Len(r.vars) + 1 /\ Len(q.args) = Len(r.args)
        BY <2>2, <2>l
      <3>2. Len(r.args) + (Len(r.vars) + 1) = Len(r.args) + Len(r.vars) + 1
        BY <1>1, Suma
      <3> QED BY <3>1, <3>2, Zenon
    <2>4. base + sizeof_int * (Len(q.args) + Len(q.vars)) <= mas
      BY <2>3, <1>4 DEF luego
    <2>5. Entre(q.args, base, mas) /\ Entre(q.vars, base, mas) /\ EnOrden(q.args) /\ EnOrden(q.vars)
      BY <2>2, <1>1, <1>5, <1>r
    <2>6. Ajenas(q.args, q.vars)
      BY <2>2, <1>1, <1>6, <1>r
    <2> QED BY <2>2, <2>4, <2>5, <2>6 DEF Rebanada
  <1> QED BY <1>8, <1>9

LEMMA Adentro ==
  ASSUME NEW n \in Nat, NEW j \in 1 .. n, j # n
  PROVE  j + 1 \in 1 .. n
  OBVIOUS

LEMMA Componentes ==
  ASSUME NEW r \in Registro
  PROVE  r.args \in Seq(Variable) /\ r.vars \in Seq(Variable)
  BY DEF Registro

-----------------------------------------------------------------------------
(* The invariant *)

LEMMA InicioPila == InitPila => IInv
  <1> SUFFICES ASSUME InitPila
               PROVE  IInv
    OBVIOUS
  <1>1. stack_index = <<>> /\ bases = <<>> /\ stackPointer = 0 /\ perdidos = 0
    BY DEF InitPila
  <1>2. TypeOKPila
    BY <1>1 DEF TypeOKPila
  <1>3. DOMAIN stack_index = {}
    BY <1>1
  <1>4. 0 <= tamanioStack * tamanioPagina
    BY TamEntero
  <1> QED BY <1>1, <1>2, <1>3, <1>4 DEF IInv, RetornoVivo, Marcos

LEMMA DefinirPila ==
  ASSUME IInv, NEW i \in Ids, Definir(i)
  PROVE  IInv'
  <1> DEFINE v == NuevaVariable(i)
  <1>t. /\ stack_index \in Seq(Registro) /\ stackPointer \in Nat /\ bases \in Seq(Nat)
        /\ Len(bases) = Len(stack_index) /\ perdidos \in Nat /\ Len(stack_index) \in Nat
        /\ DOMAIN stack_index = 1 .. Len(stack_index)
    BY DEF IInv, TypeOKPila
  <1>v. v \in Variable /\ Rel(v) = stackPointer
    BY <1>t, NuevaDireccion
  <1>s. stackPointer' = stackPointer + sizeof_int /\ stackPointer' \in Nat
    BY <1>t, TamEntero DEF Definir
  <1>p. perdidos' = perdidos
    BY DEF Definir
  <1>m. stackPointer' <= tamanioStack * tamanioPagina
    <2>1. tamanioStack * tamanioPagina \in Int
      BY TamEntero
    <2> QED BY <1>t, <1>s, <2>1, TamEntero DEF Definir, Desborda
  <1> HIDE DEF v
  <1>1. CASE stack_index = <<>>
    <2> DEFINE r == ConVariable(Vacio(0, SinRetorno), v)
    <2>1. stack_index' = <<r>> /\ bases' = <<stackPointer>>
      BY <1>1 DEF Definir, v
    <2>2. Vacio(0, SinRetorno) \in Registro
      BY PilaAssumption DEF Vacio, SinRetorno, Registro, Destino
    <2>3. Rebanada(Vacio(0, SinRetorno), stackPointer, stackPointer)
      BY <1>t, RebanadaVacia
    <2>4. r \in Registro /\ Rebanada(r, stackPointer, stackPointer + sizeof_int)
      BY <2>2, <2>3, <1>t, <1>v, RebanadaConVariable
    <2> HIDE DEF r
    <2>5. /\ stack_index' \in Seq(Registro) /\ bases' \in Seq(Nat)
          /\ Len(stack_index') = 1 /\ Len(bases') = 1 /\ DOMAIN stack_index' = {1}
          /\ stack_index'[1] = r /\ bases'[1] = stackPointer
      BY <2>1, <2>4, <1>t
    <2>6. TypeOKPila'
      BY <2>5, <1>s, <1>p, <1>t DEF TypeOKPila
    <2>7. \A k \in Marcos' : Rebanada(stack_index'[k], bases'[k], Tope(k)')
      BY <2>4, <2>5, <1>s DEF Marcos, Tope, Ultimo
    <2>8. RetornoVivo'
      BY <2>5 DEF RetornoVivo, Marcos
    <2>9. (\A k \in Marcos : Rebanada(stack_index[k], bases[k], Tope(k)))'
      BY <2>7 DEF Rebanada, Entre, EnOrden, Ajenas, Rel, Direccion
    <2> QED BY <2>6, <2>8, <2>9, <1>m DEF IInv
  <1>2. CASE stack_index # <<>>
    <2> DEFINE u == Len(stack_index)
               r == ConVariable(stack_index[u], v)
    <2>1. u \in Nat \ {0} /\ u \in DOMAIN stack_index
      BY <1>2, <1>t
    <2>2. stack_index' = [stack_index EXCEPT ![u] = r] /\ bases' = bases
      BY <1>2 DEF Definir, Ultimo, v
    <2>3. stack_index[u] \in Registro /\ bases[u] \in Nat
      BY <2>1, <1>t
    <2>4. Rebanada(stack_index[u], bases[u], stackPointer)
      BY <2>1 DEF IInv, Marcos, Tope, Ultimo
    <2>5. r \in Registro /\ Rebanada(r, bases[u], stackPointer + sizeof_int)
      BY <2>3, <2>4, <1>t, <1>v, RebanadaConVariable
    <2>r. /\ r.ret_var = stack_index[u].ret_var
          /\ Range(stack_index[u].args) \subseteq Range(r.args)
          /\ Range(stack_index[u].vars) \subseteq Range(r.vars)
      <3>1. stack_index[u].args \in Seq(Variable) /\ stack_index[u].vars \in Seq(Variable)
        BY <2>3 DEF Registro
      <3>2. \A s \in Seq(Variable) : Range(s) \subseteq Range(Append(s, v))
        BY <1>v DEF Range
      <3>3. CASE v.id \in Argumentos
        <4>1. r = [stack_index[u] EXCEPT !.args = Append(@, v)]
          BY <3>3 DEF ConVariable
        <4>2. /\ r.ret_var = stack_index[u].ret_var /\ r.vars = stack_index[u].vars
              /\ r.args = Append(stack_index[u].args, v)
          BY <4>1, <2>3 DEF Registro
        <4> QED BY <4>2, <3>1, <3>2
      <3>4. CASE v.id \notin Argumentos
        <4>1. r = [stack_index[u] EXCEPT !.vars = Append(@, v)]
          BY <3>4 DEF ConVariable
        <4>2. /\ r.ret_var = stack_index[u].ret_var /\ r.args = stack_index[u].args
              /\ r.vars = Append(stack_index[u].vars, v)
          BY <4>1, <2>3 DEF Registro
        <4> QED BY <4>2, <3>1, <3>2
      <3> QED BY <3>3, <3>4
    <2> HIDE DEF r
    <2>6. /\ stack_index' \in Seq(Registro) /\ Len(stack_index') = u
          /\ DOMAIN stack_index' = 1 .. u
          /\ stack_index'[u] = r
          /\ \A k \in (1 .. u) \ {u} : stack_index'[k] = stack_index[k]
      BY <2>1, <2>2, <2>5, <1>t
    <2>7. TypeOKPila'
      BY <2>2, <2>6, <1>s, <1>p, <1>t DEF TypeOKPila
    <2>8. ASSUME NEW k \in 1 .. u
          PROVE  Rebanada(stack_index'[k], bases'[k], Tope(k)')
      <3>1. CASE k = u
        <4>1. Tope(k)' = stackPointer + sizeof_int
          BY <3>1, <2>6, <1>s DEF Tope, Ultimo
        <4> QED BY <3>1, <4>1, <2>2, <2>5, <2>6
      <3>2. CASE k # u
        <4>1. Tope(k)' = Tope(k)
          BY <3>2, <2>2, <2>6 DEF Tope, Ultimo
        <4>2. stack_index'[k] = stack_index[k]
          BY <3>2, <2>6
        <4>3. Rebanada(stack_index[k], bases[k], Tope(k))
          BY <1>t DEF IInv, Marcos
        <4> QED BY <4>1, <4>2, <4>3, <2>2
      <3> QED BY <3>1, <3>2
    <2>9. (\A k \in Marcos : Rebanada(stack_index[k], bases[k], Tope(k)))'
      BY <2>6, <2>8 DEF Marcos, Rebanada, Entre, EnOrden, Ajenas, Rel, Direccion
    <2>10. RetornoVivo'
      <3> SUFFICES ASSUME NEW k \in (1 .. u) \ {1}
                   PROVE  (Direccion(stack_index[k].ret_var) \in
                             {Direccion(w) : w \in Celdas(k - 1)})'
        BY <2>6 DEF RetornoVivo, Marcos
      <3>1. stack_index'[k].ret_var = stack_index[k].ret_var
        BY <2>6, <2>r
      <3>2. Direccion(stack_index[k].ret_var) \in {Direccion(w) : w \in Celdas(k - 1)}
        BY <1>t DEF IInv, RetornoVivo, Marcos
      <3>3. k - 1 \in (1 .. u) \ {u} /\ stack_index'[k - 1] = stack_index[k - 1]
        <4>1. u \in Nat
          BY <1>t
        <4>2. k - 1 \in (1 .. u) \ {u}
          BY <4>1
        <4> QED BY <4>2, <2>6
      <3>4. Celdas(k - 1)' = Celdas(k - 1)
        BY <3>3 DEF Celdas, Range
      <3> QED BY <3>1, <3>2, <3>4 DEF Direccion
    <2> QED BY <2>7, <2>9, <2>10, <1>m DEF IInv
  <1> QED BY <1>1, <1>2

LEMMA LlamarPila ==
  ASSUME IInv, NEW pos \in Posiciones, NEW donde \in CeldasActuales, Llamar(pos, donde)
  PROVE  IInv'
  <1> DEFINE u == Len(stack_index)
             destino == [page |-> Direccion(donde) \div tamanioPagina,
                         offset |-> Direccion(donde) % tamanioPagina, size |-> sizeof_int]
             r == Vacio(pos, destino)
  <1>t. /\ stack_index \in Seq(Registro) /\ stackPointer \in Nat /\ bases \in Seq(Nat)
        /\ Len(bases) = u /\ perdidos \in Nat /\ u \in Nat
        /\ DOMAIN stack_index = 1 .. u /\ DOMAIN bases = 1 .. u
    BY DEF IInv, TypeOKPila
  <1>1. stack_index # <<>> /\ donde \in Celdas(u)
    BY DEF CeldasActuales, Ultimo
  <1>2. u \in Nat \ {0} /\ u \in DOMAIN stack_index
    BY <1>1, <1>t
  <1>3. donde \in Variable
    <2>1. stack_index[u].args \in Seq(Variable) /\ stack_index[u].vars \in Seq(Variable)
      <3>1. stack_index[u] \in Registro
        BY <1>2, <1>t
      <3> QED BY <3>1, Componentes
    <2>2. \A s \in Seq(Variable) : Range(s) \subseteq Variable
      BY DEF Range
    <2> QED BY <1>1, <2>1, <2>2 DEF Celdas
  <1>d. destino \in Destino /\ Direccion(destino) = Direccion(donde)
    <2>1. Direccion(donde) \in Nat /\ tamanioPagina \in Nat \ {0}
      BY <1>3, RelEntero, TamEntero
    <2>2. /\ Direccion(donde) \div tamanioPagina \in Nat /\ Direccion(donde) % tamanioPagina \in Nat
          /\ (Direccion(donde) \div tamanioPagina) * tamanioPagina
               + (Direccion(donde) % tamanioPagina) = Direccion(donde)
      BY <2>1, Division
    <2>3. destino.page * tamanioPagina + destino.offset = Direccion(donde)
      BY <2>2
    <2>4. destino \in Destino
      BY <2>2 DEF Destino
    <2> QED BY <2>3, <2>4 DEF Direccion
  <1>4. r \in Registro /\ r.ret_var = destino
    BY <1>d DEF Vacio, Registro
  <1>5. Rebanada(r, stackPointer, stackPointer)
    BY <1>t, RebanadaVacia
  <1>6. /\ stack_index' = Append(stack_index, r) /\ bases' = Append(bases, stackPointer)
        /\ stackPointer' = stackPointer /\ perdidos' = perdidos
    BY DEF Llamar
  <1> HIDE DEF r, destino
  <1>7. /\ stack_index' \in Seq(Registro) /\ Len(stack_index') = u + 1
        /\ DOMAIN stack_index' = 1 .. u + 1
        /\ stack_index'[u + 1] = r
        /\ \A k \in 1 .. u : stack_index'[k] = stack_index[k]
        /\ bases' \in Seq(Nat) /\ Len(bases') = u + 1
        /\ bases'[u + 1] = stackPointer
        /\ \A k \in 1 .. u : bases'[k] = bases[k]
    BY <1>4, <1>6, <1>t
  <1>8. TypeOKPila'
    BY <1>6, <1>7, <1>t DEF TypeOKPila
  <1>9. ASSUME NEW k \in 1 .. u + 1
        PROVE  Rebanada(stack_index'[k], bases'[k], Tope(k)')
    <2>1. CASE k = u + 1
      <3>1. Tope(k)' = stackPointer
        BY <2>1, <1>6, <1>7 DEF Tope, Ultimo
      <3> QED BY <2>1, <3>1, <1>5, <1>7
    <2>2. CASE k # u + 1
      <3>1. k \in 1 .. u
        BY <2>2, <1>t
      <3>2. Tope(k)' = bases'[k + 1]
        BY <2>2, <1>7 DEF Tope, Ultimo
      <3>3. Tope(k)' = Tope(k)
        <4>1. CASE k = u
          BY <4>1, <3>2, <1>7 DEF Tope, Ultimo
        <4>2. CASE k # u
          <5>1. k + 1 \in 1 .. u
            BY <3>1, <4>2, <1>t, Adentro
          <5> QED BY <5>1, <4>2, <3>2, <1>7 DEF Tope, Ultimo
        <4> QED BY <4>1, <4>2
      <3>4. Rebanada(stack_index[k], bases[k], Tope(k))
        BY <3>1, <1>t DEF IInv, Marcos
      <3> QED BY <3>1, <3>3, <3>4, <1>7
    <2> QED BY <2>1, <2>2
  <1>10. (\A k \in Marcos : Rebanada(stack_index[k], bases[k], Tope(k)))'
    BY <1>7, <1>9 DEF Marcos, Rebanada, Entre, EnOrden, Ajenas, Rel, Direccion
  <1>11. RetornoVivo'
    <2> SUFFICES ASSUME NEW k \in (1 .. u + 1) \ {1}
                 PROVE  (Direccion(stack_index[k].ret_var) \in
                           {Direccion(w) : w \in Celdas(k - 1)})'
      BY <1>7 DEF RetornoVivo, Marcos
    <2>1. k - 1 \in 1 .. u
      BY <1>t
    <2>2. Celdas(k - 1)' = Celdas(k - 1)
      BY <2>1, <1>7 DEF Celdas, Range
    <2>3. CASE k = u + 1
      <3>1. stack_index'[k].ret_var = destino /\ Celdas(k - 1)' = Celdas(u)
        BY <2>2, <2>3, <1>4, <1>7, <1>t
      <3> QED BY <3>1, <1>1, <1>d DEF Direccion
    <2>4. CASE k # u + 1
      <3>1. k \in (1 .. u) \ {1}
        BY <2>4, <1>t
      <3>2. Direccion(stack_index[k].ret_var) \in {Direccion(w) : w \in Celdas(k - 1)}
        BY <3>1, <1>t DEF IInv, RetornoVivo, Marcos
      <3>3. stack_index'[k].ret_var = stack_index[k].ret_var
        BY <3>1, <1>7
      <3> QED BY <2>2, <3>2, <3>3 DEF Direccion
    <2> QED BY <2>3, <2>4
  <1>12. (stackPointer <= tamanioStack * tamanioPagina)'
    BY <1>6 DEF IInv
  <1> QED BY <1>8, <1>10, <1>11, <1>12 DEF IInv

LEMMA FinalizarPila ==
  ASSUME IInv, Finalizar
  PROVE  IInv'
  <1> DEFINE u == Len(stack_index)
             menos == sizeof_int * Len(stack_index[u].vars)
             largo == sizeof_int * (Len(stack_index[u].args) + Len(stack_index[u].vars))
  <1>t. /\ stack_index \in Seq(Registro) /\ stackPointer \in Nat /\ bases \in Seq(Nat)
        /\ Len(bases) = u /\ perdidos \in Nat /\ u \in Nat
        /\ DOMAIN stack_index = 1 .. u /\ DOMAIN bases = 1 .. u
    BY DEF IInv, TypeOKPila
  <1>1. u \in Nat \ {0} /\ u \in 1 .. u
    BY <1>t DEF Finalizar, Ultimo
  <1>2. stack_index[u] \in Registro /\ bases[u] \in Nat
    BY <1>1, <1>t
  <1>3. /\ stack_index' = SubSeq(stack_index, 1, u - 1) /\ bases' = SubSeq(bases, 1, u - 1)
        /\ stackPointer' = stackPointer - menos
        /\ perdidos' = perdidos + Len(stack_index[u].args)
    BY DEF Finalizar, Ultimo
  <1>4. largo \in Nat /\ menos \in Nat /\ menos <= largo /\ Len(stack_index[u].args) \in Nat
    BY <1>2, Ocupado
  <1>5. bases[u] + largo <= stackPointer
    BY <1>1, <1>t DEF IInv, Marcos, Tope, Ultimo, Rebanada
  <1> HIDE DEF menos, largo
  <1>6. stackPointer' \in Nat /\ bases[u] <= stackPointer' /\ stackPointer' <= stackPointer
    BY <1>2, <1>3, <1>4, <1>5, <1>t
  <1>7. /\ stack_index' \in Seq(Registro) /\ Len(stack_index') = u - 1
        /\ DOMAIN stack_index' = 1 .. u - 1
        /\ \A k \in 1 .. u - 1 : stack_index'[k] = stack_index[k]
        /\ bases' \in Seq(Nat) /\ Len(bases') = u - 1
        /\ \A k \in 1 .. u - 1 : bases'[k] = bases[k]
    BY <1>1, <1>3, <1>t
  <1>8. TypeOKPila'
    <2>1. perdidos' \in Nat
      BY <1>3, <1>4, <1>t
    <2> QED BY <1>6, <1>7, <2>1 DEF TypeOKPila
  <1>9. ASSUME NEW k \in 1 .. u - 1
        PROVE  Rebanada(stack_index'[k], bases'[k], Tope(k)')
    <2>1. k \in 1 .. u /\ k # u /\ k + 1 \in 1 .. u
      BY <1>1
    <2>2. Rebanada(stack_index[k], bases[k], Tope(k)) /\ Tope(k) = bases[k + 1]
      BY <2>1, <1>t DEF IInv, Marcos, Tope, Ultimo
    <2>3. bases[k + 1] \in Nat /\ bases[k] \in Nat /\ stack_index[k] \in Registro
      <3>1. \A j \in 1 .. u : bases[j] \in Nat /\ stack_index[j] \in Registro
        BY <1>t
      <3> QED BY <2>1, <3>1
    <2>4. Tope(k)' \in Nat /\ bases[k + 1] <= Tope(k)'
      <3>1. CASE k = u - 1
        <4>1. Tope(k)' = stackPointer' /\ k + 1 = u
          BY <3>1, <1>1, <1>7 DEF Tope, Ultimo
        <4> QED BY <4>1, <1>6
      <3>2. CASE k # u - 1
        <4>1. Tope(k)' = bases'[k + 1]
          BY <3>2, <1>7 DEF Tope, Ultimo
        <4>2. k + 1 \in 1 .. u - 1
          <5>1. u - 1 \in Nat
            BY <1>1
          <5> QED BY <3>2, <5>1, Adentro
        <4>3. bases'[k + 1] = bases[k + 1]
          BY <4>2, <1>7
        <4> QED BY <4>1, <4>3, <2>3
      <3> QED BY <3>1, <3>2
    <2>5. Rebanada(stack_index[k], bases[k], Tope(k)')
      BY <2>2, <2>3, <2>4, RebanadaCrece
    <2> QED BY <2>5, <1>7
  <1>10. (\A k \in Marcos : Rebanada(stack_index[k], bases[k], Tope(k)))'
    BY <1>7, <1>9 DEF Marcos, Rebanada, Entre, EnOrden, Ajenas, Rel, Direccion
  <1>11. RetornoVivo'
    <2> SUFFICES ASSUME NEW k \in (1 .. u - 1) \ {1}
                 PROVE  (Direccion(stack_index[k].ret_var) \in
                           {Direccion(w) : w \in Celdas(k - 1)})'
      BY <1>7 DEF RetornoVivo, Marcos
    <2>1. k \in (1 .. u) \ {1} /\ k - 1 \in 1 .. u - 1
      BY <1>1
    <2>2. Celdas(k - 1)' = Celdas(k - 1) /\ stack_index'[k].ret_var = stack_index[k].ret_var
      BY SMTT(20), <2>1, <1>7 DEF Celdas, Range
    <2>3. Direccion(stack_index[k].ret_var) \in {Direccion(w) : w \in Celdas(k - 1)}
      BY <2>1, <1>t DEF IInv, RetornoVivo, Marcos
    <2> QED BY <2>2, <2>3 DEF Direccion
  <1>12. (stackPointer <= tamanioStack * tamanioPagina)'
    <2>1. tamanioStack * tamanioPagina \in Int
      BY TamEntero
    <2> QED BY <2>1, <1>6, <1>t DEF IInv
  <1> QED BY <1>8, <1>10, <1>11, <1>12 DEF IInv

LEMMA NuevaPila ==
  ASSUME IInv, Nueva
  PROVE  IInv'
  <1>1. stack_index' = <<>> /\ bases' = <<>> /\ stackPointer' = 0 /\ perdidos' = 0
    BY DEF Nueva
  <1>2. TypeOKPila'
    BY <1>1 DEF TypeOKPila
  <1>3. DOMAIN stack_index' = {}
    BY <1>1
  <1>4. 0 <= tamanioStack * tamanioPagina
    BY TamEntero
  <1> QED BY <1>1, <1>2, <1>3, <1>4 DEF IInv, RetornoVivo, Marcos

LEMMA PasoDePila ==
  ASSUME IInv, [NextPila]_pila
  PROVE  IInv'
  <1>1. ASSUME NEW i \in Ids, Definir(i)
        PROVE  IInv'
    BY <1>1, DefinirPila
  <1>2. ASSUME NEW pos \in Posiciones, NEW donde \in CeldasActuales, Llamar(pos, donde)
        PROVE  IInv'
    BY <1>2, LlamarPila
  <1>3. CASE Finalizar
    BY <1>3, FinalizarPila
  <1>4. CASE Nueva
    BY <1>4, NuevaPila
  <1>5. CASE UNCHANGED pila
    <2>1. /\ stack_index' = stack_index /\ stackPointer' = stackPointer
          /\ bases' = bases /\ perdidos' = perdidos
      BY <1>5 DEF pila
    <2>2. TypeOKPila'
      BY <2>1 DEF IInv, TypeOKPila
    <2>3. RetornoVivo'
      BY <2>1 DEF IInv, RetornoVivo, Marcos, Celdas, Direccion
    <2>4. (stackPointer <= tamanioStack * tamanioPagina)'
      BY <2>1 DEF IInv
    <2>5. (\A k \in Marcos : Rebanada(stack_index[k], bases[k], Tope(k)))'
      <3>1. \A k \in Marcos : Rebanada(stack_index[k], bases[k], Tope(k))
        BY DEF IInv
      <3>2. Marcos' = Marcos /\ \A k \in Marcos : Tope(k)' = Tope(k)
        BY <2>1 DEF Marcos, Tope, Ultimo
      <3>3. \A k \in Marcos : Rebanada(stack_index'[k], bases'[k], Tope(k)')
        BY <3>1, <3>2, <2>1, Zenon
      <3> QED BY <3>2, <3>3 DEF Rebanada, Entre, EnOrden, Ajenas, Rel, Direccion
    <2> QED BY <2>2, <2>3, <2>4, <2>5 DEF IInv
  <1> QED BY <1>1, <1>2, <1>3, <1>4, <1>5 DEF NextPila

LEMMA InvariantePila == SpecPila => []IInv
  <1>1. InitPila => IInv
    BY InicioPila
  <1>2. IInv /\ [NextPila]_pila => IInv'
    BY PasoDePila
  <1> QED BY <1>1, <1>2, PTL DEF SpecPila

-----------------------------------------------------------------------------
(* What it gives *)

\* Frames further up begin further up
EnAlza == \A k, l \in Marcos : k <= l => bases[k] <= bases[l]

LEMMA AlzaSeMantiene ==
  ASSUME IInv, EnAlza, NextPila
  PROVE  EnAlza'
  <1> DEFINE u == Len(stack_index)
  <1>t. /\ stack_index \in Seq(Registro) /\ stackPointer \in Nat /\ bases \in Seq(Nat)
        /\ Len(bases) = u /\ u \in Nat /\ DOMAIN stack_index = 1 .. u
        /\ \A k \in 1 .. u : bases[k] \in Nat
    BY DEF IInv, TypeOKPila
  <1>e. \A k, l \in 1 .. u : k <= l => bases[k] <= bases[l]
    BY <1>t DEF EnAlza, Marcos
  <1>1. ASSUME NEW i \in Ids, Definir(i)
        PROVE  EnAlza'
    <2>1. CASE stack_index = <<>>
      <3>1. /\ stack_index' = <<ConVariable(Vacio(0, SinRetorno), NuevaVariable(i))>>
            /\ bases' = <<stackPointer>>
        BY <1>1, <2>1 DEF Definir
      <3>2. DOMAIN stack_index' = {1} /\ bases'[1] = stackPointer
        BY <3>1
      <3> QED BY <3>2, <1>t DEF EnAlza, Marcos
    <2>2. CASE stack_index # <<>>
      <3>1. DOMAIN stack_index' = DOMAIN stack_index /\ bases' = bases
        BY <1>1, <2>2, <1>t DEF Definir
      <3> QED BY <3>1 DEF EnAlza, Marcos
    <2> QED BY <2>1, <2>2
  <1>2. ASSUME NEW pos \in Posiciones, NEW donde \in CeldasActuales, Llamar(pos, donde)
        PROVE  EnAlza'
    <2>1. u \in 1 .. u
      BY <1>t DEF CeldasActuales
    <2>2. /\ DOMAIN stack_index' = 1 .. u + 1 /\ bases'[u + 1] = stackPointer
          /\ \A k \in 1 .. u : bases'[k] = bases[k]
      BY <1>2, <1>t DEF Llamar
    <2>3. bases[u] <= stackPointer
      <3> DEFINE largo == sizeof_int * (Len(stack_index[u].args) + Len(stack_index[u].vars))
      <3>1. largo \in Nat
        <4>1. stack_index[u] \in Registro
          BY <2>1, <1>t
        <4> QED BY <4>1, Ocupado
      <3>2. bases[u] + largo <= stackPointer
        BY <2>1, <1>t DEF IInv, Marcos, Tope, Ultimo, Rebanada
      <3> HIDE DEF largo
      <3> QED BY <3>1, <3>2, <2>1, <1>t
    <2>4. ASSUME NEW k \in 1 .. u + 1, NEW l \in 1 .. u + 1, k <= l
          PROVE  bases'[k] <= bases'[l]
      <3>1. CASE l \in 1 .. u
        <4>1. k \in 1 .. u
          BY <3>1, <2>4
        <4> QED BY <4>1, <3>1, <2>2, <2>4, <1>e
      <3>2. CASE l = u + 1 /\ k \in 1 .. u
        <4>1. bases[k] <= bases[u] /\ bases[k] \in Nat /\ bases[u] \in Nat
          BY <3>2, <2>1, <1>e, <1>t
        <4> QED BY <4>1, <3>2, <2>2, <2>3, <1>t
      <3>3. CASE l = u + 1 /\ k = u + 1
        BY <3>3, <2>2, <1>t
      <3> QED BY <3>1, <3>2, <3>3, <1>t
    <2> QED BY <2>2, <2>4 DEF EnAlza, Marcos
  <1>3. CASE Finalizar
    <2>1. /\ DOMAIN stack_index' = 1 .. u - 1
          /\ \A k \in 1 .. u - 1 : bases'[k] = bases[k]
      BY <1>3, <1>t DEF Finalizar, Ultimo
    <2>2. 1 .. u - 1 \subseteq 1 .. u
      BY <1>t
    <2> QED BY <2>1, <2>2, <1>e DEF EnAlza, Marcos
  <1>4. CASE Nueva
    BY <1>4 DEF Nueva, EnAlza, Marcos
  <1> QED BY <1>1, <1>2, <1>3, <1>4 DEF NextPila

LEMMA BasesEnAlza == SpecPila => []EnAlza
  <1>1. InitPila => EnAlza
    BY DEF InitPila, EnAlza, Marcos
  <1>2. IInv /\ EnAlza /\ [NextPila]_pila => EnAlza'
    <2> SUFFICES ASSUME IInv, EnAlza, [NextPila]_pila
                 PROVE  EnAlza'
      OBVIOUS
    <2>1. CASE UNCHANGED pila
      BY <2>1 DEF pila, EnAlza, Marcos
    <2> QED BY <2>1, AlzaSeMantiene
  <1> QED BY <1>1, <1>2, InvariantePila, PTL DEF SpecPila

LEMMA RebanadasSeguidas ==
  ASSUME IInv, EnAlza, NEW k \in Marcos, NEW l \in Marcos, k < l
  PROVE  Tope(k) <= bases[l] /\ Tope(k) \in Nat /\ bases[l] \in Nat
  <1>t. /\ bases \in Seq(Nat) /\ Len(bases) = Ultimo /\ Ultimo \in Nat /\ Marcos = 1 .. Ultimo
    BY DEF IInv, TypeOKPila, Marcos, Ultimo
  <1>1. \A j \in 1 .. Ultimo : bases[j] \in Nat
    BY <1>t
  <1>2. Tope(k) = bases[k + 1] /\ k + 1 \in 1 .. Ultimo /\ k + 1 <= l
    BY <1>t DEF Tope
  <1>3. bases[k + 1] <= bases[l]
    BY <1>2, <1>t DEF EnAlza
  <1> QED BY <1>1, <1>2, <1>3, <1>t

\* What a name of the stack is: a variable, inside the slice of its frame
LEMMA EnSuRebanada ==
  ASSUME IInv, NEW k \in Marcos, NEW e \in Listas, NEW m \in DOMAIN stack_index[k][e]
  PROVE  /\ stack_index[k][e][m] \in Variable
         /\ Rel(stack_index[k][e][m]) \in Int
         /\ bases[k] <= Rel(stack_index[k][e][m]) /\ bases[k] \in Nat
         /\ Rel(stack_index[k][e][m]) + sizeof_int <= Tope(k)
  <1>1. stack_index[k] \in Registro /\ bases[k] \in Nat
    BY DEF IInv, TypeOKPila, Marcos
  <1>2. Rebanada(stack_index[k], bases[k], Tope(k))
    BY DEF IInv
  <1>3. stack_index[k][e] \in Seq(Variable) /\ Entre(stack_index[k][e], bases[k], Tope(k))
    <2>1. CASE e = "args"
      BY <2>1, <1>1, <1>2 DEF Registro, Rebanada
    <2>2. CASE e = "vars"
      BY <2>2, <1>1, <1>2 DEF Registro, Rebanada
    <2> QED BY <2>1, <2>2 DEF Listas
  <1>4. stack_index[k][e][m] \in Variable
    BY <1>3
  <1>5. Rel(stack_index[k][e][m]) \in Int
    BY <1>4, RelEntero
  <1>6. /\ bases[k] <= Rel(stack_index[k][e][m])
        /\ Rel(stack_index[k][e][m]) + sizeof_int <= Tope(k)
    BY <1>3 DEF Entre
  <1> QED BY <1>1, <1>4, <1>5, <1>6

LEMMA Lejos ==
  ASSUME NEW v \in Variable, NEW w \in Variable,
         Rel(v) + sizeof_int <= Rel(w) \/ Rel(w) + sizeof_int <= Rel(v)
  PROVE  Separadas(v, w)
  <1>1. Direccion(v) \in Nat /\ Direccion(w) \in Nat
    BY RelEntero
  <1>2. primerPaginaStack * tamanioPagina \in Nat /\ sizeof_int \in Nat
    BY TamEntero
  <1> DEFINE base == primerPaginaStack * tamanioPagina
             dv == Direccion(v)
             dw == Direccion(w)
  <1>3. dv - base + sizeof_int <= dw - base \/ dw - base + sizeof_int <= dv - base
    BY DEF Rel
  <1>4. dv \in Nat /\ dw \in Nat /\ base \in Nat
    BY <1>1, <1>2
  <1> HIDE DEF base, dv, dw
  <1>5. dv + sizeof_int <= dw \/ dw + sizeof_int <= dv
    BY <1>2, <1>3, <1>4
  <1> QED BY <1>5 DEF Separadas, dv, dw

\* The stack, its pointer and what is counted have their types, whatever the program
\* calls, defines and returns from.
THEOREM TiposDeLaPila == SpecPila => []TypeOKPila
  <1>1. IInv => TypeOKPila
    BY DEF IInv
  <1> QED BY <1>1, InvariantePila, PTL

\* No two live variables of a process share a byte, for every size of page and of
\* variable and every depth of calls: twt_definirVariable gives an address no frame
\* owns, and liberar_registro_stack takes back no more than the frame had.
THEOREM VariablesSeparadas == SpecPila => []VariablesDisjuntas
  <1>1. IInv /\ EnAlza => VariablesDisjuntas
    <2> SUFFICES ASSUME IInv, EnAlza, NEW k \in Marcos, NEW l \in Marcos,
                        NEW e \in Listas, NEW f \in Listas,
                        NEW m \in DOMAIN stack_index[k][e], NEW n \in DOMAIN stack_index[l][f],
                        <<k, e, m>> # <<l, f, n>>
                 PROVE  Separadas(stack_index[k][e][m], stack_index[l][f][n])
      BY DEF VariablesDisjuntas
    <2> DEFINE v == stack_index[k][e][m]
               w == stack_index[l][f][n]
    <2>1. /\ v \in Variable /\ Rel(v) \in Int /\ bases[k] <= Rel(v) /\ bases[k] \in Nat
          /\ Rel(v) + sizeof_int <= Tope(k)
      BY EnSuRebanada
    <2>2. /\ w \in Variable /\ Rel(w) \in Int /\ bases[l] <= Rel(w) /\ bases[l] \in Nat
          /\ Rel(w) + sizeof_int <= Tope(l)
      BY EnSuRebanada
    <2>3. k \in Nat /\ l \in Nat
      BY DEF IInv, TypeOKPila, Marcos
    <2>d. sizeof_int \in Nat
      BY TamEntero
    <2> HIDE DEF v, w
    <2>4. CASE k < l
      <3>1. Tope(k) <= bases[l] /\ Tope(k) \in Nat
        BY <2>4, RebanadasSeguidas
      <3>2. Rel(v) + sizeof_int <= Rel(w)
        BY <3>1, <2>1, <2>2, <2>d
      <3> QED BY <3>2, <2>1, <2>2, Lejos DEF v, w
    <2>5. CASE l < k
      <3>1. Tope(l) <= bases[k] /\ Tope(l) \in Nat
        BY <2>5, RebanadasSeguidas
      <3>2. Rel(w) + sizeof_int <= Rel(v)
        BY <3>1, <2>1, <2>2, <2>d
      <3> QED BY <3>2, <2>1, <2>2, Lejos DEF v, w
    <2>6. CASE k = l
      <3>1. /\ EnOrden(stack_index[k].args) /\ EnOrden(stack_index[k].vars)
            /\ Ajenas(stack_index[k].args, stack_index[k].vars)
        BY DEF IInv, Rebanada
      <3>2. CASE e = f
        <4>1. EnOrden(stack_index[k][e]) /\ m # n /\ stack_index[k] \in Registro
          BY <3>1, <3>2, <2>6 DEF Listas, IInv, TypeOKPila, Marcos
        <4>2. m \in Nat /\ n \in Nat /\ n \in DOMAIN stack_index[k][e]
          BY <4>1, <3>2, <2>6 DEF Listas, Registro
        <4>3. CASE m < n
          <5>1. Rel(v) + sizeof_int <= Rel(w)
            BY <4>1, <4>2, <4>3, <3>2, <2>6 DEF EnOrden, v, w
          <5> QED BY <5>1, <2>1, <2>2, Lejos DEF v, w
        <4>4. CASE n < m
          <5>1. Rel(w) + sizeof_int <= Rel(v)
            BY <4>1, <4>2, <4>4, <3>2, <2>6 DEF EnOrden, v, w
          <5> QED BY <5>1, <2>1, <2>2, Lejos DEF v, w
        <4> QED BY <4>1, <4>2, <4>3, <4>4
      <3>3. CASE e # f
        <4>1. (e = "args" /\ f = "vars") \/ (e = "vars" /\ f = "args")
          BY <3>3 DEF Listas
        <4>2. Rel(v) + sizeof_int <= Rel(w) \/ Rel(w) + sizeof_int <= Rel(v)
          BY <4>1, <3>1, <2>6 DEF Ajenas, v, w
        <4> QED BY <4>2, <2>1, <2>2, Lejos DEF v, w
      <3> QED BY <3>2, <3>3
    <2> QED BY <2>3, <2>4, <2>5, <2>6
  <1> QED BY <1>1, InvariantePila, BasesEnAlza, PTL

\* Every live variable is in the pages of stack the process has, below the stack
\* pointer (twt_definirVariable refuses the one that would not fit).
THEOREM DentroSiempre == SpecPila => []DentroDelStack
  <1>1. IInv /\ EnAlza => DentroDelStack
    <2> SUFFICES ASSUME IInv, EnAlza, NEW k \in Marcos, NEW v \in Celdas(k)
                 PROVE  /\ Direccion(v) >= primerPaginaStack * tamanioPagina
                        /\ Direccion(v) + sizeof_int <= primerPaginaStack * tamanioPagina + stackPointer
                        /\ Direccion(v) + sizeof_int <= (primerPaginaStack + tamanioStack) * tamanioPagina
      BY DEF DentroDelStack
    <2>1. PICK e \in Listas : \E m \in DOMAIN stack_index[k][e] : v = stack_index[k][e][m]
      <3>1. CASE v \in Range(stack_index[k].args)
        <4>1. \E m \in DOMAIN stack_index[k]["args"] : v = stack_index[k]["args"][m]
          BY <3>1 DEF Range
        <4> QED BY <4>1 DEF Listas
      <3>2. CASE v \in Range(stack_index[k].vars)
        <4>1. \E m \in DOMAIN stack_index[k]["vars"] : v = stack_index[k]["vars"][m]
          BY <3>2 DEF Range
        <4> QED BY <4>1 DEF Listas
      <3> QED BY <3>1, <3>2 DEF Celdas
    <2>2. /\ v \in Variable /\ Rel(v) \in Int /\ bases[k] <= Rel(v) /\ bases[k] \in Nat
          /\ Rel(v) + sizeof_int <= Tope(k)
      BY <2>1, EnSuRebanada
    <2>3. /\ Tope(k) <= stackPointer /\ Tope(k) \in Nat /\ stackPointer \in Nat
      <3>t. /\ bases \in Seq(Nat) /\ Len(bases) = Ultimo /\ Ultimo \in Nat /\ Marcos = 1 .. Ultimo
            /\ stackPointer \in Nat /\ stack_index \in Seq(Registro)
        BY DEF IInv, TypeOKPila, Marcos, Ultimo
      <3>1. CASE k = Ultimo
        BY <3>1, <3>t DEF Tope
      <3>2. CASE k # Ultimo
        <4>1. k < Ultimo /\ Ultimo \in Marcos
          BY <3>2, <3>t
        <4>2. Tope(k) <= bases[Ultimo] /\ Tope(k) \in Nat /\ bases[Ultimo] \in Nat
          BY <4>1, RebanadasSeguidas
        <4> DEFINE largo == sizeof_int * (Len(stack_index[Ultimo].args) + Len(stack_index[Ultimo].vars))
        <4>3. largo \in Nat
          <5>1. stack_index[Ultimo] \in Registro
            BY <4>1, <3>t DEF Marcos
          <5> QED BY <5>1, Ocupado
        <4>4. bases[Ultimo] + largo <= stackPointer
          BY <4>1 DEF IInv, Rebanada, Tope
        <4> HIDE DEF largo
        <4> QED BY <4>2, <4>3, <4>4, <3>t
      <3> QED BY <3>1, <3>2
    <2> DEFINE base == primerPaginaStack * tamanioPagina
               todo == tamanioStack * tamanioPagina
               d == Direccion(v)
    <2>4. base \in Nat /\ todo \in Nat /\ d \in Nat /\ sizeof_int \in Nat
      BY <2>2, RelEntero, TamEntero
    <2>5. Rel(v) = d - base /\ stackPointer <= todo
      BY DEF Rel, IInv
    <2>6. (primerPaginaStack + tamanioStack) * tamanioPagina = base + todo
      BY TamEntero
    <2> HIDE DEF base, todo, d
    <2>7. d >= base /\ d + sizeof_int <= base + stackPointer /\ d + sizeof_int <= base + todo
      BY <2>2, <2>3, <2>4, <2>5
    <2> QED BY <2>6, <2>7 DEF base, d
  <1> QED BY <1>1, InvariantePila, BasesEnAlza, PTL

\* The variable a function returns its value to belongs to the frame that called it and
\* lives as long as the function does (twt_llamarConRetorno, twt_retornar).
THEOREM RetornoSiempreVivo == SpecPila => []RetornoVivo
  <1>1. IInv => RetornoVivo
    BY DEF IInv
  <1> QED BY <1>1, InvariantePila, PTL

-----------------------------------------------------------------------------
(* What is counted *)

Tramo(r) == Len(r.args) + Len(r.vars)

\* f counts the variables and arguments of the first frames of s
Cuenta(s, f) ==
  /\ f \in [0 .. Len(s) -> Nat] /\ f[0] = 0
  /\ \A k \in 1 .. Len(s) : f[k] = f[k - 1] + Tramo(s[k])

\* PilaContada, with the count given by somebody
Contada ==
  \E f : Cuenta(stack_index, f) /\ stackPointer = sizeof_int * (f[Ultimo] + perdidos)

LEMMA TramoEntero ==
  ASSUME NEW r \in Registro
  PROVE  Tramo(r) \in Nat /\ Len(r.args) \in Nat /\ Len(r.vars) \in Nat
  <1>1. Len(r.args) \in Nat /\ Len(r.vars) \in Nat
    BY DEF Registro
  <1>a. PICK a : a = Len(r.args)
    OBVIOUS
  <1>v. PICK v : v = Len(r.vars)
    OBVIOUS
  <1>2. a \in Nat /\ v \in Nat
    BY <1>1, <1>a, <1>v
  <1>3. Tramo(r) = a + v
    BY <1>a, <1>v DEF Tramo
  <1>4. a + v \in Nat
    BY <1>2
  <1> QED BY <1>1, <1>3, <1>4

\* With the lengths named
LEMMA TramoDe ==
  ASSUME NEW r, NEW a \in Nat, NEW v \in Nat, Len(r.args) = a, Len(r.vars) = v
  PROVE  Tramo(r) = a + v /\ Tramo(r) \in Nat
  <1>1. Tramo(r) = a + v
    BY DEF Tramo
  <1> QED BY <1>1

\* A sequence that goes one frame beyond the first n of s
LEMMA CuentaSigue ==
  ASSUME NEW s \in Seq(Registro), NEW t \in Seq(Registro), NEW n \in Nat, NEW m \in Nat,
         n <= Len(s), m = n + 1, Len(t) = m, \A k \in 1 .. n : t[k] = s[k],
         NEW f, Cuenta(s, f)
  PROVE  \E g : Cuenta(t, g) /\ g[m] = f[n] + Tramo(t[m])
  <1> DEFINE g == [k \in 0 .. m |-> IF k = m THEN f[n] + Tramo(t[m]) ELSE f[k]]
  <1>1. \A k \in 0 .. n : f[k] \in Nat
    BY DEF Cuenta
  <1>2. t[m] \in Registro
    OBVIOUS
  <1>3. Tramo(t[m]) \in Nat
    BY <1>2, TramoEntero
  <1>4. g \in [0 .. Len(t) -> Nat]
    BY <1>1, <1>3
  <1>5. g[0] = 0
    BY DEF Cuenta
  <1>6. g[m] = f[n] + Tramo(t[m]) /\ \A k \in 0 .. n : g[k] = f[k]
    OBVIOUS
  <1> HIDE DEF g
  <1>7. ASSUME NEW k \in 1 .. m
        PROVE  g[k] = g[k - 1] + Tramo(t[k])
    <2>1. CASE k = m
      BY <2>1, <1>6
    <2>2. CASE k # m
      <3>1. k \in 1 .. n /\ k - 1 \in 0 .. n /\ k \in 1 .. Len(s) /\ k \in 0 .. n
        BY <2>2
      <3>2. f[k] = f[k - 1] + Tramo(s[k])
        BY <3>1 DEF Cuenta
      <3> QED BY <3>1, <3>2, <1>6
    <2> QED BY <2>1, <2>2
  <1> QED BY <1>4, <1>5, <1>6, <1>7 DEF Cuenta

LEMMA CuentaSin ==
  ASSUME NEW s \in Seq(Registro), NEW t \in Seq(Registro), NEW n \in Nat,
         n <= Len(s), Len(t) = n, \A k \in 1 .. n : t[k] = s[k],
         NEW f, Cuenta(s, f)
  PROVE  \E g : Cuenta(t, g) /\ g[n] = f[n]
  <1> DEFINE g == [k \in 0 .. n |-> f[k]]
  <1>1. g \in [0 .. Len(t) -> Nat] /\ g[0] = 0
    BY DEF Cuenta
  <1>2. \A k \in 0 .. n : g[k] = f[k]
    OBVIOUS
  <1> HIDE DEF g
  <1>3. ASSUME NEW k \in 1 .. n
        PROVE  g[k] = g[k - 1] + Tramo(t[k])
    <2>1. k - 1 \in 0 .. n /\ k \in 1 .. Len(s) /\ k \in 0 .. n
      OBVIOUS
    <2>2. f[k] = f[k - 1] + Tramo(s[k])
      BY <2>1 DEF Cuenta
    <2> QED BY <2>1, <2>2, <1>2
  <1> QED BY SMTT(20), <1>1, <1>2, <1>3 DEF Cuenta

\* One more variable, and the variables of a frame taken back
LEMMA UnaMas ==
  ASSUME NEW c \in Nat, NEW x \in Nat, NEW p \in Nat
  PROVE  c * ((x + 1) + p) = c * (x + p) + c
  OBVIOUS

LEMMA SinVariables ==
  ASSUME NEW c \in Nat, NEW x \in Nat, NEW p \in Nat, NEW a \in Nat, NEW v \in Nat
  PROVE  c * ((x + (a + v)) + p) - c * v = c * (x + (p + a))
  <1> DEFINE y == x + (p + a)
  <1>1. y \in Nat /\ (x + (a + v)) + p = y + v
    OBVIOUS
  <1> HIDE DEF y
  <1>2. c * (y + v) = c * y + c * v /\ c * y \in Nat /\ c * v \in Nat
    BY <1>1
  <1> QED BY <1>1, <1>2 DEF y

LEMMA ContadaAlDefinir ==
  ASSUME IInv, Contada, IInv', NEW i \in Ids, Definir(i)
  PROVE  Contada'
  <1> DEFINE v == NuevaVariable(i)
  <1>u. PICK u : u = Len(stack_index)
    OBVIOUS
  <1>t. /\ stack_index \in Seq(Registro) /\ stackPointer \in Nat /\ perdidos \in Nat
        /\ u \in Nat /\ DOMAIN stack_index = 1 .. u /\ sizeof_int \in Nat
        /\ stack_index' \in Seq(Registro)
    BY <1>u, TamEntero DEF IInv, TypeOKPila
  <1>f. PICK f : Cuenta(stack_index, f) /\ stackPointer = sizeof_int * (f[u] + perdidos)
    BY <1>u DEF Contada, Ultimo
  <1>n. f[u] \in Nat /\ f[0] = 0
    BY <1>f, <1>t, <1>u DEF Cuenta
  <1>1. stackPointer' = stackPointer + sizeof_int /\ perdidos' = perdidos
    BY DEF Definir
  <1>m. ASSUME NEW r \in Registro
        PROVE  Tramo(ConVariable(r, v)) = Tramo(r) + 1
    <2>1. r.args \in Seq(Variable) /\ r.vars \in Seq(Variable)
      BY DEF Registro
    <2>2. Len(Append(r.args, v)) = Len(r.args) + 1 /\ Len(Append(r.vars, v)) = Len(r.vars) + 1
      BY <2>1
    <2>3. Len(r.args) \in Nat /\ Len(r.vars) \in Nat
      BY TramoEntero
    <2>a. PICK a : a = Len(r.args)
      OBVIOUS
    <2>b. PICK b : b = Len(r.vars)
      OBVIOUS
    <2>c. a \in Nat /\ b \in Nat /\ Tramo(r) = a + b
      BY <2>3, <2>a, <2>b, TramoDe
    <2>d. /\ a + 1 \in Nat /\ b + 1 \in Nat
          /\ (a + 1) + b = (a + b) + 1 /\ a + (b + 1) = (a + b) + 1
      BY <2>c
    <2>4. CASE v.id \in Argumentos
      <3>1. ConVariable(r, v) = [r EXCEPT !.args = Append(@, v)]
        BY <2>4 DEF ConVariable
      <3>2. ConVariable(r, v).args = Append(r.args, v) /\ ConVariable(r, v).vars = r.vars
        BY <3>1 DEF Registro
      <3>3. /\ Len(ConVariable(r, v).args) = a + 1
            /\ Len(ConVariable(r, v).vars) = b
        BY <3>2, <2>2, <2>a, <2>b
      <3>4. Tramo(ConVariable(r, v)) = (a + 1) + b
        BY <3>3, <2>c, <2>d, TramoDe
      <3> QED BY <3>4, <2>c, <2>d
    <2>5. CASE v.id \notin Argumentos
      <3>1. ConVariable(r, v) = [r EXCEPT !.vars = Append(@, v)]
        BY <2>5 DEF ConVariable
      <3>2. ConVariable(r, v).vars = Append(r.vars, v) /\ ConVariable(r, v).args = r.args
        BY <3>1 DEF Registro
      <3>3. /\ Len(ConVariable(r, v).args) = a
            /\ Len(ConVariable(r, v).vars) = b + 1
        BY <3>2, <2>2, <2>a, <2>b
      <3>4. Tramo(ConVariable(r, v)) = a + (b + 1)
        BY <3>3, <2>c, <2>d, TramoDe
      <3> QED BY <3>4, <2>c, <2>d
    <2> QED BY <2>4, <2>5
  <1>2. \E g : Cuenta(stack_index', g) /\ g[Len(stack_index')] = f[u] + 1
    <2>1. CASE stack_index = <<>>
      <3>1. stack_index' = <<ConVariable(Vacio(0, SinRetorno), v)>>
        BY <2>1 DEF Definir
      <3>2. Vacio(0, SinRetorno) \in Registro /\ Tramo(Vacio(0, SinRetorno)) = 0
        <4>1. SinRetorno \in Destino
          BY TamEntero DEF SinRetorno, Destino
        <4>2. Vacio(0, SinRetorno) \in Registro
          BY <4>1, PilaAssumption DEF Vacio, Registro
        <4> QED BY <4>2 DEF Vacio, Tramo
      <3>3. /\ Len(stack_index') = 0 + 1 /\ u = 0
            /\ stack_index'[0 + 1] = ConVariable(Vacio(0, SinRetorno), v)
        BY <3>1, <2>1, <1>u
      <3>a. /\ Len(stack_index) = 0 /\ 0 <= 0 /\ 0 \in Nat /\ 1 \in Nat /\ 1 = 0 + 1
            /\ \A k \in 1 .. 0 : stack_index'[k] = stack_index[k]
        BY <3>3, <1>u
      <3>4. \E g : Cuenta(stack_index', g) /\ g[1] = f[0] + Tramo(stack_index'[1])
        <4>1. Len(stack_index') = 1 /\ 0 <= Len(stack_index)
          BY <3>3, <3>a
        <4>n. PICK n : n = 0
          OBVIOUS
        <4>m. PICK m : m = 1
          OBVIOUS
        <4>2. /\ n \in Nat /\ m \in Nat /\ m = n + 1 /\ n <= Len(stack_index)
              /\ Len(stack_index') = m /\ \A k \in 1 .. n : stack_index'[k] = stack_index[k]
          BY <4>1, <4>n, <4>m, <3>a
        <4>3. \E g : Cuenta(stack_index', g) /\ g[m] = f[n] + Tramo(stack_index'[m])
          BY <4>2, <1>f, <1>t, CuentaSigue
        <4> QED BY <4>3, <4>n, <4>m
      <3>5. Tramo(stack_index'[1]) = 1 /\ Len(stack_index') = 1
        BY <3>2, <3>3, <1>m
      <3> QED BY <3>3, <3>4, <3>5
    <2>2. CASE stack_index # <<>>
      <3>1. u \in 1 .. u /\ u - 1 \in Nat /\ u - 1 <= u
        BY <2>2, <1>t, <1>u
      <3>2. stack_index' = [stack_index EXCEPT ![u] = ConVariable(stack_index[u], v)]
        BY <1>u, <2>2 DEF Definir, Ultimo
      <3>3. /\ Len(stack_index') = (u - 1) + 1
            /\ \A k \in 1 .. u - 1 : stack_index'[k] = stack_index[k]
            /\ stack_index'[u] = ConVariable(stack_index[u], v)
        <4>1. DOMAIN stack_index' = DOMAIN stack_index /\ DOMAIN stack_index = 1 .. u
          BY <3>2, <1>t
        <4>2. Len(stack_index') = u
          BY <4>1, <1>t, <1>u
        <4>3. (u - 1) + 1 = u /\ 1 .. u - 1 \subseteq 1 .. u /\ u \notin 1 .. u - 1
          BY <1>t
        <4> QED BY <4>1, <4>2, <4>3, <3>1, <3>2
      <3>4. \E g : Cuenta(stack_index', g) /\ g[u] = f[u - 1] + Tramo(stack_index'[u])
        <4>1. (u - 1) + 1 = u /\ Len(stack_index) = u
          BY <1>t, <1>u
        <4>2. Len(stack_index') = u
          BY <4>1, <3>3
        <4> QED BY <4>1, <4>2, <3>1, <3>3, <1>f, <1>t, CuentaSigue
      <3>5. stack_index[u] \in Registro
        BY <3>1, <1>t, <1>u
      <3>6. Tramo(stack_index'[u]) = Tramo(stack_index[u]) + 1 /\ Tramo(stack_index[u]) \in Nat
        BY <3>3, <3>5, <1>m, TramoEntero
      <3>7. f[u] = f[u - 1] + Tramo(stack_index[u]) /\ f[u - 1] \in Nat
        <4>1. /\ f \in [0 .. u -> Nat]
              /\ \A k \in 1 .. u : f[k] = f[k - 1] + Tramo(stack_index[k])
          BY <1>f, <1>u DEF Cuenta
        <4>2. u - 1 \in 0 .. u
          BY <3>1, <1>t
        <4> QED BY <4>1, <4>2, <3>1
      <3>x. PICK x : x = f[u - 1]
        OBVIOUS
      <3>y. PICK y : y = Tramo(stack_index[u])
        OBVIOUS
      <3>8. (u - 1) + 1 = u /\ x + (y + 1) = (x + y) + 1
        <4>1. x \in Nat /\ y \in Nat
          BY <3>6, <3>7, <3>x, <3>y
        <4> QED BY <4>1, <1>t
      <3>9. \E g : Cuenta(stack_index', g) /\ g[u] = f[u] + 1
        BY <3>4, <3>6, <3>7, <3>8, <3>x, <3>y
      <3> QED BY <3>3, <3>8, <3>9
    <2> QED BY <2>1, <2>2
  <1>3. stackPointer' = sizeof_int * ((f[u] + 1) + perdidos')
    BY <1>1, <1>f, <1>n, <1>t, UnaMas
  <1> QED BY <1>2, <1>3 DEF Contada, Ultimo

LEMMA ContadaAlLlamar ==
  ASSUME IInv, Contada, IInv', NEW pos \in Posiciones, NEW donde \in CeldasActuales,
         Llamar(pos, donde)
  PROVE  Contada'
  <1>u. PICK u : u = Len(stack_index)
    OBVIOUS
  <1>t. /\ stack_index \in Seq(Registro) /\ u \in Nat
        /\ stack_index' \in Seq(Registro)
    BY <1>u DEF IInv, TypeOKPila
  <1>f. PICK f : Cuenta(stack_index, f) /\ stackPointer = sizeof_int * (f[u] + perdidos)
    BY <1>u DEF Contada, Ultimo
  <1>1. PICK r : stack_index' = Append(stack_index, r) /\ r.args = <<>> /\ r.vars = <<>>
    BY DEF Llamar, Vacio
  <1>2. stackPointer' = stackPointer /\ perdidos' = perdidos
    BY DEF Llamar
  <1>3. /\ Len(stack_index') = u + 1 /\ stack_index'[u + 1] = r
        /\ \A k \in 1 .. u : stack_index'[k] = stack_index[k]
    BY <1>1, <1>t, <1>u
  <1>m. PICK m : m = u + 1
    OBVIOUS
  <1>4. \E g : Cuenta(stack_index', g) /\ g[m] = f[u] + Tramo(stack_index'[m])
    <2>1. m \in Nat /\ u <= Len(stack_index) /\ Len(stack_index') = m
      BY <1>m, <1>3, <1>t, <1>u
    <2> QED BY <2>1, <1>m, <1>3, <1>f, <1>t, CuentaSigue
  <1>5. Tramo(r) = 0
    BY <1>1 DEF Tramo
  <1>6. f[u] + 0 = f[u]
    BY <1>f, <1>t, <1>u DEF Cuenta
  <1> QED BY <1>2, <1>3, <1>4, <1>5, <1>6, <1>f, <1>m DEF Contada, Ultimo

LEMMA ContadaAlFinalizar ==
  ASSUME IInv, Contada, IInv', Finalizar
  PROVE  Contada'
  <1>u. PICK u : u = Len(stack_index)
    OBVIOUS
  <1>r. PICK r : r = stack_index[u]
    OBVIOUS
  <1>t. /\ stack_index \in Seq(Registro) /\ u \in Nat /\ u > 0 /\ sizeof_int \in Nat
        /\ stack_index' \in Seq(Registro) /\ perdidos \in Nat
    BY <1>u, TamEntero DEF IInv, TypeOKPila, Finalizar, Ultimo
  <1>f. PICK f : Cuenta(stack_index, f) /\ stackPointer = sizeof_int * (f[u] + perdidos)
    BY <1>u DEF Contada, Ultimo
  <1>1. /\ stack_index' = SubSeq(stack_index, 1, u - 1)
        /\ stackPointer' = stackPointer - sizeof_int * Len(r.vars)
        /\ perdidos' = perdidos + Len(r.args)
    BY <1>u, <1>r DEF Finalizar, Ultimo
  <1>2. /\ u - 1 \in Nat /\ u - 1 <= u /\ u \in 1 .. u
        /\ Len(stack_index') = u - 1
        /\ \A k \in 1 .. u - 1 : stack_index'[k] = stack_index[k]
    BY <1>1, <1>t, <1>u
  <1>3. \E g : Cuenta(stack_index', g) /\ g[u - 1] = f[u - 1]
    <2>1. u - 1 <= Len(stack_index)
      BY <1>2, <1>u
    <2> QED BY SMTT(20), <2>1, <1>2, <1>f, <1>t, CuentaSin
  <1>4. r \in Registro
    BY <1>2, <1>t, <1>u, <1>r
  <1>5. Len(r.args) \in Nat /\ Len(r.vars) \in Nat
    BY <1>4, TramoEntero
  <1>a. PICK a : a = Len(r.args)
    OBVIOUS
  <1>v. PICK v : v = Len(r.vars)
    OBVIOUS
  <1>x. PICK x : x = f[u - 1]
    OBVIOUS
  <1>e. a \in Nat /\ v \in Nat /\ Tramo(r) = a + v
    BY <1>5, <1>a, <1>v, TramoDe
  <1>6. f[u] = x + (a + v) /\ x \in Nat
    <2>1. f \in [0 .. u -> Nat] /\ \A k \in 1 .. u : f[k] = f[k - 1] + Tramo(stack_index[k])
      BY <1>f, <1>u DEF Cuenta
    <2>2. u - 1 \in 0 .. u
      BY <1>2, <1>t
    <2> QED BY <2>1, <2>2, <1>2, <1>e, <1>r, <1>x
  <1>8. sizeof_int * ((x + (a + v)) + perdidos) - sizeof_int * v
          = sizeof_int * (x + (perdidos + a))
    BY <1>e, <1>6, <1>t, SinVariables
  <1>7. stackPointer' = sizeof_int * (f[u - 1] + perdidos')
    BY <1>1, <1>6, <1>8, <1>a, <1>v, <1>x, <1>f
  <1> QED BY <1>2, <1>3, <1>7 DEF Contada, Ultimo

LEMMA CuentaDeNadie == Cuenta(<<>>, [k \in 0 .. 0 |-> 0])
  BY DEF Cuenta

LEMMA SiempreContada == SpecPila => []Contada
  <1>z. ASSUME NEW c \in Nat
        PROVE  c * (0 + 0) = 0
    OBVIOUS
  <1>1. InitPila => Contada
    <2> SUFFICES ASSUME InitPila
                 PROVE  Contada
      OBVIOUS
    <2> DEFINE g == [k \in 0 .. 0 |-> 0]
    <2>1. g[0] = 0 /\ Len(<<>>) = 0
      OBVIOUS
    <2>2. Cuenta(<<>>, g)
      BY CuentaDeNadie
    <2> HIDE DEF g
    <2> QED BY <2>1, <2>2, <1>z, TamEntero DEF InitPila, Contada, Ultimo
  <1>2. IInv /\ Contada /\ [NextPila]_pila /\ IInv' => Contada'
    <2> SUFFICES ASSUME IInv, Contada, [NextPila]_pila, IInv'
                 PROVE  Contada'
      OBVIOUS
    <2>1. ASSUME NEW i \in Ids, Definir(i)
          PROVE  Contada'
      BY <2>1, ContadaAlDefinir
    <2>2. ASSUME NEW pos \in Posiciones, NEW donde \in CeldasActuales, Llamar(pos, donde)
          PROVE  Contada'
      BY <2>2, ContadaAlLlamar
    <2>3. CASE Finalizar
      BY <2>3, ContadaAlFinalizar
    <2>4. CASE Nueva
      <3> DEFINE g == [k \in 0 .. 0 |-> 0]
      <3>1. g[0] = 0 /\ Len(<<>>) = 0
        OBVIOUS
      <3>2. Cuenta(<<>>, g)
        BY CuentaDeNadie
      <3> HIDE DEF g
      <3> QED BY <2>4, <3>1, <3>2, <1>z, TamEntero DEF Nueva, Contada, Ultimo
    <2>5. CASE UNCHANGED pila
      BY <2>5 DEF pila, Contada, Ultimo
    <2> QED BY <2>1, <2>2, <2>3, <2>4, <2>5 DEF NextPila
  <1> QED BY <1>1, <1>2, InvariantePila, PTL DEF SpecPila

LEMMA HayMinimo ==
  ASSUME NEW S \in SUBSET Nat, S # {}
  PROVE  \E x \in S : \A y \in S : x <= y
  <1> DEFINE R == {ss \in Nat \X Nat : ss[1] < ss[2]}
  <1>1. R = OpToRel(<, Nat)
    BY DEF OpToRel
  <1>2. \A x, y \in Nat : <<y, x>> \notin R => x <= y
    OBVIOUS
  <1> HIDE DEF R
  <1>3. IsWellFoundedOn(R, Nat)
    BY <1>1, NatLessThanWellFounded
  <1>4. PICK x \in S : \A y \in S : <<y, x>> \notin R
    BY <1>3, WFMin
  <1> QED BY <1>2, <1>4

\* Two counts of the same frames agree: the first frame where they do not would have
\* one before it
LEMMA CuentaUnica ==
  ASSUME NEW s, Len(s) \in Nat, NEW f, NEW g, Cuenta(s, f), Cuenta(s, g)
  PROVE  f[Len(s)] = g[Len(s)]
  <1> DEFINE Malos == {k \in 0 .. Len(s) : f[k] # g[k]}
  <1>1. ASSUME Malos # {}
        PROVE  FALSE
    <2>1. Malos \in SUBSET Nat
      OBVIOUS
    <2>2. PICK m \in Malos : \A y \in Malos : m <= y
      <3> HIDE DEF Malos
      <3> QED BY <1>1, <2>1, HayMinimo
    <2>3. m \in 0 .. Len(s) /\ f[m] # g[m]
      BY <2>2
    <2>4. m # 0
      BY <2>3 DEF Cuenta
    <2>5. m \in 1 .. Len(s) /\ m - 1 \in 0 .. Len(s) /\ ~(m <= m - 1)
      BY <2>3, <2>4
    <2>6. f[m - 1] = g[m - 1]
      BY <2>2, <2>5
    <2>7. f[m] = f[m - 1] + Tramo(s[m]) /\ g[m] = g[m - 1] + Tramo(s[m])
      BY <2>5 DEF Cuenta
    <2> QED BY <2>3, <2>6, <2>7
  <1>2. Len(s) \in 0 .. Len(s)
    OBVIOUS
  <1> QED BY <1>1, <1>2

\* The equation of the function PilaContada defines
Ecuacion(s, f) ==
  f = [k \in 0 .. Len(s) |-> IF k = 0 THEN 0
                             ELSE f[k - 1] + Len(s[k].args) + Len(s[k].vars)]

LEMMA TresSumandos ==
  ASSUME NEW x \in Nat, NEW a \in Nat, NEW v \in Nat
  PROVE  x + a + v = x + (a + v) /\ x + a + v \in Nat
  OBVIOUS

LEMMA EcuacionDeLaCuenta ==
  ASSUME NEW s \in Seq(Registro), NEW f, Cuenta(s, f)
  PROVE  Ecuacion(s, f)
  <1> DEFINE n == Len(s)
             h == [k \in 0 .. n |-> IF k = 0 THEN 0
                                    ELSE f[k - 1] + Len(s[k].args) + Len(s[k].vars)]
  <1>1. f \in [0 .. n -> Nat] /\ f[0] = 0 /\ n \in Nat
    BY DEF Cuenta
  <1>2. ASSUME NEW k \in 0 .. n
        PROVE  f[k] = h[k]
    <2>1. CASE k = 0
      BY <2>1, <1>1
    <2>2. CASE k # 0
      <3>1. k \in 1 .. n /\ k - 1 \in 0 .. n
        BY <2>2, <1>1
      <3>2. s[k] \in Registro
        BY <3>1
      <3>3. f[k] = f[k - 1] + (Len(s[k].args) + Len(s[k].vars))
        BY <3>1 DEF Cuenta, Tramo
      <3>4. f[k - 1] \in Nat /\ Len(s[k].args) \in Nat /\ Len(s[k].vars) \in Nat
        BY <3>1, <3>2, <1>1, TramoEntero
      <3>5. h[k] = f[k - 1] + Len(s[k].args) + Len(s[k].vars)
        BY <2>2
      <3> QED BY <3>3, <3>4, <3>5, TresSumandos
    <2> QED BY <2>1, <2>2
  <1>3. f = h
    BY <1>1, <1>2
  <1> QED BY <1>3 DEF Ecuacion

LEMMA CuentaDeLaEcuacion ==
  ASSUME NEW s \in Seq(Registro), NEW f, Ecuacion(s, f)
  PROVE  Cuenta(s, f)
  <1> DEFINE n == Len(s)
  <1>0. n \in Nat
    OBVIOUS
  <1>1. /\ f[0] = 0 /\ DOMAIN f = 0 .. n
        /\ \A k \in 1 .. n : f[k] = f[k - 1] + Len(s[k].args) + Len(s[k].vars)
    BY <1>0 DEF Ecuacion
  <1>f. f = [k \in 0 .. n |-> f[k]]
    BY DEF Ecuacion
  <1> DEFINE Malos == {k \in 0 .. n : f[k] \notin Nat}
  <1>2. ASSUME Malos # {}
        PROVE  FALSE
    <2>1. Malos \in SUBSET Nat
      OBVIOUS
    <2>2. PICK m \in Malos : \A y \in Malos : m <= y
      <3> HIDE DEF Malos
      <3> QED BY <1>2, <2>1, HayMinimo
    <2>3. m \in 1 .. n /\ m - 1 \in 0 .. n /\ ~(m <= m - 1)
      BY <2>2, <1>1
    <2>4. f[m - 1] \in Nat
      BY <2>2, <2>3
    <2>5. s[m] \in Registro
      BY <2>3
    <2>6. f[m] = f[m - 1] + Len(s[m].args) + Len(s[m].vars)
      BY <2>3, <1>1
    <2>7. Len(s[m].args) \in Nat /\ Len(s[m].vars) \in Nat
      BY <2>5, TramoEntero
    <2>8. f[m] \in Nat
      BY SMTT(20), <2>4, <2>6, <2>7, TresSumandos
    <2> QED BY <2>2, <2>8
  <1>3. \A k \in 0 .. n : f[k] \in Nat
    BY <1>2
  <1>4. f \in [0 .. n -> Nat]
    BY <1>3, <1>f
  <1>5. ASSUME NEW k \in 1 .. n
        PROVE  f[k] = f[k - 1] + Tramo(s[k])
    <2>1. s[k] \in Registro /\ k - 1 \in 0 .. n
      BY <1>0
    <2>2. f[k - 1] \in Nat /\ Len(s[k].args) \in Nat /\ Len(s[k].vars) \in Nat
      BY <2>1, <1>3, TramoEntero
    <2>3. f[k] = f[k - 1] + Len(s[k].args) + Len(s[k].vars)
      BY <1>1
    <2> QED BY <2>2, <2>3, TresSumandos DEF Tramo
  <1> QED BY <1>1, <1>4, <1>5 DEF Cuenta

\* The stack pointer is, at all times, the bytes of what is alive and of the arguments
\* that were never taken back; every live variable is in the pages of stack, and every
\* function has where to return its value to (twt_definirVariable,
\* twt_llamarConRetorno, liberar_registro_stack).
THEOREM PilaSiempreSana == SpecPila => []PilaSana
  <1>1. IInv /\ Contada => PilaContada
    <2> SUFFICES ASSUME IInv, Contada
                 PROVE  PilaContada
      OBVIOUS
    <2>1. stack_index \in Seq(Registro) /\ Len(stack_index) \in Nat
      BY DEF IInv, TypeOKPila
    <2>2. PICK f : Cuenta(stack_index, f) /\ stackPointer = sizeof_int * (f[Ultimo] + perdidos)
      BY DEF Contada
    <2>3. Ecuacion(stack_index, f)
      BY <2>1, <2>2, EcuacionDeLaCuenta
    <2>4. PICK d : d = CHOOSE e : Ecuacion(stack_index, e)
      OBVIOUS
    <2>5. Ecuacion(stack_index, d)
      BY <2>3, <2>4
    <2>6. d[Ultimo] = f[Ultimo]
      BY <2>1, <2>2, <2>5, CuentaDeLaEcuacion, CuentaUnica DEF Ultimo
    <2>7. stackPointer = sizeof_int * (d[Ultimo] + perdidos)
      BY <2>2, <2>6
    <2> QED BY <2>4, <2>7, Zenon DEF PilaContada, Ecuacion, Ultimo
  <1>2. DentroDelStack /\ RetornoVivo /\ PilaContada => PilaSana
    BY DEF PilaSana
  <1> QED
    BY <1>1, <1>2, DentroSiempre, RetornoSiempreVivo, InvariantePila, SiempreContada, PTL

-----------------------------------------------------------------------------
(* Sequences one after another *)

\* w is made of the sequences of ss: the k-th one ends at d[k].
Repartida(ss, w, d) ==
  /\ d \in [0 .. Len(ss) -> Nat] /\ d[0] = 0 /\ d[Len(ss)] = Len(w)
  /\ \A k \in 1 .. Len(ss) :
       /\ d[k] = d[k - 1] + Len(ss[k]) /\ d[k] <= Len(w)
       /\ \A i \in 1 .. Len(ss[k]) : w[d[k - 1] + i] = ss[k][i]

\* The function FlattenSeq defines
Juntas(ss, n, f) == f = [i \in 1 .. n |-> IF i = 1 THEN ss[i] ELSE f[i - 1] \o ss[i]]

LEMMA HayJuntas ==
  ASSUME NEW ss, NEW n \in Nat
  PROVE  \E f : Juntas(ss, n, f)
  <1> DEFINE Sin == {x \in Nat : ~\E f : Juntas(ss, x, f)}
  <1>1. ASSUME Sin # {}
        PROVE  FALSE
    <2>1. Sin \in SUBSET Nat
      OBVIOUS
    <2>2. PICK x \in Sin : \A y \in Sin : x <= y
      <3> HIDE DEF Sin
      <3> QED BY <1>1, <2>1, HayMinimo
    <2>3. x \in Nat /\ (~\E f : Juntas(ss, x, f))
      BY <2>2
    <2>4. CASE x = 0
      <3> DEFINE f == [i \in 1 .. 0 |-> ss]
      <3>1. Juntas(ss, 0, f)
        BY DEF Juntas
      <3> QED BY <3>1, <2>3, <2>4
    <2>5. CASE x # 0
      <3>1. x - 1 \in Nat /\ ~(x <= x - 1)
        BY <2>3, <2>5
      <3>2. x - 1 \notin Sin
        <4> HIDE DEF Sin
        <4> QED BY <3>1, <2>2
      <3>3. PICK f : Juntas(ss, x - 1, f)
        BY <3>1, <3>2
      <3> DEFINE g == [i \in 1 .. x |-> IF i = x THEN (IF x = 1 THEN ss[x] ELSE f[x - 1] \o ss[x]) ELSE f[i]]
      <3>4. ASSUME NEW i \in 1 .. x
            PROVE  g[i] = IF i = 1 THEN ss[i] ELSE g[i - 1] \o ss[i]
        <4>1. CASE i = x
          <5>1. i # 1 => i - 1 \in 1 .. x /\ i - 1 # x
            BY <2>3, <2>5, <4>1
          <5>2. i # 1 => g[i - 1] = f[i - 1]
            BY <5>1
          <5>3. g[i] = IF x = 1 THEN ss[x] ELSE f[x - 1] \o ss[x]
            BY <4>1
          <5> HIDE DEF g
          <5> QED BY <5>2, <5>3, <4>1
        <4>2. CASE i # x
          <5>1. i \in 1 .. x - 1 /\ g[i] = f[i]
            BY <2>3, <4>2
          <5>2. f[i] = IF i = 1 THEN ss[i] ELSE f[i - 1] \o ss[i]
            BY <5>1, <3>3 DEF Juntas
          <5>3. i # 1 => i - 1 \in 1 .. x /\ i - 1 # x
            BY <5>1, <2>3
          <5>4. i # 1 => g[i - 1] = f[i - 1]
            BY <5>3
          <5> HIDE DEF g
          <5> QED BY <5>1, <5>2, <5>4
        <4> QED BY <4>1, <4>2
      <3>5. Juntas(ss, x, g)
        <4>1. DOMAIN g = 1 .. x /\ g = [i \in DOMAIN g |-> g[i]]
          OBVIOUS
        <4> HIDE DEF g
        <4> QED BY <4>1, <3>4 DEF Juntas
      <3> QED BY <3>5, <2>3
    <2> QED BY <2>4, <2>5
  <1> QED BY <1>1

LEMMA Unidas ==
  ASSUME NEW S, NEW a \in Seq(S), NEW b \in Seq(S), NEW x, x = Len(a)
  PROVE  /\ x \in Nat /\ a \o b \in Seq(S) /\ Len(b) \in Nat /\ Len(a \o b) = x + Len(b)
         /\ \A i \in 1 .. x : (a \o b)[i] = a[i]
         /\ \A i \in 1 .. Len(b) : (a \o b)[x + i] = b[i]
  <1>y. PICK y : y = Len(b)
    OBVIOUS
  <1>c. PICK c : c = a \o b
    OBVIOUS
  <1>1. x \in Nat /\ y \in Nat
    BY <1>y
  <1>2. /\ c \in Seq(S) /\ Len(c) = x + y
        /\ \A i \in 1 .. x + y : c[i] = IF i <= x THEN a[i] ELSE b[i - x]
    BY <1>y, <1>c, ConcatProperties
  <1>3. ASSUME NEW i \in 1 .. x
        PROVE  c[i] = a[i]
    BY <1>1, <1>2
  <1>4. ASSUME NEW i \in 1 .. y
        PROVE  c[x + i] = b[i]
    <2>1. x + i \in 1 .. x + y /\ ~(x + i <= x) /\ (x + i) - x = i
      BY <1>1
    <2> QED BY <2>1, <1>2
  <1> QED BY <1>1, <1>2, <1>3, <1>4, <1>y, <1>c

\* What is joined up to each sequence is a sequence: the first that is not would follow
\* one that is.
LEMMA JuntasSonSeries ==
  ASSUME NEW S, NEW ss \in Seq(Seq(S)), NEW n, n = Len(ss), NEW f, Juntas(ss, n, f)
  PROVE  \A i \in 1 .. n : f[i] \in Seq(S)
  <1>0. n \in Nat /\ \A i \in 1 .. n : ss[i] \in Seq(S)
    OBVIOUS
  <1> DEFINE Malas == {i \in 1 .. n : f[i] \notin Seq(S)}
  <1>1. ASSUME Malas # {}
        PROVE  FALSE
    <2>1. Malas \in SUBSET Nat
      BY <1>0
    <2>2. PICK m \in Malas : \A y \in Malas : m <= y
      <3> HIDE DEF Malas
      <3> QED BY <1>1, <2>1, HayMinimo
    <2>3. m \in 1 .. n /\ f[m] \notin Seq(S)
      BY <2>2
    <2>4. f[m] = IF m = 1 THEN ss[m] ELSE f[m - 1] \o ss[m]
      BY <2>3 DEF Juntas
    <2>5. m # 1
      BY <2>3, <2>4, <1>0
    <2>6. m - 1 \in 1 .. n /\ ~(m <= m - 1)
      BY <2>3, <2>5, <1>0
    <2>7. f[m - 1] \in Seq(S)
      BY <2>2, <2>6
    <2>8. ss[m] \in Seq(S) /\ f[m] = f[m - 1] \o ss[m]
      BY <2>3, <2>4, <2>5, <1>0
    <2> QED BY <2>3, <2>7, <2>8
  <1> QED BY <1>1

\* What is joined up to a sequence stays in front of what is joined later.
LEMMA JuntasEmpiezan ==
  ASSUME NEW S, NEW ss \in Seq(Seq(S)), NEW n, n = Len(ss), NEW f, Juntas(ss, n, f),
         NEW k \in 1 .. n
  PROVE  \A m \in k .. n : /\ Len(f[k]) <= Len(f[m])
                           /\ \A i \in 1 .. Len(f[k]) : f[m][i] = f[k][i]
  <1>0. n \in Nat /\ (\A i \in 1 .. n : ss[i] \in Seq(S)) /\ \A i \in 1 .. n : f[i] \in Seq(S)
    BY JuntasSonSeries
  <1>l. PICK l : l = Len(f[k])
    OBVIOUS
  <1>1. l \in Nat
    BY <1>0, <1>l
  <1> DEFINE Malas == {m \in k .. n : ~(l <= Len(f[m]) /\ \A i \in 1 .. l : f[m][i] = f[k][i])}
  <1>2. ASSUME Malas # {}
        PROVE  FALSE
    <2>1. Malas \in SUBSET Nat
      BY <1>0
    <2>2. PICK m \in Malas : \A y \in Malas : m <= y
      <3> HIDE DEF Malas
      <3> QED BY <1>2, <2>1, HayMinimo
    <2>3. m \in k .. n /\ ~(l <= Len(f[m]) /\ \A i \in 1 .. l : f[m][i] = f[k][i])
      BY <2>2
    <2>4. m # k
      BY <2>3, <1>l, <1>1
    <2>5. m - 1 \in k .. n /\ ~(m <= m - 1) /\ m \in 1 .. n /\ m # 1 /\ m - 1 \in 1 .. n
      BY <2>3, <2>4, <1>0
    <2>6. l <= Len(f[m - 1]) /\ \A i \in 1 .. l : f[m - 1][i] = f[k][i]
      <3>1. m - 1 \notin Malas
        <4> HIDE DEF Malas
        <4> QED BY <2>2, <2>5
      <3> QED BY <3>1, <2>5
    <2>7. f[m] = f[m - 1] \o ss[m]
      BY <2>5 DEF Juntas
    <2>8. f[m - 1] \in Seq(S) /\ ss[m] \in Seq(S)
      BY <2>5, <1>0
    <2>x. PICK x : x = Len(f[m - 1])
      OBVIOUS
    <2>9. x \in Nat /\ x <= Len(f[m]) /\ \A i \in 1 .. x : f[m][i] = f[m - 1][i]
      <3>a. PICK a : a = f[m - 1]
        OBVIOUS
      <3>b. PICK b : b = ss[m]
        OBVIOUS
      <3>1. a \in Seq(S) /\ b \in Seq(S) /\ x = Len(a)
        BY <2>8, <2>x, <3>a, <3>b
      <3>2. /\ x \in Nat /\ Len(b) \in Nat /\ Len(a \o b) = x + Len(b)
            /\ \A i \in 1 .. x : (a \o b)[i] = a[i]
        BY <3>1, Unidas
      <3>3. f[m] = a \o b
        BY <2>7, <3>a, <3>b
      <3> QED BY <3>2, <3>3, <3>a
    <2>10. l <= x /\ \A i \in 1 .. l : i \in 1 .. x
      BY <2>6, <2>9, <2>x, <1>1
    <2>11. Len(f[m]) \in Nat
      BY <2>5, <1>0
    <2> QED BY <2>3, <2>6, <2>9, <2>10, <2>11, <1>1
  <1> QED BY <1>2, <1>l

\* FlattenSeq puts the sequences one after another.
LEMMA EnHilera ==
  ASSUME NEW S, NEW ss \in Seq(Seq(S))
  PROVE  FlattenSeq(ss) \in Seq(S) /\ \E d : Repartida(ss, FlattenSeq(ss), d)
  <1>n. PICK n : n = Len(ss)
    OBVIOUS
  <1>1. n \in Nat /\ \A i \in 1 .. n : ss[i] \in Seq(S)
    BY <1>n
  <1>2. CASE n = 0
    <2>1. ss = <<>> /\ FlattenSeq(ss) = <<>>
      BY <1>2, <1>n DEF FlattenSeq
    <2> DEFINE d == [k \in 0 .. 0 |-> 0]
    <2>2. Repartida(<<>>, <<>>, d)
      BY DEF Repartida
    <2> QED BY <2>1, <2>2
  <1>3. CASE n # 0
    <2>f. PICK f : f = CHOOSE g : Juntas(ss, n, g)
      OBVIOUS
    <2>1. Juntas(ss, n, f)
      BY <1>1, <2>f, HayJuntas
    <2>2. FlattenSeq(ss) = f[n]
      BY <1>3, <1>n, <2>f, Zenon DEF FlattenSeq, Juntas
    <2>3. \A i \in 1 .. n : f[i] \in Seq(S)
      BY <2>1, <1>n, JuntasSonSeries
    <2>4. n \in 1 .. n
      BY <1>1, <1>3
    <2> DEFINE d == [k \in 0 .. n |-> IF k = 0 THEN 0 ELSE Len(f[k])]
    <2>5. d \in [0 .. n -> Nat]
      BY <2>3, <1>1
    <2>6. d[0] = 0 /\ d[n] = Len(f[n])
      BY <1>1, <1>3
    <2>7. ASSUME NEW k \in 1 .. n
          PROVE  /\ d[k] = d[k - 1] + Len(ss[k]) /\ d[k] <= Len(f[n])
                 /\ \A i \in 1 .. Len(ss[k]) : f[n][d[k - 1] + i] = ss[k][i]
      <3>1. f[k] = IF k = 1 THEN ss[k] ELSE f[k - 1] \o ss[k]
        BY <2>1 DEF Juntas
      <3>2. d[k] = Len(f[k]) /\ f[k] \in Seq(S) /\ ss[k] \in Seq(S) /\ Len(ss[k]) \in Nat
        BY <1>1, <2>3
      <3>3. /\ Len(f[k]) <= Len(f[n])
            /\ \A i \in 1 .. Len(f[k]) : f[n][i] = f[k][i]
        <4>1. \A m \in k .. n : /\ Len(f[k]) <= Len(f[m])
                                 /\ \A i \in 1 .. Len(f[k]) : f[m][i] = f[k][i]
          <5> HIDE DEF d
          <5> QED BY <2>1, <1>n, JuntasEmpiezan
        <4>2. n \in k .. n
          BY <1>1
        <4> QED BY <4>1, <4>2
      <3>4. /\ d[k - 1] \in Nat /\ Len(f[k]) = d[k - 1] + Len(ss[k])
            /\ \A i \in 1 .. Len(ss[k]) : f[k][d[k - 1] + i] = ss[k][i]
        <4>1. CASE k = 1
          <5>1. k - 1 = 0 /\ d[k - 1] = 0
            BY <4>1, <2>6
          <5>2. f[k] = ss[k]
            BY <3>1, <4>1
          <5> HIDE DEF d
          <5> QED BY <5>1, <5>2, <3>2
        <4>2. CASE k # 1
          <5>1. k - 1 \in 1 .. n /\ d[k - 1] = Len(f[k - 1])
            BY <4>2, <1>1
          <5>2. f[k - 1] \in Seq(S) /\ f[k] = f[k - 1] \o ss[k]
            BY <5>1, <2>3, <3>1, <4>2
          <5>x. PICK x : x = Len(f[k - 1])
            OBVIOUS
          <5>3. /\ x \in Nat /\ Len(f[k]) = x + Len(ss[k])
                /\ \A i \in 1 .. Len(ss[k]) : f[k][x + i] = ss[k][i]
            <6>a. PICK a : a = f[k - 1]
              OBVIOUS
            <6>b. PICK b : b = ss[k]
              OBVIOUS
            <6>1. a \in Seq(S) /\ b \in Seq(S) /\ x = Len(a)
              BY <5>2, <3>2, <5>x, <6>a, <6>b
            <6>2. /\ x \in Nat /\ Len(a \o b) = x + Len(b)
                  /\ \A i \in 1 .. Len(b) : (a \o b)[x + i] = b[i]
              BY <6>1, Unidas
            <6>3. f[k] = a \o b
              BY <5>2, <6>a, <6>b
            <6> QED BY <6>2, <6>3, <6>b
          <5> HIDE DEF d
          <5> QED BY <5>1, <5>3, <5>x
        <4> QED BY <4>1, <4>2
      <3>5. ASSUME NEW i \in 1 .. Len(ss[k])
            PROVE  f[n][d[k - 1] + i] = ss[k][i]
        <4>1. d[k - 1] + i \in 1 .. Len(f[k])
          <5> HIDE DEF d
          <5> QED BY <3>4, <3>2
        <4>2. f[n][d[k - 1] + i] = f[k][d[k - 1] + i]
          <5> HIDE DEF d
          <5> QED BY <4>1, <3>3
        <4> HIDE DEF d
        <4> QED BY <4>2, <3>4
      <3> HIDE DEF d
      <3> QED BY <3>2, <3>3, <3>4, <3>5
    <2>8. Repartida(ss, f[n], d)
      <3> HIDE DEF d
      <3> QED BY <2>5, <2>6, <2>7, <1>n DEF Repartida
    <2> QED BY <2>2, <2>3, <2>4, <2>8
  <1> QED BY <1>2, <1>3

\* n sequences of length c
Iguales(ss, n, c) == n = Len(ss) /\ \A k \in 1 .. n : Len(ss[k]) = c

\* Sequences of the same length end at its multiples.
LEMMA FinDeIguales ==
  ASSUME NEW ss, NEW n \in Nat, NEW w, NEW d, Repartida(ss, w, d), NEW c \in Nat,
         Iguales(ss, n, c)
  PROVE  \A k \in 0 .. n : d[k] = c * k
  <1> DEFINE Malos == {k \in 0 .. n : d[k] # c * k}
  <1>1. ASSUME Malos # {}
        PROVE  FALSE
    <2>1. Malos \in SUBSET Nat
      OBVIOUS
    <2>2. PICK m \in Malos : \A y \in Malos : m <= y
      <3> HIDE DEF Malos
      <3> QED BY <1>1, <2>1, HayMinimo
    <2>3. m \in 0 .. n /\ d[m] # c * m
      BY <2>2
    <2>4. m # 0
      BY <2>3 DEF Repartida
    <2>5. m \in 1 .. n /\ m - 1 \in 0 .. n /\ ~(m <= m - 1)
      BY <2>3, <2>4
    <2>6. d[m - 1] = c * (m - 1)
      <3>1. m - 1 \notin Malos
        <4> HIDE DEF Malos
        <4> QED BY <2>2, <2>5
      <3> QED BY <3>1, <2>5
    <2>7. d[m] = d[m - 1] + c
      BY <2>5 DEF Repartida, Iguales
    <2>8. c * (m - 1) + c = c * m
      BY <2>5
    <2> QED BY <2>3, <2>6, <2>7, <2>8
  <1> QED BY <1>1

AIguales(w, ss, n, c) ==
  /\ n \in Nat /\ Len(w) = c * n
  /\ \A k \in 1 .. n : \A i \in 1 .. c : w[c * (k - 1) + i] = ss[k][i]

LEMMA PartesIguales ==
  ASSUME NEW S, NEW ss \in Seq(Seq(S)), NEW n, NEW c \in Nat, Iguales(ss, n, c),
         NEW w, w = FlattenSeq(ss)
  PROVE  w \in Seq(S) /\ AIguales(w, ss, n, c)
  <1>1. n \in Nat /\ w \in Seq(S) /\ n = Len(ss)
    BY EnHilera DEF Iguales
  <1>2. PICK d : Repartida(ss, w, d)
    BY EnHilera
  <1>3. \A k \in 0 .. n : d[k] = c * k
    BY <1>1, <1>2, FinDeIguales
  <1>4. Len(w) = c * n
    <2>1. d[n] = Len(w) /\ n \in 0 .. n
      BY <1>1, <1>2 DEF Repartida
    <2> QED BY <2>1, <1>3
  <1>5. ASSUME NEW k \in 1 .. n, NEW i \in 1 .. c
        PROVE  w[c * (k - 1) + i] = ss[k][i]
    <2>1. w[d[k - 1] + i] = ss[k][i]
      BY <1>1, <1>2 DEF Repartida, Iguales
    <2>2. k - 1 \in 0 .. n
      BY <1>1
    <2>3. d[k - 1] = c * (k - 1)
      BY <2>2, <1>3
    <2> QED BY <2>1, <2>3
  <1> QED BY <1>1, <1>4, <1>5 DEF AIguales

-----------------------------------------------------------------------------
(* What is written at a place is what is read there *)

\* Everything a PCB is written with
Palabra == Int \cup Ids \cup Pids \cup Range(Etiquetas) \cup {"Exec"}

\* s is in w from the n-th position on
Esta(s, w, n) == \A i \in 1 .. Len(s) : n + i - 1 \in DOMAIN w /\ w[n + i - 1] = s[i]

LEMMA EstaEntera ==
  ASSUME NEW S, NEW w \in Seq(S)
  PROVE  Esta(w, w, 1)
  BY DEF Esta

LEMMA EstaPartida ==
  ASSUME NEW S, NEW a \in Seq(S), NEW b \in Seq(S), NEW w, NEW n \in Nat, Esta(a \o b, w, n)
  PROVE  Esta(a, w, n) /\ Esta(b, w, n + Len(a))
  <1>x. PICK x : x = Len(a)
    OBVIOUS
  <1>y. PICK y : y = Len(b)
    OBVIOUS
  <1>c. PICK c : c = a \o b
    OBVIOUS
  <1>1. /\ x \in Nat /\ y \in Nat /\ Len(c) = x + y
        /\ \A i \in 1 .. x : c[i] = a[i]
        /\ \A i \in 1 .. y : c[x + i] = b[i]
    BY <1>x, <1>y, <1>c, Unidas
  <1>2. \A i \in 1 .. x + y : n + i - 1 \in DOMAIN w /\ w[n + i - 1] = c[i]
    BY <1>1, <1>c DEF Esta
  <1>3. ASSUME NEW i \in 1 .. x
        PROVE  n + i - 1 \in DOMAIN w /\ w[n + i - 1] = a[i]
    <2>1. i \in 1 .. x + y
      BY <1>1
    <2> QED BY <2>1, <1>1, <1>2
  <1>4. ASSUME NEW i \in 1 .. y
        PROVE  n + x + i - 1 \in DOMAIN w /\ w[n + x + i - 1] = b[i]
    <2>1. x + i \in 1 .. x + y /\ n + (x + i) - 1 = n + x + i - 1
      BY <1>1
    <2> QED BY <2>1, <1>1, <1>2
  <1> QED BY <1>3, <1>4, <1>x, <1>y DEF Esta

\* A length that was written
LEMMA LargoLeido ==
  ASSUME NEW w, NEW n \in Nat, NEW x \in Nat, Esta(<<x>>, w, n)
  PROVE  Campo(w, n) = x /\ Largo(w, n) = x
  <1>1. n \in DOMAIN w /\ w[n] = x
    <2>1. 1 \in 1 .. Len(<<x>>) /\ <<x>>[1] = x /\ n + 1 - 1 = n
      OBVIOUS
    <2> QED BY <2>1 DEF Esta
  <1>2. x # Falta
    BY CpuAssumption
  <1> QED BY <1>1, <1>2 DEF Campo, Largo

LEMMA TrechoLeido ==
  ASSUME NEW S, NEW s \in Seq(S), NEW w, NEW n \in Nat, Esta(s, w, n)
  PROVE  Trecho(w, n, Len(s)) = s
  <1>1. \A i \in 1 .. Len(s) : Campo(w, n + i - 1) = s[i]
    BY DEF Esta, Campo
  <1>2. s = [i \in 1 .. Len(s) |-> s[i]]
    OBVIOUS
  <1> QED BY <1>1, <1>2 DEF Trecho

\* The variables of a list, four words each
DeAVariables(s, vs, n) ==
  /\ n = Len(vs) /\ Len(s) = 4 * n
  /\ \A k \in 1 .. n :
       /\ s[4 * (k - 1) + 1] = vs[k].id /\ s[4 * (k - 1) + 2] = vs[k].offset
       /\ s[4 * (k - 1) + 3] = vs[k].page /\ s[4 * (k - 1) + 4] = vs[k].size

LEMMA SerieDeVariables ==
  ASSUME NEW vs \in Seq(Variable)
  PROVE  Serie(vs) \in Seq(Palabra) /\ DeAVariables(Serie(vs), vs, Len(vs))
  <1>n. PICK n : n = Len(vs)
    OBVIOUS
  <1>s. PICK s : s = Serie(vs)
    OBVIOUS
  <1> DEFINE ss == [i \in DOMAIN vs |-> serializarVariablesV2(vs[i])]
  <1>1. n \in Nat /\ \A k \in 1 .. n : vs[k] \in Variable
    BY <1>n
  <1>2. ASSUME NEW v \in Variable
        PROVE  serializarVariablesV2(v) \in Seq(Palabra) /\ Len(serializarVariablesV2(v)) = 4
    <2>1. v.id \in Palabra /\ v.offset \in Palabra /\ v.page \in Palabra /\ v.size \in Palabra
      BY PilaAssumption DEF Variable, Palabra
    <2> QED BY <2>1 DEF serializarVariablesV2
  <1>3. ss \in Seq(Seq(Palabra)) /\ Len(ss) = n /\ \A k \in 1 .. n : ss[k] = serializarVariablesV2(vs[k])
    <2>1. DOMAIN vs = 1 .. n
      BY <1>n
    <2>2. \A k \in 1 .. n : serializarVariablesV2(vs[k]) \in Seq(Palabra)
      BY <1>1, <1>2
    <2>3. ss \in [1 .. n -> Seq(Palabra)]
      BY <2>1, <2>2
    <2>4. ss \in Seq(Seq(Palabra)) /\ Len(ss) = n
      <3> HIDE DEF ss
      <3> QED BY <2>3, <1>1
    <2> QED BY <2>1, <2>4
  <1>4. s = FlattenSeq(ss)
    BY <1>s DEF Serie
  <1> HIDE DEF ss
  <1>5. Iguales(ss, n, 4)
    BY <1>1, <1>2, <1>3 DEF Iguales
  <1>6. /\ s \in Seq(Palabra) /\ Len(s) = 4 * n
        /\ \A k \in 1 .. n : \A i \in 1 .. 4 : s[4 * (k - 1) + i] = ss[k][i]
    <2>1. s \in Seq(Palabra) /\ AIguales(s, ss, n, 4)
      BY <1>3, <1>4, <1>5, PartesIguales
    <2> QED BY <2>1 DEF AIguales
  <1>7. ASSUME NEW k \in 1 .. n
        PROVE  /\ s[4 * (k - 1) + 1] = vs[k].id /\ s[4 * (k - 1) + 2] = vs[k].offset
               /\ s[4 * (k - 1) + 3] = vs[k].page /\ s[4 * (k - 1) + 4] = vs[k].size
    <2>1. 1 \in 1 .. 4 /\ 2 \in 1 .. 4 /\ 3 \in 1 .. 4 /\ 4 \in 1 .. 4
      OBVIOUS
    <2>2. /\ ss[k][1] = vs[k].id /\ ss[k][2] = vs[k].offset
          /\ ss[k][3] = vs[k].page /\ ss[k][4] = vs[k].size
      BY <1>3 DEF serializarVariablesV2
    <2> QED BY <2>1, <2>2, <1>6
  <1> QED BY <1>1, <1>6, <1>7, <1>n, <1>s DEF DeAVariables

LEMMA VariablesLeidas ==
  ASSUME NEW vs \in Seq(Variable), NEW w, NEW n \in Nat,
         Esta(<<Len(vs)>>, w, n), Esta(Serie(vs), w, n + 1)
  PROVE  /\ LeerVariables(w, n) = vs /\ Largo(w, n) = Len(vs)
  <1>x. PICK x : x = Len(vs)
    OBVIOUS
  <1>s. PICK s : s = Serie(vs)
    OBVIOUS
  <1>1. /\ x \in Nat /\ s \in Seq(Palabra) /\ Len(s) = 4 * x
        /\ \A k \in 1 .. x :
              /\ s[4 * (k - 1) + 1] = vs[k].id /\ s[4 * (k - 1) + 2] = vs[k].offset
              /\ s[4 * (k - 1) + 3] = vs[k].page /\ s[4 * (k - 1) + 4] = vs[k].size
    <2>1. s \in Seq(Palabra) /\ DeAVariables(s, vs, x)
      BY <1>x, <1>s, SerieDeVariables
    <2>2. x \in Nat
      BY <1>x
    <2> QED BY <2>1, <2>2 DEF DeAVariables
  <1>3. Esta(<<x>>, w, n) /\ Esta(s, w, n + 1)
    BY <1>x, <1>s
  <1>4. Largo(w, n) = x
    BY <1>1, <1>3, LargoLeido
  <1>5. \A j \in 1 .. 4 * x : Campo(w, n + j) = s[j]
    <2>1. \A j \in 1 .. 4 * x : n + 1 + j - 1 \in DOMAIN w /\ w[n + 1 + j - 1] = s[j]
      BY <1>1, <1>3 DEF Esta
    <2>2. \A j \in 1 .. 4 * x : n + 1 + j - 1 = n + j
      BY <1>1
    <2> QED BY <2>1, <2>2 DEF Campo
  <1>6. ASSUME NEW i \in 1 .. x
        PROVE  LET c == n + 4 * i - 3
               IN  [id |-> Campo(w, c), offset |-> Campo(w, c + 1),
                    page |-> Campo(w, c + 2), size |-> Campo(w, c + 3)] = vs[i]
    <2>1. vs[i] \in Variable
      BY <1>x
    <2>2. /\ 4 * (i - 1) + 1 \in 1 .. 4 * x /\ 4 * (i - 1) + 2 \in 1 .. 4 * x
          /\ 4 * (i - 1) + 3 \in 1 .. 4 * x /\ 4 * (i - 1) + 4 \in 1 .. 4 * x
      BY <1>1, SMTT(30)
    <2>3. /\ n + (4 * (i - 1) + 1) = n + 4 * i - 3
          /\ n + (4 * (i - 1) + 2) = n + 4 * i - 3 + 1
          /\ n + (4 * (i - 1) + 3) = n + 4 * i - 3 + 2
          /\ n + (4 * (i - 1) + 4) = n + 4 * i - 3 + 3
      BY <1>1
    <2>4. /\ Campo(w, n + 4 * i - 3) = vs[i].id
          /\ Campo(w, n + 4 * i - 3 + 1) = vs[i].offset
          /\ Campo(w, n + 4 * i - 3 + 2) = vs[i].page
          /\ Campo(w, n + 4 * i - 3 + 3) = vs[i].size
      BY <2>2, <2>3, <1>1, <1>5
    <2>5. vs[i] = [id |-> vs[i].id, offset |-> vs[i].offset, page |-> vs[i].page, size |-> vs[i].size]
      BY <2>1 DEF Variable
    <2> QED BY <2>4, <2>5
  <1>7. vs = [i \in 1 .. x |-> vs[i]]
    BY <1>x
  <1>8. LeerVariables(w, n) = vs
    BY <1>4, <1>6, <1>7 DEF LeerVariables
  <1> QED BY <1>4, <1>8, <1>x

-----------------------------------------------------------------------------
(* The frames *)

LEMMA Sumadas ==
  ASSUME NEW S, NEW a \in Seq(S), NEW b \in Seq(S)
  PROVE  (a \o b) \in Seq(S) /\ Len(a \o b) = Len(a) + Len(b)
  BY ConcatProperties

LEMMA EnPalabra ==
  ASSUME NEW r \in Registro
  PROVE  /\ r.ret_pos \in Palabra /\ r.ret_var.offset \in Palabra
         /\ r.ret_var.page \in Palabra /\ r.ret_var.size \in Palabra
  <1>1. r.ret_pos \in Nat
    BY PilaAssumption DEF Registro
  <1>2. r.ret_var \in Destino
    BY DEF Registro
  <1>3. r.ret_var.offset \in Nat /\ r.ret_var.page \in Nat /\ r.ret_var.size \in Nat
    BY <1>2, PilaAssumption DEF Destino
  <1> QED BY <1>1, <1>3 DEF Palabra

LEMMA RegistroEscrito ==
  ASSUME NEW r \in Registro
  PROVE  /\ serializarElestacV2(r) \in Seq(Palabra)
         /\ Len(serializarElestacV2(r)) = sumar_tamanio_registroV2(r)
         /\ sumar_tamanio_registroV2(r) \in Nat
  <1>a. PICK a : a = Len(r.args)
    OBVIOUS
  <1>v. PICK v : v = Len(r.vars)
    OBVIOUS
  <1>s. PICK s : s = Serie(r.args)
    OBVIOUS
  <1>t. PICK t : t = Serie(r.vars)
    OBVIOUS
  <1>0. r.args \in Seq(Variable) /\ r.vars \in Seq(Variable)
    BY DEF Registro
  <1>1. a \in Nat /\ v \in Nat
    BY <1>0, <1>a, <1>v
  <1>2. s \in Seq(Palabra) /\ Len(s) = 4 * a
    BY <1>0, <1>a, <1>s, SerieDeVariables DEF DeAVariables
  <1>3. t \in Seq(Palabra) /\ Len(t) = 4 * v
    BY <1>0, <1>v, <1>t, SerieDeVariables DEF DeAVariables
  <1>4. /\ a \in Palabra /\ v \in Palabra /\ r.ret_pos \in Palabra /\ r.ret_var.offset \in Palabra
        /\ r.ret_var.page \in Palabra /\ r.ret_var.size \in Palabra
    <2>1. a \in Palabra /\ v \in Palabra
      BY <1>1 DEF Palabra
    <2> QED BY <2>1, EnPalabra
  <1>p. PICK p1 : p1 = <<a>>
    OBVIOUS
  <1>q. PICK q1 : q1 = <<v>>
    OBVIOUS
  <1>b. PICK b : b = p1 \o s
    OBVIOUS
  <1>c. PICK c : c = b \o q1
    OBVIOUS
  <1>d. PICK d : d = c \o t
    OBVIOUS
  <1>e. PICK e : e = <<r.ret_pos, r.ret_var.offset, r.ret_var.page, r.ret_var.size>>
    OBVIOUS
  <1>5. p1 \in Seq(Palabra) /\ Len(p1) = 1 /\ q1 \in Seq(Palabra) /\ Len(q1) = 1
    BY <1>4, <1>p, <1>q
  <1>6. e \in Seq(Palabra) /\ Len(e) = 4
    BY <1>4, <1>e
  <1>7. b \in Seq(Palabra) /\ Len(b) = 1 + 4 * a
    <2>1. b \in Seq(Palabra) /\ Len(b) = Len(p1) + Len(s)
      BY <1>2, <1>5, <1>b, Sumadas
    <2> QED BY <2>1, <1>2, <1>5
  <1>y. c \in Seq(Palabra) /\ Len(c) = 2 + 4 * a
    <2>1. c \in Seq(Palabra) /\ Len(c) = Len(b) + Len(q1)
      BY <1>7, <1>5, <1>c, Sumadas
    <2> QED BY <2>1, <1>1, <1>5, <1>7
  <1>9. d \in Seq(Palabra) /\ Len(d) = 2 + 4 * a + 4 * v
    <2>1. d \in Seq(Palabra) /\ Len(d) = Len(c) + Len(t)
      BY <1>3, <1>y, <1>d, Sumadas
    <2> QED BY <2>1, <1>3, <1>y
  <1>8. (d \o e) \in Seq(Palabra) /\ Len(d \o e) = 6 + 4 * a + 4 * v
    <2>1. (d \o e) \in Seq(Palabra) /\ Len(d \o e) = Len(d) + Len(e)
      BY <1>6, <1>9, Sumadas
    <2> QED BY <2>1, <1>1, <1>6, <1>9
  <1>z. serializarElestacV2(r) = d \o e
    BY <1>a, <1>v, <1>s, <1>t, <1>p, <1>q, <1>b, <1>c, <1>d, <1>e DEF serializarElestacV2
  <1>10. sumar_tamanio_registroV2(r) = 6 + 4 * a + 4 * v
    <2>1. sumar_tamanio_registroV2(r) = 4 * a + 4 * v + 4 + 2
      BY <1>a, <1>v DEF sumar_tamanio_registroV2
    <2> QED BY <2>1, <1>1
  <1> QED BY <1>1, <1>8, <1>z, <1>10

LEMMA RegistroLeido ==
  ASSUME NEW r \in Registro, NEW w, NEW n \in Nat, Esta(serializarElestacV2(r), w, n), NEW rs
  PROVE  UnRegistroMas(w, [registros |-> rs, sigue |-> n])
           = [registros |-> Append(rs, r), sigue |-> n + sumar_tamanio_registroV2(r)]
  <1>a. PICK a : a = Len(r.args)
    OBVIOUS
  <1>v. PICK v : v = Len(r.vars)
    OBVIOUS
  <1>s. PICK s : s = Serie(r.args)
    OBVIOUS
  <1>t. PICK t : t = Serie(r.vars)
    OBVIOUS
  <1>0. r.args \in Seq(Variable) /\ r.vars \in Seq(Variable)
    BY DEF Registro
  <1>1. a \in Nat /\ v \in Nat
    BY <1>0, <1>a, <1>v
  <1>2. s \in Seq(Palabra) /\ Len(s) = 4 * a
    BY <1>0, <1>a, <1>s, SerieDeVariables DEF DeAVariables
  <1>3. t \in Seq(Palabra) /\ Len(t) = 4 * v
    BY <1>0, <1>v, <1>t, SerieDeVariables DEF DeAVariables
  <1>4. /\ a \in Palabra /\ v \in Palabra /\ r.ret_pos \in Palabra /\ r.ret_var.offset \in Palabra
        /\ r.ret_var.page \in Palabra /\ r.ret_var.size \in Palabra
    <2>1. a \in Palabra /\ v \in Palabra
      BY <1>1 DEF Palabra
    <2> QED BY <2>1, EnPalabra
  <1>p. PICK p1 : p1 = <<a>>
    OBVIOUS
  <1>q. PICK q1 : q1 = <<v>>
    OBVIOUS
  <1>b. PICK b : b = p1 \o s
    OBVIOUS
  <1>c. PICK c : c = b \o q1
    OBVIOUS
  <1>d. PICK d : d = c \o t
    OBVIOUS
  <1>e. PICK e : e = <<r.ret_pos, r.ret_var.offset, r.ret_var.page, r.ret_var.size>>
    OBVIOUS
  <1>5. p1 \in Seq(Palabra) /\ Len(p1) = 1 /\ q1 \in Seq(Palabra) /\ Len(q1) = 1
    BY <1>4, <1>p, <1>q
  <1>6. e \in Seq(Palabra) /\ Len(e) = 4
    BY <1>4, <1>e
  <1>7. b \in Seq(Palabra) /\ Len(b) = 1 + 4 * a
    <2>1. b \in Seq(Palabra) /\ Len(b) = Len(p1) + Len(s)
      BY <1>2, <1>5, <1>b, Sumadas
    <2> QED BY <2>1, <1>2, <1>5
  <1>8. c \in Seq(Palabra) /\ Len(c) = 2 + 4 * a
    <2>1. c \in Seq(Palabra) /\ Len(c) = Len(b) + Len(q1)
      BY <1>7, <1>5, <1>c, Sumadas
    <2> QED BY <2>1, <1>1, <1>5, <1>7
  <1>9. d \in Seq(Palabra) /\ Len(d) = 2 + 4 * a + 4 * v
    <2>1. d \in Seq(Palabra) /\ Len(d) = Len(c) + Len(t)
      BY <1>3, <1>8, <1>d, Sumadas
    <2> QED BY <2>1, <1>3, <1>8
  <1>10. Esta(d \o e, w, n)
    BY <1>a, <1>v, <1>s, <1>t, <1>p, <1>q, <1>b, <1>c, <1>d, <1>e DEF serializarElestacV2
  <1>11. Esta(d, w, n) /\ Esta(e, w, n + Len(d))
    BY <1>6, <1>9, <1>10, EstaPartida
  <1>12. Esta(c, w, n) /\ Esta(t, w, n + Len(c))
    BY <1>3, <1>8, <1>11, <1>d, EstaPartida
  <1>13. Esta(b, w, n) /\ Esta(q1, w, n + Len(b))
    BY <1>5, <1>7, <1>12, <1>c, EstaPartida
  <1>14. Esta(p1, w, n) /\ Esta(s, w, n + Len(p1))
    BY <1>2, <1>5, <1>13, <1>b, EstaPartida
  <1>15. LeerVariables(w, n) = r.args /\ Largo(w, n) = a
    <2>1. Esta(<<Len(r.args)>>, w, n) /\ Esta(Serie(r.args), w, n + 1)
      BY <1>14, <1>5, <1>a, <1>s, <1>p
    <2> QED BY <2>1, <1>0, <1>a, VariablesLeidas
  <1>m. PICK m : m = n + 1 + 4 * a
    OBVIOUS
  <1>16. m \in Nat /\ n + Len(b) = m /\ n + Len(c) = m + 1 /\ n + Len(d) = m + 1 + 4 * v
    BY <1>1, <1>7, <1>8, <1>9, <1>m
  <1>17. LeerVariables(w, m) = r.vars /\ Largo(w, m) = v
    <2>1. Esta(<<Len(r.vars)>>, w, m) /\ Esta(Serie(r.vars), w, m + 1)
      BY <1>12, <1>13, <1>16, <1>v, <1>t, <1>q
    <2> QED BY <2>1, <1>0, <1>16, <1>v, VariablesLeidas
  <1>u. PICK u : u = m + 1 + 4 * v
    OBVIOUS
  <1>18. u \in Nat /\ n + Len(d) = u
    BY <1>1, <1>16, <1>u
  <1>19. /\ Campo(w, u) = r.ret_pos /\ Campo(w, u + 1) = r.ret_var.offset
         /\ Campo(w, u + 2) = r.ret_var.page /\ Campo(w, u + 3) = r.ret_var.size
    <2>1. \A i \in 1 .. 4 : u + i - 1 \in DOMAIN w /\ w[u + i - 1] = e[i]
      BY <1>11, <1>18, <1>6 DEF Esta
    <2>2. /\ e[1] = r.ret_pos /\ e[2] = r.ret_var.offset /\ e[3] = r.ret_var.page
          /\ e[4] = r.ret_var.size
      BY <1>e
    <2>3. u + 1 - 1 = u /\ u + 2 - 1 = u + 1 /\ u + 3 - 1 = u + 2 /\ u + 4 - 1 = u + 3
      BY <1>18
    <2>4. /\ u \in DOMAIN w /\ w[u] = e[1]
          /\ u + 1 \in DOMAIN w /\ w[u + 1] = e[2]
          /\ u + 2 \in DOMAIN w /\ w[u + 2] = e[3]
          /\ u + 3 \in DOMAIN w /\ w[u + 3] = e[4]
      <3>1. 1 \in 1 .. 4 /\ 2 \in 1 .. 4 /\ 3 \in 1 .. 4 /\ 4 \in 1 .. 4
        OBVIOUS
      <3> QED BY <3>1, <2>1, <2>3
    <2> QED BY <2>2, <2>4 DEF Campo
  <1>20. r = [args |-> r.args, vars |-> r.vars, ret_pos |-> r.ret_pos,
              ret_var |-> [offset |-> r.ret_var.offset, page |-> r.ret_var.page,
                           size |-> r.ret_var.size]]
    <2>1. r.ret_var = [offset |-> r.ret_var.offset, page |-> r.ret_var.page, size |-> r.ret_var.size]
      BY DEF Registro, Destino
    <2>2. r = [args |-> r.args, vars |-> r.vars, ret_pos |-> r.ret_pos, ret_var |-> r.ret_var]
      BY DEF Registro
    <2> QED BY <2>1, <2>2
  <1>21. sumar_tamanio_registroV2(r) = 4 * a + 4 * v + 4 + 2
    BY <1>a, <1>v DEF sumar_tamanio_registroV2
  <1>22. u + 4 = n + sumar_tamanio_registroV2(r)
    BY <1>1, <1>21, <1>m, <1>u
  <1>x. PICK x : x = [registros |-> rs, sigue |-> n]
    OBVIOUS
  <1>23. x.registros = rs /\ x.sigue = n
    BY <1>x
  <1>24. UnRegistroMas(w, x) = [registros |-> Append(rs, r), sigue |-> u + 4]
    <2>1. n + 1 + 4 * Largo(w, n) = m
      BY <1>15, <1>m
    <2>2. m + 1 + 4 * Largo(w, m) = u
      BY <1>17, <1>u
    <2> QED BY <2>1, <2>2, <1>15, <1>17, <1>19, <1>20, <1>23 DEF UnRegistroMas
  <1> QED BY <1>22, <1>24, <1>x

-----------------------------------------------------------------------------
(* The stack *)

Tramas(si) == [k \in DOMAIN si |-> serializarElestacV2(si[k])]

LEMMA TramasEscritas ==
  ASSUME NEW si \in Seq(Registro), NEW n, n = Len(si)
  PROVE  /\ n \in Nat /\ Tramas(si) \in Seq(Seq(Palabra)) /\ Len(Tramas(si)) = n
         /\ \A k \in 1 .. n : /\ si[k] \in Registro
                              /\ Tramas(si)[k] = serializarElestacV2(si[k])
                              /\ Len(Tramas(si)[k]) = sumar_tamanio_registroV2(si[k])
                              /\ sumar_tamanio_registroV2(si[k]) \in Nat
  <1>1. n \in Nat /\ DOMAIN si = 1 .. n /\ \A k \in 1 .. n : si[k] \in Registro
    OBVIOUS
  <1>2. \A k \in 1 .. n : /\ serializarElestacV2(si[k]) \in Seq(Palabra)
                          /\ Len(serializarElestacV2(si[k])) = sumar_tamanio_registroV2(si[k])
                          /\ sumar_tamanio_registroV2(si[k]) \in Nat
    BY <1>1, RegistroEscrito
  <1>t. PICK t : t = Tramas(si)
    OBVIOUS
  <1>3. t \in [1 .. n -> Seq(Palabra)] /\ \A k \in 1 .. n : t[k] = serializarElestacV2(si[k])
    BY <1>1, <1>2, <1>t DEF Tramas
  <1>4. t \in Seq(Seq(Palabra)) /\ Len(t) = n
    BY <1>1, <1>3
  <1> QED BY <1>1, <1>2, <1>3, <1>4, <1>t

\* The function tamanio_total_buffer adds up with
Tamanios(si, n, f) ==
  f = [k \in 0 .. n |-> IF k = 0 THEN 0 ELSE f[k - 1] + sumar_tamanio_registroV2(si[k])]

LEMMA TamaniosUnicos ==
  ASSUME NEW si, NEW n \in Nat, NEW f, NEW d, Tamanios(si, n, f), Tamanios(si, n, d)
  PROVE  f[n] = d[n]
  <1> DEFINE Malos == {k \in 0 .. n : f[k] # d[k]}
  <1>1. ASSUME Malos # {}
        PROVE  FALSE
    <2>1. Malos \in SUBSET Nat
      OBVIOUS
    <2>2. PICK m \in Malos : \A y \in Malos : m <= y
      <3> HIDE DEF Malos
      <3> QED BY <1>1, <2>1, HayMinimo
    <2>3. m \in 0 .. n /\ f[m] # d[m]
      BY <2>2
    <2>4. /\ f[m] = IF m = 0 THEN 0 ELSE f[m - 1] + sumar_tamanio_registroV2(si[m])
          /\ d[m] = IF m = 0 THEN 0 ELSE d[m - 1] + sumar_tamanio_registroV2(si[m])
      BY <2>3 DEF Tamanios
    <2>5. m # 0
      BY <2>3, <2>4
    <2>6. m - 1 \in 0 .. n /\ ~(m <= m - 1)
      BY <2>3, <2>5
    <2>7. f[m - 1] = d[m - 1]
      <3>1. m - 1 \notin Malos
        <4> HIDE DEF Malos
        <4> QED BY <2>2, <2>6
      <3> QED BY <3>1, <2>6
    <2> QED BY <2>3, <2>4, <2>5, <2>7
  <1>2. n \in 0 .. n
    OBVIOUS
  <1> QED BY <1>1, <1>2

LEMMA TamaniosRepartidos ==
  ASSUME NEW si \in Seq(Registro), NEW n, n = Len(si), NEW w, NEW d, Repartida(Tramas(si), w, d)
  PROVE  Tamanios(si, n, d) /\ d[n] = Len(w)
  <1>1. /\ n \in Nat /\ Len(Tramas(si)) = n
        /\ \A k \in 1 .. n : /\ Len(Tramas(si)[k]) = sumar_tamanio_registroV2(si[k])
                             /\ sumar_tamanio_registroV2(si[k]) \in Nat
    BY TramasEscritas
  <1>2. d \in [0 .. n -> Nat] /\ d[0] = 0 /\ d[n] = Len(w)
    BY <1>1 DEF Repartida
  <1>3. \A k \in 1 .. n : d[k] = d[k - 1] + sumar_tamanio_registroV2(si[k])
    BY <1>1 DEF Repartida
  <1>4. \A k \in 0 .. n : d[k] = IF k = 0 THEN 0 ELSE d[k - 1] + sumar_tamanio_registroV2(si[k])
    <2>1. \A k \in 0 .. n : k # 0 => k \in 1 .. n
      BY <1>1
    <2> QED BY <2>1, <1>2, <1>3
  <1>5. d = [k \in 0 .. n |-> d[k]]
    BY <1>2
  <1> QED BY <1>2, <1>4, <1>5 DEF Tamanios

\* What is sent is as long as what was written.
LEMMA TamanioTotal ==
  ASSUME NEW p, p.stack_index \in Seq(Registro)
  PROVE  tamanio_total_buffer(p)
           = 8 + 2 * p.cantidad_de_instrucciones + Len(p.lista_de_etiquetas) + Len(p.estado) + 4
               + Len(FlattenSeq(Tramas(p.stack_index)))
  <1>s. PICK si : si = p.stack_index
    OBVIOUS
  <1>n. PICK n : n = Len(si)
    OBVIOUS
  <1>1. si \in Seq(Registro) /\ n \in Nat /\ Tramas(si) \in Seq(Seq(Palabra))
    BY <1>s, <1>n, TramasEscritas
  <1>2. PICK d : Repartida(Tramas(si), FlattenSeq(Tramas(si)), d)
    BY <1>1, EnHilera
  <1>3. Tamanios(si, n, d) /\ d[n] = Len(FlattenSeq(Tramas(si)))
    BY <1>1, <1>2, <1>n, TamaniosRepartidos
  <1>f. PICK f : f = CHOOSE g : Tamanios(si, n, g)
    OBVIOUS
  <1>4. Tamanios(si, n, f)
    BY <1>3, <1>f
  <1>5. f[n] = d[n]
    BY <1>1, <1>3, <1>4, TamaniosUnicos
  <1>6. tamanio_total_buffer(p)
          = 8 + 2 * p.cantidad_de_instrucciones + Len(p.lista_de_etiquetas) + Len(p.estado) + 4 + f[n]
    BY <1>s, <1>n, <1>f, Zenon DEF tamanio_total_buffer, Tamanios
  <1> QED BY <1>3, <1>5, <1>6, <1>s

LEMMA HastaElSiguiente ==
  ASSUME NEW S, NEW s \in Seq(S), NEW k \in 1 .. Len(s)
  PROVE  Append(SubSeq(s, 1, k - 1), s[k]) = SubSeq(s, 1, k)
  OBVIOUS

\* The function LeerRegistros defines
Leidos(w, n, c, f) ==
  f = [k \in 0 .. c |->
         IF k = 0 THEN [registros |-> <<>>, sigue |-> n]
         ELSE CHOOSE r \in {UnRegistroMas(w, leido) : leido \in {f[k - 1]}} : TRUE]

LEMMA UnSoloLeido ==
  ASSUME NEW w, NEW x
  PROVE  (CHOOSE r \in {UnRegistroMas(w, leido) : leido \in {x}} : TRUE) = UnRegistroMas(w, x)
  <1>y. PICK y : y = UnRegistroMas(w, x)
    OBVIOUS
  <1>1. {UnRegistroMas(w, leido) : leido \in {x}} = {y}
    BY <1>y
  <1> QED BY <1>1, <1>y

\* A stack that was written is read, frame by frame.
LEMMA StackLeido ==
  ASSUME NEW si \in Seq(Registro), NEW w, NEW n \in Nat, Esta(FlattenSeq(Tramas(si)), w, n)
  PROVE  LeerRegistros(w, n, Len(si)).registros = si
  <1>c. PICK c : c = Len(si)
    OBVIOUS
  <1>F. PICK F : F = FlattenSeq(Tramas(si))
    OBVIOUS
  <1>1. /\ c \in Nat /\ Tramas(si) \in Seq(Seq(Palabra)) /\ Len(Tramas(si)) = c
        /\ \A k \in 1 .. c : /\ si[k] \in Registro
                             /\ Tramas(si)[k] = serializarElestacV2(si[k])
                             /\ Len(Tramas(si)[k]) = sumar_tamanio_registroV2(si[k])
                             /\ sumar_tamanio_registroV2(si[k]) \in Nat
    BY <1>c, TramasEscritas
  <1>2. F \in Seq(Palabra) /\ \E d : Repartida(Tramas(si), F, d)
    BY <1>1, <1>F, EnHilera
  <1>d. PICK d : Repartida(Tramas(si), F, d)
    BY <1>2
  <1>3. /\ d \in [0 .. c -> Nat] /\ d[0] = 0
        /\ \A k \in 1 .. c : /\ d[k] = d[k - 1] + Len(Tramas(si)[k]) /\ d[k] <= Len(F)
                             /\ \A i \in 1 .. Len(Tramas(si)[k]) : F[d[k - 1] + i] = Tramas(si)[k][i]
    BY <1>1, <1>d DEF Repartida
  <1>4. ASSUME NEW k \in 1 .. c
        PROVE  Esta(serializarElestacV2(si[k]), w, n + d[k - 1])
    <2>t. PICK t : t = serializarElestacV2(si[k])
      OBVIOUS
    <2>l. PICK l : l = Len(t)
      OBVIOUS
    <2>e. PICK e : e = d[k - 1]
      OBVIOUS
    <2>f. PICK f : f = Len(F)
      OBVIOUS
    <2>1. k - 1 \in 0 .. c /\ e \in Nat /\ f \in Nat
      BY <1>1, <1>2, <1>3, <2>e, <2>f
    <2>m. PICK m : m = Tramas(si)[k]
      OBVIOUS
    <2>n. m = t /\ Len(m) = l /\ l \in Nat
      BY <1>1, <2>t, <2>l, <2>m
    <2>d. /\ d[k] = d[k - 1] + Len(m) /\ d[k] <= Len(F)
          /\ \A i \in 1 .. Len(m) : F[d[k - 1] + i] = m[i]
      BY <1>3, <2>m
    <2>2. l \in Nat /\ e + l <= f /\ \A i \in 1 .. l : F[e + i] = t[i]
      BY <2>n, <2>d, <2>e, <2>f
    <2>3. \A i \in 1 .. f : n + i - 1 \in DOMAIN w /\ w[n + i - 1] = F[i]
      BY <1>F, <2>f DEF Esta
    <2>4. ASSUME NEW i \in 1 .. l
          PROVE  n + e + i - 1 \in DOMAIN w /\ w[n + e + i - 1] = t[i]
      <3>1. e + i \in 1 .. f /\ n + (e + i) - 1 = n + e + i - 1
        BY <2>1, <2>2
      <3> QED BY <3>1, <2>2, <2>3
    <2> QED BY <2>4, <2>t, <2>l, <2>e DEF Esta
  <1> DEFINE g == [k \in 0 .. c |-> [registros |-> SubSeq(si, 1, k), sigue |-> n + d[k]]]
  <1>5. ASSUME NEW k \in 1 .. c
        PROVE  UnRegistroMas(w, g[k - 1]) = g[k]
    <2>1. k - 1 \in 0 .. c /\ k \in 0 .. c /\ si[k] \in Registro
      BY <1>1
    <2>e. PICK e : e = n + d[k - 1]
      OBVIOUS
    <2>r. PICK r : r = SubSeq(si, 1, k - 1)
      OBVIOUS
    <2>2. g[k - 1] = [registros |-> r, sigue |-> e] /\ g[k] = [registros |-> SubSeq(si, 1, k), sigue |-> n + d[k]]
      BY <2>1, <2>e, <2>r
    <2>3. e \in Nat /\ Esta(serializarElestacV2(si[k]), w, e)
      BY <1>3, <1>4, <2>1, <2>e, SMTT(30)
    <2>4. UnRegistroMas(w, [registros |-> r, sigue |-> e])
            = [registros |-> Append(r, si[k]), sigue |-> e + sumar_tamanio_registroV2(si[k])]
      BY <2>1, <2>3, RegistroLeido
    <2>5. Append(r, si[k]) = SubSeq(si, 1, k)
      BY <1>c, <2>r, HastaElSiguiente
    <2>6. e + sumar_tamanio_registroV2(si[k]) = n + d[k]
      BY <1>1, <1>3, <2>1, <2>e, SMTT(30)
    <2> HIDE DEF g
    <2> QED BY <2>2, <2>4, <2>5, <2>6
  <1>6. g[0] = [registros |-> <<>>, sigue |-> n]
    BY <1>1, <1>3
  <1>7. DOMAIN g = 0 .. c /\ g[c].registros = si
    <2>1. SubSeq(si, 1, c) = si
      BY <1>c
    <2>2. c \in 0 .. c
      BY <1>1
    <2> QED BY <2>1, <2>2
  <1>8. g = [k \in 0 .. c |-> g[k]]
    OBVIOUS
  <1> HIDE DEF g
  <1>9. \A k \in 0 .. c : g[k] = IF k = 0 THEN [registros |-> <<>>, sigue |-> n]
                                ELSE CHOOSE r \in {UnRegistroMas(w, leido) : leido \in {g[k - 1]}} : TRUE
    <2>1. ASSUME NEW k \in 0 .. c, k # 0
          PROVE  g[k] = CHOOSE r \in {UnRegistroMas(w, leido) : leido \in {g[k - 1]}} : TRUE
      <3>1. k \in 1 .. c
        BY <1>1, <2>1
      <3> QED BY <3>1, <1>5, UnSoloLeido
    <2> QED BY <2>1, <1>6
  <1>10. Leidos(w, n, c, g)
    BY <1>8, <1>9 DEF Leidos
  <1>f. PICK f : f = CHOOSE h : Leidos(w, n, c, h)
    OBVIOUS
  <1>11. Leidos(w, n, c, f)
    BY <1>10, <1>f
  <1>12. LeerRegistros(w, n, c) = f[c]
    BY <1>f, Zenon DEF LeerRegistros, Leidos
  <1> DEFINE Malos == {k \in 0 .. c : f[k] # g[k]}
  <1>13. ASSUME Malos # {}
         PROVE  FALSE
    <2>1. Malos \in SUBSET Nat
      BY <1>1
    <2>2. PICK m \in Malos : \A y \in Malos : m <= y
      <3> HIDE DEF Malos
      <3> QED BY <1>13, <2>1, HayMinimo
    <2>3. m \in 0 .. c /\ f[m] # g[m]
      BY <2>2
    <2>4. f[m] = IF m = 0 THEN [registros |-> <<>>, sigue |-> n]
                 ELSE CHOOSE r \in {UnRegistroMas(w, leido) : leido \in {f[m - 1]}} : TRUE
      BY <1>11, <2>3 DEF Leidos
    <2>5. m # 0
      BY <2>3, <2>4, <1>6
    <2>6. m \in 1 .. c /\ m - 1 \in 0 .. c /\ ~(m <= m - 1)
      BY <1>1, <2>3, <2>5
    <2>7. f[m - 1] = g[m - 1]
      <3>1. m - 1 \notin Malos
        <4> HIDE DEF Malos
        <4> QED BY <2>2, <2>6
      <3> QED BY <3>1, <2>6
    <2> QED BY <2>3, <2>4, <2>5, <2>6, <2>7, <1>5, UnSoloLeido
  <1>14. c \in 0 .. c
    BY <1>1
  <1>15. f[c] = g[c]
    BY <1>13, <1>14
  <1> QED BY <1>7, <1>12, <1>15, <1>c
-----------------------------------------------------------------------------
(* The PCB *)

\* The index of the lines of code
Indice(w, ind, n) ==
  /\ n = Len(ind) /\ Len(w) = 2 * n
  /\ \A k \in 1 .. n : w[2 * (k - 1) + 1] = ind[k][1] /\ w[2 * (k - 1) + 2] = ind[k][2]

LEMMA IndiceEscrito ==
  ASSUME NEW ind \in Seq(Nat \X Nat)
  PROVE  FlattenSeq(ind) \in Seq(Palabra) /\ Indice(FlattenSeq(ind), ind, Len(ind))
<1> DEFINE w == FlattenSeq(ind)
           n == Len(ind)
<1>1. ASSUME NEW q \in Nat \X Nat PROVE q \in Seq(Palabra) /\ Len(q) = 2
  <2>1. PICK x \in Nat, y \in Nat : q = <<x, y>>
    OBVIOUS
  <2>2. x \in Palabra /\ y \in Palabra
    BY DEF Palabra
  <2> QED  BY <2>1, <2>2
<1>n. n \in Nat /\ ind \in [1 .. n -> Nat \X Nat]
  OBVIOUS
<1>2. ind \in Seq(Seq(Palabra))
  BY <1>1, <1>n
<1>3. Iguales(ind, n, 2)
  BY <1>1, <1>n DEF Iguales
<1>4. w \in Seq(Palabra) /\ AIguales(w, ind, n, 2)
  BY <1>2, <1>3, PartesIguales
<1>5. \A k \in 1 .. n : \A i \in 1 .. 2 : w[2 * (k - 1) + i] = ind[k][i]
  BY <1>4 DEF AIguales
<1>6. ASSUME NEW k \in 1 .. n
      PROVE  w[2 * (k - 1) + 1] = ind[k][1] /\ w[2 * (k - 1) + 2] = ind[k][2]
  <2>1. 1 \in 1 .. 2 /\ 2 \in 1 .. 2
    OBVIOUS
  <2> QED  BY <1>5, <2>1
<1>7. Len(w) = 2 * n
  BY <1>4 DEF AIguales
<1> QED  BY <1>4, <1>6, <1>7 DEF Indice

LEMMA IndiceLeido ==
  ASSUME NEW ind \in Seq(Nat \X Nat), NEW w, Esta(FlattenSeq(ind), w, 6), NEW l, l = 2 * Len(ind)
  PROVE  [i \in 1 .. l \div 2 |-> Trecho(w, 4 + 2 * i, 2)] = ind
<1> DEFINE F == FlattenSeq(ind)
<1>f. PICK f : f = F
  OBVIOUS
<1>n. PICK n : n = Len(ind) /\ n \in Nat
  OBVIOUS
<1>1. /\ f \in Seq(Palabra) /\ Len(f) = 2 * n
      /\ \A k \in 1 .. n : f[2 * (k - 1) + 1] = ind[k][1] /\ f[2 * (k - 1) + 2] = ind[k][2]
  <2>1. f \in Seq(Palabra) /\ Indice(f, ind, n)
    BY <1>f, <1>n, IndiceEscrito
  <2> QED  BY <2>1 DEF Indice
<1>2. \A i \in 1 .. Len(f) : 6 + i - 1 \in DOMAIN w /\ w[6 + i - 1] = f[i]
  BY <1>f DEF Esta
<1>3. l \div 2 = n
  BY <1>n
<1>4. ASSUME NEW i \in 1 .. n
      PROVE  Trecho(w, 4 + 2 * i, 2) = ind[i]
  <2>1. 2 * (i - 1) + 1 \in 1 .. Len(f) /\ 2 * (i - 1) + 2 \in 1 .. Len(f)
    BY <1>1, <1>n
  <2>2. /\ 6 + (2 * (i - 1) + 1) - 1 = 4 + 2 * i + 1 - 1
        /\ 6 + (2 * (i - 1) + 2) - 1 = 4 + 2 * i + 2 - 1
    BY <1>n
  <2>3. /\ 4 + 2 * i + 1 - 1 \in DOMAIN w /\ w[4 + 2 * i + 1 - 1] = f[2 * (i - 1) + 1]
        /\ 4 + 2 * i + 2 - 1 \in DOMAIN w /\ w[4 + 2 * i + 2 - 1] = f[2 * (i - 1) + 2]
    BY <1>2, <2>1, <2>2
  <2>4. Campo(w, 4 + 2 * i + 1 - 1) = ind[i][1] /\ Campo(w, 4 + 2 * i + 2 - 1) = ind[i][2]
    BY <2>3, <1>1 DEF Campo
  <2>5. ind[i] \in Nat \X Nat
    BY <1>n
  <2>6. PICK x, y : ind[i] = <<x, y>>
    BY <2>5
  <2>7. Trecho(w, 4 + 2 * i, 2) = [j \in 1 .. 2 |-> <<x, y>>[j]]
    <3>1. ASSUME NEW j \in 1 .. 2
          PROVE  Campo(w, 4 + 2 * i + j - 1) = <<x, y>>[j]
      <4>1. CASE j = 1
        BY <2>4, <2>6, <4>1
      <4>2. CASE j = 2
        BY <2>4, <2>6, <4>2
      <4> QED  BY <4>1, <4>2
    <3> QED  BY <3>1 DEF Trecho
  <2>8. [j \in 1 .. 2 |-> <<x, y>>[j]] = <<x, y>>
    OBVIOUS
  <2> QED  BY <2>6, <2>7, <2>8
<1>5. ind = [i \in 1 .. n |-> ind[i]]
  BY <1>n
<1> QED  BY <1>3, <1>4, <1>5

\* Where each piece of a PCB is written, and how much is sent
Escrito(p, w) ==
  /\ w = PCB_cerealV2(p) /\ w \in Seq(Palabra)
  /\ Len(w) = tamanio_total_buffer(p)

Partes(p, w) ==
  LET i == 5 + 2 * Len(p.indice_de_codigo)
      e == i + 1 + Len(p.lista_de_etiquetas)
      s == e + 1 + Len(p.estado)
  IN  /\ Esta(<<p.pid, p.page_counter, p.program_counter, p.cantidad_de_instrucciones,
                2 * p.cantidad_de_instrucciones>>, w, 1)
      /\ Esta(FlattenSeq(p.indice_de_codigo), w, 6)
      /\ Esta(<<Len(p.lista_de_etiquetas)>>, w, i + 1)
      /\ Esta(p.lista_de_etiquetas, w, i + 2)
      /\ Esta(<<Len(p.estado)>>, w, e + 1)
      /\ Esta(p.estado, w, e + 2)
      /\ Esta(<<p.exit_code, p.primerPaginaStack, p.stackPointer, p.tamanioStack,
                Len(p.stack_index)>>, w, s + 1)
      /\ Esta(FlattenSeq(Tramas(p.stack_index)), w, s + 6)

LEMMA PcbEscrito ==
  ASSUME NEW p \in Pcbs
  PROVE  Escrito(p, PCB_cerealV2(p)) /\ Partes(p, PCB_cerealV2(p))
<1>i. PICK ind : ind = p.indice_de_codigo
  OBVIOUS
<1>t. PICK et : et = p.lista_de_etiquetas
  OBVIOUS
<1>o. PICK es : es = p.estado
  OBVIOUS
<1>k. PICK si : si = p.stack_index
  OBVIOUS
<1>0. /\ ind \in Seq(Nat \X Nat) /\ et \in Seq(Range(Etiquetas)) /\ es \in Seq({"Exec"})
      /\ si \in Seq(Registro) /\ p.cantidad_de_instrucciones = Len(ind)
  BY <1>i, <1>t, <1>o, <1>k DEF Pcbs
<1>A. PICK a : a = <<p.pid, p.page_counter, p.program_counter, p.cantidad_de_instrucciones,
                     2 * p.cantidad_de_instrucciones>>
  OBVIOUS
<1>I. PICK f : f = FlattenSeq(ind)
  OBVIOUS
<1>L. PICK le : le = <<Len(et)>>
  OBVIOUS
<1>M. PICK ls : ls = <<Len(es)>>
  OBVIOUS
<1>B. PICK b : b = <<p.exit_code, p.primerPaginaStack, p.stackPointer, p.tamanioStack, Len(si)>>
  OBVIOUS
<1>F. PICK g : g = FlattenSeq(Tramas(si))
  OBVIOUS
<1>1. /\ Len(ind) \in Nat /\ Len(et) \in Nat /\ Len(es) \in Nat /\ Len(si) \in Nat
      /\ et \in Seq(Palabra) /\ es \in Seq(Palabra)
  BY <1>0 DEF Palabra
<1>2. a \in Seq(Palabra) /\ Len(a) = 5
  <2>1. /\ p.pid \in Palabra /\ p.page_counter \in Palabra /\ p.program_counter \in Palabra
        /\ p.cantidad_de_instrucciones \in Palabra /\ 2 * p.cantidad_de_instrucciones \in Palabra
    <3>1. /\ p.pid \in Pids /\ p.page_counter \in Int /\ p.program_counter \in Posiciones
          /\ p.cantidad_de_instrucciones \in Nat
      BY DEF Pcbs
    <3>2. p.program_counter \in Int
      <4>1. Posiciones \subseteq Nat
        BY PilaAssumption
      <4>2. p.program_counter \in Nat
        BY <3>1, <4>1, Zenon
      <4> QED  BY <4>2
    <3>3. p.cantidad_de_instrucciones \in Int /\ 2 * p.cantidad_de_instrucciones \in Int
      BY <3>1
    <3> QED  BY <3>1, <3>2, <3>3 DEF Palabra
  <2> QED  BY <1>A, <2>1
<1>3. f \in Seq(Palabra) /\ Len(f) = 2 * Len(ind)
  BY <1>0, <1>I, IndiceEscrito DEF Indice
<1>4. le \in Seq(Palabra) /\ Len(le) = 1
  <2>1. Len(et) \in Palabra
    BY <1>1 DEF Palabra
  <2> QED  BY <2>1, <1>L
<1>5. ls \in Seq(Palabra) /\ Len(ls) = 1
  <2>1. Len(es) \in Palabra
    BY <1>1 DEF Palabra
  <2> QED  BY <2>1, <1>M
<1>6. b \in Seq(Palabra) /\ Len(b) = 5
  <2>1. /\ p.exit_code \in Palabra /\ p.primerPaginaStack \in Palabra
        /\ p.stackPointer \in Palabra /\ p.tamanioStack \in Palabra /\ Len(si) \in Palabra
    BY <1>1 DEF Pcbs, Palabra
  <2> QED  BY <1>B, <2>1
<1>7. g \in Seq(Palabra)
  <2>1. Tramas(si) \in Seq(Seq(Palabra))
    BY <1>0, TramasEscritas
  <2> QED  BY <2>1, <1>F, EnHilera
<1>a. PICK c1 : c1 = a \o f
  OBVIOUS
<1>b. PICK c2 : c2 = c1 \o le
  OBVIOUS
<1>c. PICK c3 : c3 = c2 \o et
  OBVIOUS
<1>d. PICK c4 : c4 = c3 \o ls
  OBVIOUS
<1>e. PICK c5 : c5 = c4 \o es
  OBVIOUS
<1>f. PICK c6 : c6 = c5 \o b
  OBVIOUS
<1>g. PICK w : w = c6 \o g
  OBVIOUS
<1>8. c1 \in Seq(Palabra) /\ Len(c1) = Len(a) + Len(f)
  BY <1>2, <1>3, <1>a, Sumadas
<1>9. c2 \in Seq(Palabra) /\ Len(c2) = Len(c1) + Len(le)
  BY <1>8, <1>4, <1>b, Sumadas
<1>10. c3 \in Seq(Palabra) /\ Len(c3) = Len(c2) + Len(et)
  BY <1>9, <1>1, <1>c, Sumadas
<1>11. c4 \in Seq(Palabra) /\ Len(c4) = Len(c3) + Len(ls)
  BY <1>10, <1>5, <1>d, Sumadas
<1>12. c5 \in Seq(Palabra) /\ Len(c5) = Len(c4) + Len(es)
  BY <1>11, <1>1, <1>e, Sumadas
<1>13. c6 \in Seq(Palabra) /\ Len(c6) = Len(c5) + Len(b)
  BY <1>12, <1>6, <1>f, Sumadas
<1>14. w \in Seq(Palabra) /\ Len(w) = Len(c6) + Len(g)
  BY <1>13, <1>7, <1>g, Sumadas
<1>15. w = PCB_cerealV2(p)
  <2>1. g = FlattenSeq([k \in DOMAIN p.stack_index |-> serializarElestacV2(p.stack_index[k])])
    BY <1>F, <1>k DEF Tramas
  <2> HIDE DEF PCB_cerealV2
  <2>2. w = a \o f \o le \o et \o ls \o es \o b \o g
    BY <1>a, <1>b, <1>c, <1>d, <1>e, <1>f, <1>g
  <2> QED  BY <2>1, <2>2, <1>A, <1>B, <1>I, <1>L, <1>M, <1>i, <1>t, <1>o, <1>k, Zenon DEF PCB_cerealV2
<1>16. Len(w) = tamanio_total_buffer(p)
  <2>1. tamanio_total_buffer(p)
          = 8 + 2 * p.cantidad_de_instrucciones + Len(p.lista_de_etiquetas) + Len(p.estado) + 4
              + Len(FlattenSeq(Tramas(p.stack_index)))
    BY <1>0, <1>k, TamanioTotal
  <2>2. tamanio_total_buffer(p) = 8 + 2 * Len(ind) + Len(et) + Len(es) + 4 + Len(g)
    BY <2>1, <1>0, <1>i, <1>t, <1>o, <1>k, <1>F
  <2>n. PICK x, y, z, u : /\ x = Len(ind) /\ y = Len(et) /\ z = Len(es) /\ u = Len(g)
                          /\ x \in Nat /\ y \in Nat /\ z \in Nat /\ u \in Nat
    <3>1. Len(g) \in Nat
      BY <1>7
    <3>2. \E x, y, z, u : /\ x = Len(ind) /\ y = Len(et) /\ z = Len(es) /\ u = Len(g)
      OBVIOUS
    <3> QED  BY <1>1, <3>1, <3>2
  <2>3. Len(w) = 5 + 2 * x + 1 + y + 1 + z + 5 + u
    BY <1>2, <1>3, <1>4, <1>5, <1>6, <1>8, <1>9, <1>10, <1>11, <1>12, <1>13, <1>14, <2>n
  <2>4. tamanio_total_buffer(p) = 8 + 2 * x + y + z + 4 + u
    BY <2>2, <2>n
  <2> QED  BY <2>3, <2>4, <2>n
<1>17. Esta(w, w, 1)
  BY <1>14, EstaEntera
<1>18. Esta(c6, w, 1) /\ Esta(g, w, 1 + Len(c6))
  BY <1>17, <1>13, <1>7, <1>g, EstaPartida
<1>19. Esta(c5, w, 1) /\ Esta(b, w, 1 + Len(c5))
  BY <1>18, <1>12, <1>6, <1>f, EstaPartida
<1>20. Esta(c4, w, 1) /\ Esta(es, w, 1 + Len(c4))
  BY <1>19, <1>11, <1>1, <1>e, EstaPartida
<1>21. Esta(c3, w, 1) /\ Esta(ls, w, 1 + Len(c3))
  BY <1>20, <1>10, <1>5, <1>d, EstaPartida
<1>22. Esta(c2, w, 1) /\ Esta(et, w, 1 + Len(c2))
  BY <1>21, <1>9, <1>1, <1>c, EstaPartida
<1>23. Esta(c1, w, 1) /\ Esta(le, w, 1 + Len(c1))
  BY <1>22, <1>8, <1>4, <1>b, EstaPartida
<1>24. Esta(a, w, 1) /\ Esta(f, w, 1 + Len(a))
  BY <1>23, <1>2, <1>3, <1>a, EstaPartida
<1>25. Partes(p, w)
  <2>n. PICK x, y, z : /\ x = Len(ind) /\ y = Len(et) /\ z = Len(es)
                       /\ x \in Nat /\ y \in Nat /\ z \in Nat
    BY <1>1
  <2>1. Len(a) = 5 /\ Len(c1) = 5 + 2 * x
    BY <1>2, <1>3, <1>8, <2>n
  <2>2. Len(c2) = 5 + 2 * x + 1
    BY <2>1, <1>4, <1>9, <2>n
  <2>3. Len(c3) = 5 + 2 * x + 1 + y
    BY <2>2, <1>10, <2>n
  <2>4. Len(c4) = 5 + 2 * x + 1 + y + 1
    BY <2>3, <1>5, <1>11, <2>n
  <2>5. Len(c5) = 5 + 2 * x + 1 + y + 1 + z
    BY <2>4, <1>12, <2>n
  <2>6. Len(c6) = 5 + 2 * x + 1 + y + 1 + z + 5
    BY <2>5, <1>6, <1>13, <2>n
  <2>7. /\ 1 + Len(a) = 6 /\ 1 + Len(c1) = 5 + 2 * x + 1 /\ 1 + Len(c2) = 5 + 2 * x + 2
        /\ 1 + Len(c3) = 5 + 2 * x + 1 + y + 1 /\ 1 + Len(c4) = 5 + 2 * x + 1 + y + 2
    BY <2>1, <2>2, <2>3, <2>4, <2>n
  <2>8. /\ 1 + Len(c5) = 5 + 2 * x + 1 + y + 1 + z + 1
        /\ 1 + Len(c6) = 5 + 2 * x + 1 + y + 1 + z + 6
    BY <2>5, <2>6, <2>n
  <2>9. /\ Esta(f, w, 6) /\ Esta(le, w, 5 + 2 * x + 1) /\ Esta(et, w, 5 + 2 * x + 2)
        /\ Esta(ls, w, 5 + 2 * x + 1 + y + 1) /\ Esta(es, w, 5 + 2 * x + 1 + y + 2)
    BY <2>7, <1>24, <1>23, <1>22, <1>21, <1>20
  <2>10. Esta(b, w, 5 + 2 * x + 1 + y + 1 + z + 1) /\ Esta(g, w, 5 + 2 * x + 1 + y + 1 + z + 6)
    BY <2>8, <1>19, <1>18
  <2>11. /\ x = Len(p.indice_de_codigo) /\ y = Len(p.lista_de_etiquetas) /\ z = Len(p.estado)
         /\ f = FlattenSeq(p.indice_de_codigo) /\ g = FlattenSeq(Tramas(p.stack_index))
         /\ le = <<Len(p.lista_de_etiquetas)>> /\ ls = <<Len(p.estado)>>
         /\ b = <<p.exit_code, p.primerPaginaStack, p.stackPointer, p.tamanioStack,
                  Len(p.stack_index)>>
         /\ et = p.lista_de_etiquetas /\ es = p.estado
    BY <1>i, <1>t, <1>o, <1>k, <1>I, <1>F, <1>L, <1>M, <1>B, <2>n
  <2> HIDE DEF Esta
  <2> QED  BY <2>9, <2>10, <2>11, <1>24, <1>A DEF Partes
<1> QED  BY <1>14, <1>15, <1>16, <1>25 DEF Escrito

\* A PCB arrives as it was sent: what one end writes without names, with its lengths
\* before its lists, the other reads field by field into the same PCB.
THEOREM IdaYVuelta ==
  \A p \in Pcbs : recibirPCBV2(send_PCBV2(p)).pcb = p
<1> SUFFICES ASSUME NEW p \in Pcbs
             PROVE  recibirPCBV2(send_PCBV2(p)).pcb = p
  OBVIOUS
<1>w. PICK w : w = PCB_cerealV2(p)
  OBVIOUS
<1>i. PICK ind : ind = p.indice_de_codigo
  OBVIOUS
<1>t. PICK et : et = p.lista_de_etiquetas
  OBVIOUS
<1>o. PICK es : es = p.estado
  OBVIOUS
<1>k. PICK si : si = p.stack_index
  OBVIOUS
<1>0. /\ ind \in Seq(Nat \X Nat) /\ et \in Seq(Range(Etiquetas)) /\ es \in Seq({"Exec"})
      /\ si \in Seq(Registro) /\ p.cantidad_de_instrucciones = Len(ind)
  BY <1>i, <1>t, <1>o, <1>k DEF Pcbs
<1>1. Escrito(p, w) /\ Partes(p, w)
  BY <1>w, PcbEscrito
<1>2. send_PCBV2(p) = w
  <2>1. send_PCBV2(p) = SubSeq(w, 1, Len(w)) /\ w \in Seq(Palabra)
    BY <1>1, <1>w DEF Escrito, send_PCBV2
  <2> QED  BY <2>1
<1>n. PICK x, y, z, u : x = Len(ind) /\ y = Len(et) /\ z = Len(es) /\ u = Len(si)
  OBVIOUS
<1>3. x \in Nat /\ y \in Nat /\ z \in Nat /\ u \in Nat
  BY <1>0, <1>n
<1>A. PICK a : a = <<p.pid, p.page_counter, p.program_counter, x, 2 * x>>
  OBVIOUS
<1>B. PICK b : b = <<p.exit_code, p.primerPaginaStack, p.stackPointer, p.tamanioStack, u>>
  OBVIOUS
<1>e. PICK e : e = 5 + 2 * x + 1
  OBVIOUS
<1>s. PICK s : s = 5 + 2 * x + 1 + y + 1
  OBVIOUS
<1>f. PICK m : m = 5 + 2 * x + 1 + y + 1 + z + 1
  OBVIOUS
<1>4. e \in Nat /\ s \in Nat /\ m \in Nat
  BY <1>3, <1>e, <1>s, <1>f
<1>5. /\ Esta(a, w, 1) /\ Esta(FlattenSeq(ind), w, 6) /\ Esta(<<y>>, w, e) /\ Esta(et, w, e + 1)
      /\ Esta(<<z>>, w, s) /\ Esta(es, w, s + 1) /\ Esta(b, w, m)
      /\ Esta(FlattenSeq(Tramas(si)), w, m + 5)
  <2>1. /\ 5 + 2 * x + 2 = e + 1 /\ 5 + 2 * x + 1 + y + 2 = s + 1
        /\ 5 + 2 * x + 1 + y + 1 + z + 6 = m + 5
    BY <1>3, <1>e, <1>s, <1>f
  <2>2. /\ Esta(a, w, 1) /\ Esta(FlattenSeq(ind), w, 6) /\ Esta(<<y>>, w, 5 + 2 * x + 1)
        /\ Esta(et, w, 5 + 2 * x + 2) /\ Esta(<<z>>, w, 5 + 2 * x + 1 + y + 1)
        /\ Esta(es, w, 5 + 2 * x + 1 + y + 2) /\ Esta(b, w, 5 + 2 * x + 1 + y + 1 + z + 1)
        /\ Esta(FlattenSeq(Tramas(si)), w, 5 + 2 * x + 1 + y + 1 + z + 6)
    <3>1. Partes(p, w)
      BY <1>1
    <3> QED  BY <3>1, <1>0, <1>i, <1>t, <1>o, <1>k, <1>n, <1>A, <1>B DEF Partes
  <2> QED  BY <2>1, <2>2, <1>e, <1>s, <1>f
<1>6. /\ Campo(w, 1) = p.pid /\ Campo(w, 2) = p.page_counter /\ Campo(w, 3) = p.program_counter
      /\ Campo(w, 4) = p.cantidad_de_instrucciones /\ Campo(w, 5) = 2 * x
  <2>1. \A i \in 1 .. 5 : i \in DOMAIN w /\ w[i] = a[i]
    <3>1. \A i \in 1 .. Len(a) : 1 + i - 1 \in DOMAIN w /\ w[1 + i - 1] = a[i]
      BY <1>5 DEF Esta
    <3>2. Len(a) = 5
      BY <1>A
    <3>3. \A i \in 1 .. 5 : 1 + i - 1 = i
      OBVIOUS
    <3> QED  BY <3>1, <3>2, <3>3
  <2>2. \A i \in 1 .. 5 : Campo(w, i) = a[i]
    BY <2>1 DEF Campo
  <2>3. /\ Campo(w, 1) = a[1] /\ Campo(w, 2) = a[2] /\ Campo(w, 3) = a[3]
        /\ Campo(w, 4) = a[4] /\ Campo(w, 5) = a[5]
    BY <2>2
  <2> QED  BY <2>3, <1>A, <1>0, <1>n
<1>7. Largo(w, 5) = 2 * x
  <2>1. 2 * x # Falta
    BY <1>3, CpuAssumption
  <2>2. 5 \in DOMAIN w
    <3>1. Len(a) = 5
      BY <1>A
    <3>2. 5 \in 1 .. Len(a) /\ 1 + 5 - 1 = 5
      BY <3>1
    <3> QED  BY <3>2, <1>5 DEF Esta
  <2> QED  BY <2>1, <2>2, <1>6 DEF Largo, Campo
<1>8. [i \in 1 .. Largo(w, 5) \div 2 |-> Trecho(w, 4 + 2 * i, 2)] = ind
  BY <1>0, <1>5, <1>7, <1>n, IndiceLeido
<1>9. Largo(w, e) = y
  BY <1>3, <1>4, <1>5, LargoLeido
<1>10. Trecho(w, e + 1, y) = et
  BY <1>0, <1>4, <1>5, <1>n, TrechoLeido
<1>11. Largo(w, s) = z
  BY <1>3, <1>4, <1>5, LargoLeido
<1>12. Trecho(w, s + 1, z) = es
  BY <1>0, <1>4, <1>5, <1>n, TrechoLeido
<1>13. /\ Campo(w, m) = p.exit_code /\ Campo(w, m + 1) = p.primerPaginaStack
       /\ Campo(w, m + 2) = p.stackPointer /\ Campo(w, m + 3) = p.tamanioStack
       /\ Campo(w, m + 4) = u /\ m + 4 \in DOMAIN w
  <2>1. \A i \in 1 .. 5 : m + i - 1 \in DOMAIN w /\ w[m + i - 1] = b[i]
    <3>1. \A i \in 1 .. Len(b) : m + i - 1 \in DOMAIN w /\ w[m + i - 1] = b[i]
      BY <1>5 DEF Esta
    <3>2. Len(b) = 5
      BY <1>B
    <3> QED  BY <3>1, <3>2
  <2>2. \A i \in 1 .. 5 : Campo(w, m + i - 1) = b[i]
    BY <2>1 DEF Campo
  <2>3. /\ m + 1 - 1 = m /\ m + 2 - 1 = m + 1 /\ m + 3 - 1 = m + 2 /\ m + 4 - 1 = m + 3
        /\ m + 5 - 1 = m + 4
    BY <1>4
  <2>4. /\ Campo(w, m + 1 - 1) = b[1] /\ Campo(w, m + 2 - 1) = b[2] /\ Campo(w, m + 3 - 1) = b[3]
        /\ Campo(w, m + 4 - 1) = b[4] /\ Campo(w, m + 5 - 1) = b[5] /\ m + 5 - 1 \in DOMAIN w
    BY <2>2, <2>1
  <2> QED  BY <2>3, <2>4, <1>B
<1>14. Largo(w, m + 4) = u
  <2>1. u # Falta
    BY <1>3, CpuAssumption
  <2> QED  BY <2>1, <1>13 DEF Largo, Campo
<1>15. LeerRegistros(w, m + 5, u).registros = si
  <2>1. m + 5 \in Nat
    BY <1>4
  <2> QED  BY <2>1, <1>0, <1>5, <1>n, StackLeido
<1>16. recibirPCBV2(w).pcb
         = [pid |-> p.pid, page_counter |-> p.page_counter, program_counter |-> p.program_counter,
            cantidad_de_instrucciones |-> p.cantidad_de_instrucciones, indice_de_codigo |-> ind,
            lista_de_etiquetas |-> et, estado |-> es, exit_code |-> p.exit_code,
            primerPaginaStack |-> p.primerPaginaStack, stackPointer |-> p.stackPointer,
            tamanioStack |-> p.tamanioStack, stack_index |-> si]
  <2>1. 6 + Largo(w, 5) = e
    BY <1>7, <1>e, <1>3
  <2>2. e + 1 + Largo(w, e) = s
    BY <1>9, <1>e, <1>s, <1>3
  <2>3. s + 1 + Largo(w, s) = m
    BY <1>11, <1>s, <1>f, <1>3
  <2> DEFINE R == [pid |-> Campo(w, 1), page_counter |-> Campo(w, 2),
                   program_counter |-> Campo(w, 3), cantidad_de_instrucciones |-> Campo(w, 4),
                   indice_de_codigo |-> [i \in 1 .. Largo(w, 5) \div 2 |-> Trecho(w, 4 + 2 * i, 2)],
                   lista_de_etiquetas |-> Trecho(w, e + 1, Largo(w, e)),
                   estado |-> Trecho(w, s + 1, Largo(w, s)),
                   exit_code |-> Campo(w, m), primerPaginaStack |-> Campo(w, m + 1),
                   stackPointer |-> Campo(w, m + 2), tamanioStack |-> Campo(w, m + 3),
                   stack_index |-> LeerRegistros(w, m + 5, Largo(w, m + 4)).registros]
  <2>4. recibirPCBV2(w) = [pcb |-> R, leidos |-> LeerRegistros(w, m + 5, Largo(w, m + 4)).sigue - 1]
    BY <2>1, <2>2, <2>3, Zenon DEF recibirPCBV2
  <2>5. recibirPCBV2(w).pcb = R
    <3> HIDE DEF R
    <3> QED  BY <2>4
  <2> QED  BY <2>5, <1>6, <1>8, <1>9, <1>10, <1>11, <1>12, <1>13, <1>14, <1>15, Zenon
<1>17. p = [pid |-> p.pid, page_counter |-> p.page_counter, program_counter |-> p.program_counter,
            cantidad_de_instrucciones |-> p.cantidad_de_instrucciones,
            indice_de_codigo |-> p.indice_de_codigo, lista_de_etiquetas |-> p.lista_de_etiquetas,
            estado |-> p.estado, exit_code |-> p.exit_code,
            primerPaginaStack |-> p.primerPaginaStack, stackPointer |-> p.stackPointer,
            tamanioStack |-> p.tamanioStack, stack_index |-> p.stack_index]
  BY DEF Pcbs
<1> QED  BY <1>2, <1>16, <1>17, <1>i, <1>t, <1>o, <1>k
-----------------------------------------------------------------------------
(* The inductive invariant *)

\* What travels to the CPU
Mensaje ==
  [tipo : {"despacho"}, quantum : Int, pcb : Seq(Palabra)]
    \cup [tipo : {"respuesta"}, op : Pedidos, valor : Int, extra : Int]

Parada == cpu \in {"ociosa", "muerta"}

Tipos == TypeOK /\ IInv /\ aCpu \in Seq(Mensaje)

\* The end of a burst, on its way: the PCB is the one the CPU still has
Vuelta ==
  /\ nuevaPCB # Nada
  /\ \/ aKernel = <<Devuelve(10, Actual)>>
     \/ aKernel = <<Devuelve(13, Actual)>> /\ "programaTerminado" \notin banderas
     \/ aKernel = <<DevuelveConError(-5, Actual)>>
     \/ aKernel = <<DevuelveConError(-17, Actual)>>

\* Nothing, or another process, is what comes next
Cabeza(s) == s = <<>> \/ s[1].tipo = "despacho"

\* What is on the connection, by what the CPU does.  The CPU has one request made at the
\* most, and an answer is of the request it waits for.
Charla ==
  /\ cpu = "ejecutando" => aKernel = <<>> /\ Cabeza(aCpu)
  /\ cpu = "recv" =>
       /\ esperado \in Pedidos
       /\ \/ aKernel = <<Pedido(esperado)>> /\ Cabeza(aCpu)
          \/ aKernel = <<>> /\ aCpu # <<>> /\ aCpu[1].tipo = "despacho"
          \/ /\ aKernel = <<>> /\ aCpu # <<>> /\ aCpu[1].tipo = "respuesta"
             /\ aCpu[1].op = esperado /\ Cabeza(Tail(aCpu))
  /\ cpu = "colgada" =>
       aKernel = <<>> \/ \E op \in Pedidos \ {"wait"} : aKernel = <<Pedido(op)>>
  /\ Parada => aKernel = <<>> \/ Vuelta
  /\ kernel = "cerrada" => cpu = "muerta" /\ aKernel = <<>> /\ aCpu = <<>>

Abortado == "procesoAbortado" \in banderas

\* The flags, and how far the line goes on after each
Marcas ==
  /\ primitivas = MaxPrimitivas /\ cpu = "ejecutando" => banderas = {}
  /\ "programaTerminado" \in banderas =>
       banderas = {"programaTerminado"} /\ primitivas = 0 /\ cpu # "recv"
  /\ "procesoBloqueado" \in banderas =>
       banderas = {"procesoBloqueado"} /\ primitivas = 0 /\ cpu # "recv"
  /\ cpu = "recv" =>
       /\ primitivas < MaxPrimitivas
       /\ primitivas = 0 \/ esperado = "obtenerValorCompartida"
       /\ esperado = "wait" => banderas = {} /\ rarezas = {}

\* The next process begins with an empty stack, or with the one the CPU still has
Fresca == pcbKernel.stack_index = <<>> /\ pcbKernel.stackPointer = 0
Continua ==
  /\ Parada
  /\ pcbKernel.stack_index = stack_index /\ pcbKernel.stackPointer = stackPointer
  /\ stack_index = <<>> => stackPointer = 0
Retoma ==
  /\ kernel \in {"libre", "cerrada"} => Fresca \/ Continua
  /\ nuevaPCB # Nada /\ stack_index = <<>> /\ "programaTerminado" \notin banderas => stackPointer = 0

SinNada == aCpu = <<>> /\ aKernel = <<>>
EnViaje == aCpu = <<Despacho(el_quantum, pcbKernel)>> /\ aKernel = <<>>
Mismo == nuevaPCB # Nada /\ nuevaPCB.pid = pcbKernel.pid

FaseParada ==
  \/ kernel = "libre" /\ SinNada /\ (Mismo => pcbKernel = Actual)
  \/ kernel = "ejecuta" /\ EnViaje /\ (Fresca \/ Continua)
  \/ kernel = "ejecuta" /\ aCpu = <<>> /\ Vuelta /\ Mismo
  \/ kernel = "bloquea" /\ aCpu = <<>> /\ nuevaPCB # Nada /\ aKernel = <<Devuelve(10, Actual)>>
  \/ kernel = "ejecuta" /\ SinNada /\ cpu = "muerta"
  \/ kernel = "cerrada"

FaseEjecutando ==
  \/ kernel = "ejecuta" /\ SinNada /\ ~Abortado /\ "procesoBloqueado" \notin banderas
       /\ nuevaPCB = pcbKernel
  \/ kernel = "libre" /\ SinNada /\ Abortado /\ ~Mismo
  \/ kernel = "ejecuta" /\ EnViaje /\ Abortado /\ ~Mismo /\ Fresca
  \/ kernel = "bloquea" /\ SinNada /\ banderas = {"procesoBloqueado"}

FaseRecv ==
  \/ kernel = "ejecuta" /\ aCpu = <<>> /\ aKernel = <<Pedido(esperado)>> /\ ~Abortado
       /\ nuevaPCB = pcbKernel
  \/ /\ kernel = "ejecuta" /\ aKernel = <<>> /\ ~Abortado /\ nuevaPCB = pcbKernel
     /\ aCpu = <<Respuesta(esperado, 1, 0)>>
  \/ kernel = "libre" /\ aKernel = <<>> /\ aCpu = <<Respuesta(esperado, -1, 0)>> /\ ~Mismo
  \/ /\ kernel = "ejecuta" /\ aKernel = <<>> /\ ~Mismo /\ Fresca
     /\ aCpu = <<Respuesta(esperado, -1, 0), Despacho(el_quantum, pcbKernel)>>
  \/ /\ kernel = "bloquea" /\ aKernel = <<>> /\ banderas = {} /\ esperado = "wait"
     /\ aCpu = <<Respuesta(esperado, 1, -1)>>

\* While nothing strange has happened: who has the process, and where it is
Fases ==
  rarezas = {} =>
    /\ ~desfasada /\ kernel # "varada"
    /\ Parada => FaseParada
    /\ cpu = "ejecutando" => FaseEjecutando
    /\ cpu = "recv" => FaseRecv
    /\ cpu = "colgada" => kernel = "ejecuta" /\ SinNada /\ nuevaPCB = pcbKernel

\* A process whose file was not deleted is executed as if it had been aborted
Rechazado ==
  /\ kernel = "ejecuta" /\ aKernel = <<>> /\ esperado = "borrar"
  /\ aCpu = <<Respuesta("borrar", -2, 0)>>

\* Once something strange has happened: the line ends, and only two of the things that
\* can happen put the ends out of step
Rarezas ==
  /\ rarezas # {} /\ cpu = "ejecutando" => Abortado
  /\ rarezas # {} /\ cpu = "recv" => Abortado \/ Rechazado
  /\ rarezas # {} /\ rarezas \cap Desfases = {} =>
       /\ ~desfasada /\ kernel \notin {"varada", "bloquea"} /\ cpu # "colgada"
       /\ cpu = "recv" => Rechazado
  /\ desfasada => cpu = "colgada" \/ kernel = "varada"

\* A WAIT that blocks: from its answer to its PCB
Bloqueo ==
  kernel = "bloquea" =>
    /\ aCpu = <<>> \/ cpu = "recv"
    /\ \/ /\ cpu = "recv" /\ banderas = {} /\ esperado = "wait"
          /\ aCpu = <<Respuesta("wait", 1, -1)>> /\ aKernel = <<>>
       \/ cpu = "ejecutando" /\ banderas = {"procesoBloqueado"} /\ aKernel = <<>>
       \/ Parada /\ Vuelta /\ "programaTerminado" \notin banderas

IInvCpu == Tipos /\ Charla /\ Marcas /\ Retoma /\ Fases /\ Rarezas /\ Bloqueo

-----------------------------------------------------------------------------
(* What a step finds *)

LEMMA ActualEsPcb ==
  ASSUME Tipos, nuevaPCB # Nada
  PROVE  /\ Actual \in Pcbs /\ Actual.pid = nuevaPCB.pid /\ Actual.stack_index = stack_index
         /\ Actual.stackPointer = stackPointer
<1>1. /\ nuevaPCB \in Pcbs /\ program_counter \in Posiciones /\ stackPointer \in Nat
      /\ stack_index \in Seq(Registro)
  BY DEF Tipos, TypeOK, TypeOKPila
<1>2. stackPointer \in Int
  BY <1>1
<1> HIDE DEF Registro
<1> QED  BY <1>1, <1>2 DEF Actual, Pcbs

LEMMA ActualIgual ==
  ASSUME nuevaPCB' = nuevaPCB, program_counter' = program_counter,
         stackPointer' = stackPointer, stack_index' = stack_index
  PROVE  Actual' = Actual
BY DEF Actual

LEMMA NuevoEsPcb ==
  ASSUME NEW p \in Pids
  PROVE  /\ create_PCB(p) \in Pcbs /\ create_PCB(p).pid = p
         /\ create_PCB(p).stack_index = <<>> /\ create_PCB(p).stackPointer = 0
<1>1. /\ primerPaginaStack \in Nat /\ tamanioStack \in Nat /\ 0 \in Posiciones
      /\ indice_de_codigo \in Seq(Nat \X Nat) /\ Etiquetas \in Seq(Range(Etiquetas))
  BY PilaAssumption, CpuAssumption
<1>2. /\ primerPaginaStack + tamanioStack \in Int /\ primerPaginaStack \in Int
      /\ tamanioStack \in Int /\ 0 \in Int
  BY <1>1
<1>3. Len(indice_de_codigo) \in Nat
  BY <1>1
<1>4. <<"Exec">> \in Seq({"Exec"}) /\ <<>> \in Seq(Registro)
  OBVIOUS
<1> QED  BY <1>1, <1>2, <1>3, <1>4 DEF create_PCB, Pcbs, cantidad_de_instrucciones

LEMMA SiguienteEsOtro ==
  ASSUME NEW p \in Pids
  PROVE  Siguiente(p) \in Pids /\ Siguiente(p) # p
<1>1. \E q \in Pids : q # p
  BY CpuAssumption
<1>2. \E q \in Pids : q # p \/ Pids = {p}
  BY <1>1
<1>3. Pids # {p}
  BY CpuAssumption
<1> QED  BY <1>2, <1>3 DEF Siguiente

LEMMA OtroProceso ==
  ASSUME Tipos
  PROVE  LET p == create_PCB(Siguiente(pcbKernel.pid))
         IN  /\ p \in Pcbs /\ p.pid # pcbKernel.pid
             /\ p.stack_index = <<>> /\ p.stackPointer = 0
<1>1. pcbKernel.pid \in Pids
  BY DEF Tipos, TypeOK, Pcbs
<1> QED  BY <1>1, SiguienteEsOtro, NuevoEsPcb

LEMMA DespachoEs ==
  ASSUME NEW q \in Int, NEW p \in Pcbs
  PROVE  /\ Despacho(q, p) \in Mensaje /\ Despacho(q, p).tipo = "despacho"
         /\ Despacho(q, p).quantum = q /\ recibirPCBV2(Despacho(q, p).pcb).pcb = p
<1>1. send_PCBV2(p) \in Seq(Palabra)
  <2>1. PICK w : w = PCB_cerealV2(p)
    OBVIOUS
  <2>2. w \in Seq(Palabra) /\ Len(w) = tamanio_total_buffer(p)
    BY <2>1, PcbEscrito DEF Escrito
  <2>3. send_PCBV2(p) = SubSeq(w, 1, Len(w))
    BY <2>1, <2>2 DEF send_PCBV2
  <2> QED  BY <2>2, <2>3
<1>2. recibirPCBV2(send_PCBV2(p)).pcb = p
  BY IdaYVuelta
<1> HIDE DEF Palabra
<1> QED  BY <1>1, <1>2 DEF Despacho, Mensaje

LEMMA RespuestaEs ==
  ASSUME NEW op \in Pedidos, NEW v \in Int, NEW x \in Int
  PROVE  /\ Respuesta(op, v, x) \in Mensaje /\ Respuesta(op, v, x).tipo = "respuesta"
         /\ Respuesta(op, v, x).op = op /\ Respuesta(op, v, x).valor = v
         /\ Respuesta(op, v, x).extra = x
BY DEF Respuesta, Mensaje

LEMMA PedidoEs ==
  ASSUME NEW op
  PROVE  Pedido(op).tipo = "pedido" /\ Pedido(op).op = op
BY DEF Pedido

LEMMA DevuelveEs ==
  ASSUME NEW c, NEW p
  PROVE  /\ Devuelve(c, p).tipo = "pcb" /\ Devuelve(c, p).codigo = c
         /\ Devuelve(c, p).pcb = send_PCBV2(p)
         /\ DevuelveConError(c, p).tipo = "error"
BY DEF Devuelve, DevuelveConError

\* What adding a message and taking the first one do
LEMMA Colas ==
  ASSUME NEW S, NEW s \in Seq(S), NEW m \in S
  PROVE  /\ Append(s, m) \in Seq(S) /\ Append(s, m) # <<>>
         /\ s = <<>> => Append(s, m) = <<m>>
         /\ s # <<>> => /\ Append(s, m)[1] = s[1] /\ Tail(s) \in Seq(S) /\ s[1] \in S
                        /\ Tail(Append(s, m)) = Append(Tail(s), m)
<1>1. s = <<>> \/ Len(s) \in Nat \ {0}
  OBVIOUS
<1>2. CASE s = <<>>
  BY <1>2
<1>3. CASE s # <<>>
  BY <1>1, <1>3
<1> QED  BY <1>2, <1>3

LEMMA UnoSolo ==
  ASSUME NEW m, NEW n
  PROVE  /\ Tail(<<m>>) = <<>> /\ <<m>>[1] = m /\ <<m>> # <<>> /\ Append(<<>>, m) = <<m>>
         /\ Append(<<m>>, n) = <<m, n>> /\ Tail(<<m, n>>) = <<n>> /\ <<m, n>>[1] = m
         /\ <<m, n>> # <<>>
<1>1. Tail(<<m>>) = <<>> /\ <<m>>[1] = m /\ <<m>> # <<>> /\ Append(<<>>, m) = <<m>>
  OBVIOUS
<1>2. <<m, n>>[1] = m /\ <<m, n>> # <<>>
  OBVIOUS
<1>3. Append(<<m>>, n) = <<m, n>>
  <2>1. <<m>> \in Seq({m, n}) /\ <<m, n>> \in Seq({m, n}) /\ n \in {m, n}
    OBVIOUS
  <2>2. PICK a : a = Append(<<m>>, n)
    OBVIOUS
  <2>3. a \in Seq({m, n}) /\ Len(a) = 2 /\ a[1] = m /\ a[2] = n
    BY <2>1, <2>2, AppendProperties
  <2>4. Len(<<m, n>>) = 2 /\ <<m, n>>[1] = m /\ <<m, n>>[2] = n
    OBVIOUS
  <2>5. \A i \in 1 .. 2 : a[i] = <<m, n>>[i]
    BY <2>3, <2>4
  <2> QED  BY <2>1, <2>2, <2>3, <2>4, <2>5, SeqEqual
<1>4. Tail(<<m, n>>) = <<n>>
  OBVIOUS
<1> QED  BY <1>1, <1>2, <1>3, <1>4

LEMMA UltimoAlFinal ==
  ASSUME NEW S, NEW s \in Seq(S), NEW m \in S, Cabeza(s), m.tipo = "despacho"
  PROVE  Cabeza(Append(s, m))
BY Colas DEF Cabeza

LEMMA PosicionesEnteras == \A n \in 0 .. Len(indice_de_codigo) : n \in Posiciones
BY CpuAssumption

-----------------------------------------------------------------------------
(* Steps of the CPU alone *)

Interno ==
  /\ cpu = "ejecutando" /\ UNCHANGED soloCpu
  /\ "programaTerminado" \notin banderas /\ "procesoBloqueado" \notin banderas
  /\ [NextPila]_pila
  /\ stack_index' = <<>> /\ "programaTerminado" \notin banderas' => stackPointer' = 0
  /\ program_counter' \in Posiciones /\ quantum' \in Int
  /\ primitivas' \in 0 .. MaxPrimitivas
  /\ primitivas' = MaxPrimitivas => banderas' = {}
  /\ \/ banderas' = banderas
     \/ banderas' = banderas \cup {"excepcionMemoria"}
     \/ banderas = {} /\ banderas' = {"programaTerminado"} /\ primitivas' = 0
  /\ \/ cpu' \in {"ejecutando", "muerta"}
     \/ cpu' = "colgada" /\ banderas = {} /\ banderas' = {}

LEMMA InternoQueda ==
  ASSUME Interno
  PROVE  /\ nuevaPCB' = nuevaPCB /\ desconectarCPU' = desconectarCPU /\ esperado' = esperado
         /\ aCpu' = aCpu /\ aKernel' = aKernel /\ kernel' = kernel /\ pcbKernel' = pcbKernel
         /\ el_quantum' = el_quantum /\ desfasada' = desfasada /\ rarezas' = rarezas
BY DEF Interno, soloCpu, conexion, delKernel, historia

LEMMA InternoMantiene ==
  ASSUME IInvCpu, Interno
  PROVE  IInvCpu'
<1>0. Tipos /\ Charla /\ Marcas /\ Retoma /\ Fases /\ Rarezas /\ Bloqueo
  BY DEF IInvCpu
<1>u. /\ nuevaPCB' = nuevaPCB /\ desconectarCPU' = desconectarCPU /\ esperado' = esperado
      /\ aCpu' = aCpu /\ aKernel' = aKernel /\ kernel' = kernel /\ pcbKernel' = pcbKernel
      /\ el_quantum' = el_quantum /\ desfasada' = desfasada /\ rarezas' = rarezas
  BY InternoQueda
<1>c. /\ cpu = "ejecutando"
      /\ \/ cpu' \in {"ejecutando", "muerta"}
         \/ cpu' = "colgada" /\ banderas = {} /\ banderas' = {}
  BY DEF Interno
<1>b. /\ "programaTerminado" \notin banderas /\ "procesoBloqueado" \notin banderas
      /\ \/ banderas' = banderas
         \/ banderas' = banderas \cup {"excepcionMemoria"}
         \/ banderas = {} /\ banderas' = {"programaTerminado"} /\ primitivas' = 0
  BY DEF Interno
<1>a. Abortado' <=> Abortado
  BY <1>b DEF Abortado
<1>1. Tipos'
  <2>1. IInv'
    BY <1>0, PasoDePila DEF Interno, Tipos
  <2>2. TypeOKPila' /\ (stackPointer <= tamanioStack * tamanioPagina)'
    BY <2>1 DEF IInv
  <2>3. program_counter' \in Posiciones /\ quantum' \in Int /\ primitivas' \in 0 .. MaxPrimitivas
    BY DEF Interno
  <2>4. banderas' \subseteq Banderas
    <3>1. banderas \subseteq Banderas
      BY <1>0 DEF Tipos, TypeOK
    <3> QED  BY <1>b, <3>1 DEF Banderas
  <2>5. nuevaPCB # Nada
    BY <1>0, <1>c DEF Tipos, TypeOK
  <2>6. cpu' \in {"ociosa", "ejecutando", "recv", "colgada", "muerta"} /\ cpu' # "recv"
    BY <1>c
  <2>7. TypeOK'
    BY <1>0, <1>u, <2>2, <2>3, <2>4, <2>5, <2>6 DEF Tipos, TypeOK
  <2> QED  BY <1>0, <1>u, <2>1, <2>7 DEF Tipos
<1>2. kernel # "cerrada" /\ kernel # "bloquea" /\ aKernel = <<>> /\ Cabeza(aCpu)
  BY <1>0, <1>c, <1>b DEF Charla, Bloqueo, Parada
<1>3. Charla'
  BY <1>u, <1>c, <1>2 DEF Charla, Parada, Cabeza
<1>4. Marcas'
  <2>1. primitivas' = MaxPrimitivas => banderas' = {}
    BY DEF Interno
  <2>2. primitivas' = 0 \/ "programaTerminado" \notin banderas'
    BY <1>b
  <2>3. "procesoBloqueado" \notin banderas'
    BY <1>b
  <2>4. "programaTerminado" \in banderas' => banderas' = {"programaTerminado"} /\ primitivas' = 0
    BY <1>b
  <2> QED  BY <1>c, <2>1, <2>3, <2>4 DEF Marcas
<1>5. Retoma'
  <2>1. ~Continua
    BY <1>c DEF Continua, Parada
  <2>2. kernel = "libre" => Fresca
    BY <1>0, <2>1 DEF Retoma
  <2>3. stack_index' = <<>> /\ "programaTerminado" \notin banderas' => stackPointer' = 0
    BY DEF Interno
  <2>4. Fresca' = Fresca
    BY <1>u DEF Fresca
  <2> QED  BY <1>u, <1>2, <2>2, <2>3, <2>4 DEF Retoma
<1>6. Fases'
  <2> SUFFICES ASSUME rarezas = {}
               PROVE  /\ ~desfasada' /\ kernel' # "varada"
                      /\ Parada' => FaseParada'
                      /\ cpu' = "ejecutando" => FaseEjecutando'
                      /\ cpu' = "recv" => FaseRecv'
                      /\ cpu' = "colgada" => kernel' = "ejecuta" /\ SinNada' /\ nuevaPCB' = pcbKernel'
    BY <1>u DEF Fases
  <2>1. ~desfasada /\ kernel # "varada" /\ FaseEjecutando
    BY <1>0, <1>c DEF Fases
  <2>2. SinNada' = SinNada /\ EnViaje' = EnViaje /\ Mismo' = Mismo /\ Fresca' = Fresca
    BY <1>u DEF SinNada, EnViaje, Mismo, Fresca, Despacho
  <2>3. cpu' = "ejecutando" => FaseEjecutando'
    BY <1>u, <1>a, <1>b, <2>1, <2>2, <1>2 DEF FaseEjecutando
  <2>4. cpu' = "muerta" => FaseParada'
    <3>1. CASE kernel = "ejecuta" /\ SinNada
      BY <1>u, <2>2, <3>1 DEF FaseParada
    <3>2. CASE kernel = "libre" /\ SinNada /\ ~Mismo
      BY <1>u, <2>2, <3>2 DEF FaseParada
    <3>3. CASE kernel = "ejecuta" /\ EnViaje /\ Fresca
      BY <1>u, <2>2, <3>3 DEF FaseParada
    <3> QED  BY <2>1, <1>2, <3>1, <3>2, <3>3 DEF FaseEjecutando
  <2>5. cpu' = "colgada" => kernel' = "ejecuta" /\ SinNada' /\ nuevaPCB' = pcbKernel'
    BY <1>u, <1>c, <2>1, <2>2, <1>2 DEF FaseEjecutando, Abortado
  <2> QED  BY <1>c, <1>u, <2>1, <2>3, <2>4, <2>5 DEF Parada
<1>7. Rarezas'
  <2>1. rarezas # {} => Abortado
    BY <1>0, <1>c DEF Rarezas
  <2>2. cpu' = "colgada" => ~Abortado
    BY <1>c DEF Abortado
  <2> QED  BY <1>0, <1>u, <1>c, <1>a, <2>1, <2>2 DEF Rarezas
<1>8. Bloqueo'
  BY <1>u, <1>2 DEF Bloqueo
<1> QED  BY <1>1, <1>3, <1>4, <1>5, <1>6, <1>7, <1>8 DEF IInvCpu

LEMMA LineaLimpia ==
  ASSUME IInvCpu, EnLinea
  PROVE  /\ cpu = "ejecutando" /\ primitivas \in Nat /\ primitivas > 0
         /\ primitivas <= MaxPrimitivas
         /\ "programaTerminado" \notin banderas /\ "procesoBloqueado" \notin banderas
         /\ nuevaPCB # Nada /\ (stack_index = <<>> => stackPointer = 0)
         /\ program_counter \in Posiciones /\ quantum \in Int
<1>0. Tipos /\ Marcas /\ Retoma
  BY DEF IInvCpu
<1>m. MaxPrimitivas \in Nat
  BY CpuAssumption
<1>1. cpu = "ejecutando" /\ primitivas \in 0 .. MaxPrimitivas /\ primitivas > 0
  BY <1>0 DEF EnLinea, Tipos, TypeOK
<1>2. "programaTerminado" \notin banderas /\ "procesoBloqueado" \notin banderas
  BY <1>0, <1>1 DEF Marcas
<1>3. nuevaPCB # Nada /\ program_counter \in Posiciones /\ quantum \in Int
  BY <1>0, <1>1 DEF Tipos, TypeOK
<1> QED  BY <1>0, <1>1, <1>2, <1>3, <1>m DEF Retoma

LEMMA LineaGasta ==
  ASSUME IInvCpu, EnLinea, Gasta
  PROVE  primitivas' \in 0 .. MaxPrimitivas /\ primitivas' # MaxPrimitivas
<1>m. MaxPrimitivas \in Nat
  BY CpuAssumption
<1> QED  BY <1>m, LineaLimpia DEF Gasta

LEMMA ObtenerInstruccionInterno ==
  ASSUME IInvCpu, obtener_instruccion
  PROVE  Interno
<1>0. Tipos /\ Retoma
  BY DEF IInvCpu
<1>1. /\ cpu = "ejecutando" /\ banderas = {} /\ program_counter < cantidad_de_instrucciones
      /\ program_counter' = program_counter + 1 /\ primitivas' = MaxPrimitivas
      /\ quantum' = (IF quantum < 0 THEN quantum ELSE quantum - 1)
      /\ cpu' = cpu /\ banderas' = banderas /\ UNCHANGED pila /\ UNCHANGED soloCpu
  BY DEF obtener_instruccion, Sigue
<1>2. program_counter \in Posiciones /\ quantum \in Int /\ nuevaPCB # Nada
  BY <1>0, <1>1 DEF Tipos, TypeOK
<1>3. program_counter \in Nat
  BY <1>2, PilaAssumption, Zenon
<1>4. Len(indice_de_codigo) \in Nat
  BY CpuAssumption
<1>5. program_counter' \in 0 .. Len(indice_de_codigo)
  BY <1>1, <1>3, <1>4 DEF cantidad_de_instrucciones
<1>6. program_counter' \in Posiciones
  BY <1>5, PosicionesEnteras
<1>7. quantum' \in Int
  BY <1>1, <1>2
<1>8. MaxPrimitivas \in 0 .. MaxPrimitivas
  BY CpuAssumption
<1>9. stack_index' = <<>> => stackPointer' = 0
  BY <1>0, <1>1, <1>2 DEF Retoma, pila
<1> QED  BY <1>1, <1>6, <1>7, <1>8, <1>9 DEF Interno

LEMMA InstruccionPerdidaInterno ==
  ASSUME IInvCpu, InstruccionPerdida
  PROVE  Interno
<1>0. Tipos /\ Retoma
  BY DEF IInvCpu
<1>1. /\ cpu = "ejecutando" /\ banderas = {} /\ primitivas = 0
      /\ cpu' \in {"colgada", "muerta"}
      /\ program_counter' = program_counter /\ primitivas' = primitivas /\ quantum' = quantum
      /\ banderas' = banderas /\ UNCHANGED pila /\ UNCHANGED soloCpu
  BY DEF InstruccionPerdida, Sigue
<1>2. /\ program_counter \in Posiciones /\ quantum \in Int /\ nuevaPCB # Nada
      /\ primitivas \in 0 .. MaxPrimitivas
  BY <1>0, <1>1 DEF Tipos, TypeOK
<1>3. stack_index' = <<>> => stackPointer' = 0
  BY <1>0, <1>1, <1>2 DEF Retoma, pila
<1> QED  BY <1>1, <1>2, <1>3 DEF Interno

LEMMA TerminaLineaInterno ==
  ASSUME IInvCpu, TerminaLinea
  PROVE  Interno
<1>1. /\ EnLinea /\ primitivas' = 0 /\ program_counter' = program_counter /\ quantum' = quantum
      /\ cpu' = cpu /\ banderas' = banderas /\ UNCHANGED pila /\ UNCHANGED soloCpu
  BY DEF TerminaLinea, EnLinea
<1>2. /\ cpu = "ejecutando" /\ program_counter \in Posiciones /\ quantum \in Int
      /\ "programaTerminado" \notin banderas /\ "procesoBloqueado" \notin banderas
      /\ (stack_index = <<>> => stackPointer = 0)
  BY <1>1, LineaLimpia
<1>3. stack_index' = <<>> => stackPointer' = 0
  BY <1>1, <1>2 DEF pila
<1>4. 0 \in 0 .. MaxPrimitivas /\ 0 # MaxPrimitivas
  BY CpuAssumption
<1> QED  BY <1>1, <1>2, <1>3, <1>4 DEF Interno

LEMMA DefinirInterno ==
  ASSUME IInvCpu, NEW i \in Ids, twt_definirVariable(i)
  PROVE  Interno
<1>1. /\ EnLinea /\ Gasta /\ program_counter' = program_counter /\ quantum' = quantum
      /\ cpu' = cpu /\ UNCHANGED soloCpu
      /\ \/ Definir(i) /\ banderas' = banderas
         \/ banderas' = banderas \cup {"excepcionMemoria"} /\ UNCHANGED pila
  BY DEF twt_definirVariable, Levanta
<1>2. /\ cpu = "ejecutando" /\ program_counter \in Posiciones /\ quantum \in Int
      /\ "programaTerminado" \notin banderas /\ "procesoBloqueado" \notin banderas
      /\ (stack_index = <<>> => stackPointer = 0)
  BY <1>1, LineaLimpia
<1>3. primitivas' \in 0 .. MaxPrimitivas /\ primitivas' # MaxPrimitivas
  BY <1>1, LineaGasta
<1>4. CASE Definir(i) /\ banderas' = banderas
  <2>1. stack_index' # <<>>
    <3>1. stack_index \in Seq(Registro)
      BY DEF IInvCpu, Tipos, TypeOK, TypeOKPila
    <3>2. CASE stack_index = <<>>
      BY <1>4, <3>2 DEF Definir
    <3>3. CASE stack_index # <<>>
      <4>1. DOMAIN stack_index' = DOMAIN stack_index
        BY <1>4, <3>3 DEF Definir
      <4>3. Len(stack_index) \in Nat /\ Len(stack_index) # 0
        BY <3>1, <3>3
      <4>4. DOMAIN stack_index = 1 .. Len(stack_index)
        BY <3>1
      <4>5. 1 \in DOMAIN stack_index
        BY <4>3, <4>4
      <4>2. DOMAIN stack_index # {} /\ DOMAIN <<>> = {}
        BY <4>5
      <4> QED  BY <4>1, <4>2
    <3> QED  BY <3>2, <3>3
  <2>2. NextPila
    BY <1>4 DEF NextPila
  <2> QED  BY <1>1, <1>2, <1>3, <1>4, <2>1, <2>2 DEF Interno
<1>5. CASE banderas' = banderas \cup {"excepcionMemoria"} /\ UNCHANGED pila
  <2>1. stack_index' = <<>> => stackPointer' = 0
    BY <1>5, <1>2 DEF pila
  <2> QED  BY <1>1, <1>2, <1>3, <1>5, <2>1 DEF Interno
<1> QED  BY <1>1, <1>4, <1>5

LEMMA MiraMarcoInterno ==
  ASSUME IInvCpu, MiraMarco
  PROVE  Interno
<1>1. /\ EnLinea /\ Gasta /\ program_counter' = program_counter /\ quantum' = quantum
      /\ cpu' \in {cpu, "muerta"} /\ banderas' = banderas /\ UNCHANGED pila /\ UNCHANGED soloCpu
  BY DEF MiraMarco
<1>2. /\ cpu = "ejecutando" /\ program_counter \in Posiciones /\ quantum \in Int
      /\ "programaTerminado" \notin banderas /\ "procesoBloqueado" \notin banderas
      /\ (stack_index = <<>> => stackPointer = 0)
  BY <1>1, LineaLimpia
<1>3. primitivas' \in 0 .. MaxPrimitivas /\ primitivas' # MaxPrimitivas
  BY <1>1, LineaGasta
<1>4. stack_index' = <<>> => stackPointer' = 0
  BY <1>1, <1>2 DEF pila
<1> QED  BY <1>1, <1>2, <1>3, <1>4 DEF Interno

LEMMA DereferenciarInterno ==
  ASSUME IInvCpu, twt_dereferenciar
  PROVE  Interno
<1>1. /\ EnLinea /\ Gasta /\ program_counter' = program_counter /\ quantum' = quantum
      /\ cpu' = cpu /\ banderas' = banderas \cup {"excepcionMemoria"}
      /\ UNCHANGED pila /\ UNCHANGED soloCpu
  BY DEF twt_dereferenciar, Levanta
<1>2. /\ cpu = "ejecutando" /\ program_counter \in Posiciones /\ quantum \in Int
      /\ "programaTerminado" \notin banderas /\ "procesoBloqueado" \notin banderas
      /\ (stack_index = <<>> => stackPointer = 0)
  BY <1>1, LineaLimpia
<1>3. primitivas' \in 0 .. MaxPrimitivas /\ primitivas' # MaxPrimitivas
  BY <1>1, LineaGasta
<1>4. stack_index' = <<>> => stackPointer' = 0
  BY <1>1, <1>2 DEF pila
<1> QED  BY <1>1, <1>2, <1>3, <1>4 DEF Interno

LEMMA IrAlLabelInterno ==
  ASSUME IInvCpu, NEW n \in Posiciones, twt_irAlLabel(n)
  PROVE  Interno
<1>1. /\ EnLinea /\ Gasta /\ program_counter' = n /\ quantum' = quantum
      /\ cpu' = cpu /\ banderas' = banderas /\ UNCHANGED pila /\ UNCHANGED soloCpu
  BY DEF twt_irAlLabel
<1>2. /\ cpu = "ejecutando" /\ program_counter \in Posiciones /\ quantum \in Int
      /\ "programaTerminado" \notin banderas /\ "procesoBloqueado" \notin banderas
      /\ (stack_index = <<>> => stackPointer = 0)
  BY <1>1, LineaLimpia
<1>3. primitivas' \in 0 .. MaxPrimitivas /\ primitivas' # MaxPrimitivas
  BY <1>1, LineaGasta
<1>4. stack_index' = <<>> => stackPointer' = 0
  BY <1>1, <1>2 DEF pila
<1> QED  BY <1>1, <1>2, <1>3, <1>4 DEF Interno

LEMMA LlamarInterno ==
  ASSUME IInvCpu, NEW n \in Posiciones, NEW donde \in CeldasActuales,
         twt_llamarConRetorno(n, donde)
  PROVE  Interno
<1>1. /\ EnLinea /\ Gasta /\ program_counter' = n /\ quantum' = quantum
      /\ cpu' = cpu /\ banderas' = banderas /\ Llamar(program_counter, donde)
      /\ UNCHANGED soloCpu
  BY DEF twt_llamarConRetorno
<1>2. /\ cpu = "ejecutando" /\ program_counter \in Posiciones /\ quantum \in Int
      /\ "programaTerminado" \notin banderas /\ "procesoBloqueado" \notin banderas
  BY <1>1, LineaLimpia
<1>3. primitivas' \in 0 .. MaxPrimitivas /\ primitivas' # MaxPrimitivas
  BY <1>1, LineaGasta
<1>4. stack_index' # <<>>
  <2>1. stack_index \in Seq(Registro)
    BY DEF IInvCpu, Tipos, TypeOK, TypeOKPila
  <2>2. PICK r : stack_index' = Append(stack_index, r)
    BY <1>1 DEF Llamar
  <2>3. Len(stack_index') = Len(stack_index) + 1 /\ Len(stack_index) \in Nat
    BY <2>1, <2>2
  <2>4. Len(<<>>) = 0
    OBVIOUS
  <2> QED  BY <2>3, <2>4
<1>5. NextPila
  BY <1>1, <1>2 DEF NextPila
<1> QED  BY <1>1, <1>2, <1>3, <1>4, <1>5 DEF Interno

LEMMA FinalizarInterno ==
  ASSUME IInvCpu, twt_finalizar
  PROVE  Interno
<1>0. Tipos /\ Marcas
  BY DEF IInvCpu
<1>1. /\ EnLinea /\ primitivas = MaxPrimitivas /\ primitivas' = 0 /\ quantum' = quantum
      /\ UNCHANGED soloCpu
  BY DEF twt_finalizar, PrimeraDeLinea
<1>2. /\ cpu = "ejecutando" /\ program_counter \in Posiciones /\ quantum \in Int
      /\ "programaTerminado" \notin banderas /\ "procesoBloqueado" \notin banderas
      /\ (stack_index = <<>> => stackPointer = 0)
  BY <1>1, LineaLimpia
<1>3. banderas = {}
  BY <1>0, <1>1, <1>2 DEF Marcas
<1>4. 0 \in 0 .. MaxPrimitivas /\ 0 # MaxPrimitivas
  BY CpuAssumption
<1>5. stack_index \in Seq(Registro)
  BY <1>0 DEF Tipos, TypeOK, TypeOKPila
<1>6. CASE Finalizar /\ Ultimo = 1
  <2>1. /\ banderas' = banderas \cup {"programaTerminado"} /\ program_counter' = program_counter
        /\ cpu' = cpu
    <3>1. stack_index # <<>>
      BY <1>6 DEF Ultimo
    <3> QED  BY <1>6, <3>1 DEF twt_finalizar, Levanta
  <2>2. NextPila
    BY <1>6 DEF NextPila
  <2>3. banderas' = {"programaTerminado"}
    BY <1>3, <2>1
  <2> QED  BY <1>1, <1>2, <1>3, <1>4, <2>1, <2>2, <2>3 DEF Interno
<1>7. CASE Finalizar /\ Ultimo # 1
  <2>1. stack_index # <<>> /\ Ultimo \in Nat /\ Ultimo > 1
    <3>1. Len(stack_index) \in Nat
      BY <1>5
    <3>2. Ultimo \in Nat /\ Ultimo > 1
      <4>1. Ultimo > 0
        BY <1>7 DEF Finalizar
      <4>2. Ultimo \in Nat
        BY <3>1 DEF Ultimo
      <4> QED  BY <4>1, <4>2, <1>7
    <3>3. Len(<<>>) = 0
      OBVIOUS
    <3> QED  BY <3>2, <3>3 DEF Ultimo
  <2>2. /\ program_counter' = stack_index[Ultimo].ret_pos /\ banderas' = banderas
        /\ cpu' = cpu
    BY <1>7, <2>1 DEF twt_finalizar
  <2>3. stack_index[Ultimo].ret_pos \in Posiciones
    <3>1. stack_index[Ultimo] \in Registro
      BY <1>5, <2>1 DEF Ultimo
    <3> QED  BY <3>1 DEF Registro
  <2>4. stack_index' # <<>>
    <3>1. stack_index' = SubSeq(stack_index, 1, Ultimo - 1)
      BY <1>7 DEF Finalizar
    <3>2. Len(stack_index') = Ultimo - 1
      BY <3>1, <2>1, <1>5 DEF Ultimo
    <3>3. Len(<<>>) = 0
      OBVIOUS
    <3> QED  BY <2>1, <3>2, <3>3
  <2>5. NextPila
    BY <1>7 DEF NextPila
  <2> QED  BY <1>1, <1>2, <1>3, <1>4, <2>2, <2>3, <2>4, <2>5 DEF Interno
<1>8. CASE stack_index = <<>> /\ cpu' = "muerta" /\ UNCHANGED <<pila, program_counter, banderas>>
  <2>1. stack_index' = <<>> => stackPointer' = 0
    BY <1>8, <1>2 DEF pila
  <2> QED  BY <1>1, <1>2, <1>3, <1>4, <1>8, <2>1 DEF Interno
<1> QED  BY <1>6, <1>7, <1>8 DEF twt_finalizar

-----------------------------------------------------------------------------
(* Requests and answers, on the side of the CPU *)

LEMMA PilaQuieta ==
  ASSUME IInv, UNCHANGED pila
  PROVE  /\ IInv' /\ stack_index' = stack_index /\ stackPointer' = stackPointer
         /\ TypeOKPila' /\ (stackPointer <= tamanioStack * tamanioPagina)'
<1>1. IInv'
  BY PasoDePila
<1> QED  BY <1>1 DEF pila, IInv

LEMMA PideMantiene ==
  ASSUME IInvCpu, NEW op \in Pedidos, NEW quedan \in 0 .. MaxPrimitivas, quedan # MaxPrimitivas,
         quedan = 0 \/ op = "obtenerValorCompartida", op = "wait" => PrimeraDeLinea,
         Pide(op, quedan)
  PROVE  IInvCpu' /\ UNCHANGED pila
<1>0. Tipos /\ Charla /\ Marcas /\ Retoma /\ Fases /\ Rarezas /\ Bloqueo
  BY DEF IInvCpu
<1>u. /\ UNCHANGED pila /\ nuevaPCB' = nuevaPCB /\ program_counter' = program_counter
      /\ quantum' = quantum /\ banderas' = banderas /\ desconectarCPU' = desconectarCPU
      /\ aCpu' = aCpu /\ kernel' = kernel /\ pcbKernel' = pcbKernel
      /\ el_quantum' = el_quantum /\ desfasada' = desfasada
      /\ esperado' = op /\ cpu' = "recv" /\ primitivas' = quedan
      /\ aKernel' = Append(aKernel, Pedido(op))
  BY DEF Pide, delKernel, Envia
<1>r. /\ Abortado => rarezas' = rarezas \cup {"pedido tras un aborto"}
      /\ ~Abortado => rarezas' = rarezas
  BY DEF Pide, Abortado
<1>l. /\ EnLinea /\ cpu = "ejecutando" /\ nuevaPCB # Nada
      /\ "programaTerminado" \notin banderas /\ "procesoBloqueado" \notin banderas
  BY LineaLimpia DEF Pide
<1>a. Abortado' <=> Abortado
  BY <1>u DEF Abortado
<1>p. /\ IInv' /\ stack_index' = stack_index /\ stackPointer' = stackPointer
      /\ TypeOKPila' /\ (stackPointer <= tamanioStack * tamanioPagina)'
  BY <1>0, <1>u, PilaQuieta DEF Tipos
<1>1. Tipos'
  <2>1. op # Nada
    BY CpuAssumption
  <2>2. TypeOK'
    BY <1>0, <1>u, <1>p, <1>l, <2>1 DEF Tipos, TypeOK
  <2> QED  BY <1>0, <1>u, <1>p, <2>2 DEF Tipos
<1>2. /\ kernel # "cerrada" /\ kernel # "bloquea" /\ aKernel = <<>> /\ Cabeza(aCpu)
  BY <1>0, <1>l DEF Charla, Bloqueo, Parada
<1>3. aKernel' = <<Pedido(op)>>
  BY <1>u, <1>2, UnoSolo
<1>4. Charla'
  BY <1>u, <1>2, <1>3 DEF Charla, Parada, Cabeza
<1>5. rarezas # {} => Abortado
  BY <1>0, <1>l DEF Rarezas
<1>6. op = "wait" => banderas = {} /\ rarezas' = {}
  <2>1. op = "wait" => banderas = {}
    BY <1>0, <1>l DEF PrimeraDeLinea, Marcas
  <2>2. banderas = {} => ~Abortado
    BY DEF Abortado
  <2> QED  BY <2>1, <2>2, <1>5, <1>r
<1>7. quedan < MaxPrimitivas
  BY CpuAssumption
<1>8. Marcas'
  BY <1>u, <1>l, <1>6, <1>7 DEF Marcas
<1>9. Retoma'
  <2>1. ~Continua
    BY <1>l DEF Continua, Parada
  <2>2. Fresca' = Fresca
    BY <1>u DEF Fresca
  <2> QED  BY <1>0, <1>u, <1>p, <1>2, <2>1, <2>2 DEF Retoma
<1>10. Fases'
  <2> SUFFICES ASSUME rarezas' = {}
               PROVE  ~desfasada' /\ kernel' # "varada" /\ FaseRecv'
    BY <1>u DEF Fases, Parada
  <2>1. rarezas = {} /\ ~Abortado
    BY <1>r, <1>5
  <2>2. ~desfasada /\ kernel # "varada" /\ FaseEjecutando
    BY <1>0, <1>l, <2>1 DEF Fases
  <2>3. kernel = "ejecuta" /\ SinNada /\ nuevaPCB = pcbKernel
    BY <1>2, <2>1, <2>2 DEF FaseEjecutando
  <2>4. FaseRecv'
    BY <1>u, <1>a, <1>3, <2>1, <2>3 DEF FaseRecv, SinNada
  <2> QED  BY <1>u, <2>2, <2>4
<1>11. Rarezas'
  <2>1. rarezas' # {} => Abortado
    BY <1>5, <1>r
  <2>2. Abortado => rarezas' \cap Desfases # {}
    BY <1>r DEF Desfases
  <2> QED  BY <1>0, <1>u, <1>a, <1>l, <2>1, <2>2 DEF Rarezas
<1>12. Bloqueo'
  BY <1>u, <1>2 DEF Bloqueo
<1> QED  BY <1>u, <1>1, <1>4, <1>8, <1>9, <1>10, <1>11, <1>12 DEF IInvCpu

LEMMA PedidosMantienen ==
  ASSUME IInvCpu,
         \/ twt_obtenerValorCompartida \/ twt_asignarValorCompartida \/ twt_wait \/ twt_signal
         \/ twt_reservar \/ twt_liberar \/ twt_abrir \/ twt_borrar \/ twt_cerrar
         \/ twt_moverCursor \/ twt_escribir \/ twt_leer
  PROVE  IInvCpu' /\ UNCHANGED pila
<1>m. 0 \in 0 .. MaxPrimitivas /\ 0 # MaxPrimitivas
  BY CpuAssumption
<1>1. ASSUME NEW op \in Pedidos \ {"wait"}, Pide(op, 0)
      PROVE  IInvCpu' /\ UNCHANGED pila
  BY <1>1, <1>m, PideMantiene
<1>2. CASE twt_wait
  <2>1. PrimeraDeLinea /\ Pide("wait", 0) /\ "wait" \in Pedidos
    BY <1>2 DEF twt_wait, Pedidos
  <2> QED  BY <2>1, <1>m, PideMantiene
<1>3. CASE twt_obtenerValorCompartida
  <2>1. Pide("obtenerValorCompartida", primitivas - 1) /\ "obtenerValorCompartida" \in Pedidos
    BY <1>3 DEF twt_obtenerValorCompartida, Pedidos
  <2>2. EnLinea
    BY <2>1 DEF Pide
  <2>3. /\ primitivas \in Nat /\ primitivas > 0 /\ primitivas <= MaxPrimitivas
        /\ MaxPrimitivas \in Nat
    BY <2>2, LineaLimpia, CpuAssumption
  <2>4. primitivas - 1 \in 0 .. MaxPrimitivas /\ primitivas - 1 # MaxPrimitivas
    BY <2>3
  <2> QED  BY <2>1, <2>4, PideMantiene
<1>4. \/ twt_asignarValorCompartida \/ twt_signal \/ twt_reservar \/ twt_liberar \/ twt_abrir
      \/ twt_borrar \/ twt_cerrar \/ twt_moverCursor \/ twt_escribir \/ twt_leer
      => \E op \in Pedidos \ {"wait"} : Pide(op, 0)
  BY DEF twt_asignarValorCompartida, twt_signal, twt_reservar, twt_liberar, twt_abrir,
         twt_borrar, twt_cerrar, twt_moverCursor, twt_escribir, twt_leer, Pedidos
<1> QED  BY <1>1, <1>2, <1>3, <1>4

LEMMA RecibirRespuestaMantiene ==
  ASSUME IInvCpu, RecibirRespuesta
  PROVE  IInvCpu' /\ UNCHANGED pila
<1>0. Tipos /\ Charla /\ Marcas /\ Retoma /\ Fases /\ Rarezas /\ Bloqueo
  BY DEF IInvCpu
<1>u. /\ UNCHANGED pila /\ nuevaPCB' = nuevaPCB /\ program_counter' = program_counter
      /\ quantum' = quantum /\ primitivas' = primitivas /\ desconectarCPU' = desconectarCPU
      /\ aKernel' = aKernel /\ kernel' = kernel /\ pcbKernel' = pcbKernel
      /\ el_quantum' = el_quantum /\ rarezas' = rarezas
      /\ esperado' = Nada /\ cpu' = "ejecutando" /\ aCpu' = Tail(aCpu)
      /\ desfasada' = (desfasada \/ aCpu[1].op # esperado)
  BY DEF RecibirRespuesta, delKernel
<1>l. cpu = "recv" /\ aCpu # <<>> /\ aCpu[1].tipo = "respuesta"
  BY DEF RecibirRespuesta
<1>b. \/ /\ banderas' = banderas \cup {"procesoAbortado"}
         /\ Rechazo(esperado, aCpu[1].valor)
      \/ /\ banderas' = banderas \cup {"procesoBloqueado"}
         /\ esperado = "wait" /\ aCpu[1].extra < 0 /\ ~Rechazo(esperado, aCpu[1].valor)
      \/ /\ banderas' = banderas /\ ~Rechazo(esperado, aCpu[1].valor)
         /\ ~(esperado = "wait" /\ aCpu[1].extra < 0)
  BY DEF RecibirRespuesta, Levanta
<1>d. "despacho" # "respuesta"
  OBVIOUS
<1>2. /\ esperado \in Pedidos /\ aKernel = <<>> /\ aCpu[1].op = esperado /\ Cabeza(Tail(aCpu))
      /\ kernel # "cerrada"
  BY <1>0, <1>l, <1>d DEF Charla, Cabeza
<1>3. desfasada' = desfasada
  BY <1>u, <1>2, <1>0 DEF Tipos, TypeOK
<1>p. /\ IInv' /\ stack_index' = stack_index /\ stackPointer' = stackPointer
      /\ TypeOKPila' /\ (stackPointer <= tamanioStack * tamanioPagina)'
  BY <1>0, <1>u, PilaQuieta DEF Tipos
<1>m. /\ "programaTerminado" \notin banderas /\ "procesoBloqueado" \notin banderas
      /\ primitivas < MaxPrimitivas /\ (primitivas = 0 \/ esperado = "obtenerValorCompartida")
      /\ (esperado = "wait" => banderas = {} /\ rarezas = {})
  BY <1>0, <1>l DEF Marcas
<1>1. Tipos'
  <2>1. banderas' \subseteq Banderas
    BY <1>0, <1>b DEF Tipos, TypeOK, Banderas
  <2>2. Tail(aCpu) \in Seq(Mensaje)
    BY <1>0, <1>l DEF Tipos
  <2>3. desfasada' \in BOOLEAN /\ nuevaPCB # Nada
    BY <1>0, <1>3, <1>l DEF Tipos, TypeOK
  <2>4. TypeOK'
    BY <1>0, <1>u, <1>p, <2>1, <2>3 DEF Tipos, TypeOK
  <2> QED  BY <1>u, <1>p, <2>2, <2>4 DEF Tipos
<1>4. Charla'
  BY <1>u, <1>2 DEF Charla, Parada
<1>5. Marcas'
  <2>1. "programaTerminado" \notin banderas'
    BY <1>b, <1>m
  <2>2. "procesoBloqueado" \in banderas' => banderas' = {"procesoBloqueado"} /\ primitivas = 0
    BY <1>b, <1>m
  <2>3. primitivas # MaxPrimitivas
    BY <1>m, <1>0, CpuAssumption DEF Tipos, TypeOK
  <2> QED  BY <1>u, <2>1, <2>2, <2>3 DEF Marcas
<1>6. Retoma'
  <2>1. ~Continua
    BY <1>l DEF Continua, Parada
  <2>2. Fresca' = Fresca
    BY <1>u DEF Fresca
  <2> QED  BY <1>0, <1>u, <1>p, <1>m, <1>2, <2>1, <2>2 DEF Retoma
<1>7. Abortado => Abortado'
  BY <1>b DEF Abortado
<1>v. ASSUME NEW v \in Int, NEW x \in Int, aCpu[1] = Respuesta(esperado, v, x)
      PROVE  aCpu[1].valor = v /\ aCpu[1].extra = x
  BY <1>v, <1>2, RespuestaEs
<1>8. Fases'
  <2> SUFFICES ASSUME rarezas = {}
               PROVE  ~desfasada' /\ kernel' # "varada" /\ FaseEjecutando'
    BY <1>u DEF Fases, Parada
  <2>1. ~desfasada /\ kernel # "varada" /\ FaseRecv
    BY <1>0, <1>l DEF Fases
  <2>2. Mismo' = Mismo /\ Fresca' = Fresca
    BY <1>u DEF Mismo, Fresca
  <2>3. ASSUME /\ kernel = "ejecuta" /\ ~Abortado /\ nuevaPCB = pcbKernel
             /\ aCpu = <<Respuesta(esperado, 1, 0)>>
        PROVE  FaseEjecutando'
    <3>1. aCpu[1] = Respuesta(esperado, 1, 0) /\ Tail(aCpu) = <<>>
      BY <2>3, UnoSolo
    <3>2. aCpu[1].valor = 1 /\ aCpu[1].extra = 0
      BY <3>1, <1>v
    <3>3. banderas' = banderas
      BY <1>b, <3>2 DEF Rechazo
    <3>4. SinNada'
      BY <1>u, <1>2, <3>1 DEF SinNada
    <3>5. kernel' = "ejecuta" /\ nuevaPCB' = pcbKernel'
      BY <1>u, <2>3
    <3>6. ~Abortado' /\ "procesoBloqueado" \notin banderas'
      BY <1>m, <2>3, <3>3 DEF Abortado
    <3> QED  BY <3>4, <3>5, <3>6 DEF FaseEjecutando
  <2>4. ASSUME kernel = "libre" /\ aCpu = <<Respuesta(esperado, -1, 0)>> /\ ~Mismo
        PROVE  FaseEjecutando'
    <3>1. aCpu[1] = Respuesta(esperado, -1, 0) /\ Tail(aCpu) = <<>>
      BY <2>4, UnoSolo
    <3>2. aCpu[1].valor = -1
      BY <3>1, <1>v
    <3>3. Abortado'
      BY <1>b, <3>2 DEF Rechazo, Abortado
    <3>4. SinNada'
      BY <1>u, <1>2, <3>1 DEF SinNada
    <3>5. kernel' = "libre" /\ ~Mismo'
      BY <1>u, <2>2, <2>4
    <3> QED  BY <3>3, <3>4, <3>5 DEF FaseEjecutando
  <2>5. ASSUME /\ kernel = "ejecuta" /\ ~Mismo /\ Fresca
             /\ aCpu = <<Respuesta(esperado, -1, 0), Despacho(el_quantum, pcbKernel)>>
        PROVE  FaseEjecutando'
    <3>1. /\ aCpu[1] = Respuesta(esperado, -1, 0)
          /\ Tail(aCpu) = <<Despacho(el_quantum, pcbKernel)>>
      BY <2>5, UnoSolo
    <3>2. aCpu[1].valor = -1
      BY <3>1, <1>v
    <3>3. Abortado'
      BY <1>b, <3>2 DEF Rechazo, Abortado
    <3>4. Despacho(el_quantum, pcbKernel)' = Despacho(el_quantum, pcbKernel)
      BY <1>u DEF Despacho
    <3>5. EnViaje'
      BY <1>u, <1>2, <3>1, <3>4, Zenon DEF EnViaje
    <3>6. kernel' = "ejecuta" /\ ~Mismo' /\ Fresca'
      BY <1>u, <2>2, <2>5
    <3> QED  BY <3>3, <3>5, <3>6 DEF FaseEjecutando
  <2>6. ASSUME /\ kernel = "bloquea" /\ banderas = {} /\ esperado = "wait"
             /\ aCpu = <<Respuesta(esperado, 1, -1)>>
        PROVE  FaseEjecutando'
    <3>1. aCpu[1] = Respuesta(esperado, 1, -1) /\ Tail(aCpu) = <<>>
      BY <2>6, UnoSolo
    <3>2. aCpu[1].valor = 1 /\ aCpu[1].extra = -1
      BY <3>1, <1>v
    <3>3. banderas' = {"procesoBloqueado"}
      BY <1>b, <3>2, <2>6 DEF Rechazo
    <3>4. SinNada'
      BY <1>u, <1>2, <3>1 DEF SinNada
    <3>5. kernel' = "bloquea"
      BY <1>u, <2>6
    <3> QED  BY <3>3, <3>4, <3>5 DEF FaseEjecutando
  <2>7. aKernel # <<Pedido(esperado)>>
    BY <1>2
  <2>8. FaseEjecutando'
    BY <2>1, <2>3, <2>4, <2>5, <2>6, <2>7 DEF FaseRecv
  <2> QED  BY <1>u, <1>3, <2>1, <2>8
<1>9. Rarezas'
  <2>1. Rechazado => Abortado'
    <3> SUFFICES ASSUME Rechazado
                 PROVE  Abortado'
      OBVIOUS
    <3>1. aCpu[1] = Respuesta(esperado, -2, 0) /\ esperado = "borrar"
      BY UnoSolo DEF Rechazado
    <3>2. aCpu[1].valor = -2
      BY <3>1, <1>v
    <3> QED  BY <1>b, <3>1, <3>2 DEF Rechazo, Abortado
  <2>2. rarezas # {} => Abortado'
    BY <1>0, <1>l, <1>7, <2>1 DEF Rarezas
  <2> QED  BY <1>0, <1>u, <1>l, <1>3, <2>2 DEF Rarezas
<1>10. Bloqueo'
  <2> SUFFICES ASSUME kernel = "bloquea"
               PROVE  (aCpu' = <<>> \/ cpu' = "recv") /\ banderas' = {"procesoBloqueado"}
    BY <1>u, <1>2 DEF Bloqueo
  <2>1. banderas = {} /\ esperado = "wait" /\ aCpu = <<Respuesta(esperado, 1, -1)>>
    BY <1>0, <1>l DEF Bloqueo, Parada
  <2>2. aCpu[1] = Respuesta(esperado, 1, -1) /\ Tail(aCpu) = <<>>
    BY <2>1, UnoSolo
  <2>3. aCpu[1].valor = 1 /\ aCpu[1].extra = -1
    <3>1. aCpu[1] = Respuesta(esperado, 1, -1) /\ 1 \in Int /\ -1 \in Int
      BY <2>2
    <3> QED  BY <3>1, <1>v
  <2>4. banderas' = {"procesoBloqueado"}
    BY <1>b, <2>1, <2>3 DEF Rechazo
  <2> QED  BY <1>u, <2>2, <2>4
<1> QED  BY <1>u, <1>1, <1>4, <1>5, <1>6, <1>8, <1>9, <1>10 DEF IInvCpu

LEMMA CabezaRespuesta ==
  ASSUME IInvCpu, cpu = "recv", rarezas = {} \/ Rechazado \/ kernel = "bloquea"
  PROVE  aCpu = <<>> \/ aCpu[1].tipo = "respuesta"
<1>0. Charla /\ Fases /\ Bloqueo
  BY DEF IInvCpu
<1>e. esperado \in Pedidos /\ "borrar" \in Pedidos /\ "wait" \in Pedidos
  BY <1>0 DEF Charla, Pedidos
<1>r. ASSUME NEW op \in Pedidos, NEW v \in Int, NEW x \in Int, aCpu[1] = Respuesta(op, v, x)
      PROVE  aCpu[1].tipo = "respuesta"
  BY <1>r, RespuestaEs
<1>i. 1 \in Int /\ 0 \in Int /\ -1 \in Int /\ -2 \in Int
  OBVIOUS
<1>1. ASSUME NEW op \in Pedidos, NEW v \in Int, NEW x \in Int, aCpu = <<Respuesta(op, v, x)>>
      PROVE  aCpu[1].tipo = "respuesta"
  BY <1>1, <1>r, UnoSolo
<1>2. CASE Rechazado
  BY <1>2, <1>1, <1>e, <1>i DEF Rechazado
<1>3. CASE kernel = "bloquea"
  <2>1. aCpu = <<Respuesta("wait", 1, -1)>>
    BY <1>0, <1>3 DEF Bloqueo, Parada
  <2> QED  BY <2>1, <1>1, <1>e, <1>i
<1>4. CASE rarezas = {}
  <2>1. FaseRecv
    BY <1>0, <1>4 DEF Fases
  <2>2. CASE aCpu = <<Respuesta(esperado, 1, 0)>>
    BY <2>2, <1>1, <1>e, <1>i
  <2>3. CASE aCpu = <<Respuesta(esperado, -1, 0)>>
    BY <2>3, <1>1, <1>e, <1>i
  <2>4. CASE aCpu = <<Respuesta(esperado, -1, 0), Despacho(el_quantum, pcbKernel)>>
    <3>1. aCpu[1] = Respuesta(esperado, -1, 0)
      BY <2>4, UnoSolo
    <3> QED  BY <3>1, <1>r, <1>e, <1>i
  <2>5. CASE aCpu = <<Respuesta(esperado, 1, -1)>>
    BY <2>5, <1>1, <1>e, <1>i
  <2>6. CASE aCpu = <<>>
    BY <2>6
  <2> QED  BY <2>1, <2>2, <2>3, <2>4, <2>5, <2>6 DEF FaseRecv
<1> QED  BY <1>2, <1>3, <1>4

LEMMA RecibirAjenoMantiene ==
  ASSUME IInvCpu, RecibirAjeno
  PROVE  IInvCpu' /\ UNCHANGED pila
<1>0. Tipos /\ Charla /\ Marcas /\ Retoma /\ Fases /\ Rarezas /\ Bloqueo
  BY DEF IInvCpu
<1>u. /\ UNCHANGED pila /\ nuevaPCB' = nuevaPCB /\ program_counter' = program_counter
      /\ quantum' = quantum /\ primitivas' = primitivas /\ desconectarCPU' = desconectarCPU
      /\ banderas' = banderas /\ esperado' = esperado
      /\ aKernel' = aKernel /\ aCpu' = aCpu /\ kernel' = kernel /\ pcbKernel' = pcbKernel
      /\ el_quantum' = el_quantum /\ rarezas' = rarezas
      /\ cpu' = "colgada" /\ desfasada' = TRUE
  BY DEF RecibirAjeno, delKernel, conexion
<1>l. cpu = "recv" /\ aCpu # <<>> /\ aCpu[1].tipo = "despacho"
  BY DEF RecibirAjeno
<1>p. /\ IInv' /\ stack_index' = stack_index /\ stackPointer' = stackPointer
      /\ TypeOKPila' /\ (stackPointer <= tamanioStack * tamanioPagina)'
  BY <1>0, <1>u, PilaQuieta DEF Tipos
<1>1. Tipos'
  <2>1. TypeOK'
    BY <1>0, <1>u, <1>p DEF Tipos, TypeOK
  <2> QED  BY <1>0, <1>u, <1>p, <2>1 DEF Tipos
<1>2. rarezas # {} /\ ~Rechazado /\ kernel # "bloquea"
  <2>1. aCpu[1].tipo # "respuesta"
    BY <1>l
  <2> QED  BY <1>l, <2>1, CabezaRespuesta
<1>3. rarezas \cap Desfases # {}
  BY <1>0, <1>l, <1>2 DEF Rarezas
<1>4. Charla'
  <2>1. esperado \in Pedidos /\ (aKernel = <<>> \/ aKernel = <<Pedido(esperado)>>)
    BY <1>0, <1>l DEF Charla
  <2>2. esperado # "wait"
    BY <1>0, <1>l, <1>2 DEF Marcas
  <2>3. kernel # "cerrada"
    BY <1>0, <1>l DEF Charla
  <2> QED  BY <1>u, <2>1, <2>2, <2>3 DEF Charla, Parada
<1>5. Marcas'
  BY <1>0, <1>u, <1>l DEF Marcas
<1>6. Retoma'
  <2>1. ~Continua /\ Fresca' = Fresca
    BY <1>u, <1>l DEF Continua, Parada, Fresca
  <2> QED  BY <1>0, <1>u, <1>p, <2>1, <1>4 DEF Retoma, Charla
<1>7. Fases'
  BY <1>u, <1>2 DEF Fases
<1>8. Rarezas'
  BY <1>u, <1>3 DEF Rarezas
<1>9. Bloqueo'
  BY <1>u, <1>2 DEF Bloqueo
<1> QED  BY <1>u, <1>1, <1>4, <1>5, <1>6, <1>7, <1>8, <1>9 DEF IInvCpu

LEMMA RecibirProcesoMantiene ==
  ASSUME IInvCpu, RecibirProceso
  PROVE  IInvCpu' /\ [NextPila]_pila
<1>0. Tipos /\ Charla /\ Marcas /\ Retoma /\ Fases /\ Rarezas /\ Bloqueo
  BY DEF IInvCpu
<1>u. /\ desconectarCPU' = desconectarCPU /\ esperado' = esperado
      /\ aKernel' = aKernel /\ kernel' = kernel /\ pcbKernel' = pcbKernel
      /\ el_quantum' = el_quantum /\ rarezas' = rarezas /\ desfasada' = desfasada
      /\ cpu' = "ejecutando" /\ primitivas' = 0 /\ banderas' = {}
      /\ aCpu' = Tail(aCpu) /\ quantum' = aCpu[1].quantum
  BY DEF RecibirProceso, delKernel, historia
<1>l. cpu = "ociosa" /\ aCpu # <<>> /\ rarezas = {}
  BY DEF RecibirProceso
<1>1. /\ kernel = "ejecuta" /\ aCpu = <<Despacho(el_quantum, pcbKernel)>> /\ aKernel = <<>>
      /\ (Fresca \/ Continua) /\ ~desfasada
  <2>1. FaseParada /\ ~desfasada
    BY <1>0, <1>l DEF Fases, Parada
  <2>2. kernel # "cerrada"
    BY <1>0, <1>l DEF Charla
  <2> QED  BY <1>l, <2>1, <2>2 DEF FaseParada, SinNada, EnViaje
<1>t. pcbKernel \in Pcbs /\ el_quantum \in Int
  BY <1>0, CpuAssumption DEF Tipos, TypeOK
<1>2. /\ aCpu[1] = Despacho(el_quantum, pcbKernel) /\ aCpu' = <<>>
  BY <1>1, <1>u, UnoSolo
<1>3. aCpu[1].quantum = el_quantum /\ recibirPCBV2(aCpu[1].pcb).pcb = pcbKernel
  BY <1>t, <1>2, DespachoEs
<1>4. /\ nuevaPCB' = pcbKernel /\ program_counter' = pcbKernel.program_counter
      /\ stackPointer' = pcbKernel.stackPointer /\ stack_index' = pcbKernel.stack_index
      /\ IF pcbKernel.stack_index = <<>> THEN bases' = <<>> /\ perdidos' = 0
                                         ELSE bases' = bases /\ perdidos' = perdidos
  BY <1>3 DEF RecibirProceso
<1>5. stack_index' = <<>> => stackPointer' = 0
  BY <1>1, <1>4 DEF Fresca, Continua
<1>6. [NextPila]_pila
  <2>1. CASE pcbKernel.stack_index = <<>>
    BY <1>4, <1>5, <2>1 DEF NextPila, Nueva
  <2>2. CASE pcbKernel.stack_index # <<>>
    <3>1. Continua
      BY <1>1, <2>2 DEF Fresca
    <3> QED  BY <1>4, <2>2, <3>1 DEF Continua, pila
  <2> QED  BY <2>1, <2>2
<1>p. IInv' /\ TypeOKPila' /\ (stackPointer <= tamanioStack * tamanioPagina)'
  <2>1. IInv'
    BY <1>0, <1>6, PasoDePila DEF Tipos
  <2> QED  BY <2>1 DEF IInv
<1>7. Tipos'
  <2>1. pcbKernel # Nada /\ pcbKernel.program_counter \in Posiciones
    BY <1>t, CpuAssumption DEF Pcbs
  <2>2. 0 \in 0 .. MaxPrimitivas /\ {} \subseteq Banderas
    BY CpuAssumption
  <2>3. <<>> \in Seq(Mensaje)
    OBVIOUS
  <2>4. TypeOK'
    BY <1>0, <1>u, <1>p, <1>t, <1>3, <1>4, <2>1, <2>2 DEF Tipos, TypeOK
  <2> QED  BY <1>2, <1>p, <2>3, <2>4 DEF Tipos
<1>8. Charla'
  BY <1>u, <1>1, <1>2 DEF Charla, Cabeza, Parada
<1>9. Marcas'
  BY <1>u, CpuAssumption DEF Marcas
<1>10. Retoma'
  BY <1>u, <1>1, <1>5 DEF Retoma
<1>11. Fases'
  <2>1. FaseEjecutando'
    <3>1. SinNada' /\ ~Abortado'
      BY <1>u, <1>1, <1>2 DEF SinNada, Abortado
    <3>2. kernel' = "ejecuta" /\ "procesoBloqueado" \notin banderas' /\ nuevaPCB' = pcbKernel'
      BY <1>u, <1>1, <1>4
    <3> QED  BY <3>1, <3>2 DEF FaseEjecutando
  <2> QED  BY <1>u, <1>1, <2>1 DEF Fases, Parada
<1>12. Rarezas'
  BY <1>u, <1>l, <1>1 DEF Rarezas
<1>13. Bloqueo'
  BY <1>u, <1>1 DEF Bloqueo
<1> QED  BY <1>6, <1>7, <1>8, <1>9, <1>10, <1>11, <1>12, <1>13 DEF IInvCpu

LEMMA ManejadorMantiene ==
  ASSUME IInvCpu, manejador_SIGUSR1
  PROVE  IInvCpu' /\ UNCHANGED pila
<1>0. Tipos /\ Charla /\ Marcas /\ Retoma /\ Fases /\ Rarezas /\ Bloqueo
  BY DEF IInvCpu
<1>u. /\ UNCHANGED pila /\ nuevaPCB' = nuevaPCB /\ program_counter' = program_counter
      /\ quantum' = quantum /\ primitivas' = primitivas
      /\ banderas' = banderas /\ esperado' = esperado
      /\ aKernel' = aKernel /\ aCpu' = aCpu /\ kernel' = kernel /\ pcbKernel' = pcbKernel
      /\ el_quantum' = el_quantum /\ rarezas' = rarezas /\ desfasada' = desfasada
  BY DEF manejador_SIGUSR1, delKernel, conexion, historia
<1>l. \/ cpu = "ociosa" /\ cpu' = "muerta" /\ desconectarCPU' = desconectarCPU
      \/ cpu \in {"ejecutando", "recv"} /\ desconectarCPU' = TRUE /\ cpu' = cpu
  BY DEF manejador_SIGUSR1
<1>p. /\ IInv' /\ stack_index' = stack_index /\ stackPointer' = stackPointer
      /\ TypeOKPila' /\ (stackPointer <= tamanioStack * tamanioPagina)'
  BY <1>0, <1>u, PilaQuieta DEF Tipos
<1>a. Actual' = Actual
  BY <1>u, <1>p, ActualIgual
<1>v. Vuelta' = Vuelta
  BY <1>u, <1>a DEF Vuelta, Devuelve, DevuelveConError
<1>d. Parada' = Parada
  BY <1>l DEF Parada
<1>c. Fresca' = Fresca /\ Continua' = Continua /\ Mismo' = Mismo
  BY <1>u, <1>p, <1>d DEF Fresca, Continua, Mismo
<1>s. /\ SinNada' = SinNada /\ EnViaje' = EnViaje /\ Abortado' = Abortado
      /\ Rechazado' = Rechazado
  BY <1>u DEF SinNada, EnViaje, Abortado, Despacho, Rechazado, Respuesta
<1>1. Tipos'
  <2>1. TypeOK'
    BY <1>0, <1>u, <1>p, <1>l DEF Tipos, TypeOK
  <2> QED  BY <1>0, <1>u, <1>p, <2>1 DEF Tipos
<1>2. Charla'
  BY <1>0, <1>u, <1>l, <1>v, <1>d DEF Charla, Cabeza
<1>3. Marcas'
  BY <1>0, <1>u, <1>l DEF Marcas
<1>4. Retoma'
  BY <1>0, <1>u, <1>p, <1>c DEF Retoma
<1>5. Fases'
  <2> SUFFICES ASSUME rarezas = {}
               PROVE  /\ ~desfasada' /\ kernel' # "varada"
                      /\ Parada' => FaseParada'
                      /\ cpu' = "ejecutando" => FaseEjecutando'
                      /\ cpu' = "recv" => FaseRecv'
                      /\ cpu' = "colgada" => kernel' = "ejecuta" /\ SinNada' /\ nuevaPCB' = pcbKernel'
    BY <1>u DEF Fases
  <2>1. ~desfasada' /\ kernel' # "varada"
    BY <1>0, <1>u DEF Fases
  <2>2. Parada => FaseParada
    BY <1>0 DEF Fases
  <2>3. ASSUME FaseParada
        PROVE  FaseParada'
    <3>1. Devuelve(10, Actual)' = Devuelve(10, Actual)
      BY <1>a DEF Devuelve
    <3>2. CASE kernel = "libre" /\ SinNada /\ (Mismo => pcbKernel = Actual)
      BY <1>u, <1>s, <1>c, <1>a, <3>2 DEF FaseParada
    <3>3. CASE kernel = "ejecuta" /\ EnViaje /\ (Fresca \/ Continua)
      BY <1>u, <1>s, <1>c, <3>3 DEF FaseParada
    <3>4. CASE kernel = "ejecuta" /\ aCpu = <<>> /\ Vuelta /\ Mismo
      BY <1>u, <1>v, <1>c, <3>4 DEF FaseParada
    <3>5. CASE /\ kernel = "bloquea" /\ aCpu = <<>> /\ nuevaPCB # Nada
               /\ aKernel = <<Devuelve(10, Actual)>>
      <4>1. aKernel' = <<Devuelve(10, Actual)'>>
        BY <1>u, <3>1, <3>5
      <4> QED  BY <1>u, <3>5, <4>1, Zenon DEF FaseParada
    <3>6. CASE kernel = "ejecuta" /\ SinNada /\ cpu = "muerta"
      BY <1>u, <1>s, <1>l, <3>6 DEF FaseParada
    <3>7. CASE kernel = "cerrada"
      BY <1>u, <3>7 DEF FaseParada
    <3> QED  BY <2>3, <3>2, <3>3, <3>4, <3>5, <3>6, <3>7 DEF FaseParada
  <2>4. cpu' = "ejecutando" => FaseEjecutando'
    <3> SUFFICES ASSUME cpu' = "ejecutando"
                 PROVE  FaseEjecutando'
      OBVIOUS
    <3>1. FaseEjecutando
      BY <1>0, <1>l DEF Fases
    <3> QED  BY <1>u, <1>s, <1>c, <3>1 DEF FaseEjecutando
  <2>5. cpu' = "recv" => FaseRecv'
    <3> SUFFICES ASSUME cpu' = "recv"
                 PROVE  FaseRecv'
      OBVIOUS
    <3>1. FaseRecv
      BY <1>0, <1>l DEF Fases
    <3> QED  BY <1>u, <1>s, <1>c, <3>1 DEF FaseRecv, Respuesta, Despacho, Pedido
  <2>6. cpu' # "colgada"
    BY <1>l
  <2> QED  BY <2>1, <1>d, <2>2, <2>3, <2>4, <2>5, <2>6
<1>6. Rarezas'
  BY <1>0, <1>u, <1>l, <1>s DEF Rarezas
<1>7. Bloqueo'
  BY <1>0, <1>u, <1>l, <1>d, <1>v DEF Bloqueo, Respuesta
<1> QED  BY <1>u, <1>1, <1>2, <1>3, <1>4, <1>5, <1>6, <1>7 DEF IInvCpu

-----------------------------------------------------------------------------
(* The end of the burst *)

LEMMA FinQueda ==
  ASSUME IInvCpu, cpu = "ejecutando", UNCHANGED soloRafaga, cpu' \in {"ociosa", "muerta"}
  PROVE  /\ UNCHANGED pila /\ nuevaPCB' = nuevaPCB /\ program_counter' = program_counter
         /\ quantum' = quantum /\ primitivas' = primitivas /\ desconectarCPU' = desconectarCPU
         /\ banderas' = banderas /\ esperado' = esperado /\ aCpu' = aCpu
         /\ kernel' = kernel /\ pcbKernel' = pcbKernel
         /\ el_quantum' = el_quantum /\ desfasada' = desfasada
         /\ Tipos' /\ Marcas' /\ Retoma' /\ Actual' = Actual /\ nuevaPCB # Nada
         /\ kernel # "cerrada" /\ aKernel = <<>>
<1>0. Tipos /\ Charla /\ Marcas /\ Retoma
  BY DEF IInvCpu
<1>u. /\ UNCHANGED pila /\ nuevaPCB' = nuevaPCB /\ program_counter' = program_counter
      /\ quantum' = quantum /\ primitivas' = primitivas /\ desconectarCPU' = desconectarCPU
      /\ banderas' = banderas /\ esperado' = esperado /\ aCpu' = aCpu
      /\ kernel' = kernel /\ pcbKernel' = pcbKernel
      /\ el_quantum' = el_quantum /\ desfasada' = desfasada
  BY DEF soloRafaga, delKernel
<1>p. /\ IInv' /\ stack_index' = stack_index /\ stackPointer' = stackPointer
      /\ TypeOKPila' /\ (stackPointer <= tamanioStack * tamanioPagina)'
  BY <1>0, <1>u, PilaQuieta DEF Tipos
<1>1. Tipos'
  <2>1. TypeOK'
    BY <1>0, <1>u, <1>p DEF Tipos, TypeOK
  <2> QED  BY <1>0, <1>u, <1>p, <2>1 DEF Tipos
<1>2. Marcas'
  BY <1>0, <1>u DEF Marcas
<1>3. kernel # "cerrada" /\ aKernel = <<>>
  BY <1>0 DEF Charla
<1>4. Retoma'
  <2>1. ~Continua /\ Fresca' = Fresca
    BY <1>u DEF Continua, Parada, Fresca
  <2> QED  BY <1>0, <1>u, <1>p, <1>3, <2>1 DEF Retoma
<1>5. Actual' = Actual
  BY <1>u, <1>p, ActualIgual
<1>6. nuevaPCB # Nada
  BY <1>0 DEF Tipos, TypeOK
<1> QED  BY <1>u, <1>1, <1>2, <1>3, <1>4, <1>5, <1>6

\* What a CPU gives a process back with
Devueltos == {Devuelve(10, Actual), Devuelve(13, Actual), DevuelveConError(-5, Actual),
              DevuelveConError(-17, Actual)}

LEMMA FinDevuelve ==
  ASSUME IInvCpu, cpu = "ejecutando", UNCHANGED soloRafaga, cpu' \in {"ociosa", "muerta"},
         NEW m \in Devueltos, aKernel' = Append(aKernel, m),
         m = Devuelve(13, Actual) => "programaTerminado" \notin banderas,
         \/ /\ rarezas' = rarezas /\ ~Abortado
            /\ "procesoBloqueado" \in banderas => m = Devuelve(10, Actual)
         \/ rarezas' = rarezas \cup {"baja al bloquearse"}
         \/ rarezas' = rarezas \cup {"excepcion tras un aborto"} /\ Abortado
  PROVE  IInvCpu' /\ UNCHANGED pila
<1>0. Charla /\ Fases /\ Rarezas /\ Bloqueo /\ Marcas
  BY DEF IInvCpu
<1>u. /\ UNCHANGED pila /\ nuevaPCB' = nuevaPCB /\ banderas' = banderas
      /\ aCpu' = aCpu /\ kernel' = kernel /\ pcbKernel' = pcbKernel
      /\ el_quantum' = el_quantum /\ desfasada' = desfasada
      /\ Tipos' /\ Marcas' /\ Retoma' /\ Actual' = Actual /\ nuevaPCB # Nada
      /\ kernel # "cerrada" /\ aKernel = <<>>
  BY FinQueda
<1>d. Parada' /\ cpu' # "ejecutando" /\ cpu' # "recv" /\ cpu' # "colgada"
  BY DEF Parada
<1>1. aKernel' = <<m>>
  BY <1>u, UnoSolo
<1>2. Vuelta'
  <2>1. /\ Devuelve(10, Actual)' = Devuelve(10, Actual) /\ Devuelve(13, Actual)' = Devuelve(13, Actual)
        /\ DevuelveConError(-5, Actual)' = DevuelveConError(-5, Actual)
        /\ DevuelveConError(-17, Actual)' = DevuelveConError(-17, Actual)
    BY <1>u DEF Devuelve, DevuelveConError
  <2>2. nuevaPCB' # Nada
    BY <1>u
  <2>3. CASE m = Devuelve(10, Actual)
    BY <1>1, <2>1, <2>2, <2>3, Zenon DEF Vuelta
  <2>4. CASE m = Devuelve(13, Actual)
    <3>1. "programaTerminado" \notin banderas'
      BY <1>u, <2>4
    <3> QED  BY <1>1, <2>1, <2>2, <2>4, <3>1, Zenon DEF Vuelta
  <2>5. CASE m = DevuelveConError(-5, Actual)
    BY <1>1, <2>1, <2>2, <2>5, Zenon DEF Vuelta
  <2>6. CASE m = DevuelveConError(-17, Actual)
    BY <1>1, <2>1, <2>2, <2>6, Zenon DEF Vuelta
  <2> QED  BY <2>3, <2>4, <2>5, <2>6 DEF Devueltos
<1>3. Charla'
  BY <1>u, <1>d, <1>2 DEF Charla
<1>4. rarezas # {} => Abortado
  BY <1>0 DEF Rarezas
<1>5. kernel = "bloquea" => banderas = {"procesoBloqueado"} /\ aCpu = <<>>
  BY <1>0 DEF Bloqueo, Parada
<1>6. Fases'
  <2> SUFFICES ASSUME rarezas' = {}
               PROVE  ~desfasada' /\ kernel' # "varada" /\ FaseParada'
    BY <1>d DEF Fases
  <2>1. /\ rarezas = {} /\ ~Abortado
        /\ "procesoBloqueado" \in banderas => m = Devuelve(10, Actual)
    OBVIOUS
  <2>2. ~desfasada /\ kernel # "varada" /\ FaseEjecutando
    BY <1>0, <2>1 DEF Fases
  <2>3. CASE kernel = "ejecuta" /\ SinNada /\ nuevaPCB = pcbKernel
    <3>1. Mismo' /\ aCpu' = <<>> /\ kernel' = "ejecuta"
      BY <1>u, <2>3 DEF Mismo, SinNada
    <3>2. FaseParada'
      BY <3>1, <1>2 DEF FaseParada
    <3> QED  BY <1>u, <2>2, <3>2
  <2>4. CASE kernel = "bloquea" /\ SinNada /\ banderas = {"procesoBloqueado"}
    <3>1. m = Devuelve(10, Actual)
      BY <2>1, <2>4
    <3>2. Devuelve(10, Actual)' = Devuelve(10, Actual)
      BY <1>u DEF Devuelve
    <3>3. aKernel' = <<Devuelve(10, Actual)'>>
      BY <1>1, <3>1, <3>2
    <3>4. kernel' = "bloquea" /\ aCpu' = <<>> /\ nuevaPCB' # Nada
      BY <1>u, <2>4 DEF SinNada
    <3>5. FaseParada'
      BY <3>3, <3>4, Zenon DEF FaseParada
    <3> QED  BY <1>u, <2>2, <3>5
  <2> QED  BY <2>1, <2>2, <2>3, <2>4 DEF FaseEjecutando
<1>7. Rarezas'
  <2>1. desfasada => kernel = "varada"
    BY <1>0 DEF Rarezas
  <2>2. ASSUME rarezas' # {}, rarezas' \cap Desfases = {}
        PROVE  ~desfasada' /\ kernel' \notin {"varada", "bloquea"}
    <3>1. rarezas' # rarezas \cup {"baja al bloquearse"}
      BY <2>2 DEF Desfases
    <3>2. Abortado
      BY <3>1, <2>2, <1>4
    <3>3. kernel # "bloquea"
      <4>1. "procesoAbortado" \in banderas
        BY <3>2 DEF Abortado
      <4>2. "procesoAbortado" \notin {"procesoBloqueado"}
        OBVIOUS
      <4> QED  BY <4>1, <4>2, <1>5
    <3>4. CASE rarezas = {}
      BY <1>0, <1>u, <3>3, <3>4 DEF Fases
    <3>5. CASE rarezas # {}
      <4>1. rarezas \cap Desfases = {}
        BY <2>2, <3>1
      <4> QED  BY <1>0, <1>u, <3>5, <4>1 DEF Rarezas
    <3> QED  BY <3>4, <3>5
  <2> QED  BY <1>u, <1>d, <2>1, <2>2 DEF Rarezas
<1>8. Bloqueo'
  BY <1>u, <1>d, <1>2, <1>5 DEF Bloqueo
<1> QED  BY <1>u, <1>3, <1>6, <1>7, <1>8 DEF IInvCpu

LEMMA FinesMantienen ==
  ASSUME IInvCpu, FinTerminado \/ FinBloqueado \/ FinDeQuantum \/ FinExcepcion
  PROVE  IInvCpu' /\ UNCHANGED pila
<1>0. Marcas
  BY DEF IInvCpu
<1>t. ASSUME TrasRafaga
      PROVE  cpu' \in {"ociosa", "muerta"}
  BY <1>t DEF TrasRafaga
<1>1. CASE FinTerminado
  <2>1. /\ cpu = "ejecutando" /\ "programaTerminado" \in banderas /\ TrasRafaga
        /\ aKernel' = Append(aKernel, Devuelve(10, Actual))
        /\ UNCHANGED soloRafaga /\ rarezas' = rarezas
    BY <1>1 DEF FinTerminado, Fin, Envia
  <2>2. ~Abortado /\ "procesoBloqueado" \notin banderas
    BY <1>0, <2>1 DEF Marcas, Abortado
  <2>3. Devuelve(10, Actual) # Devuelve(13, Actual)
    BY DevuelveEs
  <2>4. Devuelve(10, Actual) \in Devueltos
    BY DEF Devueltos
  <2> QED  BY <1>t, <2>1, <2>2, <2>3, <2>4, FinDevuelve
<1>2. CASE FinBloqueado
  <2>1. /\ cpu = "ejecutando" /\ "programaTerminado" \notin banderas
        /\ "procesoBloqueado" \in banderas /\ TrasRafaga /\ UNCHANGED soloRafaga
    BY <1>2 DEF FinBloqueado, Fin
  <2>2. ~Abortado
    BY <1>0, <2>1 DEF Marcas, Abortado
  <2>3. CASE /\ aKernel' = Append(aKernel, DevuelveConError(-17, Actual))
             /\ rarezas' = rarezas \cup {"baja al bloquearse"}
    <3>1. DevuelveConError(-17, Actual) \in Devueltos
      BY DEF Devueltos
    <3> QED  BY <1>t, <2>1, <2>3, <3>1, FinDevuelve
  <2>4. CASE aKernel' = Append(aKernel, Devuelve(10, Actual)) /\ rarezas' = rarezas
    <3>1. Devuelve(10, Actual) \in Devueltos
      BY DEF Devueltos
    <3> QED  BY <1>t, <2>1, <2>2, <2>4, <3>1, FinDevuelve
  <2> QED  BY <1>2, <2>3, <2>4 DEF FinBloqueado, Envia
<1>3. CASE FinDeQuantum
  <2>1. cpu = "ejecutando" /\ banderas = {} /\ TrasRafaga /\ UNCHANGED soloRafaga /\ rarezas' = rarezas
    BY <1>3 DEF FinDeQuantum, Fin
  <2>2. ~Abortado /\ "procesoBloqueado" \notin banderas /\ "programaTerminado" \notin banderas
    BY <2>1 DEF Abortado
  <2>3. PICK m \in {DevuelveConError(-17, Actual), Devuelve(13, Actual)} : aKernel' = Append(aKernel, m)
    BY <1>3 DEF FinDeQuantum, Envia
  <2>4. m \in Devueltos
    BY DEF Devueltos
  <2> QED  BY <1>t, <2>1, <2>2, <2>3, <2>4, FinDevuelve
<1>4. CASE FinExcepcion
  <2>1. /\ cpu = "ejecutando" /\ TrasRafaga /\ UNCHANGED soloRafaga
        /\ banderas \cap {"programaTerminado", "procesoBloqueado"} = {}
        /\ aKernel' = Append(aKernel, DevuelveConError(-5, Actual))
    BY <1>4 DEF FinExcepcion, Fin, Envia
  <2>2. \/ rarezas' = rarezas /\ ~Abortado
        \/ rarezas' = rarezas \cup {"excepcion tras un aborto"} /\ Abortado
    BY <1>4 DEF FinExcepcion, Abortado
  <2>3. "procesoBloqueado" \notin banderas /\ "programaTerminado" \notin banderas
    BY <2>1
  <2>4. DevuelveConError(-5, Actual) \in Devueltos
    BY DEF Devueltos
  <2> QED  BY <1>t, <2>1, <2>2, <2>3, <2>4, FinDevuelve
<1> QED  BY <1>1, <1>2, <1>3, <1>4

LEMMA FinSinAvisoMantiene ==
  ASSUME IInvCpu, FinSinAviso
  PROVE  IInvCpu' /\ UNCHANGED pila
<1>0. Charla /\ Fases /\ Rarezas /\ Bloqueo
  BY DEF IInvCpu
<1>l. /\ cpu = "ejecutando" /\ UNCHANGED soloRafaga /\ cpu' \in {"ociosa", "muerta"}
      /\ aKernel' = aKernel
      /\ \/ banderas = {"procesoAbortado"} /\ rarezas' = rarezas
         \/ banderas = {} /\ rarezas' = rarezas \cup {"programa sin end"}
  BY DEF FinSinAviso, Fin, TrasRafaga
<1>u. /\ UNCHANGED pila /\ nuevaPCB' = nuevaPCB /\ banderas' = banderas
      /\ aCpu' = aCpu /\ kernel' = kernel /\ pcbKernel' = pcbKernel
      /\ el_quantum' = el_quantum /\ desfasada' = desfasada
      /\ Tipos' /\ Marcas' /\ Retoma' /\ Actual' = Actual /\ nuevaPCB # Nada
      /\ kernel # "cerrada" /\ aKernel = <<>>
  BY <1>l, FinQueda
<1>d. Parada' /\ cpu' # "ejecutando" /\ cpu' # "recv" /\ cpu' # "colgada"
  BY <1>l DEF Parada
<1>1. Charla'
  BY <1>l, <1>u, <1>d DEF Charla
<1>2. rarezas # {} => Abortado
  BY <1>0, <1>l DEF Rarezas
<1>3. kernel # "bloquea"
  BY <1>0, <1>l DEF Bloqueo, Parada
<1>4. Fases'
  <2> SUFFICES ASSUME rarezas' = {}
               PROVE  ~desfasada' /\ kernel' # "varada" /\ FaseParada'
    BY <1>d DEF Fases
  <2>1. rarezas = {} /\ Abortado
    BY <1>l DEF Abortado
  <2>2. ~desfasada /\ kernel # "varada" /\ FaseEjecutando
    BY <1>0, <1>l, <2>1 DEF Fases
  <2>3. ASSUME kernel = "libre", SinNada, ~Mismo
        PROVE  FaseParada'
    <3>1. SinNada' /\ ~Mismo' /\ kernel' = "libre"
      BY <1>l, <1>u, <2>3 DEF SinNada, Mismo
    <3> QED  BY <3>1 DEF FaseParada
  <2>4. ASSUME kernel = "ejecuta", EnViaje, Fresca
        PROVE  FaseParada'
    <3>1. EnViaje' /\ Fresca' /\ kernel' = "ejecuta"
      BY <1>l, <1>u, <2>4 DEF EnViaje, Fresca, Despacho
    <3> QED  BY <3>1 DEF FaseParada
  <2>5. FaseParada'
    BY <2>1, <2>2, <2>3, <2>4, <1>3 DEF FaseEjecutando
  <2> QED  BY <1>u, <2>2, <2>5
<1>5. Rarezas'
  <2>1. desfasada => kernel = "varada"
    BY <1>0, <1>l DEF Rarezas
  <2>2. ASSUME rarezas' # {}, rarezas' \cap Desfases = {}
        PROVE  ~desfasada' /\ kernel' \notin {"varada", "bloquea"}
    <3>1. CASE rarezas = {}
      BY <1>0, <1>u, <1>3, <3>1 DEF Fases
    <3>2. CASE rarezas # {}
      <4>1. rarezas \cap Desfases = {}
        BY <1>l, <2>2
      <4> QED  BY <1>0, <1>u, <3>2, <4>1 DEF Rarezas
    <3> QED  BY <3>1, <3>2
  <2> QED  BY <1>u, <1>d, <2>1, <2>2 DEF Rarezas
<1>6. Bloqueo'
  BY <1>u, <1>3 DEF Bloqueo
<1> QED  BY <1>u, <1>1, <1>4, <1>5, <1>6 DEF IInvCpu

-----------------------------------------------------------------------------
(* The Kernel *)

LEMMA KernelQueda ==
  ASSUME IInvCpu, UNCHANGED soloKernel
  PROVE  /\ UNCHANGED pila /\ nuevaPCB' = nuevaPCB /\ program_counter' = program_counter
         /\ quantum' = quantum /\ cpu' = cpu /\ primitivas' = primitivas /\ banderas' = banderas
         /\ desconectarCPU' = desconectarCPU /\ esperado' = esperado /\ el_quantum' = el_quantum
         /\ Actual' = Actual /\ Abortado' = Abortado /\ Parada' = Parada
         /\ stack_index' = stack_index /\ stackPointer' = stackPointer
         /\ IInv' /\ TypeOKPila' /\ (stackPointer <= tamanioStack * tamanioPagina)'
<1>0. IInv
  BY DEF IInvCpu, Tipos
<1>u. /\ UNCHANGED pila /\ nuevaPCB' = nuevaPCB /\ program_counter' = program_counter
      /\ quantum' = quantum /\ cpu' = cpu /\ primitivas' = primitivas /\ banderas' = banderas
      /\ desconectarCPU' = desconectarCPU /\ esperado' = esperado /\ el_quantum' = el_quantum
  BY DEF soloKernel, delCpu
<1>p. /\ IInv' /\ stack_index' = stack_index /\ stackPointer' = stackPointer
      /\ TypeOKPila' /\ (stackPointer <= tamanioStack * tamanioPagina)'
  BY <1>0, <1>u, PilaQuieta
<1>1. Actual' = Actual
  BY <1>u, <1>p, ActualIgual
<1>2. Abortado' = Abortado /\ Parada' = Parada
  BY <1>u DEF Abortado, Parada
<1> QED  BY <1>u, <1>p, <1>1, <1>2

\* A step of the Kernel keeps the types if what it writes has them
LEMMA KernelTipos ==
  ASSUME IInvCpu, UNCHANGED soloKernel, aCpu' \in Seq(Mensaje), pcbKernel' \in Pcbs,
         kernel' \in {"libre", "ejecuta", "bloquea", "varada", "cerrada"}, desfasada' \in BOOLEAN
  PROVE  Tipos'
<1>0. Tipos
  BY DEF IInvCpu
<1>u. /\ nuevaPCB' = nuevaPCB /\ program_counter' = program_counter
      /\ quantum' = quantum /\ cpu' = cpu /\ primitivas' = primitivas /\ banderas' = banderas
      /\ desconectarCPU' = desconectarCPU /\ esperado' = esperado /\ el_quantum' = el_quantum
      /\ IInv' /\ TypeOKPila' /\ (stackPointer <= tamanioStack * tamanioPagina)'
  BY KernelQueda
<1>1. TypeOK'
  BY <1>0, <1>u DEF Tipos, TypeOK
<1> QED  BY <1>u, <1>1 DEF Tipos

LEMMA DespacharMantiene ==
  ASSUME IInvCpu, Despachar
  PROVE  IInvCpu' /\ UNCHANGED pila
<1>0. Tipos /\ Charla /\ Marcas /\ Retoma /\ Fases /\ Rarezas /\ Bloqueo
  BY DEF IInvCpu
<1>l. /\ kernel = "libre" /\ kernel' = "ejecuta" /\ pcbKernel' = pcbKernel /\ aKernel' = aKernel
      /\ aCpu' = Append(aCpu, Despacho(el_quantum, pcbKernel)) /\ UNCHANGED soloKernel
      /\ desfasada' = desfasada /\ rarezas' = rarezas
  BY DEF Despachar, Envia, historia
<1>u. /\ UNCHANGED pila /\ nuevaPCB' = nuevaPCB /\ cpu' = cpu /\ primitivas' = primitivas
      /\ banderas' = banderas /\ esperado' = esperado /\ el_quantum' = el_quantum
      /\ Actual' = Actual /\ Abortado' = Abortado /\ Parada' = Parada
      /\ stack_index' = stack_index /\ stackPointer' = stackPointer
  BY <1>l, KernelQueda
<1>t. pcbKernel \in Pcbs /\ el_quantum \in Int /\ aCpu \in Seq(Mensaje)
  BY <1>0, CpuAssumption DEF Tipos, TypeOK
<1>D. PICK D : D = Despacho(el_quantum, pcbKernel)
  OBVIOUS
<1>m. D \in Mensaje /\ D.tipo = "despacho" /\ aCpu' = Append(aCpu, D)
  BY <1>t, <1>D, <1>l, DespachoEs
<1>E. D = Despacho(el_quantum, pcbKernel)'
  BY <1>D, <1>l, <1>u DEF Despacho
<1>a. /\ aCpu' \in Seq(Mensaje) /\ aCpu' # <<>> /\ (aCpu = <<>> => aCpu' = <<D>>)
      /\ aCpu # <<>> => /\ aCpu'[1] = aCpu[1] /\ Tail(aCpu) \in Seq(Mensaje)
                        /\ Tail(aCpu') = Append(Tail(aCpu), D)
  BY <1>t, <1>m, Colas
<1>1. Tipos'
  BY <1>0, <1>l, <1>a, KernelTipos DEF Tipos, TypeOK
<1>2. Cabeza(aCpu) => Cabeza(aCpu')
  BY <1>t, <1>m, UltimoAlFinal
<1>3. aCpu # <<>> /\ Cabeza(Tail(aCpu)) => Cabeza(Tail(aCpu'))
  BY <1>a, <1>m, UltimoAlFinal
<1>v. Vuelta' = Vuelta
  BY <1>u, <1>l DEF Vuelta, Devuelve, DevuelveConError
<1>4. Charla'
  <2>1. cpu = "ejecutando" => aKernel' = <<>> /\ Cabeza(aCpu')
    BY <1>0, <1>l, <1>2 DEF Charla
  <2>2. cpu = "recv" =>
          /\ esperado \in Pedidos
          /\ \/ aKernel = <<Pedido(esperado)>> /\ Cabeza(aCpu')
             \/ aKernel = <<>> /\ aCpu' # <<>> /\ aCpu'[1].tipo = "despacho"
             \/ /\ aKernel = <<>> /\ aCpu' # <<>> /\ aCpu'[1].tipo = "respuesta"
                /\ aCpu'[1].op = esperado /\ Cabeza(Tail(aCpu'))
    BY <1>0, <1>a, <1>2, <1>3 DEF Charla
  <2>3. Pedido(esperado)' = Pedido(esperado) /\ Cabeza(aCpu)' = Cabeza(aCpu')
    BY <1>u DEF Pedido, Cabeza
  <2>4. Cabeza(Tail(aCpu))' = Cabeza(Tail(aCpu'))
    BY DEF Cabeza
  <2>5. (cpu = "recv" =>
          /\ esperado \in Pedidos
          /\ \/ aKernel = <<Pedido(esperado)>> /\ Cabeza(aCpu)
             \/ aKernel = <<>> /\ aCpu # <<>> /\ aCpu[1].tipo = "despacho"
             \/ /\ aKernel = <<>> /\ aCpu # <<>> /\ aCpu[1].tipo = "respuesta"
                /\ aCpu[1].op = esperado /\ Cabeza(Tail(aCpu)))'
    BY <2>2, <2>3, <2>4, <1>u, <1>l
  <2>6. (cpu = "ejecutando" => aKernel = <<>> /\ Cabeza(aCpu))'
    BY <2>1, <2>3, <1>u
  <2>7. (cpu = "colgada" =>
          aKernel = <<>> \/ \E op \in Pedidos \ {"wait"} : aKernel = <<Pedido(op)>>)'
    BY <1>0, <1>u, <1>l DEF Charla, Pedido
  <2>8. (Parada => aKernel = <<>> \/ Vuelta)'
    BY <1>0, <1>u, <1>l, <1>v DEF Charla
  <2> QED  BY <1>l, <2>5, <2>6, <2>7, <2>8 DEF Charla
<1>5. Marcas'
  BY <1>0, <1>u, <1>l DEF Marcas
<1>6. Retoma'
  BY <1>0, <1>u, <1>l DEF Retoma
<1>c. /\ Fresca' = Fresca /\ Continua' = Continua /\ Mismo' = Mismo
      /\ Fresca \/ Continua
  BY <1>0, <1>u, <1>l DEF Fresca, Continua, Mismo, Retoma
<1>7. Fases'
  <2> SUFFICES ASSUME rarezas = {}
               PROVE  /\ ~desfasada' /\ kernel' # "varada"
                      /\ Parada' => FaseParada'
                      /\ cpu' = "ejecutando" => FaseEjecutando'
                      /\ cpu' = "recv" => FaseRecv'
                      /\ cpu' = "colgada" => kernel' = "ejecuta" /\ SinNada' /\ nuevaPCB' = pcbKernel'
    BY <1>l DEF Fases
  <2>1. ~desfasada' /\ kernel' # "varada"
    BY <1>0, <1>l DEF Fases
  <2>2. SinNada => EnViaje'
    BY <1>a, <1>l, <1>E DEF SinNada, EnViaje
  <2>3. ASSUME Parada
        PROVE  FaseParada'
    <3>1. FaseParada
      BY <1>0, <2>3 DEF Fases
    <3>2. SinNada
      BY <1>l, <3>1 DEF FaseParada
    <3> QED  BY <1>l, <1>c, <2>2, <3>2 DEF FaseParada
  <2>4. ASSUME cpu = "ejecutando"
        PROVE  FaseEjecutando'
    <3>1. FaseEjecutando
      BY <1>0, <2>4 DEF Fases
    <3>2. SinNada /\ Abortado /\ ~Mismo
      BY <1>l, <3>1 DEF FaseEjecutando
    <3>3. Fresca
      BY <1>c, <2>4 DEF Continua, Parada
    <3>4. EnViaje' /\ Abortado' /\ ~Mismo' /\ Fresca'
      BY <1>u, <1>c, <2>2, <3>2, <3>3
    <3> QED  BY <1>l, <3>4 DEF FaseEjecutando
  <2>5. ASSUME cpu = "recv"
        PROVE  FaseRecv'
    <3>1. FaseRecv
      BY <1>0, <2>5 DEF Fases
    <3>2. aKernel = <<>> /\ aCpu = <<Respuesta(esperado, -1, 0)>> /\ ~Mismo
      BY <1>l, <3>1 DEF FaseRecv
    <3>3. Fresca
      BY <1>c, <2>5 DEF Continua, Parada
    <3>4. aCpu' = <<Respuesta(esperado, -1, 0), D>>
      BY <3>2, <1>m, UnoSolo
    <3>5. Respuesta(esperado, -1, 0)' = Respuesta(esperado, -1, 0)
      BY <1>u DEF Respuesta
    <3>6. (aCpu = <<Respuesta(esperado, -1, 0), Despacho(el_quantum, pcbKernel)>>)'
      BY <3>4, <3>5, <1>E
    <3>7. kernel' = "ejecuta" /\ aKernel' = <<>> /\ ~Mismo' /\ Fresca'
      BY <1>l, <1>c, <3>2, <3>3
    <3> QED  BY <3>6, <3>7, Zenon DEF FaseRecv
  <2>6. cpu # "colgada"
    BY <1>0, <1>l DEF Fases
  <2> QED  BY <1>u, <2>1, <2>3, <2>4, <2>5, <2>6
<1>8. Rarezas'
  <2>1. ~Rechazado
    BY <1>l DEF Rechazado
  <2> QED  BY <1>0, <1>u, <1>l, <2>1 DEF Rarezas
<1>9. Bloqueo'
  BY <1>l DEF Bloqueo
<1> QED  BY <1>u, <1>1, <1>4, <1>5, <1>6, <1>7, <1>8, <1>9 DEF IInvCpu

\* A request on its way: the CPU waits for its answer, or never will again
LEMMA PedidoEnCamino ==
  ASSUME IInvCpu, aKernel # <<>>, aKernel[1].tipo = "pedido"
  PROVE  /\ cpu \in {"recv", "colgada"} /\ aKernel[1].op \in Pedidos /\ Tail(aKernel) = <<>>
         /\ cpu = "recv" => /\ aKernel = <<Pedido(esperado)>> /\ aKernel[1].op = esperado
                            /\ esperado \in Pedidos /\ Cabeza(aCpu)
         /\ cpu = "colgada" => aKernel[1].op # "wait"
<1>0. Tipos /\ Charla
  BY DEF IInvCpu
<1>1. ASSUME Parada
      PROVE  FALSE
  <2>1. Vuelta
    BY <1>0, <1>1 DEF Charla
  <2>2. PICK m : aKernel = <<m>> /\ m.tipo \in {"pcb", "error"}
    BY <2>1, DevuelveEs DEF Vuelta
  <2> QED  BY <2>2, UnoSolo
<1>2. cpu # "ejecutando"
  BY <1>0 DEF Charla
<1>3. cpu \in {"recv", "colgada"}
  BY <1>0, <1>1, <1>2 DEF Tipos, TypeOK, Parada
<1>4. CASE cpu = "recv"
  <2>1. aKernel = <<Pedido(esperado)>> /\ esperado \in Pedidos /\ Cabeza(aCpu)
    BY <1>0, <1>4 DEF Charla
  <2>2. aKernel[1] = Pedido(esperado) /\ Tail(aKernel) = <<>>
    BY <2>1, UnoSolo
  <2>3. aKernel[1].op = esperado
    BY <2>2, PedidoEs
  <2> QED  BY <1>4, <2>1, <2>2, <2>3
<1>5. CASE cpu = "colgada"
  <2>1. PICK op \in Pedidos \ {"wait"} : aKernel = <<Pedido(op)>>
    BY <1>0, <1>5 DEF Charla
  <2>2. aKernel[1] = Pedido(op) /\ Tail(aKernel) = <<>>
    BY <2>1, UnoSolo
  <2>3. aKernel[1].op = op
    BY <2>2, PedidoEs
  <2> QED  BY <1>5, <2>1, <2>2, <2>3
<1> QED  BY <1>3, <1>4, <1>5

\* Answering a request, whatever the answer and what becomes of the process
LEMMA ContestaQueda ==
  ASSUME IInvCpu, aKernel # <<>>, aKernel[1].tipo = "pedido", NEW v \in Int, NEW x \in Int,
         aCpu' = Append(aCpu, Respuesta(aKernel[1].op, v, x)), Consume, UNCHANGED soloKernel,
         desfasada' = desfasada, pcbKernel' \in Pcbs, kernel' \in {"libre", "ejecuta", "bloquea"}
  PROVE  /\ Tipos' /\ Charla' /\ aKernel' = <<>>
         /\ aCpu = <<>> => aCpu' = <<Respuesta(aKernel[1].op, v, x)>>
<1>0. Tipos /\ Charla
  BY DEF IInvCpu
<1>u. nuevaPCB' = nuevaPCB /\ cpu' = cpu /\ esperado' = esperado /\ Parada' = Parada
  BY KernelQueda
<1>1. /\ cpu \in {"recv", "colgada"} /\ aKernel[1].op \in Pedidos /\ Tail(aKernel) = <<>>
      /\ cpu = "recv" => /\ aKernel = <<Pedido(esperado)>> /\ aKernel[1].op = esperado
                         /\ esperado \in Pedidos /\ Cabeza(aCpu)
  BY PedidoEnCamino
<1>r. PICK r : r = Respuesta(aKernel[1].op, v, x)
  OBVIOUS
<1>2. r \in Mensaje /\ r.tipo = "respuesta" /\ r.op = aKernel[1].op /\ aCpu' = Append(aCpu, r)
  BY <1>1, <1>r, RespuestaEs
<1>3. aCpu \in Seq(Mensaje) /\ desfasada \in BOOLEAN
  BY <1>0 DEF Tipos, TypeOK
<1>4. /\ aCpu' \in Seq(Mensaje) /\ aCpu' # <<>> /\ (aCpu = <<>> => aCpu' = <<r>>)
      /\ aCpu # <<>> => aCpu'[1] = aCpu[1]
  BY <1>2, <1>3, Colas
<1>5. Tipos'
  <2>1. kernel' \in {"libre", "ejecuta", "bloquea", "varada", "cerrada"}
    OBVIOUS
  <2> QED  BY <1>3, <1>4, <2>1, KernelTipos
<1>6. aKernel' = <<>>
  BY <1>1 DEF Consume
<1>7. Charla'
  <2>1. ASSUME cpu = "recv"
        PROVE  /\ aCpu' # <<>>
               /\ \/ aCpu'[1].tipo = "despacho"
                  \/ aCpu'[1].tipo = "respuesta" /\ aCpu'[1].op = esperado' /\ Cabeza(Tail(aCpu'))
    <3>1. CASE aCpu = <<>>
      <4>1. aCpu'[1] = r /\ Tail(aCpu') = <<>>
        BY <1>4, <3>1, UnoSolo
      <4> QED  BY <1>1, <1>2, <1>4, <1>u, <2>1, <4>1 DEF Cabeza
    <3>2. CASE aCpu # <<>>
      BY <1>1, <1>4, <2>1, <3>2 DEF Cabeza
    <3> QED  BY <3>1, <3>2
  <2>2. Cabeza(Tail(aCpu))' = Cabeza(Tail(aCpu'))
    BY DEF Cabeza
  <2>3. (cpu = "recv" =>
          /\ esperado \in Pedidos
          /\ \/ aKernel = <<Pedido(esperado)>> /\ Cabeza(aCpu)
             \/ aKernel = <<>> /\ aCpu # <<>> /\ aCpu[1].tipo = "despacho"
             \/ /\ aKernel = <<>> /\ aCpu # <<>> /\ aCpu[1].tipo = "respuesta"
                /\ aCpu[1].op = esperado /\ Cabeza(Tail(aCpu)))'
    BY <1>u, <1>1, <1>6, <2>1, <2>2
  <2>4. cpu' # "ejecutando" /\ ~Parada'
    BY <1>u, <1>1 DEF Parada
  <2>5. kernel' # "cerrada"
    OBVIOUS
  <2> QED  BY <1>6, <2>3, <2>4, <2>5 DEF Charla
<1> QED  BY <1>4, <1>5, <1>6, <1>7, <1>r

\* Before it is answered: the process the CPU has is the one the Kernel takes it to execute
LEMMA FaseDelPedido ==
  ASSUME IInvCpu, aKernel # <<>>, aKernel[1].tipo = "pedido"
  PROVE  /\ rarezas = {} => /\ cpu = "recv" /\ kernel = "ejecuta" /\ aCpu = <<>> /\ ~Abortado
                            /\ nuevaPCB = pcbKernel /\ ~desfasada
         /\ rarezas # {} => /\ rarezas \cap Desfases # {}
                            /\ cpu = "recv" => Abortado
         /\ ~Rechazado
<1>0. Fases /\ Rarezas
  BY DEF IInvCpu
<1>1. cpu \in {"recv", "colgada"}
  BY PedidoEnCamino
<1>2. ~Rechazado
  BY DEF Rechazado
<1>3. ASSUME rarezas = {}
      PROVE  /\ cpu = "recv" /\ kernel = "ejecuta" /\ aCpu = <<>> /\ ~Abortado
             /\ nuevaPCB = pcbKernel /\ ~desfasada
  <2>1. cpu # "colgada"
    BY <1>0, <1>3 DEF Fases, SinNada
  <2>2. FaseRecv /\ ~desfasada
    BY <1>0, <1>1, <1>3, <2>1 DEF Fases
  <2> QED  BY <1>1, <2>1, <2>2 DEF FaseRecv
<1>4. ASSUME rarezas # {}
      PROVE  /\ rarezas \cap Desfases # {}
             /\ cpu = "recv" => Abortado
  BY <1>0, <1>1, <1>2, <1>4 DEF Rarezas
<1> QED  BY <1>2, <1>3, <1>4

LEMMA AtenderBienMantiene ==
  ASSUME IInvCpu, AtenderBien
  PROVE  IInvCpu' /\ UNCHANGED pila
<1>0. Tipos /\ Marcas /\ Retoma /\ Fases /\ Rarezas
  BY DEF IInvCpu
<1>l. /\ aKernel # <<>> /\ aKernel[1].tipo = "pedido" /\ kernel \in {"libre", "ejecuta"}
      /\ aCpu' = Append(aCpu, Respuesta(aKernel[1].op, 1, 0)) /\ Consume /\ UNCHANGED soloKernel
      /\ kernel' = kernel /\ pcbKernel' = pcbKernel
      /\ desfasada' = desfasada /\ rarezas' = rarezas
  BY DEF AtenderBien, Atiende, Escucha, Contesta, Envia, historia
<1>u. /\ UNCHANGED pila /\ nuevaPCB' = nuevaPCB /\ cpu' = cpu /\ primitivas' = primitivas
      /\ banderas' = banderas /\ esperado' = esperado /\ el_quantum' = el_quantum
      /\ Abortado' = Abortado /\ Parada' = Parada
      /\ stack_index' = stack_index /\ stackPointer' = stackPointer
  BY <1>l, KernelQueda
<1>1. /\ cpu \in {"recv", "colgada"}
      /\ cpu = "recv" => /\ aKernel = <<Pedido(esperado)>> /\ aKernel[1].op = esperado
                         /\ esperado \in Pedidos /\ Cabeza(aCpu)
  BY <1>l, PedidoEnCamino
<1>2. /\ Tipos' /\ Charla' /\ aKernel' = <<>>
      /\ aCpu = <<>> => aCpu' = <<Respuesta(aKernel[1].op, 1, 0)>>
  <2>1. 1 \in Int /\ 0 \in Int /\ pcbKernel' \in Pcbs
    BY <1>0, <1>l DEF Tipos, TypeOK
  <2>2. kernel' \in {"libre", "ejecuta", "bloquea"}
    BY <1>l
  <2> QED  BY <1>l, <2>1, <2>2, ContestaQueda
<1>3. /\ rarezas = {} => /\ cpu = "recv" /\ kernel = "ejecuta" /\ aCpu = <<>> /\ ~Abortado
                         /\ nuevaPCB = pcbKernel /\ ~desfasada
      /\ rarezas # {} => /\ rarezas \cap Desfases # {}
                         /\ cpu = "recv" => Abortado
  BY <1>l, FaseDelPedido
<1>4. Marcas'
  BY <1>0, <1>u, <1>l DEF Marcas
<1>5. Retoma'
  <2>1. Fresca' = Fresca /\ Continua' = Continua
    BY <1>u, <1>l DEF Fresca, Continua
  <2> QED  BY <1>0, <1>u, <1>l, <2>1 DEF Retoma
<1>6. Fases'
  <2> SUFFICES ASSUME rarezas = {}
               PROVE  ~desfasada' /\ kernel' # "varada" /\ cpu' = "recv" /\ FaseRecv'
    BY <1>l DEF Fases, Parada
  <2>1. Respuesta(esperado, 1, 0)' = Respuesta(esperado, 1, 0)
    BY <1>u DEF Respuesta
  <2>2. (aCpu = <<Respuesta(esperado, 1, 0)>>)'
    BY <1>1, <1>2, <1>3, <2>1
  <2>3. kernel' = "ejecuta" /\ aKernel' = <<>> /\ ~Abortado' /\ nuevaPCB' = pcbKernel'
    BY <1>u, <1>l, <1>2, <1>3
  <2>4. FaseRecv'
    BY <2>2, <2>3, Zenon DEF FaseRecv
  <2> QED  BY <1>u, <1>l, <1>3, <2>4
<1>7. Rarezas'
  <2>1. desfasada => cpu = "colgada" \/ kernel = "varada"
    BY <1>0 DEF Rarezas
  <2> QED  BY <1>u, <1>l, <1>1, <1>3, <2>1 DEF Rarezas
<1>8. Bloqueo'
  BY <1>l DEF Bloqueo
<1> QED  BY <1>u, <1>2, <1>4, <1>5, <1>6, <1>7, <1>8 DEF IInvCpu

LEMMA AtenderMalMantiene ==
  ASSUME IInvCpu, AtenderMal
  PROVE  IInvCpu' /\ UNCHANGED pila
<1>0. Tipos /\ Marcas /\ Retoma /\ Fases /\ Rarezas
  BY DEF IInvCpu
<1>l. /\ aKernel # <<>> /\ aKernel[1].tipo = "pedido" /\ kernel \in {"libre", "ejecuta"}
      /\ aCpu' = Append(aCpu, Respuesta(aKernel[1].op, -1, 0)) /\ Consume /\ UNCHANGED soloKernel
      /\ kernel' = "libre"
      /\ pcbKernel' = (IF kernel = "ejecuta" THEN create_PCB(Siguiente(pcbKernel.pid)) ELSE pcbKernel)
      /\ desfasada' = desfasada /\ rarezas' = rarezas
  BY DEF AtenderMal, Atiende, Escucha, abort_process, Desocupa, Contesta, Envia, historia
<1>u. /\ UNCHANGED pila /\ nuevaPCB' = nuevaPCB /\ cpu' = cpu /\ primitivas' = primitivas
      /\ banderas' = banderas /\ esperado' = esperado /\ el_quantum' = el_quantum
      /\ Abortado' = Abortado /\ Parada' = Parada
      /\ stack_index' = stack_index /\ stackPointer' = stackPointer
  BY <1>l, KernelQueda
<1>1. /\ cpu \in {"recv", "colgada"}
      /\ cpu = "recv" => /\ aKernel = <<Pedido(esperado)>> /\ aKernel[1].op = esperado
                         /\ esperado \in Pedidos /\ Cabeza(aCpu)
  BY <1>l, PedidoEnCamino
<1>o. /\ create_PCB(Siguiente(pcbKernel.pid)) \in Pcbs
      /\ create_PCB(Siguiente(pcbKernel.pid)).pid # pcbKernel.pid
      /\ create_PCB(Siguiente(pcbKernel.pid)).stack_index = <<>>
      /\ create_PCB(Siguiente(pcbKernel.pid)).stackPointer = 0
  BY <1>0, OtroProceso
<1>2. /\ Tipos' /\ Charla' /\ aKernel' = <<>>
      /\ aCpu = <<>> => aCpu' = <<Respuesta(aKernel[1].op, -1, 0)>>
  <2>1. -1 \in Int /\ 0 \in Int /\ pcbKernel' \in Pcbs
    BY <1>0, <1>l, <1>o DEF Tipos, TypeOK
  <2>2. kernel' \in {"libre", "ejecuta", "bloquea"}
    BY <1>l
  <2> QED  BY <1>l, <2>1, <2>2, ContestaQueda
<1>3. /\ rarezas = {} => /\ cpu = "recv" /\ kernel = "ejecuta" /\ aCpu = <<>> /\ ~Abortado
                         /\ nuevaPCB = pcbKernel /\ ~desfasada
      /\ rarezas # {} => /\ rarezas \cap Desfases # {}
                         /\ cpu = "recv" => Abortado
  BY <1>l, FaseDelPedido
<1>4. Marcas'
  BY <1>0, <1>u, <1>l DEF Marcas
<1>5. Retoma'
  <2>1. Fresca'
    <3>1. CASE kernel = "ejecuta"
      BY <1>l, <1>o, <3>1 DEF Fresca
    <3>2. CASE kernel = "libre"
      <4>1. ~Continua
        BY <1>1 DEF Continua, Parada
      <4> QED  BY <1>0, <1>l, <3>2, <4>1 DEF Fresca, Retoma
    <3> QED  BY <1>l, <3>1, <3>2
  <2> QED  BY <1>0, <1>u, <2>1 DEF Retoma
<1>6. Fases'
  <2> SUFFICES ASSUME rarezas = {}
               PROVE  ~desfasada' /\ kernel' # "varada" /\ cpu' = "recv" /\ FaseRecv'
    BY <1>l DEF Fases, Parada
  <2>1. Respuesta(esperado, -1, 0)' = Respuesta(esperado, -1, 0)
    BY <1>u DEF Respuesta
  <2>2. (aCpu = <<Respuesta(esperado, -1, 0)>>)'
    BY <1>1, <1>2, <1>3, <2>1
  <2>3. ~Mismo'
    BY <1>u, <1>l, <1>o, <1>3 DEF Mismo
  <2>4. kernel' = "libre" /\ aKernel' = <<>>
    BY <1>l, <1>2
  <2>5. FaseRecv'
    BY <2>2, <2>3, <2>4, Zenon DEF FaseRecv
  <2> QED  BY <1>u, <1>l, <1>3, <2>5
<1>7. Rarezas'
  <2>1. desfasada => cpu = "colgada"
    BY <1>0, <1>l DEF Rarezas
  <2> QED  BY <1>u, <1>l, <1>1, <1>3, <2>1 DEF Rarezas
<1>8. Bloqueo'
  BY <1>l DEF Bloqueo
<1> QED  BY <1>u, <1>2, <1>4, <1>5, <1>6, <1>7, <1>8 DEF IInvCpu

LEMMA AtenderWaitMantiene ==
  ASSUME IInvCpu, AtenderWait
  PROVE  IInvCpu' /\ UNCHANGED pila
<1>0. Tipos /\ Marcas /\ Retoma /\ Fases /\ Rarezas
  BY DEF IInvCpu
<1>l. /\ aKernel # <<>> /\ aKernel[1].tipo = "pedido" /\ kernel \in {"libre", "ejecuta"}
      /\ aKernel[1].op = "wait"
      /\ aCpu' = Append(aCpu, Respuesta(aKernel[1].op, 1, -1)) /\ Consume /\ UNCHANGED soloKernel
      /\ kernel' = "bloquea" /\ pcbKernel' = pcbKernel
      /\ desfasada' = desfasada /\ rarezas' = rarezas
  BY DEF AtenderWait, Atiende, Escucha, Contesta, Envia, historia
<1>u. /\ UNCHANGED pila /\ nuevaPCB' = nuevaPCB /\ cpu' = cpu /\ primitivas' = primitivas
      /\ banderas' = banderas /\ esperado' = esperado /\ el_quantum' = el_quantum
      /\ Abortado' = Abortado /\ Parada' = Parada
      /\ stack_index' = stack_index /\ stackPointer' = stackPointer
  BY <1>l, KernelQueda
<1>1. cpu = "recv" /\ esperado = "wait"
  BY <1>l, PedidoEnCamino
<1>2. /\ Tipos' /\ Charla' /\ aKernel' = <<>>
      /\ aCpu = <<>> => aCpu' = <<Respuesta(aKernel[1].op, 1, -1)>>
  <2>1. 1 \in Int /\ -1 \in Int /\ pcbKernel' \in Pcbs
    BY <1>0, <1>l DEF Tipos, TypeOK
  <2>2. kernel' \in {"libre", "ejecuta", "bloquea"}
    BY <1>l
  <2> QED  BY <1>l, <2>1, <2>2, ContestaQueda
<1>m. banderas = {} /\ rarezas = {}
  BY <1>0, <1>1 DEF Marcas
<1>3. aCpu = <<>> /\ ~desfasada
  BY <1>l, <1>m, FaseDelPedido
<1>4. Marcas'
  BY <1>0, <1>u, <1>l DEF Marcas
<1>5. Retoma'
  BY <1>0, <1>u, <1>l DEF Retoma
<1>6. aCpu' = <<Respuesta("wait", 1, -1)>>
  BY <1>l, <1>2, <1>3
<1>7. Fases'
  <2>1. Respuesta(esperado, 1, -1)' = Respuesta("wait", 1, -1)
    BY <1>u, <1>1 DEF Respuesta
  <2>2. (aCpu = <<Respuesta(esperado, 1, -1)>>)'
    BY <1>6, <2>1
  <2>3. kernel' = "bloquea" /\ aKernel' = <<>> /\ banderas' = {} /\ esperado' = "wait"
    BY <1>u, <1>l, <1>1, <1>2, <1>m
  <2>4. FaseRecv'
    BY <2>2, <2>3, Zenon DEF FaseRecv
  <2> QED  BY <1>u, <1>l, <1>1, <1>3, <2>4 DEF Fases, Parada
<1>8. Rarezas'
  BY <1>u, <1>l, <1>m, <1>3 DEF Rarezas
<1>9. Bloqueo'
  <2>1. Respuesta("wait", 1, -1)' = Respuesta("wait", 1, -1)
    BY DEF Respuesta
  <2> QED  BY <1>u, <1>1, <1>2, <1>m, <1>6, <2>1, Zenon DEF Bloqueo
<1> QED  BY <1>u, <1>2, <1>4, <1>5, <1>7, <1>8, <1>9 DEF IInvCpu

LEMMA AtenderBorrarMalMantiene ==
  ASSUME IInvCpu, AtenderBorrarMal
  PROVE  IInvCpu' /\ UNCHANGED pila
<1>0. Tipos /\ Marcas /\ Retoma /\ Fases /\ Rarezas
  BY DEF IInvCpu
<1>l. /\ aKernel # <<>> /\ aKernel[1].tipo = "pedido" /\ kernel \in {"libre", "ejecuta"}
      /\ aKernel[1].op = "borrar"
      /\ aCpu' = Append(aCpu, Respuesta(aKernel[1].op, -2, 0)) /\ Consume /\ UNCHANGED soloKernel
      /\ kernel' = kernel /\ pcbKernel' = pcbKernel
      /\ desfasada' = desfasada /\ rarezas' = rarezas \cup {"borrar rechazado"}
  BY DEF AtenderBorrarMal, Atiende, Escucha
<1>u. /\ UNCHANGED pila /\ nuevaPCB' = nuevaPCB /\ cpu' = cpu /\ primitivas' = primitivas
      /\ banderas' = banderas /\ esperado' = esperado /\ el_quantum' = el_quantum
      /\ Abortado' = Abortado /\ Parada' = Parada
      /\ stack_index' = stack_index /\ stackPointer' = stackPointer
  BY <1>l, KernelQueda
<1>1. /\ cpu \in {"recv", "colgada"}
      /\ cpu = "recv" => esperado = "borrar"
  BY <1>l, PedidoEnCamino
<1>2. /\ Tipos' /\ Charla' /\ aKernel' = <<>>
      /\ aCpu = <<>> => aCpu' = <<Respuesta(aKernel[1].op, -2, 0)>>
  <2>0. -2 \in Int /\ 0 \in Int
    OBVIOUS
  <2>1. pcbKernel' \in Pcbs
    <3>1. pcbKernel \in Pcbs
      BY <1>0 DEF Tipos, TypeOK
    <3> QED  BY <1>l, <3>1
  <2>2. kernel' \in {"libre", "ejecuta", "bloquea"}
    BY <1>l
  <2> QED  BY <1>l, <2>0, <2>1, <2>2, ContestaQueda
<1>3. /\ rarezas = {} => /\ cpu = "recv" /\ kernel = "ejecuta" /\ aCpu = <<>> /\ ~Abortado
                         /\ nuevaPCB = pcbKernel /\ ~desfasada
      /\ rarezas # {} => /\ rarezas \cap Desfases # {}
                         /\ cpu = "recv" => Abortado
  BY <1>l, FaseDelPedido
<1>4. Marcas'
  BY <1>0, <1>u, <1>l, <1>1 DEF Marcas
<1>5. Retoma'
  <2>1. Fresca' = Fresca /\ Continua' = Continua
    BY <1>u, <1>l DEF Fresca, Continua
  <2> QED  BY <1>0, <1>u, <1>l, <2>1 DEF Retoma
<1>6. Fases'
  BY <1>l DEF Fases
<1>7. Rarezas'
  <2>1. desfasada => cpu = "colgada" \/ kernel = "varada"
    BY <1>0 DEF Rarezas
  <2>2. ASSUME rarezas = {}
        PROVE  Rechazado'
    <3>1. Respuesta("borrar", -2, 0)' = Respuesta("borrar", -2, 0)
      BY DEF Respuesta
    <3>2. aCpu' = <<Respuesta("borrar", -2, 0)>>
      BY <1>l, <1>2, <1>3, <2>2
    <3>3. kernel' = "ejecuta" /\ aKernel' = <<>> /\ esperado' = "borrar"
      BY <1>u, <1>l, <1>1, <1>2, <1>3, <2>2
    <3> QED  BY <3>1, <3>2, <3>3, Zenon DEF Rechazado
  <2>3. rarezas # {} => rarezas' \cap Desfases # {}
    BY <1>l, <1>3
  <2> QED  BY <1>u, <1>l, <1>1, <1>3, <2>1, <2>2, <2>3 DEF Rarezas
<1>8. Bloqueo'
  BY <1>l DEF Bloqueo
<1> QED  BY <1>u, <1>2, <1>4, <1>5, <1>6, <1>7, <1>8 DEF IInvCpu

-----------------------------------------------------------------------------
(* The end of a burst, at the Kernel *)

\* A process given back: the CPU has stopped, and nothing follows
LEMMA VueltaEnCamino ==
  ASSUME IInvCpu, aKernel # <<>>, aKernel[1].tipo \in {"pcb", "error"}
  PROVE  Parada /\ Vuelta /\ Tail(aKernel) = <<>>
<1>0. Tipos /\ Charla
  BY DEF IInvCpu
<1>1. ASSUME NEW op, aKernel = <<Pedido(op)>>
      PROVE  FALSE
  <2>1. aKernel[1] = Pedido(op)
    BY <1>1, UnoSolo
  <2>2. aKernel[1].tipo = "pedido"
    BY <2>1, PedidoEs
  <2> QED  BY <2>2
<1>2. cpu # "ejecutando"
  BY <1>0 DEF Charla
<1>3. cpu # "recv"
  BY <1>0, <1>1 DEF Charla
<1>4. cpu # "colgada"
  BY <1>0, <1>1 DEF Charla
<1>5. Parada
  BY <1>0, <1>2, <1>3, <1>4 DEF Tipos, TypeOK, Parada
<1>6. Vuelta
  BY <1>0, <1>5 DEF Charla
<1>7. PICK m : aKernel = <<m>>
  BY <1>6 DEF Vuelta
<1>8. Tail(aKernel) = <<>>
  BY <1>7, UnoSolo
<1> QED  BY <1>5, <1>6, <1>8

\* What the Kernel reads of it
LEMMA VueltaEs ==
  ASSUME Vuelta
  PROVE  /\ aKernel[1].tipo = "pcb" =>
              /\ aKernel[1].pcb = send_PCBV2(Actual)
              /\ \/ aKernel = <<Devuelve(10, Actual)>> /\ aKernel[1].codigo = 10
                 \/ /\ aKernel = <<Devuelve(13, Actual)>> /\ aKernel[1].codigo = 13
                    /\ "programaTerminado" \notin banderas
         /\ aKernel = <<Devuelve(10, Actual)>> => aKernel[1].tipo = "pcb"
<1>1. ASSUME NEW c, aKernel = <<Devuelve(c, Actual)>>
      PROVE  /\ aKernel[1].tipo = "pcb" /\ aKernel[1].codigo = c
             /\ aKernel[1].pcb = send_PCBV2(Actual)
  <2>1. aKernel[1] = Devuelve(c, Actual)
    BY <1>1, UnoSolo
  <2> QED  BY <2>1, DevuelveEs
<1>2. ASSUME NEW c, aKernel = <<DevuelveConError(c, Actual)>>
      PROVE  aKernel[1].tipo = "error"
  <2>1. aKernel[1] = DevuelveConError(c, Actual)
    BY <1>2, UnoSolo
  <2> QED  BY <2>1, DevuelveEs
<1>3. CASE aKernel = <<Devuelve(10, Actual)>>
  BY <1>1, <1>3
<1>4. CASE aKernel = <<Devuelve(13, Actual)>> /\ "programaTerminado" \notin banderas
  BY <1>1, <1>4
<1>5. CASE aKernel = <<DevuelveConError(-5, Actual)>> \/ aKernel = <<DevuelveConError(-17, Actual)>>
  <2>1. aKernel[1].tipo = "error"
    BY <1>2, <1>5
  <2>2. aKernel # <<Devuelve(10, Actual)>>
    BY <1>1, <2>1
  <2> QED  BY <2>1, <2>2
<1> QED  BY <1>3, <1>4, <1>5 DEF Vuelta

\* While nothing strange has happened, what comes back is of the process the Kernel takes
\* to execute
LEMMA FaseDeVuelta ==
  ASSUME IInvCpu, aKernel # <<>>, aKernel[1].tipo \in {"pcb", "error"}, rarezas = {}
  PROVE  /\ ~desfasada /\ kernel # "varada" /\ aCpu = <<>>
         /\ \/ kernel = "ejecuta" /\ Mismo
            \/ kernel = "bloquea" /\ aKernel[1].tipo = "pcb"
<1>0. Fases /\ Charla
  BY DEF IInvCpu
<1>1. Parada /\ Vuelta
  BY VueltaEnCamino
<1>2. ~desfasada /\ kernel # "varada" /\ FaseParada
  BY <1>0, <1>1 DEF Fases
<1>3. kernel # "cerrada" /\ ~SinNada /\ ~EnViaje
  BY <1>0 DEF Charla, SinNada, EnViaje
<1>4. aKernel = <<Devuelve(10, Actual)>> => aKernel[1].tipo = "pcb"
  BY <1>1, VueltaEs
<1> QED  BY <1>2, <1>3, <1>4 DEF FaseParada

\* end_process of the process that came back
LEMMA TerminaMantiene ==
  ASSUME IInvCpu, aKernel # <<>>, aKernel[1].tipo \in {"pcb", "error"},
         kernel \in {"libre", "ejecuta"}, Desocupa, Consume,
         UNCHANGED soloKernel, aCpu' = aCpu, desfasada' = desfasada, rarezas' = rarezas
  PROVE  IInvCpu' /\ UNCHANGED pila
<1>0. Tipos /\ Charla /\ Marcas /\ Retoma /\ Fases /\ Rarezas
  BY DEF IInvCpu
<1>u. /\ UNCHANGED pila /\ nuevaPCB' = nuevaPCB /\ cpu' = cpu /\ primitivas' = primitivas
      /\ banderas' = banderas /\ esperado' = esperado /\ el_quantum' = el_quantum
      /\ Abortado' = Abortado /\ Parada' = Parada
      /\ stack_index' = stack_index /\ stackPointer' = stackPointer
  BY KernelQueda
<1>1. Parada /\ Vuelta /\ Tail(aKernel) = <<>>
  BY VueltaEnCamino
<1>2. aKernel' = <<>>
  BY <1>1 DEF Consume
<1>k. /\ kernel' = "libre"
      /\ pcbKernel' = (IF kernel = "ejecuta" THEN create_PCB(Siguiente(pcbKernel.pid)) ELSE pcbKernel)
  BY DEF Desocupa
<1>o. /\ create_PCB(Siguiente(pcbKernel.pid)) \in Pcbs
      /\ create_PCB(Siguiente(pcbKernel.pid)).pid # pcbKernel.pid
      /\ create_PCB(Siguiente(pcbKernel.pid)).stack_index = <<>>
      /\ create_PCB(Siguiente(pcbKernel.pid)).stackPointer = 0
  BY <1>0, OtroProceso
<1>3. Tipos'
  <2>1. pcbKernel \in Pcbs /\ desfasada \in BOOLEAN /\ aCpu \in Seq(Mensaje)
    BY <1>0 DEF Tipos, TypeOK
  <2>2. pcbKernel' \in Pcbs
    BY <1>k, <1>o, <2>1
  <2> QED  BY <1>k, <2>1, <2>2, KernelTipos
<1>p. cpu # "recv" /\ cpu # "ejecutando" /\ cpu # "colgada"
  BY <1>1 DEF Parada
<1>4. Charla'
  BY <1>u, <1>k, <1>2, <1>p DEF Charla
<1>5. Marcas'
  BY <1>0, <1>u, <1>p DEF Marcas
<1>6. Retoma'
  <2>1. CASE kernel = "ejecuta"
    <3>1. Fresca'
      BY <1>k, <1>o, <2>1 DEF Fresca
    <3> QED  BY <1>0, <1>u, <3>1 DEF Retoma
  <2>2. CASE kernel # "ejecuta"
    <3>1. kernel = "libre" /\ pcbKernel' = pcbKernel
      BY <1>k, <2>2
    <3>2. Fresca' = Fresca /\ Continua' = Continua
      BY <1>u, <3>1 DEF Fresca, Continua
    <3> QED  BY <1>0, <1>u, <3>1, <3>2 DEF Retoma
  <2> QED  BY <2>1, <2>2
<1>7. Fases'
  <2> SUFFICES ASSUME rarezas = {}
               PROVE  ~desfasada' /\ FaseParada'
    BY <1>u, <1>k, <1>p DEF Fases
  <2>1. ~desfasada /\ aCpu = <<>> /\ kernel = "ejecuta" /\ Mismo
    BY FaseDeVuelta
  <2>2. ~Mismo'
    BY <1>u, <1>k, <1>o, <2>1 DEF Mismo
  <2>3. SinNada'
    BY <1>2, <2>1 DEF SinNada
  <2> QED  BY <1>k, <2>1, <2>2, <2>3 DEF FaseParada
<1>8. Rarezas'
  BY <1>0, <1>u, <1>k, <1>p DEF Rarezas
<1>9. Bloqueo'
  BY <1>k DEF Bloqueo
<1> QED  BY <1>u, <1>3, <1>4, <1>5, <1>6, <1>7, <1>8, <1>9 DEF IInvCpu

LEMMA RecibirTerminadoMantiene ==
  ASSUME IInvCpu, RecibirTerminado
  PROVE  IInvCpu' /\ UNCHANGED pila
<1>1. /\ aKernel # <<>> /\ aKernel[1].tipo = "pcb" /\ kernel \in {"libre", "ejecuta"}
      /\ Desocupa /\ Consume /\ UNCHANGED soloKernel
      /\ aCpu' = aCpu /\ desfasada' = desfasada /\ rarezas' = rarezas
  BY DEF RecibirTerminado, Escucha, historia
<1>2. aKernel[1].tipo \in {"pcb", "error"}
  BY <1>1
<1> QED  BY <1>1, <1>2, TerminaMantiene

LEMMA RecibirErrorMantiene ==
  ASSUME IInvCpu, RecibirError
  PROVE  IInvCpu' /\ UNCHANGED pila
<1>1. /\ aKernel # <<>> /\ aKernel[1].tipo = "error" /\ kernel \in {"libre", "ejecuta", "bloquea"}
      /\ UNCHANGED soloKernel /\ aCpu' = aCpu /\ rarezas' = rarezas
  BY DEF RecibirError, Escucha
<1>2. aKernel[1].tipo \in {"pcb", "error"}
  BY <1>1
<1>3. CASE kernel # "bloquea"
  <2>1. Desocupa /\ Consume /\ desfasada' = desfasada
    BY <1>3 DEF RecibirError
  <2> QED  BY <1>1, <1>2, <1>3, <2>1, TerminaMantiene
<1>4. CASE kernel = "bloquea"
  <2>0. Tipos /\ Charla /\ Marcas /\ Retoma /\ Fases /\ Rarezas
    BY DEF IInvCpu
  <2>1. desfasada' = TRUE /\ kernel' = "varada" /\ pcbKernel' = pcbKernel /\ aKernel' = aKernel
    BY <1>4 DEF RecibirError
  <2>2. Parada
    BY <1>1, <1>2, VueltaEnCamino
  <2>u. /\ UNCHANGED pila /\ nuevaPCB' = nuevaPCB /\ cpu' = cpu /\ primitivas' = primitivas
        /\ banderas' = banderas /\ esperado' = esperado
        /\ Abortado' = Abortado /\ Parada' = Parada /\ Actual' = Actual
        /\ stack_index' = stack_index /\ stackPointer' = stackPointer
    BY <1>1, KernelQueda
  <2>p. cpu # "recv" /\ cpu # "ejecutando" /\ cpu # "colgada"
    BY <2>2 DEF Parada
  <2>3. rarezas # {}
    BY <1>1, <1>2, <1>4, FaseDeVuelta
  <2>4. rarezas \cap Desfases # {}
    BY <2>0, <2>3, <1>4 DEF Rarezas
  <2>5. Tipos'
    <3>1. pcbKernel \in Pcbs /\ aCpu \in Seq(Mensaje)
      BY <2>0 DEF Tipos, TypeOK
    <3> QED  BY <1>1, <2>1, <3>1, KernelTipos
  <2>6. Charla'
    <3>1. Vuelta' = Vuelta
      <4>1. /\ Devuelve(10, Actual)' = Devuelve(10, Actual)
            /\ Devuelve(13, Actual)' = Devuelve(13, Actual)
            /\ DevuelveConError(-5, Actual)' = DevuelveConError(-5, Actual)
            /\ DevuelveConError(-17, Actual)' = DevuelveConError(-17, Actual)
        BY <2>u DEF Devuelve, DevuelveConError
      <4> QED  BY <2>u, <2>1, <4>1, Zenon DEF Vuelta
    <3> QED  BY <2>0, <2>1, <2>u, <2>p, <2>2, <3>1 DEF Charla
  <2>7. Marcas'
    BY <2>0, <2>u, <2>p DEF Marcas
  <2>8. Retoma'
    BY <2>0, <2>1, <2>u DEF Retoma
  <2>9. Fases'
    BY <1>1, <2>3 DEF Fases
  <2>10. Rarezas'
    BY <1>1, <2>1, <2>p, <2>u, <2>4 DEF Rarezas
  <2>11. Bloqueo'
    BY <2>1 DEF Bloqueo
  <2> QED  BY <2>u, <2>5, <2>6, <2>7, <2>8, <2>9, <2>10, <2>11 DEF IInvCpu
<1> QED  BY <1>3, <1>4

\* The Kernel has the process the CPU has left
LEMMA RecibirPCBMantiene ==
  ASSUME IInvCpu, RecibirPCB
  PROVE  IInvCpu' /\ UNCHANGED pila
<1>0. Tipos /\ Charla /\ Marcas /\ Retoma /\ Fases /\ Rarezas /\ Bloqueo
  BY DEF IInvCpu
<1>l. /\ aKernel # <<>> /\ aKernel[1].tipo = "pcb" /\ kernel \in {"libre", "ejecuta", "bloquea"}
      /\ aKernel[1].codigo = (IF kernel = "bloquea" THEN 10 ELSE 13)
      /\ kernel' = "libre" /\ pcbKernel' = recibirPCBV2(aKernel[1].pcb).pcb
      /\ Consume /\ UNCHANGED soloKernel
      /\ aCpu' = aCpu /\ desfasada' = desfasada /\ rarezas' = rarezas
  BY DEF RecibirPCB, Escucha, historia
<1>t. aKernel[1].tipo \in {"pcb", "error"}
  BY <1>l
<1>1. Parada /\ Vuelta /\ Tail(aKernel) = <<>>
  BY <1>l, <1>t, VueltaEnCamino
<1>2. aKernel' = <<>>
  BY <1>l, <1>1 DEF Consume
<1>u. /\ UNCHANGED pila /\ nuevaPCB' = nuevaPCB /\ cpu' = cpu /\ primitivas' = primitivas
      /\ banderas' = banderas /\ esperado' = esperado /\ el_quantum' = el_quantum
      /\ Abortado' = Abortado /\ Parada' = Parada /\ Actual' = Actual
      /\ stack_index' = stack_index /\ stackPointer' = stackPointer
  BY <1>l, KernelQueda
<1>p. cpu # "recv" /\ cpu # "ejecutando" /\ cpu # "colgada"
  BY <1>1 DEF Parada
<1>n. nuevaPCB # Nada
  BY <1>1 DEF Vuelta
<1>3. Actual \in Pcbs /\ Actual.stack_index = stack_index /\ Actual.stackPointer = stackPointer
  BY <1>0, <1>n, ActualEsPcb
<1>4. pcbKernel' = Actual
  <2>1. aKernel[1].pcb = send_PCBV2(Actual)
    BY <1>1, <1>l, VueltaEs
  <2>2. recibirPCBV2(send_PCBV2(Actual)).pcb = Actual
    BY <1>3, IdaYVuelta
  <2> QED  BY <1>l, <2>1, <2>2
<1>5. "programaTerminado" \notin banderas
  <2>1. CASE kernel = "bloquea"
    BY <1>0, <1>p, <2>1 DEF Bloqueo
  <2>2. CASE kernel # "bloquea"
    BY <1>1, <1>l, <2>2, VueltaEs
  <2> QED  BY <2>1, <2>2
<1>6. Continua'
  BY <1>0, <1>u, <1>1, <1>3, <1>4, <1>5, <1>n DEF Continua, Retoma
<1>7. Tipos'
  <2>1. desfasada \in BOOLEAN /\ aCpu \in Seq(Mensaje)
    BY <1>0 DEF Tipos, TypeOK
  <2> QED  BY <1>l, <1>3, <1>4, <2>1, KernelTipos
<1>8. Charla'
  BY <1>u, <1>l, <1>2, <1>p DEF Charla
<1>9. Marcas'
  BY <1>0, <1>u, <1>p DEF Marcas
<1>10. Retoma'
  BY <1>0, <1>u, <1>6 DEF Retoma
<1>11. Fases'
  <2> SUFFICES ASSUME rarezas = {}
               PROVE  ~desfasada' /\ FaseParada'
    BY <1>u, <1>l, <1>p DEF Fases
  <2>1. ~desfasada /\ aCpu = <<>>
    BY <1>l, <1>t, FaseDeVuelta
  <2>2. SinNada' /\ pcbKernel' = Actual'
    BY <1>l, <1>2, <1>4, <1>u, <2>1 DEF SinNada
  <2> QED  BY <1>l, <2>1, <2>2 DEF FaseParada
<1>12. Rarezas'
  BY <1>0, <1>u, <1>l, <1>p DEF Rarezas
<1>13. Bloqueo'
  BY <1>l DEF Bloqueo
<1> QED  BY <1>u, <1>7, <1>8, <1>9, <1>10, <1>11, <1>12, <1>13 DEF IInvCpu

LEMMA DesconexionMantiene ==
  ASSUME IInvCpu, Desconexion
  PROVE  IInvCpu' /\ UNCHANGED pila
<1>0. Tipos /\ Charla /\ Marcas /\ Retoma /\ Fases /\ Rarezas
  BY DEF IInvCpu
<1>l. /\ kernel \in {"libre", "ejecuta"} /\ cpu = "muerta" /\ aKernel = <<>>
      /\ kernel' = "cerrada" /\ aCpu' = <<>> /\ aKernel' = aKernel
      /\ pcbKernel' = (IF kernel = "ejecuta" THEN create_PCB(Siguiente(pcbKernel.pid)) ELSE pcbKernel)
      /\ UNCHANGED soloKernel /\ desfasada' = desfasada /\ rarezas' = rarezas
  BY DEF Desconexion, historia
<1>u. /\ UNCHANGED pila /\ nuevaPCB' = nuevaPCB /\ cpu' = cpu /\ primitivas' = primitivas
      /\ banderas' = banderas /\ esperado' = esperado
      /\ Abortado' = Abortado /\ Parada' = Parada
      /\ stack_index' = stack_index /\ stackPointer' = stackPointer
  BY <1>l, KernelQueda
<1>o. /\ create_PCB(Siguiente(pcbKernel.pid)) \in Pcbs
      /\ create_PCB(Siguiente(pcbKernel.pid)).stack_index = <<>>
      /\ create_PCB(Siguiente(pcbKernel.pid)).stackPointer = 0
  BY <1>0, OtroProceso
<1>1. Tipos'
  <2>1. pcbKernel \in Pcbs /\ desfasada \in BOOLEAN
    BY <1>0 DEF Tipos, TypeOK
  <2>2. pcbKernel' \in Pcbs
    BY <1>l, <1>o, <2>1
  <2>3. aCpu' \in Seq(Mensaje)
    BY <1>l
  <2> QED  BY <1>l, <2>1, <2>2, <2>3, KernelTipos
<1>2. Charla'
  BY <1>l, <1>u DEF Charla
<1>3. Marcas'
  BY <1>0, <1>l, <1>u DEF Marcas
<1>4. Retoma'
  <2>1. CASE kernel = "ejecuta"
    <3>1. Fresca'
      BY <1>l, <1>o, <2>1 DEF Fresca
    <3> QED  BY <1>0, <1>u, <3>1 DEF Retoma
  <2>2. CASE kernel = "libre"
    <3>1. Fresca' = Fresca /\ Continua' = Continua
      BY <1>u, <1>l, <2>2 DEF Fresca, Continua
    <3> QED  BY <1>0, <1>u, <2>2, <3>1 DEF Retoma
  <2> QED  BY <1>l, <2>1, <2>2
<1>5. Fases'
  BY <1>0, <1>l, <1>u DEF Fases, FaseParada, Parada
<1>6. Rarezas'
  BY <1>0, <1>l, <1>u DEF Rarezas
<1>7. Bloqueo'
  BY <1>l DEF Bloqueo
<1> QED  BY <1>u, <1>1, <1>2, <1>3, <1>4, <1>5, <1>6, <1>7 DEF IInvCpu

LEMMA ConectarMantiene ==
  ASSUME IInvCpu, Conectar
  PROVE  IInvCpu' /\ UNCHANGED pila
<1>0. Tipos /\ Charla /\ Retoma /\ Rarezas
  BY DEF IInvCpu
<1>l. /\ kernel = "cerrada" /\ kernel' = "libre" /\ cpu' = "ociosa"
      /\ nuevaPCB' = Nada /\ quantum' = 0 /\ primitivas' = 0 /\ banderas' = {}
      /\ desconectarCPU' = FALSE /\ esperado' = Nada /\ rarezas' = {}
      /\ UNCHANGED pila /\ program_counter' = program_counter /\ pcbKernel' = pcbKernel
      /\ el_quantum' = el_quantum /\ aCpu' = aCpu /\ aKernel' = aKernel /\ desfasada' = desfasada
  BY DEF Conectar, conexion
<1>1. cpu = "muerta" /\ aKernel = <<>> /\ aCpu = <<>>
  BY <1>0, <1>l DEF Charla
<1>2. ~desfasada
  BY <1>0, <1>l, <1>1 DEF Rarezas
<1>3. /\ IInv' /\ stack_index' = stack_index /\ stackPointer' = stackPointer
      /\ TypeOKPila' /\ (stackPointer <= tamanioStack * tamanioPagina)'
  BY <1>0, <1>l, PilaQuieta DEF Tipos
<1>4. Tipos'
  <2>1. 0 \in 0 .. MaxPrimitivas /\ 0 \in Int
    BY CpuAssumption
  <2>2. TypeOK'
    BY <1>0, <1>l, <1>2, <1>3, <2>1 DEF Tipos, TypeOK
  <2> QED  BY <1>0, <1>l, <1>3, <2>2 DEF Tipos
<1>5. Charla'
  BY <1>l, <1>1 DEF Charla
<1>6. Marcas'
  BY <1>l DEF Marcas
<1>7. Retoma'
  <2>1. Fresca' = Fresca
    BY <1>l DEF Fresca
  <2>2. Continua => Continua'
    BY <1>l, <1>3 DEF Continua, Parada
  <2>3. Fresca \/ Continua
    BY <1>0, <1>l DEF Retoma
  <2> QED  BY <1>l, <2>1, <2>2, <2>3 DEF Retoma
<1>8. Fases'
  <2>1. SinNada' /\ ~Mismo'
    BY <1>l, <1>1 DEF SinNada, Mismo
  <2>2. FaseParada'
    BY <1>l, <2>1 DEF FaseParada
  <2> QED  BY <1>l, <1>2, <2>2 DEF Fases, Parada
<1>9. Rarezas'
  BY <1>l, <1>2 DEF Rarezas
<1>10. Bloqueo'
  BY <1>l DEF Bloqueo
<1> QED  BY <1>l, <1>4, <1>5, <1>6, <1>7, <1>8, <1>9, <1>10 DEF IInvCpu

-----------------------------------------------------------------------------
(* The invariant, and what it says *)

LEMMA InicioCpu ==
  ASSUME Init
  PROVE  IInvCpu /\ InitPila
<1>l. /\ InitPila /\ nuevaPCB = Nada /\ el_quantum \in Quantums
      /\ program_counter = 0 /\ quantum = 0
      /\ cpu = "ociosa" /\ primitivas = 0 /\ banderas = {}
      /\ desconectarCPU = FALSE /\ esperado = Nada
      /\ aCpu = <<>> /\ aKernel = <<>> /\ kernel = "libre"
      /\ desfasada = FALSE /\ rarezas = {}
  BY DEF Init
<1>p. PICK p \in Pids : pcbKernel = create_PCB(p)
  BY DEF Init
<1>1. pcbKernel \in Pcbs /\ pcbKernel.stack_index = <<>> /\ pcbKernel.stackPointer = 0
  BY <1>p, NuevoEsPcb
<1>2. IInv /\ TypeOKPila /\ stackPointer <= tamanioStack * tamanioPagina
  <2>1. IInv
    BY <1>l, InicioPila
  <2> QED  BY <2>1 DEF IInv
<1>3. Tipos
  <2>1. 0 \in 0 .. MaxPrimitivas /\ 0 \in Int /\ 0 \in Posiciones
    BY CpuAssumption
  <2>2. TypeOK
    BY <1>l, <1>1, <1>2, <2>1 DEF TypeOK
  <2>3. aCpu \in Seq(Mensaje)
    BY <1>l
  <2> QED  BY <1>2, <2>2, <2>3 DEF Tipos
<1>4. Charla
  BY <1>l DEF Charla
<1>5. Marcas
  BY <1>l DEF Marcas
<1>6. Retoma
  BY <1>l, <1>1 DEF Retoma, Fresca
<1>7. Fases
  <2>1. SinNada /\ ~Mismo
    BY <1>l DEF SinNada, Mismo
  <2>2. FaseParada
    BY <1>l, <2>1 DEF FaseParada
  <2> QED  BY <1>l, <2>2 DEF Fases
<1>8. Rarezas
  BY <1>l DEF Rarezas
<1>9. Bloqueo
  BY <1>l DEF Bloqueo
<1> QED  BY <1>l, <1>3, <1>4, <1>5, <1>6, <1>7, <1>8, <1>9 DEF IInvCpu

\* A step that only looks
LEMMA QuietoMantiene ==
  ASSUME IInvCpu, UNCHANGED vars
  PROVE  IInvCpu' /\ UNCHANGED pila
<1>0. Tipos /\ Charla /\ Marcas /\ Retoma /\ Fases /\ Rarezas /\ Bloqueo
  BY DEF IInvCpu
<1>u. /\ UNCHANGED pila /\ nuevaPCB' = nuevaPCB /\ program_counter' = program_counter
      /\ quantum' = quantum /\ cpu' = cpu /\ primitivas' = primitivas /\ banderas' = banderas
      /\ desconectarCPU' = desconectarCPU /\ esperado' = esperado
      /\ aCpu' = aCpu /\ aKernel' = aKernel /\ kernel' = kernel /\ pcbKernel' = pcbKernel
      /\ el_quantum' = el_quantum /\ desfasada' = desfasada /\ rarezas' = rarezas
  BY DEF vars, delCpu, delKernel, conexion, historia
<1>1. /\ IInv' /\ stack_index' = stack_index /\ stackPointer' = stackPointer
      /\ TypeOKPila' /\ (stackPointer <= tamanioStack * tamanioPagina)'
  BY <1>0, <1>u, PilaQuieta DEF Tipos
<1>a. Actual' = Actual
  BY <1>u, <1>1 DEF Actual
<1>d. /\ Devuelve(10, Actual)' = Devuelve(10, Actual)
      /\ Devuelve(13, Actual)' = Devuelve(13, Actual)
      /\ DevuelveConError(-5, Actual)' = DevuelveConError(-5, Actual)
      /\ DevuelveConError(-17, Actual)' = DevuelveConError(-17, Actual)
  BY <1>a DEF Devuelve, DevuelveConError
<1>v. Vuelta' = Vuelta
  BY <1>u, <1>d, Zenon DEF Vuelta
<1>m. /\ Parada' = Parada /\ Abortado' = Abortado /\ Mismo' = Mismo /\ SinNada' = SinNada
      /\ Fresca' = Fresca
  BY <1>u DEF Parada, Abortado, Mismo, SinNada, Fresca
<1>e. EnViaje' = EnViaje
  BY <1>u DEF EnViaje, Despacho
<1>c. Continua' = Continua
  BY <1>u, <1>1, <1>m DEF Continua
<1>2. Tipos'
  <2>1. TypeOK'
    BY <1>0, <1>u, <1>1 DEF Tipos, TypeOK
  <2> QED  BY <1>0, <1>u, <1>1, <2>1 DEF Tipos
<1>3. Charla'
  <2>1. Pedido(esperado)' = Pedido(esperado)
    BY <1>u DEF Pedido
  <2>2. Cabeza(aCpu)' = Cabeza(aCpu) /\ Cabeza(Tail(aCpu))' = Cabeza(Tail(aCpu))
    BY <1>u DEF Cabeza
  <2>3. (cpu = "recv" =>
          /\ esperado \in Pedidos
          /\ \/ aKernel = <<Pedido(esperado)>> /\ Cabeza(aCpu)
             \/ aKernel = <<>> /\ aCpu # <<>> /\ aCpu[1].tipo = "despacho"
             \/ /\ aKernel = <<>> /\ aCpu # <<>> /\ aCpu[1].tipo = "respuesta"
                /\ aCpu[1].op = esperado /\ Cabeza(Tail(aCpu)))'
    <3>1. cpu = "recv" =>
          /\ esperado \in Pedidos
          /\ \/ aKernel = <<Pedido(esperado)>> /\ Cabeza(aCpu)
             \/ aKernel = <<>> /\ aCpu # <<>> /\ aCpu[1].tipo = "despacho"
             \/ /\ aKernel = <<>> /\ aCpu # <<>> /\ aCpu[1].tipo = "respuesta"
                /\ aCpu[1].op = esperado /\ Cabeza(Tail(aCpu))
      BY <1>0 DEF Charla
    <3> QED  BY <1>u, <2>1, <2>2, <3>1
  <2>4. (cpu = "colgada" =>
          aKernel = <<>> \/ \E op \in Pedidos \ {"wait"} : aKernel = <<Pedido(op)>>)'
    <3>1. cpu = "colgada" =>
            aKernel = <<>> \/ \E op \in Pedidos \ {"wait"} : aKernel = <<Pedido(op)>>
      BY <1>0 DEF Charla
    <3>2. ASSUME NEW op
          PROVE  Pedido(op)' = Pedido(op)
      BY DEF Pedido
    <3> QED  BY <1>u, <3>1
  <2>5. (cpu = "ejecutando" => aKernel = <<>> /\ Cabeza(aCpu))'
    BY <1>0, <1>u, <2>2 DEF Charla
  <2>6. (Parada => aKernel = <<>> \/ Vuelta)'
    BY <1>0, <1>u, <1>v, <1>m DEF Charla
  <2>7. (kernel = "cerrada" => cpu = "muerta" /\ aKernel = <<>> /\ aCpu = <<>>)'
    BY <1>0, <1>u DEF Charla
  <2> QED  BY <2>3, <2>4, <2>5, <2>6, <2>7 DEF Charla
<1>4. Marcas'
  BY <1>0, <1>u DEF Marcas
<1>5. Retoma'
  BY <1>0, <1>u, <1>1, <1>m, <1>c DEF Retoma
<1>6. Fases'
  <2>1. FaseParada' = FaseParada
    BY <1>u, <1>a, <1>d, <1>v, <1>m, <1>e, <1>c DEF FaseParada
  <2>2. FaseEjecutando' = FaseEjecutando
    BY <1>u, <1>m, <1>e DEF FaseEjecutando
  <2>3. FaseRecv' = FaseRecv
    <3>1. /\ Respuesta(esperado, 1, 0)' = Respuesta(esperado, 1, 0)
          /\ Respuesta(esperado, -1, 0)' = Respuesta(esperado, -1, 0)
          /\ Respuesta(esperado, 1, -1)' = Respuesta(esperado, 1, -1)
      BY <1>u DEF Respuesta
    <3>2. /\ Pedido(esperado)' = Pedido(esperado)
          /\ Despacho(el_quantum, pcbKernel)' = Despacho(el_quantum, pcbKernel)
      BY <1>u DEF Pedido, Despacho
    <3> QED  BY <1>u, <1>m, <3>1, <3>2, Zenon DEF FaseRecv
  <2> QED  BY <1>0, <1>u, <1>m, <2>1, <2>2, <2>3 DEF Fases
<1>7. Rarezas'
  <2>1. Rechazado' = Rechazado
    BY <1>u DEF Rechazado, Respuesta
  <2> QED  BY <1>0, <1>u, <1>m, <2>1 DEF Rarezas
<1>8. Bloqueo'
  <2>1. Respuesta("wait", 1, -1)' = Respuesta("wait", 1, -1)
    BY DEF Respuesta
  <2>2. ASSUME kernel = "bloquea"
        PROVE  /\ aCpu = <<>> \/ cpu = "recv"
               /\ \/ /\ cpu = "recv" /\ banderas = {} /\ esperado = "wait"
                     /\ aCpu = <<Respuesta("wait", 1, -1)>> /\ aKernel = <<>>
                  \/ cpu = "ejecutando" /\ banderas = {"procesoBloqueado"} /\ aKernel = <<>>
                  \/ Parada /\ Vuelta /\ "programaTerminado" \notin banderas
    BY <1>0, <2>2 DEF Bloqueo
  <2>3. Bloqueo' = Bloqueo
    BY <1>u, <1>v, <1>m, <2>1, Zenon DEF Bloqueo
  <2> QED  BY <1>0, <2>3
<1> QED  BY <1>u, <1>2, <1>3, <1>4, <1>5, <1>6, <1>7, <1>8 DEF IInvCpu

LEMMA PrimitivaMantiene ==
  ASSUME IInvCpu, Primitiva
  PROVE  IInvCpu' /\ [NextPila]_pila
<1>1. ASSUME Interno
      PROVE  IInvCpu' /\ [NextPila]_pila
  <2>1. [NextPila]_pila
    BY <1>1 DEF Interno
  <2> QED  BY <1>1, <2>1, InternoMantiene
<1>2. CASE \E i \in Ids : twt_definirVariable(i)
  BY <1>1, <1>2, DefinirInterno
<1>3. CASE \E n \in Posiciones : twt_irAlLabel(n)
  BY <1>1, <1>3, IrAlLabelInterno
<1>4. CASE \E n \in Posiciones, donde \in CeldasActuales : twt_llamarConRetorno(n, donde)
  BY <1>1, <1>4, LlamarInterno
<1>5. CASE twt_obtenerPosicionVariable \/ twt_retornar
  <2>1. MiraMarco
    BY <1>5 DEF twt_obtenerPosicionVariable, twt_retornar
  <2> QED  BY <1>1, <2>1, MiraMarcoInterno
<1>6. CASE twt_dereferenciar
  BY <1>1, <1>6, DereferenciarInterno
<1>7. CASE twt_finalizar
  BY <1>1, <1>7, FinalizarInterno
<1>8. CASE \/ twt_obtenerValorCompartida \/ twt_asignarValorCompartida \/ twt_wait \/ twt_signal
           \/ twt_reservar \/ twt_liberar \/ twt_abrir \/ twt_borrar \/ twt_cerrar
           \/ twt_moverCursor \/ twt_escribir \/ twt_leer
  <2>1. IInvCpu' /\ UNCHANGED pila
    BY <1>8, PedidosMantienen
  <2> QED  BY <2>1
<1> QED  BY <1>2, <1>3, <1>4, <1>5, <1>6, <1>7, <1>8 DEF Primitiva

LEMMA CpuPaso ==
  ASSUME IInvCpu, [Next]_vars
  PROVE  IInvCpu' /\ [NextPila]_pila
<1>1. ASSUME Interno
      PROVE  IInvCpu' /\ [NextPila]_pila
  <2>1. [NextPila]_pila
    BY <1>1 DEF Interno
  <2> QED  BY <1>1, <2>1, InternoMantiene
<1>2. ASSUME IInvCpu' /\ UNCHANGED pila
      PROVE  IInvCpu' /\ [NextPila]_pila
  BY <1>2
<1>3. CASE Rafaga
  <2>1. CASE obtener_instruccion
    BY <1>1, <2>1, ObtenerInstruccionInterno
  <2>2. CASE InstruccionPerdida
    BY <1>1, <2>2, InstruccionPerdidaInterno
  <2>3. CASE Primitiva
    BY <2>3, PrimitivaMantiene
  <2>4. CASE TerminaLinea
    BY <1>1, <2>4, TerminaLineaInterno
  <2>5. CASE FinTerminado \/ FinBloqueado \/ FinDeQuantum \/ FinExcepcion
    BY <1>2, <2>5, FinesMantienen
  <2>6. CASE FinSinAviso
    BY <1>2, <2>6, FinSinAvisoMantiene
  <2> QED  BY <1>3, <2>1, <2>2, <2>3, <2>4, <2>5, <2>6 DEF Rafaga
<1>4. CASE RecibirProceso
  BY <1>4, RecibirProcesoMantiene
<1>5. CASE RecibirRespuesta
  BY <1>2, <1>5, RecibirRespuestaMantiene
<1>6. CASE RecibirAjeno
  BY <1>2, <1>6, RecibirAjenoMantiene
<1>7. CASE manejador_SIGUSR1
  BY <1>2, <1>7, ManejadorMantiene
<1>8. CASE HiloPrincipal
  <2>1. CASE AtenderBien
    BY <1>2, <2>1, AtenderBienMantiene
  <2>2. CASE AtenderMal
    BY <1>2, <2>2, AtenderMalMantiene
  <2>3. CASE AtenderWait
    BY <1>2, <2>3, AtenderWaitMantiene
  <2>4. CASE AtenderBorrarMal
    BY <1>2, <2>4, AtenderBorrarMalMantiene
  <2>5. CASE RecibirTerminado
    BY <1>2, <2>5, RecibirTerminadoMantiene
  <2>6. CASE RecibirPCB
    BY <1>2, <2>6, RecibirPCBMantiene
  <2>7. CASE RecibirError
    BY <1>2, <2>7, RecibirErrorMantiene
  <2>8. CASE Desconexion
    BY <1>2, <2>8, DesconexionMantiene
  <2> QED  BY <1>8, <2>1, <2>2, <2>3, <2>4, <2>5, <2>6, <2>7, <2>8 DEF HiloPrincipal
<1>9. CASE Despachar
  BY <1>2, <1>9, DespacharMantiene
<1>10. CASE Conectar
  BY <1>2, <1>10, ConectarMantiene
<1>11. CASE UNCHANGED vars
  BY <1>2, <1>11, QuietoMantiene
<1> QED  BY <1>3, <1>4, <1>5, <1>6, <1>7, <1>8, <1>9, <1>10, <1>11 DEF Next, Recepcion

LEMMA InvarianteCpu == Spec => []IInvCpu
<1>1. Init => IInvCpu
  BY InicioCpu
<1>2. IInvCpu /\ [Next]_vars => IInvCpu'
  BY CpuPaso
<1> QED  BY <1>1, <1>2, PTL DEF Spec

LEMMA EnFaseSeSigue ==
  ASSUME IInvCpu
  PROVE  EnFase
<1>0. Fases /\ Rarezas
  BY DEF IInvCpu
<1>1. ASSUME desfasada
      PROVE  rarezas \cap Desfases # {}
  BY <1>0, <1>1 DEF Fases, Rarezas
<1> QED  BY <1>1 DEF EnFase

\* The places of the messages of some kinds in a queue of one
LEMMA DonDeUno ==
  ASSUME NEW m, NEW T
  PROVE  {i \in DOMAIN <<m>> : <<m>>[i].tipo \in T} = IF m.tipo \in T THEN {1} ELSE {}
<1>1. DOMAIN <<m>> = {1} /\ <<m>>[1] = m
  OBVIOUS
<1> QED  BY <1>1

\* The two ends agree on what the CPU does.  A process the Kernel takes for executing is
\* in one place only: on its way, in the CPU, or on its way back; and a CPU it takes for
\* free executes nothing but the end of a line it has aborted.
LEMMA AcuerdoSeSigue ==
  ASSUME IInvCpu
  PROVE  Acuerdo
<1> SUFFICES ASSUME rarezas = {}
             PROVE  LET yendo == {i \in DOMAIN aCpu : aCpu[i].tipo = "despacho"}
                        vuelve == EnCamino({"pcb", "error"})
                        dentro == cpu \in {"ejecutando", "recv", "colgada"}
                    IN  /\ kernel = "ejecuta" =>
                             \/ cpu = "muerta"
                             \/ Cardinality(yendo) + Cardinality(vuelve)
                                  + (IF dentro /\ nuevaPCB # Nada /\ nuevaPCB.pid = pcbKernel.pid
                                       THEN 1 ELSE 0) = 1
                        /\ kernel = "libre" /\ dentro =>
                             "procesoAbortado" \in banderas \/ (cpu = "recv" /\ aCpu # <<>>)
                        /\ kernel = "libre" => vuelve = {}
  BY DEF Acuerdo
<1> DEFINE yendo == {i \in DOMAIN aCpu : aCpu[i].tipo = "despacho"}
           vuelve == EnCamino({"pcb", "error"})
           dentro == cpu \in {"ejecutando", "recv", "colgada"}
<1>0. Tipos /\ Charla /\ Fases
  BY DEF IInvCpu
<1>t. cpu \in {"ociosa", "ejecutando", "recv", "colgada", "muerta"} /\ pcbKernel \in Pcbs
      /\ el_quantum \in Int
  BY <1>0, CpuAssumption DEF Tipos, TypeOK
<1>f. /\ Parada => FaseParada
      /\ cpu = "ejecutando" => FaseEjecutando
      /\ cpu = "recv" => FaseRecv
      /\ cpu = "colgada" => kernel = "ejecuta" /\ SinNada /\ nuevaPCB = pcbKernel
  BY <1>0 DEF Fases
<1>n. dentro => nuevaPCB # Nada
  <2>1. cpu \in {"ejecutando", "recv"} => nuevaPCB # Nada
    BY <1>0 DEF Tipos, TypeOK
  <2>2. cpu = "colgada" => nuevaPCB # Nada
    BY <1>t, <1>f, CpuAssumption
  <2> QED  BY <2>1, <2>2
<1>m. dentro /\ nuevaPCB = pcbKernel => Mismo
  BY <1>n DEF Mismo
<1>d. Despacho(el_quantum, pcbKernel).tipo = "despacho"
  BY <1>t, DespachoEs
<1>r. \A op, v, x : Respuesta(op, v, x).tipo = "respuesta"
  BY DEF Respuesta
<1>z. Cardinality({}) = 0 /\ Cardinality({1}) = 1 /\ Cardinality({2}) = 1
  BY FS_EmptySet, FS_Singleton
<1>y0. aCpu = <<>> => yendo = {}
  OBVIOUS
<1>v0. aKernel = <<>> => vuelve = {}
  BY DEF EnCamino
<1>yd. EnViaje => yendo = {1} /\ vuelve = {}
  <2> SUFFICES ASSUME EnViaje
               PROVE  yendo = {1}
    BY <1>v0 DEF EnViaje
  <2>1. PICK d : d = Despacho(el_quantum, pcbKernel) /\ aCpu = <<d>>
    BY DEF EnViaje
  <2>2. d.tipo \in {"despacho"}
    BY <1>d, <2>1
  <2>3. {i \in DOMAIN <<d>> : <<d>>[i].tipo \in {"despacho"}} = {1}
    BY <2>2, DonDeUno
  <2> QED  BY <2>1, <2>3
<1>yr. ASSUME NEW op, NEW v, NEW x, aCpu = <<Respuesta(op, v, x)>>
       PROVE  yendo = {}
  <2>1. PICK d : d = Respuesta(op, v, x) /\ aCpu = <<d>>
    BY <1>yr
  <2>2. d.tipo \notin {"despacho"}
    BY <1>r, <2>1
  <2>3. {i \in DOMAIN <<d>> : <<d>>[i].tipo \in {"despacho"}} = {}
    BY <2>2, DonDeUno
  <2> QED  BY <2>1, <2>3
<1>yrd. ASSUME NEW op, NEW v, NEW x, aCpu = <<Respuesta(op, v, x), Despacho(el_quantum, pcbKernel)>>
        PROVE  yendo = {2} /\ aCpu # <<>>
  <2>1. PICK c, d : c = Respuesta(op, v, x) /\ d = Despacho(el_quantum, pcbKernel)
    OBVIOUS
  <2>2. aCpu = <<c, d>>
    BY <1>yrd, <2>1
  <2>3. c.tipo = "respuesta" /\ d.tipo = "despacho"
    BY <1>r, <1>d, <2>1
  <2>4. DOMAIN aCpu = {1, 2} /\ aCpu[1] = c /\ aCpu[2] = d /\ aCpu # <<>>
    BY <2>2
  <2> QED  BY <2>3, <2>4
<1>vv. Vuelta => vuelve = {1}
  <2> SUFFICES ASSUME Vuelta
               PROVE  vuelve = {1}
    OBVIOUS
  <2>1. PICK m : aKernel = <<m>> /\ m.tipo \in {"pcb", "error"}
    BY DevuelveEs DEF Vuelta
  <2>2. {i \in DOMAIN <<m>> : <<m>>[i].tipo \in {"pcb", "error"}} = {1}
    BY <2>1, DonDeUno
  <2> QED  BY <2>1, <2>2 DEF EnCamino
<1>vp. aKernel = <<Pedido(esperado)>> => vuelve = {}
  <2> SUFFICES ASSUME aKernel = <<Pedido(esperado)>>
               PROVE  vuelve = {}
    OBVIOUS
  <2>1. PICK m : m = Pedido(esperado) /\ aKernel = <<m>>
    OBVIOUS
  <2>2. m.tipo \notin {"pcb", "error"}
    BY <2>1, PedidoEs
  <2>3. {i \in DOMAIN <<m>> : <<m>>[i].tipo \in {"pcb", "error"}} = {}
    BY <2>2, DonDeUno
  <2> QED  BY <2>1, <2>3 DEF EnCamino
<1> HIDE DEF yendo, vuelve
<1>1. ASSUME kernel = "ejecuta", cpu # "muerta"
      PROVE  Cardinality(yendo) + Cardinality(vuelve) + (IF dentro /\ Mismo THEN 1 ELSE 0) = 1
  <2>1. CASE cpu = "ociosa"
    <3>1. FaseParada /\ ~dentro
      BY <1>f, <2>1 DEF Parada
    <3>2. \/ EnViaje
          \/ aCpu = <<>> /\ Vuelta
      BY <1>1, <3>1 DEF FaseParada
    <3>3. \/ yendo = {1} /\ vuelve = {}
          \/ yendo = {} /\ vuelve = {1}
      BY <3>2, <1>yd, <1>y0, <1>vv
    <3> QED  BY <3>1, <3>3, <1>z
  <2>2. CASE cpu = "ejecutando"
    <3>1. \/ SinNada /\ nuevaPCB = pcbKernel
          \/ EnViaje /\ ~Mismo
      BY <1>1, <1>f, <2>2 DEF FaseEjecutando
    <3>2. \/ yendo = {} /\ vuelve = {} /\ Mismo
          \/ yendo = {1} /\ vuelve = {} /\ ~Mismo
      BY <3>1, <1>yd, <1>y0, <1>v0, <1>m, <2>2 DEF SinNada
    <3> QED  BY <3>2, <2>2, <1>z, SMTT(30)
  <2>3. CASE cpu = "recv"
    <3>1. FaseRecv
      BY <1>f, <2>3
    <3>k. kernel # "libre" /\ kernel # "bloquea"
      BY <1>1
    <3>2. \/ aCpu = <<>> /\ aKernel = <<Pedido(esperado)>> /\ nuevaPCB = pcbKernel
          \/ aKernel = <<>> /\ nuevaPCB = pcbKernel /\ aCpu = <<Respuesta(esperado, 1, 0)>>
          \/ /\ aKernel = <<>> /\ ~Mismo
             /\ aCpu = <<Respuesta(esperado, -1, 0), Despacho(el_quantum, pcbKernel)>>
      BY <3>1, <3>k, Zenon DEF FaseRecv
    <3>4. CASE aCpu = <<>> /\ aKernel = <<Pedido(esperado)>> /\ nuevaPCB = pcbKernel
      <4>1. yendo = {} /\ vuelve = {} /\ Mismo
        BY <3>4, <1>y0, <1>vp, <1>m, <2>3
      <4> QED  BY <4>1, <2>3, <1>z
    <3>5. CASE aKernel = <<>> /\ nuevaPCB = pcbKernel /\ aCpu = <<Respuesta(esperado, 1, 0)>>
      <4>1. yendo = {}
        BY <3>5, <1>yr, Zenon
      <4>2. vuelve = {} /\ Mismo
        BY <3>5, <1>v0, <1>m, <2>3
      <4> QED  BY <4>1, <4>2, <2>3, <1>z
    <3>6. CASE /\ aKernel = <<>> /\ ~Mismo
               /\ aCpu = <<Respuesta(esperado, -1, 0), Despacho(el_quantum, pcbKernel)>>
      <4>1. yendo = {2}
        BY <3>6, <1>yrd, Zenon
      <4>2. vuelve = {}
        BY <3>6, <1>v0
      <4> QED  BY <4>1, <4>2, <3>6, <1>z
    <3> QED  BY <3>2, <3>4, <3>5, <3>6
  <2>4. CASE cpu = "colgada"
    <3>1. yendo = {} /\ vuelve = {} /\ Mismo
      BY <1>f, <1>y0, <1>v0, <1>m, <2>4 DEF SinNada
    <3> QED  BY <3>1, <2>4, <1>z
  <2> QED  BY <1>t, <1>1, <2>1, <2>2, <2>3, <2>4
<1>2. ASSUME kernel = "libre", dentro
      PROVE  "procesoAbortado" \in banderas \/ (cpu = "recv" /\ aCpu # <<>>)
  <2>1. CASE cpu = "ejecutando"
    BY <1>f, <1>2, <2>1 DEF FaseEjecutando, Abortado
  <2>2. CASE cpu = "recv"
    BY <1>f, <1>2, <2>2 DEF FaseRecv
  <2>3. CASE cpu = "colgada"
    BY <1>f, <1>2, <2>3
  <2> QED  BY <1>2, <2>1, <2>2, <2>3
<1>3. ASSUME kernel = "libre"
      PROVE  vuelve = {}
  <2>1. CASE Parada
    BY <1>f, <1>3, <2>1, <1>v0 DEF FaseParada, SinNada
  <2>2. CASE cpu = "ejecutando"
    BY <1>0, <2>2, <1>v0 DEF Charla
  <2>3. CASE cpu = "recv"
    BY <1>f, <1>3, <2>3, <1>v0 DEF FaseRecv
  <2>4. CASE cpu = "colgada"
    BY <1>f, <1>3, <2>4
  <2> QED  BY <1>t, <2>1, <2>2, <2>3, <2>4 DEF Parada
<1> QED  BY <1>1, <1>2, <1>3 DEF Mismo, yendo, vuelve

LEMMA PcbIntegroSeSigue ==
  ASSUME IInvCpu
  PROVE  PcbIntegro
<1> SUFFICES ASSUME rarezas = {}, nuevaPCB # Nada, nuevaPCB.pid = pcbKernel.pid
             PROVE  /\ kernel = "ejecuta" /\ cpu \in {"ejecutando", "recv"} => nuevaPCB = pcbKernel
                    /\ kernel = "libre" /\ cpu = "ociosa" /\ aKernel = <<>> => pcbKernel = Actual
  BY DEF PcbIntegro
<1>0. Fases
  BY DEF IInvCpu
<1>1. Mismo
  BY DEF Mismo
<1>2. ASSUME kernel = "ejecuta", cpu \in {"ejecutando", "recv"}
      PROVE  nuevaPCB = pcbKernel
  BY <1>0, <1>1, <1>2 DEF Fases, FaseEjecutando, FaseRecv
<1>3. ASSUME kernel = "libre", cpu = "ociosa"
      PROVE  pcbKernel = Actual
  BY <1>0, <1>1, <1>3 DEF Fases, FaseParada, Parada
<1> QED  BY <1>2, <1>3

-----------------------------------------------------------------------------
(* The theorems of the CPU and of its connection *)

\* Types (stack.c, PCB.h, CPU.c): the stack of the process stays within its pages, the
\* counters within the program, and the PCBs of both ends are PCBs, whatever has
\* happened on the connection.
THEOREM TiposDeCpu == Spec => []TypeOK
<1>1. IInvCpu => TypeOK
  BY DEF IInvCpu, Tipos
<1> QED  BY <1>1, InvarianteCpu, PTL

\* A word is read as something else than what was sent (recv_answer of CPU.c, and the main
\* thread of Kernel.c) only after SIGUSR1 in a burst that blocks, or after a line has gone
\* on asking once its process was aborted.
THEOREM SoloSeDesfasaPorDosCausas == Spec => []EnFase
<1>1. IInvCpu => EnFase
  BY EnFaseSeSigue
<1> QED  BY <1>1, InvarianteCpu, PTL

\* The process the Kernel takes for executing is in one place only (despachar of the
\* planner thread, the returns of main of CPU.c), and a CPU it takes for free executes
\* nothing but the end of a line it has aborted, until one of rarezas has happened.
THEOREM LosDosExtremosConcuerdan == Spec => []Acuerdo
<1>1. IInvCpu => Acuerdo
  BY AcuerdoSeSigue
<1> QED  BY <1>1, InvarianteCpu, PTL

\* The Kernel has of a process what the CPU left of it, and the CPU began with what the
\* Kernel had (send_PCBV2 and recibirPCBV2 of PCB.h), until one of rarezas has happened.
THEOREM ElPcbLlegaEntero == Spec => []PcbIntegro
<1>1. IInvCpu => PcbIntegro
  BY PcbIntegroSeSigue
<1> QED  BY <1>1, InvarianteCpu, PTL

\* A CPU that serves the Kernel executes the stack of Pila: what its primitives, the loading
\* of a PCB and the answers do to the stack is an operation of the stack or nothing.
THEOREM CpuEjecutaLaPila == Spec => SpecPila
<1>1. Init => InitPila
  BY InicioCpu
<1>2. IInvCpu /\ [Next]_vars => [NextPila]_pila
  BY CpuPaso
<1> QED  BY <1>1, <1>2, InvarianteCpu, PTL DEF Spec, SpecPila

\* In a process a CPU executes no two live variables share a byte, through bursts, answers
\* and changes of process (twt_definirVariable, liberar_registro_stack, recibirPCBV2).
THEOREM LaCpuSeparaVariables == Spec => []VariablesDisjuntas
  BY CpuEjecutaLaPila, VariablesSeparadas, PTL

\* The stack a CPU executes on is sound at every moment of its life: its variables inside
\* the pages, each function with where to return to, and every byte counted.
THEOREM LaPilaDeLaCpuEsSana == Spec => []PilaSana
  BY CpuEjecutaLaPila, PilaSiempreSana, PTL
=============================================================================
