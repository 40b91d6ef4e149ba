-------------------------------- MODULE Pila --------------------------------
(***************************************************************************)
(* The stack of a process as the primitives of the CPU (CPU/CPU.c) change  *)
(* it: the index of frames, whose variables are given consecutive          *)
(* addresses of the pages of stack, and the stack pointer.                 *)
(*                                                                         *)
(* Finishing a frame takes back the bytes of its variables and not those   *)
(* of its arguments: the decrement for them is commented out, so they are  *)
(* lost until the process ends (perdidos counts them).                     *)
(***************************************************************************)
EXTENDS Integers, Sequences, Functions

CONSTANTS
  Argumentos,         \* identifiers that are digits
  Variables,          \* the other identifiers
  Posiciones,         \* positions of the program a call may return to
  tamanioPagina,      \* bytes of a page
  primerPaginaStack,  \* first page of stack, after those of code
  tamanioStack,       \* pages of stack
  sizeof_int,         \* bytes of a variable
  MaxMarcos           \* bound on the depth of the calls

ASSUME PilaAssumption ==
  /\ tamanioPagina \in Nat \ {0} /\ sizeof_int \in Nat \ {0}
  /\ primerPaginaStack \in Nat /\ tamanioStack \in Nat
  /\ Posiciones \subseteq Nat /\ 0 \in Posiciones

VARIABLES
  stack_index,   \* the frames: arguments, variables, and where to return
  stackPointer,  \* bytes of the stack given so far
  bases,         \* stackPointer when each frame was begun (history)
  perdidos       \* arguments of the frames that have finished (history)

pila == <<stack_index, stackPointer, bases, perdidos>>

Ids == Argumentos \cup Variables
Variable == [id : Ids, page : Nat, offset : Nat, size : {sizeof_int}]
Destino == [page : Nat, offset : Nat, size : {sizeof_int}]
Registro ==
  [args : Seq(Variable), vars : Seq(Variable), ret_pos : Posiciones, ret_var : Destino]

Direccion(v) == v.page * tamanioPagina + v.offset

Marcos == DOMAIN stack_index
Ultimo == Len(stack_index)
\* The variables and arguments of frame k
Celdas(k) == Range(stack_index[k].args) \cup Range(stack_index[k].vars)

\* Those of the frame being executed: what a name of the program can mean
CeldasActuales == IF stack_index = <<>> THEN {} ELSE Celdas(Ultimo)

\* The page of an offset of the stack.  The loop that looks for it goes on while the
\* offset is greater than a page, so an offset may be left equal to one.
Pagina(offset) == IF offset = 0 THEN 0 ELSE (offset - 1) \div tamanioPagina

NuevaVariable(i) ==
  [id |-> i, page |-> primerPaginaStack + Pagina(stackPointer),
   offset |-> stackPointer - Pagina(stackPointer) * tamanioPagina, size |-> sizeof_int]

\* Mutant: the room is compared before the size of the new variable is added
Desborda_SinTamanio == stackPointer > tamanioStack * tamanioPagina

Desborda == stackPointer + sizeof_int > tamanioStack * tamanioPagina

-----------------------------------------------------------------------------

\* The frame of the main program is made by its first variable.  Its return fields are
\* never written nor used; they are zero here.
SinRetorno == [page |-> 0, offset |-> 0, size |-> sizeof_int]
Vacio(pos, destino) ==
  [args |-> <<>>, vars |-> <<>>, ret_pos |-> pos, ret_var |-> destino]

ConVariable(registro, v) ==
  IF v.id \in Argumentos THEN [registro EXCEPT !.args = Append(@, v)]
                         ELSE [registro EXCEPT !.vars = Append(@, v)]

Definir(i) ==
  /\ ~Desborda
  /\ IF stack_index = <<>>
       THEN /\ stack_index' = <<ConVariable(Vacio(0, SinRetorno), NuevaVariable(i))>>
            /\ bases' = <<stackPointer>>
       ELSE /\ stack_index' = [stack_index EXCEPT ![Ultimo] = ConVariable(@, NuevaVariable(i))]
            /\ bases' = bases
  /\ stackPointer' = stackPointer + sizeof_int
  /\ UNCHANGED perdidos

\* Mutant: the offset to return to is not taken modulo the page
Llamar_SinResto(pos, donde) ==
  /\ Ultimo < MaxMarcos
  /\ stack_index' =
       Append(stack_index,
              Vacio(pos, [page |-> Direccion(donde) \div tamanioPagina,
                          offset |-> Direccion(donde), size |-> sizeof_int]))
  /\ bases' = Append(bases, stackPointer)
  /\ UNCHANGED <<stackPointer, perdidos>>

\* The variable a call returns to belongs to the frame that calls
Llamar(pos, donde) ==
  /\ Ultimo < MaxMarcos
  /\ stack_index' =
       Append(stack_index,
              Vacio(pos, [page |-> Direccion(donde) \div tamanioPagina,
                          offset |-> Direccion(donde) % tamanioPagina, size |-> sizeof_int]))
  /\ bases' = Append(bases, stackPointer)
  /\ UNCHANGED <<stackPointer, perdidos>>

\* Mutant: the bytes of the arguments are taken back twice
Finalizar_DosVeces ==
  /\ Ultimo > 0
  /\ stack_index' = SubSeq(stack_index, 1, Ultimo - 1)
  /\ bases' = SubSeq(bases, 1, Ultimo - 1)
  /\ stackPointer' = stackPointer - sizeof_int * (Len(stack_index[Ultimo].vars) + 2 * Len(stack_index[Ultimo].args))
  /\ perdidos' = perdidos + Len(stack_index[Ultimo].args)

Finalizar ==
  /\ Ultimo > 0
  /\ stack_index' = SubSeq(stack_index, 1, Ultimo - 1)
  /\ bases' = SubSeq(bases, 1, Ultimo - 1)
  /\ stackPointer' = stackPointer - sizeof_int * Len(stack_index[Ultimo].vars)
  /\ perdidos' = perdidos + Len(stack_index[Ultimo].args)

\* Another process, with an empty stack
Nueva ==
  /\ stack_index' = <<>> /\ stackPointer' = 0
  /\ bases' = <<>> /\ perdidos' = 0

InitPila ==
  /\ stack_index = <<>> /\ stackPointer = 0
  /\ bases = <<>> /\ perdidos = 0

NextPila ==
  \/ \E i \in Ids : Definir(i)
  \/ \E pos \in Posiciones, donde \in CeldasActuales : Llamar(pos, donde)
  \/ Finalizar
  \/ Nueva

SpecPila == InitPila /\ [][NextPila]_pila

-----------------------------------------------------------------------------
(* Properties *)

TypeOKPila ==
  /\ stack_index \in Seq(Registro) /\ stackPointer \in Nat
  /\ bases \in Seq(Nat) /\ Len(bases) = Len(stack_index)
  /\ perdidos \in Nat

Listas == {"args", "vars"}
Separadas(v, w) ==
  Direccion(v) + sizeof_int <= Direccion(w) \/ Direccion(w) + sizeof_int <= Direccion(v)

\* No two live variables share a byte: whatever is called, returned from and defined,
\* each has its own address (twt_definirVariable, liberar_registro_stack).
VariablesDisjuntas ==
  \A k, l \in Marcos : \A e, f \in Listas :
    \A m \in DOMAIN stack_index[k][e], n \in DOMAIN stack_index[l][f] :
       <<k, e, m>> # <<l, f, n>> => Separadas(stack_index[k][e][m], stack_index[l][f][n])

\* Every live variable is inside the pages of stack, below the stack pointer.
DentroDelStack ==
  \A k \in Marcos : \A v \in Celdas(k) :
     /\ Direccion(v) >= primerPaginaStack * tamanioPagina
     /\ Direccion(v) + sizeof_int <= primerPaginaStack * tamanioPagina + stackPointer
     /\ Direccion(v) + sizeof_int <= (primerPaginaStack + tamanioStack) * tamanioPagina

\* The address a function returns its value to is that of a variable of the frame that
\* called it, still alive (twt_llamarConRetorno, twt_retornar).
RetornoVivo ==
  \A k \in Marcos \ {1} :
     Direccion(stack_index[k].ret_var) \in {Direccion(v) : v \in Celdas(k - 1)}

\* The stack pointer counts the variables and arguments that are alive, and the
\* arguments that were never taken back: nothing else is lost.
PilaContada ==
  LET vivos[k \in 0 .. Ultimo] ==
        IF k = 0 THEN 0
        ELSE vivos[k - 1] + Len(stack_index[k].args) + Len(stack_index[k].vars)
  IN  stackPointer = sizeof_int * (vivos[Ultimo] + perdidos)

\* The stack is sound: inside its pages, with where to return to, and every byte of it
\* counted.
PilaSana == DentroDelStack /\ RetornoVivo /\ PilaContada
=============================================================================
