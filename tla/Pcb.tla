-------------------------------- MODULE Pcb ---------------------------------
(***************************************************************************)
(* How a PCB goes from one process to another (shared_libs/PCB.h): a       *)
(* sequence of fields without names, whose lengths go before their values. *)
(* The sender computes the length of the whole apart from writing it; the  *)
(* receiver asks the connection for one field after another.  A field of   *)
(* 4 bytes, and a character, are one element here.                         *)
(***************************************************************************)
EXTENDS Integers, Sequences, SequencesExt

serializarVariablesV2(var) == <<var.id, var.offset, var.page, var.size>>

Serie(vars) == FlattenSeq([i \in DOMAIN vars |-> serializarVariablesV2(vars[i])])

\* Mutant: the fields of the variable to return to go in the order of their type
serializarElestacV2_Orden(r) ==
  <<Len(r.args)>> \o Serie(r.args) \o <<Len(r.vars)>> \o Serie(r.vars)
    \o <<r.ret_pos, r.ret_var.page, r.ret_var.offset, r.ret_var.size>>

serializarElestacV2(r) ==
  <<Len(r.args)>> \o Serie(r.args) \o <<Len(r.vars)>> \o Serie(r.vars)
    \o <<r.ret_pos, r.ret_var.offset, r.ret_var.page, r.ret_var.size>>

\* Mutant: the two counters are not counted, as in the version before (sumar_tamanio_registro)
sumar_tamanio_registroV2_SinCuentas(r) == 4 * Len(r.args) + 4 * Len(r.vars) + 4

sumar_tamanio_registroV2(r) == 4 * Len(r.args) + 4 * Len(r.vars) + 4 + 2

PCB_cerealV2(p) ==
  <<p.pid, p.page_counter, p.program_counter, p.cantidad_de_instrucciones,
    2 * p.cantidad_de_instrucciones>>
    \o FlattenSeq(p.indice_de_codigo)
    \o <<Len(p.lista_de_etiquetas)>> \o p.lista_de_etiquetas
    \o <<Len(p.estado)>> \o p.estado
    \o <<p.exit_code, p.primerPaginaStack, p.stackPointer, p.tamanioStack,
         Len(p.stack_index)>>
    \o FlattenSeq([k \in DOMAIN p.stack_index |-> serializarElestacV2(p.stack_index[k])])

tamanio_total_buffer(p) ==
  LET tamanio_stack[k \in 0 .. Len(p.stack_index)] ==
        IF k = 0 THEN 0
        ELSE tamanio_stack[k - 1] + sumar_tamanio_registroV2(p.stack_index[k])
  IN  8 + 2 * p.cantidad_de_instrucciones + Len(p.lista_de_etiquetas) + Len(p.estado) + 4
        + tamanio_stack[Len(p.stack_index)]

\* What send_PCBV2 puts on the connection after the code
send_PCBV2(p) == SubSeq(PCB_cerealV2(p), 1, tamanio_total_buffer(p))

-----------------------------------------------------------------------------
(* Reception.  Each operator takes the position of the first field it asks  *)
(* for; a field that never comes keeps the receiver waiting (Falta).        *)

CONSTANT Falta

Campo(w, n) == IF n \in DOMAIN w THEN w[n] ELSE Falta
Largo(w, n) == IF Campo(w, n) = Falta THEN 0 ELSE w[n]
Trecho(w, n, largo) == [i \in 1 .. largo |-> Campo(w, n + i - 1)]

LeerVariables(w, n) ==
  [i \in 1 .. Largo(w, n) |->
     LET c == n + 4 * i - 3
     IN  [id |-> Campo(w, c), offset |-> Campo(w, c + 1),
          page |-> Campo(w, c + 2), size |-> Campo(w, c + 3)]]

\* What has been received of the stack, and one frame more
UnRegistroMas(w, leido) ==
  LET n == leido.sigue
      deVars == n + 1 + 4 * Largo(w, n)
      resto == deVars + 1 + 4 * Largo(w, deVars)
  IN  [registros |->
         Append(leido.registros,
           [args |-> LeerVariables(w, n), vars |-> LeerVariables(w, deVars),
            ret_pos |-> Campo(w, resto),
            ret_var |-> [offset |-> Campo(w, resto + 1), page |-> Campo(w, resto + 2),
                         size |-> Campo(w, resto + 3)]]),
       sigue |-> resto + 4]

\* The set of one element makes TLC compute what it passes on
LeerRegistros(w, n, cantidad) ==
  LET desde[k \in 0 .. cantidad] ==
        IF k = 0 THEN [registros |-> <<>>, sigue |-> n]
        ELSE CHOOSE r \in {UnRegistroMas(w, leido) : leido \in {desde[k - 1]}} : TRUE
  IN  desde[cantidad]

\* It has no return: built without optimisation, as the makefiles do, the register of the
\* result holds the PCB that was just filled in.
recibirPCBV2(w) ==
  LET etiquetas == 6 + Largo(w, 5)
      estado == etiquetas + 1 + Largo(w, etiquetas)
      fin == estado + 1 + Largo(w, estado)
      pila == LeerRegistros(w, fin + 5, Largo(w, fin + 4))
  IN  [pcb |->
         [pid |-> Campo(w, 1), page_counter |-> Campo(w, 2), program_counter |-> Campo(w, 3),
          cantidad_de_instrucciones |-> Campo(w, 4),
          indice_de_codigo |-> [i \in 1 .. Largo(w, 5) \div 2 |-> Trecho(w, 4 + 2 * i, 2)],
          lista_de_etiquetas |-> Trecho(w, etiquetas + 1, Largo(w, etiquetas)),
          estado |-> Trecho(w, estado + 1, Largo(w, estado)),
          exit_code |-> Campo(w, fin), primerPaginaStack |-> Campo(w, fin + 1),
          stackPointer |-> Campo(w, fin + 2), tamanioStack |-> Campo(w, fin + 3),
          stack_index |-> pila.registros],
       leidos |-> pila.sigue - 1]
=============================================================================
