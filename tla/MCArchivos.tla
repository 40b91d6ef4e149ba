----------------------------- MODULE MCArchivos -----------------------------
(***************************************************************************)
(* Archivos for TLC: the permissions programs ask for, and the symmetry of *)
(* the paths.                                                              *)
(***************************************************************************)
EXTENDS Archivos, TLC

MCPermisos == {{"creacion", "escritura"}, {"lectura"}}
MCPosiciones == {0}
Simetria == Permutations(Rutas)

=============================================================================
