------------------------------- MODULE MCCpu --------------------------------
(***************************************************************************)
(* Instances of Cpu: a program of one line with a variable and an argument *)
(* over pages whose size is not a multiple of theirs.                      *)
(***************************************************************************)
EXTENDS Cpu

CONSTANTS arg, var

MCArgumentos == {arg}
MCVariables == {var}
MCPosiciones == 0 .. 1
MCIndice == <<<<0, 5>>>>
MCEtiquetas == <<var, 0>>
MCQuantums == {-1, 2}
=============================================================================
