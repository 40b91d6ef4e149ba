SPECIFICATION FairSpec
CONSTANTS
  MaxPid = 4
  CPUs = {c1, c2}
  Semaforos = {s1}
  Inicial = 0
  GradoInicial = 2
  Grados = {}
  MaxValor = 1
  MaxBajas = 0
  Ordenes = {"rechazo", "error"}
INVARIANT LibrosExactos
PROPERTIES ReadyCorre ImplementaCiclo
CHECK_DEADLOCK FALSE
