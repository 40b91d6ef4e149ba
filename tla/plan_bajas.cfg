SPECIFICATION FairSpec
CONSTANTS
  MaxPid = 2
  CPUs = {c1}
  Semaforos = {s1}
  Inicial = 0
  GradoInicial = 2
  Grados = {}
  MaxValor = 1
  MaxBajas = 2
  Ordenes = {"rechazo", "eliminar", "desconexion_consola"}
INVARIANT SinPerdidos
PROPERTY MarcaSeCumple
CHECK_DEADLOCK FALSE
