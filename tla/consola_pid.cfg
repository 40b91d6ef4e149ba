SPECIFICATION Spec
CONSTANTS
  Hilos = {h1, h2}
  Fin = fin
  Cpus = 1
  PidPrevios = 4
  MaxImpresiones = 0
  MaxOrdenes = 0
  Nada = nada
SYMMETRY Simetria
INVARIANT FinVerdadero
CHECK_DEADLOCK FALSE
