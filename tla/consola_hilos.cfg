SPECIFICATION Spec
CONSTANTS
  Hilos = {h1, h2}
  Fin = fin
  Cpus = 1
  PidPrevios = 0
  MaxImpresiones = 1
  MaxOrdenes = 2
  Nada = nada
SYMMETRY Simetria
INVARIANTS TypeOK ListaSegura FinVerdadero  NadieEsperaEnVano
CHECK_DEADLOCK FALSE
