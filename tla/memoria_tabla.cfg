SPECIFICATION Spec
CONSTANTS
  Marcos = 5
  MarcosAdmin = 1
  Tam = 1
  Entradas = 2
  CacheXProc = 2
  RefMax = 3
  Pids = {1}
  Paginas = {1, 2, 3}
  Valores = {5}
  Largos = {1}
  Scripts = {1}
  Stacks = {1}
  Kernel = k
  Hilos = {k, c1}
  Clientes = {"libera_intermedia", "desconexion"}
INVARIANTS IndiceCoherente CacheFiel
PROPERTY MarcosEstables
