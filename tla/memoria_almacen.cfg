SPECIFICATION FairSpec
CONSTANTS
  Marcos = 4
  MarcosAdmin = 1
  Tam = 2
  Entradas = 2
  CacheXProc = 1
  RefMax = 3
  Pids = {1, 2}
  Paginas = {0, 1, 2}
  Valores = {5}
  Largos = {2}
  Scripts = {1}
  Stacks = {1}
  Kernel = k
  Hilos = {k, c1}
  Clientes = {"libera"}
INVARIANT AlmacenIntegro
PROPERTIES  ImplementaAlmacen
