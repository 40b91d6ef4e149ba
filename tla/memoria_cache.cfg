SPECIFICATION Spec
CONSTANTS
  Marcos = 7
  MarcosAdmin = 1
  Tam = 2
  Entradas = 3
  CacheXProc = 2
  RefMax = 2
  Pids = {1, 2}
  Paginas = {0, 1}
  Valores = {0}
  Largos = {2}
  Scripts = {3}
  Stacks = {1}
  Kernel = k
  Hilos = {k}
  Clientes = {"lectura_cruzada", "pagina_ausente"}
INVARIANTS AdminAcorde ReemplazoLocal
