SPECIFICATION Spec
CONSTANTS
  MaxPid = 2
  CPUs = {c1, c2}
  Semaforos = {s1}
  Inicial = 0
  GradoInicial = 1
  Grados = {2}
  MaxValor = 1
  MaxBajas = 2
  Ordenes = {"end", "inexistente", "desconexion_cpu", "plan", "grado", "error"}
INVARIANTS UnaCopia CpuEnUso 
