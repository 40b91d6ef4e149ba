SPECIFICATION Spec
CONSTANTS
  Rutas = {f, g}
  CANTIDAD_BLOQUES = 3
  TAMANIO_BLOQUES = 2
  Buferes <- MCBuferes
  Offsets <- MCOffsets
  Tamanios <- MCTamanios
  Cero = "cero"
  MaxReinicios = 1
  Nada = nada
INVARIANTS BloquesConDuenio TamanioCubierto ContenidoFiel
