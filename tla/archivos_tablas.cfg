SPECIFICATION Spec
CONSTANTS
  Rutas = {r1, r2}
  MaxPid = 2
  MaxAbiertos = 2
  Posiciones <- MCPosiciones
  Permisos <- MCPermisos
  Nada = Nada
SYMMETRY Simetria
INVARIANTS TypeOK  
 
CHECK_DEADLOCK FALSE
