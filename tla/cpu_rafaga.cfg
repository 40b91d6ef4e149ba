SPECIFICATION Spec
CONSTANTS
  arg = arg
  var = var
  Argumentos <- MCArgumentos
  Variables <- MCVariables
  Posiciones <- MCPosiciones
  tamanioPagina = 5
  primerPaginaStack = 1
  tamanioStack = 2
  sizeof_int = 4
  MaxMarcos = 2
  Pids = {1, 2}
  Quantums <- MCQuantums
  MaxPrimitivas = 2
  indice_de_codigo <- MCIndice
  Etiquetas <- MCEtiquetas
  Nada = Nada
  Falta = Falta
INVARIANTS TypeOK VariablesDisjuntas  EnFase Acuerdo 
PROPERTIES SpecPila ProtocoloAvanza
CHECK_DEADLOCK FALSE
