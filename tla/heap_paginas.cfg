SPECIFICATION Spec
CONSTANTS
  Pids = {p1, p2}
  Espacios = {2, 6, 21}
  tamanio_pagina = 31
  PrimeraPagina = 1
  MaxPaginas = 2
  MaxLibre = 35
  Basura <- MCBasura
SYMMETRY Simetria
INVARIANTS TypeOK PaginasBienFormadas PaginasConUso DisciplinaDePila
CHECK_DEADLOCK FALSE
