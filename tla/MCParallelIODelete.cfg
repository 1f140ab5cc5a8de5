SPECIFICATION Spec
CONSTANTS
  Ranks = {0, 1}
  Programs <- DeletePrograms
  Faulty = {FALSE}
INVARIANT
  DeleteCounted
