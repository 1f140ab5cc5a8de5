SPECIFICATION Spec
CONSTANTS
  Ranks = {1, 2}
  Paths = {"a", "b", "c"}
  Programs <- MCPrograms
INVARIANTS
  TypeOK
  AppendsIntact
  NoLeak
  AsIfAlone
