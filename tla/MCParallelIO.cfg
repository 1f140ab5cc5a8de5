SPECIFICATION FairSpec
CONSTANTS
  Ranks = {0, 1}
  Programs <- MCPrograms
  Faulty = {FALSE, TRUE}
INVARIANTS
  TypeOK
  Stripes
  Complete
  ReadBack
PROPERTIES
  NeverOverwritten
  HealthyRunSucceeds
  AllReturn
