SPECIFICATION FairSpec
CONSTANTS
  Names = {"x", "y", "z", "i", "p", "q", "h", "home"}
  rank = 1
  Texts <- MCTexts
  Params <- MCParams
  Environments <- MCEnvironments
  Arguments <- MCArguments
  MaxLength = 3
  EnvTail = FALSE
  MaxPieces = 6
INVARIANTS
  TypeOK
  PrintsAsWritten
PROPERTY
  Ends
