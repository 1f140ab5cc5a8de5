SPECIFICATION Spec
CONSTANTS
  Names = {"x", "y", "z", "i", "p", "q", "h", "home"}
  rank = 1
  Texts <- MCTexts
  Params <- MCParams
  Environments <- MCEnvironments
  Arguments <- MCArguments
  MaxLength = 3
  EnvTail = TRUE
  MaxPieces = 6
INVARIANT
  PostDataKept
