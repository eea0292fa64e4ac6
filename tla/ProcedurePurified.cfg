SPECIFICATION Spec
CONSTANTS
  Leaves <- MCLeaves
  BoolLeaves <- MCBoolLeaves
  MaxInt <- MCMaxInt
  Contracts <- MCContracts
  Procedures <- PurifiedInLoop
INVARIANTS
  VerifiedMeansSafe
