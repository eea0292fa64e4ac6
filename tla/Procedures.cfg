SPECIFICATION Spec
CONSTANTS
  Leaves <- MCLeaves
  BoolLeaves <- MCBoolLeaves
  MaxInt <- MCMaxInt
  Contracts <- MCContracts
  Procedures <- MCProcedureSet
INVARIANTS
  VerifiedMeansSafe
  TraversalSucceeds
  VerdictMatchesRules
