CONSTANTS
  MutRefs = {"x", "y", "z", "a", "r0"}
  SharedRefs = {"s1", "s2"}
  Tuples = {"t"}
  Owners = {"o", "p"}
  Argument = "a"
  ReturnPlace = "r0"
  Signatures <- MCSignatures
  Bodies <- MCBodies
  NoInfo = NoInfo
SPECIFICATION Spec
INVARIANTS
  NoLoanForgotten
  NothingBlockedIsUsed
  TransfersAlias
  RestoreIsSafe
  NoPanicWithoutBranches
