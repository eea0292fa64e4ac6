\* Pure functions and assertions become expressions; expressions are optimised.
CONSTANTS
  Width = "i8"
  Bodies <- MCBodies
  Discriminants <- MCDiscriminants
  EnvsOf <- MCEnvsOf
  OldsOf <- MCOldsOf
  Programs <- MCPrograms
  ProgramEnvs <- MCProgramEnvs
SPECIFICATION Spec
INVARIANTS
  HeadsExact
  FunctionExact
  OptimizedExact
