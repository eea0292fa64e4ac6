SPECIFICATION Spec
CONSTANTS
  Adts <- MCAdts
  Fns <- MCFns
  Tasks <- MCTasks
  CrateTypes <- MCCrateTypes
  CrateMaps <- MCCrateMaps
  FullNames <- MCFullNames
  ReadableNames <- MCReadableNames
  ResolveDepth = 5
  MaxTask = 2
  Crate = {"main", "walk", "caller", "wrap", "size", "valid", "ghost", "bad_ret", "no_copy", "calls_bad", "stubbed", "no_cfg", "extern", "closure"}
INVARIANTS
  NoPanic
  UniqueSymbols
  ProgramClosed
  FailuresReportedOnce
  SuccessMeansVerified
PROPERTY
  EveryTaskEnds
