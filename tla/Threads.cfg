SPECIFICATION FairSpec_tests
CONSTANTS
  Unset = Unset
  Crates = {"unstake", "blank", "marinade"}
  MaxRuns = 3
  Inputs <- MCExamples
  Overlap = FALSE
  Jobs = 1
  Threads = 2
  WorkspaceDependencies <- MCRepairedWorkspace
INVARIANTS
  PassMeansWhole
PROPERTIES
  FailureHasACulprit
  TestsFinish
