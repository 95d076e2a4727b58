SPECIFICATION Spec_tests
CONSTANTS
  Unset = Unset
  Crates = {"unstake", "blank", "marinade"}
  MaxRuns = 2
  Inputs <- MCExamples
  Overlap = FALSE
  Jobs = 1
  Threads = 2
  WorkspaceDependencies <- MCRepairedWorkspace
INVARIANT FailureHasACause
