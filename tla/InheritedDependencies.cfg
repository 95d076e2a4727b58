SPECIFICATION Spec_tests
CONSTANTS
  Unset = Unset
  Crates = {"unstake", "blank", "marinade"}
  MaxRuns = 2
  Inputs <- MCExamples
  Overlap = FALSE
  Jobs = 1
  Threads = 1
  WorkspaceDependencies <- MCWorkspace
INVARIANT FailureHasACause
