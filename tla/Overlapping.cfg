SPECIFICATION FairSpec
CONSTANTS
  Unset = Unset
  Crates = {"a", "b"}
  MaxRuns = 2
  Inputs <- MCInputs
  Overlap = TRUE
INVARIANT LibDeclaresExistingModules
INVARIANT StatusIsDeserved
PROPERTY EveryStepCounts
PROPERTY RunsExit
