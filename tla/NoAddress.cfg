SPECIFICATION Spec
CONSTANTS
  Unset = Unset
  Crates = {"a", "b"}
  MaxRuns = 2
  Inputs <- MCInputs
  Overlap = FALSE
INVARIANT AddressMayBeAbsent
