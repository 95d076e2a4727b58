SPECIFICATION Spec
CONSTANTS
  Unset = Unset
  Crates = {"a", "b"}
  MaxRuns = 3
  Inputs <- MCInputs
  Overlap = FALSE
INVARIANTS
  TypeOK
  IInv
  LibIsNeverNewest
  UntouchedCrateIsWhole
  SuccessMeansWhole
  RejectedIdlTouchesNothing
  ManifestCoversModules
PROPERTIES
  LibIsWrittenLast
  ImplementsPublishedCrate
