SPECIFICATION Spec
CONSTANTS
  Idents <- MCIdents
  Addresses <- MCAddresses
  Instructions <- MCInstructions
  Situations <- MCSituations
  SeedSets <- MCSeedSets
INVARIANTS
  TypeOK
  OrderIsKept
  VerifiedKeysAreCalled
  VerifiedIsNotRefused
  MismatchIsFirst
  OffenderIsFirst
PROPERTY
  ImplementsVerifiedCall
