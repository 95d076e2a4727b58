SPECIFICATION Spec
CONSTANTS
  Absent = Absent
  Unreadable = Unreadable
  Words <- MCWords
  Depth <- MCDepth
  Lists <- MCLists
INVARIANTS
  TypeOK
  UniqueIsFirsts
  DuplicatesAreReported
  DuplicatesPanic
  VerifiedIsAskedFor
