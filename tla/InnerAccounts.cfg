SPECIFICATION Spec
CONSTANTS
  Absent = Absent
  Unreadable = Unreadable
  Words <- MCWords
  Depth <- MCDepth
  Lists <- MCMarinade
INVARIANT InnerAccountsHaveFields
