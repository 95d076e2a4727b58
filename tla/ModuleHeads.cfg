SPECIFICATION Spec
CONSTANTS
  Idls <- MCIdls
  ZeroCopies <- MCZeroCopies
  Uppercase <- MCUppercase
  to_pascal_case <- MCPascalCase
INVARIANTS
  TypeOK
  NamesAreImported
  ImportedOnce
