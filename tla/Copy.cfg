SPECIFICATION Spec
CONSTANTS
  Idls <- MCDynamicIdls
  ZeroCopies <- MCZeroCopies
  Uppercase <- MCUppercase
  to_pascal_case <- MCPascalCase
INVARIANT UnaskedTypesCompile
