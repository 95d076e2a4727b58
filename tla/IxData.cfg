SPECIFICATION Spec
CONSTANTS
  Programs <- MCPrograms
  Values <- MCValues
  Expected <- MCExpected
  Rooms <- MCRooms
  Leftovers <- MCLeftovers
  Encode <- MCEncode
  Decode <- MCDecode
INVARIANTS
  TypeOK
  RoundTrip
  PartialIsRefused
  DecodersAgree
