SPECIFICATION Spec
CONSTANTS
  Type <- MCType
  Extra = {"note"}
  NoType = NoType
  NoAttr = NoAttr
  MaxOps = 3
INVARIANTS
  TypeOK
  VerifiedRoundTrips
  ParsedRoundTrips
  OdsIsNarrower
CHECK_DEADLOCK FALSE
