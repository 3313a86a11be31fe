CONSTANTS
  TypeOf <- MCTypeOf
  ElementOf <- MCElementOf
  Returns <- MCReturns
  Lazy <- MCLazy
  MaxDepth = 3
  MaxSteps = 5
SPECIFICATION Spec
INVARIANTS StaticKindsDescribe TiersAgree StopsExplained
CHECK_DEADLOCK FALSE
