CONSTANTS
  Null = Null
  FirstCapacity = 1
  FloatExact = 8
  Ids <- MCIds
  Names <- MCNames
  Literals <- MCLiterals
  Declared <- MCDeclared
  Classes = {"Point"}
  FieldsOf <- MCFieldsOf
  Dynamic = {"g"}
  MaxLength = 2
  MaxCalls = 2
  MaxSteps = 3
SPECIFICATION Spec
INVARIANTS RefsAreOwners StorageCoherent
CHECK_DEADLOCK FALSE
PROPERTIES ImplementsCollections
