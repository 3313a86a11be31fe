CONSTANTS
  Names = {"x"}
  Params = {"x"}
  NonVoid = TRUE
  MaxScopes = 4
  Required = {"f", "g"}
  Preset = {"p"}
  MaxBlocks = 3
  Grounds = {"Int", "String"}
  Parameters = {"T"}
  MaxClasses = 3
  MaxEvents = 5
SPECIFICATION Spec
INVARIANTS InitializedHasValue UnusedIsUnread DeadStoresAreDead
           ConstructorsInitialize ContractsKept
CHECK_DEADLOCK FALSE
