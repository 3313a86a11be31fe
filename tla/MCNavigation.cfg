SPECIFICATION Spec
CONSTANTS
    Shapes <- MCShapes
    NewWords = {"x", "z"}
INVARIANTS ReferencesAreMeanings CompletionOffersVisible
PROPERTIES RenameEditsOneSymbol RenameKeepsProgram
CHECK_DEADLOCK FALSE
