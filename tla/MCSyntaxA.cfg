SPECIFICATION Spec
CONSTANTS
    Sources <- MCSources
INVARIANTS MeaningKept
PROPERTIES ParsingEnds
