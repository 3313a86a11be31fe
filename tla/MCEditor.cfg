SPECIFICATION EditorSpec
CONSTANTS
  Last = 2
  Texts <- TwoBodies
  Editable = {1, 2}
  Roots = {1, 2}
  None = None
  MaxResults = 2
  Chars = {"a", "n"}
  Newline = "n"
  Units <- AsciiUnits
  Width <- AsciiWidth
  MaxLen = 3
  MaxAhead = 2
INVARIANTS OpenTextIsEditors TokensAsAnswered InSync
PROPERTIES EditedDiagnosticsFresh
