\* Safety of every program, lazy bodies that await included.
CONSTANTS
  Tasks = {t1, t2, t3}
  Vars = {x}
  Module = Module
  None = None
  MaxOps = 3
  MaxDepth = 2
  LazyBodiesAwait = TRUE
SPECIFICATION Spec
SYMMETRY Symmetry
INVARIANTS StallOnlyUnderDrain RefsBalanced ErrorCrossesOnlyByAwait NothingLeftBehind
PROPERTIES ImplementsExecutor
