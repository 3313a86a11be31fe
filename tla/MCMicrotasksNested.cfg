\* Lazy bodies that await a queued Task.
CONSTANTS
  Tasks = {t1, t2}
  Vars = {x, y}
  Module = Module
  None = None
  MaxOps = 3
  MaxDepth = 1
  LazyBodiesAwait = TRUE
SPECIFICATION FairSpec
PROPERTIES AwaitCompletes
