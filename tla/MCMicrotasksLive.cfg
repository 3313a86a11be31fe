\* Liveness of the programs whose lazy bodies do not await.
CONSTANTS
  Tasks = {t1, t2}
  Vars = {x}
  Module = Module
  None = None
  MaxOps = 3
  MaxDepth = 2
  LazyBodiesAwait = FALSE
SPECIFICATION FairSpec
PROPERTIES AwaitCompletes RunsToCompletion
