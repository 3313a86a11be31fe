\* Sites: shared offsets and kinds that change.  Bytes: every construct.
CONSTANTS
  Exprs <- MCExprs
  Code <- MCCode
  Frames <- MCFrames
  Arrays <- MCArrays
  Conv <- MCConv
  Arith <- MCArith
  Holds <- MCHolds
  Root <- MCRoot
  Negative <- MCNegative
  Zero <- MCZero
  Threshold = 4
  Programs <- MCPrograms
SPECIFICATION EvaluatorSpec
INVARIANTS SitesDescribe SkippingFollowsEmission OnlyDerailedGoAstray
PROPERTIES AsPlain EvaluatesWhatIsDue
