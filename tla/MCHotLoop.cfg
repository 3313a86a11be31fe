\* Every behaviour of every function body in Codes and GuardFirst, array
\* guards holding and failing.
CONSTANTS
  Images <- MCImages
  HotThreshold = 2
  MaxDepth = 2
SPECIFICATION Spec
PROPERTIES TiersAgree TierChangesEnd
