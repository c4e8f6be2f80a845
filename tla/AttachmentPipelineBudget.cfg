CONSTANTS
  Total = 3
  Sizes <- EqualSizes
  Static = 1
  Converted = {1}
  Limit = 3
  Admission = 3
  Ready = 2
  MayCancel = FALSE
SPECIFICATION FairSpec
PROPERTY PipelineEnds
CHECK_DEADLOCK FALSE
