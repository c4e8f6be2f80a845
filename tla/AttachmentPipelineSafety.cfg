CONSTANTS
  Total = 4
  Sizes <- MixedSizes
  Static = 1
  Converted = {1, 5}
  Limit = 5
  Admission = 3
  Ready = 2
  MayCancel = TRUE
SPECIFICATION FairSpec
INVARIANTS Balanced InOrder WaitsForBytes NeverWaits
PROPERTIES CancelReleases EndsIfFits
CHECK_DEADLOCK FALSE
