CONSTANTS
  Total = 1
  Buffer = 1
  MaxViews = 1
SPECIFICATION Spec
INVARIANTS ArchiveOffered ArchiveKept ReportWhole
PROPERTIES ReportShowsEnd
CHECK_DEADLOCK FALSE
