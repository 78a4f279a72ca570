SPECIFICATION Spec
CONSTANTS
  Byte <- Letters
  W = 2
  Word32 = 2
  Word16 = 0
  SizeT = 1000
  IntMax = 3
  Files <- SmallFiles
  Jobs <- SmallJobs
  MaxRuns = 1
  Hazards <- NoHazards
INVARIANTS NotFoundMeansAbsent
CHECK_DEADLOCK FALSE
