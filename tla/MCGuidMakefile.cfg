SPECIFICATION Spec
CONSTANTS
  Byte <- Bytes
  W = 16
  Word32 = 4
  Word16 = 2
  SizeT = 1000
  IntMax = 2147483647
  Files <- FirmwareFiles
  Jobs <- MakefileJobs
  MaxRuns = 3
  Hazards <- NoHazards
INVARIANTS HeaderBytes HeaderGuidsGone
CHECK_DEADLOCK FALSE
