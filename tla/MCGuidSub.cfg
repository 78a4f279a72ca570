SPECIFICATION LiveSpec
CONSTANTS
  Byte <- Letters
  W = 2
  Word32 = 2
  Word16 = 0
  SizeT = 1000
  IntMax = 3
  Files <- SmallFiles
  Jobs <- SmallJobs
  MaxRuns = 2
  Hazards <- AllHazards
INVARIANTS TypeOK ScanSubstitutes OutcomeMatchesDisk RerunFindsNothing BackAndForth OldOrBeginningOfNew AllRenamed
           FaultsOnlyWhere
PROPERTY RunsEnd
CHECK_DEADLOCK FALSE
