SPECIFICATION FairSpec
CONSTANTS
  Requests = {"r1", "r2"}
  Asks <- TwoAsks
  Histories <- Edits
  Instants = {17, 20, 25, 33}
  Second = 2
  Hour = 4
  Day = 8
  Offsets <- TwoOffsets
  UtcDays = none
  DaysAsked = {1, 2}
  Readers <- ThreeReaders
  DefaultLimit = 1
  MaxLimit = 1
CHECK_DEADLOCK FALSE
INVARIANTS CostAudits CalendarRange ReaderMissesNothing ReportsAgree
PROPERTIES PruneSparesReports RecordReported
