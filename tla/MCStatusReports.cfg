SPECIFICATION Spec
CONSTANTS
  MaxCount = 5
  PreserveCount = 2
  MaxReports = 10
  MaxSteps = 2
INVARIANTS TypeOK LatestAreKept
PROPERTIES LastReportSpec
