SPECIFICATION FairSpec
CONSTANTS
  Packages = {p1}
  Students = {s1}
  Dummy = Dummy
  NoExam = NoExam
  NoPackage = NoPackage
  NoReport = NoReport
  MaxEdits = 1
  MaxDelayed = 1
  MaxFaults = 1
  MaxImports = 0
  Manual = {"enable_auto", "disable_auto", "manual_prepare", "manual_start",
            "manual_stop", "manual_archive"}
INVARIANTS
  ServerFollowsState
PROPERTIES
  StoppingEnds
  CurrentGetsArchived
