SPECIFICATION Spec
CONSTANTS
  Packages = {p1}
  Students = {s1}
  Dummy = Dummy
  NoExam = NoExam
  NoPackage = NoPackage
  NoReport = NoReport
  MaxEdits = 1
  MaxDelayed = 1
  MaxFaults = 0
  MaxImports = 0
  Manual = {}
INVARIANTS
  StoppedMeansNoSession
