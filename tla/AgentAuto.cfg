SPECIFICATION Spec
CONSTANTS
  Packages = {p1, p2}
  Students = {s1, s2}
  Dummy = Dummy
  NoExam = NoExam
  NoPackage = NoPackage
  NoReport = NoReport
  MaxEdits = 1
  MaxDelayed = 0
  MaxFaults = 1
  MaxImports = 1
  Manual = {"enable_auto", "manual_prepare", "manual_start", "manual_stop",
            "manual_archive"}
SYMMETRY Symmetry
INVARIANTS
  TypeOK
  ServerFollowsState
  NoAnswerIsLost
  StoppedMeansNoSession
  DoorIsShut
  OnlyOwnAnswers
  AnswersAreThere
