SPECIFICATION SessionSpec
CONSTANTS
  p1 = p1
  p2 = p2
  p3 = p3
  e1 = e1
  e2 = e2
  f1 = f1
  f2 = f2
  Packages <- MCPackages
  Exams <- MCExams
  Files <- MCFiles
  Versions = {1}
  Requests = {1, 2}
  ExamInfos <- MCExamInfos
  NoPackage = NoPackage
  NoFile = NoFile
  NoVersion = NoVersion
  MaxTime = 1
PROPERTIES
  StoreSpec
