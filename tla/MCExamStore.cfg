SPECIFICATION Spec
CONSTANTS
  p1 = p1
  p2 = p2
  e1 = e1
  e2 = e2
  e3 = e3
  f1 = f1
  f2 = f2
  f3 = f3
  Packages <- MCPackages
  Exams <- MCExams
  Files <- MCFiles
  Versions <- MCVersions
  Requests <- MCRequests
  ExamInfos <- MCExamInfos
  NoPackage = NoPackage
  NoFile = NoFile
  NoVersion = NoVersion
  MaxTime = 3
INVARIANTS
  TypeOK
  OneExamAtATime
  TablesAgree
  LivesDoNotOverlap
  SecondSaveConverges
PROPERTIES
  LifecycleSpec
