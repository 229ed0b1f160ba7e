SPECIFICATION FairSpec
CONSTANTS
  f1 = f1
  f2 = f2
  f3 = f3
  p1 = p1
  p2 = p2
  Files <- MCFiles
  Versions = {v1, v2}
  NoVersion = NoVersion
  Packages = {p1, p2}
  Package <- MCPackage
  StateFile = StateFile
  MaxFaults = 2
  MaxChanges = 3
INVARIANTS TypeOK ExamsAreWhole
PROPERTIES SettingIsSaved AllArrives
