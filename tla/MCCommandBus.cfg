SPECIFICATION FairSpec
CONSTANTS
  API = API
  Abitti2 = Abitti2
  ExamOMatic = ExamOMatic
  Clients = {c1, c2}
  MaxFaults = 2
INVARIANTS TypeOK MessagesAreTrue NothingWaitsInVain
PROPERTIES CallsSpec WaitingEnds ConnectionsRecover
