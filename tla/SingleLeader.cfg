CONSTANTS
  Node = {n1, n2, n3}
  Cmd = {c1, c2}
  Nil = Nil
  MaxEntriesPerRequest = 2
  SelfVoteReads = {TRUE}
  SelfMatchReads = {2}
  FsyncOutcomes = {TRUE, FALSE}
  ClientsWait = TRUE
  StartLink = "up"
  MaxTerm = 1
  MaxElections = 1
  MaxLog = 2
  MaxList = 3
  MaxInFlight = 2
  MaxLinkErrors = 0
  MaxRestarts = 0
SPECIFICATION LedSpec
SYMMETRY Symmetry
CONSTRAINT FewMessages
INVARIANTS
  StateMachineSafety
  PositionIsIndex
  OfficeInv
