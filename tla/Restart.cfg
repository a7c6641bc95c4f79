CONSTANTS
  Node = {n1, n2, n3}
  Cmd = {c1, c2}
  Nil = Nil
  MaxEntriesPerRequest = 1
  SelfVoteReads = {TRUE}
  SelfMatchReads = {0}
  FsyncOutcomes = {TRUE}
  ClientsWait = TRUE
  StartLink = "up"
  MaxTerm = 1
  MaxElections = 1
  MaxLog = 2
  MaxList = 3
  MaxInFlight = 1
  MaxLinkErrors = 0
  MaxRestarts = 1
SPECIFICATION LedSpec
SYMMETRY Symmetry
INVARIANTS
  StateMachineSafety
  LeaderHintElected
