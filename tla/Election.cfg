CONSTANTS
  Node = {n1, n2, n3}
  Cmd = {c1}
  Nil = Nil
  MaxEntriesPerRequest = 1
  SelfVoteReads = {TRUE}
  SelfMatchReads = {0}
  FsyncOutcomes = {TRUE}
  ClientsWait = TRUE
  StartLink = "up"
  MaxTerm = 2
  MaxElections = 2
  MaxLog = 0
  MaxList = 3
  MaxInFlight = 1
  MaxLinkErrors = 1
  MaxRestarts = 0
SPECIFICATION Spec
SYMMETRY Symmetry
INVARIANTS
  ElectionSafety
  VotesBacked
  ElectionInv
PROPERTIES
  ImplementsVoting
