CONSTANTS
  Node = {n1, n2, n3}
  Cmd = {c1, c2}
  Nil = Nil
  MaxEntriesPerRequest = 1
  SelfVoteReads = {TRUE}
  SelfMatchReads = {0}
  FsyncOutcomes = {TRUE}
  ClientsWait = TRUE
  StartLink = "up"
  MaxTerm = 2
  MaxElections = 2
  MaxLog = 1
  MaxList = 3
  MaxInFlight = 1
  MaxLinkErrors = 0
  MaxRestarts = 0
SPECIFICATION LedSpec
SYMMETRY Symmetry
INVARIANTS
  TypeOK
  EntryUnique
  EntryInv
PROPERTIES
  LeaderWritesAlone
