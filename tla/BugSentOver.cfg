CONSTANTS
  Node = {n1, n2, n3}
  Cmd = {c1}
  Nil = Nil
  MaxEntriesPerRequest = 1
  SelfVoteReads = {TRUE}
  SelfMatchReads = {0}
  FsyncOutcomes = {TRUE}
  ClientsWait = FALSE
  StartLink = "up"
  MaxTerm = 1
  MaxElections = 1
  MaxLog = 1
  MaxList = 3
  MaxInFlight = 1
  MaxLinkErrors = 0
  MaxRestarts = 0
SPECIFICATION LedSpec
PROPERTIES
  AppliesTheEntry
