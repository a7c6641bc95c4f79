SPECIFICATION Spec
CONSTANTS
 Client = {c1, c2}
 Value = {v1}
 NoCmd = NoCmd
 FlagReads = {{}, {"close_asap"}}
 MaxMarked = 1
 MaxClients = {1, 2}
 MaxSent = 2
 MaxLog = 2
 MaxRoles = 1
 InlineToo = {c1, c2}
INVARIANT ClientWasReset
CHECK_DEADLOCK FALSE
