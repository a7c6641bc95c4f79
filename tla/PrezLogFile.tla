---------------------------- MODULE PrezLogFile ----------------------------
(***************************************************************************)
(* The log of one node on its disk (log.c): the in-memory list, the file   *)
(* it is written to with O_APPEND, the byte offset each list element       *)
(* believes its record starts at, and log_current_size, the offset the     *)
(* next record is believed to start at.  write() may be cut short (log.c   *)
(* goes on as if it had not been), fsync() may fail, the process may die   *)
(* and the machine may lose power; loadLogFile then reads the file back.   *)
(*                                                                         *)
(* A record "*4 $len index $len term $len name $len command" is a sequence *)
(* of bytes <<entry, k>>: byte 1 and byte 2 stand for everything up to the *)
(* length of the command, byte 3 on for the command itself and the last    *)
(* byte for the CRLF, which the loader reads and does not look at.  One    *)
(* index and term stand for one command (a leader writes an index once).   *)
(***************************************************************************)
EXTENDS PrezLog, FiniteSetsExt

CONSTANTS CmdLen(_, _), \* bytes of the command of the entry (index, term)
          MaxTerm,      \* bound on terms
          MaxLen,       \* bound on the length of the list
          MaxBatch,     \* entries in one AppendEntries
          MaxShort,     \* bound on short writes
          MaxStops      \* bound on crashes and power losses together

VARIABLES list,             \* server.cluster->log_entries, with positions
          log_current_size, \* server.cluster->log_current_size
          file,             \* the bytes of the log file
          disk,             \* the bytes that a power loss cannot take away
          status,           \* "up", or "refused": loadLogFile called exit(1)
          torn,             \* list position of the first short write, 0: none
          durable,          \* the entries an fsync() has covered, in order
          short, crashes, power_losses

vars == <<list, log_current_size, file, disk, status, torn, durable,
          short, crashes, power_losses>>

MayStop == crashes + power_losses < MaxStops

Zero == <<>>                       \* a byte ftruncate() extended the file by

RecLen(e) == 3 + CmdLen(e.index, e.term)

(* catLogEntry: the bytes of one record.                                   *)
catLogEntry(e) == [k \in 1..RecLen(e) |-> <<e, k>>]

Plain(en) == [index |-> en.index, term |-> en.term, garbled |-> en.garbled]

(* ftruncate(): cut the file, or extend it with zero bytes.                *)
ftruncate(f, size) ==
    [k \in 1..size |-> IF k <= Len(f) THEN f[k] ELSE Zero]

(* loadLogFile from byte offset 0: the entries read, or ok = FALSE where   *)
(* the code exits.  The header fixes how many bytes follow; they are taken *)
(* as the command whatever they are.                                       *)
loadLogFile(f) ==
    LET rd[o \in 0..Len(f)] ==
          IF o = Len(f) THEN [ok |-> TRUE, list |-> <<>>]
          ELSE IF f[o + 1] = Zero \/ o + 2 > Len(f) THEN [ok |-> FALSE, list |-> <<>>]
          ELSE LET e == f[o + 1][1]
                   n == RecLen(e)
                   whole == \A k \in 3..(n - 1) : f[o + k] = <<e, k>>
                   en == [index |-> e.index, term |-> e.term, position |-> o,
                          garbled |-> ~whole]
                   rest == rd[o + n]
               IN  IF f[o + 1] # <<e, 1>> \/ f[o + 2] # <<e, 2>> \/ o + n > Len(f)
                   THEN [ok |-> FALSE, list |-> <<>>]
                   ELSE [ok |-> rest.ok, list |-> <<en>> \o rest.list]
    IN  rd[0]

(* What log.c works on, as one value: st.list, st.size, st.file, st.torn.  *)
Here == [list |-> list, size |-> log_current_size, file |-> file, torn |-> torn,
         durable |-> durable]

(* logTruncate on the list and the file.  The positions of elements up to  *)
(* the first short write are right, so a cut there leaves nothing torn.    *)
truncateFile(st, index) ==
    IF index < Len(st.list)
    THEN [list |-> logTruncate(st.list, index),
          size |-> st.list[index].position,
          file |-> ftruncate(st.file, st.list[index].position),
          torn |-> IF index <= st.torn THEN 0 ELSE st.torn,
          durable |-> SubSeq(st.durable, 1, Min({Len(st.durable), index - 1}))]
    ELSE st

(* logWriteEntry with a write() that returns after nwritten bytes.         *)
writeFile(st, e, nwritten) ==
    LET pos == getLogNode(st.list, e.index)
        sameIndex == pos # 0 /\ st.list[pos].index = e.index
        at == IF sameIndex /\ st.list[pos].term # e.term
              THEN truncateFile(st, e.index) ELSE st
        en == [index |-> e.index, term |-> e.term, garbled |-> FALSE, position |-> at.size]
    IN  IF sameIndex /\ st.list[pos].term = e.term THEN st
        ELSE [list |-> Append(at.list, en),
              size |-> at.size + RecLen(e),
              file |-> at.file \o SubSeq(catLogEntry(e), 1, nwritten),
              torn |-> IF nwritten < RecLen(e) /\ at.torn = 0
                       THEN Len(at.list) + 1 ELSE at.torn,
              durable |-> at.durable]

(* The loop of logAppendEntries; entry number cut (0: none) is written     *)
(* only up to nwritten bytes.                                              *)
appendFile(st, entries, cut, nwritten) ==
    LET written[k \in 0..Len(entries)] ==
          IF k = 0 THEN st
          ELSE writeFile(written[k - 1], entries[k],
                         IF k = cut THEN nwritten ELSE RecLen(entries[k]))
    IN  written[Len(entries)]

Sound(st) == IF st.torn = 0 THEN Len(st.list) ELSE st.torn - 1
SoundEntries(st) == [p \in 1..Sound(st) |-> Plain(st.list[p])]

Init ==
    /\ list = <<>> /\ log_current_size = 0 /\ file = <<>> /\ disk = <<>>
    /\ status = "up" /\ torn = 0 /\ durable = <<>>
    /\ short = 0 /\ crashes = 0 /\ power_losses = 0

(* The writes of one handler, then its fsync().  Entries it truncated are  *)
(* no longer promised to anyone; when fsync() succeeds (and, on a          *)
(* follower, the leader is answered) the sound ones are.                   *)
WriteAndSync(st, synced) ==
    /\ list' = st.list /\ log_current_size' = st.size
    /\ file' = st.file /\ torn' = st.torn
    /\ disk' = IF synced THEN st.file ELSE disk
    /\ durable' = IF synced THEN SoundEntries(st) ELSE st.durable
    /\ UNCHANGED <<status, crashes, power_losses>>

ackUnsynced(st, synced) ==         \* mutant: the result of fsync() is dropped
    /\ list' = st.list /\ log_current_size' = st.size
    /\ file' = st.file /\ torn' = st.torn
    /\ disk' = IF synced THEN st.file ELSE disk
    /\ durable' = SoundEntries(st)
    /\ UNCHANGED <<status, crashes, power_losses>>

logSync(st, synced) == WriteAndSync(st, synced)

(* Which write of a handler is cut, and after how many bytes; 0: none is.  *)
Cuts(entries) ==
    {<<0, 0>>} \cup
    IF short = MaxShort THEN {}
    ELSE UNION {{<<k, n>> : n \in 0..(RecLen(entries[k]) - 1)} : k \in 1..Len(entries)}

(* An entry that is in the list already is not written, so not cut either. *)
Write(entries) ==
    \E whole \in {appendFile(Here, entries, 0, 0)}, cut \in Cuts(entries) :
      \E st \in {appendFile(Here, entries, cut[1], cut[2])}, synced \in BOOLEAN :
        /\ Len(st.list) <= MaxLen
        /\ cut[1] # 0 => st.file # whole.file
        /\ short' = IF cut[1] = 0 THEN short ELSE short + 1
        /\ logSync(st, synced)

(* A leader logs a client's command (clusterProcessCommand) and syncs.     *)
clusterProcessCommand(term) ==
    /\ status = "up"
    /\ term >= logCurrentTerm(list)
    /\ Write(<<[index |-> logCurrentIndex(list) + 1, term |-> term]>>)

(* A follower logs the entries of an AppendEntries that follow position    *)
(* prev, where logVerifyAppend found the leader's entry in place.          *)
EntriesAfter(prev) ==
    {[k \in 1..Len(t) |-> [index |-> prev + k, term |-> t[k]]] :
        t \in UNION {[1..n -> 1..MaxTerm] : n \in 1..Min({MaxBatch, MaxLen - prev})}}

Ascending(prev, entries) ==
    \A k \in 1..Len(entries) :
      entries[k].term >= IF k > 1 THEN entries[k - 1].term ELSE logGetTerm(list, prev)

clusterProcessAppendEntries(prev, entries) ==
    /\ status = "up"
    /\ Ascending(prev, entries)
    /\ Write(entries)

(* The node starts on the file it finds.                                   *)
Start(f) ==
    \E r \in {loadLogFile(f)} :
       /\ file' = f /\ disk' = f /\ torn' = 0
       /\ status' = IF r.ok THEN "up" ELSE "refused"
       /\ list' = r.list
       /\ log_current_size' = Len(f)
       /\ UNCHANGED <<durable, short>>

(* The process dies between two handlers and is started again.             *)
Crash ==
    /\ status = "up" /\ MayStop
    /\ crashes' = crashes + 1 /\ UNCHANGED power_losses
    /\ Start(file)

(* The machine loses power: what fsync() has not covered may be gone, in   *)
(* part, and a truncation may not have reached the disk.                   *)
PowerLoss ==
    /\ status = "up" /\ MayStop
    /\ power_losses' = power_losses + 1 /\ UNCHANGED crashes
    /\ LET common == {k \in 0..Len(disk) :
                        k <= Len(file) /\ SubSeq(file, 1, k) = SubSeq(disk, 1, k)}
       IN  \/ Start(disk)
           \/ \E k \in 0..Len(file) :
                (\A c \in common : c <= k) /\ Start(SubSeq(file, 1, k))

Next ==
    \/ \E term \in 1..MaxTerm : clusterProcessCommand(term)
    \/ \E prev \in 0..Len(list) :
         \E entries \in EntriesAfter(prev) : clusterProcessAppendEntries(prev, entries)
    \/ Crash
    \/ PowerLoss

Spec == Init /\ [][Next]_vars
----------------------------------------------------------------------------
(* The file holds what the list says, up to the first short write: reading *)
(* it back gives those entries, each at the offset the list records for it *)
(* (logTruncate cuts there), or is refused; with no short write it gives   *)
(* the whole list and log_current_size is the size of the file.            *)
FileHoldsList ==
    LET r == loadLogFile(file)
        n == Sound(Here)
    IN  status = "up" =>
          /\ r.ok => Len(r.list) >= n /\ SubSeq(r.list, 1, n) = SubSeq(list, 1, n)
          /\ torn = 0 => r.ok /\ r.list = list /\ log_current_size = Len(file)

(* An entry that was written whole, with no torn record before it, and     *)
(* covered by an fsync() that succeeded, is in the log of the node after   *)
(* any crash or power loss it comes back from, unless it was truncated.    *)
AckedSurvive ==
    status = "up" =>
      /\ Len(durable) <= Len(list)
      /\ \A p \in 1..Len(durable) : Plain(list[p]) = durable[p]

(* A node whose writes were all complete and that never lost power always  *)
(* starts again: no sequence of appends, conflict truncations and process  *)
(* crashes leaves a file that loadLogFile refuses.                         *)
RefusalHasCause == status = "refused" => short > 0 \/ power_losses > 0
============================================================================
