------------------------------ MODULE PrezLog ------------------------------
(***************************************************************************)
(* The replicated log of a Prez node as log.c keeps it in memory: a linked *)
(* list of entries, modelled as a sequence.  An entry carries its own      *)
(* index, and log.c addresses the list by POSITION, counted back from the  *)
(* tail (getLogNode), on the belief that the entry at position i has index *)
(* i.  The two differ after a conflict on the last entry, so both are kept *)
(* apart here.                                                             *)
(***************************************************************************)
EXTENDS Integers, Sequences

(* listIndex of adlist.c: the position an argument selects, 0 standing for *)
(* NULL.  A non-negative argument counts forward from the head, starting   *)
(* with 0, a negative one back from the tail, starting with -1.            *)
listIndex(l, i) ==
    LET p == IF i < 0 THEN Len(l) + i + 1 ELSE i + 1
    IN  IF p \in 1..Len(l) THEN p ELSE 0

(* The list element taken to have this index: counted back from the tail,  *)
(* so an index past the end wraps around to the head.                      *)
getLogNode(l, index) == listIndex(l, index - 1 - Len(l))

(* The index field of the last list element, 0 for an empty log.           *)
logCurrentIndex(l) == IF l = <<>> THEN 0 ELSE l[Len(l)].index

(* The term field of the last list element, 0 for an empty log.            *)
logCurrentTerm(l) == IF l = <<>> THEN 0 ELSE l[Len(l)].term

(* The term of the list element getLogNode selects, 0 when it is NULL.     *)
logGetTerm(l, index) ==
    IF getLogNode(l, index) = 0 THEN 0 ELSE l[getLogNode(l, index)].term

(* The consistency check of AppendEntries.  logLength is unsigned, so a    *)
(* negative index compares as larger than every length and is refused.     *)
logVerifyAppend(l, index, term) ==
    \/ index = 0
    \/ index \in 1..Len(l) /\ l[index].term = term

(* Drop the entries from position index on; an index that is the last      *)
(* position (index = logLength) is left alone by the "<" of the code.      *)
logTruncate(l, index) ==
    IF index < Len(l) THEN SubSeq(l, 1, index - 1) ELSE l

(* Write one entry: nothing to do if the list already has it, truncate on  *)
(* a conflicting term, append in every other case.                         *)
logWriteAgain(l, e) == Append(l, e)  \* mutant: a retry is not recognised

logWriteEntry(l, e) ==
    LET pos == getLogNode(l, e.index)
        sameIndex == pos # 0 /\ l[pos].index = e.index
    IN  IF sameIndex /\ l[pos].term = e.term THEN l
        ELSE IF sameIndex THEN Append(logTruncate(l, e.index), e)
        ELSE Append(l, e)

(* The list after each entry of an AppendEntries batch, and after all.     *)
logAppendEntries(l, entries) ==
    LET written[k \in 0..Len(entries)] ==
          IF k = 0 THEN l ELSE logWriteEntry(written[k - 1], entries[k])
    IN  written[Len(entries)]

(* The follower's commit index after a leader announced leader_commit.     *)
logCommitIndex(l, commit_index, leader_commit) ==
    IF leader_commit <= commit_index THEN commit_index
    ELSE IF leader_commit < logCurrentIndex(l) THEN leader_commit
    ELSE logCurrentIndex(l)
============================================================================
