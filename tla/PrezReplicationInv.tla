------------------------- MODULE PrezReplicationInv -------------------------
(***************************************************************************)
(* The inductive invariants behind what is proved of the log.              *)
(*                                                                         *)
(* EntryInv: why an index and a term identify an entry, in every log and   *)
(* in every message, under the conditions of ElectionInv.                  *)
(*                                                                         *)
(* OfficeInv: why all nodes run the same commands as long as only one node *)
(* has ever taken office, whatever links are lost, whatever fsync answers  *)
(* and whoever restarts.                                                   *)
(***************************************************************************)
EXTENDS PrezElectionInv

(* The requests on their way from n to m, on the open connection and on    *)
(* those that n has closed.                                                *)
Packets(n, m) == UNION {{q[i] : i \in DOMAIN q} : q \in {req[n][m]} \cup stale[n][m]}

(* Every entry that exists: in a log, or in an AppendEntries under way.    *)
Logged == UNION {{log[n][p] : p \in DOMAIN log[n]} : n \in Node}

Carried(n, m) == UNION {{x.log_entries[h] : h \in DOMAIN x.log_entries} :
                           x \in {y \in Packets(n, m) : y.type = "AppendEntries"}}

Sent == UNION {UNION {Carried(n, m) : m \in Node} : n \in Node}

Known == Logged \cup Sent

----------------------------------------------------------------------------
(* An index and a term identify an entry, under way or logged.             *)
KnownUnique ==
    \A e, f \in Known : e.index = f.index /\ e.term = f.term => e.cmd = f.cmd

(* Entries are made in terms that have a leader.                           *)
MadeInOffice == \A e \in Known : elected[e.term] # {}

(* A leader has the last entry of its term.                                *)
LeaderAhead ==
    \A n \in Node : state[n] = LEADER =>
       \A e \in Known : e.term = current_term[n] => e.index <= logCurrentIndex(log[n])

(* Who has held office in a term has reached it, and stands for office     *)
(* again in a later term only.                                             *)
OfficeOnce ==
    /\ \A t \in Term : \A n \in elected[t] : t <= current_term[n]
    /\ \A n \in Node : state[n] = CANDIDATE => n \notin elected[current_term[n]]

(* The inductive invariant of EntryUnique, next to ElectionInv.            *)
EntryInv ==
    /\ KnownUnique
    /\ MadeInOffice
    /\ LeaderAhead
    /\ OfficeOnce

----------------------------------------------------------------------------
(* Only one node has ever taken office, in one term or in several.         *)
OneOffice == \A t, u \in Term : \A a \in elected[t], b \in elected[u] : a = b

Prefix(l, whole) == Len(l) <= Len(whole) /\ \A p \in 1..Len(l) : l[p] = whole[p]

(* The log of the node that took office has them all as its beginnings,    *)
(* and before that they are empty.                                         *)
BehindLeader ==
    /\ \A t \in Term : \A a \in elected[t] : \A n \in Node : Prefix(log[n], log[a])
    /\ \A n \in Node : log[n] # <<>> => \E t \in Term : elected[t] # {}

(* An AppendEntries carries the entries of its sender's log that follow    *)
(* prev_log_index.                                                         *)
AppendsCopied ==
    \A n, m \in Node : \A x \in Packets(n, m) : x.type = "AppendEntries" =>
       \A h \in 1..Len(x.log_entries) :
          /\ x.prev_log_index + h \in 1..Len(log[n])
          /\ x.log_entries[h] = log[n][x.prev_log_index + h]

(* No index is committed, acknowledged or waited for that the log does not *)
(* reach, and last_sent_entry is never left dangling.                      *)
WithinLog ==
    \A n \in Node :
       /\ commit_index[n] <= Len(log[n])
       /\ \A m \in Node : last_sent_entry[n][m] # FREED
       /\ \A m \in Peers(n) : match_index[n][m] <= Len(log[n])

(* A waiting client is registered under the entry made for it.             *)
ClientsMatch ==
    \A n \in Node : \A i \in 1..MaxLog : proc_clients[n][i] # Nil =>
       i <= Len(log[n]) /\ proc_clients[n][i] = log[n][i].cmd

(* A node runs no index beyond its log, and, if clients wait for their     *)
(* answers, what it has run is the beginning of its log.                   *)
AppliedFromLog ==
    \A n \in Node :
       /\ Len(applied[n]) <= Len(log[n])
       /\ ClientsWait => \A i \in 1..Len(applied[n]) : applied[n][i] = log[n][i].cmd

(* Whatever its clients do while they wait, what a node runs for an index  *)
(* at which it holds no client is the entry of that index (logApply).      *)
AppliesUnlessHeld ==
    [][\A n \in Node : \A i \in Len(applied[n]) + 1 .. Len(applied'[n]) :
         Held(n, i) \/ RanEntry(n, i)]_vars

(* With one node in office nothing is ever truncated: the log of every     *)
(* other node is a beginning of that node's log, AppendEntries extend it,  *)
(* and what is run is read from it (logWriteEntry, logApply,               *)
(* clusterUpdateCommitIndex with its uninitialised own match_index).       *)
FollowInv ==
    /\ PositionIsIndex
    /\ BehindLeader
    /\ AppendsCopied
    /\ WithinLog
    /\ ClientsMatch
    /\ AppliedFromLog

(* The inductive invariant of PositionIsIndex and of StateMachineSafety.   *)
OfficeInv ==
    /\ InOffice
    /\ AppendsFromElected
    /\ OneOffice => FollowInv
============================================================================
