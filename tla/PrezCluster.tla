---------------------------- MODULE PrezCluster ----------------------------
(***************************************************************************)
(* A Prez cluster: the Raft node of cluster.c and log.c, one copy per      *)
(* member of Node, and the TCP links of the cluster bus between them.      *)
(* Every node is a single thread, so one call of clusterCron, one packet   *)
(* handed to clusterProcessPacket and one client write are atomic steps.   *)
(*                                                                         *)
(* A node n owns one outgoing link to every peer m.  It sends requests on  *)
(* it, and m answers on the same connection: req[n][m] and resp[n][m] are  *)
(* the two directions.  Time is abstracted: a timer may have elapsed       *)
(* whenever the code reads it.                                             *)
(***************************************************************************)
EXTENDS PrezLog, FiniteSets, FiniteSetsExt

CONSTANTS
    Node,                  \* the members of nodes.conf
    Cmd,                   \* the write commands clients send
    Nil,                   \* an empty string, a NULL pointer, no command
    MaxEntriesPerRequest,  \* log_max_entries_per_request
    SelfVoteReads,         \* outcomes of reading the vote a node gave itself
    SelfMatchReads,        \* outcomes of the uninitialised own match_index
    FsyncOutcomes,         \* whether the fsync of a follower may fail
    ClientsWait,           \* whether clients wait, connected, for an answer
    StartLink,             \* links before (DOWN) or after (UP) the first cron
    MaxTerm,               \* bound: no election beyond this term
    MaxElections,          \* bound: elections started by all nodes together
    MaxLog,                \* bound: no client entry beyond this index
    MaxList,               \* bound: no list longer than this
    MaxInFlight,           \* bound: heartbeats outstanding on one link
    MaxLinkErrors,         \* bound: links lost to an I/O error
    MaxRestarts            \* bound: crashes followed by a restart

(* compareIndices returns the difference of two indices as an int.  It     *)
(* keeps their order as long as the difference fits, which is assumed of   *)
(* the uninitialised match_index; every other one is between 0 and MaxLog. *)
IntMax == 2147483647

ASSUME ClusterAssumption ==
    /\ IsFiniteSet(Node) /\ Cardinality(Node) >= 2
    /\ Nil \notin Node /\ Nil \notin Cmd
    /\ MaxEntriesPerRequest \in Nat
    /\ SelfVoteReads \in SUBSET BOOLEAN
    /\ SelfMatchReads \in SUBSET Int
    /\ \A own \in SelfMatchReads : MaxLog - IntMax <= own /\ own <= IntMax
    /\ FsyncOutcomes \in SUBSET BOOLEAN
    /\ ClientsWait \in BOOLEAN
    /\ StartLink \in {"down", "up"}
    /\ MaxTerm \in Nat /\ MaxElections \in Nat
    /\ MaxLog \in Nat /\ MaxList \in Nat
    /\ MaxInFlight \in Nat /\ MaxLinkErrors \in Nat /\ MaxRestarts \in Nat

VARIABLES
    state, current_term, voted_for, votes_granted, leader,  \* clusterState
    log, commit_index, applied, proc_clients,               \* log, database
    next_index, match_index, last_sent_entry,               \* clusterNode
    link, req, resp, stale,                                 \* cluster bus
    elections, link_errors, restarts,                       \* budgets used
    votes, counted, elected                                 \* history

electionVars == <<state, current_term, voted_for, votes_granted, leader>>
storeVars == <<log, commit_index, applied, proc_clients>>
peerVars == <<next_index, match_index, last_sent_entry>>
busVars == <<link, req, resp, stale>>
budgetVars == <<elections, link_errors, restarts>>
historyVars == <<votes, counted, elected>>
vars == <<electionVars, storeVars, peerVars, busVars, budgetVars, historyVars>>

FOLLOWER == "follower"
CANDIDATE == "candidate"
LEADER == "leader"

DOWN == "down"  \* node->link is NULL
UP == "up"      \* a connection both ends hold
DEAD == "dead"  \* the peer is gone, its last answers may still be read

NULL == 0       \* last_sent_entry points to no entry
FREED == -1     \* last_sent_entry points to memory logTruncate has freed

Term == 0..MaxTerm
Peers(n) == Node \ {n}
quorumSize == (Cardinality(Node) \div 2) + 1
Entry == [index : Nat, term : Term, cmd : Cmd]

(* clusterMsgDataRequestVote; candidateid is the owner of the link.        *)
RequestVote ==
    [type : {"RequestVote"}, term : Term,
     last_log_index : Nat, last_log_term : Term]

(* clusterMsgDataAppendEntries; leaderid is the owner of the link.         *)
AppendEntries ==
    [type : {"AppendEntries"}, term : Term,
     prev_log_index : Int, prev_log_term : Term,
     leader_commit_index : Int, log_entries : Seq(Entry)]

ResponseVote == [type : {"ResponseVote"}, term : Term, vote_granted : BOOLEAN]
ResponseAppend == [type : {"ResponseAppend"}, term : Term, ok : BOOLEAN]

Request == RequestVote \cup AppendEntries
Response == ResponseVote \cup ResponseAppend

(***************************************************************************)
(* clusterInit of a fresh node.  The first crons open the links long       *)
(* before an election timer elapses, so a behaviour may also start there.  *)
(* createClusterNode leaves match_index uninitialised; the own entry of    *)
(* that table is never written afterwards.                                 *)
(***************************************************************************)
Init ==
    /\ state = [n \in Node |-> FOLLOWER]
    /\ current_term = [n \in Node |-> 0]
    /\ voted_for = [n \in Node |-> Nil]
    /\ votes_granted = [n \in Node |-> 0]
    /\ leader = [n \in Node |-> Nil]
    /\ log = [n \in Node |-> <<>>]
    /\ commit_index = [n \in Node |-> 0]
    /\ applied = [n \in Node |-> <<>>]
    /\ proc_clients = [n \in Node |-> [i \in 1..MaxLog |-> Nil]]
    /\ next_index = [n \in Node |-> [m \in Node |-> 1]]
    /\ \E own \in [Node -> SelfMatchReads] :
         match_index = [n \in Node |-> [m \in Node |-> IF m = n THEN own[n] ELSE 0]]
    /\ last_sent_entry = [n \in Node |-> [m \in Node |-> NULL]]
    /\ link = [n \in Node |-> [m \in Node |-> IF m = n THEN DOWN ELSE StartLink]]
    /\ req = [n \in Node |-> [m \in Node |-> <<>>]]
    /\ resp = [n \in Node |-> [m \in Node |-> <<>>]]
    /\ stale = [n \in Node |-> [m \in Node |-> {}]]
    /\ elections = 0
    /\ link_errors = 0
    /\ restarts = 0
    /\ votes = {}
    /\ counted = [n \in Node |-> {}]
    /\ elected = [t \in Term |-> {}]

----------------------------------------------------------------------------
(* The handlers of requests.  src is where the packet was read: the live   *)
(* connection of n to m, or one that n has already closed, whose bytes m   *)
(* still finds in its socket and whose answer reaches nobody.              *)
Sources(n, m) ==
    [closed : {FALSE}, queue : {req[n][m]} \ {<<>>}]
      \cup [closed : {TRUE}, queue : stale[n][m]]

(* The packet leaves its queue and the answer goes back the way it came.   *)
Answer(n, m, src, reply) ==
    IF src.closed
    THEN /\ stale' = [stale EXCEPT ![n][m] =
                        (@ \ {src.queue}) \cup ({Tail(src.queue)} \ {<<>>})]
         /\ UNCHANGED <<link, req, resp>>
    ELSE /\ req' = [req EXCEPT ![n][m] = Tail(@)]
         /\ resp' = [resp EXCEPT ![n][m] = Append(@, reply)]
         /\ UNCHANGED <<link, stale>>

(* voted_for is a proper sds string after a granted request, but cron sets *)
(* it with zstrdup, so sdslen reads the bytes before the allocation: the   *)
(* self vote counts as a vote only if they happen to be non-zero.          *)
AlreadyVotedForOther(m, n, selfVoteRead) ==  \* mutant: own vote overlooked
    voted_for[m] \notin {Nil, m, n}

AlreadyVoted(m, n, selfVoteRead) ==
    /\ voted_for[m] \notin {Nil, n}
    /\ voted_for[m] = m => selfVoteRead

(* Does m's log rule out a candidate that reported this index and term?    *)
OutOfDate(m, v) ==
    \/ logCurrentIndex(log[m]) > v.last_log_index
    \/ logCurrentTerm(log[m]) > v.last_log_term

clusterProcessRequestVote(n, m, src, selfVoteRead) ==
    LET v == Head(src.queue)
        newer == v.term > current_term[m]
        granted == /\ v.term >= current_term[m]
                   /\ newer \/ ~AlreadyVoted(m, n, selfVoteRead)
                   /\ ~OutOfDate(m, v)
    IN  /\ v.type = "RequestVote"
        /\ state' = [state EXCEPT ![m] = IF newer THEN FOLLOWER ELSE @]
        /\ current_term' = [current_term EXCEPT ![m] = IF newer THEN v.term ELSE @]
        /\ leader' = [leader EXCEPT ![m] = IF newer THEN Nil ELSE @]
        /\ voted_for' = [voted_for EXCEPT ![m] =
                           IF granted THEN n ELSE IF newer THEN Nil ELSE @]
        /\ votes' = IF granted
                    THEN votes \cup {[voter |-> m, term |-> v.term, candidate |-> n]}
                    ELSE votes
        /\ Answer(n, m, src, [type |-> "ResponseVote", term |-> current_term'[m],
                              vote_granted |-> granted])
        /\ UNCHANGED <<votes_granted, storeVars, peerVars, budgetVars, counted, elected>>

(* The last_sent_entry pointers of a node after its list has changed: one  *)
(* to an entry that logTruncate has freed is left dangling.                *)
StillListed(old, new, p) ==
    p <= Len(new) /\ SubSeq(new, 1, p) = SubSeq(old, 1, p)

Dangling(sent, old, new) ==
    [m \in Node |-> IF sent[m] > 0 /\ ~StillListed(old, new, sent[m])
                    THEN FREED ELSE sent[m]]

(* An AppendEntries that is not refused for its term ends a candidacy, and *)
(* an office of an older term.                                             *)
StateOnAppend(m, term) ==
    IF term > current_term[m] \/ state[m] = CANDIDATE THEN FOLLOWER ELSE state[m]

clusterProcessAppendEntries(n, m, src, synced) ==
    LET a == Head(src.queue)
        newer == a.term > current_term[m]
        verified == logVerifyAppend(log[m], a.prev_log_index, a.prev_log_term)
        written == IF verified THEN logAppendEntries(log[m], a.log_entries)
                   ELSE log[m]
        ok == verified /\ synced
        reply(r) == [type |-> "ResponseAppend", term |-> current_term'[m], ok |-> r]
    IN  /\ a.type = "AppendEntries"
        /\ \/ /\ a.term < current_term[m]
              /\ UNCHANGED <<electionVars, storeVars, peerVars>>
              /\ Answer(n, m, src, reply(FALSE))
           \/ /\ a.term >= current_term[m]
              /\ Len(written) <= MaxList
              /\ state' = [state EXCEPT ![m] = StateOnAppend(m, a.term)]
              /\ current_term' = [current_term EXCEPT ![m] = a.term]
              /\ leader' = [leader EXCEPT ![m] = n]
              /\ voted_for' = [voted_for EXCEPT ![m] = IF newer THEN Nil ELSE @]
              /\ log' = [log EXCEPT ![m] = written]
              /\ last_sent_entry' = [last_sent_entry EXCEPT ![m] =
                                       Dangling(@, log[m], written)]
              /\ commit_index' = [commit_index EXCEPT ![m] =
                   IF ok THEN logCommitIndex(written, @, a.leader_commit_index)
                   ELSE @]
              /\ Answer(n, m, src, reply(ok))
              /\ UNCHANGED <<votes_granted, applied, proc_clients,
                             next_index, match_index>>
        /\ UNCHANGED <<budgetVars, historyVars>>

----------------------------------------------------------------------------
(* The handlers of answers, read by the owner n of the link.               *)

(* The common reaction to an answer that carries a newer term.             *)
TermRaisedInOffice(n, term) ==  \* mutant: the state is not reset
    /\ current_term' = [current_term EXCEPT ![n] = term]
    /\ leader' = [leader EXCEPT ![n] = Nil]
    /\ voted_for' = [voted_for EXCEPT ![n] = Nil]
    /\ UNCHANGED state

StepDown(n, term) ==
    /\ state' = [state EXCEPT ![n] = FOLLOWER]
    /\ current_term' = [current_term EXCEPT ![n] = term]
    /\ leader' = [leader EXCEPT ![n] = Nil]
    /\ voted_for' = [voted_for EXCEPT ![n] = Nil]

(* A grant counts in the term it was given in.                             *)
GrantCounts(n, v) == v.vote_granted  \* mutant: the term is not compared
VoteCounts(n, v) == v.vote_granted /\ v.term = current_term[n]

clusterProcessResponseVote(n, m) ==
    LET v == Head(resp[n][m])
    IN  /\ resp[n][m] # <<>>
        /\ v.type = "ResponseVote"
        /\ resp' = [resp EXCEPT ![n][m] = Tail(@)]
        /\ \/ /\ VoteCounts(n, v)
              /\ votes_granted' = [votes_granted EXCEPT ![n] = @ + 1]
              /\ counted' = [counted EXCEPT ![n] = @ \cup {m}]
              /\ UNCHANGED <<state, current_term, leader, voted_for>>
           \/ /\ ~VoteCounts(n, v) /\ v.term > current_term[n]
              /\ StepDown(n, v.term)
              /\ UNCHANGED <<votes_granted, counted>>
           \/ /\ ~VoteCounts(n, v) /\ v.term <= current_term[n]
              /\ UNCHANGED <<electionVars, counted>>
        /\ UNCHANGED <<storeVars, peerVars, link, req, stale, budgetVars,
                       votes, elected>>

(* The index a positive answer stands for: that of the entry sent last on  *)
(* this link, which may be a later one than the answer is about, and any   *)
(* number once that entry has been freed.                                  *)
AckedIndices(n, m) ==
    LET p == last_sent_entry[n][m]
    IN  IF p = FREED THEN 0..MaxLog ELSE {log[n][p].index}

(* bound: the code decrements next_index without limit, but every value    *)
(* below 1 sends the same request (no entries, a prev_log_index that the   *)
(* follower refuses), so the counter saturates at 0.                       *)
MinNextIndex == 0

clusterProcessResponseAppendEntries(n, m) ==
    LET r == Head(resp[n][m])
    IN  /\ resp[n][m] # <<>>
        /\ r.type = "ResponseAppend"
        /\ resp' = [resp EXCEPT ![n][m] = Tail(@)]
        /\ \/ /\ r.ok /\ last_sent_entry[n][m] = NULL
              /\ UNCHANGED <<electionVars, next_index, match_index>>
           \/ /\ r.ok /\ last_sent_entry[n][m] # NULL
              /\ \E index \in AckedIndices(n, m) :
                   /\ next_index' = [next_index EXCEPT ![n][m] = index + 1]
                   /\ match_index' = [match_index EXCEPT ![n][m] = index]
              /\ UNCHANGED electionVars
           \/ /\ ~r.ok /\ r.term > current_term[n]
              /\ StepDown(n, r.term)
              /\ UNCHANGED <<votes_granted, next_index, match_index>>
           \/ /\ ~r.ok /\ r.term <= current_term[n]
              /\ next_index' = [next_index EXCEPT ![n][m] =
                                  IF @ > MinNextIndex THEN @ - 1 ELSE @]
              /\ UNCHANGED <<electionVars, match_index>>
        /\ UNCHANGED <<storeVars, last_sent_entry, link, req, stale, budgetVars,
                       historyVars>>

----------------------------------------------------------------------------
(* clusterCron, one pass of it per step.  It opens the links of a set C of *)
(* peers that have none, applies what is committed, and then, depending on *)
(* the state, starts an election, takes office, or does a leader's work.   *)

clusterConnect(n) ==
    \E C \in SUBSET {m \in Peers(n) : link[n][m] = DOWN} :
       link' = [link EXCEPT ![n] = [m \in Node |-> IF m \in C THEN UP ELSE @[m]]]

(* What argv of a registered client holds when call(c) runs it at last.    *)
(* While the client waits for its answer that is the logged command.  An   *)
(* inline line it sends meanwhile is parsed over argv: another write is    *)
(* left there, any other command is answered and resets the client, whose  *)
(* call then runs nothing.  A client that has gone leaves a pointer to     *)
(* memory the next client may use.                                         *)
ClientArgv(logged) == IF ClientsWait THEN {logged} ELSE Cmd \cup {Nil}

(* A leader still holds a client under index i.                            *)
Held(n, i) == state[n] = LEADER /\ i \in 1..MaxLog /\ proc_clients[n][i] # Nil

(* What applying index i may run on n: the argv of a client held under it, *)
(* otherwise the command of the entry; nothing if the list has no such     *)
(* entry.                                                                  *)
logApply(n, i) ==
    IF getLogNode(log[n], i) = 0 THEN {Nil}
    ELSE IF Held(n, i) THEN ClientArgv(proc_clients[n][i])
    ELSE {log[n][getLogNode(log[n], i)].cmd}

(* last_applied is the length of applied.                                  *)
ApplyCommitted(n) ==
    LET done == Len(applied[n])
        todo == done + 1 .. commit_index[n]
    IN  /\ \E ran \in [1..Cardinality(todo) -> Cmd \cup {Nil}] :
             /\ \A k \in DOMAIN ran : ran[k] \in logApply(n, done + k)
             /\ applied' = [applied EXCEPT ![n] = @ \o ran]
        /\ proc_clients' = [proc_clients EXCEPT ![n] =
             [i \in 1..MaxLog |->
                IF state[n] = LEADER /\ i \in todo /\ getLogNode(log[n], i) # 0
                THEN Nil ELSE @[i]]]

(* The election timer has elapsed: vote for oneself, raise the term, ask   *)
(* every peer that has a link.                                             *)
clusterSendRequestVote(n) ==
    LET v == [type |-> "RequestVote", term |-> current_term[n] + 1,
              last_log_index |-> logCurrentIndex(log[n]),
              last_log_term |-> logCurrentTerm(log[n])]
    IN  req' = [req EXCEPT ![n] =
                  [m \in Node |-> IF link'[n][m] = UP THEN Append(@[m], v) ELSE @[m]]]

CronStartElection(n) ==
    /\ state[n] # LEADER
    /\ current_term[n] < MaxTerm /\ elections < MaxElections
    /\ elections' = elections + 1
    /\ state' = [state EXCEPT ![n] = CANDIDATE]
    /\ leader' = [leader EXCEPT ![n] = Nil]
    /\ voted_for' = [voted_for EXCEPT ![n] = n]
    /\ votes_granted' = [votes_granted EXCEPT ![n] = 1]
    /\ current_term' = [current_term EXCEPT ![n] = @ + 1]
    /\ clusterSendRequestVote(n)
    /\ votes' = votes \cup {[voter |-> n, term |-> current_term[n] + 1, candidate |-> n]}
    /\ counted' = [counted EXCEPT ![n] = {n}]
    /\ UNCHANGED <<commit_index, peerVars, elected>>

(* The entries sent to a peer whose next_index is next: those from the     *)
(* position getLogNode selects on, at most MaxEntriesPerRequest of them.   *)
EntriesFrom(n, next) ==
    LET first == getLogNode(log[n], next)
        last == Min({Len(log[n]), first + MaxEntriesPerRequest - 1})
    IN  IF logCurrentIndex(log[n]) >= next /\ first # 0
        THEN SubSeq(log[n], first, last) ELSE <<>>

(* clusterSendAppendEntries to every peer of H.  On a dead connection the  *)
(* message is lost, but last_sent_entry moves all the same.                *)
clusterSendAppendEntries(n, H) ==
    LET next(m) == next_index'[n][m]
        entries(m) == EntriesFrom(n, next(m))
        a(m) == [type |-> "AppendEntries", term |-> current_term[n],
                 prev_log_index |-> next(m) - 1,
                 prev_log_term |-> logGetTerm(log[n], next(m) - 1),
                 leader_commit_index |-> commit_index'[n],
                 log_entries |-> entries(m)]
    IN  /\ req' = [req EXCEPT ![n] =
             [m \in Node |-> IF m \in H /\ link'[n][m] = UP
                             THEN Append(@[m], a(m)) ELSE @[m]]]
        /\ last_sent_entry' = [last_sent_entry EXCEPT ![n] =
             [m \in Node |->
                IF m \notin H THEN @[m]
                ELSE IF entries(m) = <<>> THEN NULL
                ELSE getLogNode(log[n], next(m)) + Len(entries(m)) - 1]]

(* The quorumSize-th largest match_index, the node's own entry included.   *)
QuorumMatch(match) ==
    Max({match[m] : m \in {k \in Node :
           Cardinality({j \in Node : match[j] >= match[k]}) >= quorumSize}})

clusterUpdateCommitIndex(n) ==
    LET index == QuorumMatch(match_index'[n])
    IN  commit_index' = [commit_index EXCEPT ![n] =
          IF index > @ /\ current_term[n] = logGetTerm(log[n], index)
          THEN index ELSE @]

(* The leader's part of a pass; H are the peers whose heartbeat is due.    *)
LeaderDuties(n) ==
    /\ clusterUpdateCommitIndex(n)
    /\ \E H \in SUBSET {m \in Peers(n) :
                           /\ link'[n][m] # DOWN
                           /\ Len(req[n][m]) + Len(resp[n][m]) < MaxInFlight} :
          clusterSendAppendEntries(n, H)

CronBecomeLeader(n) ==
    /\ state[n] = CANDIDATE
    /\ votes_granted[n] >= quorumSize
    /\ state' = [state EXCEPT ![n] = LEADER]
    /\ leader' = [leader EXCEPT ![n] = n]
    /\ next_index' = [next_index EXCEPT ![n] =
         [m \in Node |-> IF m = n THEN @[m] ELSE logCurrentIndex(log[n]) + 1]]
    /\ match_index' = [match_index EXCEPT ![n] =
         [m \in Node |-> IF m = n THEN @[m] ELSE 0]]
    /\ elected' = [elected EXCEPT ![current_term[n]] = @ \cup {n}]
    /\ LeaderDuties(n)
    /\ UNCHANGED <<current_term, voted_for, votes_granted, elections, votes, counted>>

CronLead(n) ==
    /\ state[n] = LEADER
    /\ UNCHANGED <<next_index, match_index>>
    /\ LeaderDuties(n)
    /\ UNCHANGED <<electionVars, elections, historyVars>>

CronIdle(n) ==
    /\ state[n] # LEADER
    /\ ~(state[n] = CANDIDATE /\ votes_granted[n] >= quorumSize)
    /\ UNCHANGED <<electionVars, commit_index, peerVars, req, elections, historyVars>>

clusterCron(n) ==
    /\ clusterConnect(n)
    /\ ApplyCommitted(n)
    /\ \/ CronStartElection(n)
       \/ CronBecomeLeader(n)
       \/ CronLead(n)
       \/ CronIdle(n)
    /\ UNCHANGED <<log, resp, stale, link_errors, restarts>>

----------------------------------------------------------------------------
(* A client write reaches the leader: the entry is logged and the waiting  *)
(* client is registered under its index.  dictAdd keeps the old client if  *)
(* that index already has one.  Other nodes answer with an error or a      *)
(* redirection and change nothing.                                         *)
NewEntryNextTerm(n, cmd) ==  \* mutant: the term after the current one
    [index |-> logCurrentIndex(log[n]) + 1, term |-> current_term[n] + 1, cmd |-> cmd]
NewEntryLogTerm(n, cmd) ==  \* mutant: the term of the log, not of the leader
    [index |-> logCurrentIndex(log[n]) + 1, term |-> logCurrentTerm(log[n]), cmd |-> cmd]

NewEntry(n, cmd) ==
    [index |-> logCurrentIndex(log[n]) + 1, term |-> current_term[n], cmd |-> cmd]

clusterProcessCommand(n, cmd) ==
    LET e == NewEntry(n, cmd)
    IN  /\ state[n] = LEADER
        /\ e.index <= MaxLog /\ Len(log[n]) < MaxList
        /\ log' = [log EXCEPT ![n] = logWriteEntry(@, e)]
        /\ last_sent_entry' = [last_sent_entry EXCEPT ![n] =
                                 Dangling(@, log[n], log'[n])]
        /\ proc_clients' = [proc_clients EXCEPT ![n][e.index] =
                              IF @ = Nil THEN cmd ELSE @]
        /\ UNCHANGED <<electionVars, commit_index, applied, next_index, match_index,
                       busVars, budgetVars, historyVars>>

(* What m can still read of a connection n has closed: a prefix of what n  *)
(* had put on it, the rest never left n's send buffer.                     *)
Leftovers(q) == {SubSeq(q, 1, k) : k \in 0..Len(q)}

(* An I/O error on n's link to m: handleLinkIOError frees the link, cron   *)
(* opens a new one later.  A link whose peer died costs no budget.         *)
handleLinkIOError(n, m) ==
    /\ \/ link[n][m] = UP /\ link_errors < MaxLinkErrors
          /\ link_errors' = link_errors + 1
       \/ link[n][m] = DEAD /\ UNCHANGED link_errors
    /\ link' = [link EXCEPT ![n][m] = DOWN]
    /\ \E q \in Leftovers(req[n][m]) :
         stale' = [stale EXCEPT ![n][m] = @ \cup ({q} \ {<<>>})]
    /\ req' = [req EXCEPT ![n][m] = <<>>]
    /\ resp' = [resp EXCEPT ![n][m] = <<>>]
    /\ UNCHANGED <<electionVars, storeVars, peerVars, elections, restarts, historyVars>>

(* What a restart makes of the election state: nothing of it is on disk    *)
(* but the term of the last log entry.                                     *)
ForgetsAllButLeader(n) ==  \* mutant: the hint is not initialised
    /\ state' = [state EXCEPT ![n] = FOLLOWER]
    /\ current_term' = [current_term EXCEPT ![n] = logCurrentTerm(log[n])]
    /\ voted_for' = [voted_for EXCEPT ![n] = Nil]
    /\ votes_granted' = [votes_granted EXCEPT ![n] = 0]
    /\ UNCHANGED leader

ResetElectionState(n) ==
    /\ state' = [state EXCEPT ![n] = FOLLOWER]
    /\ current_term' = [current_term EXCEPT ![n] = logCurrentTerm(log[n])]
    /\ voted_for' = [voted_for EXCEPT ![n] = Nil]
    /\ votes_granted' = [votes_granted EXCEPT ![n] = 0]
    /\ leader' = [leader EXCEPT ![n] = Nil]

(* Node n crashes and starts again: initClusterConfig, clusterInit and     *)
(* loadLogFile.  The log comes back from its file, the term is that of its *)
(* last entry, everything else starts afresh.  Its peers keep a dead link  *)
(* to it; what it had sent may still be read.                              *)
clusterInit(n) ==
    /\ restarts < MaxRestarts
    /\ restarts' = restarts + 1
    /\ ResetElectionState(n)
    /\ commit_index' = [commit_index EXCEPT ![n] = 0]
    /\ applied' = [applied EXCEPT ![n] = <<>>]
    /\ proc_clients' = [proc_clients EXCEPT ![n] = [i \in 1..MaxLog |-> Nil]]
    /\ next_index' = [next_index EXCEPT ![n] = [m \in Node |-> 1]]
    /\ \E own \in SelfMatchReads :
         match_index' = [match_index EXCEPT ![n] =
                           [m \in Node |-> IF m = n THEN own ELSE 0]]
    /\ last_sent_entry' = [last_sent_entry EXCEPT ![n] = [m \in Node |-> NULL]]
    /\ link' = [k \in Node |-> [m \in Node |->
                  IF k = n THEN DOWN
                  ELSE IF m = n /\ link[k][m] = UP THEN DEAD
                  ELSE link[k][m]]]
    /\ req' = [k \in Node |-> [m \in Node |->
                 IF n \in {k, m} THEN <<>> ELSE req[k][m]]]
    /\ resp' = [resp EXCEPT ![n] = [m \in Node |-> <<>>]]
    /\ \E left \in [Node -> UNION {Leftovers(req[n][m]) : m \in Node}] :
         /\ \A m \in Node : left[m] \in Leftovers(req[n][m])
         /\ stale' = [k \in Node |-> [m \in Node |->
              IF m = n THEN {}
              ELSE IF k = n THEN stale[k][m] \cup ({left[m]} \ {<<>>})
              ELSE stale[k][m]]]
    /\ counted' = [counted EXCEPT ![n] = {}]
    /\ UNCHANGED <<log, elections, link_errors, votes, elected>>

----------------------------------------------------------------------------
ProcessRequest(n, m) ==
    \E src \in Sources(n, m) :
       \/ \E selfVoteRead \in SelfVoteReads :
            clusterProcessRequestVote(n, m, src, selfVoteRead)
       \/ \E synced \in FsyncOutcomes :
            clusterProcessAppendEntries(n, m, src, synced)

ProcessResponse(n, m) ==
    \/ clusterProcessResponseVote(n, m)
    \/ clusterProcessResponseAppendEntries(n, m)

Next ==
    \/ \E n \in Node : clusterCron(n)
    \/ \E n, m \in Node : ProcessRequest(n, m)
    \/ \E n, m \in Node : ProcessResponse(n, m)
    \/ \E n \in Node, cmd \in Cmd : clusterProcessCommand(n, cmd)
    \/ \E n, m \in Node : handleLinkIOError(n, m)
    \/ \E n \in Node : clusterInit(n)

Spec == Init /\ [][Next]_vars

(***************************************************************************)
(* Fairness.  The event loop serves every readable socket, and serverCron  *)
(* calls clusterCron for ever; a missing link is opened by every pass, and *)
(* a heartbeat is due to every peer once heartbeat_interval has elapsed.   *)
(***************************************************************************)
ServingCron(n) ==
    /\ clusterCron(n)
    /\ \A m \in Peers(n) :
         /\ link'[n][m] # DOWN
         /\ /\ state[n] = LEADER
            /\ Len(req[n][m]) + Len(resp[n][m]) < MaxInFlight
            => Len(req'[n][m]) > Len(req[n][m])

Fairness ==
    /\ \A n \in Node : WF_vars(ServingCron(n))
    /\ \A n, m \in Node : WF_vars(ProcessRequest(n, m))
    /\ \A n, m \in Node : WF_vars(ProcessResponse(n, m))

----------------------------------------------------------------------------
(* Every field of clusterState, clusterNode and the links has its type; a  *)
(* last_sent_entry is NULL, a freed pointer or an entry of the list, which *)
(* is what makes the reads of clusterProcessResponseAppendEntries defined. *)
TypeOK ==
    /\ state \in [Node -> {FOLLOWER, CANDIDATE, LEADER}]
    /\ current_term \in [Node -> Term]
    /\ voted_for \in [Node -> Node \cup {Nil}]
    /\ votes_granted \in [Node -> Nat]
    /\ leader \in [Node -> Node \cup {Nil}]
    /\ log \in [Node -> Seq(Entry)]
    /\ commit_index \in [Node -> Int]
    /\ applied \in [Node -> Seq(Cmd \cup {Nil})]
    /\ proc_clients \in [Node -> [1..MaxLog -> Cmd \cup {Nil}]]
    /\ next_index \in [Node -> [Node -> Int]]
    /\ match_index \in [Node -> [Node -> Int]]
    /\ last_sent_entry \in [Node -> [Node -> Int]]
    /\ \A n, m \in Node : last_sent_entry[n][m] \in {NULL, FREED} \cup 1..Len(log[n])
    /\ link \in [Node -> [Node -> {DOWN, UP, DEAD}]]
    /\ req \in [Node -> [Node -> Seq(Request)]]
    /\ resp \in [Node -> [Node -> Seq(Response)]]
    /\ stale \in [Node -> [Node -> SUBSET (Seq(Request) \ {<<>>})]]
    /\ elections \in 0..MaxElections
    /\ link_errors \in 0..MaxLinkErrors
    /\ restarts \in 0..MaxRestarts
    /\ votes \in SUBSET [voter : Node, term : Term, candidate : Node]
    /\ counted \in [Node -> SUBSET Node]
    /\ elected \in [Term -> SUBSET Node]

(* At most one node takes office in a term: the elections cron starts and  *)
(* the votes clusterProcessRequestVote grants never make two leaders.      *)
ElectionSafety == \A t \in Term : \A a, b \in elected[t] : a = b

(* A node votes for at most one candidate per term, its own candidacy      *)
(* included: voted_for in clusterProcessRequestVote, the self vote of cron.*)
OneVotePerTerm ==
    \A v, w \in votes :
       v.voter = w.voter /\ v.term = w.term => v.candidate = w.candidate

VotersOf(n, t) == {v.voter : v \in {w \in votes : w.term = t /\ w.candidate = n}}

(* votes_granted, which clusterProcessResponseVote raises without looking  *)
(* at the state or at the sender, never exceeds the number of nodes that   *)
(* really voted for the candidate in its present term.                     *)
VotesBacked ==
    \A n \in Node : state[n] # FOLLOWER =>
       votes_granted[n] <= Cardinality(VotersOf(n, current_term[n]))

(* The leader a node would redirect a client to ("ASK") was elected in the *)
(* very term the node is in: no step leaves a leader of an older term.     *)
LeaderHintElected ==
    \A n \in Node : leader[n] # Nil => leader[n] \in elected[current_term[n]]

(* An entry is identified by its index and term: wherever two logs hold    *)
(* the same pair they hold the same command (the creation of entries in    *)
(* clusterProcessCommand, their copies in logAppendEntries).               *)
EntryUnique ==
    \A n, m \in Node : \A p \in 1..Len(log[n]), q \in 1..Len(log[m]) :
       /\ log[n][p].index = log[m][q].index
       /\ log[n][p].term = log[m][q].term
       => log[n][p].cmd = log[m][q].cmd

(* While a node leads a term, its log changes by its own client writes     *)
(* only: clusterProcessAppendEntries never touches the log of a leader     *)
(* that stays in office, although it does not ask whether m is one.        *)
LeaderWritesAlone ==
    [][\A n \in Node :
         /\ state[n] = LEADER /\ state'[n] = LEADER
         /\ current_term'[n] = current_term[n]
         /\ log'[n] # log[n]
         => \E cmd \in Cmd : log'[n] = logWriteEntry(log[n], NewEntry(n, cmd))]_vars

(* The entry of index i is the i-th of the list, as getLogNode assumes of  *)
(* every log, and after logWriteEntry has found a "Conflict detected" and  *)
(* called for the old entries to go (log.c).                               *)
PositionIsIndex ==
    \A n \in Node : \A p \in 1..Len(log[n]) : log[n][p].index = p

(* Two nodes run the same commands in the same order, as far as both have  *)
(* got: logApply on either side, whatever clusterCron committed.           *)
StateMachineSafety ==
    \A n, m \in Node : \A i \in 1..Min({Len(applied[n]), Len(applied[m])}) :
       applied[n][i] = applied[m][i]

(* log.c: "Process command which is what commit is really about".  What    *)
(* clusterCron runs for an index is the command of the entry of that       *)
(* index, also where logApply runs a waiting client.                       *)
RanEntry(n, i) ==
    \E p \in 1..Len(log[n]) : log[n][p].index = i /\ log[n][p].cmd = applied'[n][i]

AppliesTheEntry ==
    [][\A n \in Node : \A i \in Len(applied[n]) + 1 .. Len(applied'[n]) :
         RanEntry(n, i)]_vars

(* README.md: "Currently, it performs Raft leader election and log         *)
(* replication".  An entry a leader has logged is run by every node in the *)
(* end, as long as that leader is not replaced: heartbeats keep retrying   *)
(* what a lost connection has swallowed.                                   *)
EventuallyApplied ==
    \A i \in 1..MaxLog :
       (\E n \in Node : state[n] = LEADER /\ logCurrentIndex(log[n]) >= i)
         ~> (\A m \in Node : Len(applied[m]) >= i)

Holds(m, e) == \E p \in 1..Len(log[m]) : log[m][p].index = e.index
                                         /\ log[m][p].term = e.term

(* cluster.c: "Committing log index by counting replicas".  When a leader  *)
(* commits an index, a quorum of the nodes has the entry in its log.       *)
CommitCountsReplicas ==
    [][\A n \in Node :
         commit_index'[n] > commit_index[n] /\ state'[n] = LEADER =>
           \E Q \in SUBSET Node :
              /\ Cardinality(Q) >= quorumSize
              /\ \A m \in Q : Holds(m, log[n][getLogNode(log[n], commit_index'[n])])]_vars
============================================================================
