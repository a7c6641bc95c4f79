--------------------------- MODULE MCPrezCluster ---------------------------
(***************************************************************************)
(* Small instances of PrezCluster for TLC.                                 *)
(***************************************************************************)
EXTENDS PrezReplicationInv, TLC

(* Nodes, and commands, are interchangeable in every safety property.      *)
Symmetry == Permutations(Node) \cup Permutations(Cmd)

(* A state every node has seen a first, undisturbed election in: all links *)
(* are up and quiet, one node has just taken office in term 1 with every   *)
(* vote, and no client has written yet.  Runs about replication start here *)
(* to spend their bounds on what follows the first election.               *)
AfterElection(n) ==
    /\ state = [m \in Node |-> IF m = n THEN LEADER ELSE FOLLOWER]
    /\ current_term = [m \in Node |-> 1]
    /\ voted_for = [m \in Node |-> n]
    /\ votes_granted = [m \in Node |-> IF m = n THEN Cardinality(Node) ELSE 0]
    /\ leader = [m \in Node |-> IF m = n THEN n ELSE Nil]
    /\ votes = [voter : Node, term : {1}, candidate : {n}]
    /\ counted = [m \in Node |-> IF m = n THEN Node ELSE {}]
    /\ elected = [t \in Term |-> IF t = 1 THEN {n} ELSE {}]
    /\ elections = 1

QuietStart ==
    /\ log = [n \in Node |-> <<>>]
    /\ commit_index = [n \in Node |-> 0]
    /\ applied = [n \in Node |-> <<>>]
    /\ proc_clients = [n \in Node |-> [i \in 1..MaxLog |-> Nil]]
    /\ next_index = [n \in Node |-> [m \in Node |-> 1]]
    /\ \E own \in [Node -> SelfMatchReads] :
         match_index = [n \in Node |-> [m \in Node |-> IF m = n THEN own[n] ELSE 0]]
    /\ last_sent_entry = [n \in Node |-> [m \in Node |-> NULL]]
    /\ link = [n \in Node |-> [m \in Node |-> IF m = n THEN DOWN ELSE UP]]
    /\ req = [n \in Node |-> [m \in Node |-> <<>>]]
    /\ resp = [n \in Node |-> [m \in Node |-> <<>>]]
    /\ stale = [n \in Node |-> [m \in Node |-> {}]]
    /\ link_errors = 0
    /\ restarts = 0

LedInit == (\E n \in Node : AfterElection(n)) /\ QuietStart
LedSpec == LedInit /\ [][Next]_vars

(* bound: requests and answers under way in the whole cluster, enough for  *)
(* two on one link or one on each of two.                                  *)
MaxMessages == 2
Waiting(n, m) == Len(req[n][m]) + Len(resp[n][m])
FewMessages ==
    MapThenSumSet(LAMBDA n : MapThenSumSet(LAMBDA m : Waiting(n, m), Node), Node)
      <= MaxMessages

(* Liveness is checked without SYMMETRY.  The nodes are interchangeable    *)
(* all the same, so one of them can stand for every first leader.          *)
LedByOneInit == AfterElection(CHOOSE n \in Node : TRUE) /\ QuietStart
LedFairSpec == LedByOneInit /\ [][Next]_vars /\ Fairness
============================================================================
