-------------------------- MODULE PrezElectionInv --------------------------
(***************************************************************************)
(* Why at most one node takes office in a term: the inductive invariant    *)
(* behind ElectionSafety, for a cluster in which no node restarts and a    *)
(* self vote is read back as a vote.  A vote lives through four stages: a  *)
(* RequestVote on the wire, an entry of the voter's voted_for, a grant on  *)
(* the wire, one count of votes_granted.  The conjuncts say that no stage  *)
(* duplicates or invents a vote.                                           *)
(***************************************************************************)
EXTENDS PrezCluster

(* What the argument rests on: no node restarts, which loses its vote, and *)
(* the length sdslen reads from the vote a node gave itself is not 0.      *)
SteadyNodes == MaxRestarts = 0 /\ SelfVoteReads \subseteq {TRUE}

IsRequestVote(x, t) == x.type = "RequestVote" /\ x.term = t
IsGrant(x, t) == x.type = "ResponseVote" /\ x.vote_granted /\ x.term = t

(* A node has no link to itself, so it never answers its own request.      *)
NoSelfLink ==
    \A n \in Node : link[n][n] = DOWN /\ req[n][n] = <<>> /\ stale[n][n] = {}

(* A vote was cast in a term its voter has reached; voted_for remembers    *)
(* the one of the present term.                                            *)
VotesRemembered ==
    \A v \in votes :
       /\ v.term <= current_term[v.voter]
       /\ v.term = current_term[v.voter] => voted_for[v.voter] = v.candidate

(* Candidates and leaders have voted for themselves.                       *)
OwnVote == \A n \in Node : state[n] # FOLLOWER => voted_for[n] = n

(* A request for votes on an open connection is of a term its sender has   *)
(* reached, and so is a grant, which stands for a vote really cast.        *)
RequestsSent ==
    \A n, m \in Node : \A i \in DOMAIN req[n][m] :
       req[n][m][i].type = "RequestVote" => req[n][m][i].term <= current_term[n]

GrantsCast ==
    \A n, m \in Node : \A i \in DOMAIN resp[n][m] : \A t \in Term :
       IsGrant(resp[n][m][i], t) =>
         /\ t <= current_term[n]
         /\ [voter |-> m, term |-> t, candidate |-> n] \in votes

(* Of the present candidacy of n, a peer m is at one stage at most: asked  *)
(* once, granted once, or counted.                                         *)
AskedOnce ==
    \A n, m \in Node : state[n] # FOLLOWER =>
       \A i \in DOMAIN req[n][m] : IsRequestVote(req[n][m][i], current_term[n]) =>
          /\ m \notin counted[n]
          /\ \A j \in DOMAIN req[n][m] :
               IsRequestVote(req[n][m][j], current_term[n]) => j = i
          /\ \A j \in DOMAIN resp[n][m] : ~IsGrant(resp[n][m][j], current_term[n])

GrantedOnce ==
    \A n, m \in Node : state[n] # FOLLOWER =>
       \A i \in DOMAIN resp[n][m] : IsGrant(resp[n][m][i], current_term[n]) =>
          /\ m \notin counted[n]
          /\ \A j \in DOMAIN resp[n][m] :
               IsGrant(resp[n][m][j], current_term[n]) => j = i

(* votes_granted counts distinct voters of the present term.               *)
CountedBacked ==
    \A n \in Node : state[n] # FOLLOWER =>
       /\ counted[n] \subseteq VotersOf(n, current_term[n])
       /\ votes_granted[n] = Cardinality(counted[n])

(* Whoever took office had a quorum of votes.                              *)
ElectedBacked ==
    \A t \in Term : \A n \in elected[t] : Cardinality(VotersOf(n, t)) >= quorumSize

(* A leader is an elected one, and so is the sender of an AppendEntries,   *)
(* on an open connection as on a closed one.                               *)
InOffice == \A n \in Node : state[n] = LEADER => n \in elected[current_term[n]]

AppendsFromElected ==
    \A n, m \in Node : \A q \in {req[n][m]} \cup stale[n][m] : \A i \in DOMAIN q :
       q[i].type = "AppendEntries" => n \in elected[q[i].term]

(* The inductive invariant: every vote counted is one cast, and cast once. *)
ElectionInv ==
    /\ NoSelfLink
    /\ VotesRemembered
    /\ OneVotePerTerm
    /\ OwnVote
    /\ RequestsSent
    /\ GrantsCast
    /\ AskedOnce
    /\ GrantedOnce
    /\ CountedBacked
    /\ ElectedBacked
    /\ InOffice
    /\ AppendsFromElected
    /\ LeaderHintElected

Majorities == {Q \in SUBSET Node : Cardinality(Q) >= quorumSize}

Voting == INSTANCE PrezVoting
            WITH Voter <- Node, Quorum <- Majorities, ballots <- votes, office <- elected

(* The elections of cluster.c implement PrezVoting: each vote granted or   *)
(* given to oneself is the only ballot of its voter in its term, and who   *)
(* takes office by votes_granted is the first to do so in the term and has *)
(* the ballots of a majority.                                              *)
ImplementsVoting == Voting!Spec
============================================================================
