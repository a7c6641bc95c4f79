------------------------- MODULE PrezElectionProofs -------------------------
(***************************************************************************)
(* Proof that ElectionInv is inductive, and that a cluster of any size     *)
(* elects at most one leader per term while no node restarts.              *)
(***************************************************************************)
EXTENDS PrezElectionVotes

(* An answer read by n: the queue to it loses its head, requests stay.     *)
LEMMA ReadBus ==
  ASSUME TypeOK, ElectionInv, NEW n \in Node, NEW m \in Node, resp[n][m] # <<>>,
         resp' = [resp EXCEPT ![n][m] = Tail(resp[n][m])],
         UNCHANGED <<link, req, stale>>
  PROVE  /\ QuietBus /\ AppendsAllowed /\ NoSelfLink'
         /\ resp'[n][m] = Tail(resp[n][m])
         /\ \A k, j \in Node : k # n \/ j # m => resp'[k][j] = resp[k][j]
<1>0. /\ req \in [Node -> [Node -> Seq(Request)]]
      /\ resp \in [Node -> [Node -> Seq(Response)]]
  BY ZenonT(60) DEF TypeOK
<1>1. /\ resp'[n][m] = Tail(resp[n][m])
      /\ \A k, j \in Node : k # n \/ j # m => resp'[k][j] = resp[k][j]
  BY SMTT(30), <1>0
<1>2. \A k, j \in Node : /\ Kept(req[k][j], req[k][j], "RequestVote")
                         /\ Kept(resp[k][j], resp[k][j], "ResponseVote")
  BY ZenonT(60), <1>0, KeptSame
<1>3. Kept(Tail(resp[n][m]), resp[n][m], "ResponseVote")
  BY ZenonT(60), <1>0, KeptTail
<1>4. QuietBus
  BY SMTT(90), <1>1, <1>2, <1>3 DEF QuietBus
<1>5. AppendsAllowed
  BY ZenonT(60) DEF AppendsAllowed
<1>6. NoSelfLink'
  BY DEF ElectionInv, NoSelfLink
<1> QED BY ZenonT(60), <1>1, <1>4, <1>5, <1>6

(* Stepping down for a newer term is a quiet step.                         *)
LEMMA StepDownQuiet ==
  ASSUME TypeOK, ElectionInv, NEW n \in Node, NEW t \in Term,
         t > current_term[n], StepDown(n, t),
         UNCHANGED <<votes_granted, votes, counted, elected>>
  PROVE  PassiveStep /\ OfficeEarned
<1>0. /\ state \in [Node -> {FOLLOWER, CANDIDATE, LEADER}]
      /\ current_term \in [Node -> Term]
      /\ leader \in [Node -> Node \cup {Nil}]
      /\ voted_for \in [Node -> Node \cup {Nil}]
      /\ t \in Nat /\ \A k \in Node : current_term[k] \in Nat
  BY ZenonT(60), TermFacts DEF TypeOK
<1>1. /\ state'[n] = FOLLOWER /\ current_term'[n] = t /\ leader'[n] = Nil
      /\ \A k \in Node \ {n} : /\ state'[k] = state[k] /\ leader'[k] = leader[k]
                               /\ current_term'[k] = current_term[k]
                               /\ voted_for'[k] = voted_for[k]
  BY SMTT(30), <1>0 DEF StepDown
<1>2. PassiveStep
  BY SMTT(90), <1>0, <1>1 DEF PassiveStep
<1>3. OfficeEarned
  BY ZenonT(60), <1>1 DEF OfficeEarned, LEADER, FOLLOWER
<1> QED BY ZenonT(60), <1>2, <1>3

(* A step that leaves the election state alone casts no vote and gives no  *)
(* office.                                                                 *)
LEMMA UnchangedQuiet ==
  ASSUME TypeOK, ElectionInv, UNCHANGED <<electionVars, historyVars>>
  PROVE  PassiveStep /\ OfficeEarned
<1>1. \A k \in Node : current_term[k] \in Nat
  BY ZenonT(60), TermFacts DEF TypeOK
<1> QED BY SMTT(90), <1>1 DEF PassiveStep, OfficeEarned, electionVars, historyVars

(* clusterProcessResponseAppendEntries keeps ElectionInv.                  *)
LEMMA ResponseAppendElection ==
  ASSUME TypeOK, TypeOK', ElectionInv, NEW n \in Node, NEW m \in Node,
         clusterProcessResponseAppendEntries(n, m)
  PROVE  ElectionInv'
<1> DEFINE r == Head(resp[n][m])
<1>1. /\ resp[n][m] # <<>>
      /\ resp' = [resp EXCEPT ![n][m] = Tail(resp[n][m])]
      /\ UNCHANGED <<link, req, stale>> /\ UNCHANGED historyVars
  BY ZenonT(60) DEF clusterProcessResponseAppendEntries, TypeOK
<1>2. QuietBus /\ AppendsAllowed /\ NoSelfLink'
  BY ZenonT(60), <1>1, ReadBus
<1>3. r.term \in Term
  BY ZenonT(60), <1>1, ResponseHeadTypes
<1>4. CASE UNCHANGED electionVars
  <2>1. PassiveStep /\ OfficeEarned
    BY ZenonT(60), <1>1, <1>4, UnchangedQuiet
  <2> QED BY ZenonT(60), <1>2, <2>1, QuietStep
<1>5. CASE /\ r.term > current_term[n] /\ StepDown(n, r.term)
           /\ UNCHANGED votes_granted
  <2>1. PassiveStep /\ OfficeEarned
    <3> HIDE DEF r
    <3> QED BY ZenonT(60), <1>1, <1>3, <1>5, StepDownQuiet DEF historyVars
  <2> QED BY SMTT(30), <1>2, <2>1, QuietStep
<1> QED BY ZenonT(60), <1>4, <1>5 DEF clusterProcessResponseAppendEntries

(* clusterProcessResponseVote keeps ElectionInv: the one step that turns a *)
(* grant into a count.                                                     *)
LEMMA ResponseVoteElection ==
  ASSUME TypeOK, TypeOK', ElectionInv, NEW n \in Node, NEW m \in Node,
         clusterProcessResponseVote(n, m)
  PROVE  ElectionInv'
<1> DEFINE v == Head(resp[n][m])
<1>1. /\ resp[n][m] # <<>>
      /\ resp' = [resp EXCEPT ![n][m] = Tail(resp[n][m])]
      /\ UNCHANGED <<link, req, stale>> /\ UNCHANGED <<votes, elected>>
      /\ v.type = "ResponseVote"
  BY ZenonT(60) DEF clusterProcessResponseVote, TypeOK
<1>2. /\ QuietBus /\ AppendsAllowed /\ NoSelfLink'
      /\ resp'[n][m] = Tail(resp[n][m])
      /\ \A k, j \in Node : k # n \/ j # m => resp'[k][j] = resp[k][j]
  BY ZenonT(60), <1>1, ReadBus
<1>3. v.term \in Term
  BY ZenonT(60), <1>1, ResponseHeadTypes
<1>4. CASE UNCHANGED <<electionVars, counted>>
  <2>1. PassiveStep /\ OfficeEarned
    BY ZenonT(60), <1>1, <1>4, UnchangedQuiet DEF historyVars
  <2> QED BY ZenonT(60), <1>2, <2>1, QuietStep
<1>5. CASE /\ v.term > current_term[n] /\ StepDown(n, v.term)
           /\ UNCHANGED <<votes_granted, counted>>
  <2>1. PassiveStep /\ OfficeEarned
    <3> HIDE DEF v
    <3> QED BY ZenonT(60), <1>1, <1>3, <1>5, StepDownQuiet
  <2> QED BY SMTT(30), <1>2, <2>1, QuietStep
<1>6. CASE /\ VoteCounts(n, v)
           /\ votes_granted' = [votes_granted EXCEPT ![n] = @ + 1]
           /\ counted' = [counted EXCEPT ![n] = @ \cup {m}]
           /\ UNCHANGED <<state, current_term, leader, voted_for>>
  <2>0. /\ current_term \in [Node -> Term] /\ counted \in [Node -> SUBSET Node]
        /\ votes_granted \in [Node -> Nat]
        /\ resp \in [Node -> [Node -> Seq(Response)]]
        /\ votes \in SUBSET [voter : Node, term : Term, candidate : Node]
    BY ZenonT(60) DEF TypeOK
  <2>1. /\ counted'[n] = counted[n] \cup {m} /\ votes_granted'[n] = votes_granted[n] + 1
        /\ \A k \in Node \ {n} :
             counted'[k] = counted[k] /\ votes_granted'[k] = votes_granted[k]
    BY ZenonT(60), <1>6, <2>0
  <2>2. /\ 1 \in DOMAIN resp[n][m] /\ v = resp[n][m][1]
        /\ \A i \in DOMAIN Tail(resp[n][m]) :
             i \in Nat /\ i >= 1 /\ i + 1 \in DOMAIN resp[n][m]
             /\ Tail(resp[n][m])[i] = resp[n][m][i + 1]
    BY SMTT(90), <1>1, <2>0, TailElements
  <2>3. IsGrant(resp[n][m][1], current_term[n])
    BY ZenonT(60), <1>1, <1>6, <2>2 DEF VoteCounts, IsGrant
  <2> HIDE DEF v
  <2>4. [voter |-> m, term |-> current_term[n], candidate |-> n] \in votes
    BY ZenonT(60), <2>0, <2>2, <2>3 DEF ElectionInv, GrantsCast
  <2>5. state[n] # FOLLOWER =>
          /\ m \notin counted[n]
          /\ \A j \in DOMAIN resp[n][m] :
               IsGrant(resp[n][m][j], current_term[n]) => j = 1
          /\ \A i \in DOMAIN req[n][m] : ~IsRequestVote(req[n][m][i], current_term[n])
    BY ZenonT(60), <2>2, <2>3 DEF ElectionInv, GrantedOnce, AskedOnce
  <2>6. VotesRemembered' /\ OneVotePerTerm' /\ OwnVote'
    BY ZenonT(60), <1>1, <1>6 DEF ElectionInv, VotesRemembered, OneVotePerTerm, OwnVote
  <2>7. CountedBacked'
    <3> SUFFICES ASSUME NEW k \in Node, state[k] # FOLLOWER
                 PROVE  /\ counted'[k] \subseteq VotersOf(k, current_term[k])
                        /\ votes_granted'[k] = Cardinality(counted'[k])
      BY ZenonT(60), <1>1, <1>6 DEF CountedBacked, VotersOf
    <3>1. /\ counted[k] \subseteq VotersOf(k, current_term[k])
          /\ votes_granted[k] = Cardinality(counted[k])
      BY DEF ElectionInv, CountedBacked
    <3>2. CASE k # n
      BY ZenonT(60), <2>1, <3>1, <3>2
    <3>3. CASE k = n
      <4>1. m \in VotersOf(n, current_term[n])
        BY SMTT(90), <2>4 DEF VotersOf
      <4>2. IsFiniteSet(counted[n])
        BY ZenonT(60), <2>0, ClusterAssumption, FS_Subset DEF ClusterAssumption
      <4>3. m \notin counted[n]
        BY ZenonT(60), <2>5, <3>3
      <4>4. Cardinality(counted[n] \cup {m}) = Cardinality(counted[n]) + 1
        BY ZenonT(60), <4>2, <4>3, FS_AddElement
      <4> QED BY ZenonT(60), <2>1, <3>1, <3>3, <4>1, <4>4
    <3> QED BY ZenonT(60), <3>2, <3>3
  <2>8. ElectedBacked' /\ InOffice' /\ LeaderHintElected' /\ AppendsFromElected'
    <3>1. OfficeEarned
      BY ZenonT(60), <1>1, <1>6 DEF OfficeEarned
    <3> QED BY ZenonT(60), <1>2, <3>1, OfficeKept, AppendsKept
  <2>9. RequestsSent'
    BY ZenonT(60), <1>1, <1>6 DEF ElectionInv, RequestsSent
  <2>10. \A k, j \in Node : \A i \in DOMAIN resp'[k][j] :
            \E g \in DOMAIN resp[k][j] :
               /\ resp'[k][j][i] = resp[k][j][g]
               /\ k = n /\ j = m => g # 1
    <3> SUFFICES ASSUME NEW k \in Node, NEW j \in Node, NEW i \in DOMAIN resp'[k][j]
                 PROVE  \E g \in DOMAIN resp[k][j] : /\ resp'[k][j][i] = resp[k][j][g]
                                                     /\ k = n /\ j = m => g # 1
      BY ZenonT(60)
    <3>1. CASE k = n /\ j = m
      <4>1. /\ i \in Nat /\ i >= 1 /\ i + 1 \in DOMAIN resp[n][m]
            /\ resp'[n][m][i] = resp[n][m][i + 1]
        BY ZenonT(60), <1>2, <2>2, <3>1
      <4>2. i + 1 # 1
        BY SMTT(90), <4>1
      <4> QED BY ZenonT(60), <3>1, <4>1, <4>2
    <3>2. CASE k # n \/ j # m
      BY ZenonT(60), <1>2, <3>2
    <3> QED BY ZenonT(60), <3>1, <3>2
  <2>11. GrantsCast'
    <3> SUFFICES ASSUME NEW k \in Node, NEW j \in Node, NEW i \in DOMAIN resp'[k][j],
                        NEW t \in Term, IsGrant(resp'[k][j][i], t)
                 PROVE  /\ t <= current_term[k]
                        /\ [voter |-> j, term |-> t, candidate |-> k] \in votes
      BY ZenonT(60), <1>1, <1>6 DEF GrantsCast
    <3> QED BY SMTT(30), <2>10 DEF ElectionInv, GrantsCast
  <2>12. \A i \in DOMAIN resp'[n][m] : state[n] # FOLLOWER =>
            ~IsGrant(resp'[n][m][i], current_term[n])
    BY ZenonT(60), <2>5, <2>10
  <2>13. AskedOnce'
    <3> SUFFICES ASSUME NEW k \in Node, NEW j \in Node, state[k] # FOLLOWER,
                        NEW i \in DOMAIN req[k][j],
                        IsRequestVote(req[k][j][i], current_term[k])
                 PROVE  /\ j \notin counted'[k]
                        /\ \A h \in DOMAIN req[k][j] :
                             IsRequestVote(req[k][j][h], current_term[k]) => h = i
                        /\ \A h \in DOMAIN resp'[k][j] :
                             ~IsGrant(resp'[k][j][h], current_term[k])
      BY ZenonT(60), <1>1, <1>6 DEF AskedOnce
    <3>1. /\ j \notin counted[k]
          /\ \A h \in DOMAIN req[k][j] :
               IsRequestVote(req[k][j][h], current_term[k]) => h = i
          /\ \A h \in DOMAIN resp[k][j] : ~IsGrant(resp[k][j][h], current_term[k])
      BY ZenonT(60) DEF ElectionInv, AskedOnce
    <3>2. k # n \/ j # m
      BY ZenonT(60), <2>5
    <3> QED BY ZenonT(60), <1>2, <2>1, <3>1, <3>2
  <2>14. GrantedOnce'
    <3> SUFFICES ASSUME NEW k \in Node, NEW j \in Node, state[k] # FOLLOWER,
                        NEW i \in DOMAIN resp'[k][j],
                        IsGrant(resp'[k][j][i], current_term[k])
                 PROVE  /\ j \notin counted'[k]
                        /\ \A h \in DOMAIN resp'[k][j] :
                             IsGrant(resp'[k][j][h], current_term[k]) => h = i
      BY ZenonT(60), <1>6 DEF GrantedOnce
    <3>1. k # n \/ j # m
      BY ZenonT(60), <2>12
    <3>2. /\ j \notin counted[k]
          /\ \A h \in DOMAIN resp[k][j] : IsGrant(resp[k][j][h], current_term[k]) => h = i
      BY ZenonT(60), <1>2, <3>1 DEF ElectionInv, GrantedOnce
    <3> QED BY ZenonT(60), <1>2, <2>1, <3>1, <3>2
  <2> QED BY ZenonT(60), <1>2, <2>6, <2>7, <2>8, <2>9, <2>11, <2>13, <2>14 DEF ElectionInv
<1> QED BY ZenonT(60), <1>4, <1>5, <1>6 DEF clusterProcessResponseVote

(* A step that leaves election state and bus alone keeps ElectionInv.      *)
LEMMA UnchangedElection ==
  ASSUME TypeOK, TypeOK', ElectionInv, UNCHANGED <<electionVars, busVars, historyVars>>
  PROVE  ElectionInv'
<1>1. PassiveStep /\ OfficeEarned
  BY ZenonT(60), UnchangedQuiet
<1>2. \A k, j \in Node : req[k][j] \in Seq(Request) /\ resp[k][j] \in Seq(Response)
  BY DEF TypeOK
<1>3. QuietBus
  BY ZenonT(60), <1>2, KeptSame DEF QuietBus, busVars
<1>4. AppendsAllowed /\ NoSelfLink'
  BY ZenonT(60) DEF AppendsAllowed, ElectionInv, NoSelfLink, busVars
<1> QED BY ZenonT(60), <1>1, <1>3, <1>4, QuietStep

(* handleLinkIOError keeps ElectionInv: requests move to a closed          *)
(* connection, whose answers reach nobody.                                 *)
LEMMA LinkErrorElection ==
  ASSUME TypeOK, TypeOK', ElectionInv, NEW n \in Node, NEW m \in Node,
         handleLinkIOError(n, m)
  PROVE  ElectionInv'
<1>0. /\ link \in [Node -> [Node -> {DOWN, UP, DEAD}]]
      /\ req \in [Node -> [Node -> Seq(Request)]]
      /\ resp \in [Node -> [Node -> Seq(Response)]]
      /\ stale \in [Node -> [Node -> SUBSET (Seq(Request) \ {<<>>})]]
  BY ZenonT(60) DEF TypeOK
<1>1. PassiveStep /\ OfficeEarned
  BY ZenonT(60), UnchangedQuiet DEF handleLinkIOError
<1>2. /\ link[n][m] # DOWN
      /\ link' = [link EXCEPT ![n][m] = DOWN]
      /\ req' = [req EXCEPT ![n][m] = <<>>]
      /\ resp' = [resp EXCEPT ![n][m] = <<>>]
  BY ZenonT(60) DEF handleLinkIOError, UP, DEAD, DOWN
<1>3. PICK q \in Leftovers(req[n][m]) :
        stale' = [stale EXCEPT ![n][m] = stale[n][m] \cup ({q} \ {<<>>})]
  BY ZenonT(60), <1>0 DEF handleLinkIOError
<1>4. n # m
  BY <1>2 DEF ElectionInv, NoSelfLink
<1>5. /\ req'[n][m] = <<>> /\ resp'[n][m] = <<>>
      /\ \A k, j \in Node : k # n \/ j # m =>
           /\ link'[k][j] = link[k][j]
           /\ req'[k][j] = req[k][j] /\ resp'[k][j] = resp[k][j]
  BY ZenonT(60), <1>0, <1>2
<1>6. /\ stale'[n][m] = stale[n][m] \cup ({q} \ {<<>>})
      /\ \A k, j \in Node : k # n \/ j # m => stale'[k][j] = stale[k][j]
  BY ZenonT(60), <1>0, <1>3
<1>7. QuietBus
  <2> SUFFICES ASSUME NEW k \in Node, NEW j \in Node
               PROVE  /\ Kept(req'[k][j], req[k][j], "RequestVote")
                      /\ Kept(resp'[k][j], resp[k][j], "ResponseVote")
    BY ZenonT(60) DEF QuietBus
  <2>1. CASE k = n /\ j = m
    <3>1. req'[k][j] = <<>> /\ resp'[k][j] = <<>>
      BY ZenonT(60), <1>5, <2>1
    <3> QED BY ZenonT(60), <3>1, KeptEmpty
  <2>2. CASE k # n \/ j # m
    <3>1. /\ req'[k][j] = req[k][j] /\ req[k][j] \in Seq(Request)
          /\ resp'[k][j] = resp[k][j] /\ resp[k][j] \in Seq(Response)
      <4>1. req[k][j] \in Seq(Request) /\ resp[k][j] \in Seq(Response)
        BY ZenonT(60), <1>0
      <4>2. req'[k][j] = req[k][j] /\ resp'[k][j] = resp[k][j]
        BY ZenonT(60), <1>5, <2>2
      <4> QED BY ZenonT(60), <4>1, <4>2
    <3> QED BY ZenonT(60), <3>1, KeptSame
  <2> QED BY ZenonT(60), <2>1, <2>2
<1>8. AppendsAllowed
  <2> SUFFICES ASSUME NEW k \in Node, NEW j \in Node,
                      NEW s \in {req'[k][j]} \cup stale'[k][j], NEW i \in DOMAIN s
               PROVE  \E p \in {req[k][j]} \cup stale[k][j] : \E h \in DOMAIN p : p[h] = s[i]
    BY DEF AppendsAllowed
  <2>1. CASE s \in {req[k][j]} \cup stale[k][j]
    BY ZenonT(60), <2>1
  <2>2. CASE s = <<>>
    BY SMTT(90), <2>2
  <2>3. CASE k = n /\ j = m /\ s = q
    <3>1. PICK c \in 0..Len(req[n][m]) : q = SubSeq(req[n][m], 1, c)
      BY ZenonT(60) DEF Leftovers
    <3>2. req[n][m] \in Seq(Request) /\ Len(req[n][m]) \in Nat
          /\ DOMAIN req[n][m] = 1..Len(req[n][m])
      <4>1. req[n][m] \in Seq(Request)
        BY ZenonT(60), <1>0
      <4> QED BY ZenonT(60), <4>1, LenProperties
    <3>3. \A g \in 1..c : req[n][m][g] \in Request
      BY SMTT(90), <3>1, <3>2, ElementOfSeq
    <3>4. /\ DOMAIN q = 1..c
          /\ \A g \in 1..c : q[g] = req[n][m][g]
      <4>1. /\ q \in Seq(Request) /\ Len(q) = IF 1 <= c THEN c - 1 + 1 ELSE 0
            /\ \A g \in 1..c - 1 + 1 : q[g] = req[n][m][1 + g - 1]
        BY SMTT(90), <3>1, <3>2, <3>3, SubSeqProperties
      <4>2. Len(q) = c /\ \A g \in 1..c : q[g] = req[n][m][g]
        BY SMTT(90), <3>1, <3>2, <4>1
      <4>3. DOMAIN q = 1..Len(q)
        BY ZenonT(60), <4>1, LenProperties
      <4> QED BY ZenonT(60), <4>2, <4>3
    <3> QED BY SMTT(90), <2>3, <3>1, <3>2, <3>4
  <2> QED BY ZenonT(60), <1>5, <1>6, <2>1, <2>2, <2>3
<1>9. NoSelfLink'
  BY SMTT(90), <1>4, <1>5, <1>6 DEF ElectionInv, NoSelfLink
<1> QED BY ZenonT(60), <1>1, <1>7, <1>8, <1>9, QuietStep

(* Opening links touches no queue and never gives a node a link to itself. *)
LEMMA ConnectBus ==
  ASSUME TypeOK, ElectionInv, NEW n \in Node, clusterConnect(n)
  PROVE  \A k \in Node : link'[k][k] = DOWN
<1>0. link \in [Node -> [Node -> {DOWN, UP, DEAD}]]
  BY DEF TypeOK
<1>1. PICK C \in SUBSET {m \in Peers(n) : link[n][m] = DOWN} :
        link' = [link EXCEPT ![n] = [m \in Node |-> IF m \in C THEN UP ELSE link[n][m]]]
  BY ZenonT(60), <1>0 DEF clusterConnect
<1>2. n \notin C
  BY SMTT(30), <1>1 DEF Peers
<1>3. \A k \in Node : link[k][k] = DOWN
  BY ZenonT(60) DEF ElectionInv, NoSelfLink
<1> QED BY ZenonT(60), <1>0, <1>1, <1>2, <1>3

(* The heartbeats of an elected node.                                      *)
LEMMA DutiesBus ==
  ASSUME TypeOK, ElectionInv, NEW n \in Node, clusterConnect(n), LeaderDuties(n),
         UNCHANGED <<resp, stale>>, n \in elected'[current_term[n]]
  PROVE  QuietBus /\ AppendsAllowed /\ NoSelfLink'
<1>0. /\ req \in [Node -> [Node -> Seq(Request)]]
      /\ resp \in [Node -> [Node -> Seq(Response)]]
  BY ZenonT(60) DEF TypeOK
<1>1. PICK H \in SUBSET Peers(n) : clusterSendAppendEntries(n, H)
  BY ZenonT(60) DEF LeaderDuties
<1> DEFINE a(m) == [type |-> "AppendEntries", term |-> current_term[n],
                    prev_log_index |-> next_index'[n][m] - 1,
                    prev_log_term |-> logGetTerm(log[n], next_index'[n][m] - 1),
                    leader_commit_index |-> commit_index'[n],
                    log_entries |-> EntriesFrom(n, next_index'[n][m])]
<1>2. /\ \A m \in Node : req'[n][m] = IF m \in H /\ link'[n][m] = UP
                                      THEN Append(req[n][m], a(m)) ELSE req[n][m]
      /\ \A k \in Node \ {n} : req'[k] = req[k]
  BY ZenonT(60), <1>0, <1>1 DEF clusterSendAppendEntries
<1>3. \A m : a(m).type = "AppendEntries" /\ a(m).term = current_term[n]
  BY ZenonT(60)
<1> HIDE DEF a
<1>4. \A k, j \in Node : \/ req'[k][j] = req[k][j]
                         \/ k = n /\ j # n /\ req'[k][j] = Append(req[k][j], a(j))
  BY ZenonT(60), <1>2 DEF Peers
<1>5. QuietBus
  <2> SUFFICES ASSUME NEW k \in Node, NEW j \in Node
               PROVE  /\ Kept(req'[k][j], req[k][j], "RequestVote")
                      /\ Kept(resp[k][j], resp[k][j], "ResponseVote")
    BY ZenonT(60) DEF QuietBus
  <2>1. Kept(resp[k][j], resp[k][j], "ResponseVote")
    BY ZenonT(60), <1>0, KeptSame
  <2>2. CASE req'[k][j] = req[k][j]
    BY ZenonT(60), <1>0, <2>1, <2>2, KeptSame
  <2>3. CASE req'[k][j] = Append(req[k][j], a(j))
    <3>1. a(j).type # "RequestVote"
      BY ZenonT(60), <1>3
    <3>2. req[k][j] \in Seq(Request)
      BY ZenonT(60), <1>0
    <3> QED BY ZenonT(60), <2>1, <2>3, <3>1, <3>2, KeptAppend
  <2> QED BY ZenonT(60), <1>4, <2>2, <2>3
<1>6. AppendsAllowed
  <2> SUFFICES ASSUME NEW k \in Node, NEW j \in Node,
                      NEW q \in {req'[k][j]} \cup stale[k][j], NEW i \in DOMAIN q
               PROVE  \/ \E p \in {req[k][j]} \cup stale[k][j] : \E h \in DOMAIN p : p[h] = q[i]
                      \/ k \in elected'[q[i].term]
    BY SMTT(90) DEF AppendsAllowed
  <2>1. CASE q \in {req[k][j]} \cup stale[k][j]
    BY ZenonT(60), <2>1
  <2>2. CASE k = n /\ q = Append(req[k][j], a(j))
    <3>1. req[k][j] \in Seq(Request)
      BY ZenonT(60), <1>0
    <3>2. \/ i \in DOMAIN req[k][j] /\ q[i] = req[k][j][i]
          \/ q[i] = a(j)
      BY SMTT(90), <2>2, <3>1, AppendElements
    <3> QED BY ZenonT(60), <1>3, <2>2, <3>2
  <2> QED BY ZenonT(60), <1>4, <2>1, <2>2
<1>7. NoSelfLink'
  BY SMTT(90), <1>4, ConnectBus DEF ElectionInv, NoSelfLink
<1> QED BY ZenonT(60), <1>5, <1>6, <1>7

(* Taking office, and a leader's pass of clusterCron, keep ElectionInv.    *)
LEMMA CronLeadElection ==
  ASSUME TypeOK, TypeOK', ElectionInv, NEW n \in Node, clusterConnect(n),
         UNCHANGED <<resp, stale>>, CronBecomeLeader(n) \/ CronLead(n)
  PROVE  ElectionInv'
<1>0. /\ current_term \in [Node -> Term] /\ \A k \in Node : current_term[k] \in Nat
      /\ state \in [Node -> {FOLLOWER, CANDIDATE, LEADER}]
      /\ leader \in [Node -> Node \cup {Nil}]
      /\ elected \in [Term -> SUBSET Node]
  BY ZenonT(60), TermFacts DEF TypeOK
<1>1. CASE CronLead(n)
  <2>1. UNCHANGED <<electionVars, historyVars>> /\ LeaderDuties(n) /\ state[n] = LEADER
    BY SMTT(30), <1>1 DEF CronLead
  <2>2. PassiveStep /\ OfficeEarned
    BY ZenonT(60), <2>1, UnchangedQuiet
  <2>3. n \in elected'[current_term[n]]
    BY ZenonT(60), <2>1 DEF ElectionInv, InOffice, historyVars
  <2>4. QuietBus /\ AppendsAllowed /\ NoSelfLink'
    BY ZenonT(60), <2>1, <2>3, DutiesBus
  <2> QED BY ZenonT(60), <2>2, <2>4, QuietStep
<1>2. CASE CronBecomeLeader(n)
  <2>1. /\ state[n] = CANDIDATE /\ votes_granted[n] >= quorumSize
        /\ state'[n] = LEADER /\ leader'[n] = n
        /\ \A k \in Node \ {n} : state'[k] = state[k] /\ leader'[k] = leader[k]
        /\ elected'[current_term[n]] = elected[current_term[n]] \cup {n}
        /\ \A t \in Term \ {current_term[n]} : elected'[t] = elected[t]
        /\ UNCHANGED <<current_term, voted_for, votes_granted, votes, counted>>
        /\ LeaderDuties(n)
    BY ZenonT(60), <1>0, <1>2 DEF CronBecomeLeader
  <2>2. PassiveStep
    BY SMTT(90), <1>0, <2>1 DEF PassiveStep, CANDIDATE, FOLLOWER
  <2>3. OfficeEarned
    <3>1. \A t \in Term : elected[t] \subseteq elected'[t]
      BY ZenonT(60), <2>1
    <3>2. \A t \in Term : \A k \in elected'[t] :
            \/ k \in elected[t]
            \/ /\ t = current_term[k] /\ state[k] = CANDIDATE
               /\ votes_granted[k] >= quorumSize
      BY ZenonT(60), <2>1
    <3>3. n \in elected'[current_term'[n]]
      BY ZenonT(60), <2>1
    <3> QED BY ZenonT(60), <2>1, <3>1, <3>2, <3>3 DEF OfficeEarned
  <2>4. n \in elected'[current_term[n]]
    BY ZenonT(60), <2>1
  <2>5. QuietBus /\ AppendsAllowed /\ NoSelfLink'
    BY ZenonT(60), <2>1, <2>4, DutiesBus
  <2> QED BY ZenonT(60), <2>2, <2>3, <2>5, QuietStep
<1> QED BY ZenonT(60), <1>1, <1>2

(* A pass of clusterCron in which no timer has elapsed keeps ElectionInv.  *)
LEMMA CronIdleElection ==
  ASSUME TypeOK, TypeOK', ElectionInv, NEW n \in Node, clusterConnect(n),
         UNCHANGED <<resp, stale>>, CronIdle(n)
  PROVE  ElectionInv'
<1>1. UNCHANGED <<electionVars, historyVars>> /\ req' = req
  BY ZenonT(60) DEF CronIdle
<1>2. PassiveStep /\ OfficeEarned
  BY ZenonT(60), <1>1, UnchangedQuiet
<1>3. \A k, j \in Node : req[k][j] \in Seq(Request) /\ resp[k][j] \in Seq(Response)
  BY SMTT(90) DEF TypeOK
<1>4. QuietBus
  BY ZenonT(60), <1>1, <1>3, KeptSame DEF QuietBus
<1>5. AppendsAllowed
  BY ZenonT(60), <1>1 DEF AppendsAllowed
<1>6. NoSelfLink'
  <2>1. \A k \in Node : req[k][k] = <<>> /\ stale[k][k] = {}
    BY ZenonT(60) DEF ElectionInv, NoSelfLink
  <2>2. \A k \in Node : link'[k][k] = DOWN
    BY ZenonT(60), ConnectBus
  <2> QED BY ZenonT(60), <1>1, <2>1, <2>2 DEF NoSelfLink
<1> QED BY ZenonT(60), <1>2, <1>4, <1>5, <1>6, QuietStep

(* Starting an election keeps ElectionInv: in the new term nobody has      *)
(* voted for the candidate before.                                         *)
LEMMA StartElectionElection ==
  ASSUME TypeOK, TypeOK', ElectionInv, NEW n \in Node, clusterConnect(n),
         UNCHANGED <<resp, stale>>, CronStartElection(n)
  PROVE  ElectionInv'
<1> DEFINE t == current_term[n] + 1
           v == [type |-> "RequestVote", term |-> t,
                 last_log_index |-> logCurrentIndex(log[n]),
                 last_log_term |-> logCurrentTerm(log[n])]
           vote == [voter |-> n, term |-> t, candidate |-> n]
<1>0. /\ current_term \in [Node -> Term] /\ \A k \in Node : current_term[k] \in Nat
      /\ state \in [Node -> {FOLLOWER, CANDIDATE, LEADER}]
      /\ leader \in [Node -> Node \cup {Nil}]
      /\ voted_for \in [Node -> Node \cup {Nil}]
      /\ votes_granted \in [Node -> Nat]
      /\ counted \in [Node -> SUBSET Node]
      /\ req \in [Node -> [Node -> Seq(Request)]]
  BY ZenonT(60), TermFacts DEF TypeOK
<1>1. /\ votes' = votes \cup {vote} /\ elected' = elected
      /\ state'[n] = CANDIDATE /\ leader'[n] = Nil /\ voted_for'[n] = n
      /\ votes_granted'[n] = 1 /\ current_term'[n] = t /\ counted'[n] = {n}
      /\ \A k \in Node \ {n} :
           /\ state'[k] = state[k] /\ leader'[k] = leader[k]
           /\ voted_for'[k] = voted_for[k] /\ votes_granted'[k] = votes_granted[k]
           /\ current_term'[k] = current_term[k] /\ counted'[k] = counted[k]
  BY ZenonT(60), <1>0 DEF CronStartElection
<1>2. /\ \A m \in Node : req'[n][m] = IF link'[n][m] = UP
                                      THEN Append(req[n][m], v) ELSE req[n][m]
      /\ \A k \in Node \ {n} : req'[k] = req[k]
  BY ZenonT(60), <1>0 DEF CronStartElection, clusterSendRequestVote
<1>3. v.type = "RequestVote" /\ v.term = t
  BY ZenonT(60)
<1>4. vote.voter = n /\ vote.term = t /\ vote.candidate = n
  BY ZenonT(60)
<1>5. t \in Nat /\ t > current_term[n]
  BY SMTT(90), <1>0
<1> HIDE DEF v, vote, t
<1>6. \A k, j \in Node : \/ req'[k][j] = req[k][j]
                         \/ k = n /\ j # n /\ req'[k][j] = Append(req[k][j], v)
  BY ZenonT(60), <1>2, ConnectBus DEF UP, DOWN
<1>7. NoSelfLink'
  <2>1. \A k \in Node : req[k][k] = <<>> /\ stale[k][k] = {}
    BY ZenonT(60) DEF ElectionInv, NoSelfLink
  <2>2. \A k \in Node : link'[k][k] = DOWN
    BY ZenonT(60), ConnectBus
  <2>3. \A k \in Node : req'[k][k] = req[k][k]
    BY ZenonT(60), <1>6
  <2> QED BY ZenonT(60), <2>1, <2>2, <2>3 DEF NoSelfLink
<1>8. \A w \in votes : /\ w.term \in Nat /\ w.voter \in Node
                       /\ w.term <= current_term[w.voter]
                       /\ w.term = current_term[w.voter] => voted_for[w.voter] = w.candidate
  BY ZenonT(60), TermFacts DEF TypeOK, ElectionInv, VotesRemembered
<1>9. VotesRemembered'
  <2> SUFFICES ASSUME NEW w \in votes'
               PROVE  /\ w.term <= current_term'[w.voter]
                      /\ w.term = current_term'[w.voter] => voted_for'[w.voter] = w.candidate
    BY ZenonT(60) DEF VotesRemembered
  <2>1. CASE w = vote
    <3>1. w.voter = n /\ w.term = t /\ w.candidate = n
      BY ZenonT(60), <1>4, <2>1
    <3>2. current_term'[n] = t /\ voted_for'[n] = n
      BY ZenonT(60), <1>1
    <3>3. t <= t
      BY SMTT(90), <1>5
    <3> QED BY ZenonT(60), <3>1, <3>2, <3>3
  <2>2. CASE w \in votes /\ w.voter = n
    <3>1. current_term'[w.voter] = t
      BY ZenonT(60), <1>1, <2>2
    <3>2. w.term \in Nat /\ w.term <= current_term[n] /\ current_term[n] \in Nat
      BY ZenonT(60), <1>0, <1>8, <2>2
    <3>3. w.term <= t /\ w.term # t
      BY SMTT(90), <1>5, <3>2
    <3> QED BY ZenonT(60), <3>1, <3>3
  <2>3. CASE w \in votes /\ w.voter # n
    BY ZenonT(60), <1>1, <1>8, <2>3
  <2> QED BY ZenonT(60), <1>1, <2>1, <2>2, <2>3
<1>10. OneVotePerTerm'
  <2>1. \A w \in votes : w.voter = n => w.term # t
    <3> SUFFICES ASSUME NEW w \in votes, w.voter = n PROVE w.term # t
      BY ZenonT(60)
    <3>1. w.term \in Nat /\ w.term <= current_term[n] /\ current_term[n] \in Nat
      BY ZenonT(60), <1>0, <1>8
    <3> QED BY SMTT(90), <1>5, <3>1
  <2>2. \A w, u \in votes : w.voter = u.voter /\ w.term = u.term => w.candidate = u.candidate
    BY ZenonT(60) DEF ElectionInv, OneVotePerTerm
  <2>3. votes' = votes \cup {vote}
    BY ZenonT(60), <1>1
  <2>4. SUFFICES ASSUME NEW w \in votes', NEW u \in votes',
                        w.voter = u.voter, w.term = u.term
                 PROVE  w.candidate = u.candidate
    BY ZenonT(60) DEF OneVotePerTerm
  <2>5. w \in votes \/ w = vote
    BY ZenonT(60), <2>3
  <2>6. u \in votes \/ u = vote
    BY ZenonT(60), <2>3
  <2> QED BY ZenonT(60), <1>4, <2>1, <2>2, <2>4, <2>5, <2>6
<1>11. OwnVote'
  BY ZenonT(60), <1>1 DEF ElectionInv, OwnVote
<1>12. CountedBacked'
  <2> SUFFICES ASSUME NEW k \in Node, state'[k] # FOLLOWER
               PROVE  /\ counted'[k] \subseteq VotersOf(k, current_term[k])'
                      /\ votes_granted'[k] = Cardinality(counted'[k])
    BY ZenonT(60) DEF CountedBacked
  <2>1. CASE k = n
    <3>1. n \in VotersOf(n, current_term[n])'
      <4>1. vote \in votes' /\ current_term'[n] = t
        BY ZenonT(60), <1>1
      <4> QED BY ZenonT(60), <1>4, <4>1 DEF VotersOf
    <3>2. Cardinality({n}) = 1
      BY ZenonT(60), FS_Singleton
    <3> QED BY ZenonT(60), <1>1, <2>1, <3>1, <3>2
  <2>2. CASE k # n
    <3>1. /\ counted[k] \subseteq VotersOf(k, current_term[k])
          /\ votes_granted[k] = Cardinality(counted[k])
      BY ZenonT(60), <1>1, <2>2 DEF ElectionInv, CountedBacked
    <3>2. VotersOf(k, current_term[k]) \subseteq VotersOf(k, current_term[k])'
      BY SMTT(90), <1>1, <2>2 DEF VotersOf
    <3> QED BY ZenonT(60), <1>1, <2>2, <3>1, <3>2
  <2> QED BY ZenonT(60), <2>1, <2>2
<1>13. OfficeEarned
  BY ZenonT(60), <1>1 DEF OfficeEarned, LEADER, CANDIDATE
<1>14. AppendsAllowed
  <2> SUFFICES ASSUME NEW k \in Node, NEW j \in Node,
                      NEW q \in {req'[k][j]} \cup stale[k][j], NEW i \in DOMAIN q,
                      q[i].type = "AppendEntries"
               PROVE  \E p \in {req[k][j]} \cup stale[k][j] : \E h \in DOMAIN p : p[h] = q[i]
    BY SMTT(90) DEF AppendsAllowed
  <2>1. CASE q \in {req[k][j]} \cup stale[k][j]
    BY ZenonT(60), <2>1
  <2>2. CASE q = Append(req[k][j], v)
    <3>1. req[k][j] \in Seq(Request)
      BY ZenonT(60), <1>0
    <3>2. \/ i \in DOMAIN req[k][j] /\ q[i] = req[k][j][i]
          \/ q[i] = v
      BY SMTT(90), <2>2, <3>1, AppendElements
    <3> QED BY ZenonT(60), <1>3, <3>2
  <2> QED BY ZenonT(60), <1>6, <2>1, <2>2
(* Old requests and grants are of older terms than the new candidacy.      *)
<1>15. \A k, j \in Node : \A i \in DOMAIN req'[k][j] :
          \/ i \in DOMAIN req[k][j] /\ req'[k][j][i] = req[k][j][i]
          \/ k = n /\ j # n /\ i = Len(req[k][j]) + 1 /\ req'[k][j][i] = v
  <2> SUFFICES ASSUME NEW k \in Node, NEW j \in Node, NEW i \in DOMAIN req'[k][j]
               PROVE  \/ i \in DOMAIN req[k][j] /\ req'[k][j][i] = req[k][j][i]
                      \/ k = n /\ j # n /\ i = Len(req[k][j]) + 1 /\ req'[k][j][i] = v
    BY ZenonT(60)
  <2>1. req[k][j] \in Seq(Request)
    BY ZenonT(60), <1>0
  <2> QED BY SMTT(90), <1>6, <2>1, AppendElements
<1>22. \A k \in Node : current_term'[k] \in Nat /\ current_term'[k] >= current_term[k]
  <2>1. \A k \in Node \ {n} : current_term'[k] = current_term[k]
    BY ZenonT(60), <1>1
  <2>2. current_term'[n] = t
    BY ZenonT(60), <1>1
  <2>3. \A k \in Node : current_term[k] \in Nat
    BY ZenonT(60), <1>0
  <2>4. \A k \in Node \ {n} :
          current_term'[k] \in Nat /\ current_term'[k] >= current_term[k]
    BY SMTT(90), <2>1, <2>3
  <2>5. current_term'[n] \in Nat /\ current_term'[n] >= current_term[n]
    BY SMTT(90), <1>5, <2>2, <2>3
  <2> QED BY ZenonT(60), <2>4, <2>5
<1>16. \A k, j \in Node : \A i \in DOMAIN req[k][j] :
          req[k][j][i].type = "RequestVote" =>
            req[k][j][i].term <= current_term[k] /\ req[k][j][i].term \in Nat
  <2> SUFFICES ASSUME NEW k \in Node, NEW j \in Node, NEW i \in DOMAIN req[k][j],
                      req[k][j][i].type = "RequestVote"
               PROVE  req[k][j][i].term <= current_term[k] /\ req[k][j][i].term \in Nat
    BY ZenonT(60)
  <2>1. req[k][j] \in Seq(Request)
    BY ZenonT(60), <1>0
  <2>2. req[k][j][i] \in Request
    BY <2>1
  <2>3. req[k][j][i].term \in Nat
    BY ZenonT(60), <2>2, TermFacts DEF Request, RequestVote, AppendEntries
  <2> QED BY ZenonT(60), <2>3 DEF ElectionInv, RequestsSent
<1>17. RequestsSent'
  <2> SUFFICES ASSUME NEW k \in Node, NEW j \in Node, NEW i \in DOMAIN req'[k][j],
                      req'[k][j][i].type = "RequestVote"
               PROVE  req'[k][j][i].term <= current_term'[k]
    BY ZenonT(60) DEF RequestsSent
  <2>1. CASE i \in DOMAIN req[k][j] /\ req'[k][j][i] = req[k][j][i]
    <3>1. req[k][j][i].term <= current_term[k] /\ req[k][j][i].term \in Nat
      BY ZenonT(60), <1>16, <2>1
    <3>2. current_term[k] \in Nat
      BY ZenonT(60), <1>0
    <3> QED BY SMTT(90), <1>22, <2>1, <3>1, <3>2
  <2>2. CASE k = n /\ req'[k][j][i] = v
    BY SMTT(90), <1>1, <1>3, <1>5, <2>2
  <2> QED BY ZenonT(60), <1>15, <2>1, <2>2
<1>18. GrantsCast'
  <2> SUFFICES ASSUME NEW k \in Node, NEW j \in Node, NEW i \in DOMAIN resp[k][j],
                      NEW u \in Term, IsGrant(resp[k][j][i], u)
               PROVE  /\ u <= current_term'[k]
                      /\ [voter |-> j, term |-> u, candidate |-> k] \in votes'
    BY ZenonT(60) DEF GrantsCast
  <2>1. u <= current_term[k] /\ [voter |-> j, term |-> u, candidate |-> k] \in votes
    BY ZenonT(60) DEF ElectionInv, GrantsCast
  <2>2. u \in Nat /\ current_term[k] \in Nat
    BY ZenonT(60), <1>0, TermFacts
  <2>3. u <= current_term'[k]
    BY SMTT(90), <1>22, <2>1, <2>2
  <2> QED BY ZenonT(60), <1>1, <2>1, <2>3
<1>19. \A j \in Node : \A h \in DOMAIN resp[n][j] : ~IsGrant(resp[n][j][h], t)
  <2> SUFFICES ASSUME NEW j \in Node, NEW h \in DOMAIN resp[n][j],
                      IsGrant(resp[n][j][h], t)
               PROVE  FALSE
    BY ZenonT(60)
  <2>1. t \in Term
    BY ZenonT(60), <1>1 DEF TypeOK
  <2>2. t <= current_term[n]
    BY ZenonT(60), <2>1 DEF ElectionInv, GrantsCast
  <2> QED BY SMTT(90), <1>0, <1>5, <2>2
<1>20. AskedOnce'
  <2> SUFFICES ASSUME NEW k \in Node, NEW j \in Node, state'[k] # FOLLOWER,
                      NEW i \in DOMAIN req'[k][j],
                      IsRequestVote(req'[k][j][i], current_term'[k])
               PROVE  /\ j \notin counted'[k]
                      /\ \A h \in DOMAIN req'[k][j] :
                           IsRequestVote(req'[k][j][h], current_term'[k]) => h = i
                      /\ \A h \in DOMAIN resp[k][j] :
                           ~IsGrant(resp[k][j][h], current_term'[k])
    BY ZenonT(60) DEF AskedOnce
  <2>1. CASE k = n
    <3>1. \A h \in DOMAIN req[n][j] : ~IsRequestVote(req[n][j][h], t)
      BY SMTT(90), <1>0, <1>5, <1>16 DEF IsRequestVote
    <3>2. \A h \in DOMAIN req'[n][j] : IsRequestVote(req'[n][j][h], t) =>
            j # n /\ h = Len(req[n][j]) + 1
      BY ZenonT(60), <1>15, <3>1
    <3> QED BY ZenonT(60), <1>1, <1>19, <2>1, <3>2
  <2>2. CASE k # n
    <3>1. req'[k][j] = req[k][j]
      BY ZenonT(60), <1>6, <2>2
    <3>2. /\ state[k] # FOLLOWER /\ current_term'[k] = current_term[k]
          /\ counted'[k] = counted[k]
      BY ZenonT(60), <1>1, <2>2
    <3> QED BY ZenonT(60), <3>1, <3>2 DEF ElectionInv, AskedOnce
  <2> QED BY ZenonT(60), <2>1, <2>2
<1>21. GrantedOnce'
  <2> SUFFICES ASSUME NEW k \in Node, NEW j \in Node, state'[k] # FOLLOWER,
                      NEW i \in DOMAIN resp[k][j],
                      IsGrant(resp[k][j][i], current_term'[k])
               PROVE  /\ j \notin counted'[k]
                      /\ \A h \in DOMAIN resp[k][j] :
                           IsGrant(resp[k][j][h], current_term'[k]) => h = i
    BY ZenonT(60) DEF GrantedOnce
  <2>1. CASE k = n
    BY ZenonT(60), <1>1, <1>19, <2>1
  <2>2. CASE k # n
    BY ZenonT(60), <1>1, <2>2 DEF ElectionInv, GrantedOnce
  <2> QED BY ZenonT(60), <2>1, <2>2
<1> QED BY ZenonT(60), <1>7, <1>9, <1>10, <1>11, <1>12, <1>13, <1>14, <1>17, <1>18, <1>20, <1>21,
           OfficeKept, AppendsKept
        DEF ElectionInv

----------------------------------------------------------------------------
(* ElectionInv holds before the first step.                                *)
LEMMA InitElection == Init => ElectionInv
<1> SUFFICES ASSUME Init PROVE ElectionInv
  BY ZenonT(60)
<1>1. NoSelfLink
  BY ZenonT(60) DEF Init, NoSelfLink
<1>2. VotesRemembered /\ OneVotePerTerm
  BY ZenonT(60) DEF Init, VotesRemembered, OneVotePerTerm
<1>3. OwnVote /\ CountedBacked /\ AskedOnce /\ GrantedOnce
  BY ZenonT(60) DEF Init, OwnVote, CountedBacked, AskedOnce, GrantedOnce
<1>4. RequestsSent /\ GrantsCast
  <2>1. \A n, m \in Node : DOMAIN req[n][m] = {} /\ DOMAIN resp[n][m] = {}
    BY SMTT(90) DEF Init
  <2> QED BY ZenonT(60), <2>1 DEF RequestsSent, GrantsCast
<1>5. ElectedBacked /\ InOffice /\ LeaderHintElected
  BY DEF Init, ElectedBacked, InOffice, LeaderHintElected, LEADER, FOLLOWER
<1>6. AppendsFromElected
  <2>1. \A n, m \in Node : req[n][m] = <<>> /\ stale[n][m] = {}
    BY ZenonT(60) DEF Init
  <2>2. DOMAIN <<>> = {}
    BY SMTT(90)
  <2>3. \A n, m \in Node : \A q \in {req[n][m]} \cup stale[n][m] : DOMAIN q = {}
    BY ZenonT(60), <2>1, <2>2
  <2> QED BY ZenonT(60), <2>3 DEF AppendsFromElected
<1> QED BY ZenonT(60), <1>1, <1>2, <1>3, <1>4, <1>5, <1>6 DEF ElectionInv

(* Every step of a cluster of steady nodes keeps ElectionInv.              *)
LEMMA NextElection ==
  ASSUME SteadyNodes, TypeOK, TypeOK', ElectionInv, [Next]_vars
  PROVE  ElectionInv'
<1>1. ASSUME NEW n \in Node, clusterCron(n) PROVE ElectionInv'
  <2>1. clusterConnect(n) /\ UNCHANGED <<resp, stale>>
    BY ZenonT(60), <1>1 DEF clusterCron
  <2> QED BY ZenonT(60), <1>1, <2>1, StartElectionElection, CronLeadElection, CronIdleElection
          DEF clusterCron
<1>2. ASSUME NEW n \in Node, NEW m \in Node, ProcessRequest(n, m) PROVE ElectionInv'
  <2>1. FsyncOutcomes \in SUBSET BOOLEAN /\ SelfVoteReads \subseteq {TRUE}
    BY ZenonT(60), ClusterAssumption DEF ClusterAssumption, SteadyNodes
  <2>2. PICK src \in Sources(n, m) :
          \/ clusterProcessRequestVote(n, m, src, TRUE)
          \/ \E synced \in BOOLEAN : clusterProcessAppendEntries(n, m, src, synced)
    BY ZenonT(60), <1>2, <2>1 DEF ProcessRequest
  <2> QED BY ZenonT(60), <2>2, RequestVoteElection, AppendEntriesElection
<1>3. ASSUME NEW n \in Node, NEW m \in Node, ProcessResponse(n, m) PROVE ElectionInv'
  BY ZenonT(60), <1>3, ResponseVoteElection, ResponseAppendElection DEF ProcessResponse
<1>4. ASSUME NEW n \in Node, NEW cmd \in Cmd, clusterProcessCommand(n, cmd)
      PROVE  ElectionInv'
  BY ZenonT(60), <1>4, UnchangedElection DEF clusterProcessCommand
<1>5. ASSUME NEW n \in Node, NEW m \in Node, handleLinkIOError(n, m) PROVE ElectionInv'
  BY ZenonT(60), <1>5, LinkErrorElection
<1>6. ASSUME NEW n \in Node, clusterInit(n) PROVE FALSE
  <2>1. restarts < MaxRestarts /\ MaxRestarts = 0 /\ restarts \in 0..MaxRestarts
    BY ZenonT(60), <1>6 DEF clusterInit, SteadyNodes, TypeOK
  <2> QED BY SMTT(90), <2>1
<1>7. ASSUME UNCHANGED vars PROVE ElectionInv'
  BY ZenonT(60), <1>7, UnchangedElection DEF vars
<1> QED BY ZenonT(60), <1>1, <1>2, <1>3, <1>4, <1>5, <1>6, <1>7 DEF Next

(* Two quorums of voters share a node, which has voted once.               *)
LEMMA OneElected ==
  ASSUME TypeOK, ElectionInv
  PROVE  ElectionSafety
<1> SUFFICES ASSUME NEW t \in Term, NEW a \in elected[t], NEW b \in elected[t]
             PROVE  a = b
  BY ZenonT(60) DEF ElectionSafety
<1> DEFINE A == VotersOf(a, t)
           B == VotersOf(b, t)
<1>1. A \subseteq Node /\ B \subseteq Node
  <2>1. \A v \in votes : v.voter \in Node
    BY ZenonT(60) DEF TypeOK
  <2> QED BY ZenonT(60), <2>1 DEF VotersOf
<1>2. IsFiniteSet(Node)
  BY ZenonT(60), ClusterAssumption DEF ClusterAssumption
<1>3. Cardinality(A) >= quorumSize /\ Cardinality(B) >= quorumSize
  BY ZenonT(60) DEF ElectionInv, ElectedBacked
<1>4. Cardinality(A) \in Nat /\ Cardinality(B) \in Nat
  <2> HIDE DEF A, B
  <2> QED BY ZenonT(60), <1>1, <1>2, FS_Subset, FS_CardinalityType
<1>5. Cardinality(A) + Cardinality(B) > Cardinality(Node)
  <2> HIDE DEF A, B
  <2> QED BY SMTT(90), <1>3, <1>4, QuorumFacts
<1>6. PICK voter : voter \in A /\ voter \in B
  <2> HIDE DEF A, B
  <2>1. A \cap B # {}
    BY ZenonT(60), <1>1, <1>2, <1>5, FS_MajoritiesIntersect
  <2> QED BY ZenonT(60), <2>1
<1>7. PICK v \in votes : v.term = t /\ v.candidate = a /\ v.voter = voter
  BY ZenonT(60), <1>6 DEF VotersOf
<1>8. PICK w \in votes : w.term = t /\ w.candidate = b /\ w.voter = voter
  BY ZenonT(60), <1>6 DEF VotersOf
<1> QED BY ZenonT(60), <1>7, <1>8 DEF ElectionInv, OneVotePerTerm

(* ElectionInv implies that every vote counted is one cast.                *)
LEMMA CountsAreVotes ==
  ASSUME TypeOK, ElectionInv
  PROVE  VotesBacked
<1> SUFFICES ASSUME NEW n \in Node, state[n] # FOLLOWER
             PROVE  votes_granted[n] <= Cardinality(VotersOf(n, current_term[n]))
  BY ZenonT(60) DEF VotesBacked
<1> DEFINE V == VotersOf(n, current_term[n])
<1>1. V \subseteq Node
  <2>1. \A v \in votes : v.voter \in Node
    BY ZenonT(60) DEF TypeOK
  <2> QED BY ZenonT(60), <2>1 DEF VotersOf
<1>2. IsFiniteSet(Node)
  BY ZenonT(60), ClusterAssumption DEF ClusterAssumption
<1>3. counted[n] \subseteq V /\ votes_granted[n] = Cardinality(counted[n])
  BY ZenonT(60) DEF ElectionInv, CountedBacked
<1> HIDE DEF V
<1>4. Cardinality(counted[n]) <= Cardinality(V)
  BY ZenonT(60), <1>1, <1>2, <1>3, FS_Subset
<1> QED BY ZenonT(60), <1>3, <1>4 DEF V

(* A leader that receives an AppendEntries of its own term would be one of *)
(* two leaders of that term, so the log of a leader in office is changed   *)
(* by its own client writes only.                                          *)
LEMMA LeaderWritesAloneStep ==
  ASSUME TypeOK, TypeOK', ElectionInv, [Next]_vars, NEW k \in Node,
         state[k] = LEADER, state'[k] = LEADER, current_term'[k] = current_term[k],
         log'[k] # log[k]
  PROVE  \E cmd \in Cmd : log'[k] = logWriteEntry(log[k], NewEntry(k, cmd))
<1>0. log \in [Node -> Seq(Entry)] /\ current_term \in [Node -> Term]
  BY ZenonT(60) DEF TypeOK
<1>1. ASSUME NEW n \in Node, NEW cmd \in Cmd, clusterProcessCommand(n, cmd)
      PROVE  log'[k] = logWriteEntry(log[k], NewEntry(k, cmd))
  BY ZenonT(60), <1>0, <1>1 DEF clusterProcessCommand
<1>2. ASSUME NEW n \in Node, NEW m \in Node, NEW src \in Sources(n, m),
             NEW synced \in BOOLEAN, clusterProcessAppendEntries(n, m, src, synced)
      PROVE  FALSE
  <2> DEFINE a == Head(src.queue)
             written == IF logVerifyAppend(log[m], a.prev_log_index, a.prev_log_term)
                        THEN logAppendEntries(log[m], a.log_entries) ELSE log[m]
  <2>1. CASE UNCHANGED storeVars
    BY ZenonT(60), <2>1 DEF storeVars
  <2>2. CASE /\ log' = [log EXCEPT ![m] = written]
             /\ current_term' = [current_term EXCEPT ![m] = a.term]
    <3>1. k = m /\ current_term[k] = a.term
      BY ZenonT(60), <1>0, <2>2
    <3>2. a.type = "AppendEntries"
      BY ZenonT(60), <1>2 DEF clusterProcessAppendEntries
    <3>3. /\ src.queue \in Seq(Request) /\ src.queue # <<>>
          /\ src.queue \in {req[n][m]} \cup stale[n][m]
      BY ZenonT(60), SourceTypes
    <3>4. 1 \in DOMAIN src.queue /\ a = src.queue[1]
      BY ZenonT(60), <3>3, TailElements
    <3> HIDE DEF a, written
    <3>5. n \in elected[a.term]
      BY ZenonT(60), <3>2, <3>3, <3>4 DEF ElectionInv, AppendsFromElected
    <3>6. k \in elected[a.term]
      BY ZenonT(60), <3>1 DEF ElectionInv, InOffice
    <3>7. n = k
      BY ZenonT(60), <1>0, <3>1, <3>5, <3>6, OneElected DEF ElectionSafety
    <3>8. n # m
      BY ZenonT(60), <3>3 DEF ElectionInv, NoSelfLink
    <3> QED BY ZenonT(60), <3>1, <3>7, <3>8
  <2> QED BY ZenonT(60), <1>2, <2>1, <2>2 DEF clusterProcessAppendEntries
<1>3. \A n \in Node : ~clusterCron(n)
  BY ZenonT(60) DEF clusterCron
<1>4. ASSUME NEW n \in Node, NEW m \in Node, ProcessResponse(n, m) PROVE FALSE
  BY ZenonT(60), <1>4 DEF ProcessResponse, clusterProcessResponseVote,
              clusterProcessResponseAppendEntries, storeVars
<1>5. ASSUME NEW n \in Node, NEW m \in Node, handleLinkIOError(n, m) PROVE FALSE
  BY ZenonT(60), <1>5 DEF handleLinkIOError, storeVars
<1>6. \A n \in Node : ~clusterInit(n)
  BY ZenonT(60) DEF clusterInit
<1>7. ASSUME NEW n \in Node, NEW m \in Node, ProcessRequest(n, m) PROVE FALSE
  <2>1. FsyncOutcomes \in SUBSET BOOLEAN
    BY ZenonT(60), ClusterAssumption DEF ClusterAssumption
  <2>2. PICK src \in Sources(n, m) :
          \/ \E r \in SelfVoteReads : clusterProcessRequestVote(n, m, src, r)
          \/ \E synced \in BOOLEAN : clusterProcessAppendEntries(n, m, src, synced)
    BY ZenonT(60), <1>7, <2>1 DEF ProcessRequest
  <2>3. ASSUME NEW r, clusterProcessRequestVote(n, m, src, r) PROVE FALSE
    BY ZenonT(60), <2>3 DEF clusterProcessRequestVote, storeVars
  <2> QED BY ZenonT(60), <1>2, <2>2, <2>3
<1>8. ~UNCHANGED vars
  BY ZenonT(60) DEF vars, storeVars
<1> QED BY ZenonT(60), <1>1, <1>3, <1>4, <1>5, <1>6, <1>7, <1>8 DEF Next

----------------------------------------------------------------------------
(* ElectionInv holds in every reachable state of a cluster of any size in  *)
(* which no node restarts and self votes are read back: the handlers of    *)
(* requests, grants and counts neither lose nor duplicate a vote.          *)
THEOREM ElectionInvariant == SteadyNodes => (Spec => []ElectionInv)
<1> SUFFICES ASSUME SteadyNodes PROVE Spec => []ElectionInv
  BY ZenonT(60)
<1>1. TypeOK /\ TypeOK' /\ ElectionInv /\ [Next]_vars => ElectionInv'
  BY ZenonT(60), NextElection
<1> QED BY <1>1, InitElection, TypeCorrect, PTL DEF Spec

(* At most one node takes office in a term (cron's quorum of votes, the    *)
(* single vote of clusterProcessRequestVote), under the same conditions.   *)
THEOREM ElectionSafe == SteadyNodes => (Spec => []ElectionSafety)
<1>1. TypeOK /\ ElectionInv => ElectionSafety
  BY ZenonT(60), OneElected
<1> QED BY <1>1, ElectionInvariant, TypeCorrect, PTL

(* votes_granted never exceeds the votes really cast for the candidate,    *)
(* although clusterProcessResponseVote checks neither state nor sender.    *)
THEOREM CountsBacked == SteadyNodes => (Spec => []VotesBacked)
<1>1. TypeOK /\ ElectionInv => VotesBacked
  BY CountsAreVotes
<1> QED BY <1>1, ElectionInvariant, TypeCorrect, PTL

(* A node votes once per term, and the leader it names was elected in its  *)
(* present term.                                                           *)
THEOREM VotesAndHints == SteadyNodes => (Spec => [](OneVotePerTerm /\ LeaderHintElected))
<1>1. ElectionInv => OneVotePerTerm /\ LeaderHintElected
  BY DEF ElectionInv
<1> QED BY <1>1, ElectionInvariant, PTL

(* The log of a leader in office changes by its own client writes only:    *)
(* clusterProcessAppendEntries, which does not ask whether the receiver    *)
(* leads, never meets a leader of the same term.                           *)
THEOREM LeaderAlone == SteadyNodes => (Spec => LeaderWritesAlone)
<1>1. TypeOK /\ TypeOK' /\ ElectionInv /\ [Next]_vars =>
        [\A n \in Node :
           /\ state[n] = LEADER /\ state'[n] = LEADER
           /\ current_term'[n] = current_term[n]
           /\ log'[n] # log[n]
           => \E cmd \in Cmd : log'[n] = logWriteEntry(log[n], NewEntry(n, cmd))]_vars
  BY ZenonT(60), LeaderWritesAloneStep
<1> QED BY <1>1, ElectionInvariant, TypeCorrect, PTL DEF Spec, LeaderWritesAlone

----------------------------------------------------------------------------
(* The refinement: every step of a cluster in which no node restarts is a  *)
(* ballot, an accession to office or a stutter of PrezVoting.              *)

BallotBox == <<votes, elected>>

(* A vote of cluster.c is the ballot its voter had not cast, or the very   *)
(* one it had: a repeated grant adds nothing to the box.                   *)
LEMMA VoteIsCast ==
  ASSUME ElectionInv', NEW v \in Node, NEW t \in Term, NEW c \in Node,
         votes' = votes \cup {[voter |-> v, term |-> t, candidate |-> c]},
         votes' \in SUBSET [voter : Node, term : Term, candidate : Node],
         elected' = elected
  PROVE  [Voting!Next]_BallotBox
<1> DEFINE b == [voter |-> v, term |-> t, candidate |-> c]
<1>1. CASE b \in votes
  BY ZenonT(60), <1>1 DEF BallotBox
<1>2. CASE b \notin votes
  <2>1. ASSUME NEW x \in votes, x.voter = v, x.term = t PROVE FALSE
    <3>1. x \in votes' /\ b \in votes'
      BY ZenonT(60)
    <3>2. b.voter = v /\ b.term = t /\ b.candidate = c
      BY ZenonT(60)
    <3> HIDE DEF b
    <3>3. x.candidate = c
      BY ZenonT(60), <2>1, <3>1, <3>2 DEF ElectionInv, OneVotePerTerm
    <3>4. x \in [voter : Node, term : Term, candidate : Node]
      BY ZenonT(60), <3>1
    <3>5. x = b
      BY ZenonT(60), <2>1, <3>3, <3>4 DEF b
    <3> QED BY ZenonT(60), <1>2, <3>5
  <2>2. Voting!Cast(v, t, c)
    BY ZenonT(60), <2>1 DEF Voting!Cast, Voting!Ballot
  <2> QED BY ZenonT(60), <2>2 DEF Voting!Next
<1> QED BY ZenonT(60), <1>1, <1>2

(* Becoming leader is taking office, or being in it already: the quorum is *)
(* in the box, and nobody else of the term is in office.                   *)
LEMMA OfficeIsTaken ==
  ASSUME TypeOK, TypeOK', ElectionInv', NEW n \in Node, NEW t \in Term,
         elected' = [elected EXCEPT ![t] = @ \cup {n}], votes' = votes
  PROVE  [Voting!Next]_BallotBox
<1>0. elected \in [Term -> SUBSET Node] /\ elected' \in [Term -> SUBSET Node]
  BY ZenonT(60) DEF TypeOK
<1>1. elected'[t] = elected[t] \cup {n} /\ n \in elected'[t]
  BY ZenonT(60), <1>0
<1>2. CASE n \in elected[t]
  <2>1. elected' = elected
    BY ZenonT(60), <1>0, <1>2
  <2> QED BY ZenonT(60), <2>1 DEF BallotBox
<1>3. CASE n \notin elected[t]
  <2>1. ElectionSafety'
    BY OneElected, PTL
  <2>2. \A a \in elected'[t] : a = n
    BY ZenonT(60), <1>1, <2>1 DEF ElectionSafety
  <2>3. elected[t] = {}
    BY ZenonT(60), <1>1, <1>3, <2>2
  <2>4. elected' = [elected EXCEPT ![t] = {n}]
    BY ZenonT(60), <2>3
  <2>5. Voting!Supporters(n, t) = VotersOf(n, t)'
    BY ZenonT(60) DEF Voting!Supporters, VotersOf
  <2>6. Cardinality(Voting!Supporters(n, t)) >= quorumSize
    BY ZenonT(60), <1>1, <2>5 DEF ElectionInv, ElectedBacked
  <2>7. Voting!Supporters(n, t) \subseteq Node
    <3>1. \A x \in votes : x.voter \in Node
      BY ZenonT(60) DEF TypeOK
    <3> QED BY ZenonT(60), <3>1 DEF Voting!Supporters
  <2>8. Voting!Supporters(n, t) \in Majorities
    BY ZenonT(60), <2>6, <2>7 DEF Majorities
  <2>9. Voting!TakeOffice(n, t)
    BY ZenonT(60), <2>3, <2>4, <2>8 DEF Voting!TakeOffice
  <2> QED BY ZenonT(60), <2>9 DEF Voting!Next
<1> QED BY SMTT(30), <1>2, <1>3

(* Every handler of the cluster maps to a step or a stutter of PrezVoting. *)
LEMMA NextVoting ==
  ASSUME SteadyNodes, TypeOK, TypeOK', ElectionInv', [Next]_vars
  PROVE  [Voting!Next]_BallotBox
<1>0. /\ votes' \in SUBSET [voter : Node, term : Term, candidate : Node]
      /\ current_term \in [Node -> Term] /\ current_term' \in [Node -> Term]
  BY ZenonT(60) DEF TypeOK
<1>1. ASSUME votes' = votes, elected' = elected PROVE [Voting!Next]_BallotBox
  BY ZenonT(60), <1>1 DEF BallotBox
<1>2. ASSUME NEW n \in Node, clusterCron(n) PROVE [Voting!Next]_BallotBox
  <2>1. CASE CronStartElection(n)
    <3>1. /\ votes' = votes \cup {[voter |-> n, term |-> current_term[n] + 1, candidate |-> n]}
          /\ elected' = elected
          /\ current_term'[n] = current_term[n] + 1
      BY ZenonT(60), <1>0, <2>1 DEF CronStartElection
    <3>2. current_term[n] + 1 \in Term
      BY ZenonT(60), <1>0, <3>1
    <3> QED BY ZenonT(60), <1>0, <3>1, <3>2, VoteIsCast
  <2>2. CASE CronBecomeLeader(n)
    <3>1. /\ elected' = [elected EXCEPT ![current_term[n]] = @ \cup {n}]
          /\ votes' = votes
      BY ZenonT(60), <2>2 DEF CronBecomeLeader
    <3>2. current_term[n] \in Term
      BY ZenonT(60), <1>0
    <3> QED BY ZenonT(60), <3>1, <3>2, OfficeIsTaken
  <2>3. CASE CronLead(n) \/ CronIdle(n)
    BY ZenonT(60), <1>1, <2>3 DEF CronLead, CronIdle, historyVars
  <2> QED BY ZenonT(60), <1>2, <2>1, <2>2, <2>3 DEF clusterCron
<1>3. ASSUME NEW n \in Node, NEW m \in Node, ProcessRequest(n, m)
      PROVE  [Voting!Next]_BallotBox
  <2>1. PICK src \in Sources(n, m) :
          \/ \E read : clusterProcessRequestVote(n, m, src, read)
          \/ \E synced : clusterProcessAppendEntries(n, m, src, synced)
    BY ZenonT(60), <1>3 DEF ProcessRequest
  <2>2. ASSUME NEW read, clusterProcessRequestVote(n, m, src, read)
        PROVE  [Voting!Next]_BallotBox
    <3> DEFINE t == Head(src.queue).term
    <3>1. t \in Term
      <4>1. Head(src.queue) \in Request /\ Head(src.queue).type = "RequestVote"
        BY ZenonT(60), <2>2, SourceTypes DEF clusterProcessRequestVote
      <4> QED BY ZenonT(60), <4>1 DEF Request, RequestVote, AppendEntries
    <3>2. /\ \/ votes' = votes
             \/ votes' = votes \cup {[voter |-> m, term |-> t, candidate |-> n]}
          /\ elected' = elected
      BY ZenonT(60), <2>2 DEF clusterProcessRequestVote
    <3> HIDE DEF t
    <3> QED BY ZenonT(60), <1>0, <1>1, <3>1, <3>2, VoteIsCast
  <2>3. ASSUME NEW synced, clusterProcessAppendEntries(n, m, src, synced)
        PROVE  [Voting!Next]_BallotBox
    BY ZenonT(60), <1>1, <2>3 DEF clusterProcessAppendEntries, historyVars
  <2> QED BY ZenonT(60), <2>1, <2>2, <2>3
<1>4. ASSUME NEW n \in Node, NEW m \in Node, ProcessResponse(n, m)
      PROVE  [Voting!Next]_BallotBox
  BY ZenonT(60), <1>1, <1>4 DEF ProcessResponse, clusterProcessResponseVote,
              clusterProcessResponseAppendEntries, historyVars
<1>5. ASSUME NEW n \in Node, NEW cmd \in Cmd, clusterProcessCommand(n, cmd)
      PROVE  [Voting!Next]_BallotBox
  BY ZenonT(60), <1>1, <1>5 DEF clusterProcessCommand, historyVars
<1>6. ASSUME NEW n \in Node, NEW m \in Node, handleLinkIOError(n, m)
      PROVE  [Voting!Next]_BallotBox
  BY ZenonT(60), <1>1, <1>6 DEF handleLinkIOError, historyVars
<1>7. ASSUME NEW n \in Node, clusterInit(n) PROVE FALSE
  <2>1. restarts < MaxRestarts /\ MaxRestarts = 0 /\ restarts \in 0..MaxRestarts
    BY ZenonT(60), <1>7 DEF clusterInit, SteadyNodes, TypeOK
  <2> QED BY SMTT(90), <2>1
<1>8. ASSUME UNCHANGED vars PROVE [Voting!Next]_BallotBox
  BY ZenonT(60), <1>1, <1>8 DEF vars, historyVars
<1> QED BY ZenonT(60), <1>2, <1>3, <1>4, <1>5, <1>6, <1>7, <1>8 DEF Next

(* The elections of cluster.c implement PrezVoting, for a cluster of any   *)
(* size in which no node restarts and self votes are read back: messages,  *)
(* counters and timers only ever cast single ballots and let one candidate *)
(* with a majority of them take office.                                    *)
THEOREM VotingRefined == SteadyNodes => (Spec => ImplementsVoting)
<1> SUFFICES ASSUME SteadyNodes PROVE Spec => ImplementsVoting
  BY ZenonT(60)
<1>1. Init => Voting!Init
  BY ZenonT(60) DEF Init, Voting!Init
<1>2. TypeOK /\ TypeOK' /\ ElectionInv' /\ [Next]_vars => [Voting!Next]_BallotBox
  BY ZenonT(60), NextVoting
<1>3. [Voting!Next]_BallotBox <=> [Voting!Next]_<<votes, elected>>
  BY DEF BallotBox
<1> QED BY <1>1, <1>2, <1>3, ElectionInvariant, TypeCorrect, PTL
        DEF Spec, ImplementsVoting, Voting!Spec
=============================================================================
