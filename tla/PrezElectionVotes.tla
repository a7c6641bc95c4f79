------------------------- MODULE PrezElectionVotes --------------------------
(***************************************************************************)
(* The handlers of requests keep ElectionInv: a step that casts no vote,   *)
(* an AppendEntries and, the heart of the argument, a RequestVote.         *)
(***************************************************************************)
EXTENDS PrezTypeProofs

(* Most steps neither ask for a vote, nor grant one, nor count one.  What  *)
(* they may do is captured by three relations between two states.          *)

(* No vote is cast; a node's term does not fall, its vote changes with the *)
(* term only, and a candidate or leader that stays one keeps its count.    *)
PassiveStep ==
    /\ votes' = votes
    /\ \A k \in Node :
         /\ current_term'[k] >= current_term[k]
         /\ current_term'[k] = current_term[k] => voted_for'[k] = voted_for[k]
         /\ state'[k] # FOLLOWER =>
              /\ state[k] # FOLLOWER
              /\ current_term'[k] = current_term[k]
              /\ counted'[k] = counted[k] /\ votes_granted'[k] = votes_granted[k]

(* Queue p holds no message of this type that q does not hold, in order.   *)
Kept(p, q, type) ==
    \E d \in {0, 1} : \A i \in DOMAIN p :
       p[i].type = type => i + d \in DOMAIN q /\ p[i] = q[i + d]

QuietBus ==
    \A k, j \in Node : /\ Kept(req'[k][j], req[k][j], "RequestVote")
                       /\ Kept(resp'[k][j], resp[k][j], "ResponseVote")

(* Who takes office is a candidate with a quorum of votes, who is a leader *)
(* has taken office, and who is taken for one as well.                     *)
OfficeEarned ==
    /\ votes \subseteq votes'
    /\ \A t \in Term : elected[t] \subseteq elected'[t]
    /\ \A t \in Term : \A k \in elected'[t] :
         \/ k \in elected[t]
         \/ /\ t = current_term[k] /\ state[k] = CANDIDATE
            /\ votes_granted[k] >= quorumSize
    /\ \A k \in Node :
         /\ state'[k] = LEADER =>
              \/ state[k] = LEADER /\ current_term'[k] = current_term[k]
              \/ k \in elected'[current_term'[k]]
         /\ leader'[k] # Nil =>
              \/ leader'[k] = leader[k] /\ current_term'[k] = current_term[k]
              \/ leader'[k] \in elected'[current_term'[k]]

(* An AppendEntries on the bus was there before, or an elected node has    *)
(* sent it.                                                                *)
AppendsAllowed ==
    \A k, j \in Node : \A q \in {req'[k][j]} \cup stale'[k][j] : \A i \in DOMAIN q :
       q[i].type = "AppendEntries" =>
         \/ \E p \in {req[k][j]} \cup stale[k][j] : \E h \in DOMAIN p : p[h] = q[i]
         \/ k \in elected'[q[i].term]

----------------------------------------------------------------------------
(* A step that casts no vote keeps what the voters remember and what the   *)
(* candidates have counted.                                                *)
LEMMA PassiveVotes ==
  ASSUME TypeOK, TypeOK', ElectionInv, PassiveStep
  PROVE  VotesRemembered' /\ OneVotePerTerm' /\ OwnVote' /\ CountedBacked'
<1>0. /\ current_term \in [Node -> Term] /\ current_term' \in [Node -> Term]
      /\ votes \in SUBSET [voter : Node, term : Term, candidate : Node]
      /\ \A t \in Term : t \in Nat
  BY ZenonT(60), TermFacts DEF TypeOK
<1>1. VotesRemembered'
  <2> SUFFICES ASSUME NEW v \in votes
               PROVE  /\ v.term <= current_term'[v.voter]
                      /\ v.term = current_term'[v.voter] => voted_for'[v.voter] = v.candidate
    BY DEF VotesRemembered, PassiveStep
  <2>1. v.voter \in Node /\ v.term \in Nat
    BY <1>0
  <2>2. current_term[v.voter] \in Nat /\ current_term'[v.voter] \in Nat
    BY ZenonT(60), <1>0, <2>1
  <2>3. /\ v.term <= current_term[v.voter]
        /\ v.term = current_term[v.voter] => voted_for[v.voter] = v.candidate
    BY DEF ElectionInv, VotesRemembered
  <2>4. /\ current_term'[v.voter] >= current_term[v.voter]
        /\ current_term'[v.voter] = current_term[v.voter]
             => voted_for'[v.voter] = voted_for[v.voter]
    BY <2>1 DEF PassiveStep
  <2> QED BY SMTT(90), <2>1, <2>2, <2>3, <2>4
<1>2. OneVotePerTerm'
  BY DEF ElectionInv, OneVotePerTerm, PassiveStep
<1>3. OwnVote'
  BY DEF ElectionInv, OwnVote, PassiveStep
<1>4. CountedBacked'
  BY ZenonT(60) DEF ElectionInv, CountedBacked, PassiveStep, VotersOf
<1> QED BY ZenonT(60), <1>1, <1>2, <1>3, <1>4

(* A step that puts no request for votes and no grant on the bus keeps     *)
(* every vote at one stage.                                                *)
LEMMA PassiveBus ==
  ASSUME TypeOK, TypeOK', ElectionInv, PassiveStep, QuietBus
  PROVE  RequestsSent' /\ GrantsCast' /\ AskedOnce' /\ GrantedOnce'
<1>0. /\ current_term \in [Node -> Term] /\ current_term' \in [Node -> Term]
      /\ \A t \in Term : t \in Nat
      /\ req \in [Node -> [Node -> Seq(Request)]]
      /\ resp \in [Node -> [Node -> Seq(Response)]]
      /\ req' \in [Node -> [Node -> Seq(Request)]]
      /\ resp' \in [Node -> [Node -> Seq(Response)]]
  BY ZenonT(60), TermFacts DEF TypeOK
<1>1. SUFFICES ASSUME NEW k \in Node, NEW j \in Node
      PROVE  /\ \A i \in DOMAIN req'[k][j] : req'[k][j][i].type = "RequestVote"
                  => req'[k][j][i].term <= current_term'[k]
             /\ \A i \in DOMAIN resp'[k][j] : \A t \in Term :
                  IsGrant(resp'[k][j][i], t) =>
                    /\ t <= current_term'[k]
                    /\ [voter |-> j, term |-> t, candidate |-> k] \in votes'
             /\ state'[k] # FOLLOWER =>
                  /\ \A i \in DOMAIN req'[k][j] :
                       IsRequestVote(req'[k][j][i], current_term'[k]) =>
                         /\ j \notin counted'[k]
                         /\ \A h \in DOMAIN req'[k][j] :
                              IsRequestVote(req'[k][j][h], current_term'[k]) => h = i
                         /\ \A h \in DOMAIN resp'[k][j] :
                              ~IsGrant(resp'[k][j][h], current_term'[k])
                  /\ \A i \in DOMAIN resp'[k][j] :
                       IsGrant(resp'[k][j][i], current_term'[k]) =>
                         /\ j \notin counted'[k]
                         /\ \A h \in DOMAIN resp'[k][j] :
                              IsGrant(resp'[k][j][h], current_term'[k]) => h = i
  BY SMTT(30) DEF RequestsSent, GrantsCast, AskedOnce, GrantedOnce
<1> DEFINE p == req[k][j]
           pp == req'[k][j]
           r == resp[k][j]
           rr == resp'[k][j]
<1>2. PICK d \in {0, 1} : \A i \in DOMAIN pp :
         pp[i].type = "RequestVote" => i + d \in DOMAIN p /\ pp[i] = p[i + d]
  BY DEF QuietBus, Kept
<1>3. PICK c \in {0, 1} : \A i \in DOMAIN rr :
         rr[i].type = "ResponseVote" => i + c \in DOMAIN r /\ rr[i] = r[i + c]
  BY DEF QuietBus, Kept
<1>4. /\ p \in Seq(Request) /\ pp \in Seq(Request)
      /\ r \in Seq(Response) /\ rr \in Seq(Response)
  BY <1>0
<1>5. /\ DOMAIN p \in SUBSET Nat /\ DOMAIN pp \in SUBSET Nat
      /\ DOMAIN r \in SUBSET Nat /\ DOMAIN rr \in SUBSET Nat
  BY SMTT(90), <1>4, LenProperties
<1>6. \A i \in DOMAIN p : p[i].type = "RequestVote" => p[i].term \in Nat
  <2>1. \A i \in DOMAIN p : p[i] \in Request
    BY SMTT(90), <1>4
  <2> QED BY ZenonT(60), <2>1, <1>0 DEF Request, RequestVote, AppendEntries
<1>7. /\ \A i \in DOMAIN p : p[i].type = "RequestVote" => p[i].term <= current_term[k]
      /\ \A i \in DOMAIN r : \A t \in Term : IsGrant(r[i], t) =>
           t <= current_term[k] /\ [voter |-> j, term |-> t, candidate |-> k] \in votes
      /\ state[k] # FOLLOWER =>
           /\ \A i \in DOMAIN p : IsRequestVote(p[i], current_term[k]) =>
                /\ j \notin counted[k]
                /\ \A h \in DOMAIN p : IsRequestVote(p[h], current_term[k]) => h = i
                /\ \A h \in DOMAIN r : ~IsGrant(r[h], current_term[k])
           /\ \A i \in DOMAIN r : IsGrant(r[i], current_term[k]) =>
                /\ j \notin counted[k]
                /\ \A h \in DOMAIN r : IsGrant(r[h], current_term[k]) => h = i
  BY DEF ElectionInv, RequestsSent, GrantsCast, AskedOnce, GrantedOnce
<1>8. /\ votes' = votes
      /\ current_term'[k] >= current_term[k]
      /\ state'[k] # FOLLOWER =>
           /\ state[k] # FOLLOWER /\ current_term'[k] = current_term[k]
           /\ counted'[k] = counted[k]
  BY DEF PassiveStep
<1>9. current_term[k] \in Nat /\ current_term'[k] \in Nat /\ \A t \in Term : t \in Nat
  BY ZenonT(60), <1>0
<1>10. /\ \A i \in DOMAIN pp, t \in Term :
            IsRequestVote(pp[i], t) => i + d \in DOMAIN p /\ IsRequestVote(p[i + d], t)
       /\ \A i \in DOMAIN rr, t \in Term :
            IsGrant(rr[i], t) => i + c \in DOMAIN r /\ IsGrant(r[i + c], t)
  BY ZenonT(60), <1>2, <1>3 DEF IsRequestVote, IsGrant
<1>11. \A i, h \in Nat : (i + d = h + d => i = h) /\ (i + c = h + c => i = h)
  BY <1>2, <1>3
<1>14. current_term'[k] \in Term
  BY ZenonT(60), <1>0
<1>15. \A i \in DOMAIN pp : pp[i].type = "RequestVote" => pp[i].term <= current_term'[k]
  BY SMTT(90), <1>2, <1>6, <1>7, <1>8, <1>9
<1> HIDE DEF p, pp, r, rr
<1>16. \A i \in DOMAIN rr : \A t \in Term : IsGrant(rr[i], t) =>
          t <= current_term'[k] /\ [voter |-> j, term |-> t, candidate |-> k] \in votes'
  BY SMTT(90), <1>7, <1>8, <1>9, <1>10
<1>17. ASSUME state'[k] # FOLLOWER
       PROVE  /\ \A i \in DOMAIN pp : IsRequestVote(pp[i], current_term'[k]) =>
                   /\ j \notin counted'[k]
                   /\ \A h \in DOMAIN pp : IsRequestVote(pp[h], current_term'[k]) => h = i
                   /\ \A h \in DOMAIN rr : ~IsGrant(rr[h], current_term'[k])
              /\ \A i \in DOMAIN rr : IsGrant(rr[i], current_term'[k]) =>
                   /\ j \notin counted'[k]
                   /\ \A h \in DOMAIN rr : IsGrant(rr[h], current_term'[k]) => h = i
  BY ZenonT(60), <1>5, <1>7, <1>8, <1>10, <1>11, <1>14, <1>17
<1> QED BY ZenonT(60), <1>15, <1>16, <1>17 DEF p, pp, r, rr

(* Votes are cast by nodes, and more of them make no set of voters smaller. *)
LEMMA VotersGrow ==
  ASSUME TypeOK, TypeOK', votes \subseteq votes', NEW n \in Node, NEW t
  PROVE  /\ VotersOf(n, t) \subseteq VotersOf(n, t)'
         /\ VotersOf(n, t)' \subseteq Node
         /\ IsFiniteSet(VotersOf(n, t)) /\ IsFiniteSet(VotersOf(n, t)')
         /\ Cardinality(VotersOf(n, t)) \in Nat /\ Cardinality(VotersOf(n, t)') \in Nat
         /\ Cardinality(VotersOf(n, t)) <= Cardinality(VotersOf(n, t)')
<1>1. VotersOf(n, t) \subseteq VotersOf(n, t)'
  BY DEF VotersOf
<1>2. VotersOf(n, t)' \subseteq Node
  <2>1. \A v \in votes' : v.voter \in Node
    BY DEF TypeOK
  <2> QED BY ZenonT(60), <2>1 DEF VotersOf
<1>3. IsFiniteSet(Node)
  BY ClusterAssumption DEF ClusterAssumption
<1>4. IsFiniteSet(VotersOf(n, t)')
  BY ZenonT(60), <1>2, <1>3, FS_Subset
<1>5. /\ IsFiniteSet(VotersOf(n, t))
      /\ Cardinality(VotersOf(n, t)) <= Cardinality(VotersOf(n, t)')
  BY ZenonT(60), <1>1, <1>4, FS_Subset
<1> QED BY ZenonT(60), <1>1, <1>2, <1>4, <1>5, FS_CardinalityType

(* If office is taken with a quorum only, leaders and leader hints stay    *)
(* elected ones.                                                           *)
LEMMA OfficeKept ==
  ASSUME TypeOK, TypeOK', ElectionInv, OfficeEarned
  PROVE  ElectedBacked' /\ InOffice' /\ LeaderHintElected'
<1>0. /\ elected \in [Term -> SUBSET Node] /\ elected' \in [Term -> SUBSET Node]
      /\ current_term' \in [Node -> Term]
      /\ votes_granted \in [Node -> Nat]
  BY DEF TypeOK
<1>1. ElectedBacked'
  <2> SUFFICES ASSUME NEW t \in Term, NEW n \in elected'[t]
               PROVE  Cardinality(VotersOf(n, t)') >= quorumSize
    BY DEF ElectedBacked, quorumSize
  <2>1. n \in Node
    BY ZenonT(60), <1>0
  <2>2. Cardinality(VotersOf(n, t)) >= quorumSize
    <3>1. CASE n \in elected[t]
      BY ZenonT(60), <3>1 DEF ElectionInv, ElectedBacked
    <3>2. CASE /\ t = current_term[n] /\ state[n] = CANDIDATE
               /\ votes_granted[n] >= quorumSize
      <4>1. /\ counted[n] \subseteq VotersOf(n, t)
            /\ votes_granted[n] = Cardinality(counted[n])
        BY ZenonT(60), <2>1, <3>2 DEF ElectionInv, CountedBacked, CANDIDATE, FOLLOWER
      <4>2. IsFiniteSet(VotersOf(n, t)) /\ Cardinality(VotersOf(n, t)) \in Nat
        BY ZenonT(60), <2>1, VotersGrow DEF OfficeEarned
      <4>3. Cardinality(counted[n]) <= Cardinality(VotersOf(n, t))
        BY ZenonT(60), <4>1, <4>2, FS_Subset
      <4> QED BY SMTT(90), <1>0, <2>1, <3>2, <4>1, <4>2, <4>3, QuorumFacts
    <3> QED BY ZenonT(60), <3>1, <3>2 DEF OfficeEarned
  <2>3. /\ Cardinality(VotersOf(n, t)) <= Cardinality(VotersOf(n, t)')
        /\ Cardinality(VotersOf(n, t)) \in Nat /\ Cardinality(VotersOf(n, t)') \in Nat
    BY ZenonT(60), <2>1, VotersGrow DEF OfficeEarned
  <2> QED BY SMTT(90), <2>2, <2>3, QuorumFacts
<1>2. InOffice'
  BY ZenonT(60), <1>0 DEF ElectionInv, InOffice, OfficeEarned
<1>3. LeaderHintElected'
  BY ZenonT(60), <1>0 DEF ElectionInv, LeaderHintElected, OfficeEarned
<1> QED BY ZenonT(60), <1>1, <1>2, <1>3

(* AppendEntries messages stay those of elected leaders.                   *)
LEMMA AppendsKept ==
  ASSUME TypeOK, TypeOK', ElectionInv, OfficeEarned, AppendsAllowed
  PROVE  AppendsFromElected'
<1> SUFFICES ASSUME NEW k \in Node, NEW j \in Node,
                    NEW q \in {req'[k][j]} \cup stale'[k][j], NEW i \in DOMAIN q,
                    q[i].type = "AppendEntries"
             PROVE  k \in elected'[q[i].term]
  BY DEF AppendsFromElected
<1>1. CASE \E p \in {req[k][j]} \cup stale[k][j] : \E h \in DOMAIN p : p[h] = q[i]
  <2>1. PICK p \in {req[k][j]} \cup stale[k][j] : \E h \in DOMAIN p : p[h] = q[i]
    BY <1>1
  <2>2. PICK h \in DOMAIN p : p[h] = q[i]
    BY ZenonT(60), <2>1
  <2>3. k \in elected[q[i].term]
    BY ZenonT(60), <2>1, <2>2 DEF ElectionInv, AppendsFromElected
  <2>4. p \in Seq(Request)
    BY SMTT(90), <2>1 DEF TypeOK
  <2>5. p[h] \in Request
    BY SMTT(90), <2>4, <2>2
  <2>6. q[i].term \in Term
    BY ZenonT(60), <2>2, <2>5 DEF Request, RequestVote, AppendEntries
  <2> QED BY ZenonT(60), <2>3, <2>6 DEF OfficeEarned
<1>2. CASE k \in elected'[q[i].term]
  BY ZenonT(60), <1>2
<1> QED BY ZenonT(60), <1>1, <1>2 DEF AppendsAllowed

(* A step that neither asks for a vote, nor grants one, nor counts one     *)
(* preserves the invariant.                                                *)
LEMMA QuietStep ==
  ASSUME TypeOK, TypeOK', ElectionInv, PassiveStep, QuietBus, OfficeEarned,
         AppendsAllowed, NoSelfLink'
  PROVE  ElectionInv'
BY ZenonT(60), PassiveVotes, PassiveBus, OfficeKept, AppendsKept DEF ElectionInv

----------------------------------------------------------------------------
(* The queues of the bus after one operation on them.                      *)

(* An unchanged queue gains no message of the type.                        *)
LEMMA KeptSame ==
  ASSUME NEW S, NEW q \in Seq(S), NEW type
  PROVE  Kept(q, q, type)
<1>1. DOMAIN q \in SUBSET Nat
  BY LenProperties
<1>2. \A i \in DOMAIN q : i + 0 \in DOMAIN q /\ q[i] = q[i + 0]
  BY <1>1
<1> QED BY SMTT(30), <1>2 DEF Kept

(* A queue that loses its head gains no message of the type.               *)
LEMMA KeptTail ==
  ASSUME NEW S, NEW q \in Seq(S), q # <<>>, NEW type
  PROVE  Kept(Tail(q), q, type)
BY SMTT(30), TailElements DEF Kept

(* A queue extended by a message of another type gains none of the type.   *)
LEMMA KeptAppend ==
  ASSUME NEW S, NEW q \in Seq(S), NEW x, NEW type, x.type # type
  PROVE  Kept(Append(q, x), q, type)
<1>1. \A i \in DOMAIN Append(q, x) : Append(q, x)[i].type = type =>
        i + 0 \in DOMAIN q /\ Append(q, x)[i] = q[i + 0]
  BY AppendElements
<1> QED BY SMTT(30), <1>1 DEF Kept

(* An emptied queue gains no message of the type.                          *)
LEMMA KeptEmpty ==
  ASSUME NEW q, NEW type
  PROVE  Kept(<<>>, q, type)
BY SMTT(90) DEF Kept

(* An answered request: the packet is gone from its queue, the reply is at *)
(* the end of the one that leads back, nothing else on the bus changes.    *)
LEMMA AnswerBus ==
  ASSUME TypeOK, ElectionInv, NEW n \in Node, NEW m \in Node,
         NEW src \in Sources(n, m), NEW reply \in Response,
         Answer(n, m, src, reply)
  PROVE  /\ n # m
         /\ \A k, j \in Node : k # n \/ j # m =>
              req'[k][j] = req[k][j] /\ resp'[k][j] = resp[k][j]
         /\ \A k, j \in Node : Kept(req'[k][j], req[k][j], "RequestVote")
         /\ reply.type # "ResponseVote" =>
              \A k, j \in Node : Kept(resp'[k][j], resp[k][j], "ResponseVote")
         /\ \/ /\ req'[n][m] = req[n][m] /\ resp'[n][m] = resp[n][m]
            \/ /\ src.queue = req[n][m] /\ req'[n][m] = Tail(req[n][m])
               /\ resp'[n][m] = Append(resp[n][m], reply)
         /\ AppendsAllowed
         /\ NoSelfLink'
<1>0. /\ req \in [Node -> [Node -> Seq(Request)]]
      /\ resp \in [Node -> [Node -> Seq(Response)]]
      /\ stale \in [Node -> [Node -> SUBSET (Seq(Request) \ {<<>>})]]
  BY ZenonT(60) DEF TypeOK
<1>1. /\ src.queue \in Seq(Request) /\ src.queue # <<>>
      /\ ~src.closed => src.queue = req[n][m]
      /\ src.closed => src.queue \in stale[n][m]
  BY ZenonT(60), SourceTypes
<1>2. n # m
  BY ZenonT(60), <1>1 DEF ElectionInv, NoSelfLink
<1>3. \A k, j \in Node : /\ req[k][j] \in Seq(Request)
                         /\ resp[k][j] \in Seq(Response)
                         /\ Kept(req[k][j], req[k][j], "RequestVote")
                         /\ Kept(resp[k][j], resp[k][j], "ResponseVote")
  BY ZenonT(60), <1>0, KeptSame
<1>4. CASE src.closed
  <2> DEFINE rest == (stale[n][m] \ {src.queue}) \cup ({Tail(src.queue)} \ {<<>>})
  <2>1. /\ stale' = [stale EXCEPT ![n][m] = rest]
        /\ link' = link /\ req' = req /\ resp' = resp
    BY ZenonT(60), <1>0, <1>4 DEF Answer
  <2>2. /\ stale'[n][m] = rest
        /\ \A k, j \in Node : k # n \/ j # m => stale'[k][j] = stale[k][j]
    <3> HIDE DEF rest
    <3> QED BY ZenonT(60), <1>0, <2>1
  <2>3. AppendsAllowed
    <3> SUFFICES ASSUME NEW k \in Node, NEW j \in Node,
                        NEW q \in {req'[k][j]} \cup stale'[k][j], NEW i \in DOMAIN q
                 PROVE  \E p \in {req[k][j]} \cup stale[k][j] : \E h \in DOMAIN p : p[h] = q[i]
      BY SMTT(90) DEF AppendsAllowed
    <3>1. CASE q \in {req[k][j]} \cup stale[k][j]
      BY ZenonT(60), <3>1
    <3>2. CASE q \notin {req[k][j]} \cup stale[k][j]
      <4>1. k = n /\ j = m /\ q = Tail(src.queue)
        BY SMTT(90), <2>1, <2>2, <3>2
      <4>2. i + 1 \in DOMAIN src.queue /\ src.queue[i + 1] = q[i]
        BY ZenonT(60), <1>1, <4>1, TailElements
      <4> QED BY ZenonT(60), <1>1, <1>4, <4>1, <4>2
    <3> QED BY ZenonT(60), <3>1, <3>2
  <2>4. NoSelfLink'
    BY SMTT(90), <1>2, <2>1, <2>2 DEF ElectionInv, NoSelfLink
  <2> QED BY ZenonT(60), <1>2, <1>3, <2>1, <2>3, <2>4
<1>5. CASE ~src.closed
  <2>1. /\ req' = [req EXCEPT ![n][m] = Tail(req[n][m])]
        /\ resp' = [resp EXCEPT ![n][m] = Append(resp[n][m], reply)]
        /\ link' = link /\ stale' = stale
    BY ZenonT(60), <1>0, <1>5 DEF Answer
  <2>2. /\ \A k, j \in Node : k # n \/ j # m =>
             req'[k][j] = req[k][j] /\ resp'[k][j] = resp[k][j]
        /\ req'[n][m] = Tail(req[n][m])
        /\ resp'[n][m] = Append(resp[n][m], reply)
    BY ZenonT(60), <1>0, <2>1
  <2>3. src.queue = req[n][m] /\ req[n][m] # <<>>
    BY ZenonT(60), <1>1, <1>5
  <2>4. Kept(req'[n][m], req[n][m], "RequestVote")
    BY ZenonT(60), <1>3, <2>2, <2>3, KeptTail
  <2>5. reply.type # "ResponseVote" => Kept(resp'[n][m], resp[n][m], "ResponseVote")
    BY SMTT(90), <1>3, <2>2, KeptAppend
  <2>6. AppendsAllowed
    <3> SUFFICES ASSUME NEW k \in Node, NEW j \in Node,
                        NEW q \in {req'[k][j]} \cup stale'[k][j], NEW i \in DOMAIN q
                 PROVE  \E p \in {req[k][j]} \cup stale[k][j] : \E h \in DOMAIN p : p[h] = q[i]
      BY DEF AppendsAllowed
    <3>1. CASE q \in {req[k][j]} \cup stale[k][j]
      BY SMTT(30), <3>1
    <3>2. CASE q \notin {req[k][j]} \cup stale[k][j]
      <4>1. k = n /\ j = m /\ q = Tail(req[n][m])
        BY ZenonT(60), <2>1, <2>2, <3>2
      <4>2. i + 1 \in DOMAIN req[n][m] /\ req[n][m][i + 1] = q[i]
        BY ZenonT(60), <1>3, <2>3, <4>1, TailElements
      <4> QED BY ZenonT(60), <4>1, <4>2
    <3> QED BY <3>1, <3>2
  <2>7. NoSelfLink'
    BY SMTT(90), <1>2, <2>1, <2>2 DEF ElectionInv, NoSelfLink
  <2>8. \A k, j \in Node : Kept(req'[k][j], req[k][j], "RequestVote")
    BY ZenonT(60), <1>3, <2>2, <2>4
  <2>9. reply.type # "ResponseVote" =>
          \A k, j \in Node : Kept(resp'[k][j], resp[k][j], "ResponseVote")
    BY ZenonT(60), <1>3, <2>2, <2>5
  <2> QED BY ZenonT(60), <1>2, <2>2, <2>3, <2>6, <2>7, <2>8, <2>9
<1> QED BY ZenonT(60), <1>4, <1>5

----------------------------------------------------------------------------
(* Each action preserves the invariant.                                    *)

(* clusterProcessAppendEntries keeps ElectionInv: the node may follow a    *)
(* leader, who is an elected one.                                          *)
LEMMA AppendEntriesElection ==
  ASSUME TypeOK, TypeOK', ElectionInv, NEW n \in Node, NEW m \in Node,
         NEW src \in Sources(n, m), NEW synced \in BOOLEAN,
         clusterProcessAppendEntries(n, m, src, synced)
  PROVE  ElectionInv'
<1> DEFINE a == Head(src.queue)
           ok == logVerifyAppend(log[m], a.prev_log_index, a.prev_log_term) /\ synced
           reply(r) == [type |-> "ResponseAppend", term |-> current_term'[m], ok |-> r]
<1>0. /\ current_term \in [Node -> Term] /\ current_term' \in [Node -> Term]
      /\ state \in [Node -> {FOLLOWER, CANDIDATE, LEADER}]
      /\ voted_for \in [Node -> Node \cup {Nil}]
      /\ leader \in [Node -> Node \cup {Nil}]
      /\ \A t \in Term : t \in Nat
  BY ZenonT(60), TermFacts DEF TypeOK
<1>1. votes' = votes /\ counted' = counted /\ elected' = elected
  BY ZenonT(60) DEF clusterProcessAppendEntries, historyVars
<1>2. /\ a \in Request /\ a.type = "AppendEntries" /\ a.term \in Term
      /\ n \in elected[a.term]
  <2>1. a \in Request /\ a.type = "AppendEntries"
    BY ZenonT(60), SourceTypes DEF clusterProcessAppendEntries
  <2>2. a.term \in Term
    BY ZenonT(60), <2>1 DEF Request, RequestVote, AppendEntries
  <2>3. /\ src.queue \in Seq(Request) /\ src.queue # <<>>
        /\ src.queue \in {req[n][m]} \cup stale[n][m]
    BY ZenonT(60), SourceTypes
  <2>4. 1 \in DOMAIN src.queue /\ a = src.queue[1]
    BY ZenonT(60), <2>3, TailElements
  <2> HIDE DEF a
  <2>5. n \in elected[a.term]
    BY ZenonT(60), <2>1, <2>3, <2>4 DEF ElectionInv, AppendsFromElected
  <2> QED BY ZenonT(60), <2>1, <2>2, <2>5
<1>3. \E r \in BOOLEAN : Answer(n, m, src, reply(r))
  <2>1. ok \in BOOLEAN
    BY ZenonT(60) DEF logVerifyAppend
  <2> QED BY ZenonT(60), <2>1 DEF clusterProcessAppendEntries
<1>4. QuietBus /\ AppendsAllowed /\ NoSelfLink'
  <2>1. PICK r \in BOOLEAN : Answer(n, m, src, reply(r))
    BY ZenonT(60), <1>3
  <2>2. reply(r) \in Response /\ reply(r).type # "ResponseVote"
    BY <1>0 DEF Response, ResponseAppend
  <2> HIDE DEF reply
  <2> QED BY SMTT(90), <2>1, <2>2, AnswerBus DEF QuietBus
<1>5. CASE UNCHANGED electionVars
  <2>1. PassiveStep
    BY SMTT(90), <1>0, <1>1, <1>5 DEF PassiveStep, electionVars
  <2>2. OfficeEarned
    BY ZenonT(60), <1>1, <1>5 DEF OfficeEarned, electionVars
  <2> QED BY ZenonT(60), <1>4, <2>1, <2>2, QuietStep
<1>6. CASE /\ a.term >= current_term[m]
           /\ state' = [state EXCEPT ![m] = StateOnAppend(m, a.term)]
           /\ current_term' = [current_term EXCEPT ![m] = a.term]
           /\ leader' = [leader EXCEPT ![m] = n]
           /\ voted_for' = [voted_for EXCEPT ![m] =
                              IF a.term > current_term[m] THEN Nil ELSE voted_for[m]]
           /\ votes_granted' = votes_granted
  <2> HIDE DEF a
  <2>1. /\ state'[m] = StateOnAppend(m, a.term) /\ current_term'[m] = a.term
        /\ leader'[m] = n
        /\ voted_for'[m] = IF a.term > current_term[m] THEN Nil ELSE voted_for[m]
        /\ \A k \in Node \ {m} : /\ state'[k] = state[k] /\ leader'[k] = leader[k]
                                 /\ current_term'[k] = current_term[k]
                                 /\ voted_for'[k] = voted_for[k]
    BY ZenonT(60), <1>0, <1>6
  <2>2. a.term \in Nat /\ \A k \in Node : current_term[k] \in Nat
    BY ZenonT(60), <1>0, <1>2
  <2>3. state'[m] # FOLLOWER =>
          state'[m] = state[m] /\ current_term'[m] = current_term[m]
    BY SMTT(90), <1>6, <2>1, <2>2 DEF StateOnAppend
  <2>4. PassiveStep
    BY SMTT(90), <1>1, <1>6, <2>1, <2>2, <2>3 DEF PassiveStep
  <2>5. OfficeEarned
    BY ZenonT(60), <1>1, <1>2, <2>1, <2>3 DEF OfficeEarned, LEADER, FOLLOWER
  <2> QED BY SMTT(30), <1>4, <2>4, <2>5, QuietStep
<1> QED BY ZenonT(60), <1>0, <1>5, <1>6 DEF clusterProcessAppendEntries

(* clusterProcessRequestVote keeps ElectionInv: the one step that turns a  *)
(* request into a vote and a grant.                                        *)
LEMMA RequestVoteElection ==
  ASSUME TypeOK, TypeOK', ElectionInv, NEW n \in Node, NEW m \in Node,
         NEW src \in Sources(n, m),
         clusterProcessRequestVote(n, m, src, TRUE)
  PROVE  ElectionInv'
<1> DEFINE v == Head(src.queue)
           newer == v.term > current_term[m]
           granted == /\ v.term >= current_term[m]
                      /\ newer \/ ~AlreadyVoted(m, n, TRUE)
                      /\ ~OutOfDate(m, v)
           vote == [voter |-> m, term |-> v.term, candidate |-> n]
           reply == [type |-> "ResponseVote", term |-> current_term'[m],
                     vote_granted |-> granted]
<1>0. /\ current_term \in [Node -> Term] /\ current_term' \in [Node -> Term]
      /\ state \in [Node -> {FOLLOWER, CANDIDATE, LEADER}]
      /\ voted_for \in [Node -> Node \cup {Nil}]
      /\ leader \in [Node -> Node \cup {Nil}]
      /\ votes \in SUBSET [voter : Node, term : Term, candidate : Node]
      /\ \A t \in Term : t \in Nat
      /\ req \in [Node -> [Node -> Seq(Request)]]
      /\ resp \in [Node -> [Node -> Seq(Response)]]
      /\ Nil \notin Node
  BY ZenonT(60), TermFacts, ClusterAssumption DEF TypeOK, ClusterAssumption
<1>1. v \in Request /\ v.type = "RequestVote" /\ v.term \in Term
  <2>1. v \in Request /\ v.type = "RequestVote"
    BY ZenonT(60), SourceTypes DEF clusterProcessRequestVote
  <2> QED BY ZenonT(60), <2>1 DEF Request, RequestVote, AppendEntries
<1>2. /\ Answer(n, m, src, reply)
      /\ votes' = IF granted THEN votes \cup {vote} ELSE votes
      /\ state'[m] = IF newer THEN FOLLOWER ELSE state[m]
      /\ current_term'[m] = IF newer THEN v.term ELSE current_term[m]
      /\ leader'[m] = IF newer THEN Nil ELSE leader[m]
      /\ voted_for'[m] = IF granted THEN n ELSE IF newer THEN Nil ELSE voted_for[m]
      /\ \A k \in Node \ {m} : /\ state'[k] = state[k] /\ leader'[k] = leader[k]
                               /\ current_term'[k] = current_term[k]
                               /\ voted_for'[k] = voted_for[k]
      /\ counted' = counted /\ elected' = elected /\ votes_granted' = votes_granted
  BY ZenonT(60), <1>0 DEF clusterProcessRequestVote
<1>3. granted \in BOOLEAN
  BY ZenonT(60)
<1>4. granted => /\ v.term >= current_term[m]
                 /\ newer \/ voted_for[m] \in {Nil, n}
  BY ZenonT(60) DEF AlreadyVoted
<1>5. v.term \in Nat /\ \A k \in Node : current_term[k] \in Nat
  BY ZenonT(60), <1>0, <1>1
<1>6. reply \in Response
  BY ZenonT(60), <1>0, <1>3 DEF Response, ResponseVote
<1> HIDE DEF granted, v
<1>2a. current_term'[m] = IF newer THEN v.term ELSE current_term[m]
  BY ZenonT(60), <1>2
<1>2b. granted => voted_for'[m] = n
  BY ZenonT(60), <1>2
<1>7. /\ n # m
      /\ \A k, j \in Node : k # n \/ j # m =>
           req'[k][j] = req[k][j] /\ resp'[k][j] = resp[k][j]
      /\ \A k, j \in Node : Kept(req'[k][j], req[k][j], "RequestVote")
      /\ \/ /\ req'[n][m] = req[n][m] /\ resp'[n][m] = resp[n][m]
         \/ /\ src.queue = req[n][m] /\ req'[n][m] = Tail(req[n][m])
            /\ resp'[n][m] = Append(resp[n][m], reply)
      /\ AppendsAllowed
      /\ NoSelfLink'
  <2> HIDE DEF reply
  <2> QED BY ZenonT(60), <1>2, <1>6, AnswerBus
<1>8. granted => current_term'[m] = v.term
  <2> HIDE DEF newer, vote, reply
  <2>1. CASE newer
    BY ZenonT(60), <1>2a, <2>1
  <2>2. CASE granted /\ ~newer
    <3>1. v.term >= current_term[m] /\ current_term'[m] = current_term[m]
      BY ZenonT(60), <1>2a, <1>4, <2>2
    <3>2. ~(v.term > current_term[m])
      BY ZenonT(60), <2>2 DEF newer
    <3> QED BY SMTT(90), <1>5, <3>1, <3>2
  <2> QED BY ZenonT(60), <2>1, <2>2
<1>9. \A k \in Node : current_term'[k] >= current_term[k] /\ current_term'[k] \in Nat
  <2>1. \A k \in Node : current_term'[k] \in Nat
    BY ZenonT(60), <1>0
  <2>2. current_term'[m] >= current_term[m]
    BY SMTT(90), <1>2a, <1>5
  <2>3. \A k \in Node \ {m} : current_term'[k] = current_term[k]
    BY ZenonT(60), <1>2
  <2>4. \A k \in Node \ {m} : current_term'[k] >= current_term[k]
    BY SMTT(90), <1>5, <2>3
  <2> QED BY ZenonT(60), <2>1, <2>2, <2>4
<1>10. \A k \in Node : state'[k] # FOLLOWER =>
         state'[k] = state[k] /\ current_term'[k] = current_term[k]
  BY ZenonT(60), <1>2
<1>11. votes \subseteq votes'
  BY ZenonT(60), <1>2
<1> HIDE DEF newer, vote, reply
<1>12. VotesRemembered'
  <2> SUFFICES ASSUME NEW w \in votes'
               PROVE  /\ w.term <= current_term'[w.voter]
                      /\ w.term = current_term'[w.voter] => voted_for'[w.voter] = w.candidate
    BY ZenonT(60) DEF VotesRemembered
  <2>1. CASE w \in votes
    <3>1. w.voter \in Node /\ w.term \in Nat /\ w.candidate \in Node
      BY ZenonT(60), <1>0, <2>1
    <3>2. /\ w.term <= current_term[w.voter]
          /\ w.term = current_term[w.voter] => voted_for[w.voter] = w.candidate
      BY <2>1 DEF ElectionInv, VotesRemembered
    <3>3. CASE w.voter # m
      <4>1. current_term'[w.voter] = current_term[w.voter] /\ voted_for'[w.voter] = voted_for[w.voter]
        BY ZenonT(60), <1>2, <3>1, <3>3
      <4> QED BY ZenonT(60), <3>2, <4>1
    <3>4. CASE w.voter = m
      <4>1. w.term = current_term'[m] => ~newer /\ w.term = current_term[m]
        <5>1. w.term <= current_term[m] /\ w.term \in Nat /\ current_term[m] \in Nat
          BY ZenonT(60), <1>5, <3>1, <3>2, <3>4
        <5>2. newer => v.term > current_term[m]
          BY ZenonT(60) DEF newer
        <5> QED BY SMTT(90), <1>2a, <1>5, <5>1, <5>2
      <4>2. w.term <= current_term'[m]
        BY SMTT(90), <1>5, <1>9, <3>1, <3>2, <3>4
      <4>3. w.term = current_term'[m] => voted_for[m] = w.candidate /\ voted_for[m] # Nil
        BY ZenonT(60), <1>0, <3>1, <3>2, <3>4, <4>1
      <4>4. w.term = current_term'[m] => voted_for'[m] = voted_for[m]
        BY ZenonT(60), <1>2, <1>4, <4>1, <4>3
      <4> QED BY ZenonT(60), <3>4, <4>2, <4>3, <4>4
    <3> QED BY ZenonT(60), <3>3, <3>4
  <2>2. CASE granted /\ w = vote
    <3>1. w.voter = m /\ w.term = v.term /\ w.candidate = n
      BY ZenonT(60), <2>2 DEF vote
    <3>2. current_term'[m] = v.term /\ voted_for'[m] = n
      BY ZenonT(60), <1>2b, <1>8, <2>2
    <3>3. v.term <= v.term
      BY SMTT(90), <1>5
    <3> QED BY ZenonT(60), <3>1, <3>2, <3>3
  <2> QED BY ZenonT(60), <1>2, <2>1, <2>2
<1>13. OneVotePerTerm'
  <2>1. ASSUME NEW w \in votes, granted, w.voter = m, w.term = v.term
        PROVE  w.candidate = n
    <3>1. w.voter \in Node /\ w.term \in Nat /\ w.candidate \in Node
      BY ZenonT(60), <1>0, <2>1
    <3>2. /\ w.term <= current_term[m]
          /\ w.term = current_term[m] => voted_for[m] = w.candidate
      BY ZenonT(60), <2>1 DEF ElectionInv, VotesRemembered
    <3>3. ~newer /\ w.term = current_term[m]
      BY SMTT(90), <1>4, <1>5, <2>1, <3>1, <3>2 DEF newer
    <3>4. w.candidate # Nil
      BY ZenonT(60), <1>0, <3>1
    <3> QED BY ZenonT(60), <1>4, <2>1, <3>2, <3>3, <3>4
  <2>2. \A w, u \in votes : w.voter = u.voter /\ w.term = u.term => w.candidate = u.candidate
    BY DEF ElectionInv, OneVotePerTerm
  <2>3. vote.voter = m /\ vote.term = v.term /\ vote.candidate = n
    BY ZenonT(60) DEF vote
  <2> QED BY SMTT(90), <1>2, <2>1, <2>2, <2>3 DEF OneVotePerTerm
<1>14. OwnVote'
  <2> SUFFICES ASSUME NEW k \in Node, state'[k] # FOLLOWER PROVE voted_for'[k] = k
    BY ZenonT(60) DEF OwnVote
  <2>1. voted_for[k] = k
    BY ZenonT(60), <1>10 DEF ElectionInv, OwnVote
  <2> QED BY ZenonT(60), <1>0, <1>2, <1>4, <1>7, <2>1 DEF newer
<1>15. CountedBacked'
  <2> SUFFICES ASSUME NEW k \in Node, state'[k] # FOLLOWER
               PROVE  /\ counted'[k] \subseteq VotersOf(k, current_term[k])'
                      /\ votes_granted'[k] = Cardinality(counted'[k])
    BY ZenonT(60) DEF CountedBacked
  <2>1. /\ counted[k] \subseteq VotersOf(k, current_term[k])
        /\ votes_granted[k] = Cardinality(counted[k])
    BY ZenonT(60), <1>10 DEF ElectionInv, CountedBacked
  <2>2. VotersOf(k, current_term[k]) \subseteq VotersOf(k, current_term[k])'
    <3>1. current_term'[k] = current_term[k]
      BY ZenonT(60), <1>10
    <3> QED BY ZenonT(60), <1>11, <3>1 DEF VotersOf
  <2>3. counted' = counted /\ votes_granted' = votes_granted
    BY ZenonT(60), <1>2
  <2> QED BY ZenonT(60), <2>1, <2>2, <2>3
<1>16. ElectedBacked' /\ InOffice' /\ LeaderHintElected' /\ AppendsFromElected'
  <2>1. OfficeEarned
    BY ZenonT(60), <1>2, <1>10, <1>11 DEF OfficeEarned, LEADER, FOLLOWER
  <2> QED BY ZenonT(60), <1>7, <2>1, OfficeKept, AppendsKept
(* The request at the head of the live connection: what its grant relies on. *)
<1>17. ASSUME src.queue = req[n][m]
       PROVE  /\ 1 \in DOMAIN req[n][m] /\ req[n][m][1] = v
              /\ v.term <= current_term[n]
              /\ \A i \in DOMAIN Tail(req[n][m]) :
                   i \in Nat /\ i >= 1 /\ i + 1 \in DOMAIN req[n][m]
                   /\ Tail(req[n][m])[i] = req[n][m][i + 1]
  <2>1. req[n][m] \in Seq(Request) /\ req[n][m] # <<>>
    BY ZenonT(60), <1>17, SourceTypes
  <2>2. /\ 1 \in DOMAIN req[n][m] /\ Head(req[n][m]) = req[n][m][1]
        /\ \A i \in DOMAIN Tail(req[n][m]) :
             i \in Nat /\ i >= 1 /\ i + 1 \in DOMAIN req[n][m]
             /\ Tail(req[n][m])[i] = req[n][m][i + 1]
    BY ZenonT(60), <2>1, TailElements
  <2>3. req[n][m][1] = v
    BY ZenonT(60), <1>17, <2>2 DEF v
  <2> QED BY ZenonT(60), <1>1, <2>2, <2>3 DEF ElectionInv, RequestsSent
<1>18. RequestsSent'
  <2> SUFFICES ASSUME NEW k \in Node, NEW j \in Node, NEW i \in DOMAIN req'[k][j],
                      req'[k][j][i].type = "RequestVote"
               PROVE  req'[k][j][i].term <= current_term'[k]
    BY ZenonT(60) DEF RequestsSent
  <2>1. PICK h \in DOMAIN req[k][j] : req'[k][j][i] = req[k][j][h]
    <3>1. Kept(req'[k][j], req[k][j], "RequestVote")
      BY ZenonT(60), <1>7
    <3> QED BY ZenonT(60), <3>1 DEF Kept
  <2>2. req[k][j][h].term <= current_term[k]
    BY ZenonT(60), <2>1 DEF ElectionInv, RequestsSent
  <2>3. req[k][j][h] \in Request
    <3>1. req[k][j] \in Seq(Request)
      BY SMTT(90), <1>0
    <3> QED BY SMTT(90), <2>1, <3>1
  <2>4. req[k][j][h].term \in Nat
    BY ZenonT(60), <1>0, <2>3 DEF Request, RequestVote, AppendEntries
  <2> QED BY SMTT(90), <1>5, <1>9, <2>1, <2>2, <2>4
<1>19. ASSUME NEW k \in Node, NEW j \in Node, NEW i \in DOMAIN resp'[k][j],
              NEW t \in Term, IsGrant(resp'[k][j][i], t)
       PROVE  \/ i \in DOMAIN resp[k][j] /\ resp'[k][j][i] = resp[k][j][i]
              \/ /\ k = n /\ j = m /\ i = Len(resp[n][m]) + 1
                 /\ src.queue = req[n][m] /\ req'[n][m] = Tail(req[n][m])
                 /\ granted /\ t = v.term
  <2>1. CASE resp'[k][j] = resp[k][j]
    BY ZenonT(60), <2>1
  <2>2. CASE /\ k = n /\ j = m
             /\ src.queue = req[n][m] /\ req'[n][m] = Tail(req[n][m])
             /\ resp'[n][m] = Append(resp[n][m], reply)
    <3>1. resp[n][m] \in Seq(Response)
      BY SMTT(90), <1>0
    <3>2. \/ i \in DOMAIN resp[n][m] /\ resp'[n][m][i] = resp[n][m][i]
          \/ i = Len(resp[n][m]) + 1 /\ resp'[n][m][i] = reply
      <4>1. \A h \in DOMAIN Append(resp[n][m], reply) :
              \/ h \in DOMAIN resp[n][m] /\ Append(resp[n][m], reply)[h] = resp[n][m][h]
              \/ h = Len(resp[n][m]) + 1 /\ Append(resp[n][m], reply)[h] = reply
        BY ZenonT(60), <1>6, <3>1, AppendElements
      <4> QED BY ZenonT(60), <2>2, <4>1
    <3>3. resp'[n][m][i] = reply => granted /\ t = v.term
      <4>1. reply.vote_granted = granted /\ reply.term = current_term'[m]
        BY ZenonT(60) DEF reply
      <4> QED BY ZenonT(60), <1>8, <1>19, <2>2, <4>1 DEF IsGrant
    <3> QED BY ZenonT(60), <2>2, <3>2, <3>3
  <2> QED BY ZenonT(60), <1>7, <2>1, <2>2
<1>20. GrantsCast'
  <2> SUFFICES ASSUME NEW k \in Node, NEW j \in Node, NEW i \in DOMAIN resp'[k][j],
                      NEW t \in Term, IsGrant(resp'[k][j][i], t)
               PROVE  /\ t <= current_term'[k]
                      /\ [voter |-> j, term |-> t, candidate |-> k] \in votes'
    BY ZenonT(60) DEF GrantsCast, IsGrant
  <2>1. CASE i \in DOMAIN resp[k][j] /\ resp'[k][j][i] = resp[k][j][i]
    <3>1. t <= current_term[k] /\ [voter |-> j, term |-> t, candidate |-> k] \in votes
      BY ZenonT(60), <2>1 DEF ElectionInv, GrantsCast
    <3> QED BY SMTT(90), <1>0, <1>5, <1>9, <1>11, <3>1
  <2>2. CASE k = n /\ j = m /\ src.queue = req[n][m] /\ granted /\ t = v.term
    <3>1. vote \in votes'
      BY ZenonT(60), <1>2, <2>2
    <3>2. current_term'[n] = current_term[n] /\ v.term <= current_term[n]
      BY ZenonT(60), <1>2, <1>7, <1>17, <2>2
    <3> QED BY ZenonT(60), <2>2, <3>1, <3>2 DEF vote
  <2> QED BY ZenonT(60), <1>19, <2>1, <2>2
<1>21. AskedOnce'
  <2> SUFFICES ASSUME NEW k \in Node, NEW j \in Node, state'[k] # FOLLOWER,
                      NEW i \in DOMAIN req'[k][j],
                      IsRequestVote(req'[k][j][i], current_term'[k])
               PROVE  /\ j \notin counted'[k]
                      /\ \A h \in DOMAIN req'[k][j] :
                           IsRequestVote(req'[k][j][h], current_term'[k]) => h = i
                      /\ \A h \in DOMAIN resp'[k][j] :
                           ~IsGrant(resp'[k][j][h], current_term'[k])
    BY ZenonT(60) DEF AskedOnce
  <2>0. state[k] # FOLLOWER /\ current_term'[k] = current_term[k] /\ counted' = counted
    BY ZenonT(60), <1>2, <1>10
  <2> DEFINE Asks(h) == IsRequestVote(req[k][j][h], current_term[k])
  <2>a. \A g \in DOMAIN req[k][j] : Asks(g) =>
           /\ j \notin counted[k]
           /\ \A h \in DOMAIN req[k][j] : Asks(h) => h = g
           /\ \A h \in DOMAIN resp[k][j] : ~IsGrant(resp[k][j][h], current_term[k])
    BY ZenonT(60), <2>0 DEF ElectionInv, AskedOnce
  <2>1. CASE req'[k][j] = req[k][j] /\ resp'[k][j] = resp[k][j]
    BY ZenonT(60), <2>0, <2>a, <2>1
  <2>2. CASE /\ k = n /\ j = m
             /\ src.queue = req[n][m] /\ req'[n][m] = Tail(req[n][m])
    <3>1. \A h \in DOMAIN req'[k][j] : /\ h \in Nat /\ h >= 1 /\ h + 1 \in DOMAIN req[k][j]
                                       /\ req'[k][j][h] = req[k][j][h + 1]
      BY ZenonT(60), <1>17, <2>2
    <3>2. Asks(i + 1) /\ i + 1 \in DOMAIN req[k][j]
      BY ZenonT(60), <2>0, <3>1
    <3>3. ~Asks(1)
      <4>1. 1 \in DOMAIN req[k][j]
        BY ZenonT(60), <1>17, <2>2
      <4>2. Asks(1) => i + 1 = 1
        BY ZenonT(60), <2>a, <3>2, <4>1
      <4>3. i \in Nat /\ i >= 1
        BY ZenonT(60), <3>1
      <4> QED BY SMTT(90), <4>2, <4>3
    <3>4. v.term # current_term[k]
      BY ZenonT(60), <1>1, <1>17, <2>2, <3>3 DEF IsRequestVote
    <3>5. \A h \in DOMAIN req'[k][j] :
            IsRequestVote(req'[k][j][h], current_term'[k]) => h = i
      <4> SUFFICES ASSUME NEW h \in DOMAIN req'[k][j],
                          IsRequestVote(req'[k][j][h], current_term'[k])
                   PROVE  h = i
        BY ZenonT(60)
      <4>1. Asks(h + 1) /\ h + 1 \in DOMAIN req[k][j]
        BY ZenonT(60), <2>0, <3>1
      <4>2. h + 1 = i + 1
        BY ZenonT(60), <2>a, <3>2, <4>1
      <4>3. h \in Nat /\ i \in Nat
        BY ZenonT(60), <3>1
      <4> QED BY SMTT(90), <4>2, <4>3
    <3>6. \A h \in DOMAIN resp'[k][j] : ~IsGrant(resp'[k][j][h], current_term'[k])
      <4>1. current_term'[k] \in Term
        BY ZenonT(60), <1>0
      <4> QED BY ZenonT(60), <1>19, <2>0, <2>a, <3>2, <3>4, <4>1
    <3> QED BY ZenonT(60), <2>0, <2>a, <3>2, <3>5, <3>6
  <2> QED BY ZenonT(60), <1>7, <2>1, <2>2
<1>22. GrantedOnce'
  <2> SUFFICES ASSUME NEW k \in Node, NEW j \in Node, state'[k] # FOLLOWER,
                      NEW i \in DOMAIN resp'[k][j],
                      IsGrant(resp'[k][j][i], current_term'[k])
               PROVE  /\ j \notin counted'[k]
                      /\ \A h \in DOMAIN resp'[k][j] :
                           IsGrant(resp'[k][j][h], current_term'[k]) => h = i
    BY ZenonT(60) DEF GrantedOnce, IsGrant
  <2>0. /\ state[k] # FOLLOWER /\ current_term'[k] = current_term[k] /\ counted' = counted
        /\ current_term[k] \in Term
    BY ZenonT(60), <1>0, <1>2, <1>10
  <2>1. \A g \in DOMAIN resp[k][j] : IsGrant(resp[k][j][g], current_term[k]) =>
           /\ j \notin counted[k]
           /\ \A h \in DOMAIN resp[k][j] : IsGrant(resp[k][j][h], current_term[k]) => h = g
    BY ZenonT(60), <2>0 DEF ElectionInv, GrantedOnce
  <2> DEFINE New(h) == /\ k = n /\ j = m /\ h = Len(resp[n][m]) + 1
                       /\ src.queue = req[n][m] /\ v.term = current_term[k]
             Old(h) == /\ h \in DOMAIN resp[k][j]
                       /\ IsGrant(resp[k][j][h], current_term[k])
  <2>2. \A h \in DOMAIN resp'[k][j] :
           IsGrant(resp'[k][j][h], current_term'[k]) => Old(h) \/ New(h)
    <3> SUFFICES ASSUME NEW h \in DOMAIN resp'[k][j], IsGrant(resp'[k][j][h], current_term[k])
                 PROVE  Old(h) \/ New(h)
      BY ZenonT(60), <2>0
    <3> QED BY ZenonT(60), <1>19, <2>0
  <2>3. ASSUME NEW h, New(h) PROVE j \notin counted[k] /\ \A g : ~Old(g)
    <3>1. 1 \in DOMAIN req[k][j] /\ IsRequestVote(req[k][j][1], current_term[k])
      BY ZenonT(60), <1>1, <1>17, <2>3 DEF IsRequestVote
    <3> QED BY ZenonT(60), <2>0, <3>1 DEF ElectionInv, AskedOnce
  <2> QED BY ZenonT(60), <2>0, <2>1, <2>2, <2>3
<1> QED BY ZenonT(60), <1>7, <1>12, <1>13, <1>14, <1>15, <1>16, <1>18, <1>20, <1>21, <1>22
        DEF ElectionInv
============================================================================
