-------------------------- MODULE PrezOfficeProofs --------------------------
(***************************************************************************)
(* What replication guarantees as long as only one node has ever taken     *)
(* office: all logs are beginnings of that node's log, and all nodes run   *)
(* the same commands.  Links may be lost, fsync may fail, every node may   *)
(* restart, and the own match_index may read as any number.                *)
(***************************************************************************)
EXTENDS PrezTypeProofs

----------------------------------------------------------------------------
(* Lists whose entries carry their positions.                              *)
InPlace(l) == \A p \in 1..Len(l) : l[p].index = p

(* getLogNode finds the position it is asked for, up to the last.          *)
LEMMA GetLogNodeUpTo ==
  ASSUME NEW S, NEW l \in Seq(S), NEW i \in Int, i <= Len(l)
  PROVE  getLogNode(l, i) = IF i \in 1..Len(l) THEN i ELSE 0
<1>1. Len(l) \in Nat
  BY LenProperties
<1>2. i - 1 - Len(l) < 0 /\ Len(l) + (i - 1 - Len(l)) + 1 = i
  BY <1>1
<1> QED BY SMTT(90), <1>1, <1>2 DEF getLogNode, listIndex

(* So it finds every position there is.                                    *)
LEMMA GetLogNodeAt ==
  ASSUME NEW S, NEW l \in Seq(S), NEW i \in 1..Len(l)
  PROVE  getLogNode(l, i) = i
<1>1. Len(l) \in Nat
  BY LenProperties
<1> QED BY SMTT(90), <1>1, GetLogNodeUpTo

(* The last index is the length.                                           *)
LEMMA LastInPlace ==
  ASSUME NEW S, NEW l \in Seq(S), InPlace(l)
  PROVE  logCurrentIndex(l) = Len(l)
<1>1. CASE l = <<>>
  BY SMTT(90), <1>1 DEF logCurrentIndex
<1>2. CASE l # <<>>
  <2>1. Len(l) \in 1..Len(l)
    BY SMTT(90), <1>2, EmptySeq
  <2> QED BY SMTT(90), <1>2, <2>1 DEF logCurrentIndex, InPlace
<1> QED BY SMTT(90), <1>1, <1>2

(* The entry with the next index is appended, although getLogNode wraps    *)
(* around to the head of the list when it looks for it.                    *)
LEMMA WriteNext ==
  ASSUME NEW S, NEW l \in Seq(S), InPlace(l), NEW e \in S, e.index = Len(l) + 1
  PROVE  logWriteEntry(l, e) = Append(l, e)
<1>0. Len(l) \in Nat
  BY LenProperties
<1>1. getLogNode(l, e.index) = IF 1 <= Len(l) THEN 1 ELSE 0
  BY SMTT(90), <1>0 DEF getLogNode, listIndex
<1>2. getLogNode(l, e.index) # 0 => l[getLogNode(l, e.index)].index # e.index
  BY SMTT(90), <1>0, <1>1 DEF InPlace
<1> QED BY ZenonT(60), <1>2 DEF logWriteEntry

(* A list and what Append makes of it.                                     *)
LEMMA PrefixAppend ==
  ASSUME NEW S, NEW l \in Seq(S), NEW e \in S
  PROVE  Prefix(l, Append(l, e))
<1>1. /\ Len(l) \in Nat /\ Len(Append(l, e)) = Len(l) + 1
      /\ \A i \in 1..Len(l) : Append(l, e)[i] = l[i]
  BY SMTT(90), LenProperties, AppendProperties
<1> QED BY <1>1 DEF Prefix

(* Beginnings of beginnings.                                               *)
LEMMA PrefixTrans ==
  ASSUME NEW S, NEW a \in Seq(S), NEW b \in Seq(S), NEW c \in Seq(S),
         Prefix(a, b), Prefix(b, c)
  PROVE  Prefix(a, c)
<1>1. Len(a) \in Nat /\ Len(b) \in Nat /\ Len(c) \in Nat
  BY SMTT(90), LenProperties
<1> QED BY SMTT(90), <1>1 DEF Prefix

(* A list is a beginning of itself, and equal to one that is a beginning   *)
(* of it and of which it is a beginning.                                   *)
LEMMA PrefixSame ==
  ASSUME NEW S, NEW a \in Seq(S)
  PROVE  /\ Prefix(a, a)
         /\ \A b \in Seq(S) : Prefix(a, b) /\ Prefix(b, a) => b = a
<1>1. Len(a) \in Nat /\ \A b \in Seq(S) : Len(b) \in Nat
  BY SMTT(90), LenProperties
<1>2. Prefix(a, a)
  BY SMTT(90), <1>1 DEF Prefix
<1>3. ASSUME NEW b \in Seq(S), Prefix(a, b), Prefix(b, a) PROVE b = a
  <2>1. Len(a) = Len(b) /\ \A i \in 1..Len(a) : a[i] = b[i]
    BY SMTT(90), <1>1, <1>3 DEF Prefix
  <2> QED BY SMTT(90), <2>1, SeqEqual
<1> QED BY SMTT(90), <1>2, <1>3

(* Writing an entry of a longer list in its place to a beginning of that   *)
(* list, which it may already be in, leaves a beginning of that list.      *)
LEMMA WritePrefix ==
  ASSUME NEW S, NEW l \in Seq(S), NEW whole \in Seq(S), InPlace(whole),
         Prefix(l, whole), NEW i \in 1..Len(whole), i <= Len(l) + 1
  PROVE  /\ logWriteEntry(l, whole[i]) \in Seq(S)
         /\ Prefix(logWriteEntry(l, whole[i]), whole)
         /\ Prefix(l, logWriteEntry(l, whole[i]))
         /\ Len(logWriteEntry(l, whole[i])) >= i
<1> DEFINE e == whole[i]
<1>0. /\ Len(l) \in Nat /\ Len(whole) \in Nat /\ i \in Nat /\ Len(l) <= Len(whole)
      /\ \A p \in 1..Len(l) : l[p] = whole[p]
      /\ e \in S /\ e.index = i
  BY SMTT(90), LenProperties DEF Prefix, InPlace
<1>1. CASE i <= Len(l)
  <2>1. i \in 1..Len(l)
    BY SMTT(90), <1>0, <1>1
  <2>2. getLogNode(l, e.index) = i /\ l[i] = e
    BY ZenonT(60), <1>0, <2>1, GetLogNodeAt
  <2>3. i # 0
    BY SMTT(90), <2>1
  <2>4. logWriteEntry(l, e) = l
    BY ZenonT(60), <1>0, <2>2, <2>3 DEF logWriteEntry
  <2> QED BY ZenonT(60), <1>0, <1>1, <2>4, PrefixSame
<1>2. CASE i = Len(l) + 1
  <2>1. InPlace(l)
    BY SMTT(90), <1>0 DEF InPlace
  <2>2. logWriteEntry(l, e) = Append(l, e)
    BY ZenonT(60), <1>0, <1>2, <2>1, WriteNext
  <2>3. /\ Append(l, e) \in Seq(S) /\ Len(Append(l, e)) = Len(l) + 1
        /\ \A p \in 1..Len(l) : Append(l, e)[p] = l[p]
        /\ Append(l, e)[Len(l) + 1] = e
    BY SMTT(90), <1>0, AppendProperties
  <2>4. Prefix(Append(l, e), whole)
    BY SMTT(90), <1>0, <1>2, <2>3 DEF Prefix
  <2>5. Prefix(l, Append(l, e))
    BY ZenonT(60), <1>0, PrefixAppend
  <2> QED BY ZenonT(60), <1>0, <1>2, <2>2, <2>3, <2>4, <2>5
<1> QED BY SMTT(90), <1>0, <1>1, <1>2

(* A batch copied from a list, written to a beginning of that list that    *)
(* reaches the entry before the batch, leaves a longer beginning of it.    *)
LEMMA AppendEntriesPrefix ==
  ASSUME NEW S, NEW l \in Seq(S), NEW whole \in Seq(S), InPlace(whole),
         Prefix(l, whole), NEW entries \in Seq(S), NEW prev \in 0..Len(l),
         \A h \in 1..Len(entries) : /\ prev + h \in 1..Len(whole)
                                    /\ entries[h] = whole[prev + h]
  PROVE  /\ logAppendEntries(l, entries) \in Seq(S)
         /\ Prefix(logAppendEntries(l, entries), whole)
         /\ Prefix(l, logAppendEntries(l, entries))
<1> DEFINE N == Len(entries)
<1>1. N \in Nat /\ Len(l) \in Nat /\ prev \in Nat /\ prev <= Len(l)
  BY SMTT(90), LenProperties
<1>0. PICK f : WrittenBy(f, l, entries)
  BY ZenonT(60), <1>1, AppendEntriesUnfold
<1>2. /\ f[0] = l
      /\ \A k \in 1..N : f[k] = logWriteEntry(f[k - 1], entries[k])
      /\ logAppendEntries(l, entries) = f[N]
  BY SMTT(30), <1>0 DEF WrittenBy
<1> DEFINE Good(k) == /\ f[k] \in Seq(S) /\ Prefix(f[k], whole) /\ Prefix(l, f[k])
                      /\ Len(f[k]) >= prev + k
           Bad == {k \in 0..N : ~Good(k)}
<1>3. Good(0)
  BY SMTT(90), <1>1, <1>2, PrefixSame
<1>4. ASSUME NEW k \in 1..N, Good(k - 1) PROVE Good(k)
  <2> DEFINE g == f[k - 1]
             i == prev + k
  <2>1. /\ i \in 1..Len(whole) /\ entries[k] = whole[i]
        /\ f[k] = logWriteEntry(g, whole[i])
    BY ZenonT(60), <1>2
  <2>2. g \in Seq(S) /\ Prefix(g, whole) /\ Prefix(l, g) /\ Len(g) >= prev + (k - 1)
    BY SMTT(90), <1>4
  <2>3. i <= Len(g) + 1
    <3>1. Len(g) \in Nat
      BY ZenonT(60), <2>2, LenProperties
    <3> HIDE DEF g
    <3> QED BY SMTT(90), <1>1, <2>2, <3>1
  <2> HIDE DEF g, i
  <2>4. /\ f[k] \in Seq(S) /\ Prefix(f[k], whole) /\ Prefix(g, f[k])
        /\ Len(f[k]) >= i
    BY ZenonT(60), <2>1, <2>2, <2>3, WritePrefix
  <2>5. Prefix(l, f[k])
    BY ZenonT(60), <2>2, <2>4, PrefixTrans
  <2> QED BY ZenonT(60), <2>4, <2>5 DEF i
<1> HIDE DEF Good
<1>5. Bad = {}
  <2>1. SUFFICES ASSUME Bad # {} PROVE FALSE
    OBVIOUS
  <2>2. PICK k \in Bad : \A y \in Bad : k <= y
    <3>1. Bad \in SUBSET Nat
      OBVIOUS
    <3> HIDE DEF Bad
    <3> QED BY ZenonT(60), <2>1, <3>1, NatMin
  <2>3. k # 0
    BY <1>3
  <2>4. k \in 1..N /\ k - 1 \in 0..N /\ k - 1 \notin Bad
    BY SMTT(90), <1>1, <2>2, <2>3
  <2>5. Good(k)
    BY ZenonT(60), <1>4, <2>4
  <2> QED BY SMTT(90), <2>5
<1>6. Good(N)
  BY SMTT(90), <1>1, <1>5
<1> QED BY ZenonT(60), <1>2, <1>6 DEF Good

----------------------------------------------------------------------------
(* The quorumSize-th largest match_index is no larger than that of some    *)
(* other node, whatever the own, uninitialised one is: a quorum has more   *)
(* than one member.                                                        *)
LEMMA QuorumMatchPeer ==
  ASSUME NEW match \in [Node -> Int], NEW n \in Node
  PROVE  \E m \in Peers(n) : QuorumMatch(match) <= match[m]
<1>1. PICK k \in Node : /\ QuorumMatch(match) = match[k]
                        /\ Cardinality({j \in Node : match[j] >= match[k]}) >= quorumSize
  BY SMTT(90), QuorumMatchReached
<1> DEFINE above == {j \in Node : match[j] >= match[k]}
<1>2. quorumSize \in Nat /\ quorumSize >= 2
  <2>1. Cardinality(Node) \in Nat /\ Cardinality(Node) >= 2
    BY SMTT(90), ClusterAssumption, QuorumFacts DEF ClusterAssumption
  <2> QED BY SMTT(90), <2>1 DEF quorumSize
<1>3. IsFiniteSet({n}) /\ Cardinality({n}) = 1
  BY ZenonT(60), FS_Singleton
<1>4. ~(above \in SUBSET {n})
  <2> SUFFICES ASSUME above \in SUBSET {n} PROVE FALSE
    OBVIOUS
  <2> HIDE DEF above
  <2>1. Cardinality(above) <= 1 /\ IsFiniteSet(above)
    BY SMTT(90), <1>3, FS_Subset
  <2>2. Cardinality(above) \in Nat
    BY ZenonT(60), <2>1, FS_CardinalityType
  <2>3. Cardinality(above) >= quorumSize
    BY SMTT(90), <1>1 DEF above
  <2> QED BY SMTT(90), <1>2, <2>1, <2>2, <2>3
<1>5. PICK m \in above : m # n
  BY SMTT(90), <1>4
<1> QED BY SMTT(90), <1>1, <1>5 DEF Peers

(* The last_sent_entry pointers of a list that has only grown.             *)
LEMMA NothingDangles ==
  ASSUME TypeOK, NEW n \in Node, NEW new \in Seq(Entry), Prefix(log[n], new),
         NEW m \in Node
  PROVE  Dangling(last_sent_entry[n], log[n], new)[m] = last_sent_entry[n][m]
<1> DEFINE p == last_sent_entry[n][m]
           l == log[n]
<1>0. /\ l \in Seq(Entry) /\ Len(l) \in Nat /\ Len(new) \in Nat
      /\ Len(l) <= Len(new) /\ \A i \in 1..Len(l) : l[i] = new[i]
  BY ZenonT(60), LogTypes, LenProperties DEF Prefix
<1>1. p \in Int /\ (p > 0 => p \in 1..Len(l))
  <2>1. p \in {NULL, FREED} \cup 1..Len(l)
    BY ZenonT(60) DEF TypeOK
  <2> HIDE DEF p, l
  <2> QED BY SMTT(90), <1>0, <2>1 DEF NULL, FREED
<1>2. p > 0 => StillListed(l, new, p)
  <2> SUFFICES ASSUME p > 0 PROVE StillListed(l, new, p)
    OBVIOUS
  <2> HIDE DEF p, l
  <2>1. /\ \A i \in 1..p : l[i] \in Entry /\ new[i] \in Entry
        /\ \A i \in 1..p : l[i] = new[i]
    BY SMTT(90), <1>0, <1>1
  <2>2. /\ SubSeq(l, 1, p) \in Seq(Entry) /\ SubSeq(new, 1, p) \in Seq(Entry)
        /\ Len(SubSeq(l, 1, p)) = p /\ Len(SubSeq(new, 1, p)) = p
        /\ \A i \in 1..p : SubSeq(l, 1, p)[i] = l[i] /\ SubSeq(new, 1, p)[i] = new[i]
    <3>1. 1 \in Int /\ p \in Int
      BY SMTT(90), <1>1
    <3>2. /\ SubSeq(l, 1, p) \in Seq(Entry)
          /\ Len(SubSeq(l, 1, p)) = IF 1 <= p THEN p - 1 + 1 ELSE 0
          /\ \A i \in 1 .. p - 1 + 1 : SubSeq(l, 1, p)[i] = l[1 + i - 1]
      BY SMTT(90), <2>1, <3>1, SubSeqProperties
    <3>3. /\ SubSeq(new, 1, p) \in Seq(Entry)
          /\ Len(SubSeq(new, 1, p)) = IF 1 <= p THEN p - 1 + 1 ELSE 0
          /\ \A i \in 1 .. p - 1 + 1 : SubSeq(new, 1, p)[i] = new[1 + i - 1]
      BY SMTT(90), <2>1, <3>1, SubSeqProperties
    <3> QED BY SMTT(90), <1>1, <3>2, <3>3
  <2>3. SubSeq(l, 1, p) = SubSeq(new, 1, p)
    BY SMTT(90), <2>1, <2>2, SeqEqual
  <2> QED BY SMTT(90), <1>0, <1>1, <2>3 DEF StillListed
<1> QED BY ZenonT(60), <1>2 DEF Dangling

----------------------------------------------------------------------------
(* No log loses an entry.                                                  *)
Grows == \A k \in Node : Prefix(log[k], log'[k])

(* The sender of an AppendEntries has been in office.                      *)
LEMMA SenderElected ==
  ASSUME AppendsFromElected, NEW n \in Node, NEW m \in Node,
         NEW x \in Packets(n, m), x.type = "AppendEntries"
  PROVE  n \in elected[x.term]
<1>1. PICK q \in {req[n][m]} \cup stale[n][m] : \E i \in DOMAIN q : q[i] = x
  BY SMTT(90), PacketsElements
<1> QED BY ZenonT(60), <1>1 DEF AppendsFromElected

(* A batch extends the log of its receiver by entries of its sender's log, *)
(* and leaves every log a beginning of the latter.                         *)
LEMMA AppendGrows ==
  ASSUME TypeOK, AppendsFromElected, FollowInv, NEW n \in Node, NEW m \in Node,
         NEW src \in Sources(n, m), NEW synced,
         clusterProcessAppendEntries(n, m, src, synced)
  PROVE  /\ Grows
         /\ \E t \in Term : n \in elected[t]
         /\ \A k \in Node : log'[k] \in Seq(Entry) /\ Prefix(log'[k], log[n])
<1>0. /\ log \in [Node -> Seq(Entry)] /\ log[m] \in Seq(Entry) /\ log[n] \in Seq(Entry)
      /\ Len(log[m]) \in Nat
  BY ZenonT(60), LenProperties DEF TypeOK
<1>1. PICK a \in Packets(n, m) :
        /\ a.type = "AppendEntries"
        /\ \/ log' = log
           \/ /\ a.term >= current_term[m]
              /\ logVerifyAppend(log[m], a.prev_log_index, a.prev_log_term)
              /\ log' = [log EXCEPT ![m] = logAppendEntries(log[m], a.log_entries)]
  BY ZenonT(60), AppendLog
<1>2. a.log_entries \in Seq(Entry) /\ a.term \in Term /\ a.prev_log_index \in Int
  <2>1. a \in Request
    BY SMTT(90), PacketsTypes
  <2> QED BY ZenonT(60), <1>1, <2>1 DEF Request, RequestVote, AppendEntries
<1>3. n \in elected[a.term]
  BY ZenonT(60), <1>1, SenderElected
<1>4. \A k \in Node : Prefix(log[k], log[n])
  BY ZenonT(60), <1>2, <1>3 DEF FollowInv, BehindLeader
<1>5. InPlace(log[n])
  BY ZenonT(60) DEF FollowInv, PositionIsIndex, InPlace
<1>6. CASE log' = log
  <2>1. \A k \in Node : log[k] \in Seq(Entry) /\ Prefix(log[k], log[k])
    BY ZenonT(60), <1>0, PrefixSame
  <2> QED BY ZenonT(60), <1>2, <1>3, <1>4, <1>6, <2>1 DEF Grows
<1>7. CASE /\ logVerifyAppend(log[m], a.prev_log_index, a.prev_log_term)
           /\ log' = [log EXCEPT ![m] = logAppendEntries(log[m], a.log_entries)]
  <2> DEFINE new == logAppendEntries(log[m], a.log_entries)
             prev == a.prev_log_index
  <2>1. prev \in 0..Len(log[m])
    BY SMTT(90), <1>0, <1>2, <1>7 DEF logVerifyAppend
  <2>2. \A h \in 1..Len(a.log_entries) : /\ prev + h \in 1..Len(log[n])
                                         /\ a.log_entries[h] = log[n][prev + h]
    BY ZenonT(60), <1>1 DEF FollowInv, AppendsCopied
  <2>3. Prefix(log[m], log[n])
    BY ZenonT(60), <1>4
  <2>4. new \in Seq(Entry) /\ Prefix(new, log[n]) /\ Prefix(log[m], new)
    <3> HIDE DEF prev
    <3> QED BY ZenonT(60), <1>0, <1>2, <1>5, <2>1, <2>2, <2>3, AppendEntriesPrefix
  <2> HIDE DEF new
  <2>5. ASSUME NEW k \in Node
        PROVE  /\ log'[k] \in Seq(Entry) /\ Prefix(log'[k], log[n])
               /\ Prefix(log[k], log'[k])
    <3>1. CASE k = m
      <4>1. log'[k] = new
        BY ZenonT(60), <1>0, <1>7, <3>1 DEF new
      <4> QED BY ZenonT(60), <2>4, <3>1, <4>1
    <3>2. CASE k # m
      <4>1. log'[k] = log[k] /\ log[k] \in Seq(Entry)
        BY ZenonT(60), <1>0, <1>7, <3>2
      <4>2. Prefix(log[k], log[k])
        BY ZenonT(60), <4>1, PrefixSame
      <4> QED BY ZenonT(60), <1>4, <4>1, <4>2
    <3> QED BY ZenonT(60), <3>1, <3>2
  <2> QED BY ZenonT(60), <1>2, <1>3, <2>5 DEF Grows
<1> QED BY ZenonT(60), <1>1, <1>6, <1>7

(* The write of a client extends the log of the leader by one entry.       *)
LEMMA CommandGrows ==
  ASSUME TypeOK, InOffice, FollowInv, NEW n \in Node, NEW cmd \in Cmd,
         clusterProcessCommand(n, cmd)
  PROVE  /\ n \in elected[current_term[n]]
         /\ NewEntry(n, cmd) \in Entry
         /\ NewEntry(n, cmd).index = Len(log[n]) + 1
         /\ log' = [log EXCEPT ![n] = Append(log[n], NewEntry(n, cmd))]
         /\ Grows
<1> DEFINE e == NewEntry(n, cmd)
<1>0. /\ log \in [Node -> Seq(Entry)] /\ log[n] \in Seq(Entry) /\ Len(log[n]) \in Nat
      /\ current_term[n] \in Term
  BY ZenonT(60), LenProperties DEF TypeOK
<1>1. InPlace(log[n])
  BY ZenonT(60) DEF FollowInv, PositionIsIndex, InPlace
<1>2. logCurrentIndex(log[n]) = Len(log[n])
  BY ZenonT(60), <1>0, <1>1, LastInPlace
<1>3. e \in Entry /\ e.index = Len(log[n]) + 1
  BY SMTT(90), <1>0, <1>2 DEF NewEntry, Entry
<1>4. log' = [log EXCEPT ![n] = logWriteEntry(log[n], e)]
  BY ZenonT(60), <1>0 DEF clusterProcessCommand
<1> HIDE DEF e
<1>5. logWriteEntry(log[n], e) = Append(log[n], e)
  BY ZenonT(60), <1>0, <1>1, <1>3, WriteNext
<1>6. Prefix(log[n], Append(log[n], e))
  BY ZenonT(60), <1>0, <1>3, PrefixAppend
<1>7. Grows
  <2> SUFFICES ASSUME NEW k \in Node PROVE Prefix(log[k], log'[k])
    BY DEF Grows
  <2>1. CASE k = n
    <3>1. log'[k] = Append(log[n], e)
      BY ZenonT(60), <1>0, <1>4, <1>5, <2>1
    <3> QED BY ZenonT(60), <1>6, <2>1, <3>1
  <2>2. CASE k # n
    <3>1. log'[k] = log[k] /\ log[k] \in Seq(Entry)
      BY ZenonT(60), <1>0, <1>4, <2>2
    <3> QED BY ZenonT(60), <3>1, PrefixSame
  <2> QED BY SMTT(90), <2>1, <2>2
<1>8. n \in elected[current_term[n]]
  BY ZenonT(60) DEF clusterProcessCommand, InOffice
<1> QED BY ZenonT(60), <1>3, <1>4, <1>5, <1>7, <1>8 DEF e

(* Who is elected after a step in which one node is still the only one     *)
(* that ever was: no other, and nobody had an entry before the first.      *)
LEMMA OneOfficeBefore ==
  ASSUME TypeOK, [Next]_vars, OneOffice'
  PROVE  OneOffice
<1>1. \A t \in Term : elected[t] \subseteq elected'[t]
  BY ElectedGrows
<1> QED BY ZenonT(60), <1>1 DEF OneOffice

(* Every step extends the logs in place and behind the node in office.     *)
LEMMA LogStep ==
  ASSUME TypeOK, TypeOK', OfficeInv, OneOffice', [Next]_vars
  PROVE  Grows /\ PositionIsIndex' /\ BehindLeader'
<1>0. /\ log \in [Node -> Seq(Entry)] /\ log' \in [Node -> Seq(Entry)]
      /\ \A k \in Node : log[k] \in Seq(Entry) /\ log'[k] \in Seq(Entry)
      /\ elected \in [Term -> SUBSET Node] /\ elected' \in [Term -> SUBSET Node]
      /\ \A k \in Node : current_term[k] \in Term
  BY ZenonT(60) DEF TypeOK
<1>1. InOffice /\ AppendsFromElected /\ FollowInv
  BY ZenonT(60), OneOfficeBefore DEF OfficeInv
<1>2. \A t \in Term : elected[t] \subseteq elected'[t]
  BY SMTT(90), ElectedGrows
<1>3. ASSUME NEW t \in Term, NEW n \in elected[t], NEW u \in Term, NEW a \in elected'[u]
      PROVE  a = n
  BY ZenonT(60), <1>2, <1>3 DEF OneOffice
<1>4. CASE log' = log
  <2>1. Grows
    BY ZenonT(60), <1>0, <1>4, PrefixSame DEF Grows
  <2>2. PositionIsIndex'
    BY ZenonT(60), <1>1, <1>4 DEF FollowInv, PositionIsIndex
  <2>3. ASSUME NEW u \in Term, NEW a \in elected'[u], NEW k \in Node
        PROVE  Prefix(log[k], log[a])
    <3>1. CASE \E t \in Term : elected[t] # {}
      <4>1. PICK t \in Term : \E n : n \in elected[t]
        BY SMTT(90), <3>1
      <4>2. a \in elected[t]
        BY ZenonT(60), <1>3, <4>1
      <4> QED BY ZenonT(60), <1>1, <4>2 DEF FollowInv, BehindLeader
    <3>2. CASE ~ \E t \in Term : elected[t] # {}
      <4>1. log[k] = <<>> /\ a \in Node
        BY ZenonT(60), <1>0, <1>1, <3>2 DEF FollowInv, BehindLeader
      <4>2. Len(log[a]) \in Nat
        BY ZenonT(60), <1>0, <4>1, LenProperties
      <4> QED BY SMTT(90), <4>1, <4>2 DEF Prefix
    <3> QED BY ZenonT(60), <3>1, <3>2
  <2>4. ASSUME NEW k \in Node, log[k] # <<>> PROVE \E t \in Term : elected'[t] # {}
    <3>1. PICK t \in Term : elected[t] # {}
      BY ZenonT(60), <1>1, <2>4 DEF FollowInv, BehindLeader
    <3> QED BY ZenonT(60), <1>2, <3>1
  <2> QED BY ZenonT(60), <1>4, <2>1, <2>2, <2>3, <2>4 DEF BehindLeader
<1>5. ASSUME NEW n \in Node, Grows, NEW t \in Term, n \in elected[t], InPlace(log'[n]),
             \A k \in Node : Prefix(log'[k], log'[n])
      PROVE  PositionIsIndex' /\ BehindLeader'
  <2>1. ASSUME NEW k \in Node, NEW p \in 1..Len(log'[k]) PROVE log'[k][p].index = p
    <3>1. Prefix(log'[k], log'[n])
      BY SMTT(90), <1>5
    <3>2. Len(log'[k]) \in Nat /\ Len(log'[n]) \in Nat
      BY ZenonT(60), <1>0, LenProperties
    <3>3. p \in 1..Len(log'[n]) /\ log'[k][p] = log'[n][p]
      BY SMTT(90), <3>1, <3>2 DEF Prefix
    <3> QED BY ZenonT(60), <1>5, <3>3 DEF InPlace
  <2>2. PositionIsIndex'
    BY ZenonT(60), <2>1 DEF PositionIsIndex
  <2>3. \A u \in Term : \A a \in elected'[u] : a = n
    BY ZenonT(60), <1>3, <1>5
  <2>4. elected'[t] # {}
    BY ZenonT(60), <1>2, <1>5
  <2> QED BY ZenonT(60), <1>5, <2>2, <2>3, <2>4 DEF BehindLeader
<1>6. ASSUME NEW n \in Node, NEW m \in Node, NEW src \in Sources(n, m), NEW synced,
             clusterProcessAppendEntries(n, m, src, synced)
      PROVE  Grows /\ PositionIsIndex' /\ BehindLeader'
  <2>1. /\ Grows /\ \E t \in Term : n \in elected[t]
        /\ \A k \in Node : log'[k] \in Seq(Entry) /\ Prefix(log'[k], log[n])
    BY ZenonT(60), <1>1, <1>6, AppendGrows
  <2>2. log'[n] = log[n]
    <3>1. Prefix(log'[n], log[n]) /\ Prefix(log[n], log'[n])
      BY ZenonT(60), <2>1 DEF Grows
    <3> QED BY ZenonT(60), <1>0, <3>1, PrefixSame
  <2>3. InPlace(log'[n])
    BY ZenonT(60), <1>1, <2>2 DEF FollowInv, PositionIsIndex, InPlace
  <2> QED BY ZenonT(60), <1>5, <2>1, <2>2, <2>3
<1>7. ASSUME NEW n \in Node, NEW cmd \in Cmd, clusterProcessCommand(n, cmd)
      PROVE  Grows /\ PositionIsIndex' /\ BehindLeader'
  <2> DEFINE e == NewEntry(n, cmd)
  <2>1. /\ n \in elected[current_term[n]] /\ e \in Entry /\ e.index = Len(log[n]) + 1
        /\ log' = [log EXCEPT ![n] = Append(log[n], e)] /\ Grows
    BY ZenonT(60), <1>1, <1>7, CommandGrows
  <2> HIDE DEF e
  <2>2. log'[n] = Append(log[n], e)
    BY ZenonT(60), <1>0, <2>1
  <2>3. InPlace(log'[n])
    <3>1. /\ Len(log[n]) \in Nat /\ Len(log'[n]) = Len(log[n]) + 1
          /\ \A p \in 1..Len(log[n]) : log'[n][p] = log[n][p]
          /\ log'[n][Len(log[n]) + 1] = e
      BY SMTT(90), <1>0, <2>1, <2>2, AppendProperties, LenProperties
    <3>2. \A p \in 1..Len(log[n]) : log[n][p].index = p
      BY ZenonT(60), <1>1 DEF FollowInv, PositionIsIndex
    <3> QED BY SMTT(90), <2>1, <3>1, <3>2 DEF InPlace
  <2>4. ASSUME NEW k \in Node PROVE Prefix(log'[k], log'[n])
    <3>1. CASE k = n
      BY ZenonT(60), <1>0, <3>1, PrefixSame
    <3>2. CASE k # n
      <4>1. log'[k] = log[k]
        BY ZenonT(60), <1>0, <2>1, <3>2
      <4>2. Prefix(log[k], log[n])
        BY ZenonT(60), <1>0, <1>1, <2>1 DEF FollowInv, BehindLeader
      <4>3. Prefix(log[n], log'[n])
        BY SMTT(90), <2>1 DEF Grows
      <4> QED BY ZenonT(60), <1>0, <4>1, <4>2, <4>3, PrefixTrans
    <3> QED BY ZenonT(60), <3>1, <3>2
  <2> QED BY ZenonT(60), <1>0, <1>5, <2>1, <2>3, <2>4
<1> QED BY ZenonT(60), <1>4, <1>6, <1>7, LogChanges

(* Leaders and senders of AppendEntries have been elected, after a restart *)
(* as well as before.                                                      *)
LEMMA OfficesKept ==
  ASSUME TypeOK, TypeOK', OfficeInv, [Next]_vars
  PROVE  InOffice' /\ AppendsFromElected'
<1>0. /\ elected \in [Term -> SUBSET Node] /\ elected' \in [Term -> SUBSET Node]
      /\ \A k \in Node : current_term[k] \in Term /\ current_term'[k] \in Term
  BY ZenonT(60) DEF TypeOK
<1>1. \A t \in Term : elected[t] \subseteq elected'[t]
  BY SMTT(90), ElectedGrows
<1>2. ASSUME NEW k \in Node, state'[k] = LEADER PROVE k \in elected'[current_term'[k]]
  <2>1. current_term'[k] = current_term[k] /\ (state[k] = LEADER \/ CronBecomeLeader(k))
    BY ZenonT(60), <1>2, OfficeStep
  <2>2. CASE state[k] = LEADER
    BY ZenonT(60), <1>0, <1>1, <2>1, <2>2 DEF OfficeInv, InOffice
  <2>3. CASE CronBecomeLeader(k)
    BY ZenonT(60), <2>1, <2>3, TakesOffice
  <2> QED BY ZenonT(60), <2>1, <2>2, <2>3
<1>3. ASSUME NEW k \in Node, NEW j \in Node, NEW q \in {req'[k][j]} \cup stale'[k][j],
             NEW i \in DOMAIN q, q[i].type = "AppendEntries"
      PROVE  k \in elected'[q[i].term]
  <2>1. q[i] \in Packets(k, j)'
    BY ZenonT(60), PacketsElements
  <2>2. CASE q[i] \in Packets(k, j)
    <3>1. k \in elected[q[i].term]
      BY ZenonT(60), <1>3, <2>2, SenderElected DEF OfficeInv
    <3>2. q[i].term \in Term
      <4>1. q[i] \in Request
        BY ZenonT(60), <2>2, PacketsTypes
      <4> QED BY ZenonT(60), <4>1 DEF Request, RequestVote, AppendEntries
    <3> QED BY ZenonT(60), <1>1, <3>1, <3>2
  <2>3. CASE FreshAppend(k, q[i])
    BY ZenonT(60), <1>2, <2>3 DEF FreshAppend
  <2> QED BY ZenonT(60), <1>3, <2>1, <2>2, <2>3, NextPackets DEF PacketsKept
<1> QED BY ZenonT(60), <1>2, <1>3 DEF InOffice, AppendsFromElected

(* What is under way stays a copy of its sender's log.                     *)
LEMMA AppendsStayCopied ==
  ASSUME TypeOK, TypeOK', FollowInv, Grows, [Next]_vars
  PROVE  AppendsCopied'
<1> SUFFICES ASSUME NEW k \in Node, NEW j \in Node, NEW x \in Packets(k, j)',
                    x.type = "AppendEntries", NEW h \in 1..Len(x.log_entries)
             PROVE  /\ x.prev_log_index + h \in 1..Len(log'[k])
                    /\ x.log_entries[h] = log'[k][x.prev_log_index + h]
  BY ZenonT(60) DEF AppendsCopied
<1>0. log[k] \in Seq(Entry) /\ Len(log[k]) \in Nat /\ Len(log'[k]) \in Nat
  BY ZenonT(60), LenProperties DEF TypeOK
<1>1. Prefix(log[k], log'[k])
  BY SMTT(90) DEF Grows
<1>2. SUFFICES /\ x.prev_log_index + h \in 1..Len(log[k])
               /\ x.log_entries[h] = log[k][x.prev_log_index + h]
  BY SMTT(90), <1>0, <1>1 DEF Prefix
<1>3. CASE x \in Packets(k, j)
  BY ZenonT(60), <1>3 DEF FollowInv, AppendsCopied
<1>4. CASE FreshAppend(k, x)
  <2>1. PICK next \in Int : /\ x.prev_log_index = next - 1
                            /\ x.log_entries = EntriesFrom(k, next)
    BY ZenonT(60), <1>4 DEF FreshAppend
  <2> DEFINE first == getLogNode(log[k], next)
  <2>2. h \in DOMAIN EntriesFrom(k, next) /\ h \in Nat
    BY SMTT(90), <2>1, EntriesFromTypes, LenProperties
  <2>3. /\ logCurrentIndex(log[k]) >= next /\ first \in 1..Len(log[k])
        /\ first + h - 1 \in 1..Len(log[k])
        /\ EntriesFrom(k, next)[h] = log[k][first + h - 1]
    BY ZenonT(60), <2>2, EntriesFromLog
  <2>4. logCurrentIndex(log[k]) = Len(log[k])
    <3>1. InPlace(log[k])
      BY ZenonT(60) DEF FollowInv, PositionIsIndex, InPlace
    <3> QED BY ZenonT(60), <1>0, <3>1, LastInPlace
  <2>5. first = next
    <3>1. next <= Len(log[k])
      BY ZenonT(60), <2>3, <2>4
    <3>2. first = IF next \in 1..Len(log[k]) THEN next ELSE 0
      BY ZenonT(60), <1>0, <3>1, GetLogNodeUpTo
    <3> HIDE DEF first
    <3> QED BY SMTT(90), <1>0, <2>3, <3>2
  <2>6. x.prev_log_index + h = first + h - 1
    <3> HIDE DEF first
    <3> QED BY SMTT(90), <2>1, <2>2, <2>5
  <2> HIDE DEF first
  <2> QED BY ZenonT(60), <2>1, <2>3, <2>6
<1> QED BY ZenonT(60), <1>3, <1>4, NextPackets DEF PacketsKept

----------------------------------------------------------------------------
(* What a step may do to what a node has committed, acknowledged, run and  *)
(* promised its clients, when no log loses an entry.                       *)
StoreKept ==
    \A k \in Node :
       /\ commit_index'[k] = commit_index[k] \/ commit_index'[k] <= Len(log'[k])
       /\ \A j \in Node : \/ last_sent_entry'[k][j] = last_sent_entry[k][j]
                          \/ last_sent_entry'[k][j] # FREED
       /\ \A j \in Peers(k) : \/ match_index'[k][j] = match_index[k][j]
                              \/ match_index'[k][j] <= Len(log'[k])
       /\ \A i \in 1..MaxLog :
            \/ proc_clients'[k][i] \in {proc_clients[k][i], Nil}
            \/ i <= Len(log'[k]) /\ proc_clients'[k][i] = log'[k][i].cmd
       /\ \A i \in 1..Len(applied'[k]) :
            \/ i <= Len(applied[k]) /\ applied'[k][i] = applied[k][i]
            \/ /\ i <= Len(log'[k])
               /\ ClientsWait => applied'[k][i] = log'[k][i].cmd

(* That is enough.                                                         *)
LEMMA StoreFollows ==
  ASSUME TypeOK, TypeOK', FollowInv, Grows, StoreKept
  PROVE  WithinLog' /\ ClientsMatch' /\ AppliedFromLog'
<1>0. ASSUME NEW k \in Node
      PROVE  /\ Len(log[k]) \in Nat /\ Len(log'[k]) \in Nat
             /\ Len(applied[k]) \in Nat /\ Len(applied'[k]) \in Nat
             /\ commit_index[k] \in Int
             /\ \A j \in Node : match_index[k][j] \in Int
             /\ Len(log[k]) <= Len(log'[k])
             /\ \A p \in 1..Len(log[k]) : log[k][p] = log'[k][p]
  <2>1. Prefix(log[k], log'[k])
    BY SMTT(90) DEF Grows
  <2>2. /\ log[k] \in Seq(Entry) /\ log'[k] \in Seq(Entry)
        /\ applied[k] \in Seq(Cmd \cup {Nil}) /\ applied'[k] \in Seq(Cmd \cup {Nil})
        /\ commit_index[k] \in Int /\ \A j \in Node : match_index[k][j] \in Int
    BY ZenonT(60) DEF TypeOK
  <2> QED BY ZenonT(60), <2>1, <2>2, LenProperties DEF Prefix
<1>1. WithinLog'
  <2> SUFFICES ASSUME NEW k \in Node
               PROVE  /\ commit_index'[k] <= Len(log'[k])
                      /\ \A j \in Node : last_sent_entry'[k][j] # FREED
                      /\ \A j \in Peers(k) : match_index'[k][j] <= Len(log'[k])
    BY DEF WithinLog
  <2>1. /\ commit_index[k] <= Len(log[k])
        /\ \A j \in Node : last_sent_entry[k][j] # FREED
        /\ \A j \in Peers(k) : match_index[k][j] <= Len(log[k])
    BY ZenonT(60) DEF FollowInv, WithinLog
  <2>2. commit_index'[k] <= Len(log'[k])
    BY SMTT(90), <1>0, <2>1 DEF StoreKept
  <2>3. \A j \in Node : last_sent_entry'[k][j] # FREED
    BY ZenonT(60), <2>1 DEF StoreKept
  <2>4. ASSUME NEW j \in Peers(k) PROVE match_index'[k][j] <= Len(log'[k])
    <3>1. j \in Node
      BY DEF Peers
    <3> QED BY SMTT(90), <1>0, <2>1, <3>1 DEF StoreKept
  <2> QED BY <2>2, <2>3, <2>4
<1>2. ClientsMatch'
  <2> SUFFICES ASSUME NEW k \in Node, NEW i \in 1..MaxLog, proc_clients'[k][i] # Nil
               PROVE  i <= Len(log'[k]) /\ proc_clients'[k][i] = log'[k][i].cmd
    BY DEF ClientsMatch
  <2>1. CASE proc_clients'[k][i] = proc_clients[k][i]
    <3>1. i <= Len(log[k]) /\ proc_clients[k][i] = log[k][i].cmd
      BY ZenonT(60), <2>1 DEF FollowInv, ClientsMatch
    <3>2. i \in 1..Len(log[k]) /\ i <= Len(log'[k])
      BY SMTT(90), <1>0, <3>1
    <3> QED BY ZenonT(60), <1>0, <2>1, <3>1, <3>2
  <2>2. CASE i <= Len(log'[k]) /\ proc_clients'[k][i] = log'[k][i].cmd
    BY SMTT(90), <2>2
  <2> QED BY ZenonT(60), <2>1, <2>2 DEF StoreKept
<1>3. ASSUME NEW k \in Node, NEW i \in 1..Len(applied'[k])
      PROVE  i <= Len(log'[k]) /\ (ClientsWait => applied'[k][i] = log'[k][i].cmd)
  <2>1. CASE i <= Len(applied[k]) /\ applied'[k][i] = applied[k][i]
    <3>1. /\ Len(applied[k]) <= Len(log[k])
          /\ ClientsWait => \A p \in 1..Len(applied[k]) : applied[k][p] = log[k][p].cmd
      BY ZenonT(60) DEF FollowInv, AppliedFromLog
    <3>2. i \in 1..Len(applied[k]) /\ i \in 1..Len(log[k]) /\ i <= Len(log'[k])
      BY SMTT(90), <1>0, <2>1, <3>1
    <3> QED BY ZenonT(60), <1>0, <2>1, <3>1, <3>2
  <2> QED BY ZenonT(60), <2>1 DEF StoreKept
<1>4. AppliedFromLog'
  <2> SUFFICES ASSUME NEW k \in Node
               PROVE  Len(applied'[k]) <= Len(log'[k])
    BY ZenonT(60), <1>3 DEF AppliedFromLog
  <2>1. CASE Len(applied'[k]) = 0
    BY SMTT(90), <1>0, <2>1
  <2>2. CASE Len(applied'[k]) # 0
    <3>1. Len(applied'[k]) \in 1..Len(applied'[k])
      BY SMTT(90), <1>0, <2>2
    <3> QED BY ZenonT(60), <1>3, <3>1
  <2> QED BY ZenonT(60), <2>1, <2>2
<1> QED BY SMTT(90), <1>1, <1>2, <1>4

(* Steps that leave all of it alone.                                       *)
LEMMA QuietStore ==
  ASSUME TypeOK,
         UNCHANGED <<commit_index, applied, proc_clients, match_index, last_sent_entry>>
  PROVE  StoreKept
<1>1. ASSUME NEW k \in Node, NEW i \in 1..Len(applied[k]) PROVE i <= Len(applied[k])
  <2>1. Len(applied[k]) \in Nat
    BY ZenonT(60), LenProperties DEF TypeOK
  <2> QED BY SMTT(90), <2>1
<1> QED BY ZenonT(60), <1>1 DEF StoreKept

(* A follower commits no more than it has.                                 *)
LEMMA AppendStore ==
  ASSUME TypeOK, TypeOK', PositionIsIndex', Grows, NEW n \in Node, NEW m \in Node,
         NEW src \in Sources(n, m), NEW synced,
         clusterProcessAppendEntries(n, m, src, synced)
  PROVE  StoreKept
<1> DEFINE a == Head(src.queue)
           verified == logVerifyAppend(log[m], a.prev_log_index, a.prev_log_term)
           ok == verified /\ synced
           written == IF verified THEN logAppendEntries(log[m], a.log_entries)
                      ELSE log[m]
<1>0. /\ log \in [Node -> Seq(Entry)] /\ commit_index \in [Node -> Int]
      /\ last_sent_entry \in [Node -> [Node -> Int]]
      /\ log'[m] \in Seq(Entry) /\ log[m] \in Seq(Entry)
      /\ Len(log'[m]) \in Nat
  <2>1. /\ log \in [Node -> Seq(Entry)] /\ commit_index \in [Node -> Int]
        /\ last_sent_entry \in [Node -> [Node -> Int]]
        /\ log' \in [Node -> Seq(Entry)]
    BY ZenonT(60) DEF TypeOK
  <2> QED BY ZenonT(60), <2>1, LenProperties
<1>1. a.leader_commit_index \in Int \/ a.type # "AppendEntries"
  <2>1. a \in Request
    BY ZenonT(60), SourceTypes
  <2> QED BY ZenonT(60), <2>1 DEF Request, RequestVote, AppendEntries
<1>2. CASE UNCHANGED <<storeVars, peerVars>>
  <2>1. UNCHANGED <<commit_index, applied, proc_clients, match_index, last_sent_entry>>
    BY ZenonT(60), <1>2 DEF storeVars, peerVars
  <2> QED BY ZenonT(60), <2>1, QuietStore
<1>3. CASE /\ a.type = "AppendEntries" /\ log' = [log EXCEPT ![m] = written]
           /\ last_sent_entry' = [last_sent_entry EXCEPT ![m] =
                                    Dangling(last_sent_entry[m], log[m], written)]
           /\ commit_index' = [commit_index EXCEPT ![m] =
                IF ok THEN logCommitIndex(written, commit_index[m], a.leader_commit_index)
                ELSE commit_index[m]]
           /\ UNCHANGED <<applied, proc_clients, match_index>>
  <2> HIDE DEF a, verified, ok, written
  <2>1. log'[m] = written
    BY ZenonT(60), <1>0, <1>3
  <2>2. logCurrentIndex(written) = Len(written)
    <3>1. InPlace(log'[m])
      BY ZenonT(60) DEF PositionIsIndex, InPlace
    <3> QED BY ZenonT(60), <1>0, <2>1, <3>1, LastInPlace
  <2>3. ASSUME NEW k \in Node
        PROVE  commit_index'[k] = commit_index[k] \/ commit_index'[k] <= Len(log'[k])
    <3>1. CASE k = m
      <4> DEFINE c == logCommitIndex(written, commit_index[m], a.leader_commit_index)
      <4>1. c = commit_index[m] \/ c <= Len(written)
        BY SMTT(90), <1>0, <1>1, <1>3, <2>1, <2>2 DEF logCommitIndex
      <4> HIDE DEF c
      <4>2. commit_index'[m] = c \/ commit_index'[m] = commit_index[m]
        BY ZenonT(60), <1>0, <1>3 DEF c
      <4> QED BY SMTT(90), <2>1, <3>1, <4>1, <4>2
    <3>2. CASE k # m
      BY ZenonT(60), <1>0, <1>3, <3>2
    <3> QED BY SMTT(90), <3>1, <3>2
  <2>4. ASSUME NEW k \in Node, NEW j \in Node
        PROVE  last_sent_entry'[k][j] = last_sent_entry[k][j]
    <3>1. CASE k = m
      <4>1. Prefix(log[m], written) /\ written \in Seq(Entry)
        BY ZenonT(60), <1>0, <2>1 DEF Grows
      <4>2. last_sent_entry'[m] = Dangling(last_sent_entry[m], log[m], written)
        BY ZenonT(60), <1>0, <1>3
      <4> QED BY ZenonT(60), <3>1, <4>1, <4>2, NothingDangles
    <3>2. CASE k # m
      BY ZenonT(60), <1>0, <1>3, <3>2
    <3> QED BY ZenonT(60), <3>1, <3>2
  <2>5. ASSUME NEW k \in Node, NEW i \in 1..Len(applied[k]) PROVE i <= Len(applied[k])
    <3>1. Len(applied[k]) \in Nat
      BY ZenonT(60), LenProperties DEF TypeOK
    <3> QED BY SMTT(90), <3>1
  <2>6. /\ \A k \in Node : applied'[k] = applied[k] /\ match_index'[k] = match_index[k]
        /\ \A k \in Node : proc_clients'[k] = proc_clients[k]
    BY ZenonT(60), <1>3
  <2> QED BY ZenonT(60), <2>3, <2>4, <2>5, <2>6 DEF StoreKept
<1> QED BY ZenonT(60), <1>0, <1>2, <1>3 DEF clusterProcessAppendEntries

(* A positive answer acknowledges an entry of the log.                     *)
LEMMA ResponseStore ==
  ASSUME TypeOK, FollowInv, NEW n \in Node, NEW m \in Node, ProcessResponse(n, m)
  PROVE  StoreKept
<1>0. /\ log' = log /\ UNCHANGED <<commit_index, applied, proc_clients, last_sent_entry>>
      /\ match_index \in [Node -> [Node -> Int]]
  <2>1. match_index \in [Node -> [Node -> Int]]
    BY ZenonT(60) DEF TypeOK
  <2> QED BY ZenonT(60), <2>1 DEF ProcessResponse, clusterProcessResponseVote,
          clusterProcessResponseAppendEntries, storeVars, peerVars
<1>1. CASE match_index' = match_index
  BY ZenonT(60), <1>0, <1>1, QuietStore
<1>2. ASSUME NEW index \in AckedIndices(n, m), last_sent_entry[n][m] # NULL,
             match_index' = [match_index EXCEPT ![n][m] = index]
      PROVE  StoreKept
  <2> DEFINE p == last_sent_entry[n][m]
  <2>1. p \in {NULL, FREED} \cup 1..Len(log[n]) /\ p # FREED
    BY ZenonT(60) DEF TypeOK, FollowInv, WithinLog
  <2>2. p \in 1..Len(log[n])
    BY ZenonT(60), <1>2, <2>1
  <2>3. index = log[n][p].index
    BY ZenonT(60), <1>2, <2>1 DEF AckedIndices
  <2>4. log[n][p].index = p
    BY ZenonT(60), <2>2 DEF FollowInv, PositionIsIndex
  <2> HIDE DEF p
  <2>5. index <= Len(log[n])
    <3>1. Len(log[n]) \in Nat
      BY ZenonT(60), LenProperties DEF TypeOK
    <3> QED BY SMTT(90), <2>2, <2>3, <2>4, <3>1
  <2>6. \A k, j \in Node : \/ match_index'[k][j] = match_index[k][j]
                           \/ match_index'[k][j] <= Len(log'[k])
    BY ZenonT(60), <1>0, <1>2, <2>5
  <2>7. ASSUME NEW k \in Node, NEW i \in 1..Len(applied[k]) PROVE i <= Len(applied[k])
    <3>1. Len(applied[k]) \in Nat
      BY ZenonT(60), LenProperties DEF TypeOK
    <3> QED BY SMTT(90), <3>1
  <2>8. \A k \in Node : \A j \in Peers(k) : j \in Node
    BY SMTT(90) DEF Peers
  <2> QED BY ZenonT(60), <1>0, <2>6, <2>7, <2>8 DEF StoreKept
<1> QED BY ZenonT(60), <1>0, <1>1, <1>2 DEF ProcessResponse, clusterProcessResponseVote,
        clusterProcessResponseAppendEntries, peerVars

(* A client is registered under the entry made for it.                     *)
LEMMA CommandStore ==
  ASSUME TypeOK, InOffice, FollowInv, NEW n \in Node, NEW cmd \in Cmd,
         clusterProcessCommand(n, cmd)
  PROVE  StoreKept
<1> DEFINE e == NewEntry(n, cmd)
<1>0. /\ log \in [Node -> Seq(Entry)] /\ log[n] \in Seq(Entry) /\ Len(log[n]) \in Nat
      /\ last_sent_entry \in [Node -> [Node -> Int]]
      /\ proc_clients \in [Node -> [1..MaxLog -> Cmd \cup {Nil}]]
  <2>1. /\ log \in [Node -> Seq(Entry)]
        /\ last_sent_entry \in [Node -> [Node -> Int]]
        /\ proc_clients \in [Node -> [1..MaxLog -> Cmd \cup {Nil}]]
    BY ZenonT(60) DEF TypeOK
  <2> QED BY ZenonT(60), <2>1, LenProperties
<1>1. /\ e \in Entry /\ e.index = Len(log[n]) + 1 /\ e.cmd = cmd
      /\ log' = [log EXCEPT ![n] = Append(log[n], e)]
      /\ Grows
  <2>1. e.cmd = cmd
    BY ZenonT(60) DEF NewEntry
  <2> QED BY ZenonT(60), <2>1, CommandGrows
<1>2. /\ last_sent_entry' = [last_sent_entry EXCEPT ![n] =
                               Dangling(last_sent_entry[n], log[n], log'[n])]
      /\ proc_clients' = [proc_clients EXCEPT ![n][e.index] =
                            IF proc_clients[n][e.index] = Nil THEN cmd
                            ELSE proc_clients[n][e.index]]
      /\ UNCHANGED <<commit_index, applied, match_index>>
  BY ZenonT(60), <1>0 DEF clusterProcessCommand
<1> HIDE DEF e
<1>3. log'[n] = Append(log[n], e) /\ Prefix(log[n], log'[n])
  BY ZenonT(60), <1>0, <1>1 DEF Grows
<1>4. /\ log'[n] \in Seq(Entry) /\ Len(log'[n]) = Len(log[n]) + 1
      /\ log'[n][Len(log[n]) + 1] = e
  BY SMTT(90), <1>0, <1>1, <1>3, AppendProperties
<1>5. ASSUME NEW k \in Node, NEW j \in Node
      PROVE  last_sent_entry'[k][j] = last_sent_entry[k][j]
  <2>1. CASE k = n
    <3>1. last_sent_entry'[n] = Dangling(last_sent_entry[n], log[n], log'[n])
      BY ZenonT(60), <1>0, <1>2
    <3>2. Dangling(last_sent_entry[n], log[n], log'[n])[j] = last_sent_entry[n][j]
      BY ZenonT(60), <1>3, <1>4, NothingDangles
    <3> QED BY ZenonT(60), <2>1, <3>1, <3>2
  <2>2. CASE k # n
    BY ZenonT(60), <1>0, <1>2, <2>2
  <2> QED BY ZenonT(60), <2>1, <2>2
<1>6. ASSUME NEW k \in Node, NEW i \in 1..MaxLog
      PROVE  \/ proc_clients'[k][i] = proc_clients[k][i]
             \/ i <= Len(log'[k]) /\ proc_clients'[k][i] = log'[k][i].cmd
  <2>1. \/ proc_clients'[k][i] = proc_clients[k][i]
        \/ k = n /\ i = e.index /\ proc_clients'[k][i] = cmd
    BY ZenonT(60), <1>0, <1>2
  <2>2. e.index <= Len(log'[n]) /\ log'[n][e.index].cmd = cmd
    BY SMTT(90), <1>0, <1>1, <1>4
  <2> QED BY ZenonT(60), <2>1, <2>2
<1>7. ASSUME NEW k \in Node, NEW i \in 1..Len(applied[k]) PROVE i <= Len(applied[k])
  <2>1. Len(applied[k]) \in Nat
    BY ZenonT(60), LenProperties DEF TypeOK
  <2> QED BY SMTT(90), <2>1
<1>8. \A k \in Node : /\ applied'[k] = applied[k] /\ match_index'[k] = match_index[k]
                      /\ commit_index'[k] = commit_index[k]
  BY ZenonT(60), <1>2
<1> QED BY ZenonT(60), <1>5, <1>6, <1>7, <1>8 DEF StoreKept

(* Cron runs the commands of the log, in its order, and no further, except *)
(* where it runs a client it holds and clients do not wait.                *)
LEMMA ApplyStore ==
  ASSUME TypeOK, TypeOK', FollowInv, NEW n \in Node, ApplyCommitted(n), NEW k \in Node
  PROVE  /\ \A i \in 1..MaxLog : proc_clients'[k][i] \in {proc_clients[k][i], Nil}
         /\ \A i \in 1..Len(applied'[k]) :
              \/ i <= Len(applied[k]) /\ applied'[k][i] = applied[k][i]
              \/ /\ i \in 1..Len(log[k]) /\ i > Len(applied[k])
                 /\ ClientsWait \/ ~Held(k, i) => applied'[k][i] = log[k][i].cmd
<1> DEFINE done == Len(applied[n])
           todo == done + 1 .. commit_index[n]
           C == Cardinality(todo)
<1>0. /\ applied \in [Node -> Seq(Cmd \cup {Nil})]
      /\ proc_clients \in [Node -> [1..MaxLog -> Cmd \cup {Nil}]]
      /\ log \in [Node -> Seq(Entry)] /\ commit_index \in [Node -> Int]
  BY ZenonT(60) DEF TypeOK
<1>1. /\ log[n] \in Seq(Entry) /\ Len(log[n]) \in Nat /\ commit_index[n] \in Int
      /\ applied[n] \in Seq(Cmd \cup {Nil}) /\ done \in Nat
  BY ZenonT(60), <1>0, LenProperties
<1>2. commit_index[n] <= Len(log[n]) /\ done <= Len(log[n])
  BY ZenonT(60) DEF FollowInv, WithinLog, AppliedFromLog
<1>3. C \in Nat /\ done + C <= Len(log[n])
  <2> DEFINE a == done + 1
             b == commit_index[n]
  <2>1. a \in Int /\ b \in Int
    BY SMTT(90), <1>1
  <2>2. C = IF a > b THEN 0 ELSE b - a + 1
    <3> HIDE DEF a, b
    <3>1. Cardinality(a..b) = IF a > b THEN 0 ELSE b - a + 1
      BY ZenonT(60), <2>1, FS_Interval
    <3> QED BY SMTT(90), <3>1 DEF a, b
  <2> HIDE DEF C, done
  <2> QED BY SMTT(90), <1>1, <1>2, <2>2
<1>4. \A i \in 1..MaxLog : proc_clients'[k][i] \in {proc_clients[k][i], Nil}
  <2> DEFINE row == [i \in 1..MaxLog |->
                       IF state[n] = LEADER /\ i \in todo /\ getLogNode(log[n], i) # 0
                       THEN Nil ELSE proc_clients[n][i]]
  <2>1. proc_clients' = [proc_clients EXCEPT ![n] = row]
    BY ZenonT(60), <1>0 DEF ApplyCommitted
  <2>2. \A i \in 1..MaxLog : row[i] \in {proc_clients[n][i], Nil}
    BY ZenonT(60)
  <2> HIDE DEF row
  <2> QED BY ZenonT(60), <1>0, <2>1, <2>2
<1>5. ASSUME NEW i \in 1..Len(log[n]), ClientsWait \/ ~Held(n, i)
      PROVE  logApply(n, i) = {log[n][i].cmd}
  <2>1. getLogNode(log[n], i) = i /\ i # 0
    BY SMTT(90), <1>1, GetLogNodeAt
  <2>2. Held(n, i) => ClientArgv(proc_clients[n][i]) = {log[n][i].cmd}
    BY ZenonT(60), <1>5 DEF FollowInv, ClientsMatch, Held, ClientArgv
  <2> QED BY ZenonT(60), <2>1, <2>2 DEF logApply
<1>6. PICK run \in [1..C -> Cmd \cup {Nil}] :
        /\ \A i \in DOMAIN run : run[i] \in logApply(n, done + i)
        /\ applied' = [applied EXCEPT ![n] = applied[n] \o run]
  BY ZenonT(60), <1>0 DEF ApplyCommitted
<1>7. ASSUME NEW i \in 1..C, ClientsWait \/ ~Held(n, done + i)
      PROVE  run[i] = log[n][done + i].cmd
  <2>1. done + i \in 1..Len(log[n])
    <3> HIDE DEF C, done
    <3> QED BY SMTT(90), <1>1, <1>3
  <2>2. run[i] \in logApply(n, done + i)
    <3> HIDE DEF C, done
    <3> QED BY ZenonT(60), <1>6
  <2>3. logApply(n, done + i) = {log[n][done + i].cmd}
    <3> HIDE DEF C, done
    <3> QED BY ZenonT(60), <1>5, <1>7, <2>1
  <2> QED BY ZenonT(60), <2>2, <2>3
<1>8. run \in Seq(Cmd \cup {Nil}) /\ Len(run) = C
  <2> HIDE DEF C
  <2> QED BY SMTT(90), <1>3, <1>6
<1> HIDE DEF C, done, todo
<1>9. CASE k = n
  <2>1. applied'[k] = applied[n] \o run
    BY ZenonT(60), <1>0, <1>6, <1>9
  <2>2. /\ Len(applied'[k]) = done + C
        /\ \A i \in 1..(done + C) :
             applied'[k][i] = IF i <= done THEN applied[n][i] ELSE run[i - done]
    <3>1. /\ Len(applied[n] \o run) = Len(applied[n]) + Len(run)
          /\ \A i \in 1 .. Len(applied[n]) + Len(run) :
               (applied[n] \o run)[i] = IF i <= Len(applied[n]) THEN applied[n][i]
                                        ELSE run[i - Len(applied[n])]
      BY ZenonT(60), <1>1, <1>8, ConcatProperties
    <3> QED BY ZenonT(60), <1>8, <2>1, <3>1 DEF done
  <2>3. ASSUME NEW i \in 1..Len(applied'[k])
        PROVE  \/ i <= Len(applied[k]) /\ applied'[k][i] = applied[k][i]
               \/ /\ i \in 1..Len(log[k]) /\ i > Len(applied[k])
                  /\ ClientsWait \/ ~Held(k, i) => applied'[k][i] = log[k][i].cmd
    <3>1. CASE i <= done
      BY ZenonT(60), <1>1, <1>3, <1>9, <2>2, <3>1 DEF done
    <3>2. CASE ~(i <= done)
      <4>1. /\ i - done \in 1..C /\ done + (i - done) = i
            /\ i \in 1..Len(log[n]) /\ i > done
        BY SMTT(90), <1>1, <1>3, <2>2, <3>2
      <4>2. applied'[k][i] = run[i - done]
        BY ZenonT(60), <2>2, <3>2
      <4>3. ClientsWait \/ ~Held(n, i) => run[i - done] = log[n][i].cmd
        BY ZenonT(60), <1>7, <4>1
      <4> QED BY ZenonT(60), <1>9, <4>1, <4>2, <4>3 DEF done
    <3> QED BY SMTT(90), <3>1, <3>2
  <2> QED BY ZenonT(60), <1>4, <2>3
<1>10. CASE k # n
  <2>1. applied'[k] = applied[k] /\ Len(applied[k]) \in Nat
    BY ZenonT(60), <1>0, <1>6, <1>10, LenProperties
  <2>2. \A i \in 1..Len(applied[k]) : i <= Len(applied[k])
    BY SMTT(90), <2>1
  <2> QED BY ZenonT(60), <1>4, <2>1, <2>2
<1> QED BY ZenonT(60), <1>9, <1>10

(* A leader commits no index beyond its log: a quorum includes a peer, and *)
(* no peer is taken to have more than the leader.                          *)
LEMMA DutiesStore ==
  ASSUME TypeOK, TypeOK', FollowInv, NEW n \in Node, LeaderDuties(n),
         \A m \in Peers(n) : match_index'[n][m] <= Len(log[n]), NEW k \in Node
  PROVE  /\ commit_index'[k] = commit_index[k] \/ commit_index'[k] <= Len(log[k])
         /\ \A j \in Node : \/ last_sent_entry'[k][j] = last_sent_entry[k][j]
                            \/ last_sent_entry'[k][j] # FREED
<1>0. /\ commit_index \in [Node -> Int] /\ last_sent_entry \in [Node -> [Node -> Int]]
      /\ match_index' \in [Node -> [Node -> Int]] /\ next_index' \in [Node -> [Node -> Int]]
      /\ log \in [Node -> Seq(Entry)]
  BY ZenonT(60) DEF TypeOK
<1> DEFINE index == QuorumMatch(match_index'[n])
<1>1. match_index'[n] \in [Node -> Int] /\ log[n] \in Seq(Entry) /\ Len(log[n]) \in Nat
  BY ZenonT(60), <1>0, LenProperties
<1>2. index \in Int /\ index <= Len(log[n])
  <2>1. PICK m \in Peers(n) : index <= match_index'[n][m]
    BY ZenonT(60), <1>1, QuorumMatchPeer
  <2>2. index \in Int
    BY ZenonT(60), <1>1, QuorumMatchType
  <2>3. match_index'[n][m] \in Int /\ match_index'[n][m] <= Len(log[n])
    BY ZenonT(60), <1>1, <2>1 DEF Peers
  <2> HIDE DEF index
  <2> QED BY SMTT(90), <1>1, <2>1, <2>2, <2>3
<1>3. commit_index' = [commit_index EXCEPT ![n] =
        IF index > commit_index[n] /\ current_term[n] = logGetTerm(log[n], index)
        THEN index ELSE commit_index[n]]
  BY ZenonT(60), <1>0 DEF LeaderDuties, clusterUpdateCommitIndex
<1>4. commit_index'[k] = commit_index[k] \/ commit_index'[k] <= Len(log[k])
  <2> DEFINE c == IF index > commit_index[n] /\ current_term[n] = logGetTerm(log[n], index)
                  THEN index ELSE commit_index[n]
  <2>1. c = index \/ c = commit_index[n]
    BY ZenonT(60)
  <2> HIDE DEF c, index
  <2>2. commit_index' = [commit_index EXCEPT ![n] = c]
    BY ZenonT(60), <1>3 DEF c
  <2> QED BY ZenonT(60), <1>0, <1>2, <2>1, <2>2
<1>5. PICK H : clusterSendAppendEntries(n, H)
  BY ZenonT(60) DEF LeaderDuties
<1>6. ASSUME NEW j \in Node
      PROVE  \/ last_sent_entry'[k][j] = last_sent_entry[k][j]
             \/ last_sent_entry'[k][j] # FREED
  <2> DEFINE entries(m) == EntriesFrom(n, next_index'[n][m])
             last(m) == IF m \notin H THEN last_sent_entry[n][m]
                        ELSE IF entries(m) = <<>> THEN NULL
                        ELSE getLogNode(log[n], next_index'[n][m]) + Len(entries(m)) - 1
  <2>1. last_sent_entry' = [last_sent_entry EXCEPT ![n] = [m \in Node |-> last(m)]]
    BY ZenonT(60), <1>0, <1>5 DEF clusterSendAppendEntries
  <2>2. last(j) = last_sent_entry[n][j] \/ last(j) # FREED
    <3>1. next_index'[n][j] \in Int
      BY ZenonT(60), <1>0
    <3>2. entries(j) # <<>> =>
            getLogNode(log[n], next_index'[n][j]) + Len(entries(j)) - 1 \in 1..Len(log[n])
      BY ZenonT(60), <3>1, EntriesFromTypes
    <3>3. FREED \notin 1..Len(log[n]) /\ NULL # FREED
      BY SMTT(90), <1>1 DEF NULL, FREED
    <3> QED BY ZenonT(60), <3>2, <3>3
  <2> HIDE DEF last
  <2> QED BY ZenonT(60), <1>0, <2>1, <2>2
<1> QED BY ZenonT(60), <1>4, <1>6

(* A pass of clusterCron.                                                  *)
LEMMA CronStore ==
  ASSUME TypeOK, TypeOK', FollowInv, NEW n \in Node, clusterCron(n)
  PROVE  StoreKept
<1>0. log' = log /\ ApplyCommitted(n)
  BY ZenonT(60) DEF clusterCron
<1>1. /\ match_index \in [Node -> [Node -> Int]] /\ log \in [Node -> Seq(Entry)]
      /\ \A k \in Node : Len(log[k]) \in Nat
      /\ \A k \in Node : \A j \in Peers(k) : j \in Node /\ j # k
  BY ZenonT(60), LenProperties DEF TypeOK, Peers
<1>2. \A m \in Peers(n) : match_index[n][m] <= Len(log[n])
  BY ZenonT(60) DEF FollowInv, WithinLog
<1>3. ASSUME NEW k \in Node
      PROVE  /\ commit_index'[k] = commit_index[k] \/ commit_index'[k] <= Len(log[k])
             /\ \A j \in Node : \/ last_sent_entry'[k][j] = last_sent_entry[k][j]
                                \/ last_sent_entry'[k][j] # FREED
             /\ \A j \in Peers(k) : \/ match_index'[k][j] = match_index[k][j]
                                    \/ match_index'[k][j] <= Len(log[k])
  <2>1. CASE CronStartElection(n) \/ CronIdle(n)
    <3>1. UNCHANGED <<commit_index, match_index, last_sent_entry>>
      BY ZenonT(60), <2>1 DEF CronStartElection, CronIdle, peerVars
    <3> QED BY ZenonT(60), <3>1
  <2>2. CASE CronLead(n)
    <3>1. match_index' = match_index /\ LeaderDuties(n)
      BY ZenonT(60), <2>2 DEF CronLead
    <3>2. \A m \in Peers(n) : match_index'[n][m] <= Len(log[n])
      BY ZenonT(60), <1>2, <3>1
    <3> QED BY ZenonT(60), <3>1, <3>2, DutiesStore
  <2>3. CASE CronBecomeLeader(n)
    <3>1. /\ LeaderDuties(n)
          /\ match_index' = [match_index EXCEPT ![n] =
               [m \in Node |-> IF m = n THEN match_index[n][m] ELSE 0]]
      BY ZenonT(60), <1>1, <2>3 DEF CronBecomeLeader
    <3>2. \A j \in Peers(k) : \/ match_index'[k][j] = match_index[k][j]
                              \/ k = n /\ match_index'[k][j] = 0
      BY ZenonT(60), <1>1, <3>1
    <3>3. \A j \in Peers(n) : match_index'[n][j] = 0
      BY ZenonT(60), <1>1, <3>1
    <3>4. 0 <= Len(log[n])
      BY SMTT(90), <1>1
    <3>5. \A m \in Peers(n) : match_index'[n][m] <= Len(log[n])
      BY ZenonT(60), <3>3, <3>4
    <3> QED BY ZenonT(60), <3>1, <3>2, <3>4, <3>5, DutiesStore
  <2> QED BY ZenonT(60), <2>1, <2>2, <2>3 DEF clusterCron
<1>4. ASSUME NEW k \in Node
      PROVE  /\ \A i \in 1..MaxLog : proc_clients'[k][i] \in {proc_clients[k][i], Nil}
             /\ \A i \in 1..Len(applied'[k]) :
                  \/ i <= Len(applied[k]) /\ applied'[k][i] = applied[k][i]
                  \/ /\ i <= Len(log[k])
                     /\ ClientsWait => applied'[k][i] = log[k][i].cmd
  <2>1. \A i \in 1..Len(log[k]) : i <= Len(log[k])
    BY SMTT(90), <1>1
  <2> QED BY ZenonT(60), <1>0, <2>1, ApplyStore
<1> QED BY ZenonT(60), <1>0, <1>3, <1>4 DEF StoreKept

(* A restart forgets what was run, committed and acknowledged.             *)
LEMMA RestartStore ==
  ASSUME TypeOK, TypeOK', NEW n \in Node, clusterInit(n)
  PROVE  StoreKept
<1>0. /\ commit_index \in [Node -> Int] /\ applied \in [Node -> Seq(Cmd \cup {Nil})]
      /\ proc_clients \in [Node -> [1..MaxLog -> Cmd \cup {Nil}]]
      /\ match_index \in [Node -> [Node -> Int]]
      /\ last_sent_entry \in [Node -> [Node -> Int]]
      /\ log \in [Node -> Seq(Entry)]
  BY ZenonT(60) DEF TypeOK
<1>1. /\ log' = log
      /\ commit_index' = [commit_index EXCEPT ![n] = 0]
      /\ applied' = [applied EXCEPT ![n] = <<>>]
      /\ proc_clients' = [proc_clients EXCEPT ![n] = [i \in 1..MaxLog |-> Nil]]
      /\ last_sent_entry' = [last_sent_entry EXCEPT ![n] = [m \in Node |-> NULL]]
  BY ZenonT(60) DEF clusterInit
<1>2. PICK own : match_index' = [match_index EXCEPT ![n] =
                                   [m \in Node |-> IF m = n THEN own ELSE 0]]
  BY ZenonT(60) DEF clusterInit
<1>3. NULL # FREED /\ Len(<<>>) = 0
  BY SMTT(90) DEF NULL, FREED
<1>4. ASSUME NEW k \in Node
      PROVE  /\ commit_index'[k] = commit_index[k] \/ commit_index'[k] <= Len(log'[k])
             /\ \A j \in Node : \/ last_sent_entry'[k][j] = last_sent_entry[k][j]
                                \/ last_sent_entry'[k][j] # FREED
             /\ \A j \in Peers(k) : \/ match_index'[k][j] = match_index[k][j]
                                    \/ match_index'[k][j] <= Len(log'[k])
             /\ \A i \in 1..MaxLog : proc_clients'[k][i] \in {proc_clients[k][i], Nil}
             /\ \A i \in 1..Len(applied'[k]) :
                  i <= Len(applied[k]) /\ applied'[k][i] = applied[k][i]
  <2>0. Len(log[k]) \in Nat /\ Len(applied[k]) \in Nat
    BY ZenonT(60), <1>0, LenProperties
  <2>1. CASE k = n
    <3>1. /\ commit_index'[k] = 0 /\ applied'[k] = <<>>
          /\ \A j \in Node : last_sent_entry'[k][j] = NULL
          /\ \A j \in Peers(k) : match_index'[k][j] = 0
          /\ \A i \in 1..MaxLog : proc_clients'[k][i] = Nil
      BY ZenonT(60), <1>0, <1>1, <1>2, <2>1 DEF Peers
    <3>2. 0 <= Len(log'[k]) /\ 1..Len(applied'[k]) = {}
      BY SMTT(90), <1>1, <1>3, <2>0, <3>1
    <3> QED BY ZenonT(60), <1>3, <3>1, <3>2
  <2>2. CASE k # n
    <3>1. /\ commit_index'[k] = commit_index[k] /\ applied'[k] = applied[k]
          /\ last_sent_entry'[k] = last_sent_entry[k]
          /\ match_index'[k] = match_index[k] /\ proc_clients'[k] = proc_clients[k]
      BY ZenonT(60), <1>0, <1>1, <1>2, <2>2
    <3>2. \A i \in 1..Len(applied[k]) : i <= Len(applied[k])
      BY SMTT(90), <2>0
    <3> QED BY ZenonT(60), <3>1, <3>2
  <2> QED BY ZenonT(60), <2>1, <2>2
<1> QED BY ZenonT(60), <1>4 DEF StoreKept

----------------------------------------------------------------------------
(* Every step changes what is stored in these ways only.                   *)
LEMMA NextStore ==
  ASSUME TypeOK, TypeOK', OfficeInv, OneOffice, PositionIsIndex', Grows, [Next]_vars
  PROVE  StoreKept
<1>0. FollowInv /\ InOffice
  BY ZenonT(60) DEF OfficeInv
<1>1. CASE UNCHANGED vars
  <2>1. UNCHANGED <<commit_index, applied, proc_clients, match_index, last_sent_entry>>
    BY ZenonT(60), <1>1 DEF vars, storeVars, peerVars
  <2> QED BY ZenonT(60), <2>1, QuietStore
<1>2. ASSUME NEW n \in Node, clusterCron(n) PROVE StoreKept
  BY ZenonT(60), <1>0, <1>2, CronStore
<1>3. ASSUME NEW n \in Node, NEW m \in Node, ProcessRequest(n, m) PROVE StoreKept
  <2>1. ASSUME NEW src \in Sources(n, m), NEW read,
               clusterProcessRequestVote(n, m, src, read)
        PROVE  StoreKept
    <3>1. UNCHANGED <<commit_index, applied, proc_clients, match_index, last_sent_entry>>
      BY ZenonT(60), <2>1 DEF clusterProcessRequestVote, storeVars, peerVars
    <3> QED BY ZenonT(60), <3>1, QuietStore
  <2>2. ASSUME NEW src \in Sources(n, m), NEW synced,
               clusterProcessAppendEntries(n, m, src, synced)
        PROVE  StoreKept
    BY ZenonT(60), <2>2, AppendStore
  <2> QED BY ZenonT(60), <1>3, <2>1, <2>2 DEF ProcessRequest
<1>4. ASSUME NEW n \in Node, NEW m \in Node, ProcessResponse(n, m) PROVE StoreKept
  BY ZenonT(60), <1>0, <1>4, ResponseStore
<1>5. ASSUME NEW n \in Node, NEW cmd \in Cmd, clusterProcessCommand(n, cmd) PROVE StoreKept
  BY ZenonT(60), <1>0, <1>5, CommandStore
<1>6. ASSUME NEW n \in Node, NEW m \in Node, handleLinkIOError(n, m) PROVE StoreKept
  <2>1. UNCHANGED <<commit_index, applied, proc_clients, match_index, last_sent_entry>>
    BY ZenonT(60), <1>6 DEF handleLinkIOError, storeVars, peerVars
  <2> QED BY ZenonT(60), <2>1, QuietStore
<1>7. ASSUME NEW n \in Node, clusterInit(n) PROVE StoreKept
  BY ZenonT(60), <1>7, RestartStore
<1> QED BY ZenonT(60), <1>1, <1>2, <1>3, <1>4, <1>5, <1>6, <1>7 DEF Next

(* OfficeInv is inductive.                                                 *)
LEMMA NextOffice ==
  ASSUME TypeOK, TypeOK', OfficeInv, [Next]_vars
  PROVE  OfficeInv'
<1>1. ASSUME OneOffice' PROVE FollowInv'
  <2>1. OneOffice
    BY SMTT(90), <1>1, OneOfficeBefore
  <2>2. FollowInv
    BY ZenonT(60), <2>1 DEF OfficeInv
  <2>3. Grows /\ PositionIsIndex' /\ BehindLeader'
    BY ZenonT(60), <1>1, LogStep
  <2>4. AppendsCopied'
    BY ZenonT(60), <2>2, <2>3, AppendsStayCopied
  <2>5. StoreKept
    BY ZenonT(60), <2>1, <2>3, NextStore
  <2>6. WithinLog' /\ ClientsMatch' /\ AppliedFromLog'
    BY ZenonT(60), <2>2, <2>3, <2>5, StoreFollows
  <2> QED BY ZenonT(60), <2>3, <2>4, <2>6 DEF FollowInv
<1>2. InOffice' /\ AppendsFromElected'
  BY ZenonT(60), OfficesKept
<1> QED BY ZenonT(60), <1>1, <1>2 DEF OfficeInv

(* At the start nobody is in office and nothing is logged, sent or run.    *)
LEMMA InitOffice == Init => OfficeInv
<1> SUFFICES ASSUME Init PROVE OfficeInv
  BY SMTT(90)
<1>0. DOMAIN <<>> = {} /\ Len(<<>>) = 0 /\ 1..0 = {} /\ 0 <= 0 /\ NULL # FREED
  BY SMTT(90) DEF NULL, FREED
<1>1. /\ \A n \in Node : /\ log[n] = <<>> /\ applied[n] = <<>> /\ commit_index[n] = 0
                         /\ state[n] = FOLLOWER
      /\ \A t \in Term : elected[t] = {}
      /\ \A n, m \in Node : /\ req[n][m] = <<>> /\ stale[n][m] = {}
                            /\ last_sent_entry[n][m] = NULL
      /\ \A n \in Node : \A i \in 1..MaxLog : proc_clients[n][i] = Nil
  BY ZenonT(60) DEF Init
<1>2. \A n \in Node : \A m \in Peers(n) : match_index[n][m] = 0
  <2>1. PICK own : match_index = [n \in Node |-> [m \in Node |-> IF m = n THEN own[n] ELSE 0]]
    BY ZenonT(60) DEF Init
  <2> QED BY ZenonT(60), <2>1 DEF Peers
<1>3. ASSUME NEW n \in Node, NEW m \in Node PROVE Packets(n, m) = {}
  <2>1. req[n][m] = <<>> /\ stale[n][m] = {}
    BY SMTT(90), <1>1
  <2>2. ASSUME NEW x \in Packets(n, m) PROVE FALSE
    BY ZenonT(60), <1>0, <2>1, PacketsElements
  <2> QED BY SMTT(90), <2>2
<1>4. InOffice
  <2>1. FOLLOWER # LEADER
    BY DEF FOLLOWER, LEADER
  <2> QED BY ZenonT(60), <1>1, <2>1 DEF InOffice
<1>5. AppendsFromElected
  BY ZenonT(60), <1>0, <1>1 DEF AppendsFromElected
<1>6. PositionIsIndex /\ BehindLeader
  BY ZenonT(60), <1>0, <1>1 DEF PositionIsIndex, BehindLeader
<1>7. AppendsCopied
  BY ZenonT(60), <1>3 DEF AppendsCopied
<1>8. WithinLog /\ ClientsMatch /\ AppliedFromLog
  BY ZenonT(60), <1>0, <1>1, <1>2 DEF WithinLog, ClientsMatch, AppliedFromLog
<1> QED BY ZenonT(60), <1>4, <1>5, <1>6, <1>7, <1>8 DEF OfficeInv, FollowInv

(* OfficeInv is an invariant, whatever is lost, late or restarted and      *)
(* whatever fsync answers: elections and AppendEntries of one leader never *)
(* truncate a log (logWriteEntry), and what clusterCron commits and        *)
(* logApply runs is in that leader's log.                                  *)
THEOREM OfficeInvariant == Spec => []OfficeInv
<1>1. TypeOK /\ TypeOK' /\ OfficeInv /\ [Next]_vars => OfficeInv'
  BY ZenonT(60), NextOffice
<1> QED BY <1>1, InitOffice, TypeCorrect, PTL DEF Spec

(* As long as only one node has taken office the i-th entry of every list  *)
(* has index i, as getLogNode assumes, for every number of nodes, losses   *)
(* and restarts.                                                           *)
THEOREM PositionsKept == Spec => [](OneOffice => PositionIsIndex)
<1>1. OfficeInv => (OneOffice => PositionIsIndex)
  BY ZenonT(60) DEF OfficeInv, FollowInv
<1> QED BY <1>1, OfficeInvariant, PTL

(* Two nodes that have run the beginnings of two beginnings of one log     *)
(* have run the same commands.                                             *)
LEMMA RunFromOneLog ==
  ASSUME TypeOK, FollowInv, ClientsWait
  PROVE  StateMachineSafety
<1> SUFFICES ASSUME NEW n \in Node, NEW m \in Node,
                    NEW i \in 1..Min({Len(applied[n]), Len(applied[m])})
             PROVE  applied[n][i] = applied[m][i]
  BY ZenonT(60) DEF StateMachineSafety
<1>0. /\ Len(applied[n]) \in Nat /\ Len(applied[m]) \in Nat
      /\ Len(log[n]) \in Nat /\ Len(log[m]) \in Nat
  BY ZenonT(60), LenProperties DEF TypeOK
<1>1. i \in 1..Len(applied[n]) /\ i \in 1..Len(applied[m])
  <2> DEFINE a == Len(applied[n])
             b == Len(applied[m])
  <2>1. Min({a, b}) <= a /\ Min({a, b}) <= b /\ Min({a, b}) \in Nat
    <3> HIDE DEF a, b
    <3>1. a \in Nat /\ b \in Nat /\ a \in Int /\ b \in Int
      BY SMTT(90), <1>0 DEF a, b
    <3>2. Min({a, b}) \in {a, b} /\ Min({a, b}) <= a /\ Min({a, b}) <= b
      BY ZenonT(60), <3>1, MinOfTwo
    <3> QED BY ZenonT(60), <3>1, <3>2
  <2> HIDE DEF a, b
  <2>2. i \in 1..Min({a, b})
    BY SMTT(90) DEF a, b
  <2>3. i \in 1..a /\ i \in 1..b
    BY SMTT(90), <1>0, <2>1, <2>2 DEF a, b
  <2> QED BY SMTT(90), <2>3 DEF a, b
<1>2. /\ i \in 1..Len(log[n]) /\ applied[n][i] = log[n][i].cmd
      /\ i \in 1..Len(log[m]) /\ applied[m][i] = log[m][i].cmd
  <2>1. /\ Len(applied[n]) <= Len(log[n]) /\ applied[n][i] = log[n][i].cmd
        /\ Len(applied[m]) <= Len(log[m]) /\ applied[m][i] = log[m][i].cmd
    BY ZenonT(60), <1>1 DEF FollowInv, AppliedFromLog
  <2> QED BY SMTT(90), <1>0, <1>1, <2>1
<1>3. PICK t \in Term : elected[t] # {}
  <2>1. log[n] # <<>>
    BY SMTT(90), <1>2
  <2> QED BY ZenonT(60), <2>1 DEF FollowInv, BehindLeader
<1>4. PICK a : a \in elected[t]
  BY SMTT(90), <1>3
<1>5. log[n][i] = log[a][i] /\ log[m][i] = log[a][i]
  BY ZenonT(60), <1>2, <1>4 DEF FollowInv, BehindLeader, Prefix
<1> QED BY ZenonT(60), <1>2, <1>5

(* As long as only one node has taken office, and clients wait for their   *)
(* answers, all nodes run the same commands in the same order: for every   *)
(* number of nodes and entries, with links that fail, batches that arrive  *)
(* late, fsync errors, restarts, and whatever clusterUpdateCommitIndex     *)
(* reads as its own match_index.                                           *)
THEOREM SameCommandsRun == ClientsWait => (Spec => [](OneOffice => StateMachineSafety))
<1> SUFFICES ASSUME ClientsWait PROVE Spec => [](OneOffice => StateMachineSafety)
  BY ZenonT(60)
<1>1. TypeOK /\ OfficeInv => (OneOffice => StateMachineSafety)
  BY ZenonT(60), RunFromOneLog DEF OfficeInv
<1> QED BY <1>1, OfficeInvariant, TypeCorrect, PTL

(* What clusterCron runs for a new index is the entry of that index in the *)
(* log before the step, unless it runs a client it holds there that has    *)
(* not waited; no other handler runs anything.                             *)
LEMMA RunsTheEntry ==
  ASSUME TypeOK, TypeOK', FollowInv, [Next]_vars, NEW k \in Node,
         NEW i \in Len(applied[k]) + 1 .. Len(applied'[k]),
         ClientsWait \/ ~Held(k, i)
  PROVE  RanEntry(k, i)
<1>0. /\ applied \in [Node -> Seq(Cmd \cup {Nil})]
      /\ Len(applied[k]) \in Nat /\ Len(applied'[k]) \in Nat
      /\ i \in 1..Len(applied'[k]) /\ ~(i <= Len(applied[k]))
  <2>1. /\ applied \in [Node -> Seq(Cmd \cup {Nil})]
        /\ applied' \in [Node -> Seq(Cmd \cup {Nil})]
    BY ZenonT(60) DEF TypeOK
  <2>2. Len(applied[k]) \in Nat /\ Len(applied'[k]) \in Nat
    BY ZenonT(60), <2>1, LenProperties
  <2> QED BY SMTT(90), <2>1, <2>2
<1>1. ASSUME applied' = applied PROVE FALSE
  BY SMTT(90), <1>0, <1>1
<1>2. ASSUME NEW n \in Node, clusterCron(n)
      PROVE  i \in 1..Len(log[k]) /\ applied'[k][i] = log[k][i].cmd
  <2>1. ApplyCommitted(n)
    BY ZenonT(60), <1>2 DEF clusterCron
  <2> QED BY ZenonT(60), <1>0, <2>1, ApplyStore
<1>3. ASSUME NEW n \in Node, clusterInit(n) PROVE FALSE
  <2>1. applied' = [applied EXCEPT ![n] = <<>>]
    BY ZenonT(60), <1>3 DEF clusterInit
  <2>2. Len(<<>>) = 0
    BY SMTT(90)
  <2> QED BY SMTT(90), <1>0, <2>1, <2>2
<1>4. \/ applied' = applied
      \/ \E n \in Node : clusterCron(n)
      \/ \E n \in Node : clusterInit(n)
  <2>1. ASSUME NEW n \in Node, NEW m \in Node, ProcessRequest(n, m) PROVE applied' = applied
    BY ZenonT(60), <2>1 DEF ProcessRequest, clusterProcessRequestVote,
         clusterProcessAppendEntries, storeVars
  <2>2. ASSUME NEW n \in Node, NEW m \in Node, ProcessResponse(n, m) PROVE applied' = applied
    BY ZenonT(60), <2>2 DEF ProcessResponse, clusterProcessResponseVote,
         clusterProcessResponseAppendEntries, storeVars
  <2>3. ASSUME NEW n \in Node, NEW cmd \in Cmd, clusterProcessCommand(n, cmd)
        PROVE  applied' = applied
    BY ZenonT(60), <2>3 DEF clusterProcessCommand, storeVars
  <2>4. ASSUME NEW n \in Node, NEW m \in Node, handleLinkIOError(n, m) PROVE applied' = applied
    BY ZenonT(60), <2>4 DEF handleLinkIOError, storeVars
  <2>5. CASE UNCHANGED vars
    BY ZenonT(60), <2>5 DEF vars, storeVars
  <2> QED BY ZenonT(60), <2>1, <2>2, <2>3, <2>4, <2>5 DEF Next
<1>5. i \in 1..Len(log[k]) /\ applied'[k][i] = log[k][i].cmd
  BY ZenonT(60), <1>1, <1>2, <1>3, <1>4
<1>6. log[k][i].index = i
  BY ZenonT(60), <1>5 DEF FollowInv, PositionIsIndex
<1> QED BY ZenonT(60), <1>5, <1>6 DEF RanEntry

(* As long as only one node takes office, what logApply runs for an index  *)
(* is the command of its entry wherever no client is held under the index, *)
(* and everywhere if clients wait for their answers: although a leader     *)
(* runs the client it finds in proc_clients, that is the one whose write   *)
(* the entry is.                                                           *)
THEOREM EntriesApplied ==
  Spec /\ []OneOffice => AppliesUnlessHeld /\ (ClientsWait => AppliesTheEntry)
<1> DEFINE New(n) == Len(applied[n]) + 1 .. Len(applied'[n])
           UnlessHeld == \A n \in Node : \A i \in New(n) : Held(n, i) \/ RanEntry(n, i)
           Always == \A n \in Node : \A i \in New(n) : RanEntry(n, i)
<1>1. TypeOK /\ TypeOK' /\ OfficeInv /\ OneOffice /\ [Next]_vars => [UnlessHeld]_vars
  BY ZenonT(60), RunsTheEntry DEF OfficeInv
<1>2. Spec /\ []OneOffice => AppliesUnlessHeld
  BY <1>1, OfficeInvariant, TypeCorrect, PTL DEF Spec, AppliesUnlessHeld
<1>3. ASSUME ClientsWait PROVE Spec /\ []OneOffice => AppliesTheEntry
  <2>1. TypeOK /\ TypeOK' /\ OfficeInv /\ OneOffice /\ [Next]_vars => [Always]_vars
    BY ZenonT(60), <1>3, RunsTheEntry DEF OfficeInv
  <2> QED BY <2>1, OfficeInvariant, TypeCorrect, PTL DEF Spec, AppliesTheEntry
<1> QED BY ZenonT(60), <1>2, <1>3
=============================================================================
