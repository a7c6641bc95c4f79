-------------------------- MODULE PrezEntryProofs ---------------------------
(***************************************************************************)
(* Where entries come from: every entry of a log or of an AppendEntries    *)
(* was written by a client to the leader of its term, so that its index    *)
(* and its term identify it.                                               *)
(***************************************************************************)
EXTENDS PrezElectionProofs

----------------------------------------------------------------------------
(* What the AppendEntries under way carry.                                 *)
LEMMA CarriedElements ==
  ASSUME NEW n, NEW m
  PROVE  /\ \A e : e \in Carried(n, m) <=>
              \E x \in Packets(n, m) :
                 x.type = "AppendEntries" /\ \E h \in DOMAIN x.log_entries : e = x.log_entries[h]
         /\ \A e : e \in Carried(n, m)' <=>
              \E x \in Packets(n, m)' :
                 x.type = "AppendEntries" /\ \E h \in DOMAIN x.log_entries : e = x.log_entries[h]
<1> DEFINE P == Packets(n, m)
           Q == Packets(n, m)'
<1>1. /\ Carried(n, m) = UNION {{x.log_entries[h] : h \in DOMAIN x.log_entries} :
                                 x \in {y \in P : y.type = "AppendEntries"}}
      /\ Carried(n, m)' = UNION {{x.log_entries[h] : h \in DOMAIN x.log_entries} :
                                 x \in {y \in Q : y.type = "AppendEntries"}}
  BY DEF Carried
<1> HIDE DEF P, Q
<1>2. /\ \A e : e \in Carried(n, m) <=>
           \E x \in P : x.type = "AppendEntries" /\ \E h \in DOMAIN x.log_entries : e = x.log_entries[h]
      /\ \A e : e \in Carried(n, m)' <=>
           \E x \in Q : x.type = "AppendEntries" /\ \E h \in DOMAIN x.log_entries : e = x.log_entries[h]
  BY SMTT(90), <1>1
<1> QED BY SMTT(90), <1>2 DEF P, Q

(* Every entry that exists is listed or carried.                           *)
LEMMA KnownElements ==
  /\ \A e : e \in Known <=>
       \/ \E n \in Node : \E p \in DOMAIN log[n] : e = log[n][p]
       \/ \E n, m \in Node : e \in Carried(n, m)
  /\ \A e : e \in Known' <=>
       \/ \E n \in Node : \E p \in DOMAIN log'[n] : e = log'[n][p]
       \/ \E n, m \in Node : e \in Carried(n, m)'
<1>1. \A e : e \in Logged <=> \E n \in Node : \E p \in DOMAIN log[n] : e = log[n][p]
  BY SMTT(90) DEF Logged
<1>2. \A e : e \in Sent <=> \E n, m \in Node : e \in Carried(n, m)
  BY SMTT(90) DEF Sent
<1>3. \A e : e \in Logged' <=> \E n \in Node : \E p \in DOMAIN log'[n] : e = log'[n][p]
  BY SMTT(90) DEF Logged
<1>4. \A e : e \in Sent' <=> \E n, m \in Node : e \in Carried(n, m)'
  BY SMTT(90) DEF Sent
<1>5. /\ \A e : e \in Known <=> e \in Logged \/ e \in Sent
      /\ \A e : e \in Known' <=> e \in Logged' \/ e \in Sent'
  BY DEF Known
<1> QED BY ZenonT(60), <1>1, <1>2, <1>3, <1>4, <1>5

(* Entries are entries.                                                    *)
LEMMA KnownTypes ==
  ASSUME TypeOK
  PROVE  /\ \A e \in Known : e \in Entry
         /\ \A n \in Node : log[n] \in Seq(Known)
         /\ \A n, m \in Node : \A x \in Packets(n, m) :
              x.type = "AppendEntries" => x.log_entries \in Seq(Known)
<1>1. \A n \in Node : log[n] \in Seq(Entry)
  BY SMTT(90) DEF TypeOK
<1>2. ASSUME NEW n \in Node, NEW m \in Node, NEW x \in Packets(n, m),
             x.type = "AppendEntries"
      PROVE  x.log_entries \in Seq(Entry)
  <2>1. x \in Request
    BY SMTT(30), PacketsTypes
  <2> QED BY SMTT(30), <1>2, <2>1 DEF Request, RequestVote, AppendEntries
<1>3. ASSUME NEW s \in Seq(Entry), \A i \in DOMAIN s : s[i] \in Known
      PROVE  s \in Seq(Known)
  <2>1. Len(s) \in Nat /\ s \in [1..Len(s) -> Entry] /\ DOMAIN s = 1..Len(s)
    BY SMTT(30), LenProperties
  <2> QED BY SMTT(90), <1>3, <2>1
<1>4. \A e \in Known : e \in Entry
  <2> TAKE e \in Known
  <2>1. CASE \E n \in Node : \E p \in DOMAIN log[n] : e = log[n][p]
    BY SMTT(30), <1>1, <2>1
  <2>2. CASE \E n, m \in Node : e \in Carried(n, m)
    <3>1. PICK n \in Node, m \in Node : e \in Carried(n, m)
      BY SMTT(30), <2>2
    <3>2. PICK x \in Packets(n, m) :
            x.type = "AppendEntries" /\ \E h \in DOMAIN x.log_entries : e = x.log_entries[h]
      BY SMTT(90), <3>1, CarriedElements
    <3>3. x.log_entries \in Seq(Entry)
      BY SMTT(90), <1>2, <3>2
    <3> QED BY SMTT(30), <3>2, <3>3
  <2> QED BY ZenonT(60), <2>1, <2>2, KnownElements
<1>5. ASSUME NEW n \in Node PROVE log[n] \in Seq(Known)
  <2>1. \A p \in DOMAIN log[n] : log[n][p] \in Known
    BY ZenonT(60), KnownElements
  <2> QED BY SMTT(90), <1>1, <1>3, <2>1
<1>6. ASSUME NEW n \in Node, NEW m \in Node, NEW x \in Packets(n, m),
             x.type = "AppendEntries"
      PROVE  x.log_entries \in Seq(Known)
  <2>1. \A h \in DOMAIN x.log_entries : x.log_entries[h] \in Carried(n, m)
    BY ZenonT(60), <1>6, CarriedElements
  <2>2. \A h \in DOMAIN x.log_entries : x.log_entries[h] \in Known
    BY ZenonT(60), <2>1, KnownElements
  <2> QED BY SMTT(90), <1>2, <1>3, <1>6, <2>2
<1> QED BY SMTT(90), <1>4, <1>5, <1>6

(* Messages carry no entry that was not known before.                      *)
LEMMA CarriedKnown ==
  ASSUME TypeOK, TypeOK', [Next]_vars, NEW n \in Node, NEW m \in Node,
         NEW e \in Carried(n, m)'
  PROVE  e \in Known
<1>1. PICK x \in Packets(n, m)' :
        x.type = "AppendEntries" /\ \E h \in DOMAIN x.log_entries : e = x.log_entries[h]
  BY SMTT(30), CarriedElements
<1>2. CASE x \in Packets(n, m)
  <2>1. e \in Carried(n, m)
    BY SMTT(90), <1>1, <1>2, CarriedElements
  <2> QED BY ZenonT(60), <2>1, KnownElements
<1>3. CASE FreshAppend(n, x)
  <2>1. PICK next \in Int : x.log_entries = EntriesFrom(n, next)
    BY ZenonT(60), <1>3 DEF FreshAppend
  <2>2. PICK h \in DOMAIN EntriesFrom(n, next) : e = EntriesFrom(n, next)[h]
    BY ZenonT(60), <1>1, <2>1
  <2>3. \E p \in 1..Len(log[n]) : e = log[n][p]
    BY ZenonT(60), <2>2, EntriesFromLog
  <2>4. DOMAIN log[n] = 1..Len(log[n])
    BY SMTT(90), LogTypes, LenProperties
  <2> QED BY ZenonT(60), <2>3, <2>4, KnownElements
<1>4. PacketsKept
  BY SMTT(30), NextPackets
<1> QED BY ZenonT(60), <1>1, <1>2, <1>3, <1>4 DEF PacketsKept

(* A batch brings known entries only.                                      *)
LEMMA LogsKnown ==
  ASSUME TypeOK, [Next]_vars,
         ~ \E n \in Node, cmd \in Cmd : clusterProcessCommand(n, cmd),
         NEW k \in Node
  PROVE  log'[k] \in Seq(Known)
<1>0. /\ log \in [Node -> Seq(Entry)] /\ log[k] \in Seq(Known)
      /\ \A e \in Known : e.index \in Nat
  BY ZenonT(60), KnownTypes DEF TypeOK, Entry
<1>1. CASE log' = log
  BY SMTT(90), <1>0, <1>1
<1>2. ASSUME NEW n \in Node, NEW m \in Node, NEW src \in Sources(n, m), NEW synced,
             clusterProcessAppendEntries(n, m, src, synced)
      PROVE  log'[k] \in Seq(Known)
  <2>1. PICK a \in Packets(n, m) :
           /\ a.type = "AppendEntries"
           /\ \/ log' = log
              \/ /\ a.term >= current_term[m]
                 /\ logVerifyAppend(log[m], a.prev_log_index, a.prev_log_term)
                 /\ log' = [log EXCEPT ![m] = logAppendEntries(log[m], a.log_entries)]
    BY ZenonT(60), <1>2, AppendLog
  <2>2. log[m] \in Seq(Known) /\ a.log_entries \in Seq(Known)
    BY ZenonT(60), <2>1, KnownTypes
  <2>3. logAppendEntries(log[m], a.log_entries) \in Seq(Known)
    BY ZenonT(60), <1>0, <2>2, AppendEntriesWithin
  <2> QED BY ZenonT(60), <1>0, <2>1, <2>3
<1> QED BY ZenonT(60), <1>1, <1>2, LogChanges

(* The entry a client's write makes is the only new one.                   *)
LEMMA CommandKnown ==
  ASSUME TypeOK, NEW n \in Node, NEW cmd \in Cmd, clusterProcessCommand(n, cmd),
         NEW k \in Node
  PROVE  log'[k] \in Seq(Known \cup {NewEntry(n, cmd)})
<1> DEFINE e == NewEntry(n, cmd)
           E == Known \cup {e}
<1>0. log \in [Node -> Seq(Entry)] /\ log[k] \in Seq(Known) /\ log[n] \in Seq(Known)
  BY ZenonT(60), KnownTypes DEF TypeOK
<1>1. \A x \in E : x.index \in Nat
  <2>1. \A x \in Known : x.index \in Nat
    BY SMTT(90), KnownTypes DEF Entry
  <2>2. e.index \in Nat
    BY SMTT(90), LogTypes DEF NewEntry
  <2> QED BY ZenonT(60), <2>1, <2>2
<1>2. log' = [log EXCEPT ![n] = logWriteEntry(log[n], e)]
  BY ZenonT(60), <1>0 DEF clusterProcessCommand
<1> HIDE DEF e
<1>3. log[k] \in Seq(E) /\ log[n] \in Seq(E) /\ e \in E
  <2>1. \A s \in Seq(Known) : s \in Seq(E)
    BY SMTT(90)
  <2> QED BY SMTT(90), <1>0, <2>1
<1> HIDE DEF E
<1>4. logWriteEntry(log[n], e) \in Seq(E)
  BY SMTT(90), <1>1, <1>3, WriteEntryWithin
<1>5. log'[k] \in Seq(E)
  BY SMTT(90), <1>0, <1>2, <1>3, <1>4
<1> QED BY SMTT(90), <1>5 DEF E, e

(* Every step: no entry comes into being but by the write of a client.     *)
LEMMA KnownStep ==
  ASSUME TypeOK, TypeOK', [Next]_vars, NEW e \in Known', e \notin Known
  PROVE  \E n \in Node, cmd \in Cmd :
           clusterProcessCommand(n, cmd) /\ e = NewEntry(n, cmd)
<1>1. PICK k \in Node : \E p \in DOMAIN log'[k] : e = log'[k][p]
  BY ZenonT(60), KnownElements, CarriedKnown
<1>2. \A S : log'[k] \in Seq(S) => e \in S
  BY SMTT(90), <1>1
<1>3. PICK n \in Node, cmd \in Cmd : clusterProcessCommand(n, cmd)
  BY ZenonT(60), <1>2, LogsKnown
<1>4. e \in Known \cup {NewEntry(n, cmd)}
  BY ZenonT(60), <1>2, <1>3, CommandKnown
<1> QED BY ZenonT(60), <1>3, <1>4

(* The entry made for a client ends the list: no entry of the term has its *)
(* index yet, so logWriteEntry does not take it for one it has.            *)
LEMMA CommandLast ==
  ASSUME TypeOK, EntryInv, NEW n \in Node, NEW cmd \in Cmd, state[n] = LEADER,
         log'[n] = logWriteEntry(log[n], NewEntry(n, cmd))
  PROVE  /\ logCurrentIndex(log'[n]) = logCurrentIndex(log[n]) + 1
         /\ log'[n] # <<>> /\ log'[n][Len(log'[n])] = NewEntry(n, cmd)
<1> DEFINE e == NewEntry(n, cmd)
           l == log[n]
           pos == getLogNode(l, e.index)
<1>0. log \in [Node -> Seq(Entry)] /\ l \in Seq(Entry) /\ logCurrentIndex(l) \in Nat
  BY ZenonT(60), LogTypes DEF TypeOK
<1>1. /\ e.index = logCurrentIndex(l) + 1 /\ e.term = current_term[n]
      /\ e \in Entry
  BY SMTT(90), <1>0, TypeOK DEF NewEntry, Entry, TypeOK
<1>2. log'[n] = logWriteEntry(l, e)
  BY ZenonT(60)
<1>3. ~(pos # 0 /\ l[pos].index = e.index /\ l[pos].term = e.term)
  <2> SUFFICES ASSUME pos # 0, l[pos].index = e.index, l[pos].term = e.term
               PROVE  FALSE
    BY ZenonT(60)
  <2>1. pos \in 1..Len(l) /\ DOMAIN l = 1..Len(l)
    <3>1. pos \in 0..Len(l)
      <4> HIDE DEF e
      <4> QED BY SMTT(90), <1>0, <1>1, GetLogNodeRange
    <3> HIDE DEF pos
    <3> QED BY SMTT(90), <1>0, <3>1, LenProperties
  <2>2. l[pos] \in Known
    BY ZenonT(60), <2>1, KnownElements
  <2>3. l[pos].index <= logCurrentIndex(l)
    BY ZenonT(60), <1>1, <2>2 DEF EntryInv, LeaderAhead
  <2> HIDE DEF pos
  <2> QED BY SMTT(90), <1>0, <1>1, <2>3
<1> HIDE DEF e
<1>4. \E s \in Seq(Entry) : log'[n] = Append(s, e)
  <2>1. logTruncate(l, e.index) \in Seq(Entry)
    <3>1. CASE e.index < Len(l)
      <4>1. \A i \in 1 .. e.index - 1 : l[i] \in Entry
        BY SMTT(90), <1>0, <1>1, <3>1
      <4>2. SubSeq(l, 1, e.index - 1) \in Seq(Entry)
        BY SMTT(90), <1>0, <1>1, <4>1, SubSeqProperties
      <4> QED BY SMTT(90), <3>1, <4>2 DEF logTruncate
    <3>2. CASE ~(e.index < Len(l))
      BY SMTT(90), <1>0, <3>2 DEF logTruncate
    <3> QED BY SMTT(90), <3>1, <3>2
  <2> QED BY ZenonT(60), <1>0, <1>2, <1>3, <2>1 DEF logWriteEntry
<1>5. PICK s \in Seq(Entry) : log'[n] = Append(s, e)
  BY SMTT(90), <1>4
<1>6. log'[n] # <<>> /\ log'[n][Len(log'[n])] = e
  BY SMTT(90), <1>1, <1>5, AppendProperties
<1> QED BY ZenonT(60), <1>1, <1>6 DEF logCurrentIndex, e

(* Every step keeps EntryInv.                                              *)
LEMMA NextEntry ==
  ASSUME SteadyNodes, TypeOK, TypeOK', ElectionInv, ElectionInv', EntryInv, [Next]_vars
  PROVE  EntryInv'
<1>0. /\ state \in [Node -> {FOLLOWER, CANDIDATE, LEADER}]
      /\ elected \in [Term -> SUBSET Node] /\ elected' \in [Term -> SUBSET Node]
      /\ \A k \in Node : current_term[k] \in Term /\ current_term'[k] \in Term
      /\ \A k \in Node : current_term[k] \in Nat /\ current_term'[k] \in Nat
      /\ \A t \in Term : t \in Nat
      /\ \A k \in Node : logCurrentIndex(log[k]) \in Nat
      /\ \A e \in Known : e \in Entry
  <2>1. /\ state \in [Node -> {FOLLOWER, CANDIDATE, LEADER}]
        /\ elected \in [Term -> SUBSET Node] /\ elected' \in [Term -> SUBSET Node]
        /\ \A k \in Node : current_term[k] \in Term /\ current_term'[k] \in Term
    BY ZenonT(60) DEF TypeOK
  <2>2. \A t \in Term : t \in Nat
    BY SMTT(90), TermFacts
  <2>3. /\ \A k \in Node : logCurrentIndex(log[k]) \in Nat
        /\ \A e \in Known : e \in Entry
    BY ZenonT(60), LogTypes, KnownTypes
  <2> QED BY ZenonT(60), <2>1, <2>2, <2>3
<1>1. ~ \E n \in Node : clusterInit(n)
  BY SMTT(90) DEF clusterInit, SteadyNodes, TypeOK
<1>2. \A t \in Term : elected[t] \subseteq elected'[t]
  BY ZenonT(60), ElectedGrows
<1>3. ElectionSafety /\ ElectionSafety'
  <2>1. (TypeOK /\ ElectionInv => ElectionSafety)'
    BY OneElected, PTL
  <2> QED BY SMTT(90), <2>1, OneElected
<1>4. ASSUME NEW n \in Node, NEW cmd \in Cmd, clusterProcessCommand(n, cmd)
      PROVE  /\ state[n] = LEADER /\ n \in elected[current_term[n]]
             /\ NewEntry(n, cmd).term = current_term[n]
             /\ NewEntry(n, cmd).index = logCurrentIndex(log[n]) + 1
             /\ NewEntry(n, cmd).index = logCurrentIndex(log'[n])
             /\ NewEntry(n, cmd) = log'[n][Len(log'[n])]
  <2>1. state[n] = LEADER /\ n \in elected[current_term[n]]
    BY ZenonT(60), <1>4 DEF clusterProcessCommand, ElectionInv, InOffice
  <2>2. log'[n] = logWriteEntry(log[n], NewEntry(n, cmd))
    <3>1. log \in [Node -> Seq(Entry)]
      BY ZenonT(60) DEF TypeOK
    <3> QED BY ZenonT(60), <1>4, <3>1 DEF clusterProcessCommand
  <2>3. /\ logCurrentIndex(log'[n]) = logCurrentIndex(log[n]) + 1
        /\ log'[n][Len(log'[n])] = NewEntry(n, cmd)
    BY ZenonT(60), <2>1, <2>2, CommandLast
  <2> QED BY ZenonT(60), <2>1, <2>3 DEF NewEntry
<1>5. OfficeOnce'
  <2>1. ASSUME NEW t \in Term, NEW n \in elected'[t] PROVE t <= current_term'[n]
    <3>1. n \in Node /\ (n \in elected[t] \/ t = current_term[n])
      BY ZenonT(60), <1>0, <2>1, ElectedGrows
    <3>2. t <= current_term[n]
      BY SMTT(90), <1>0, <3>1 DEF EntryInv, OfficeOnce
    <3>3. current_term[n] <= current_term'[n]
      BY ZenonT(60), <1>0, <1>1, <3>1, OfficeStep
    <3> QED BY SMTT(90), <1>0, <3>1, <3>2, <3>3
  <2>2. ASSUME NEW n \in Node, state'[n] = CANDIDATE, n \in elected'[current_term'[n]]
        PROVE  FALSE
    <3>0. CANDIDATE # LEADER
      BY DEF CANDIDATE, LEADER
    <3>1. n \in elected[current_term'[n]]
      BY ZenonT(60), <1>0, <2>2, <3>0, ElectedGrows, TakesOffice
    <3>2. current_term'[n] <= current_term[n]
      BY SMTT(90), <1>0, <3>1 DEF EntryInv, OfficeOnce
    <3>3. state[n] = CANDIDATE /\ current_term'[n] = current_term[n]
      <4> HIDE DEF EntryInv
      <4>1. \/ current_term'[n] > current_term[n]
            \/ state[n] = CANDIDATE /\ current_term'[n] = current_term[n]
        BY ZenonT(60), <2>2, OfficeStep
      <4> QED BY SMTT(90), <1>0, <3>2, <4>1
    <3> QED BY SMTT(90), <3>1, <3>3 DEF EntryInv, OfficeOnce
  <2> QED BY ZenonT(60), <2>1, <2>2 DEF OfficeOnce
<1>6. MadeInOffice'
  <2> SUFFICES ASSUME NEW e \in Known' PROVE elected'[e.term] # {}
    BY SMTT(90) DEF MadeInOffice
  <2>1. CASE e \in Known
    <3>1. e.term \in Term
      BY SMTT(90), <1>0, <2>1 DEF Entry
    <3> QED BY SMTT(90), <1>2, <2>1, <3>1 DEF EntryInv, MadeInOffice
  <2>2. CASE e \notin Known
    <3>1. PICK n \in Node, cmd \in Cmd : clusterProcessCommand(n, cmd) /\ e = NewEntry(n, cmd)
      BY SMTT(90), <2>2, KnownStep
    <3>2. n \in elected[e.term] /\ e.term \in Term
      BY ZenonT(60), <1>0, <1>4, <3>1
    <3> QED BY SMTT(90), <1>2, <3>2
  <2> QED BY SMTT(90), <2>1, <2>2
<1>7. LeaderAhead'
  <2> SUFFICES ASSUME NEW n \in Node, state'[n] = LEADER,
                      NEW e \in Known', e.term = current_term'[n]
               PROVE  e.index <= logCurrentIndex(log'[n])
    BY SMTT(90) DEF LeaderAhead
  <2>0. current_term'[n] = current_term[n] /\ (state[n] = LEADER \/ CronBecomeLeader(n))
    BY ZenonT(60), OfficeStep
  <2>1. CASE e \notin Known
    <3>1. PICK k \in Node, cmd \in Cmd : clusterProcessCommand(k, cmd) /\ e = NewEntry(k, cmd)
      BY SMTT(90), <2>1, KnownStep
    <3>2. state' = state
      BY ZenonT(60), <3>1 DEF clusterProcessCommand, electionVars
    <3>3. n \in elected[current_term[n]]
      BY ZenonT(60), <3>2 DEF ElectionInv, InOffice
    <3>4. k \in elected[current_term[k]] /\ current_term[k] = current_term[n]
      BY ZenonT(60), <1>4, <2>0, <3>1
    <3>5. k = n
      BY ZenonT(60), <1>0, <1>3, <3>3, <3>4 DEF ElectionSafety
    <3>6. e.index = logCurrentIndex(log'[n]) /\ e.index = logCurrentIndex(log[n]) + 1
      BY ZenonT(60), <1>4, <3>1, <3>5
    <3> QED BY SMTT(90), <1>0, <3>6
  <2>2. CASE e \in Known /\ state[n] = LEADER
    <3>1. e.index <= logCurrentIndex(log[n])
      BY ZenonT(60), <2>0, <2>2 DEF EntryInv, LeaderAhead
    <3>2. CASE log'[n] = log[n]
      BY SMTT(90), <3>1, <3>2
    <3>3. CASE \E cmd \in Cmd : log'[n] = logWriteEntry(log[n], NewEntry(n, cmd))
      <4>1. logCurrentIndex(log'[n]) = logCurrentIndex(log[n]) + 1
        BY ZenonT(60), <2>2, <3>3, CommandLast
      <4>2. e.index \in Nat
        BY SMTT(90), <1>0, <2>2 DEF Entry
      <4> QED BY SMTT(90), <1>0, <3>1, <4>1, <4>2
    <3> QED BY ZenonT(60), <2>0, <2>2, <3>2, <3>3, LeaderWritesAloneStep
  <2>3. CASE e \in Known /\ CronBecomeLeader(n)
    <3>1. n \notin elected[e.term] /\ e.term \in Term /\ n \in elected'[e.term]
      BY ZenonT(60), <1>0, <2>0, <2>3, TakesOffice DEF EntryInv, OfficeOnce
    <3>2. PICK a \in elected[e.term] : TRUE
      BY SMTT(90), <2>3 DEF EntryInv, MadeInOffice
    <3>3. a \in elected'[e.term]
      BY SMTT(90), <1>2, <3>1, <3>2
    <3> QED BY ZenonT(60), <1>3, <3>1, <3>2, <3>3 DEF ElectionSafety
  <2> QED BY SMTT(90), <2>0, <2>1, <2>2, <2>3
<1>8. KnownUnique'
  <2> SUFFICES ASSUME NEW e \in Known', NEW f \in Known', e.index = f.index,
                      e.term = f.term
               PROVE  e.cmd = f.cmd
    BY SMTT(90) DEF KnownUnique
  <2>1. ASSUME NEW n \in Node, NEW cmd \in Cmd, clusterProcessCommand(n, cmd),
               NEW g \in Known, g.term = NewEntry(n, cmd).term,
               g.index = NewEntry(n, cmd).index
        PROVE  FALSE
    <3>1. g.index <= logCurrentIndex(log[n])
      BY ZenonT(60), <1>4, <2>1 DEF EntryInv, LeaderAhead
    <3> QED BY SMTT(90), <1>0, <1>4, <2>1, <3>1
  <2>2. CASE e \in Known /\ f \in Known
    BY SMTT(90), <2>2 DEF EntryInv, KnownUnique
  <2>3. CASE e \notin Known /\ f \notin Known
    <3>1. PICK n \in Node, c \in Cmd : clusterProcessCommand(n, c) /\ e = NewEntry(n, c)
      BY SMTT(90), <2>3, KnownStep
    <3>2. PICK m \in Node, d \in Cmd : clusterProcessCommand(m, d) /\ f = NewEntry(m, d)
      BY SMTT(90), <2>3, KnownStep
    <3>3. n \in elected[e.term] /\ m \in elected[f.term] /\ e.term \in Term
      BY ZenonT(60), <1>0, <1>4, <3>1, <3>2
    <3>4. n = m
      BY ZenonT(60), <1>3, <3>3 DEF ElectionSafety
    <3>5. e = log'[n][Len(log'[n])] /\ f = log'[n][Len(log'[n])]
      BY ZenonT(60), <1>4, <3>1, <3>2, <3>4
    <3> QED BY SMTT(90), <3>5
  <2>4. CASE e \notin Known /\ f \in Known
    <3>1. PICK n \in Node, c \in Cmd : clusterProcessCommand(n, c) /\ e = NewEntry(n, c)
      BY SMTT(90), <2>4, KnownStep
    <3> QED BY ZenonT(60), <2>1, <2>4, <3>1
  <2>5. CASE e \in Known /\ f \notin Known
    <3>1. PICK n \in Node, c \in Cmd : clusterProcessCommand(n, c) /\ f = NewEntry(n, c)
      BY SMTT(90), <2>5, KnownStep
    <3> QED BY ZenonT(60), <2>1, <2>5, <3>1
  <2> QED BY ZenonT(60), <2>2, <2>3, <2>4, <2>5
<1> QED BY ZenonT(60), <1>5, <1>6, <1>7, <1>8 DEF EntryInv

(* At the start there are no entries and no messages.                      *)
LEMMA InitEntry == Init => EntryInv
<1> SUFFICES ASSUME Init PROVE EntryInv
  BY SMTT(30)
<1>0. DOMAIN <<>> = {}
  BY SMTT(90)
<1>1. ASSUME NEW n \in Node, NEW m \in Node PROVE Packets(n, m) = {}
  <2>1. req[n][m] = <<>> /\ stale[n][m] = {}
    BY ZenonT(60) DEF Init
  <2>2. ASSUME NEW x \in Packets(n, m) PROVE FALSE
    BY ZenonT(60), <1>0, <2>1, PacketsElements
  <2> QED BY SMTT(90), <2>2
<1>2. Known = {}
  <2>1. ASSUME NEW n \in Node, NEW m \in Node, NEW e \in Carried(n, m) PROVE FALSE
    BY ZenonT(60), <1>1, CarriedElements
  <2>2. ASSUME NEW n \in Node PROVE DOMAIN log[n] = {}
    BY ZenonT(60), <1>0 DEF Init
  <2>3. ASSUME NEW e \in Known PROVE FALSE
    BY ZenonT(60), <2>1, <2>2, KnownElements
  <2> QED BY <2>3
<1>3. KnownUnique /\ MadeInOffice /\ LeaderAhead
  BY ZenonT(60), <1>2 DEF KnownUnique, MadeInOffice, LeaderAhead
<1>4. OfficeOnce
  <2>1. \A t \in Term : elected[t] = {}
    BY ZenonT(60) DEF Init
  <2>2. \A n \in Node : state[n] # CANDIDATE
    BY ZenonT(60) DEF Init, FOLLOWER, CANDIDATE
  <2> QED BY ZenonT(60), <2>1, <2>2 DEF OfficeOnce
<1> QED BY ZenonT(60), <1>3, <1>4 DEF EntryInv

(* Entries of a log are among those that exist.                            *)
LEMMA UniqueInLogs ==
  ASSUME TypeOK, EntryInv
  PROVE  EntryUnique
<1>1. ASSUME NEW n \in Node, NEW p \in 1..Len(log[n]) PROVE log[n][p] \in Known
  <2>1. DOMAIN log[n] = 1..Len(log[n])
    BY SMTT(90), LogTypes, LenProperties
  <2> QED BY ZenonT(60), <2>1, KnownElements
<1> QED BY ZenonT(60), <1>1 DEF EntryInv, KnownUnique, EntryUnique

(* EntryInv is an invariant: entries are made once, by the leader of their *)
(* term (clusterProcessCommand), and copied from then on                   *)
(* (clusterSendAppendEntries, logAppendEntries), also when a batch comes   *)
(* late on a closed connection or truncates the log it is written to.      *)
THEOREM EntryInvariant == SteadyNodes => (Spec => []EntryInv)
<1> SUFFICES ASSUME SteadyNodes PROVE Spec => []EntryInv
  BY ZenonT(60)
<1>1. TypeOK /\ TypeOK' /\ ElectionInv /\ ElectionInv' /\ EntryInv /\ [Next]_vars => EntryInv'
  BY ZenonT(60), NextEntry
<1> QED BY <1>1, InitEntry, ElectionInvariant, TypeCorrect, PTL DEF Spec

(* Wherever two logs hold an entry of the same index and term they hold    *)
(* the same command, for every number of nodes, terms and entries, under   *)
(* the conditions of ElectionSafe.                                         *)
THEOREM EntriesUnique == SteadyNodes => (Spec => []EntryUnique)
<1>1. TypeOK /\ EntryInv => EntryUnique
  BY ZenonT(60), UniqueInLogs
<1> QED BY <1>1, EntryInvariant, TypeCorrect, PTL
=============================================================================
