--------------------------- MODULE PrezTypeProofs --------------------------
(***************************************************************************)
(* What the operations of log.c return, for every list and every batch of  *)
(* entries, and TypeOK, an invariant of PrezCluster for every value of its *)
(* constants.  logAppendEntries is a recursive function, so its facts are  *)
(* proved by looking at the least position at which they could fail.  Then *)
(* what a step does to the AppendEntries on the bus, to the logs and to    *)
(* the offices held: the facts that the proofs about entries and about one *)
(* leader's log both rest on.                                              *)
(***************************************************************************)
EXTENDS PrezReplicationInv, FiniteSetTheorems, SequenceTheorems, TLAPS

LogEntry(T, C) == [index : Nat, term : T, cmd : C]

(* A non-empty set of natural numbers has a least element.                 *)
LEMMA NatMin ==
  ASSUME NEW T \in SUBSET Nat, T # {}
  PROVE  \E x \in T : \A y \in T : x <= y
<1>1. \E x \in T : \A y \in T : ~ (<<y, x>> \in OpToRel(<, Nat))
  BY ZenonT(60), NatLessThanWellFounded, WFMin
<1>2. \A x, y \in Nat : ~ (<<y, x>> \in OpToRel(<, Nat)) => x <= y
  BY DEF OpToRel
<1> QED BY ZenonT(60), <1>1, <1>2

(* f[k] is the list after the first k entries of a batch, and f ends with  *)
(* what logAppendEntries returns.                                          *)
WrittenBy(f, l, entries) ==
    /\ f[0] = l
    /\ \A k \in 1..Len(entries) : f[k] = logWriteEntry(f[k - 1], entries[k])
    /\ logAppendEntries(l, entries) = f[Len(entries)]

(* The recursive function of logAppendEntries exists: it is the list after *)
(* each of the entries, written one after the other.                       *)
LEMMA AppendEntriesUnfold ==
  ASSUME NEW l, NEW entries, Len(entries) \in Nat
  PROVE  \E f : WrittenBy(f, l, entries)
<1> DEFINE N == Len(entries)
           Fix(f, n) == f = [k \in 0..n |->
                               IF k = 0 THEN l ELSE logWriteEntry(f[k - 1], entries[k])]
           T == {n \in 0..N : ~ \E f : Fix(f, n)}
<1>0. /\ N \in Nat /\ T \in SUBSET Nat
      /\ \A n : n \in T <=> n \in 0..N /\ ~ \E f : Fix(f, n)
  OBVIOUS
<1>1. T = {}
  <2>1. SUFFICES ASSUME T # {} PROVE FALSE
    OBVIOUS
  <2> HIDE DEF T, N
  <2>2. PICK n \in T : \A y \in T : n <= y
    BY ZenonT(60), <2>1, <1>0, NatMin
  <2>3. CASE n = 0
    <3>1. Fix([k \in 0..0 |-> l], 0)
      OBVIOUS
    <3> QED BY ZenonT(60), <3>1, <2>3, <2>2, <1>0
  <2>4. CASE n # 0
    <3>0. n \in 1..N
      BY <2>4, <2>2, <1>0
    <3>1. n - 1 \in 0..N /\ n - 1 \notin T
      <4> HIDE DEF Fix
      <4> QED BY <2>2, <3>0, <1>0
    <3>2. PICK f : Fix(f, n - 1)
      <4> HIDE DEF Fix
      <4> QED BY <3>1, <1>0
    <3> DEFINE g == [k \in 0..n |->
                       IF k = n THEN logWriteEntry(f[n - 1], entries[n]) ELSE f[k]]
    <3>3. Fix(g, n)
      BY SMTT(30), <3>2, <3>0, <1>0
    <3> HIDE DEF Fix
    <3> QED BY <3>3, <2>2, <1>0
  <2> QED BY <2>3, <2>4
<1>2. \E f : Fix(f, N)
  BY <1>1, <1>0
<1>3. PICK f : Fix(f, N) /\ logAppendEntries(l, entries) = f[N]
  BY ZenonT(60), <1>2 DEF logAppendEntries
<1>4. ASSUME NEW h, NEW k \in 0..N, Fix(h, N)
      PROVE  h[k] = IF k = 0 THEN l ELSE logWriteEntry(h[k - 1], entries[k])
  <2> DEFINE F(j) == IF j = 0 THEN l ELSE logWriteEntry(h[j - 1], entries[j])
  <2>1. h = [j \in 0..N |-> F(j)]
    BY SMTT(30), <1>4
  <2> HIDE DEF F
  <2>2. h[k] = F(k)
    BY <2>1
  <2> QED BY <2>2 DEF F
<1>5. f[0] = l
  BY SMTT(30), <1>0, <1>3, <1>4
<1>6. \A k \in 1..N : f[k] = logWriteEntry(f[k - 1], entries[k])
  <2> TAKE k \in 1..N
  <2>1. k \in 0..N /\ k # 0
    BY <1>0
  <2> HIDE DEF Fix, N
  <2> QED BY SMTT(30), <2>1, <1>3, <1>4
<1>7. WrittenBy(f, l, entries)
  BY SMTT(30), <1>3, <1>5, <1>6 DEF WrittenBy
<1> QED BY <1>7

(* getLogNode returns a position of the list, or NULL.                     *)
LEMMA GetLogNodeRange ==
  ASSUME NEW S, NEW l \in Seq(S), NEW index \in Int
  PROVE  getLogNode(l, index) \in 0..Len(l)
BY DEF getLogNode, listIndex

(* What the readers of the list return.                                    *)
LEMMA LogReadTypes ==
  ASSUME NEW T, NEW C, NEW l \in Seq(LogEntry(T, C))
  PROVE  /\ logCurrentIndex(l) \in Nat
         /\ logCurrentTerm(l) \in T \cup {0}
         /\ \A index \in Int : logGetTerm(l, index) \in T \cup {0}
<1>0. ASSUME NEW i \in 1..Len(l)
      PROVE  l[i].index \in Nat /\ l[i].term \in T
  <2>1. l[i] \in LogEntry(T, C)
    BY ElementOfSeq
  <2> QED BY <2>1 DEF LogEntry
<1>1. logCurrentIndex(l) \in Nat /\ logCurrentTerm(l) \in T \cup {0}
  <2>1. CASE l = <<>>
    BY <2>1 DEF logCurrentIndex, logCurrentTerm
  <2>2. CASE l # <<>>
    <3>1. Len(l) \in 1..Len(l)
      BY <2>2, EmptySeq
    <3> QED BY <3>1, <2>2, <1>0 DEF logCurrentIndex, logCurrentTerm
  <2> QED BY <2>1, <2>2
<1>2. ASSUME NEW index \in Int
      PROVE  logGetTerm(l, index) \in T \cup {0}
  <2>1. getLogNode(l, index) \in 0..Len(l)
    BY GetLogNodeRange
  <2>2. getLogNode(l, index) # 0 => getLogNode(l, index) \in 1..Len(l)
    BY <2>1
  <2> QED BY <2>2, <1>0 DEF logGetTerm
<1> QED BY <1>1, <1>2

(* Writing an entry brings nothing but that entry into the list.           *)
LEMMA WriteEntryWithin ==
  ASSUME NEW E, \A x \in E : x.index \in Nat, NEW l \in Seq(E), NEW e \in E
  PROVE  logWriteEntry(l, e) \in Seq(E)
<1>1. e.index \in Nat
  OBVIOUS
<1>2. logTruncate(l, e.index) \in Seq(E)
  <2>1. CASE e.index < Len(l)
    <3>1. \A i \in 1 .. e.index - 1 : l[i] \in E
      BY <2>1, <1>1
    <3>2. SubSeq(l, 1, e.index - 1) \in Seq(E)
      BY <3>1, <1>1, SubSeqProperties
    <3> QED BY <3>2, <2>1 DEF logTruncate
  <2>2. CASE ~(e.index < Len(l))
    BY <2>2 DEF logTruncate
  <2> QED BY <2>1, <2>2
<1>3. Append(l, e) \in Seq(E) /\ Append(logTruncate(l, e.index), e) \in Seq(E)
  BY <1>2, AppendProperties
<1> QED BY <1>3 DEF logWriteEntry

(* Writing a batch brings nothing but its entries into the list: what was  *)
(* listed or received before is all that is listed after.                  *)
LEMMA AppendEntriesWithin ==
  ASSUME NEW E, \A x \in E : x.index \in Nat, NEW l \in Seq(E),
         NEW entries \in Seq(E)
  PROVE  logAppendEntries(l, entries) \in Seq(E)
<1> DEFINE N == Len(entries)
<1>1. N \in Nat
  OBVIOUS
<1>0. PICK f : WrittenBy(f, l, entries)
  <2>1. Len(entries) \in Nat
    BY LenProperties
  <2> QED BY ZenonT(60), <2>1, AppendEntriesUnfold
<1>2. /\ f[0] = l
      /\ \A k \in 1..N : f[k] = logWriteEntry(f[k - 1], entries[k])
      /\ logAppendEntries(l, entries) = f[N]
  BY <1>0 DEF WrittenBy
<1> DEFINE Bad == {k \in 0..N : f[k] \notin Seq(E)}
<1>4. Bad = {}
  <2>1. SUFFICES ASSUME Bad # {} PROVE FALSE
    OBVIOUS
  <2>2. PICK k \in Bad : \A y \in Bad : k <= y
    <3>1. Bad \in SUBSET Nat
      OBVIOUS
    <3> HIDE DEF Bad
    <3> QED BY <2>1, <3>1, NatMin
  <2>3. k # 0
    BY <1>2
  <2>4. k \in 1..N /\ k - 1 \in 0..N /\ k - 1 \notin Bad
    BY <2>2, <2>3
  <2>5. f[k - 1] \in Seq(E) /\ entries[k] \in E
    BY <2>4
  <2>6. f[k] \in Seq(E)
    BY ZenonT(60), <2>4, <2>5, <1>2, WriteEntryWithin
  <2> QED BY <2>6
<1> QED BY <1>4, <1>1, <1>2

(* In particular it keeps the list a list of entries.                      *)
LEMMA AppendEntriesType ==
  ASSUME NEW T, NEW C, NEW l \in Seq(LogEntry(T, C)),
         NEW entries \in Seq(LogEntry(T, C))
  PROVE  logAppendEntries(l, entries) \in Seq(LogEntry(T, C))
<1>1. \A x \in LogEntry(T, C) : x.index \in Nat
  BY DEF LogEntry
<1> QED BY <1>1, AppendEntriesWithin

(* Writing one entry does too.                                             *)
LEMMA WriteEntryType ==
  ASSUME NEW T, NEW C, NEW l \in Seq(LogEntry(T, C)), NEW e \in LogEntry(T, C)
  PROVE  logWriteEntry(l, e) \in Seq(LogEntry(T, C))
<1>1. \A x \in LogEntry(T, C) : x.index \in Nat
  BY DEF LogEntry
<1> QED BY <1>1, WriteEntryWithin

----------------------------------------------------------------------------
(* Queues after one operation on them.                                     *)

(* The elements of a tail, in terms of the sequence.                       *)
LEMMA TailElements ==
  ASSUME NEW S, NEW q \in Seq(S), q # <<>>
  PROVE  /\ 1 \in DOMAIN q /\ Head(q) = q[1]
         /\ \A i \in DOMAIN Tail(q) :
              i \in Nat /\ i >= 1 /\ i + 1 \in DOMAIN q /\ Tail(q)[i] = q[i + 1]
<1>1. /\ Len(q) \in Nat /\ Len(q) > 0 /\ DOMAIN q = 1..Len(q)
  BY EmptySeq, LenProperties
<1>2. /\ Head(q) = q[1] /\ Len(Tail(q)) = Len(q) - 1
      /\ \A i \in 1..Len(Tail(q)) : Tail(q)[i] = q[i + 1]
      /\ Tail(q) \in Seq(S)
  BY HeadTailProperties
<1>3. DOMAIN Tail(q) = 1..Len(Tail(q))
  BY <1>2, LenProperties
<1> QED BY <1>1, <1>2, <1>3

(* The elements of an extended sequence, in terms of the sequence.         *)
LEMMA AppendElements ==
  ASSUME NEW S, NEW q \in Seq(S), NEW x
  PROVE  /\ \A i \in DOMAIN q : i \in Nat /\ i # Len(q) + 1
         /\ Len(q) + 1 \in DOMAIN Append(q, x) /\ Append(q, x)[Len(q) + 1] = x
         /\ \A i \in DOMAIN Append(q, x) :
              \/ i \in DOMAIN q /\ Append(q, x)[i] = q[i]
              \/ i = Len(q) + 1 /\ Append(q, x)[i] = x
<1> DEFINE T == S \cup {x}
<1>0. q \in Seq(T) /\ x \in T
  OBVIOUS
<1> HIDE DEF T
<1>1. Len(q) \in Nat /\ DOMAIN q = 1..Len(q)
  BY <1>0, LenProperties
<1>2. /\ Append(q, x) \in Seq(T) /\ Len(Append(q, x)) = Len(q) + 1
      /\ \A i \in 1..Len(q) : Append(q, x)[i] = q[i]
      /\ Append(q, x)[Len(q) + 1] = x
  BY <1>0, AppendProperties
<1>3. DOMAIN Append(q, x) = 1..Len(Append(q, x))
  BY <1>2, LenProperties
<1> QED BY <1>1, <1>2, <1>3

----------------------------------------------------------------------------
(* Extremes of finite sets.                                                *)

(* Every natural number is an integer.                                     *)
LEMMA NatIsInt == \A x : x \in Nat => x \in Int
  OBVIOUS

(* A function from a non-empty finite set to the integers has a minimum.   *)
LEMMA ArgMin ==
  ASSUME NEW S, IsFiniteSet(S), S # {}, NEW f \in [S -> Int]
  PROVE  \E x \in S : \A y \in S : f[x] <= f[y]
<1>1. PICK n \in Nat : ExistsSurjection(1..n, S)
  BY FS_NatSurjection
<1>2. PICK g \in [1..n -> S] : \A s \in S : \E i \in 1..n : g[i] = s
  BY ZenonT(60), <1>1 DEF ExistsSurjection, Surjection
<1>3. n >= 1
  BY <1>2
<1> DEFINE Least(i, k) == \A j \in 1..k : f[g[i]] <= f[g[j]]
           Bad == {k \in 1..n : ~ \E i \in 1..k : Least(i, k)}
<1>4. Bad = {}
  <2>1. SUFFICES ASSUME Bad # {} PROVE FALSE
    OBVIOUS
  <2>2. PICK k \in Bad : \A y \in Bad : k <= y
    <3>1. Bad \in SUBSET Nat
      OBVIOUS
    <3> HIDE DEF Bad
    <3> QED BY <2>1, <3>1, NatMin
  <2>3. k # 1
    <3>1. Least(1, 1)
      BY <1>2, <1>3
    <3> QED BY <3>1
  <2>4. k \in 2..n /\ k - 1 \in 1..n /\ k - 1 \notin Bad
    <3> HIDE DEF Least
    <3> QED BY <2>2, <2>3
  <2>5. PICK i \in 1..(k - 1) : Least(i, k - 1)
    <3> HIDE DEF Least
    <3> QED BY <2>4
  <2>6. f[g[i]] \in Int /\ f[g[k]] \in Int /\ \A j \in 1..(k - 1) : f[g[j]] \in Int
    BY SMTT(90), <2>4, <1>2
  <2>7. Least(i, k) \/ Least(k, k)
    BY SMTT(90), <2>4, <2>5, <2>6
  <2>8. i \in 1..k /\ k \in 1..k
    BY <2>4
  <2> HIDE DEF Least
  <2> QED BY <2>7, <2>8
<1>5. PICK i \in 1..n : Least(i, n)
  <2>1. n \in 1..n
    BY <1>3
  <2> HIDE DEF Least
  <2> QED BY ZenonT(60), <1>4, <2>1
<1>6. g[i] \in S /\ \A y \in S : f[g[i]] <= f[y]
  BY <1>2, <1>5
<1> QED BY <1>6

(* ... and a maximum.                                                      *)
LEMMA ArgMax ==
  ASSUME NEW S, IsFiniteSet(S), S # {}, NEW f \in [S -> Int]
  PROVE  \E x \in S : \A y \in S : f[x] >= f[y]
<1> DEFINE h == [s \in S |-> 0 - f[s]]
<1>1. h \in [S -> Int]
  OBVIOUS
<1>2. PICK x \in S : \A y \in S : h[x] <= h[y]
  <2> HIDE DEF h
  <2> QED BY <1>1, ArgMin
<1>3. \A y \in S : f[x] >= f[y]
  BY <1>2
<1> QED BY <1>3

(* A quorum is a majority of a finite, non-empty set of nodes.             *)
LEMMA QuorumFacts ==
  /\ Cardinality(Node) \in Nat /\ quorumSize \in Nat
  /\ quorumSize >= 1 /\ quorumSize <= Cardinality(Node)
  /\ quorumSize + quorumSize > Cardinality(Node)
  /\ Node # {}
<1>1. Cardinality(Node) \in Nat /\ Cardinality(Node) >= 2
  BY ClusterAssumption, FS_CardinalityType DEF ClusterAssumption
<1>2. Node # {}
  BY <1>1, FS_EmptySet
<1> QED BY <1>1, <1>2 DEF quorumSize

(* The index clusterUpdateCommitIndex looks at is a match_index, and a     *)
(* quorum of the table has one at least as high.                           *)
LEMMA QuorumMatchReached ==
  ASSUME NEW match \in [Node -> Int]
  PROVE  \E k \in Node :
           /\ QuorumMatch(match) = match[k]
           /\ Cardinality({j \in Node : match[j] >= match[k]}) >= quorumSize
<1> DEFINE Above(k) == {j \in Node : match[j] >= match[k]}
           K == {k \in Node : Cardinality(Above(k)) >= quorumSize}
           V == {match[m] : m \in K}
<1>1. IsFiniteSet(Node)
  BY ClusterAssumption DEF ClusterAssumption
<1>2. PICK low \in Node : \A y \in Node : match[low] <= match[y]
  BY <1>1, QuorumFacts, ArgMin
<1>3. Above(low) = Node
  BY <1>2
<1>4. low \in K
  BY <1>3, QuorumFacts
<1>5. IsFiniteSet(K) /\ K # {}
  <2>1. K \in SUBSET Node
    OBVIOUS
  <2> HIDE DEF K
  <2> QED BY ZenonT(60), <1>1, <1>4, <2>1, FS_Subset
<1>6. PICK top \in K : \A y \in K : match[top] >= match[y]
  <2> DEFINE f == [k \in K |-> match[k]]
  <2>1. f \in [K -> Int]
    OBVIOUS
  <2>2. \E x \in K : \A y \in K : f[x] >= f[y]
    <3> HIDE DEF f, K
    <3> QED BY SMTT(30), <1>5, <2>1, ArgMax
  <2> QED BY ZenonT(60), <2>2
<1>7. /\ V \in SUBSET Int
      /\ \E x \in V : \A y \in V : x >= y
  BY ZenonT(60), <1>6
<1>8. Max(V) \in V
  <2> HIDE DEF V
  <2> QED BY ZenonT(60), <1>7 DEF Max
<1>9. QuorumMatch(match) = Max(V)
  BY DEF QuorumMatch
<1>10. \E k \in K : QuorumMatch(match) = match[k]
  BY ZenonT(60), <1>8, <1>9
<1> QED BY ZenonT(60), <1>10

(* In particular it is an integer.                                         *)
LEMMA QuorumMatchType ==
  ASSUME NEW match \in [Node -> Int]
  PROVE  QuorumMatch(match) \in Int
BY ZenonT(60), QuorumMatchReached

(* The smaller of two integers.                                            *)
LEMMA MinOfTwo ==
  ASSUME NEW a \in Int, NEW b \in Int
  PROVE  /\ Min({a, b}) \in {a, b}
         /\ Min({a, b}) <= a /\ Min({a, b}) <= b
<1>1. \E x \in {a, b} : \A y \in {a, b} : x <= y
  OBVIOUS
<1> QED BY <1>1 DEF Min

----------------------------------------------------------------------------
(* What the parts of a step return, in a state of the right types.         *)

(* The facts about the constants that the typing of a step uses.           *)
LEMMA TermFacts ==
  /\ MaxTerm \in Nat /\ MaxLog \in Nat
  /\ \A t : t \in Term <=> t \in Nat /\ t <= MaxTerm
  /\ 0 \in Term
  /\ Entry = LogEntry(Term, Cmd)
BY ClusterAssumption DEF ClusterAssumption, Term, Entry, LogEntry

(* Updates of a table with one row per node.                               *)
LEMMA UpdateCell ==
  ASSUME NEW S, NEW f \in [Node -> [Node -> S]], NEW n \in Node, NEW m \in Node,
         NEW v \in S
  PROVE  [f EXCEPT ![n][m] = v] \in [Node -> [Node -> S]]
OBVIOUS

(* Replacing one row of a table by a value of the type.                    *)
LEMMA UpdateRow ==
  ASSUME NEW S, NEW f \in [Node -> S], NEW n \in Node, NEW v \in S
  PROVE  [f EXCEPT ![n] = v] \in [Node -> S]
OBVIOUS

(* What the functions of log.c return on a typed log.                      *)
LEMMA LogTypes ==
  ASSUME TypeOK, NEW n \in Node
  PROVE  /\ log[n] \in Seq(Entry)
         /\ logCurrentIndex(log[n]) \in Nat
         /\ logCurrentTerm(log[n]) \in Term
         /\ \A index \in Int : logGetTerm(log[n], index) \in Term
<1>1. log[n] \in Seq(LogEntry(Term, Cmd))
  BY TermFacts DEF TypeOK
<1>2. Term \cup {0} = Term
  BY TermFacts
<1> QED BY ZenonT(60), <1>1, <1>2, LogReadTypes, TermFacts

(* What is read from a connection, open or closed, is a request.           *)
LEMMA SourceTypes ==
  ASSUME TypeOK, NEW n \in Node, NEW m \in Node, NEW src \in Sources(n, m)
  PROVE  /\ src.queue \in Seq(Request) /\ src.queue # <<>>
         /\ Head(src.queue) \in Request
         /\ Tail(src.queue) \in Seq(Request)
         /\ ~src.closed => src.queue = req[n][m]
         /\ src.closed => src.queue \in stale[n][m]
         /\ src.closed \in BOOLEAN
<1>1. \/ src.closed = FALSE /\ src.queue = req[n][m] /\ src.queue # <<>>
      \/ src.closed = TRUE /\ src.queue \in stale[n][m]
  BY ZenonT(60) DEF Sources
<1>2. /\ req[n][m] \in Seq(Request)
      /\ stale[n][m] \in SUBSET (Seq(Request) \ {<<>>})
  BY SMTT(90) DEF TypeOK
<1>3. src.queue \in Seq(Request) /\ src.queue # <<>>
  BY ZenonT(60), <1>1, <1>2
<1>4. Head(src.queue) \in Request /\ Tail(src.queue) \in Seq(Request)
  BY <1>3, HeadTailProperties
<1> QED BY ZenonT(60), <1>1, <1>3, <1>4

(* Answering a request keeps the types of the bus.                         *)
LEMMA AnswerTypes ==
  ASSUME TypeOK, NEW n \in Node, NEW m \in Node, NEW src \in Sources(n, m),
         NEW reply \in Response, Answer(n, m, src, reply)
  PROVE  /\ link' = link
         /\ req' \in [Node -> [Node -> Seq(Request)]]
         /\ resp' \in [Node -> [Node -> Seq(Response)]]
         /\ stale' \in [Node -> [Node -> SUBSET (Seq(Request) \ {<<>>})]]
<1>0. /\ req \in [Node -> [Node -> Seq(Request)]]
      /\ resp \in [Node -> [Node -> Seq(Response)]]
      /\ stale \in [Node -> [Node -> SUBSET (Seq(Request) \ {<<>>})]]
  BY ZenonT(60) DEF TypeOK
<1>1. CASE src.closed
  <2> DEFINE rest == (stale[n][m] \ {src.queue}) \cup ({Tail(src.queue)} \ {<<>>})
  <2>1. rest \in SUBSET (Seq(Request) \ {<<>>})
    <3>1. Tail(src.queue) \in Seq(Request)
      BY SourceTypes
    <3>2. stale[n][m] \in SUBSET (Seq(Request) \ {<<>>})
      BY ZenonT(60), <1>0
    <3> HIDE <1>0
    <3> QED BY ZenonT(60), <3>1, <3>2
  <2>2. /\ stale' = [stale EXCEPT ![n][m] = rest]
        /\ UNCHANGED <<link, req, resp>>
    BY ZenonT(60), <1>0, <1>1 DEF Answer
  <2> DEFINE Q == SUBSET (Seq(Request) \ {<<>>})
  <2>3. stale \in [Node -> [Node -> Q]] /\ rest \in Q
    BY ZenonT(60), <1>0, <2>1
  <2> HIDE DEF rest, Q
  <2>4. stale' \in [Node -> [Node -> Q]]
    BY ZenonT(60), <2>2, <2>3, UpdateCell
  <2> QED BY ZenonT(60), <1>0, <2>2, <2>4 DEF Q
<1>2. CASE ~src.closed
  <2>1. Tail(req[n][m]) \in Seq(Request)
    BY ZenonT(60), <1>2, SourceTypes
  <2>2. Append(resp[n][m], reply) \in Seq(Response)
    BY SMTT(90), <1>0, AppendProperties
  <2>3. /\ req' = [req EXCEPT ![n][m] = Tail(req[n][m])]
        /\ resp' = [resp EXCEPT ![n][m] = Append(resp[n][m], reply)]
        /\ UNCHANGED <<link, stale>>
    BY ZenonT(60), <1>0, <1>2 DEF Answer
  <2>4. req' \in [Node -> [Node -> Seq(Request)]]
    BY ZenonT(60), <1>0, <2>1, <2>3, UpdateCell
  <2>5. resp' \in [Node -> [Node -> Seq(Response)]]
    BY ZenonT(60), <1>0, <2>2, <2>3, UpdateCell
  <2> QED BY ZenonT(60), <1>0, <2>3, <2>4, <2>5
<1> QED BY <1>1, <1>2

(* Opening links keeps the type of the links.                              *)
LEMMA ConnectTypes ==
  ASSUME TypeOK, NEW n \in Node, clusterConnect(n)
  PROVE  link' \in [Node -> [Node -> {DOWN, UP, DEAD}]]
<1>0. link \in [Node -> [Node -> {DOWN, UP, DEAD}]]
  BY DEF TypeOK
<1>1. PICK C \in SUBSET {m \in Peers(n) : link[n][m] = DOWN} :
        link' = [link EXCEPT ![n] = [m \in Node |-> IF m \in C THEN UP ELSE link[n][m]]]
  BY ZenonT(60), <1>0 DEF clusterConnect
<1>2. [m \in Node |-> IF m \in C THEN UP ELSE link[n][m]] \in [Node -> {DOWN, UP, DEAD}]
  BY <1>0
<1> QED BY ZenonT(60), <1>0, <1>1, <1>2, UpdateRow

(* Applying committed entries keeps the types of what it changes.          *)
LEMMA ApplyTypes ==
  ASSUME TypeOK, NEW n \in Node, ApplyCommitted(n)
  PROVE  /\ applied' \in [Node -> Seq(Cmd \cup {Nil})]
         /\ proc_clients' \in [Node -> [1..MaxLog -> Cmd \cup {Nil}]]
<1> DEFINE done == Len(applied[n])
           todo == done + 1 .. commit_index[n]
<1>1. done \in Nat /\ commit_index[n] \in Int
  BY LenProperties DEF TypeOK
<1>2. Cardinality(todo) \in Nat
  <2>1. IsFiniteSet(todo)
    BY SMTT(90), <1>1, FS_Interval
  <2> HIDE DEF todo
  <2> QED BY <2>1, FS_CardinalityType
<1>3. PICK ran \in [1..Cardinality(todo) -> Cmd \cup {Nil}] :
        applied' = [applied EXCEPT ![n] = applied[n] \o ran]
  BY ZenonT(60) DEF ApplyCommitted, TypeOK
<1>4. ran \in Seq(Cmd \cup {Nil})
  <2> DEFINE C == Cardinality(todo)
  <2> HIDE DEF C, todo
  <2> QED BY SMTT(90), <1>2, <1>3 DEF C
<1>5. applied[n] \o ran \in Seq(Cmd \cup {Nil})
  BY ZenonT(60), <1>4, ConcatProperties DEF TypeOK
<1>6. applied' \in [Node -> Seq(Cmd \cup {Nil})]
  BY ZenonT(60), <1>3, <1>5 DEF TypeOK
<1>7. proc_clients' \in [Node -> [1..MaxLog -> Cmd \cup {Nil}]]
  <2> DEFINE row == [i \in 1..MaxLog |->
                       IF state[n] = LEADER /\ i \in todo /\ getLogNode(log[n], i) # 0
                       THEN Nil ELSE proc_clients[n][i]]
  <2>1. proc_clients \in [Node -> [1..MaxLog -> Cmd \cup {Nil}]]
    BY ZenonT(60) DEF TypeOK
  <2>2. proc_clients' = [proc_clients EXCEPT ![n] = row]
    BY ZenonT(60), <2>1 DEF ApplyCommitted
  <2>3. row \in [1..MaxLog -> Cmd \cup {Nil}]
    BY ZenonT(60), <2>1
  <2> HIDE DEF row
  <2> QED BY ZenonT(60), <2>1, <2>2, <2>3
<1> QED BY ZenonT(60), <1>6, <1>7

(* The entries sent are entries of the log, and the last of them, the one  *)
(* last_sent_entry is set to, is an element of the list.                   *)
LEMMA EntriesFromTypes ==
  ASSUME TypeOK, NEW n \in Node, NEW next \in Int
  PROVE  /\ EntriesFrom(n, next) \in Seq(Entry)
         /\ EntriesFrom(n, next) # <<>> =>
              getLogNode(log[n], next) + Len(EntriesFrom(n, next)) - 1
                \in 1..Len(log[n])
<1> DEFINE l == log[n]
           first == getLogNode(l, next)
           last == Min({Len(l), first + MaxEntriesPerRequest - 1})
<1>1. l \in Seq(Entry) /\ Len(l) \in Nat /\ first \in 0..Len(l)
  BY LogTypes, LenProperties, GetLogNodeRange
<1>2. MaxEntriesPerRequest \in Nat
  BY ClusterAssumption DEF ClusterAssumption
<1>3. last \in Int /\ last <= Len(l)
  <2>1. Len(l) \in Int /\ first + MaxEntriesPerRequest - 1 \in Int
    BY <1>1, <1>2
  <2> HIDE DEF l, first
  <2>2. /\ last \in {Len(l), first + MaxEntriesPerRequest - 1}
        /\ last <= Len(l)
    BY ZenonT(60), <2>1, MinOfTwo
  <2> QED BY SMTT(30), <2>1, <2>2
<1>4. CASE logCurrentIndex(l) >= next /\ first # 0
  <2>1. EntriesFrom(n, next) = SubSeq(l, first, last)
    BY ZenonT(60), <1>4 DEF EntriesFrom
  <2> HIDE DEF l, first, last
  <2>2. \A i \in first..last : l[i] \in Entry
    BY SMTT(90), <1>1, <1>3, <1>4, ElementOfSeq
  <2>3. /\ SubSeq(l, first, last) \in Seq(Entry)
        /\ Len(SubSeq(l, first, last)) = IF first <= last THEN last - first + 1 ELSE 0
    BY SMTT(90), <1>1, <1>3, <1>4, <2>2, SubSeqProperties
  <2>4. SubSeq(l, first, last) # <<>> => Len(SubSeq(l, first, last)) # 0
    BY ZenonT(60), <2>3, EmptySeq
  <2>5. SubSeq(l, first, last) # <<>> =>
          first + Len(SubSeq(l, first, last)) - 1 \in 1..Len(l)
    BY SMTT(90), <1>1, <1>3, <1>4, <2>3, <2>4
  <2> QED BY ZenonT(60), <2>1, <2>3, <2>5 DEF l, first
<1>5. CASE ~(logCurrentIndex(l) >= next /\ first # 0)
  <2>1. EntriesFrom(n, next) = <<>>
    BY <1>5 DEF EntriesFrom
  <2> QED BY <2>1
<1> QED BY <1>4, <1>5

(* clusterSendAppendEntries sends typed requests and leaves                *)
(* last_sent_entry within the list.                                        *)
LEMMA SendTypes ==
  ASSUME TypeOK, NEW n \in Node, NEW H \in SUBSET Node,
         next_index' \in [Node -> [Node -> Int]],
         commit_index' \in [Node -> Int],
         clusterSendAppendEntries(n, H)
  PROVE  /\ req' \in [Node -> [Node -> Seq(Request)]]
         /\ last_sent_entry' \in [Node -> [Node -> Int]]
         /\ \A k, m \in Node :
              last_sent_entry'[k][m] \in {NULL, FREED} \cup 1..Len(log[k])
<1> DEFINE next(m) == next_index'[n][m]
           entries(m) == EntriesFrom(n, next(m))
           a(m) == [type |-> "AppendEntries", term |-> current_term[n],
                    prev_log_index |-> next(m) - 1,
                    prev_log_term |-> logGetTerm(log[n], next(m) - 1),
                    leader_commit_index |-> commit_index'[n],
                    log_entries |-> entries(m)]
           sent(m) == IF m \notin H THEN last_sent_entry[n][m]
                      ELSE IF entries(m) = <<>> THEN NULL
                      ELSE getLogNode(log[n], next(m)) + Len(entries(m)) - 1
           queue(m) == IF m \in H /\ link'[n][m] = UP
                       THEN Append(req[n][m], a(m)) ELSE req[n][m]
<1>0. /\ req \in [Node -> [Node -> Seq(Request)]]
      /\ last_sent_entry \in [Node -> [Node -> Int]]
      /\ \A k, m \in Node :
           last_sent_entry[k][m] \in {NULL, FREED} \cup 1..Len(log[k])
      /\ current_term[n] \in Term
  BY ZenonT(60) DEF TypeOK
<1>1. /\ req' = [req EXCEPT ![n] = [m \in Node |-> queue(m)]]
      /\ last_sent_entry' = [last_sent_entry EXCEPT ![n] = [m \in Node |-> sent(m)]]
  BY SMTT(30), <1>0 DEF clusterSendAppendEntries
<1>2. ASSUME NEW m \in Node
      PROVE  queue(m) \in Seq(Request)
  <2>1. next(m) \in Int /\ next(m) - 1 \in Int /\ commit_index'[n] \in Int
    OBVIOUS
  <2>2. entries(m) \in Seq(Entry)
    BY ZenonT(60), <2>1, EntriesFromTypes
  <2>3. logGetTerm(log[n], next(m) - 1) \in Term
    BY ZenonT(60), <2>1, LogTypes
  <2> HIDE DEF next, entries
  <2>4. a(m) \in AppendEntries
    BY ZenonT(60), <1>0, <2>1, <2>2, <2>3 DEF AppendEntries
  <2> HIDE DEF a
  <2>5. a(m) \in Request
    BY <2>4 DEF Request
  <2>6. req[n][m] \in Seq(Request)
    BY ZenonT(60), <1>0
  <2>7. Append(req[n][m], a(m)) \in Seq(Request)
    BY ZenonT(60), <2>5, <2>6, AppendProperties
  <2> QED BY SMTT(30), <2>6, <2>7
<1>3. ASSUME NEW m \in Node
      PROVE  sent(m) \in {NULL, FREED} \cup 1..Len(log[n])
  <2>1. next(m) \in Int
    OBVIOUS
  <2>2. entries(m) # <<>> =>
          getLogNode(log[n], next(m)) + Len(entries(m)) - 1 \in 1..Len(log[n])
    BY ZenonT(60), <2>1, EntriesFromTypes
  <2>3. last_sent_entry[n][m] \in {NULL, FREED} \cup 1..Len(log[n])
    BY SMTT(30), <1>0
  <2> HIDE DEF next, entries
  <2> QED BY ZenonT(60), <2>2, <2>3
<1>4. \A k \in Node : {NULL, FREED} \cup 1..Len(log[k]) \subseteq Int
  BY DEF NULL, FREED
<1> HIDE DEF queue, sent
<1>5. req' \in [Node -> [Node -> Seq(Request)]]
  <2>1. [m \in Node |-> queue(m)] \in [Node -> Seq(Request)]
    BY <1>2
  <2> QED BY ZenonT(60), <1>0, <1>1, <2>1, UpdateRow
<1>6. last_sent_entry' \in [Node -> [Node -> Int]]
  <2>1. [m \in Node |-> sent(m)] \in [Node -> Int]
    BY <1>3, <1>4
  <2> QED BY ZenonT(60), <1>0, <1>1, <2>1, UpdateRow
<1>7. \A k, m \in Node :
        last_sent_entry'[k][m] \in {NULL, FREED} \cup 1..Len(log[k])
  BY ZenonT(60), <1>0, <1>1, <1>3
<1> QED BY ZenonT(60), <1>5, <1>6, <1>7

----------------------------------------------------------------------------
(* Each action preserves the types.                                        *)

(* clusterProcessRequestVote keeps TypeOK.                                 *)
LEMMA RequestVoteTypes ==
  ASSUME TypeOK, NEW n \in Node, NEW m \in Node, NEW src \in Sources(n, m),
         NEW selfVoteRead, clusterProcessRequestVote(n, m, src, selfVoteRead)
  PROVE  TypeOK'
<1> DEFINE v == Head(src.queue)
           newer == v.term > current_term[m]
           granted == /\ v.term >= current_term[m]
                      /\ newer \/ ~AlreadyVoted(m, n, selfVoteRead)
                      /\ ~OutOfDate(m, v)
           reply == [type |-> "ResponseVote", term |-> current_term'[m],
                     vote_granted |-> granted]
<1>1. v \in Request /\ v.type = "RequestVote"
  BY ZenonT(60), SourceTypes DEF clusterProcessRequestVote
<1>2. v.term \in Term
  BY ZenonT(60), <1>1 DEF Request, RequestVote, AppendEntries
<1>3. /\ state' = [state EXCEPT ![m] = IF newer THEN FOLLOWER ELSE state[m]]
      /\ current_term' = [current_term EXCEPT ![m] =
                            IF newer THEN v.term ELSE current_term[m]]
      /\ leader' = [leader EXCEPT ![m] = IF newer THEN Nil ELSE leader[m]]
      /\ voted_for' = [voted_for EXCEPT ![m] =
                         IF granted THEN n ELSE IF newer THEN Nil ELSE voted_for[m]]
      /\ votes' = IF granted
                  THEN votes \cup {[voter |-> m, term |-> v.term, candidate |-> n]}
                  ELSE votes
      /\ Answer(n, m, src, reply)
      /\ UNCHANGED <<votes_granted, storeVars, peerVars, budgetVars, counted, elected>>
  BY ZenonT(60) DEF clusterProcessRequestVote, TypeOK
<1> HIDE DEF v
<1> granted \in BOOLEAN
  OBVIOUS
<1> HIDE DEF granted, newer
<1>4. /\ state' \in [Node -> {FOLLOWER, CANDIDATE, LEADER}]
      /\ current_term' \in [Node -> Term]
      /\ leader' \in [Node -> Node \cup {Nil}]
      /\ voted_for' \in [Node -> Node \cup {Nil}]
      /\ votes' \in SUBSET [voter : Node, term : Term, candidate : Node]
  <2>1. /\ state' \in [Node -> {FOLLOWER, CANDIDATE, LEADER}]
        /\ current_term' \in [Node -> Term]
        /\ leader' \in [Node -> Node \cup {Nil}]
    BY ZenonT(60), <1>2, <1>3 DEF TypeOK
  <2>2. voted_for' \in [Node -> Node \cup {Nil}]
    BY ZenonT(60), <1>3 DEF TypeOK
  <2>3. votes' \in SUBSET [voter : Node, term : Term, candidate : Node]
    <3>1. [voter |-> m, term |-> v.term, candidate |-> n]
            \in [voter : Node, term : Term, candidate : Node]
      BY ZenonT(60), <1>2
    <3>2. votes \in SUBSET [voter : Node, term : Term, candidate : Node]
      BY ZenonT(60) DEF TypeOK
    <3> QED BY ZenonT(60), <1>3, <3>1, <3>2
  <2> QED BY ZenonT(60), <2>1, <2>2, <2>3
<1>5. reply \in Response
  BY ZenonT(60), <1>4 DEF Response, ResponseVote
<1>6. /\ link' = link
      /\ req' \in [Node -> [Node -> Seq(Request)]]
      /\ resp' \in [Node -> [Node -> Seq(Response)]]
      /\ stale' \in [Node -> [Node -> SUBSET (Seq(Request) \ {<<>>})]]
  <2> HIDE DEF reply
  <2> QED BY ZenonT(60), <1>3, <1>5, AnswerTypes
<1> QED BY ZenonT(60), <1>3, <1>4, <1>6 DEF TypeOK, storeVars, peerVars, budgetVars

(* After any change of the list a last_sent_entry is NULL, freed, or in    *)
(* the new list.                                                           *)
LEMMA DanglingTypes ==
  ASSUME TypeOK, NEW n \in Node, NEW new \in Seq(Entry)
  PROVE  LET row == Dangling(last_sent_entry[n], log[n], new)
         IN  /\ row \in [Node -> Int]
             /\ \A m \in Node : row[m] \in {NULL, FREED} \cup 1..Len(new)
<1>1. /\ last_sent_entry[n] \in [Node -> Int]
      /\ \A m \in Node : last_sent_entry[n][m] \in {NULL, FREED} \cup 1..Len(log[n])
  BY ZenonT(60) DEF TypeOK
<1>2. Len(new) \in Nat
  BY LenProperties
<1> QED BY SMTT(90), <1>1, <1>2 DEF Dangling, StillListed, NULL, FREED

(* clusterProcessAppendEntries keeps TypeOK.                               *)
LEMMA AppendEntriesTypes ==
  ASSUME TypeOK, NEW n \in Node, NEW m \in Node, NEW src \in Sources(n, m),
         NEW synced \in BOOLEAN, clusterProcessAppendEntries(n, m, src, synced)
  PROVE  TypeOK'
<1> DEFINE a == Head(src.queue)
           verified == logVerifyAppend(log[m], a.prev_log_index, a.prev_log_term)
           written == IF verified THEN logAppendEntries(log[m], a.log_entries)
                      ELSE log[m]
           ok == verified /\ synced
           reply(r) == [type |-> "ResponseAppend", term |-> current_term'[m], ok |-> r]
<1>1. a \in Request /\ a.type = "AppendEntries"
  BY ZenonT(60), SourceTypes DEF clusterProcessAppendEntries
<1>2. /\ a.term \in Term /\ a.leader_commit_index \in Int
      /\ a.log_entries \in Seq(Entry)
  BY ZenonT(60), <1>1 DEF Request, RequestVote, AppendEntries
<1>3. UNCHANGED <<budgetVars, historyVars>>
  BY ZenonT(60) DEF clusterProcessAppendEntries
<1>4. ASSUME NEW r \in BOOLEAN, current_term' \in [Node -> Term],
             Answer(n, m, src, reply(r))
      PROVE  /\ link' = link
             /\ req' \in [Node -> [Node -> Seq(Request)]]
             /\ resp' \in [Node -> [Node -> Seq(Response)]]
             /\ stale' \in [Node -> [Node -> SUBSET (Seq(Request) \ {<<>>})]]
  <2>1. reply(r) \in Response
    BY ZenonT(60), <1>4 DEF Response, ResponseAppend
  <2> HIDE DEF reply
  <2> QED BY ZenonT(60), <1>4, <2>1, AnswerTypes
<1>5. CASE /\ a.term < current_term[m]
           /\ UNCHANGED <<electionVars, storeVars, peerVars>>
           /\ Answer(n, m, src, reply(FALSE))
  <2>1. current_term' \in [Node -> Term]
    BY <1>5 DEF TypeOK, electionVars
  <2>2. /\ link' = link
        /\ req' \in [Node -> [Node -> Seq(Request)]]
        /\ resp' \in [Node -> [Node -> Seq(Response)]]
        /\ stale' \in [Node -> [Node -> SUBSET (Seq(Request) \ {<<>>})]]
    BY ZenonT(60), <1>4, <1>5, <2>1
  <2> QED BY ZenonT(60), <1>3, <1>5, <2>2
          DEF TypeOK, electionVars, storeVars, peerVars, budgetVars, historyVars
<1>6. CASE /\ a.term >= current_term[m]
           /\ state' = [state EXCEPT ![m] = StateOnAppend(m, a.term)]
           /\ current_term' = [current_term EXCEPT ![m] = a.term]
           /\ leader' = [leader EXCEPT ![m] = n]
           /\ voted_for' = [voted_for EXCEPT ![m] =
                              IF a.term > current_term[m] THEN Nil ELSE voted_for[m]]
           /\ log' = [log EXCEPT ![m] = written]
           /\ last_sent_entry' = [last_sent_entry EXCEPT ![m] =
                                    Dangling(last_sent_entry[m], log[m], written)]
           /\ commit_index' = [commit_index EXCEPT ![m] =
                IF ok THEN logCommitIndex(written, commit_index[m], a.leader_commit_index)
                ELSE commit_index[m]]
           /\ Answer(n, m, src, reply(ok))
           /\ UNCHANGED <<votes_granted, applied, proc_clients,
                          next_index, match_index>>
  <2>1. log[m] \in Seq(Entry)
    BY ZenonT(60), LogTypes
  <2>2. written \in Seq(Entry)
    <3>1. logAppendEntries(log[m], a.log_entries) \in Seq(Entry)
      BY ZenonT(60), <1>2, <2>1, TermFacts, AppendEntriesType
    <3> QED BY ZenonT(60), <2>1, <3>1
  <2>3. ok \in BOOLEAN
    BY DEF logVerifyAppend
  <2> HIDE DEF a, verified, written, ok
  <2>4. logCommitIndex(written, commit_index[m], a.leader_commit_index) \in Int
    <3>1. logCurrentIndex(written) \in Nat
      BY ZenonT(60), <2>2, TermFacts, LogReadTypes
    <3>2. commit_index[m] \in Int
      BY ZenonT(60) DEF TypeOK
    <3> QED BY SMTT(90), <1>2, <3>1, <3>2 DEF logCommitIndex
  <2>5. /\ state' \in [Node -> {FOLLOWER, CANDIDATE, LEADER}]
        /\ current_term' \in [Node -> Term]
        /\ leader' \in [Node -> Node \cup {Nil}]
        /\ voted_for' \in [Node -> Node \cup {Nil}]
    BY ZenonT(60), <1>2, <1>6 DEF TypeOK, StateOnAppend
  <2>6. log' \in [Node -> Seq(Entry)] /\ commit_index' \in [Node -> Int]
    BY ZenonT(60), <1>6, <2>2, <2>4 DEF TypeOK
  <2>7. /\ last_sent_entry' \in [Node -> [Node -> Int]]
        /\ \A k, j \in Node : last_sent_entry'[k][j] \in {NULL, FREED} \cup 1..Len(log'[k])
    <3> DEFINE row == Dangling(last_sent_entry[m], log[m], written)
    <3>1. /\ row \in [Node -> Int]
          /\ \A j \in Node : row[j] \in {NULL, FREED} \cup 1..Len(written)
      BY ZenonT(60), <2>2, DanglingTypes
    <3>2. last_sent_entry' = [last_sent_entry EXCEPT ![m] = row]
      BY ZenonT(60), <1>6
    <3> HIDE DEF row
    <3>3. /\ last_sent_entry \in [Node -> [Node -> Int]]
          /\ \A k, j \in Node :
               last_sent_entry[k][j] \in {NULL, FREED} \cup 1..Len(log[k])
          /\ log \in [Node -> Seq(Entry)]
      BY ZenonT(60) DEF TypeOK
    <3>4. /\ log'[m] = written /\ last_sent_entry'[m] = row
          /\ \A k \in Node \ {m} :
               log'[k] = log[k] /\ last_sent_entry'[k] = last_sent_entry[k]
      BY ZenonT(60), <1>6, <3>2, <3>3
    <3>5. last_sent_entry' \in [Node -> [Node -> Int]]
      BY ZenonT(60), <3>1, <3>2, <3>3
    <3>6. \A k, j \in Node : last_sent_entry'[k][j] \in {NULL, FREED} \cup 1..Len(log'[k])
      BY ZenonT(60), <3>1, <3>3, <3>4
    <3> QED BY SMTT(30), <3>5, <3>6
  <2>8. /\ link' = link
        /\ req' \in [Node -> [Node -> Seq(Request)]]
        /\ resp' \in [Node -> [Node -> Seq(Response)]]
        /\ stale' \in [Node -> [Node -> SUBSET (Seq(Request) \ {<<>>})]]
    BY ZenonT(60), <1>4, <1>6, <2>3, <2>5
  <2> QED BY ZenonT(60), <1>3, <1>6, <2>5, <2>6, <2>7, <2>8
          DEF TypeOK, budgetVars, historyVars
<1> QED
  <2>1. TypeOK => /\ voted_for \in [Node -> Node \cup {Nil}]
                  /\ last_sent_entry \in [Node -> [Node -> Int]]
                  /\ commit_index \in [Node -> Int]
    BY ZenonT(60) DEF TypeOK
  <2> QED BY ZenonT(60), <1>5, <1>6, <2>1 DEF clusterProcessAppendEntries

(* What the owner of a link reads from it is a typed answer.               *)
LEMMA ResponseHeadTypes ==
  ASSUME TypeOK, NEW n \in Node, NEW m \in Node, resp[n][m] # <<>>
  PROVE  /\ Head(resp[n][m]) \in Response
         /\ Head(resp[n][m]).term \in Term
         /\ [resp EXCEPT ![n][m] = Tail(resp[n][m])] \in [Node -> [Node -> Seq(Response)]]
<1>1. /\ resp \in [Node -> [Node -> Seq(Response)]]
      /\ resp[n][m] \in Seq(Response)
  BY SMTT(90) DEF TypeOK
<1>2. Head(resp[n][m]) \in Response /\ Tail(resp[n][m]) \in Seq(Response)
  BY <1>1, HeadTailProperties
<1>3. Head(resp[n][m]).term \in Term
  BY ZenonT(60), <1>2 DEF Response, ResponseVote, ResponseAppend
<1>4. [resp EXCEPT ![n][m] = Tail(resp[n][m])] \in [Node -> [Node -> Seq(Response)]]
  BY ZenonT(60), <1>1, <1>2, UpdateCell
<1> QED BY ZenonT(60), <1>2, <1>3, <1>4

(* Stepping down keeps the types of the election state.                    *)
LEMMA StepDownTypes ==
  ASSUME TypeOK, NEW n \in Node, NEW t \in Term, StepDown(n, t)
  PROVE  /\ state' \in [Node -> {FOLLOWER, CANDIDATE, LEADER}]
         /\ current_term' \in [Node -> Term]
         /\ leader' \in [Node -> Node \cup {Nil}]
         /\ voted_for' \in [Node -> Node \cup {Nil}]
BY ZenonT(60) DEF TypeOK, StepDown

(* clusterProcessResponseVote keeps TypeOK.                                *)
LEMMA ResponseVoteTypes ==
  ASSUME TypeOK, NEW n \in Node, NEW m \in Node, clusterProcessResponseVote(n, m)
  PROVE  TypeOK'
<1> DEFINE v == Head(resp[n][m])
<1>1. /\ resp[n][m] # <<>>
      /\ resp' = [resp EXCEPT ![n][m] = Tail(resp[n][m])]
      /\ UNCHANGED <<storeVars, peerVars, link, req, stale, budgetVars, votes, elected>>
  BY ZenonT(60) DEF clusterProcessResponseVote, TypeOK
<1>2. v.term \in Term /\ resp' \in [Node -> [Node -> Seq(Response)]]
  BY ZenonT(60), <1>1, ResponseHeadTypes
<1>3. /\ state' \in [Node -> {FOLLOWER, CANDIDATE, LEADER}]
      /\ current_term' \in [Node -> Term]
      /\ leader' \in [Node -> Node \cup {Nil}]
      /\ voted_for' \in [Node -> Node \cup {Nil}]
      /\ votes_granted' \in [Node -> Nat]
      /\ counted' \in [Node -> SUBSET Node]
  <2>1. CASE /\ votes_granted' = [votes_granted EXCEPT ![n] = @ + 1]
             /\ counted' = [counted EXCEPT ![n] = @ \cup {m}]
             /\ UNCHANGED <<state, current_term, leader, voted_for>>
    <3>1. counted \in [Node -> SUBSET Node] /\ votes_granted \in [Node -> Nat]
      BY ZenonT(60) DEF TypeOK
    <3>2. counted[n] \cup {m} \in SUBSET Node
      BY <3>1
    <3>3. counted' \in [Node -> SUBSET Node]
      BY ZenonT(60), <2>1, <3>1, <3>2, UpdateRow
    <3>4. votes_granted' \in [Node -> Nat]
      BY SMTT(90), <2>1, <3>1
    <3> QED BY ZenonT(60), <2>1, <3>3, <3>4 DEF TypeOK
  <2>2. CASE StepDown(n, v.term) /\ UNCHANGED <<votes_granted, counted>>
    BY ZenonT(60), <1>2, <2>2, StepDownTypes DEF TypeOK
  <2>3. CASE UNCHANGED <<electionVars, counted>>
    BY ZenonT(60), <2>3 DEF TypeOK, electionVars
  <2> QED BY ZenonT(60), <2>1, <2>2, <2>3 DEF clusterProcessResponseVote
<1> QED BY ZenonT(60), <1>1, <1>2, <1>3 DEF TypeOK, storeVars, peerVars, budgetVars

(* clusterProcessResponseAppendEntries keeps TypeOK, a read through a      *)
(* freed pointer included.                                                 *)
LEMMA ResponseAppendTypes ==
  ASSUME TypeOK, NEW n \in Node, NEW m \in Node,
         clusterProcessResponseAppendEntries(n, m)
  PROVE  TypeOK'
<1> DEFINE r == Head(resp[n][m])
<1>1. /\ resp[n][m] # <<>>
      /\ resp' = [resp EXCEPT ![n][m] = Tail(resp[n][m])]
      /\ UNCHANGED <<storeVars, last_sent_entry, link, req, stale, budgetVars,
                     historyVars>>
  BY ZenonT(60) DEF clusterProcessResponseAppendEntries, TypeOK
<1>2. r.term \in Term /\ resp' \in [Node -> [Node -> Seq(Response)]]
  BY ZenonT(60), <1>1, ResponseHeadTypes
<1>0. /\ next_index \in [Node -> [Node -> Int]]
      /\ match_index \in [Node -> [Node -> Int]]
  BY ZenonT(60) DEF TypeOK
<1>3. /\ state' \in [Node -> {FOLLOWER, CANDIDATE, LEADER}]
      /\ current_term' \in [Node -> Term]
      /\ leader' \in [Node -> Node \cup {Nil}]
      /\ voted_for' \in [Node -> Node \cup {Nil}]
      /\ votes_granted' \in [Node -> Nat]
      /\ next_index' \in [Node -> [Node -> Int]]
      /\ match_index' \in [Node -> [Node -> Int]]
  <2>1. CASE UNCHANGED <<electionVars, next_index, match_index>>
    BY ZenonT(60), <2>1 DEF TypeOK, electionVars
  <2>2. CASE /\ last_sent_entry[n][m] # NULL
             /\ \E index \in AckedIndices(n, m) :
                  /\ next_index' = [next_index EXCEPT ![n][m] = index + 1]
                  /\ match_index' = [match_index EXCEPT ![n][m] = index]
             /\ UNCHANGED electionVars
    <3>1. AckedIndices(n, m) \subseteq Int
      <4> DEFINE p == last_sent_entry[n][m]
      <4>1. p \in {NULL, FREED} \cup 1..Len(log[n]) /\ log[n] \in Seq(Entry)
        BY DEF TypeOK
      <4>2. p # FREED => p \in 1..Len(log[n])
        BY ZenonT(60), <2>2, <4>1
      <4>3. p # FREED => log[n][p] \in Entry
        BY ZenonT(60), <4>1, <4>2, ElementOfSeq
      <4>4. p # FREED => log[n][p].index \in Int
        <5> SUFFICES ASSUME p # FREED PROVE log[n][p].index \in Int
          BY ZenonT(60)
        <5>1. log[n][p].index \in Nat
          BY ZenonT(60), <4>3 DEF Entry
        <5> QED BY ZenonT(60), <5>1, NatIsInt
      <4>5. 0..MaxLog \subseteq Int
        OBVIOUS
      <4> QED BY ZenonT(60), <4>4, <4>5 DEF AckedIndices
    <3>2. PICK index \in Int :
            /\ next_index' = [next_index EXCEPT ![n][m] = index + 1]
            /\ match_index' = [match_index EXCEPT ![n][m] = index]
      BY ZenonT(60), <2>2, <3>1
    <3>3. /\ next_index' \in [Node -> [Node -> Int]]
          /\ match_index' \in [Node -> [Node -> Int]]
      BY SMTT(90), <1>0, <3>2
    <3> QED BY ZenonT(60), <2>2, <3>3 DEF TypeOK, electionVars
  <2>3. CASE StepDown(n, r.term) /\ UNCHANGED <<votes_granted, next_index, match_index>>
    BY ZenonT(60), <1>2, <2>3, StepDownTypes DEF TypeOK
  <2>4. CASE /\ next_index' = [next_index EXCEPT ![n][m] =
                                 IF @ > MinNextIndex THEN @ - 1 ELSE @]
             /\ UNCHANGED <<electionVars, match_index>>
    <3>1. next_index' \in [Node -> [Node -> Int]]
      BY SMTT(90), <1>0, <2>4
    <3> QED BY ZenonT(60), <2>4, <3>1 DEF TypeOK, electionVars
  <2> QED BY ZenonT(60), <2>1, <2>2, <2>3, <2>4 DEF clusterProcessResponseAppendEntries
<1> QED BY ZenonT(60), <1>1, <1>2, <1>3 DEF TypeOK, storeVars, budgetVars, historyVars

(* clusterProcessCommand keeps TypeOK.                                     *)
LEMMA CommandTypes ==
  ASSUME TypeOK, NEW n \in Node, NEW cmd \in Cmd, clusterProcessCommand(n, cmd)
  PROVE  TypeOK'
<1> DEFINE e == NewEntry(n, cmd)
           new == logWriteEntry(log[n], e)
           row == Dangling(last_sent_entry[n], log[n], new)
<1>0. /\ log \in [Node -> Seq(Entry)]
      /\ last_sent_entry \in [Node -> [Node -> Int]]
      /\ \A k, j \in Node :
           last_sent_entry[k][j] \in {NULL, FREED} \cup 1..Len(log[k])
      /\ proc_clients \in [Node -> [1..MaxLog -> Cmd \cup {Nil}]]
  BY ZenonT(60) DEF TypeOK
<1>1. e \in Entry
  <2>1. logCurrentIndex(log[n]) + 1 \in Nat
    BY SMTT(90), LogTypes
  <2> QED BY SMTT(30), <2>1 DEF TypeOK, NewEntry, Entry
<1>2. new \in Seq(Entry)
  BY ZenonT(60), <1>0, <1>1, TermFacts, WriteEntryType
<1>3. /\ log' = [log EXCEPT ![n] = new]
      /\ last_sent_entry' = [last_sent_entry EXCEPT ![n] = row]
      /\ proc_clients' = [proc_clients EXCEPT ![n][e.index] =
                            IF @ = Nil THEN cmd ELSE @]
      /\ UNCHANGED <<electionVars, commit_index, applied, next_index, match_index,
                     busVars, budgetVars, historyVars>>
  BY ZenonT(60), <1>0 DEF clusterProcessCommand
<1>4. /\ row \in [Node -> Int]
      /\ \A j \in Node : row[j] \in {NULL, FREED} \cup 1..Len(new)
  BY ZenonT(60), <1>2, DanglingTypes
<1> HIDE DEF e, new, row
<1>5. log' \in [Node -> Seq(Entry)]
  BY SMTT(30), <1>0, <1>2, <1>3
<1>6. last_sent_entry' \in [Node -> [Node -> Int]]
  BY ZenonT(60), <1>0, <1>3, <1>4
<1>7. \A k, j \in Node : last_sent_entry'[k][j] \in {NULL, FREED} \cup 1..Len(log'[k])
  <2>1. /\ log'[n] = new /\ last_sent_entry'[n] = row
        /\ \A k \in Node \ {n} :
             log'[k] = log[k] /\ last_sent_entry'[k] = last_sent_entry[k]
    BY SMTT(30), <1>0, <1>3
  <2> QED BY ZenonT(60), <1>0, <1>4, <2>1
<1>8. proc_clients' \in [Node -> [1..MaxLog -> Cmd \cup {Nil}]]
  BY ZenonT(60), <1>0, <1>3
<1> QED BY ZenonT(60), <1>3, <1>5, <1>6, <1>7, <1>8
        DEF TypeOK, electionVars, busVars, budgetVars, historyVars

(* What remains on a closed connection is a sequence of requests.          *)
LEMMA LeftoverTypes ==
  ASSUME NEW q \in Seq(Request), NEW rest \in Leftovers(q)
  PROVE  {rest} \ {<<>>} \in SUBSET (Seq(Request) \ {<<>>})
<1>1. Len(q) \in Nat
  BY LenProperties
<1>2. PICK k \in 0..Len(q) : rest = SubSeq(q, 1, k)
  BY DEF Leftovers
<1>3. \A i \in 1..k : q[i] \in Request
  BY SMTT(90), <1>1, <1>2, ElementOfSeq
<1>4. rest \in Seq(Request)
  BY SMTT(90), <1>1, <1>2, <1>3, SubSeqProperties
<1> QED BY <1>4

(* handleLinkIOError keeps TypeOK.                                         *)
LEMMA LinkErrorTypes ==
  ASSUME TypeOK, NEW n \in Node, NEW m \in Node, handleLinkIOError(n, m)
  PROVE  TypeOK'
<1> DEFINE Q == SUBSET (Seq(Request) \ {<<>>})
<1>0. /\ link \in [Node -> [Node -> {DOWN, UP, DEAD}]]
      /\ req \in [Node -> [Node -> Seq(Request)]]
      /\ resp \in [Node -> [Node -> Seq(Response)]]
      /\ stale \in [Node -> [Node -> Q]]
      /\ link_errors \in 0..MaxLinkErrors /\ MaxLinkErrors \in Nat
  BY ZenonT(60), ClusterAssumption DEF TypeOK, ClusterAssumption
<1>1. link_errors' \in 0..MaxLinkErrors
  BY SMTT(90), <1>0 DEF handleLinkIOError
<1>2. link' \in [Node -> [Node -> {DOWN, UP, DEAD}]]
  BY ZenonT(60), <1>0, UpdateCell DEF handleLinkIOError
<1>3. req' \in [Node -> [Node -> Seq(Request)]]
  <2>1. <<>> \in Seq(Request)
    BY ZenonT(60), EmptySeq
  <2> QED BY SMTT(30), <1>0, <2>1, UpdateCell DEF handleLinkIOError
<1>4. resp' \in [Node -> [Node -> Seq(Response)]]
  <2>1. <<>> \in Seq(Response)
    BY EmptySeq
  <2> QED BY ZenonT(60), <1>0, <2>1, UpdateCell DEF handleLinkIOError
<1>5. stale' \in [Node -> [Node -> Q]]
  <2>1. PICK q \in Leftovers(req[n][m]) :
          stale' = [stale EXCEPT ![n][m] = stale[n][m] \cup ({q} \ {<<>>})]
    BY ZenonT(60), <1>0 DEF handleLinkIOError
  <2>2. req[n][m] \in Seq(Request)
    BY ZenonT(60), <1>0
  <2>3. {q} \ {<<>>} \in Q
    BY ZenonT(60), <2>2, LeftoverTypes
  <2>4. stale[n][m] \in Q
    BY ZenonT(60), <1>0
  <2>5. stale[n][m] \cup ({q} \ {<<>>}) \in Q
    BY ZenonT(60), <2>3, <2>4
  <2> HIDE DEF Q
  <2> QED BY ZenonT(60), <1>0, <2>1, <2>5, UpdateCell
<1> QED BY ZenonT(60), <1>1, <1>2, <1>3, <1>4, <1>5
        DEF TypeOK, handleLinkIOError, electionVars, storeVars, peerVars, historyVars

(* A crash and restart keeps TypeOK.                                       *)
LEMMA RestartTypes ==
  ASSUME TypeOK, NEW n \in Node, clusterInit(n)
  PROVE  TypeOK'
<1> DEFINE Q == SUBSET (Seq(Request) \ {<<>>})
<1>0. /\ restarts \in 0..MaxRestarts /\ MaxRestarts \in Nat
      /\ MaxLog \in Nat /\ SelfMatchReads \in SUBSET Int
      /\ req \in [Node -> [Node -> Seq(Request)]]
      /\ resp \in [Node -> [Node -> Seq(Response)]]
      /\ stale \in [Node -> [Node -> Q]]
      /\ <<>> \in Seq(Request) /\ <<>> \in Seq(Response)
      /\ <<>> \in Seq(Cmd \cup {Nil})
  BY ZenonT(60), ClusterAssumption, EmptySeq DEF TypeOK, ClusterAssumption
<1>1. restarts' \in 0..MaxRestarts
  <2>1. restarts \in 0..MaxRestarts /\ MaxRestarts \in Nat
    BY ZenonT(60), <1>0
  <2>2. restarts < MaxRestarts /\ restarts' = restarts + 1
    BY ZenonT(60) DEF clusterInit
  <2> HIDE <1>0
  <2> QED BY SMTT(90), <2>1, <2>2
<1>2. /\ state' \in [Node -> {FOLLOWER, CANDIDATE, LEADER}]
      /\ current_term' \in [Node -> Term]
      /\ voted_for' \in [Node -> Node \cup {Nil}]
      /\ votes_granted' \in [Node -> Nat]
      /\ leader' \in [Node -> Node \cup {Nil}]
  <2>1. logCurrentTerm(log[n]) \in Term
    BY LogTypes
  <2> QED BY ZenonT(60), <2>1 DEF TypeOK, clusterInit, ResetElectionState
<1>3. /\ commit_index' \in [Node -> Int]
      /\ counted' \in [Node -> SUBSET Node]
  <2>1. commit_index' \in [Node -> Int]
    BY SMTT(90) DEF TypeOK, clusterInit
  <2>2. counted' = [counted EXCEPT ![n] = {}] /\ counted \in [Node -> SUBSET Node]
    BY DEF TypeOK, clusterInit
  <2>3. {} \in SUBSET Node
    BY ZenonT(60)
  <2> QED BY ZenonT(60), <2>1, <2>2, <2>3, UpdateRow
<1>4. applied' \in [Node -> Seq(Cmd \cup {Nil})]
  BY ZenonT(60), <1>0 DEF TypeOK, clusterInit
<1>5. proc_clients' \in [Node -> [1..MaxLog -> Cmd \cup {Nil}]]
  <2>1. [i \in 1..MaxLog |-> Nil] \in [1..MaxLog -> Cmd \cup {Nil}]
    BY ZenonT(60)
  <2> QED BY ZenonT(60), <2>1 DEF TypeOK, clusterInit
<1>6. next_index' \in [Node -> [Node -> Int]]
  BY SMTT(90) DEF TypeOK, clusterInit
<1>7. match_index' \in [Node -> [Node -> Int]]
  <2>1. PICK own \in SelfMatchReads :
          match_index' = [match_index EXCEPT ![n] =
                            [m \in Node |-> IF m = n THEN own ELSE 0]]
    BY ZenonT(60) DEF clusterInit
  <2> QED BY SMTT(90), <1>0, <2>1 DEF TypeOK
<1>8. /\ last_sent_entry' \in [Node -> [Node -> Int]]
      /\ log' = log
      /\ \A k, m \in Node :
           last_sent_entry'[k][m] \in {NULL, FREED} \cup 1..Len(log[k])
  <2>1. /\ last_sent_entry \in [Node -> [Node -> Int]]
        /\ \A k, m \in Node :
             last_sent_entry[k][m] \in {NULL, FREED} \cup 1..Len(log[k])
    BY ZenonT(60) DEF TypeOK
  <2>2. /\ last_sent_entry' = [last_sent_entry EXCEPT ![n] = [m \in Node |-> NULL]]
        /\ log' = log
    BY DEF clusterInit
  <2>3. [m \in Node |-> NULL] \in [Node -> Int]
    BY DEF NULL
  <2>4. last_sent_entry' \in [Node -> [Node -> Int]]
    BY ZenonT(60), <2>1, <2>2, <2>3, UpdateRow
  <2>5. \A k, m \in Node : last_sent_entry'[k][m] \in {NULL, last_sent_entry[k][m]}
    BY ZenonT(60), <2>1, <2>2
  <2> QED BY ZenonT(60), <2>1, <2>2, <2>4, <2>5
<1>9. link' \in [Node -> [Node -> {DOWN, UP, DEAD}]]
  BY SMTT(90) DEF TypeOK, clusterInit
<1>10. req' \in [Node -> [Node -> Seq(Request)]]
  BY ZenonT(60), <1>0 DEF clusterInit
<1>11. resp' \in [Node -> [Node -> Seq(Response)]]
  BY <1>0 DEF clusterInit
<1>12. stale' \in [Node -> [Node -> Q]]
  <2>1. PICK left :
          /\ \A m \in Node : left[m] \in Leftovers(req[n][m])
          /\ stale' = [k \in Node |-> [m \in Node |->
               IF m = n THEN {}
               ELSE IF k = n THEN stale[k][m] \cup ({left[m]} \ {<<>>})
               ELSE stale[k][m]]]
    BY ZenonT(60) DEF clusterInit
  <2> DEFINE new(k, m) == IF m = n THEN {}
                          ELSE IF k = n THEN stale[k][m] \cup ({left[m]} \ {<<>>})
                          ELSE stale[k][m]
  <2>2. ASSUME NEW m \in Node PROVE {left[m]} \ {<<>>} \in Q
    BY SMTT(90), <1>0, <2>1, LeftoverTypes
  <2>3. ASSUME NEW k \in Node, NEW m \in Node
        PROVE  /\ stale[k][m] \in Q
               /\ stale[k][m] \cup ({left[m]} \ {<<>>}) \in Q
    <3>1. stale[k][m] \in Q
      BY <1>0
    <3> QED BY ZenonT(60), <3>1, <2>2
  <2>4. {} \in Q
    OBVIOUS
  <2> HIDE DEF Q
  <2>5. \A k, m \in Node : new(k, m) \in Q
    BY ZenonT(60), <2>3, <2>4
  <2>6. stale' = [k \in Node |-> [m \in Node |-> new(k, m)]]
    BY ZenonT(60), <2>1
  <2> HIDE DEF new
  <2> QED BY ZenonT(60), <2>5, <2>6
<1>13. UNCHANGED <<log, elections, link_errors, votes, elected>>
  BY DEF clusterInit
<1> QED BY ZenonT(60), <1>1, <1>2, <1>3, <1>4, <1>5, <1>6, <1>7, <1>8, <1>9, <1>10, <1>11, <1>12,
           <1>13
        DEF TypeOK

(* A leader's part of clusterCron keeps the types of what it changes.      *)
LEMMA DutiesTypes ==
  ASSUME TypeOK, NEW n \in Node, LeaderDuties(n),
         next_index' \in [Node -> [Node -> Int]],
         match_index' \in [Node -> [Node -> Int]]
  PROVE  /\ commit_index' \in [Node -> Int]
         /\ req' \in [Node -> [Node -> Seq(Request)]]
         /\ last_sent_entry' \in [Node -> [Node -> Int]]
         /\ \A k, m \in Node :
              last_sent_entry'[k][m] \in {NULL, FREED} \cup 1..Len(log[k])
<1>1. commit_index' \in [Node -> Int]
  <2>1. match_index'[n] \in [Node -> Int]
    OBVIOUS
  <2>2. QuorumMatch(match_index'[n]) \in Int
    BY <2>1, QuorumMatchType
  <2> QED BY SMTT(30), <2>2 DEF TypeOK, LeaderDuties, clusterUpdateCommitIndex
<1>2. PICK H \in SUBSET Node : clusterSendAppendEntries(n, H)
  BY ZenonT(60) DEF LeaderDuties, Peers
<1> QED BY ZenonT(60), <1>1, <1>2, SendTypes

(* A pass of clusterCron keeps TypeOK.                                     *)
LEMMA CronTypes ==
  ASSUME TypeOK, NEW n \in Node, clusterCron(n)
  PROVE  TypeOK'
<1>1. /\ link' \in [Node -> [Node -> {DOWN, UP, DEAD}]]
      /\ applied' \in [Node -> Seq(Cmd \cup {Nil})]
      /\ proc_clients' \in [Node -> [1..MaxLog -> Cmd \cup {Nil}]]
      /\ UNCHANGED <<log, resp, stale, link_errors, restarts>>
  BY ZenonT(60), ConnectTypes, ApplyTypes DEF clusterCron
<1>2. CASE CronStartElection(n)
  <2> DEFINE t == current_term[n] + 1
             v == [type |-> "RequestVote", term |-> t,
                   last_log_index |-> logCurrentIndex(log[n]),
                   last_log_term |-> logCurrentTerm(log[n])]
             queue(m) == IF link'[n][m] = UP THEN Append(req[n][m], v) ELSE req[n][m]
  <2>1. t \in Term
    <3>1. current_term[n] \in Term /\ current_term[n] < MaxTerm
      BY ZenonT(60), <1>2 DEF CronStartElection, TypeOK
    <3>2. current_term[n] \in Nat /\ MaxTerm \in Nat
      BY <3>1, TermFacts
    <3>3. t \in Nat /\ t <= MaxTerm
      BY SMTT(90), <3>1, <3>2
    <3> QED BY ZenonT(60), <3>3, TermFacts
  <2>2. v \in Request
    BY ZenonT(60), <2>1, LogTypes DEF Request, RequestVote
  <2>3. req \in [Node -> [Node -> Seq(Request)]]
    BY ZenonT(60) DEF TypeOK
  <2>4. req' = [req EXCEPT ![n] = [m \in Node |-> queue(m)]]
    BY ZenonT(60), <1>2, <2>3 DEF CronStartElection, clusterSendRequestVote
  <2>5. elections' \in 0..MaxElections
    BY SMTT(90), <1>2, ClusterAssumption DEF CronStartElection, TypeOK, ClusterAssumption
  <2>6. /\ state' \in [Node -> {FOLLOWER, CANDIDATE, LEADER}]
        /\ leader' \in [Node -> Node \cup {Nil}]
        /\ voted_for' \in [Node -> Node \cup {Nil}]
        /\ votes_granted' \in [Node -> Nat]
        /\ counted' \in [Node -> SUBSET Node]
    BY ZenonT(60), <1>2 DEF CronStartElection, TypeOK
  <2>7. current_term' = [current_term EXCEPT ![n] = t]
        /\ votes' = votes \cup {[voter |-> n, term |-> t, candidate |-> n]}
    BY ZenonT(60), <1>2 DEF CronStartElection, TypeOK
  <2> HIDE DEF v, t
  <2>8. current_term' \in [Node -> Term]
        /\ votes' \in SUBSET [voter : Node, term : Term, candidate : Node]
    <3>1. current_term' \in [Node -> Term]
      BY ZenonT(60), <2>1, <2>7 DEF TypeOK
    <3>2. [voter |-> n, term |-> t, candidate |-> n]
            \in [voter : Node, term : Term, candidate : Node]
      BY ZenonT(60), <2>1
    <3>3. votes \in SUBSET [voter : Node, term : Term, candidate : Node]
      BY ZenonT(60) DEF TypeOK
    <3> QED BY ZenonT(60), <2>7, <3>1, <3>2, <3>3
  <2>9. ASSUME NEW m \in Node PROVE queue(m) \in Seq(Request)
    <3>1. req[n][m] \in Seq(Request)
      BY ZenonT(60), <2>3
    <3>2. Append(req[n][m], v) \in Seq(Request)
      BY ZenonT(60), <2>2, <3>1, AppendProperties
    <3> QED BY ZenonT(60), <3>1, <3>2
  <2> HIDE DEF queue
  <2>10. req' \in [Node -> [Node -> Seq(Request)]]
    <3>1. [m \in Node |-> queue(m)] \in [Node -> Seq(Request)]
      BY ZenonT(60), <2>9
    <3> QED BY ZenonT(60), <2>3, <2>4, <3>1, UpdateRow
  <2> QED BY ZenonT(60), <1>1, <1>2, <2>5, <2>6, <2>8, <2>10 DEF CronStartElection, TypeOK, peerVars
<1>3. CASE CronBecomeLeader(n)
  <2>1. logCurrentIndex(log[n]) \in Nat
    BY ZenonT(60), LogTypes
  <2>2. next_index' \in [Node -> [Node -> Int]]
    BY SMTT(90), <1>3, <2>1 DEF CronBecomeLeader, TypeOK
  <2>3. match_index' \in [Node -> [Node -> Int]]
    BY SMTT(90), <1>3 DEF CronBecomeLeader, TypeOK
  <2>4. /\ commit_index' \in [Node -> Int]
        /\ req' \in [Node -> [Node -> Seq(Request)]]
        /\ last_sent_entry' \in [Node -> [Node -> Int]]
        /\ \A k, m \in Node :
             last_sent_entry'[k][m] \in {NULL, FREED} \cup 1..Len(log[k])
    BY ZenonT(60), <1>3, <2>2, <2>3, DutiesTypes DEF CronBecomeLeader
  <2>5. /\ state' \in [Node -> {FOLLOWER, CANDIDATE, LEADER}]
        /\ leader' \in [Node -> Node \cup {Nil}]
        /\ elected' \in [Term -> SUBSET Node]
    BY ZenonT(60), <1>3 DEF CronBecomeLeader, TypeOK
  <2> QED BY ZenonT(60), <1>1, <1>3, <2>2, <2>3, <2>4, <2>5 DEF CronBecomeLeader, TypeOK
<1>4. CASE CronLead(n)
  <2>1. /\ next_index' \in [Node -> [Node -> Int]]
        /\ match_index' \in [Node -> [Node -> Int]]
    BY ZenonT(60), <1>4 DEF CronLead, TypeOK
  <2>2. /\ commit_index' \in [Node -> Int]
        /\ req' \in [Node -> [Node -> Seq(Request)]]
        /\ last_sent_entry' \in [Node -> [Node -> Int]]
        /\ \A k, m \in Node :
             last_sent_entry'[k][m] \in {NULL, FREED} \cup 1..Len(log[k])
    BY ZenonT(60), <1>4, <2>1, DutiesTypes DEF CronLead
  <2> QED BY ZenonT(60), <1>1, <1>4, <2>1, <2>2 DEF CronLead, TypeOK, electionVars, historyVars
<1>5. CASE CronIdle(n)
  BY ZenonT(60), <1>1, <1>5 DEF CronIdle, TypeOK, electionVars, peerVars, historyVars
<1> QED BY ZenonT(60), <1>2, <1>3, <1>4, <1>5 DEF clusterCron

----------------------------------------------------------------------------
(* TypeOK holds before the first step.                                     *)
LEMMA InitTypes == Init => TypeOK
<1> SUFFICES ASSUME Init PROVE TypeOK
  OBVIOUS
<1>0. /\ 0 \in Term /\ MaxLog \in Nat /\ MaxElections \in Nat
      /\ MaxLinkErrors \in Nat /\ MaxRestarts \in Nat
      /\ SelfMatchReads \in SUBSET Int
      /\ StartLink \in {DOWN, UP}
      /\ <<>> \in Seq(Request) /\ <<>> \in Seq(Response) /\ <<>> \in Seq(Entry)
      /\ <<>> \in Seq(Cmd \cup {Nil})
  BY ZenonT(60), ClusterAssumption, TermFacts, EmptySeq DEF ClusterAssumption, DOWN, UP
<1>1. /\ state \in [Node -> {FOLLOWER, CANDIDATE, LEADER}]
      /\ current_term \in [Node -> Term]
      /\ voted_for \in [Node -> Node \cup {Nil}]
      /\ votes_granted \in [Node -> Nat]
      /\ leader \in [Node -> Node \cup {Nil}]
  BY ZenonT(60), <1>0 DEF Init
<1>2. /\ log \in [Node -> Seq(Entry)]
      /\ commit_index \in [Node -> Int]
      /\ applied \in [Node -> Seq(Cmd \cup {Nil})]
      /\ proc_clients \in [Node -> [1..MaxLog -> Cmd \cup {Nil}]]
  BY SMTT(90), <1>0 DEF Init
<1>3. match_index \in [Node -> [Node -> Int]]
  <2>1. PICK own \in [Node -> SelfMatchReads] :
          match_index = [n \in Node |-> [m \in Node |-> IF m = n THEN own[n] ELSE 0]]
    BY ZenonT(60) DEF Init
  <2>2. \A n, m \in Node : (IF m = n THEN own[n] ELSE 0) \in Int
    <3>1. \A n \in Node : own[n] \in SelfMatchReads
      BY <2>1
    <3>2. SelfMatchReads \in SUBSET Int
      BY <1>0
    <3>3. \A n \in Node : own[n] \in Int
      BY ZenonT(30), <3>1, <3>2, Zenon
    <3> QED BY SMTT(90), <3>3
  <2> QED BY <2>1, <2>2
<1>4. /\ next_index \in [Node -> [Node -> Int]]
      /\ last_sent_entry \in [Node -> [Node -> Int]]
      /\ \A n, m \in Node : last_sent_entry[n][m] \in {NULL, FREED} \cup 1..Len(log[n])
  BY SMTT(90) DEF Init, NULL
<1>5. /\ link \in [Node -> [Node -> {DOWN, UP, DEAD}]]
      /\ req \in [Node -> [Node -> Seq(Request)]]
      /\ resp \in [Node -> [Node -> Seq(Response)]]
      /\ stale \in [Node -> [Node -> SUBSET (Seq(Request) \ {<<>>})]]
  BY ZenonT(60), <1>0 DEF Init
<1>6. /\ elections \in 0..MaxElections /\ link_errors \in 0..MaxLinkErrors
      /\ restarts \in 0..MaxRestarts
      /\ votes \in SUBSET [voter : Node, term : Term, candidate : Node]
      /\ counted \in [Node -> SUBSET Node]
      /\ elected \in [Term -> SUBSET Node]
  BY SMTT(90), <1>0 DEF Init
<1> QED BY ZenonT(60), <1>1, <1>2, <1>3, <1>4, <1>5, <1>6 DEF TypeOK

(* Every step keeps TypeOK.                                                *)
LEMMA NextTypes == TypeOK /\ [Next]_vars => TypeOK'
<1> SUFFICES ASSUME TypeOK, [Next]_vars PROVE TypeOK'
  OBVIOUS
<1>1. ASSUME NEW n \in Node, clusterCron(n) PROVE TypeOK'
  BY ZenonT(60), <1>1, CronTypes
<1>2. ASSUME NEW n \in Node, NEW m \in Node, ProcessRequest(n, m) PROVE TypeOK'
  <2>1. FsyncOutcomes \in SUBSET BOOLEAN
    BY ZenonT(60), ClusterAssumption DEF ClusterAssumption
  <2> QED BY ZenonT(60), <1>2, <2>1, RequestVoteTypes, AppendEntriesTypes DEF ProcessRequest
<1>3. ASSUME NEW n \in Node, NEW m \in Node, ProcessResponse(n, m) PROVE TypeOK'
  BY ZenonT(60), <1>3, ResponseVoteTypes, ResponseAppendTypes DEF ProcessResponse
<1>4. ASSUME NEW n \in Node, NEW cmd \in Cmd, clusterProcessCommand(n, cmd) PROVE TypeOK'
  BY ZenonT(60), <1>4, CommandTypes
<1>5. ASSUME NEW n \in Node, NEW m \in Node, handleLinkIOError(n, m) PROVE TypeOK'
  BY ZenonT(60), <1>5, LinkErrorTypes
<1>6. ASSUME NEW n \in Node, clusterInit(n) PROVE TypeOK'
  BY SMTT(30), <1>6, RestartTypes
<1>7. ASSUME UNCHANGED vars PROVE TypeOK'
  BY ZenonT(60), <1>7 DEF TypeOK, vars, electionVars, storeVars, peerVars, busVars, budgetVars,
              historyVars
<1> QED BY ZenonT(60), <1>1, <1>2, <1>3, <1>4, <1>5, <1>6, <1>7 DEF Next

(* The types hold in every reachable state of a cluster of any size: in    *)
(* particular a last_sent_entry is NULL, freed, or an element of the list, *)
(* and no message carries a term the cluster has not reached.              *)
THEOREM TypeCorrect == Spec => []TypeOK
<1> QED BY InitTypes, NextTypes, PTL DEF Spec
----------------------------------------------------------------------------
(* x is an AppendEntries that a leader sends in this step.                 *)
FreshAppend(k, x) ==
    /\ state'[k] = LEADER /\ x.term = current_term'[k]
    /\ k \in elected'[current_term'[k]] \/ state[k] = LEADER
    /\ \E next \in Int : /\ x.prev_log_index = next - 1
                         /\ x.log_entries = EntriesFrom(k, next)

(* An AppendEntries on the bus was there before or is sent in this step,   *)
(* in which no log changes.                                                *)
PacketsKept ==
    \A k, j \in Node : \A x \in Packets(k, j)' : x.type = "AppendEntries" =>
       \/ x \in Packets(k, j)
       \/ log' = log /\ FreshAppend(k, x)

----------------------------------------------------------------------------
(* What is on the bus is in one of its queues.                             *)
LEMMA PacketsElements ==
  ASSUME NEW n, NEW m
  PROVE  /\ \A x : x \in Packets(n, m) <=>
              \E q \in {req[n][m]} \cup stale[n][m] : \E i \in DOMAIN q : q[i] = x
         /\ \A x : x \in Packets(n, m)' <=>
              \E q \in {req'[n][m]} \cup stale'[n][m] : \E i \in DOMAIN q : q[i] = x
<1>1. \A x : x \in Packets(n, m) <=>
        \E q \in {req[n][m]} \cup stale[n][m] : \E i \in DOMAIN q : q[i] = x
  BY SMTT(90) DEF Packets
<1>2. \A x : x \in Packets(n, m)' <=>
        \E q \in {req'[n][m]} \cup stale'[n][m] : \E i \in DOMAIN q : q[i] = x
  BY SMTT(90) DEF Packets
<1> QED BY SMTT(30), <1>1, <1>2

(* If the queues lose no more than packets, nothing new is on the bus.     *)
LEMMA PacketsSubset ==
  ASSUME NEW n, NEW m,
         \A q \in {req'[n][m]} \cup stale'[n][m] : \A i \in DOMAIN q :
            \E p \in {req[n][m]} \cup stale[n][m] : \E h \in DOMAIN p : p[h] = q[i]
  PROVE  \A x \in Packets(n, m)' : x \in Packets(n, m)
<1> TAKE x \in Packets(n, m)'
<1>1. PICK q \in {req'[n][m]} \cup stale'[n][m] : \E i \in DOMAIN q : q[i] = x
  BY SMTT(30), PacketsElements
<1> QED BY SMTT(30), <1>1, PacketsElements

(* Packets are requests.                                                   *)
LEMMA PacketsTypes ==
  ASSUME TypeOK, NEW n \in Node, NEW m \in Node, NEW x \in Packets(n, m)
  PROVE  x \in Request
<1>1. PICK q \in {req[n][m]} \cup stale[n][m] : \E i \in DOMAIN q : q[i] = x
  BY PacketsElements
<1>2. q \in Seq(Request)
  <2>1. /\ req[n][m] \in Seq(Request)
        /\ stale[n][m] \in SUBSET (Seq(Request) \ {<<>>})
    BY DEF TypeOK
  <2> QED BY ZenonT(60), <2>1
<1> QED BY SMTT(30), <1>1, <1>2

(* Reading a request takes a packet off the bus and puts none there.       *)
LEMMA AnswerPackets ==
  ASSUME TypeOK, NEW n \in Node, NEW m \in Node, NEW src \in Sources(n, m),
         NEW reply, Answer(n, m, src, reply), NEW k \in Node, NEW j \in Node
  PROVE  /\ \A x \in Packets(k, j)' : x \in Packets(k, j)
         /\ Head(src.queue) \in Packets(n, m)
<1>0. /\ req \in [Node -> [Node -> Seq(Request)]]
      /\ stale \in [Node -> [Node -> SUBSET (Seq(Request) \ {<<>>})]]
  BY ZenonT(60) DEF TypeOK
<1>1. /\ src.queue \in Seq(Request) /\ src.queue # <<>>
      /\ ~src.closed => src.queue = req[n][m]
      /\ src.closed => src.queue \in stale[n][m]
  BY ZenonT(60), SourceTypes
<1>2. /\ 1 \in DOMAIN src.queue /\ Head(src.queue) = src.queue[1]
      /\ \A i \in DOMAIN Tail(src.queue) :
           i + 1 \in DOMAIN src.queue /\ Tail(src.queue)[i] = src.queue[i + 1]
  BY ZenonT(60), <1>1, TailElements
<1>3. Head(src.queue) \in Packets(n, m)
  <2>1. src.queue \in {req[n][m]} \cup stale[n][m]
    BY ZenonT(60), <1>1
  <2>2. \E i \in DOMAIN src.queue : src.queue[i] = Head(src.queue)
    BY ZenonT(60), <1>2
  <2>3. \A x : (\E q \in {req[n][m]} \cup stale[n][m] : \E i \in DOMAIN q : q[i] = x)
               => x \in Packets(n, m)
    BY ZenonT(60), PacketsElements
  <2> QED BY ZenonT(60), <2>1, <2>2, <2>3
<1>4. ASSUME NEW q \in {req'[k][j]} \cup stale'[k][j],
             q \notin {req[k][j]} \cup stale[k][j]
      PROVE  k = n /\ j = m /\ q = Tail(src.queue)
  <2>1. CASE src.closed
    <3> DEFINE rest == (stale[n][m] \ {src.queue}) \cup ({Tail(src.queue)} \ {<<>>})
    <3>1. stale' = [stale EXCEPT ![n][m] = rest] /\ req' = req
      BY ZenonT(60), <1>0, <2>1 DEF Answer
    <3>2. /\ stale'[n][m] = rest
          /\ k # n \/ j # m => stale'[k][j] = stale[k][j]
      <4> HIDE DEF rest
      <4> QED BY ZenonT(60), <1>0, <3>1
    <3> QED BY ZenonT(60), <1>4, <3>1, <3>2
  <2>2. CASE ~src.closed
    <3>1. req' = [req EXCEPT ![n][m] = Tail(req[n][m])] /\ stale' = stale
      BY ZenonT(60), <1>0, <2>2 DEF Answer
    <3>2. /\ req'[n][m] = Tail(req[n][m])
          /\ k # n \/ j # m => req'[k][j] = req[k][j]
      BY ZenonT(60), <1>0, <3>1
    <3> QED BY ZenonT(60), <1>1, <1>4, <2>2, <3>1, <3>2
  <2> QED BY SMTT(30), <2>1, <2>2
<1>5. ASSUME NEW q \in {req'[k][j]} \cup stale'[k][j], NEW i \in DOMAIN q
      PROVE  \E p \in {req[k][j]} \cup stale[k][j] : \E h \in DOMAIN p : p[h] = q[i]
  <2>1. CASE q \in {req[k][j]} \cup stale[k][j]
    BY ZenonT(60), <2>1
  <2>2. CASE q \notin {req[k][j]} \cup stale[k][j]
    <3>1. k = n /\ j = m /\ q = Tail(src.queue)
      BY <1>4, <2>2
    <3>2. i + 1 \in DOMAIN src.queue /\ src.queue[i + 1] = q[i]
      BY ZenonT(60), <1>2, <3>1
    <3> QED BY ZenonT(60), <1>1, <3>1, <3>2
  <2> QED BY <2>1, <2>2
<1> QED BY ZenonT(60), <1>3, <1>5, PacketsSubset

(* Closing a connection leaves a beginning of what was on it.              *)
LEMMA LeftoverElements ==
  ASSUME NEW S, NEW q \in Seq(S), NEW p \in Leftovers(q)
  PROVE  \A i \in DOMAIN p : i \in DOMAIN q /\ p[i] = q[i]
<1>1. PICK c \in 0..Len(q) : p = SubSeq(q, 1, c)
  BY DEF Leftovers
<1>2. Len(q) \in Nat /\ DOMAIN q = 1..Len(q) /\ c \in Nat /\ c <= Len(q)
  BY LenProperties
<1>3. \A i \in 1..c : q[i] \in S
  BY SMTT(30), <1>2
<1>4. /\ p \in Seq(S) /\ Len(p) = IF 1 <= c THEN c - 1 + 1 ELSE 0
      /\ \A i \in 1 .. c - 1 + 1 : p[i] = q[1 + i - 1]
  BY SMTT(90), <1>1, <1>2, <1>3, SubSeqProperties
<1>5. DOMAIN p = 1..Len(p)
  BY SMTT(90), <1>4, LenProperties
<1> QED BY SMTT(90), <1>2, <1>4, <1>5

(* Queues that do not change hold what they held.                          *)
LEMMA PacketsSame ==
  ASSUME NEW k, NEW j, req'[k][j] = req[k][j], stale'[k][j] = stale[k][j]
  PROVE  \A x \in Packets(k, j)' : x \in Packets(k, j)
BY SMTT(90), PacketsElements

(* One packet more on the open connection.                                 *)
LEMMA PacketsAppend ==
  ASSUME TypeOK, NEW k \in Node, NEW j \in Node, NEW y,
         req'[k][j] = Append(req[k][j], y), stale'[k][j] = stale[k][j]
  PROVE  \A x \in Packets(k, j)' : x \in Packets(k, j) \/ x = y
<1>a. req \in [Node -> [Node -> Seq(Request)]]
  BY ZenonT(30), Zenon DEF TypeOK
<1>0. req[k][j] \in Seq(Request)
  BY ZenonT(30), Zenon, <1>a
<1> TAKE x \in Packets(k, j)'
<1>1. PICK q \in {req'[k][j]} \cup stale'[k][j] : \E i \in DOMAIN q : q[i] = x
  BY SMTT(90), PacketsElements
<1>2. PICK i \in DOMAIN q : q[i] = x
  BY SMTT(90), <1>1
<1>3. CASE q \in stale[k][j]
  BY SMTT(90), <1>2, <1>3, PacketsElements
<1>4. CASE q = Append(req[k][j], y)
  <2>1. \A p \in DOMAIN Append(req[k][j], y) :
          \/ p \in DOMAIN req[k][j] /\ Append(req[k][j], y)[p] = req[k][j][p]
          \/ Append(req[k][j], y)[p] = y
    BY ZenonT(60), <1>0, AppendElements
  <2>2. (i \in DOMAIN req[k][j] /\ req[k][j][i] = x) \/ x = y
    BY ZenonT(60), <1>2, <1>4, <2>1
  <2>3. (\E p \in DOMAIN req[k][j] : req[k][j][p] = x) => x \in Packets(k, j)
    BY ZenonT(60), PacketsElements
  <2> QED BY ZenonT(60), <2>2, <2>3
<1> QED BY SMTT(90), <1>1, <1>3, <1>4

(* An I/O error moves packets to a closed connection.                      *)
LEMMA LinkErrorPackets ==
  ASSUME TypeOK, NEW n \in Node, NEW m \in Node, handleLinkIOError(n, m),
         NEW k \in Node, NEW j \in Node
  PROVE  \A x \in Packets(k, j)' : x \in Packets(k, j)
<1>0. /\ req \in [Node -> [Node -> Seq(Request)]]
      /\ stale \in [Node -> [Node -> SUBSET (Seq(Request) \ {<<>>})]]
  BY ZenonT(60) DEF TypeOK
<1>1. PICK q \in Leftovers(req[n][m]) :
        stale' = [stale EXCEPT ![n][m] = stale[n][m] \cup ({q} \ {<<>>})]
  BY ZenonT(60), <1>0 DEF handleLinkIOError
<1>2. req' = [req EXCEPT ![n][m] = <<>>]
  BY ZenonT(60) DEF handleLinkIOError
<1>3. CASE k = n /\ j = m
  <2>1. req'[k][j] = <<>> /\ stale'[k][j] = stale[k][j] \cup ({q} \ {<<>>})
    BY SMTT(90), <1>0, <1>1, <1>2, <1>3
  <2>2. \A i \in DOMAIN q : i \in DOMAIN req[k][j] /\ q[i] = req[k][j][i]
    <3>1. req[k][j] \in Seq(Request) /\ q \in Leftovers(req[k][j])
      BY SMTT(30), <1>0, <1>3
    <3> QED BY SMTT(90), <3>1, LeftoverElements
  <2>3. DOMAIN <<>> = {}
    BY SMTT(90)
  <2> QED BY ZenonT(60), <2>1, <2>2, <2>3, PacketsSubset
<1>4. CASE k # n \/ j # m
  <2>1. req'[k][j] = req[k][j] /\ stale'[k][j] = stale[k][j]
    BY SMTT(90), <1>0, <1>1, <1>2, <1>4
  <2> QED BY SMTT(90), <2>1, PacketsSame
<1> QED BY SMTT(90), <1>3, <1>4

(* So does a restart, which loses what was on its way to the node.         *)
LEMMA RestartPackets ==
  ASSUME TypeOK, NEW n \in Node, clusterInit(n), NEW k \in Node, NEW j \in Node
  PROVE  \A x \in Packets(k, j)' : x \in Packets(k, j)
<1>0. \A m \in Node : req[n][m] \in Seq(Request)
  BY DEF TypeOK
<1>1. PICK left :
        /\ \A m \in Node : left[m] \in Leftovers(req[n][m])
        /\ stale' = [a \in Node |-> [b \in Node |->
             IF b = n THEN {}
             ELSE IF a = n THEN stale[a][b] \cup ({left[b]} \ {<<>>})
             ELSE stale[a][b]]]
  BY ZenonT(60) DEF clusterInit
<1>2. req' = [a \in Node |-> [b \in Node |->
                IF n \in {a, b} THEN <<>> ELSE req[a][b]]]
  BY ZenonT(60) DEF clusterInit
<1>3. /\ req'[k][j] = <<>> \/ req'[k][j] = req[k][j]
      /\ \/ stale'[k][j] = {} \/ stale'[k][j] = stale[k][j]
         \/ k = n /\ stale'[k][j] = stale[k][j] \cup ({left[j]} \ {<<>>})
  BY ZenonT(60), <1>1, <1>2
<1>4. \A i \in DOMAIN left[j] : i \in DOMAIN req[n][j] /\ left[j][i] = req[n][j][i]
  BY SMTT(90), <1>0, <1>1, LeftoverElements
<1>5. DOMAIN <<>> = {}
  BY SMTT(90)
<1>6. ASSUME NEW q \in {req'[k][j]} \cup stale'[k][j], NEW i \in DOMAIN q
      PROVE  \E p \in {req[k][j]} \cup stale[k][j] : \E h \in DOMAIN p : p[h] = q[i]
  <2>1. \/ q = <<>> \/ q \in {req[k][j]} \cup stale[k][j]
        \/ k = n /\ q = left[j]
    BY ZenonT(60), <1>3
  <2> QED BY ZenonT(60), <1>4, <1>5, <2>1
<1> QED BY ZenonT(60), <1>6, PacketsSubset

(* A leader's pass sends copies of entries of its log.                     *)
LEMMA DutiesPackets ==
  ASSUME TypeOK, TypeOK', NEW n \in Node, LeaderDuties(n), stale' = stale,
         NEW k \in Node, NEW j \in Node, NEW x \in Packets(k, j)'
  PROVE  \/ x \in Packets(k, j)
         \/ /\ k = n /\ x.term = current_term[n]
            /\ \E next \in Int : /\ x.prev_log_index = next - 1
                                 /\ x.log_entries = EntriesFrom(n, next)
<1>0. req \in [Node -> [Node -> Seq(Request)]] /\ next_index'[n][j] \in Int
  <2>1. req \in [Node -> [Node -> Seq(Request)]]
    BY ZenonT(60) DEF TypeOK
  <2>2. next_index' \in [Node -> [Node -> Int]]
    BY ZenonT(60) DEF TypeOK
  <2> QED BY SMTT(90), <2>1, <2>2
<1>1. PICK H : clusterSendAppendEntries(n, H)
  BY ZenonT(60) DEF LeaderDuties
<1> DEFINE a(m) == [type |-> "AppendEntries", term |-> current_term[n],
                    prev_log_index |-> next_index'[n][m] - 1,
                    prev_log_term |-> logGetTerm(log[n], next_index'[n][m] - 1),
                    leader_commit_index |-> commit_index'[n],
                    log_entries |-> EntriesFrom(n, next_index'[n][m])]
<1>2. \/ req'[k][j] = req[k][j]
      \/ k = n /\ req'[k][j] = Append(req[k][j], a(j))
  BY ZenonT(60), <1>0, <1>1 DEF clusterSendAppendEntries
<1>3. /\ a(j).term = current_term[n] /\ a(j).prev_log_index = next_index'[n][j] - 1
      /\ a(j).log_entries = EntriesFrom(n, next_index'[n][j])
  BY ZenonT(60)
<1> HIDE DEF a
<1>4. x \in Packets(k, j) \/ (k = n /\ x = a(j))
  <2>0. stale'[k][j] = stale[k][j]
    BY SMTT(30)
  <2>1. CASE req'[k][j] = req[k][j]
    <3>1. \A y \in Packets(k, j)' : y \in Packets(k, j)
      BY SMTT(30), <2>0, <2>1, PacketsSame
    <3> QED BY SMTT(30), <3>1
  <2>2. CASE k = n /\ req'[k][j] = Append(req[k][j], a(j))
    <3>1. \A y \in Packets(k, j)' : y \in Packets(k, j) \/ y = a(j)
      BY SMTT(90), <2>0, <2>2, PacketsAppend
    <3> QED BY SMTT(30), <2>2, <3>1
  <2> QED BY SMTT(30), <1>2, <2>1, <2>2
<1> QED BY ZenonT(60), <1>0, <1>3, <1>4

(* An election puts requests for votes on the bus, nothing else.           *)
LEMMA StartElectionPackets ==
  ASSUME TypeOK, NEW n \in Node, CronStartElection(n), stale' = stale,
         NEW k \in Node, NEW j \in Node, NEW x \in Packets(k, j)'
  PROVE  x \in Packets(k, j) \/ x.type = "RequestVote"
<1>0. req \in [Node -> [Node -> Seq(Request)]]
  BY ZenonT(60) DEF TypeOK
<1> DEFINE v == [type |-> "RequestVote", term |-> current_term[n] + 1,
                 last_log_index |-> logCurrentIndex(log[n]),
                 last_log_term |-> logCurrentTerm(log[n])]
<1>1. req'[k][j] = req[k][j] \/ req'[k][j] = Append(req[k][j], v)
  BY ZenonT(60), <1>0 DEF CronStartElection, clusterSendRequestVote
<1>2. v.type = "RequestVote"
  BY ZenonT(60)
<1> HIDE DEF v
<1>3. stale'[k][j] = stale[k][j]
  OBVIOUS
<1>4. CASE req'[k][j] = req[k][j]
  <2>1. \A y \in Packets(k, j)' : y \in Packets(k, j)
    BY SMTT(90), <1>3, <1>4, PacketsSame
  <2> QED BY SMTT(30), <2>1
<1>5. CASE req'[k][j] = Append(req[k][j], v)
  <2>1. \A y \in Packets(k, j)' : y \in Packets(k, j) \/ y = v
    BY SMTT(90), <1>3, <1>5, PacketsAppend
  <2> QED BY SMTT(90), <1>2, <2>1
<1> QED BY <1>1, <1>4, <1>5

(* A pass of clusterCron sends nothing but requests for votes and copies   *)
(* of entries.                                                             *)
LEMMA CronPackets ==
  ASSUME TypeOK, TypeOK', NEW n \in Node, clusterCron(n)
  PROVE  PacketsKept
<1> SUFFICES ASSUME NEW k \in Node, NEW j \in Node, NEW x \in Packets(k, j)',
                    x.type = "AppendEntries"
             PROVE  \/ x \in Packets(k, j)
                    \/ log' = log /\ FreshAppend(k, x)
  BY SMTT(90) DEF PacketsKept
<1>0. /\ log' = log /\ stale' = stale
      /\ state \in [Node -> {FOLLOWER, CANDIDATE, LEADER}]
      /\ current_term \in [Node -> Term]
      /\ elected \in [Term -> SUBSET Node]
  BY ZenonT(60) DEF clusterCron, TypeOK
<1>1. CASE CronStartElection(n)
  BY SMTT(90), <1>0, <1>1, StartElectionPackets
<1>2. CASE CronIdle(n)
  <2>1. req'[k][j] = req[k][j] /\ stale'[k][j] = stale[k][j]
    BY ZenonT(60), <1>0, <1>2 DEF CronIdle
  <2>2. \A y \in Packets(k, j)' : y \in Packets(k, j)
    BY SMTT(90), <2>1, PacketsSame
  <2> QED BY <2>2
<1>3. CASE CronLead(n)
  <2>1. /\ state[n] = LEADER /\ state' = state /\ current_term' = current_term
        /\ LeaderDuties(n)
    BY ZenonT(60), <1>3 DEF CronLead, electionVars
  <2> QED BY SMTT(90), <1>0, <2>1, DutiesPackets DEF FreshAppend
<1>4. CASE CronBecomeLeader(n)
  <2>1. /\ state'[n] = LEADER /\ current_term' = current_term
        /\ n \in elected'[current_term[n]] /\ LeaderDuties(n)
    BY SMTT(30), <1>0, <1>4 DEF CronBecomeLeader
  <2> QED BY SMTT(90), <1>0, <2>1, DutiesPackets DEF FreshAppend
<1> QED BY ZenonT(60), <1>1, <1>2, <1>3, <1>4 DEF clusterCron

(* Every step: an AppendEntries was under way before, or a leader sends it *)
(* with entries of its log.                                                *)
LEMMA NextPackets ==
  ASSUME TypeOK, TypeOK', [Next]_vars
  PROVE  PacketsKept
<1> USE DEF PacketsKept
<1>1. ASSUME NEW n \in Node, clusterCron(n) PROVE PacketsKept
  <2> HIDE DEF PacketsKept
  <2> QED BY SMTT(90), <1>1, CronPackets
<1>2. ASSUME NEW n \in Node, NEW m \in Node, ProcessRequest(n, m) PROVE PacketsKept
  <2>1. PICK src \in Sources(n, m) :
          \/ \E r \in SelfVoteReads : clusterProcessRequestVote(n, m, src, r)
          \/ \E synced \in FsyncOutcomes : clusterProcessAppendEntries(n, m, src, synced)
    BY ZenonT(60), <1>2 DEF ProcessRequest
  <2>2. \E reply : Answer(n, m, src, reply)
    BY ZenonT(60), <2>1 DEF clusterProcessRequestVote, clusterProcessAppendEntries
  <2> QED BY SMTT(90), <2>2, AnswerPackets
<1>3. ASSUME UNCHANGED <<req, stale>> PROVE PacketsKept
  <2>1. ASSUME NEW k \in Node, NEW j \in Node
        PROVE  \A x \in Packets(k, j)' : x \in Packets(k, j)
    <3>1. req'[k][j] = req[k][j] /\ stale'[k][j] = stale[k][j]
      BY SMTT(30), <1>3
    <3> QED BY SMTT(90), <3>1, PacketsSame
  <2> QED BY SMTT(90), <2>1
<1>4. ASSUME NEW n \in Node, NEW m \in Node, ProcessResponse(n, m) PROVE PacketsKept
  <2>1. UNCHANGED <<req, stale>>
    BY ZenonT(60), <1>4 DEF ProcessResponse, clusterProcessResponseVote,
         clusterProcessResponseAppendEntries
  <2> QED BY SMTT(90), <1>3, <2>1
<1>5. ASSUME NEW n \in Node, NEW cmd \in Cmd, clusterProcessCommand(n, cmd)
      PROVE  PacketsKept
  <2>1. UNCHANGED <<req, stale>>
    BY ZenonT(60), <1>5 DEF clusterProcessCommand, busVars
  <2> QED BY SMTT(90), <1>3, <2>1
<1>6. ASSUME NEW n \in Node, NEW m \in Node, handleLinkIOError(n, m) PROVE PacketsKept
  BY SMTT(90), <1>6, LinkErrorPackets
<1>7. ASSUME NEW n \in Node, clusterInit(n) PROVE PacketsKept
  BY SMTT(90), <1>7, RestartPackets
<1>8. ASSUME UNCHANGED vars PROVE PacketsKept
  <2>1. UNCHANGED <<req, stale>>
    BY <1>8 DEF vars, busVars
  <2> QED BY SMTT(90), <1>3, <2>1
<1> QED BY ZenonT(60), <1>1, <1>2, <1>4, <1>5, <1>6, <1>7, <1>8 DEF Next

(* What a batch changes: the log of its receiver, by the entries of the    *)
(* packet.                                                                 *)
LEMMA AppendLog ==
  ASSUME TypeOK, NEW n \in Node, NEW m \in Node, NEW src \in Sources(n, m),
         NEW synced, clusterProcessAppendEntries(n, m, src, synced)
  PROVE  \E a \in Packets(n, m) :
           /\ a.type = "AppendEntries"
           /\ \/ log' = log
              \/ /\ a.term >= current_term[m]
                 /\ logVerifyAppend(log[m], a.prev_log_index, a.prev_log_term)
                 /\ log' = [log EXCEPT ![m] = logAppendEntries(log[m], a.log_entries)]
<1> DEFINE a == Head(src.queue)
           verified == logVerifyAppend(log[m], a.prev_log_index, a.prev_log_term)
           written == IF verified THEN logAppendEntries(log[m], a.log_entries)
                      ELSE log[m]
<1>0. log \in [Node -> Seq(Entry)]
  BY DEF TypeOK
<1>1. \E reply : Answer(n, m, src, reply)
  BY ZenonT(60) DEF clusterProcessAppendEntries
<1>2. a \in Packets(n, m)
  BY SMTT(90), <1>1, AnswerPackets
<1>3. /\ a.type = "AppendEntries"
      /\ \/ log' = log
         \/ a.term >= current_term[m] /\ log' = [log EXCEPT ![m] = written]
  BY ZenonT(60) DEF clusterProcessAppendEntries, storeVars
<1>4. ~verified => [log EXCEPT ![m] = written] = log
  <2> HIDE DEF verified, a
  <2> QED BY <1>0
<1>5. verified => written = logAppendEntries(log[m], a.log_entries)
  BY ZenonT(60)
<1> QED BY ZenonT(60), <1>2, <1>3, <1>4, <1>5

(* What the entries sent to a peer are.                                    *)
LEMMA EntriesFromLog ==
  ASSUME TypeOK, NEW n \in Node, NEW next \in Int,
         NEW h \in DOMAIN EntriesFrom(n, next)
  PROVE  /\ EntriesFrom(n, next) # <<>> /\ logCurrentIndex(log[n]) >= next
         /\ getLogNode(log[n], next) \in 1..Len(log[n])
         /\ h \in 1..Len(EntriesFrom(n, next))
         /\ getLogNode(log[n], next) + h - 1 \in 1..Len(log[n])
         /\ EntriesFrom(n, next)[h] = log[n][getLogNode(log[n], next) + h - 1]
<1> DEFINE l == log[n]
           first == getLogNode(l, next)
           last == Min({Len(l), first + MaxEntriesPerRequest - 1})
           s == EntriesFrom(n, next)
<1>0. l \in Seq(Entry) /\ Len(l) \in Nat /\ MaxEntriesPerRequest \in Nat
  BY SMTT(90), LogTypes, LenProperties, ClusterAssumption DEF ClusterAssumption
<1>1. first \in 0..Len(l)
  BY SMTT(90), <1>0, GetLogNodeRange
<1>2. s \in Seq(Entry) /\ DOMAIN s = 1..Len(s) /\ Len(s) \in Nat
  BY EntriesFromTypes, LenProperties
<1>3. DOMAIN <<>> = {}
  OBVIOUS
<1>4. /\ logCurrentIndex(l) >= next /\ first # 0 /\ s = SubSeq(l, first, last)
      /\ s # <<>>
  BY ZenonT(60), <1>3 DEF EntriesFrom
<1>5. last \in Int /\ last <= Len(l)
  <2> DEFINE b == first + MaxEntriesPerRequest - 1
  <2>1. Len(l) \in Int /\ b \in Int
    BY SMTT(90), <1>0, <1>1
  <2> HIDE DEF b, l
  <2>2. Min({Len(l), b}) \in {Len(l), b} /\ Min({Len(l), b}) <= Len(l)
    BY ZenonT(60), <2>1, MinOfTwo
  <2> QED BY SMTT(90), <2>1, <2>2 DEF b
<1> HIDE DEF last, first, l
<1>6. \A i \in first..last : l[i] \in Entry
  BY SMTT(90), <1>0, <1>1, <1>4, <1>5
<1>7. /\ Len(s) = IF first <= last THEN last - first + 1 ELSE 0
      /\ \A i \in 1 .. last - first + 1 : s[i] = l[first + i - 1]
  <2>1. first \in Int /\ last \in Int
    BY SMTT(90), <1>1, <1>5
  <2> HIDE DEF s
  <2> QED BY SMTT(90), <1>4, <1>6, <2>1, SubSeqProperties
<1>8. h \in 1..Len(s)
  BY SMTT(90), <1>2
<1>9. h \in 1 .. last - first + 1 /\ first + h - 1 \in 1..Len(l)
  BY SMTT(90), <1>0, <1>1, <1>4, <1>5, <1>7, <1>8
<1>10. s[h] = l[first + h - 1]
  BY ZenonT(60), <1>7, <1>9
<1>11. first \in 1..Len(l)
  BY SMTT(90), <1>0, <1>1, <1>4
<1> QED BY ZenonT(60), <1>4, <1>8, <1>9, <1>10, <1>11 DEF first, l

(* The log of a node changes by a batch or by the write of a client.       *)
LEMMA LogChanges ==
  ASSUME [Next]_vars
  PROVE  \/ log' = log
         \/ \E n \in Node, cmd \in Cmd : clusterProcessCommand(n, cmd)
         \/ \E n, m \in Node : \E src \in Sources(n, m) : \E synced \in FsyncOutcomes :
              clusterProcessAppendEntries(n, m, src, synced)
<1>1. ASSUME NEW n \in Node, clusterCron(n) PROVE log' = log
  BY ZenonT(60), <1>1 DEF clusterCron
<1>2. ASSUME NEW n \in Node, NEW m \in Node, NEW src \in Sources(n, m), NEW r,
             clusterProcessRequestVote(n, m, src, r)
      PROVE  log' = log
  BY ZenonT(60), <1>2 DEF clusterProcessRequestVote, storeVars
<1>3. ASSUME NEW n \in Node, NEW m \in Node, ProcessResponse(n, m) PROVE log' = log
  BY ZenonT(60), <1>3 DEF ProcessResponse, clusterProcessResponseVote,
       clusterProcessResponseAppendEntries, storeVars
<1>4. ASSUME NEW n \in Node, NEW m \in Node, handleLinkIOError(n, m) PROVE log' = log
  BY ZenonT(60), <1>4 DEF handleLinkIOError, storeVars
<1>5. ASSUME NEW n \in Node, clusterInit(n) PROVE log' = log
  BY ZenonT(60), <1>5 DEF clusterInit
<1>6. ASSUME UNCHANGED vars PROVE log' = log
  BY ZenonT(60), <1>6 DEF vars, storeVars
<1> QED BY ZenonT(60), <1>1, <1>2, <1>3, <1>4, <1>5, <1>6 DEF Next, ProcessRequest

----------------------------------------------------------------------------
(* Terms only grow, candidacies begin with a new term, and only the cron   *)
(* of a candidate makes a leader.                                          *)
LEMMA OfficeStep ==
  ASSUME TypeOK, [Next]_vars, NEW k \in Node
  PROVE  /\ current_term'[k] >= current_term[k] \/ clusterInit(k)
         /\ state'[k] = CANDIDATE =>
              \/ current_term'[k] > current_term[k]
              \/ state[k] = CANDIDATE /\ current_term'[k] = current_term[k]
         /\ state'[k] = LEADER =>
              /\ current_term'[k] = current_term[k]
              /\ state[k] = LEADER \/ CronBecomeLeader(k)
         /\ elected' = elected \/ \E n \in Node : CronBecomeLeader(n)
<1> DEFINE Goal ==
             /\ current_term'[k] >= current_term[k] \/ clusterInit(k)
             /\ state'[k] = CANDIDATE =>
                  \/ current_term'[k] > current_term[k]
                  \/ state[k] = CANDIDATE /\ current_term'[k] = current_term[k]
             /\ state'[k] = LEADER =>
                  /\ current_term'[k] = current_term[k]
                  /\ state[k] = LEADER \/ CronBecomeLeader(k)
             /\ elected' = elected \/ \E n \in Node : CronBecomeLeader(n)
<1> SUFFICES Goal
  BY ZenonT(60)
<1> HIDE DEF Goal
<1>0. /\ state \in [Node -> {FOLLOWER, CANDIDATE, LEADER}]
      /\ current_term \in [Node -> Term] /\ \A n \in Node : current_term[n] \in Nat
      /\ FOLLOWER # CANDIDATE /\ FOLLOWER # LEADER /\ CANDIDATE # LEADER
  BY ZenonT(60), TermFacts DEF TypeOK, FOLLOWER, CANDIDATE, LEADER
<1>1. ASSUME UNCHANGED <<state, current_term, elected>> PROVE Goal
  BY SMTT(90), <1>0, <1>1 DEF Goal
<1>2. ASSUME NEW n \in Node, clusterCron(n) PROVE Goal
  <2>1. CASE CronStartElection(n)
    <3>1. /\ state' = [state EXCEPT ![n] = CANDIDATE] /\ elected' = elected
          /\ current_term' = [current_term EXCEPT ![n] = current_term[n] + 1]
      BY ZenonT(60), <1>0, <2>1 DEF CronStartElection
    <3> QED BY SMTT(90), <1>0, <3>1 DEF Goal
  <2>2. CASE CronBecomeLeader(n)
    <3>1. state' = [state EXCEPT ![n] = LEADER] /\ current_term' = current_term
      BY ZenonT(60), <2>2 DEF CronBecomeLeader
    <3>2. CASE k = n
      <4> HIDE DEF CronBecomeLeader
      <4>1. state'[k] = LEADER /\ current_term'[k] = current_term[k]
        BY ZenonT(60), <1>0, <3>1, <3>2
      <4> QED BY SMTT(90), <1>0, <2>2, <3>2, <4>1 DEF Goal
    <3>3. CASE k # n
      <4>1. state'[k] = state[k] /\ current_term'[k] = current_term[k]
        BY ZenonT(60), <1>0, <3>1, <3>3
      <4> QED BY SMTT(90), <1>0, <2>2, <4>1 DEF Goal
    <3> QED BY Zenon, <3>2, <3>3
  <2>3. CASE CronLead(n) \/ CronIdle(n)
    <3>1. UNCHANGED <<state, current_term, elected>>
      BY ZenonT(60), <2>3 DEF CronLead, CronIdle, electionVars, historyVars
    <3> QED BY Zenon, <1>1, <3>1
  <2> QED BY ZenonT(60), <1>2, <2>1, <2>2, <2>3 DEF clusterCron
<1>3. ASSUME NEW n \in Node, NEW t \in Nat, t > current_term[n], StepDown(n, t),
             elected' = elected
      PROVE  Goal
  BY SMTT(90), <1>0, <1>3 DEF StepDown, Goal
<1>4. ASSUME NEW n \in Node, NEW m \in Node, ProcessRequest(n, m) PROVE Goal
  <2>1. PICK src \in Sources(n, m) :
          \/ \E r \in SelfVoteReads : clusterProcessRequestVote(n, m, src, r)
          \/ \E synced \in FsyncOutcomes : clusterProcessAppendEntries(n, m, src, synced)
    BY ZenonT(60), <1>4 DEF ProcessRequest
  <2> DEFINE v == Head(src.queue)
  <2>2. v.term \in Nat
    <3>1. v \in Request
      BY SMTT(90), SourceTypes
    <3>2. v.term \in Term
      BY SMTT(90), <3>1 DEF Request, RequestVote, AppendEntries
    <3> QED BY SMTT(90), <3>2, TermFacts
  <2>3. /\ elected' = elected
        /\ \/ UNCHANGED <<state, current_term>>
           \/ /\ v.term > current_term[m]
              /\ state' = [state EXCEPT ![m] = FOLLOWER]
              /\ current_term' = [current_term EXCEPT ![m] = v.term]
           \/ /\ v.term = current_term[m]
              /\ state' = [state EXCEPT ![m] = StateOnAppend(m, v.term)]
              /\ current_term' = [current_term EXCEPT ![m] = v.term]
    <3>1. CASE \E r \in SelfVoteReads : clusterProcessRequestVote(n, m, src, r)
      <4>1. /\ elected' = elected
            /\ state' = [state EXCEPT ![m] =
                           IF v.term > current_term[m] THEN FOLLOWER ELSE state[m]]
            /\ current_term' = [current_term EXCEPT ![m] =
                           IF v.term > current_term[m] THEN v.term ELSE current_term[m]]
        BY ZenonT(60), <1>0, <3>1 DEF clusterProcessRequestVote
      <4> HIDE DEF v
      <4> QED BY ZenonT(60), <1>0, <4>1
    <3>2. CASE \E synced \in FsyncOutcomes : clusterProcessAppendEntries(n, m, src, synced)
      <4>1. /\ elected' = elected
            /\ \/ UNCHANGED <<state, current_term>>
               \/ /\ v.term >= current_term[m]
                  /\ state' = [state EXCEPT ![m] = StateOnAppend(m, v.term)]
                  /\ current_term' = [current_term EXCEPT ![m] = v.term]
        BY ZenonT(60), <3>2 DEF clusterProcessAppendEntries, historyVars, electionVars
      <4>2. v.term > current_term[m] => StateOnAppend(m, v.term) = FOLLOWER
        BY SMTT(90) DEF StateOnAppend
      <4> HIDE DEF v
      <4> QED BY SMTT(90), <1>0, <2>2, <4>1, <4>2
    <3> QED BY ZenonT(60), <2>1, <3>1, <3>2
  <2>4. StateOnAppend(m, v.term) = state[m] \/ StateOnAppend(m, v.term) = FOLLOWER
    BY SMTT(90) DEF StateOnAppend
  <2> HIDE DEF v
  <2> QED BY SMTT(90), <1>0, <2>2, <2>3, <2>4 DEF Goal
<1>5. ASSUME NEW n \in Node, NEW m \in Node, ProcessResponse(n, m) PROVE Goal
  <2> DEFINE r == Head(resp[n][m])
  <2>1. resp[n][m] # <<>>
    BY ZenonT(60), <1>5 DEF ProcessResponse, clusterProcessResponseVote,
         clusterProcessResponseAppendEntries
  <2>2. r.term \in Nat
    BY ZenonT(60), <2>1, ResponseHeadTypes, TermFacts
  <2>3. /\ elected' = elected
        /\ \/ UNCHANGED <<state, current_term>>
           \/ r.term > current_term[n] /\ StepDown(n, r.term)
    BY ZenonT(60), <1>5 DEF ProcessResponse, clusterProcessResponseVote,
         clusterProcessResponseAppendEntries, electionVars, historyVars
  <2> HIDE DEF r
  <2> QED BY ZenonT(60), <1>1, <1>3, <2>2, <2>3
<1>6. ASSUME NEW n \in Node, NEW cmd \in Cmd, clusterProcessCommand(n, cmd) PROVE Goal
  <2>1. UNCHANGED <<state, current_term, elected>>
    BY ZenonT(60), <1>6 DEF clusterProcessCommand, electionVars, historyVars
  <2> QED BY ZenonT(60), <1>1, <2>1
<1>7. ASSUME NEW n \in Node, NEW m \in Node, handleLinkIOError(n, m) PROVE Goal
  <2>1. UNCHANGED <<state, current_term, elected>>
    BY ZenonT(60), <1>7 DEF handleLinkIOError, electionVars, historyVars
  <2> QED BY ZenonT(60), <1>1, <2>1
<1>8. ASSUME NEW n \in Node, clusterInit(n) PROVE Goal
  <2>1. /\ state' = [state EXCEPT ![n] = FOLLOWER] /\ elected' = elected
        /\ current_term' = [current_term EXCEPT ![n] = logCurrentTerm(log[n])]
    BY ZenonT(60), <1>8 DEF clusterInit, ResetElectionState
  <2>2. CASE k = n
    <3>1. state'[k] = FOLLOWER
      BY ZenonT(60), <1>0, <2>1, <2>2
    <3> QED BY ZenonT(60), <1>0, <1>8, <2>1, <2>2, <3>1 DEF Goal
  <2>3. CASE k # n
    <3>1. state'[k] = state[k] /\ current_term'[k] = current_term[k]
      BY ZenonT(60), <1>0, <2>1, <2>3
    <3> QED BY SMTT(90), <1>0, <2>1, <3>1 DEF Goal
  <2> QED BY Zenon, <2>2, <2>3
<1>9. ASSUME UNCHANGED vars PROVE Goal
  <2>1. UNCHANGED <<state, current_term, elected>>
    BY SMTT(90), <1>9 DEF vars, electionVars, historyVars
  <2> QED BY ZenonT(60), <1>1, <2>1
<1> QED BY ZenonT(60), <1>2, <1>4, <1>5, <1>6, <1>7, <1>8, <1>9 DEF Next

(* Taking office enters the node among those elected in its term.          *)
LEMMA TakesOffice ==
  ASSUME TypeOK, NEW n \in Node, CronBecomeLeader(n)
  PROVE  /\ state[n] = CANDIDATE /\ state'[n] = LEADER
         /\ current_term'[n] = current_term[n]
         /\ n \in elected'[current_term[n]]
         /\ \A t \in Term : /\ elected[t] \subseteq elected'[t]
                           /\ \A k \in elected'[t] :
                                k \in elected[t] \/ (k = n /\ t = current_term[n])
<1>0. /\ state \in [Node -> {FOLLOWER, CANDIDATE, LEADER}]
      /\ elected \in [Term -> SUBSET Node] /\ current_term[n] \in Term
  BY ZenonT(60) DEF TypeOK
<1>1. /\ state[n] = CANDIDATE /\ state' = [state EXCEPT ![n] = LEADER]
      /\ current_term' = current_term
      /\ elected' = [elected EXCEPT ![current_term[n]] = elected[current_term[n]] \cup {n}]
  BY ZenonT(60), <1>0 DEF CronBecomeLeader
<1> QED BY ZenonT(60), <1>0, <1>1

(* Who has held office stays among those elected; one more at most joins   *)
(* them in a step, by taking office.                                       *)
LEMMA ElectedGrows ==
  ASSUME TypeOK, [Next]_vars
  PROVE  \A t \in Term :
           /\ elected[t] \subseteq elected'[t]
           /\ \A k \in elected'[t] : k \in elected[t] \/
                /\ k \in Node /\ CronBecomeLeader(k)
                /\ t = current_term[k]
<1>1. CASE elected' = elected
  BY SMTT(90), <1>1
<1>2. CASE \E n \in Node : CronBecomeLeader(n)
  BY ZenonT(60), <1>2, TakesOffice
<1> QED BY ZenonT(60), <1>1, <1>2, OfficeStep, QuorumFacts
=============================================================================
