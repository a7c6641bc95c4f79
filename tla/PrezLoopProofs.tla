--------------------------- MODULE PrezLoopProofs ---------------------------
(***************************************************************************)
(* The event loop of ae.c keeps its table, what epoll watches and its      *)
(* timers in order, for any number of descriptors and timers, any periods  *)
(* and any settings of the clock.                                          *)
(***************************************************************************)
EXTENDS PrezEventLoop, WellFoundedInduction, SequenceTheorems, TLAPS

(* A non-empty set of natural numbers has a least element.                 *)
LEMMA NatLeast ==
  ASSUME NEW T \in SUBSET Nat, T # {}
  PROVE  Min(T) \in T /\ \A y \in T : Min(T) <= y
<1>1. \E x \in T : \A y \in T : ~ (<<y, x>> \in OpToRel(<, Nat))
  BY ZenonT(60), NatLessThanWellFounded, WFMin
<1>2. \A x, y \in Nat : ~ (<<y, x>> \in OpToRel(<, Nat)) => x <= y
  BY DEF OpToRel
<1>3. \E x \in T : \A y \in T : x <= y
  BY ZenonT(60), <1>1, <1>2
<1> QED BY ZenonT(60), <1>3 DEF Min

(* A non-empty set of integers that has a bound has a greatest element.    *)
LEMMA IntGreatest ==
  ASSUME NEW T \in SUBSET Int, T # {}, NEW n \in Int, \A x \in T : x <= n
  PROVE  Max(T) \in T /\ \A y \in T : Max(T) >= y
<1> DEFINE U == {n - x : x \in T}
<1>1. U \in SUBSET Nat /\ U # {}
  <2>1. \A x \in T : n - x \in Nat
    OBVIOUS
  <2>2. U \subseteq Nat
    BY <2>1
  <2>3. PICK x : x \in T
    OBVIOUS
  <2>4. n - x \in U
    BY <2>3
  <2> QED BY <2>2, <2>4
<1>2. Min(U) \in U /\ \A u \in U : Min(U) <= u
  <2> HIDE DEF U
  <2> QED BY <1>1, NatLeast
<1>3. PICK x \in T : Min(U) = n - x
  BY ZenonT(30), <1>2
<1>4. \A y \in T : n - x <= n - y
  BY <1>2, <1>3
<1>5. \A y \in T : x >= y
  BY <1>4
<1> QED BY ZenonT(30), <1>5 DEF Max

(* What is the greatest element is Max.                                    *)
LEMMA IsMax ==
  ASSUME NEW T \in SUBSET Int, NEW x \in T, \A y \in T : x >= y
  PROVE  Max(T) = x
<1>1. Max(T) \in T /\ \A y \in T : Max(T) >= y
  BY ZenonT(30), IntGreatest
<1>2. Max(T) \in Int /\ x \in Int /\ Max(T) >= x /\ x >= Max(T)
  BY ZenonT(30), <1>1
<1> QED BY <1>2
----------------------------------------------------------------------------
(* The descriptors.                                                        *)

Files == /\ events \in [FD -> SUBSET {R, W}]
         /\ open \in SUBSET FD /\ 0 \in open
         /\ setsize \in Nat /\ \A fd \in open : fd < setsize
         /\ TablesAgree

(* Max of a table that some descriptor has been added to, or taken from.   *)
LEMMA HighestRegistered ==
  ASSUME LoopAssumption, NEW ev
  PROVE  LET T == {-1} \cup Registered(ev)
         IN  /\ T \in SUBSET Int
             /\ Max(T) \in T /\ \A y \in T : Max(T) >= y
<1> DEFINE T == {-1} \cup Registered(ev)
<1>1. PICK n \in Nat : FD = 0..n
  BY DEF LoopAssumption
<1>2. n \in Int /\ T \in SUBSET Int /\ T # {} /\ \A x \in T : x <= n
  BY <1>1 DEF Registered
<1> HIDE DEF T
<1>3. Max(T) \in T /\ \A y \in T : Max(T) >= y
  BY ZenonT(30), <1>2, IntGreatest, Zenon
<1> QED BY <1>2, <1>3 DEF T

LEMMA FdNat == LoopAssumption => FD \subseteq Nat /\ 0 \in FD
BY DEF LoopAssumption

LEMMA CreateFiles ==
  ASSUME LoopAssumption, Files, NEW fd \in FD, fd < setsize, NEW mask \in SUBSET {R, W}, mask # {},
         aeCreateFileEvent(fd, mask), open' = open \cup {fd}, setsize' = setsize
  PROVE  Files'
<1>0. FD \subseteq Nat
  BY FdNat
<1>1. events' = [events EXCEPT ![fd] = @ \cup mask] /\ events' \in [FD -> SUBSET {R, W}]
  BY DEF aeCreateFileEvent, Files
<1>2. interest' = events'
  BY <1>1 DEF aeCreateFileEvent, Files, TablesAgree
<1>3. Registered(events') = Registered(events) \cup {fd}
  BY <1>1 DEF Files, Registered
<1>4. maxfd' = Max({-1} \cup Registered(events'))
  <2> DEFINE T == {-1} \cup Registered(events)
             U == {-1} \cup Registered(events')
  <2>1. T \in SUBSET Int /\ Max(T) \in T /\ \A y \in T : Max(T) >= y
    BY HighestRegistered
  <2>2. U = T \cup {fd} /\ U \in SUBSET Int
    BY SMTT(30), <1>0, <1>3, <2>1
  <2>3. maxfd = Max(T)
    BY DEF Files, TablesAgree
  <2>4. maxfd' = Max({fd, maxfd})
    BY DEF aeCreateFileEvent
  <2> HIDE DEF T, U
  <2>0. fd \in Int /\ maxfd \in Int /\ maxfd \in T /\ \A y \in T : y \in Int /\ maxfd >= y
    <3>1. fd \in Int
      BY <1>0
    <3>2. \A y \in T : y \in Int
      BY ZenonT(30), <2>1, Zenon
    <3>3. maxfd \in T /\ \A y \in T : maxfd >= y
      BY ZenonT(30), <2>1, <2>3, Zenon
    <3> QED BY ZenonT(30), <3>1, <3>2, <3>3, Zenon
  <2>5. CASE fd >= maxfd
    <3>1. Max({fd, maxfd}) = fd
      <4>1. {fd, maxfd} \in SUBSET Int /\ \A y \in {fd, maxfd} : fd >= y
        BY <2>0, <2>5
      <4> QED BY ZenonT(30), <4>1, IsMax
    <3>2. Max(U) = fd
      <4>1. fd \in U /\ \A y \in U : fd >= y
        <5>1. \A y \in T : fd >= y
          BY SMTT(30), <2>0, <2>5
        <5> QED BY <2>0, <2>2, <5>1
      <4> QED BY <2>2, <4>1, IsMax
    <3> QED BY SMTT(30), <2>4, <3>1, <3>2 DEF U
  <2>6. CASE ~(fd >= maxfd)
    <3>1. Max({fd, maxfd}) = maxfd
      <4>1. {fd, maxfd} \in SUBSET Int /\ \A y \in {fd, maxfd} : maxfd >= y
        BY SMTT(30), <2>0, <2>6
      <4> QED BY SMTT(30), <4>1, IsMax
    <3>2. Max(U) = maxfd
      <4>1. maxfd \in U /\ \A y \in U : maxfd >= y
        BY SMTT(30), <2>0, <2>2, <2>6
      <4> QED BY SMTT(30), <2>2, <4>1, IsMax
    <3> QED BY SMTT(30), <2>4, <3>1, <3>2 DEF U
  <2> QED BY <2>5, <2>6
<1>5. \A f \in Registered(events') : f \in open' /\ f < setsize'
  BY <1>3 DEF Files, TablesAgree
<1>6. open' \in SUBSET FD /\ 0 \in open' /\ setsize' \in Nat /\ \A f \in open' : f < setsize'
  BY DEF Files
<1> QED BY ZenonT(30), <1>1, <1>2, <1>4, <1>5, <1>6 DEF Files, TablesAgree

LEMMA DeleteFiles ==
  ASSUME LoopAssumption, Files, NEW fd \in FD, NEW mask \in SUBSET {R, W},
         aeDeleteFileEvent(fd, mask), setsize' = setsize,
         open' = open \/ (open' = open \ {fd} /\ mask = {R, W} /\ fd # 0)
  PROVE  Files'
<1>0. FD \subseteq Nat
  BY SMTT(30), FdNat
<1> DEFINE ev == [events EXCEPT ![fd] = @ \ mask]
<1>1. ev \in [FD -> SUBSET {R, W}] /\ Registered(ev) \subseteq Registered(events)
      /\ \A f \in Registered(events) : f # fd => f \in Registered(ev)
  BY DEF Files, Registered
<1>2. open' \in SUBSET FD /\ 0 \in open' /\ setsize' \in Nat /\ \A f \in open' : f < setsize'
  BY DEF Files
<1>3. CASE fd >= setsize \/ events[fd] = {}
  <2>1. events' = events /\ interest' = interest /\ maxfd' = maxfd
    BY <1>3 DEF aeDeleteFileEvent
  <2>2. \A f \in Registered(events) : f \in open' /\ f < setsize'
    <3>1. \A f \in Registered(events) : f \in open /\ f < setsize
      BY DEF Files, TablesAgree
    <3>2. fd \notin Registered(events)
      BY SMTT(30), <1>0, <1>3, <3>1 DEF Registered, Files
    <3> QED BY SMTT(30), <3>1, <3>2
  <2> QED BY SMTT(30), <1>2, <2>1, <2>2 DEF Files, TablesAgree
<1>4. CASE ~(fd >= setsize \/ events[fd] = {})
  <2>1. /\ events' = ev /\ interest' = [interest EXCEPT ![fd] = ev[fd]]
        /\ maxfd' = IF fd = maxfd /\ ev[fd] = {}
                    THEN Max({-1} \cup {j \in Registered(ev) : j < maxfd}) ELSE maxfd
    BY <1>4 DEF aeDeleteFileEvent
  <2>2. interest' = events'
    BY <2>1 DEF Files, TablesAgree
  <2>3. \A f \in Registered(events') : f \in open' /\ f < setsize'
    <3>1. \A f \in Registered(events) : f \in open /\ f < setsize
      BY DEF Files, TablesAgree
    <3>2. mask = {R, W} => fd \notin Registered(ev)
      BY DEF Registered, Files
    <3> QED BY SMTT(30), <1>1, <2>1, <3>1, <3>2
  <2>4. maxfd' = Max({-1} \cup Registered(events'))
    <3> DEFINE T == {-1} \cup Registered(events)
               U == {-1} \cup Registered(ev)
    <3>1. T \in SUBSET Int /\ Max(T) \in T /\ \A y \in T : Max(T) >= y
      BY HighestRegistered
    <3>2. U \in SUBSET T
      BY ZenonT(30), <1>1
    <3>3. maxfd = Max(T)
      BY DEF Files, TablesAgree
    <3>4. CASE fd = maxfd /\ ev[fd] = {}
      <4>1. fd \notin Registered(ev)
        BY <3>4 DEF Registered
      <4>2. \A j \in Registered(ev) : j < maxfd
        BY SMTT(30), <1>1, <3>1, <3>2, <3>3, <3>4, <4>1
      <4>3. {j \in Registered(ev) : j < maxfd} = Registered(ev)
        BY ZenonT(30), <4>2
      <4> QED BY ZenonT(30), <2>1, <3>4, <4>3
    <3>5. CASE ~(fd = maxfd /\ ev[fd] = {})
      <4>1. maxfd \in U
        <5>1. maxfd = -1 \/ maxfd \in Registered(events)
          BY <3>1, <3>3
        <5>2. maxfd = fd => maxfd \in Registered(ev)
          BY SMTT(30), <3>5 DEF Registered
        <5> QED BY ZenonT(30), <1>1, <5>1, <5>2
      <4>2. \A y \in U : maxfd >= y
        BY SMTT(30), <3>1, <3>2, <3>3
      <4>3. U \in SUBSET Int
        BY ZenonT(30), <3>1, <3>2
      <4> HIDE DEF U
      <4>4. Max(U) = maxfd
        BY <4>1, <4>2, <4>3, IsMax
      <4> QED BY <2>1, <3>5, <4>4 DEF U
    <3> QED BY SMTT(30), <3>4, <3>5
  <2> QED BY ZenonT(30), <1>1, <1>2, <2>1, <2>2, <2>3, <2>4 DEF Files, TablesAgree
<1> QED BY SMTT(30), <1>3, <1>4

LEMMA FilesStep ==
  ASSUME LoopAssumption, Files, [Next]_vars
  PROVE  Files'
<1>0. FD \subseteq Nat
  BY FdNat
<1>1. CASE UNCHANGED fileVars
  BY <1>1 DEF fileVars, Files, TablesAgree, Registered
<1>2. CASE Accept
  <2> DEFINE fd == Min(FD \ open)
  <2>1. open \in SUBSET FD /\ open # FD
    BY SMTT(30), <1>2 DEF Accept, Files
  <2>2. fd \in FD \ open
    <3>1. FD \ open \in SUBSET Nat /\ FD \ open # {}
      BY ZenonT(30), <1>0, <2>1
    <3> QED BY SMTT(30), <3>1, NatLeast
  <2> HIDE DEF fd
  <2>3. CASE fd >= setsize
    <3>1. UNCHANGED fileVars
      BY <1>2, <2>3 DEF Accept, fileVars, fd
    <3> QED BY <1>1, <3>1
  <2>4. CASE ~(fd >= setsize)
    <3>1. aeCreateFileEvent(fd, {R}) /\ open' = open \cup {fd} /\ setsize' = setsize
      BY SMTT(30), <1>2, <2>4 DEF Accept, fd
    <3>2. fd < setsize
      BY SMTT(30), <1>0, <2>2, <2>4 DEF Files
    <3> QED BY <2>2, <3>1, <3>2, CreateFiles
  <2> QED BY SMTT(30), <2>3, <2>4
<1>3. ASSUME NEW fd \in FD, WantWrite(fd)
      PROVE  Files'
  <2>1. aeCreateFileEvent(fd, {W}) /\ setsize' = setsize /\ fd < setsize /\ open' = open \cup {fd}
    BY SMTT(30), <1>3 DEF WantWrite, Files
  <2> QED BY SMTT(30), <2>1, CreateFiles
<1>4. ASSUME NEW fd \in FD, DoneWriting(fd)
      PROVE  Files'
  <2>1. aeDeleteFileEvent(fd, {W}) /\ setsize' = setsize /\ open' = open
    BY SMTT(30), <1>4 DEF DoneWriting
  <2> QED BY SMTT(30), <2>1, DeleteFiles
<1>5. ASSUME NEW fd \in FD, CloseFd(fd)
      PROVE  Files'
  <2>1. aeDeleteFileEvent(fd, {R, W}) /\ setsize' = setsize /\ open' = open \ {fd} /\ fd # 0
    BY SMTT(30), <1>5 DEF CloseFd
  <2> QED BY SMTT(30), <2>1, DeleteFiles
<1>6. ASSUME NEW size \in SetSizes, aeResizeSetSize(size)
      PROVE  Files'
  <2>1. UNCHANGED <<events, interest, open, maxfd>> /\ setsize' = size /\ size > setsize
    BY SMTT(30), <1>6 DEF aeResizeSetSize
  <2>2. size \in Nat /\ setsize \in Nat /\ \A f \in FD : f < setsize => f < size
    BY SMTT(30), <1>0, <2>1 DEF LoopAssumption, Files
  <2> QED BY SMTT(30), <2>1, <2>2 DEF Files, TablesAgree, Registered
<1>7. CASE \E ms \in Periods : aeCreateTimeEvent(ms)
  BY SMTT(30), <1>1, <1>7 DEF aeCreateTimeEvent
<1>8. CASE \E i \in DOMAIN timers : aeDeleteTimeEvent(timers[i].id)
  BY SMTT(30), <1>1, <1>8 DEF aeDeleteTimeEvent
<1>9. CASE StartPoll \/ aeApiPoll \/ CallReader \/ CallWriter \/ SkipWriter \/ HandlerReturns
  BY SMTT(30), <1>1, <1>9 DEF StartPoll, aeApiPoll, CallReader, CallWriter, SkipWriter, HandlerReturns, FileStep
<1>10. CASE BeginTimers \/ RunTimer \/ TimerReturns \/ EndTimers \/ Tick \/ SetBack
  BY SMTT(30), <1>1, <1>10 DEF BeginTimers, RunTimer, TimerReturns, EndTimers, Tick, SetBack
<1>11. CASE UNCHANGED vars
  BY SMTT(30), <1>1, <1>11 DEF vars
<1> QED BY <1>2, <1>3, <1>4, <1>5, <1>6, <1>7, <1>8, <1>9, <1>10, <1>11 DEF Next
----------------------------------------------------------------------------
(* The timers.  A time is a number of milliseconds.                        *)

Instant == Nat \X (0..MS-1)
Timer == [id : Int, when : Instant]

LEMMA Division ==
  ASSUME LoopAssumption, NEW t \in Nat
  PROVE  /\ t \div MS \in Nat /\ t % MS \in 0..MS-1
         /\ t = (t \div MS) * MS + (t % MS)
<1>1. MS \in Nat /\ MS > 0
  BY DEF LoopAssumption
<1> QED BY SMTT(30), <1>1

LEMMA InstantMs ==
  ASSUME LoopAssumption, NEW w \in Instant
  PROVE  InMs(w) \in Nat /\ w[1] \in Nat /\ w[2] \in 0..MS-1
<1>1. MS \in Nat /\ w[1] \in Nat /\ w[2] \in 0..MS-1
  BY DEF LoopAssumption, Instant
<1>2. w[1] * MS \in Nat
  BY SMTT(30), <1>1
<1> QED BY SMTT(30), <1>1, <1>2 DEF InMs

(* aeAddMillisecondsToNow is an addition.                                  *)
LEMMA AddMs ==
  ASSUME LoopAssumption, now \in Nat, NEW ms \in Nat
  PROVE  /\ aeAddMillisecondsToNow(ms) \in Instant
         /\ InMs(aeAddMillisecondsToNow(ms)) = now + ms
<1> DEFINE q == now \div MS
           r == now % MS
           p == ms \div MS
           m == ms % MS
<1>1. MS \in Nat \ {0}
  BY DEF LoopAssumption
<1>2. q \in Nat /\ r \in 0..MS-1 /\ now = q * MS + r
  BY SMTT(30), Division
<1>3. p \in Nat /\ m \in 0..MS-1 /\ ms = p * MS + m
  BY SMTT(30), Division
<1>4. aeAddMillisecondsToNow(ms)
        = IF r + m >= MS THEN <<q + p + 1, r + m - MS>> ELSE <<q + p, r + m>>
  BY SMTT(30), <1>1 DEF aeAddMillisecondsToNow
<1> HIDE DEF q, r, p, m
<1>5. (q + p) * MS = q * MS + p * MS /\ (q + p + 1) * MS = q * MS + p * MS + MS
      /\ q * MS \in Nat /\ p * MS \in Nat
  BY SMTT(30), <1>1, <1>2, <1>3
<1>6. CASE r + m >= MS
  <2>1. aeAddMillisecondsToNow(ms) = <<q + p + 1, r + m - MS>>
    BY SMTT(30), <1>4, <1>6
  <2>2. q + p + 1 \in Nat /\ r + m - MS \in 0..MS-1
    BY SMTT(30), <1>1, <1>2, <1>3, <1>6
  <2>3. InMs(aeAddMillisecondsToNow(ms)) = (q + p + 1) * MS + (r + m - MS)
    BY SMTT(30), <2>1 DEF InMs
  <2>4. InMs(aeAddMillisecondsToNow(ms)) = now + ms
    BY SMTT(30), <1>1, <1>2, <1>3, <1>5, <2>3
  <2> QED BY SMTT(30), <2>1, <2>2, <2>4 DEF Instant
<1>7. CASE ~(r + m >= MS)
  <2>1. aeAddMillisecondsToNow(ms) = <<q + p, r + m>>
    BY SMTT(30), <1>4, <1>7
  <2>2. q + p \in Nat /\ r + m \in 0..MS-1
    BY SMTT(30), <1>1, <1>2, <1>3, <1>7
  <2>3. InMs(aeAddMillisecondsToNow(ms)) = (q + p) * MS + (r + m)
    BY SMTT(30), <2>1 DEF InMs
  <2>4. InMs(aeAddMillisecondsToNow(ms)) = now + ms
    BY SMTT(30), <1>1, <1>2, <1>3, <1>5, <2>3
  <2> QED BY SMTT(30), <2>1, <2>2, <2>4 DEF Instant
<1> QED BY SMTT(30), <1>6, <1>7

(* The timers that remain when one is taken out were there.                *)
LEMMA RemovedFrom ==
  ASSUME NEW S, NEW l \in Seq(S), NEW n \in DOMAIN l
  PROVE  /\ RemoveAt(l, n) \in Seq(S)
         /\ \A i \in DOMAIN RemoveAt(l, n) : \E j \in DOMAIN l : RemoveAt(l, n)[i] = l[j]
<1> DEFINE a == SubSeq(l, 1, n - 1)
           b == SubSeq(l, n + 1, Len(l))
<1>1. n \in 1..Len(l) /\ Len(l) \in Nat
  OBVIOUS
<1>2. a \in Seq(S) /\ Len(a) = n - 1 /\ \A i \in 1..(n - 1) : a[i] = l[i]
  BY <1>1
<1>3. b \in Seq(S) /\ Len(b) = Len(l) - n /\ \A i \in 1..(Len(l) - n) : b[i] = l[n + i]
  BY <1>1
<1>4. RemoveAt(l, n) = a \o b
  BY DEF RemoveAt
<1> HIDE DEF a, b
<1>5. a \o b \in Seq(S) /\ Len(a \o b) = Len(l) - 1
  BY SMTT(30), <1>1, <1>2, <1>3
<1>6. ASSUME NEW i \in 1..(Len(l) - 1)
      PROVE  \E j \in 1..Len(l) : (a \o b)[i] = l[j]
  <2>1. CASE i < n
    <3>1. (a \o b)[i] = l[i]
      BY SMTT(30), <1>1, <1>2, <1>3, <2>1
    <3> QED BY <1>1, <3>1
  <2>2. CASE i >= n
    <3>0. a \in Seq(S) /\ b \in Seq(S) /\ i \in 1..(Len(a) + Len(b)) /\ ~(i <= Len(a))
      BY SMTT(30), <1>1, <1>2, <1>3, <2>2
    <3>1. (a \o b)[i] = b[i - (n - 1)]
      BY <1>2, <3>0, SMTT(30)
    <3>2. i - (n - 1) \in 1..(Len(l) - n) /\ n + (i - (n - 1)) = i + 1
      BY <1>1, <2>2
    <3>3. (a \o b)[i] = l[i + 1]
      BY SMTT(30), <1>3, <3>1, <3>2
    <3> QED BY SMTT(30), <1>1, <3>3
  <2>3. i < n \/ i >= n
    BY SMTT(30), <1>1
  <2> QED BY ZenonT(30), <2>1, <2>2, <2>3
<1>7. DOMAIN (a \o b) = 1..(Len(l) - 1) /\ DOMAIN l = 1..Len(l)
  BY SMTT(30), <1>1, <1>5
<1> QED BY ZenonT(30), <1>4, <1>5, <1>6, <1>7

LEMMA TimersLeft ==
  ASSUME timers \in Seq(Timer), NEW id
  PROVE  /\ WithoutTimer(id) \in Seq(Timer)
         /\ \A i \in DOMAIN WithoutTimer(id) : \E j \in DOMAIN timers : WithoutTimer(id)[i] = timers[j]
<1> DEFINE found == {i \in DOMAIN timers : timers[i].id = id}
<1>1. CASE found = {}
  BY SMTT(30), <1>1 DEF WithoutTimer
<1>2. CASE found # {}
  <2>1. found \in SUBSET Nat
    OBVIOUS
  <2>2. Min(found) \in DOMAIN timers
    <3>1. found \subseteq DOMAIN timers
      OBVIOUS
    <3> HIDE DEF found
    <3>2. Min(found) \in found
      BY SMTT(30), <1>2, <2>1, NatLeast
    <3> QED BY SMTT(30), <3>1, <3>2
  <2>3. WithoutTimer(id) = RemoveAt(timers, Min(found))
    BY SMTT(30), <1>2 DEF WithoutTimer
  <2> HIDE DEF found
  <2> QED BY SMTT(30), <2>2, <2>3, RemovedFrom
<1> QED BY SMTT(30), <1>1, <1>2

(* While the handlers of descriptors run the clock may be behind the last  *)
(* turn's; from processTimeEvents until the next sleep it is not, and it   *)
(* is ahead by the turn's own time at most.  A timer is due before the     *)
(* next second, its period and a turn's time, counted from the last turn,  *)
(* or it was set in this turn.                                             *)
Longest == Max(Periods)
InFiles == pc \in {"file", "rhandler", "whandler"}
InTimers == pc \in {"time", "thandler", "poll"}
NextSecond == (lastTime + 1) * MS
OnTime(t) == \/ InMs(t.when) < NextSecond + Longest + MaxBusy
             \/ InFiles /\ InMs(t.when) <= now + Longest

TimeInv ==
    /\ now \in Nat /\ MS <= now /\ lastTime \in Nat /\ busy \in 0..MaxBusy
    /\ nextId \in Int /\ timers \in Seq(Timer)
    /\ InTimers => lastTime * MS <= now /\ now - busy < NextSecond
    /\ \A i \in DOMAIN timers : OnTime(timers[i])

LEMMA PeriodsBounded ==
  ASSUME LoopAssumption
  PROVE  Longest \in Nat \ {0} /\ Periods \subseteq Nat \ {0} /\ \A ms \in Periods : ms <= Longest
<1>1. PICK n \in Nat : Periods \subseteq 1..n /\ Periods # {}
  BY DEF LoopAssumption
<1>2. Periods \in SUBSET Int /\ \A x \in Periods : x <= n
  BY SMTT(30), <1>1
<1>3. Max(Periods) \in Periods /\ \A y \in Periods : Max(Periods) >= y
  BY SMTT(30), <1>1, <1>2, IntGreatest
<1>4. \A x \in Periods : x \in Nat \ {0}
  BY SMTT(30), <1>1
<1> QED BY SMTT(30), <1>3, <1>4 DEF Longest

(* A step within a turn that leaves lastTime alone, and whose timers were  *)
(* there or are set from the present time.                                 *)
LEMMA TimersStep ==
  ASSUME LoopAssumption, TimeInv,
         lastTime' = lastTime, now' \in Nat, MS <= now', busy' \in 0..MaxBusy,
         nextId' \in Int, timers' \in Seq(Timer),
         \A i \in DOMAIN timers' :
            \/ \E j \in DOMAIN timers : timers'[i] = timers[j]
            \/ InMs(timers'[i].when) <= now + Longest /\ (InFiles \/ InTimers) /\ now' = now,
         InFiles => InFiles' /\ now' >= now,
         InTimers' => InTimers /\ now' - busy' = now - busy /\ now' >= now
  PROVE  TimeInv'
<1>1. Longest \in Nat /\ MS \in Nat /\ MaxBusy \in Nat
  BY SMTT(30), PeriodsBounded DEF LoopAssumption
<1>2. Longest' = Longest /\ NextSecond' = NextSecond
  BY DEF Longest, NextSecond
<1>3. NextSecond \in Nat /\ lastTime * MS \in Nat
  <2>1. lastTime \in Nat
    BY SMTT(30) DEF TimeInv
  <2> QED BY SMTT(30), <1>1, <2>1 DEF NextSecond
<1>4. ASSUME NEW i \in DOMAIN timers'
      PROVE  OnTime(timers[i])'
  <2>1. InMs(timers'[i].when) \in Nat
    <3>1. timers'[i] \in Timer
      BY SMTT(30)
    <3>2. timers'[i].when \in Instant
      BY SMTT(30), <3>1 DEF Timer
    <3> QED BY SMTT(30), <3>2, InstantMs
  <2>2. CASE \E j \in DOMAIN timers : timers'[i] = timers[j]
    <3>1. PICK j \in DOMAIN timers : timers'[i] = timers[j]
      BY SMTT(30), <2>2
    <3>2. OnTime(timers[j])
      BY SMTT(30) DEF TimeInv
    <3>3. CASE InMs(timers[j].when) < NextSecond + Longest + MaxBusy
      BY SMTT(30), <1>2, <3>1, <3>3 DEF OnTime, InMs
    <3>4. CASE InFiles /\ InMs(timers[j].when) <= now + Longest
      <4>1. InFiles' /\ now' >= now
        BY SMTT(30), <3>4
      <4>2. InMs(timers'[i].when) <= now' + Longest
        BY SMTT(30), <1>1, <2>1, <3>1, <3>4, <4>1 DEF TimeInv
      <4> QED BY SMTT(30), <1>2, <4>1, <4>2 DEF OnTime, InMs
    <3> QED BY SMTT(30), <3>2, <3>3, <3>4 DEF OnTime
  <2>3. CASE InMs(timers'[i].when) <= now + Longest /\ (InFiles \/ InTimers) /\ now' = now
    <3>1. CASE InFiles
      BY SMTT(30), <1>2, <2>3, <3>1 DEF OnTime, InMs
    <3>2. CASE InTimers
      <4>1. now - busy < NextSecond /\ busy \in 0..MaxBusy /\ now \in Nat
        BY SMTT(30), <3>2 DEF TimeInv
      <4>2. InMs(timers'[i].when) < NextSecond + Longest + MaxBusy
        BY SMTT(30), <1>1, <1>3, <2>1, <2>3, <4>1
      <4> QED BY SMTT(30), <1>2, <4>2 DEF OnTime, InMs
    <3> QED BY SMTT(30), <2>3, <3>1, <3>2
  <2> QED BY SMTT(30), <2>2, <2>3
<1>5. InTimers' => lastTime' * MS <= now' /\ now' - busy' < NextSecond'
  <2> SUFFICES ASSUME InTimers'
               PROVE  lastTime' * MS <= now' /\ now' - busy' < NextSecond'
    OBVIOUS
  <2>1. lastTime * MS <= now /\ now - busy < NextSecond /\ now \in Nat
    BY SMTT(30) DEF TimeInv
  <2>2. now' - busy' = now - busy /\ now' >= now
    BY SMTT(30)
  <2>3. lastTime' * MS <= now'
    BY SMTT(30), <1>3, <2>1, <2>2
  <2> QED BY SMTT(30), <1>2, <2>1, <2>2, <2>3
<1> QED BY SMTT(30), <1>4, <1>5 DEF TimeInv

(* processTimeEvents starts: a timer that a clock set back would postpone  *)
(* is made due.                                                            *)
LEMMA BeginTime ==
  ASSUME LoopAssumption, TimeInv, BeginTimers
  PROVE  TimeInv'
<1> DEFINE q == now \div MS
<1>1. Longest \in Nat /\ MS \in Nat \ {0} /\ MaxBusy \in Nat
  BY PeriodsBounded DEF LoopAssumption
<1>2. /\ now \in Nat /\ MS <= now /\ lastTime \in Nat /\ busy \in 0..MaxBusy
      /\ nextId \in Int /\ timers \in Seq(Timer) /\ \A i \in DOMAIN timers : OnTime(timers[i])
  BY DEF TimeInv
<1>3. q \in Nat /\ q * MS <= now /\ now < (q + 1) * MS
  <2>1. q \in Nat /\ now % MS \in 0..MS-1 /\ now = q * MS + (now % MS)
    BY SMTT(30), <1>2, Division
  <2> HIDE DEF q
  <2>2. (q + 1) * MS = q * MS + MS /\ q * MS \in Nat
    BY SMTT(30), <1>1, <2>1
  <2> QED BY SMTT(30), <1>1, <2>1, <2>2
<1>4. /\ pc' = "time" /\ lastTime' = q /\ now' = now /\ busy' = busy /\ nextId' = nextId
      /\ timers' = IF q < lastTime
                   THEN [i \in DOMAIN timers |-> [timers[i] EXCEPT !.when[1] = 0]]
                   ELSE timers
  BY DEF BeginTimers, clock
<1>5. NextSecond' = (q + 1) * MS /\ Longest' = Longest
  BY SMTT(30), <1>4 DEF NextSecond, Longest
<1> HIDE DEF q
<1>6. (q + 1) * MS \in Nat /\ (lastTime + 1) * MS \in Nat
  BY SMTT(30), <1>1, <1>2, <1>3
<1>7. timers' \in Seq(Timer)
      /\ \A i \in DOMAIN timers' : InMs(timers'[i].when) < (q + 1) * MS + Longest + MaxBusy
  <2>1. CASE q < lastTime
    <3>1. timers' = [i \in DOMAIN timers |-> [timers[i] EXCEPT !.when[1] = 0]]
      BY SMTT(30), <1>4, <2>1
    <3>2. ASSUME NEW i \in DOMAIN timers
          PROVE  /\ timers'[i] \in Timer
                 /\ InMs(timers'[i].when) < (q + 1) * MS + Longest + MaxBusy
      <4>1. timers[i].id \in Int /\ timers[i].when \in Instant
        <5>1. timers[i] \in Timer
          BY SMTT(30), <1>2
        <5> QED BY SMTT(30), <5>1 DEF Timer
      <4>2. timers[i].when[2] \in 0..MS-1 /\ timers[i].when = <<timers[i].when[1], timers[i].when[2]>>
        BY SMTT(30), <4>1, <1>1 DEF Instant
      <4>3. timers'[i].id = timers[i].id /\ timers'[i].when = [timers[i].when EXCEPT ![1] = 0]
            /\ timers'[i] = [id |-> timers'[i].id, when |-> timers'[i].when]
        <5>1. timers[i] \in Timer
          BY <1>2
        <5>2. timers'[i] = [timers[i] EXCEPT !.when[1] = 0]
          BY SMTT(30), <3>1
        <5> QED BY SMTT(30), <5>1, <5>2 DEF Timer
      <4>4. timers'[i].when = <<0, timers[i].when[2]>>
        BY SMTT(30), <4>2, <4>3
      <4>5. timers'[i] \in Timer
        BY SMTT(30), <1>1, <4>1, <4>2, <4>3, <4>4 DEF Timer, Instant
      <4>6. InMs(timers'[i].when) = timers[i].when[2]
        BY SMTT(30), <1>1, <4>2, <4>4 DEF InMs
      <4>7. MS <= (q + 1) * MS
        BY SMTT(30), <1>1, <1>2, <1>3
      <4> QED BY SMTT(30), <1>1, <1>6, <4>2, <4>5, <4>6, <4>7
    <3>3. DOMAIN timers' = DOMAIN timers
      BY <3>1
    <3>4. timers' \in Seq(Timer)
      <4>1. DOMAIN timers = 1..Len(timers) /\ Len(timers) \in Nat
        BY SMTT(30), <1>2
      <4>2. timers' \in [1..Len(timers) -> Timer]
        <5>1. \A i \in 1..Len(timers) : timers'[i] \in Timer
          BY SMTT(30), <3>2, <4>1
        <5>2. timers' = [i \in 1..Len(timers) |-> timers'[i]]
          BY SMTT(30), <3>1, <4>1
        <5> QED BY SMTT(30), <5>1, <5>2
      <4> QED BY SMTT(30), <4>1, <4>2
    <3> QED BY SMTT(30), <3>2, <3>3, <3>4
  <2>2. CASE ~(q < lastTime)
    <3>1. timers' = timers
      BY SMTT(30), <1>4, <2>2
    <3>2. (lastTime + 1) * MS <= (q + 1) * MS
      <4>1. lastTime + 1 <= q + 1
        BY SMTT(30), <1>2, <1>3, <2>2
      <4> QED BY SMTT(30), <1>1, <1>2, <1>3, <4>1
    <3>3. ASSUME NEW i \in DOMAIN timers
          PROVE  InMs(timers[i].when) < (q + 1) * MS + Longest + MaxBusy
      <4>1. timers[i].when \in Instant
        <5>1. timers[i] \in Timer
          BY <1>2
        <5> QED BY SMTT(30), <5>1 DEF Timer
      <4>2. InMs(timers[i].when) \in Nat
        BY SMTT(30), <4>1, InstantMs
      <4>3. CASE InMs(timers[i].when) < (lastTime + 1) * MS + Longest + MaxBusy
        BY SMTT(30), <1>1, <1>6, <3>2, <4>2, <4>3
      <4>4. CASE InMs(timers[i].when) <= now + Longest
        BY SMTT(30), <1>1, <1>2, <1>3, <1>6, <4>2, <4>4
      <4> QED BY SMTT(30), <1>2, <4>3, <4>4 DEF OnTime, NextSecond
    <3> QED BY SMTT(30), <1>2, <3>1, <3>3
  <2> QED BY SMTT(30), <2>1, <2>2
<1>8. \A i \in DOMAIN timers' : OnTime(timers[i])'
  BY SMTT(30), <1>5, <1>7 DEF OnTime, InMs
<1>9. lastTime' * MS <= now' /\ now' - busy' < NextSecond'
  BY SMTT(30), <1>1, <1>2, <1>3, <1>4, <1>5, <1>6
<1> QED BY ZenonT(30), <1>2, <1>3, <1>4, <1>7, <1>8, <1>9 DEF TimeInv

(* A timer set from the present time.                                      *)
LEMMA SetTimer ==
  ASSUME LoopAssumption, TimeInv, NEW ms \in Periods
  PROVE  /\ aeAddMillisecondsToNow(ms) \in Instant
         /\ InMs(aeAddMillisecondsToNow(ms)) <= now + Longest
<1>1. now \in Nat /\ ms \in Nat /\ ms <= Longest /\ Longest \in Nat
  BY PeriodsBounded DEF TimeInv
<1>2. /\ aeAddMillisecondsToNow(ms) \in Instant
      /\ InMs(aeAddMillisecondsToNow(ms)) = now + ms
  BY SMTT(30), <1>1, AddMs
<1> QED BY SMTT(30), <1>1, <1>2

(* A step that changes nothing the invariant speaks of but pc.             *)
LEMMA TimersSame ==
  ASSUME LoopAssumption, TimeInv, UNCHANGED <<timers, nextId, lastTime, now, busy>>,
         InFiles => InFiles', InTimers' => InTimers
  PROVE  TimeInv'
<1>1. /\ now \in Nat /\ MS <= now /\ lastTime \in Nat /\ busy \in 0..MaxBusy
      /\ nextId \in Int /\ timers \in Seq(Timer)
  BY DEF TimeInv
<1> QED BY SMTT(30), <1>1, TimersStep

LEMMA TimeStep ==
  ASSUME LoopAssumption, TimeInv, [Next]_vars
  PROVE  TimeInv'
<1>0. /\ now \in Nat /\ MS <= now /\ lastTime \in Nat /\ busy \in 0..MaxBusy
      /\ nextId \in Int /\ timers \in Seq(Timer) /\ MaxBusy \in Nat /\ MS \in Nat \ {0}
  BY DEF TimeInv, LoopAssumption
<1>1. CASE StartPoll \/ CallReader \/ CallWriter \/ SkipWriter \/ HandlerReturns
           \/ RunTimer \/ EndTimers
  <2>1. UNCHANGED <<timers, nextId, lastTime, now, busy>>
    BY SMTT(30), <1>1 DEF StartPoll, CallReader, CallWriter, SkipWriter, HandlerReturns, FileStep,
                RunTimer, EndTimers, timeVars, clock
  <2>2. (InFiles => InFiles') /\ (InTimers' => InTimers)
    BY SMTT(30), <1>1 DEF StartPoll, CallReader, CallWriter, SkipWriter, HandlerReturns, FileStep,
                RunTimer, EndTimers, InFiles, InTimers
  <2> QED BY SMTT(30), <2>1, <2>2, TimersSame
<1>2. CASE aeApiPoll
  <2>1. UNCHANGED <<timers, nextId, lastTime, now>> /\ busy' = 0 /\ pc' = "file" /\ pc = "wait"
    BY <1>2 DEF aeApiPoll, timeVars
  <2> QED BY SMTT(30), <1>0, <2>1, TimersStep DEF InFiles, InTimers
<1>3. CASE BeginTimers
  BY SMTT(30), <1>3, BeginTime
<1>4. CASE TimerReturns
  <2>1. /\ UNCHANGED <<nextId, lastTime, now, busy>> /\ pc = "thandler" /\ pc' = "time"
    BY SMTT(30), <1>4 DEF TimerReturns, clock
  <2>2. CASE timers' = WithoutTimer(te)
    BY SMTT(30), <1>0, <2>1, <2>2, TimersLeft, TimersStep DEF InFiles, InTimers
  <2>3. ASSUME NEW ms \in Periods,
               timers' = [i \in DOMAIN timers |->
                  IF timers[i].id = te THEN [timers[i] EXCEPT !.when = aeAddMillisecondsToNow(ms)]
                  ELSE timers[i]]
        PROVE  TimeInv'
    <3> DEFINE w == aeAddMillisecondsToNow(ms)
    <3>1. w \in Instant /\ InMs(w) <= now + Longest
      BY SetTimer
    <3> HIDE DEF w
    <3>2. ASSUME NEW i \in DOMAIN timers
          PROVE  /\ timers'[i] \in Timer
                 /\ timers'[i] = timers[i] \/ timers'[i].when = w
      <4>1. timers[i] \in Timer
        BY <1>0
      <4>2. timers'[i] = IF timers[i].id = te THEN [timers[i] EXCEPT !.when = w] ELSE timers[i]
        BY <2>3 DEF w
      <4> QED BY SMTT(30), <3>1, <4>1, <4>2 DEF Timer
    <3>3. DOMAIN timers' = DOMAIN timers /\ timers' \in Seq(Timer)
      <4>1. DOMAIN timers = 1..Len(timers) /\ Len(timers) \in Nat
        BY SMTT(30), <1>0
      <4> QED BY SMTT(30), <2>3, <3>2, <4>1
    <3>4. \A i \in DOMAIN timers' :
            \/ \E j \in DOMAIN timers : timers'[i] = timers[j]
            \/ InMs(timers'[i].when) <= now + Longest
      BY SMTT(30), <3>1, <3>2, <3>3
    <3> QED BY SMTT(30), <1>0, <2>1, <3>3, <3>4, TimersStep DEF InFiles, InTimers
  <2> QED BY SMTT(30), <1>4, <2>2, <2>3 DEF TimerReturns
<1>5. ASSUME NEW fd \in FD, WantWrite(fd) \/ DoneWriting(fd) \/ CloseFd(fd)
      PROVE  TimeInv'
  BY SMTT(30), <1>5, TimersSame DEF WantWrite, DoneWriting, CloseFd, KeepTurn, timeVars, clock, InFiles, InTimers
<1>6. CASE Accept \/ \E size \in SetSizes : aeResizeSetSize(size)
  BY ZenonT(30), <1>6, TimersSame DEF Accept, aeResizeSetSize, KeepTurn, timeVars, clock, InFiles, InTimers
<1>7. ASSUME NEW ms \in Periods, aeCreateTimeEvent(ms)
      PROVE  TimeInv'
  <2> DEFINE t == [id |-> nextId, when |-> aeAddMillisecondsToNow(ms)]
  <2>1. t \in Timer /\ InMs(t.when) <= now + Longest
    BY <1>0, SetTimer DEF Timer
  <2>2. /\ UNCHANGED <<lastTime, now, busy, pc>> /\ InHandler
        /\ timers' = <<t>> \o timers /\ nextId' = nextId + 1
    BY SMTT(30), <1>7 DEF aeCreateTimeEvent, Op, KeepTurn, clock
  <2> HIDE DEF t
  <2>3. /\ timers' \in Seq(Timer)
        /\ \A i \in DOMAIN timers' : timers'[i] = t \/ \E j \in DOMAIN timers : timers'[i] = timers[j]
    <3>1. <<t>> \in Seq(Timer) /\ Len(<<t>>) = 1 /\ <<t>>[1] = t
      BY SMTT(30), <2>1
    <3>2. DOMAIN timers = 1..Len(timers) /\ Len(timers) \in Nat
      BY <1>0
    <3>3. timers' \in Seq(Timer) /\ Len(timers') = Len(timers) + 1
      BY SMTT(30), <1>0, <2>2, <3>1
    <3>4. ASSUME NEW i \in 1..(Len(timers) + 1)
          PROVE  timers'[i] = t \/ \E j \in 1..Len(timers) : timers'[i] = timers[j]
      <4>1. CASE i = 1
        BY SMTT(30), <1>0, <2>2, <3>1, <4>1
      <4>2. CASE i # 1
        <5>1. i - 1 \in 1..Len(timers)
          BY SMTT(30), <3>2, <4>2
        <5>2. timers'[i] = timers[i - 1]
          BY SMTT(30), <1>0, <2>2, <3>1, <3>2, <4>2
        <5> QED BY SMTT(30), <5>1, <5>2
      <4> QED BY SMTT(30), <4>1, <4>2
    <3>5. DOMAIN timers' = 1..(Len(timers) + 1)
      BY SMTT(30), <3>2, <3>3
    <3> QED BY SMTT(30), <3>2, <3>3, <3>4, <3>5
  <2>4. InFiles \/ InTimers
    BY SMTT(30), <2>2 DEF InHandler, InFiles, InTimers
  <2>5. nextId' \in Int /\ (InFiles <=> InFiles') /\ (InTimers <=> InTimers')
    BY SMTT(30), <1>0, <2>2 DEF InFiles, InTimers
  <2> QED BY <1>0, <2>1, <2>2, <2>3, <2>4, <2>5, TimersStep
<1>8. ASSUME NEW i \in DOMAIN timers, aeDeleteTimeEvent(timers[i].id)
      PROVE  TimeInv'
  <2>1. /\ UNCHANGED <<nextId, lastTime, now, busy, pc>>
        /\ timers' = WithoutTimer(timers[i].id)
    BY SMTT(30), <1>8 DEF aeDeleteTimeEvent, KeepTurn, clock
  <2> QED BY SMTT(30), <1>0, <2>1, TimersLeft, TimersStep DEF InFiles, InTimers
<1>9. CASE Tick
  <2>1. /\ UNCHANGED <<timers, nextId, lastTime, pc>> /\ now' = now + 1
    BY <1>9 DEF Tick, timeVars
  <2>2. busy' \in 0..MaxBusy /\ (pc # "wait" => busy' = busy + 1)
    BY <1>0, <1>9 DEF Tick
  <2>3. MS <= now' /\ now' \in Nat /\ now' >= now /\ (pc # "wait" => now' - busy' = now - busy)
    <3>1. MS <= now' /\ now' \in Nat /\ now' >= now
      BY SMTT(30), <1>0, <2>1
    <3>2. ASSUME pc # "wait"
          PROVE  now' - busy' = now - busy
      <4>1. now' = now + 1 /\ busy' = busy + 1 /\ now \in Int /\ busy \in Int
        BY SMTT(30), <1>0, <2>1, <2>2, <3>2
      <4> QED BY SMTT(30), <4>1
    <3> QED BY SMTT(30), <3>1, <3>2
  <2> QED BY ZenonT(30), <1>0, <2>1, <2>2, <2>3, TimersStep DEF InFiles, InTimers
<1>10. CASE SetBack
  <2>1. /\ UNCHANGED <<timers, nextId, lastTime, pc, busy>> /\ pc = "wait" /\ now' \in MS..now-1
    BY <1>10 DEF SetBack, timeVars
  <2>2. MS <= now' /\ now' \in Nat
    BY SMTT(30), <1>0, <2>1
  <2> QED BY SMTT(30), <1>0, <2>1, <2>2, TimersStep DEF InFiles, InTimers
<1>11. CASE UNCHANGED vars
  BY SMTT(30), <1>11, TimersSame DEF vars, timeVars, clock, InFiles, InTimers
<1> QED BY SMTT(30), <1>1, <1>2, <1>3, <1>4, <1>5, <1>6, <1>7, <1>8, <1>9, <1>10, <1>11 DEF Next
----------------------------------------------------------------------------
LoopInv == Files /\ TimeInv

LEMMA InitLoop ==
  ASSUME LoopAssumption, Init
  PROVE  LoopInv
<1>1. Files
  <2>1. FD \subseteq Nat /\ 0 \in FD
    BY SMTT(30), FdNat
  <2>2. setsize \in SetSizes /\ setsize \in Nat \ {0}
    <3>1. SetSizes \in SUBSET Nat /\ SetSizes # {} /\ SetSizes \subseteq Nat \ {0}
      BY DEF LoopAssumption
    <3>2. Min(SetSizes) \in SetSizes
      BY <3>1, NatLeast
    <3> QED BY ZenonT(30), <3>1, <3>2 DEF Init
  <2>3. events \in [FD -> SUBSET {R, W}] /\ Registered(events) = {0}
    BY <2>1 DEF Init, Registered
  <2>4. Max({-1, 0}) = 0
    <3>1. {-1, 0} \in SUBSET Int /\ 0 \in {-1, 0} /\ \A y \in {-1, 0} : 0 >= y
      OBVIOUS
    <3> QED BY <3>1, IsMax
  <2>5. {-1} \cup {0} = {-1, 0}
    OBVIOUS
  <2>6. TablesAgree
    <3>1. interest = events /\ open = {0} /\ maxfd = 0
      BY DEF Init
    <3>2. 0 < setsize
      BY <2>2
    <3>3. maxfd = Max({-1} \cup Registered(events))
      BY SMTT(30), <2>3, <2>4, <2>5, <3>1
    <3> QED BY SMTT(30), <2>3, <3>1, <3>2, <3>3 DEF TablesAgree
  <2> QED BY SMTT(30), <2>1, <2>2, <2>3, <2>6 DEF Files, Init
<1>2. TimeInv
  <2>1. MS \in Nat \ {0} /\ MaxBusy \in Nat /\ Longest \in Nat \ {0}
    BY SMTT(30), PeriodsBounded DEF LoopAssumption
  <2>2. now = MS /\ lastTime = 1 /\ busy = 0 /\ nextId = 1
    BY DEF Init
  <2> DEFINE w == aeAddMillisecondsToNow(1)
  <2>3. w \in Instant /\ InMs(w) = MS + 1
    BY SMTT(30), <2>1, <2>2, AddMs
  <2>4. timers = <<[id |-> 0, when |-> w]>>
    BY DEF Init
  <2> HIDE DEF w
  <2>5. timers \in Seq(Timer) /\ \A i \in DOMAIN timers : timers[i].when = w
    BY SMTT(30), <2>3, <2>4 DEF Timer
  <2>6. NextSecond = MS + MS /\ lastTime * MS = MS
    BY SMTT(30), <2>1, <2>2 DEF NextSecond
  <2>7. InMs(w) < NextSecond + Longest + MaxBusy
    BY SMTT(30), <2>1, <2>3, <2>6
  <2> QED BY SMTT(30), <2>1, <2>2, <2>5, <2>6, <2>7 DEF TimeInv, OnTime
<1> QED BY SMTT(30), <1>1, <1>2 DEF LoopInv

(* What the invariant is for: see LoopSound.                               *)
LEMMA LoopIsSound == LoopAssumption /\ LoopInv => LoopSound
<1> SUFFICES ASSUME LoopAssumption, LoopInv
             PROVE  LoopSound
  OBVIOUS
<1>1. TablesAgree
  BY SMTT(30) DEF LoopInv, Files
<1>2. ASSUME pc = "poll", NEW i \in DOMAIN timers
      PROVE  InMs(timers[i].when) < now + Max(Periods) + MaxBusy + MS
  <2>1. MS \in Nat /\ MaxBusy \in Nat /\ Longest \in Nat
    BY SMTT(30), PeriodsBounded DEF LoopAssumption
  <2>2. /\ now \in Nat /\ lastTime \in Nat /\ lastTime * MS <= now
        /\ timers[i] \in Timer /\ OnTime(timers[i])
    BY SMTT(30), <1>2 DEF LoopInv, TimeInv, InTimers
  <2>3. InMs(timers[i].when) < NextSecond + Longest + MaxBusy
    BY SMTT(30), <1>2, <2>2 DEF OnTime, InFiles
  <2>4. NextSecond = lastTime * MS + MS /\ lastTime * MS \in Nat
    BY SMTT(30), <2>1, <2>2 DEF NextSecond
  <2>5. InMs(timers[i].when) \in Nat
    BY SMTT(30), <2>2, InstantMs DEF Timer
  <2>6. InMs(timers[i].when) < now + Longest + MaxBusy + MS
    BY SMTT(30), <2>1, <2>2, <2>3, <2>4, <2>5
  <2> QED BY SMTT(30), <2>6 DEF Longest
<1> QED BY SMTT(30), <1>1, <1>2 DEF LoopSound, TimersOnTime

(* At any time the masks of the event table, what epoll watches and the    *)
(* highest descriptor agree, nothing is watched on a closed descriptor,    *)
(* and after the timers have run none is postponed by a clock that was set *)
(* back: for any descriptors, table sizes, periods, and any interleaving   *)
(* of handlers with the walk over what fired.                              *)
THEOREM LoopStaysSound == LoopAssumption => (Spec => []LoopSound)
<1> SUFFICES ASSUME LoopAssumption
             PROVE  Spec => []LoopSound
  OBVIOUS
<1>1. Init => LoopInv
  BY SMTT(30), InitLoop
<1>2. LoopInv /\ [Next]_vars => LoopInv'
  BY SMTT(30), FilesStep, TimeStep DEF LoopInv
<1>3. LoopInv => LoopSound
  BY SMTT(30), LoopIsSound
<1> QED BY <1>1, <1>2, <1>3, PTL DEF Spec
----------------------------------------------------------------------------
(* aeSearchNearestTimer finds a timer when there is one.                   *)
LEMMA NearestTimer ==
  ASSUME LoopAssumption, TimeInv, timers # <<>>
  PROVE  aeSearchNearestTimer.when \in Instant
<1> DEFINE Ms == {InMs(timers[i].when) : i \in DOMAIN timers}
           Earliest == {i \in DOMAIN timers :
                          \A j \in DOMAIN timers : ~Earlier(timers[j].when, timers[i].when)}
<1>1. timers \in Seq(Timer) /\ DOMAIN timers = 1..Len(timers) /\ Len(timers) \in Nat /\ 1 \in DOMAIN timers
  BY SMTT(30) DEF TimeInv
<1>2. \A i \in DOMAIN timers : timers[i].when \in Instant /\ InMs(timers[i].when) \in Nat
  <2>1. \A i \in DOMAIN timers : timers[i] \in Timer
    BY SMTT(30), <1>1
  <2>2. \A i \in DOMAIN timers : timers[i].when \in Instant
    BY SMTT(30), <2>1 DEF Timer
  <2> QED BY SMTT(30), <2>2, InstantMs
<1>3. Ms \in SUBSET Nat /\ Ms # {}
  BY SMTT(30), <1>1, <1>2
<1>4. Min(Ms) \in Ms /\ \A y \in Ms : Min(Ms) <= y
  <2> HIDE DEF Ms
  <2> QED BY SMTT(30), <1>3, NatLeast
<1>5. PICK i \in DOMAIN timers : Min(Ms) = InMs(timers[i].when)
  BY SMTT(30), <1>4
<1>6. \A j \in DOMAIN timers : InMs(timers[i].when) <= InMs(timers[j].when)
  BY SMTT(30), <1>4, <1>5
<1>7. ASSUME NEW v \in Instant, NEW w \in Instant, Earlier(v, w)
      PROVE  InMs(v) < InMs(w)
  <2>1. MS \in Nat \ {0} /\ v[1] \in Nat /\ w[1] \in Nat /\ v[2] \in 0..MS-1 /\ w[2] \in 0..MS-1
    BY SMTT(30), InstantMs DEF LoopAssumption
  <2>2. CASE v[1] < w[1]
    <3>1. v[1] + 1 <= w[1]
      BY SMTT(30), <2>1, <2>2
    <3> DEFINE a == v[1]
               b == w[1]
    <3>2. a \in Nat /\ b \in Nat /\ a + 1 <= b
      BY SMTT(30), <2>1, <3>1
    <3>3. InMs(v) = a * MS + v[2] /\ InMs(w) = b * MS + w[2]
      BY DEF InMs
    <3> HIDE DEF a, b
    <3>4. (a + 1) * MS <= b * MS
      BY SMTT(30), <2>1, <3>2
    <3>5. (a + 1) * MS = a * MS + MS /\ a * MS \in Nat /\ b * MS \in Nat
      BY SMTT(30), <2>1, <3>2
    <3> QED BY SMTT(30), <2>1, <3>3, <3>4, <3>5
  <2>3. CASE v[1] = w[1] /\ v[2] < w[2]
    <3>1. v[1] * MS \in Nat /\ w[1] * MS = v[1] * MS
      BY SMTT(30), <2>1, <2>3
    <3> QED BY SMTT(30), <2>1, <2>3, <3>1 DEF InMs
  <2> QED BY SMTT(30), <1>7, <2>2, <2>3 DEF Earlier
<1>8. i \in Earliest
  <2> SUFFICES ASSUME NEW j \in DOMAIN timers, Earlier(timers[j].when, timers[i].when)
               PROVE  FALSE
    BY SMTT(30)
  <2>1. InMs(timers[j].when) < InMs(timers[i].when)
    BY SMTT(30), <1>2, <1>7
  <2> QED BY SMTT(30), <1>2, <1>6, <2>1
<1>9. Min(Earliest) \in DOMAIN timers
  <2>1. Earliest \in SUBSET Nat /\ Earliest \subseteq DOMAIN timers
    BY SMTT(30), <1>1
  <2> HIDE DEF Earliest
  <2> QED BY SMTT(30), <1>8, <2>1, NatLeast
<1>10. aeSearchNearestTimer = timers[Min(Earliest)]
  BY DEF aeSearchNearestTimer
<1> HIDE DEF Earliest
<1> QED BY SMTT(30), <1>2, <1>9, <1>10

(* The timeout computed from a timer's fields, with its borrow.            *)
LEMMA SleepIsDifference ==
  ASSUME LoopAssumption, now \in Nat, NEW w \in Instant
  PROVE  IF InMs(w) >= now THEN SleepFor(w) = InMs(w) - now ELSE SleepFor(w) < MS
<1> DEFINE q == now \div MS
           r == now % MS
           b == IF w[2] < r THEN 1 ELSE 0
           sec == w[1] - q - b
           ms == (IF w[2] < r THEN w[2] + MS ELSE w[2]) - r
<1>1. MS \in Nat \ {0} /\ w[1] \in Nat /\ w[2] \in 0..MS-1
  BY SMTT(30), InstantMs DEF LoopAssumption
<1>2. q \in Nat /\ r \in 0..MS-1 /\ now = q * MS + r
  BY Division
<1>3. SleepFor(w) = Max({sec, 0}) * MS + Max({ms, 0})
  BY ZenonT(30), Zenon DEF SleepFor
<1> HIDE DEF q, r
<1>4. b \in 0..1 /\ sec \in Int /\ ms \in 0..MS-1 /\ ms = w[2] - r + b * MS
  BY SMTT(30), <1>1, <1>2
<1> HIDE DEF b, ms
<1>5. sec * MS = w[1] * MS - q * MS - b * MS /\ w[1] * MS \in Nat /\ q * MS \in Nat /\ b * MS \in Nat
  BY SMTT(30), <1>1, <1>2, <1>4
<1> HIDE DEF sec
<1>6. InMs(w) - now = sec * MS + ms
  BY SMTT(30), <1>1, <1>2, <1>4, <1>5 DEF InMs
<1>7. Max({ms, 0}) = ms
  <2>1. {ms, 0} \in SUBSET Int /\ \A y \in {ms, 0} : ms >= y
    BY SMTT(30), <1>1, <1>4
  <2> QED BY SMTT(30), <2>1, IsMax
<1>8. InMs(w) \in Nat
  BY SMTT(30), InstantMs
<1>9. CASE sec >= 0
  <2>1. Max({sec, 0}) = sec
    <3>1. {sec, 0} \in SUBSET Int /\ \A y \in {sec, 0} : sec >= y
      BY SMTT(30), <1>4, <1>9
    <3> QED BY <3>1, IsMax
  <2>2. sec * MS >= 0 /\ sec * MS \in Int
    BY SMTT(30), <1>1, <1>4, <1>9
  <2>3. InMs(w) >= now
    BY SMTT(30), <1>1, <1>4, <1>6, <1>8, <2>2
  <2> QED BY SMTT(30), <1>3, <1>6, <1>7, <2>1, <2>3
<1>10. CASE ~(sec >= 0)
  <2>1. Max({sec, 0}) = 0
    <3>1. {sec, 0} \in SUBSET Int /\ \A y \in {sec, 0} : 0 >= y
      BY SMTT(30), <1>4, <1>10
    <3> QED BY SMTT(30), <3>1, IsMax
  <2>2. SleepFor(w) = ms
    BY SMTT(30), <1>1, <1>3, <1>4, <1>7, <2>1
  <2>3. sec + 1 <= 0
    BY SMTT(30), <1>4, <1>10
  <2>4. (sec + 1) * MS <= 0 /\ (sec + 1) * MS = sec * MS + MS /\ sec * MS \in Int
    BY SMTT(30), <1>1, <1>4, <2>3
  <2>5. InMs(w) < now
    BY SMTT(30), <1>1, <1>4, <1>6, <1>8, <2>4
  <2> QED BY SMTT(30), <1>1, <1>4, <1>8, <2>2, <2>5
<1> QED BY SMTT(30), <1>9, <1>10

(* The loop calls only handlers that are registered by then, and sleeps    *)
(* until the nearest timer: for every list of timers and every clock.      *)
THEOREM CallsRegistered == LoopAssumption => (Spec => CallsAndSleeps)
<1> SUFFICES ASSUME LoopAssumption
             PROVE  Spec => CallsAndSleeps
  BY SMTT(30)
<1>1. Init => LoopInv
  BY InitLoop
<1>2. LoopInv /\ [Next]_vars => LoopInv'
  BY FilesStep, TimeStep DEF LoopInv
<1>3. LoopInv /\ [Next]_vars => [RegisteredCall /\ TimedSleep]_vars
  <2> SUFFICES ASSUME LoopInv, Next
               PROVE  RegisteredCall /\ TimedSleep
    OBVIOUS
  <2>1. CASE CallReader
    BY SMTT(30), <2>1 DEF CallReader, FileStep, RegisteredCall, TimedSleep
  <2>2. CASE CallWriter
    BY SMTT(30), <2>2 DEF CallWriter, FileStep, RegisteredCall, TimedSleep
  <2>3. CASE StartPoll
    <3>1. pc = "poll" /\ (timers # <<>> => left' = SleepFor(aeSearchNearestTimer.when))
      BY SMTT(30), <2>3 DEF StartPoll
    <3>2. timers # <<>> =>
            IF InMs(aeSearchNearestTimer.when) >= now
            THEN left' = InMs(aeSearchNearestTimer.when) - now ELSE left' < MS
      BY SMTT(30), <3>1, NearestTimer, SleepIsDifference DEF LoopInv, TimeInv
    <3> QED BY SMTT(30), <3>1, <3>2 DEF RegisteredCall, TimedSleep
  <2>4. CASE aeApiPoll \/ SkipWriter \/ HandlerReturns \/ BeginTimers \/ RunTimer
             \/ TimerReturns \/ EndTimers \/ Tick \/ SetBack
    BY SMTT(30), <2>4 DEF aeApiPoll, SkipWriter, HandlerReturns, BeginTimers, RunTimer, TimerReturns,
                EndTimers, Tick, SetBack, FileStep, RegisteredCall, TimedSleep
  <2>5. CASE \/ Accept
             \/ \E fd \in FD : WantWrite(fd) \/ DoneWriting(fd) \/ CloseFd(fd)
             \/ \E size \in SetSizes : aeResizeSetSize(size)
             \/ \E ms \in Periods : aeCreateTimeEvent(ms)
             \/ \E i \in DOMAIN timers : aeDeleteTimeEvent(timers[i].id)
    <3>1. pc' = pc
      BY ZenonT(30), <2>5 DEF Accept, WantWrite, DoneWriting, CloseFd, aeResizeSetSize, aeCreateTimeEvent,
                  aeDeleteTimeEvent, KeepTurn
    <3> QED BY SMTT(30), <3>1 DEF RegisteredCall, TimedSleep
  <2> QED BY SMTT(30), <2>1, <2>2, <2>3, <2>4, <2>5 DEF Next
<1> QED BY <1>1, <1>2, <1>3, PTL DEF Spec, CallsAndSleeps
=============================================================================
