--------------------------- MODULE PrezTableProofs ---------------------------
(***************************************************************************)
(* What the calls of dict.c make of the two tables, for every set of keys, *)
(* every hash function, every initial size and however far a rehash is.    *)
(* First the pieces, on one table: pushing an entry, emptying a bucket,    *)
(* writing over a value, unlinking.  Then the calls, on both.  DictSound   *)
(* is what makes them compose: a lookup goes to one bucket per table, so   *)
(* an entry must be in that bucket; the switch at the end of a rehash      *)
(* drops ht[0] because `used' is 0, so `used' must count the entries.      *)
(***************************************************************************)
EXTENDS PrezTables, FiniteSetTheorems, SequenceTheorems, WellFoundedInduction, TLAPS

(* A non-empty set of natural numbers has a least element.                 *)
LEMMA NatLeast ==
  ASSUME NEW T \in SUBSET Nat, T # {}
  PROVE  Min(T) \in T /\ \A y \in T : Min(T) <= y
<1>1. \E x \in T : \A y \in T : ~ (<<y, x>> \in OpToRel(<, Nat))
  BY ZenonT(60), NatLessThanWellFounded, WFMin
<1>2. \A x, y \in Nat : ~ (<<y, x>> \in OpToRel(<, Nat)) => x <= y
  BY DEF OpToRel
<1>3. \E x \in T : \A y \in T : x <= y
  BY ZenonT(60), <1>1, <1>2
<1> QED BY ZenonT(60), <1>3 DEF Min

(* The entries of a table, one by one.                                     *)
InTable(t, e) == \E b \in 0..t.size-1 : \E i \in 1..Len(t.table[b]) : t.table[b][i] = e

LEMMA ElementsOf ==
  ASSUME NEW t, t.table \in [0..t.size-1 -> Seq(Entry)], NEW e
  PROVE  e \in Elements(t) <=> InTable(t, e)
<1>1. \A b \in 0..t.size-1 : DOMAIN t.table[b] = 1..Len(t.table[b])
  BY LenProperties
<1>2. DOMAIN t.table = 0..t.size-1
  OBVIOUS
<1>3. e \in Elements(t) <=> \E b \in DOMAIN t.table : \E i \in DOMAIN t.table[b] : t.table[b][i] = e
  BY DEF Elements, Range
<1> QED BY ZenonT(60), <1>1, <1>2, <1>3 DEF InTable

(* A key has a bucket in a table that has any.                             *)
LEMMA SlotRange ==
  ASSUME TableAssumption, NEW t, t.size \in Nat \ {0}, NEW k \in Key
  PROVE  Slot(t, k) \in 0..t.size-1
<1>1. Hash[k] \in Nat
  BY DEF TableAssumption
<1>2. \A a \in Nat, n \in Nat \ {0} : a % n \in 0..n-1
  OBVIOUS
<1> QED BY ZenonT(60), <1>1, <1>2 DEF Slot

(* Entries of a table with the same key are the same.                      *)
LEMMA KeyOnce ==
  ASSUME NEW t, TableSound(t), NEW e \in Elements(t), NEW f \in Elements(t), e.key = f.key
  PROVE  e = f /\ e \in Entry
<1>0. t.table \in [0..t.size-1 -> Seq(Entry)]
  BY SMTT(90) DEF TableSound, TableType, ChainSound
<1>1. PICK b \in 0..t.size-1 : \E i \in 1..Len(t.table[b]) : t.table[b][i] = e
  BY <1>0, ElementsOf DEF InTable
<1>2. PICK i \in 1..Len(t.table[b]) : t.table[b][i] = e
  BY <1>1
<1>3. PICK c \in 0..t.size-1 : \E j \in 1..Len(t.table[c]) : t.table[c][j] = f
  BY SMTT(90), <1>0, ElementsOf DEF InTable
<1>4. PICK j \in 1..Len(t.table[c]) : t.table[c][j] = f
  BY <1>3
<1>5. b = Slot(t, e.key) /\ c = Slot(t, f.key)
  BY ZenonT(60), <1>2, <1>4 DEF TableSound, TableType, ChainSound
<1>6. b = c
  BY <1>5
<1>7. i = j
  BY ZenonT(60), <1>2, <1>4, <1>6 DEF TableSound, TableType, ChainSound
<1>8. t.table[b] \in Seq(Entry)
  BY ZenonT(60), <1>0
<1>9. e \in Entry
  BY <1>2, <1>8 DEF InTable
<1> QED BY <1>2, <1>4, <1>6, <1>7, <1>9

(* A new table has no entries.                                             *)
LEMMA BucketsSound ==
  ASSUME NEW n \in Nat
  PROVE  TableSound(Buckets(n)) /\ Elements(Buckets(n)) = {} /\ Buckets(n).size = n
<1> DEFINE t == Buckets(n)
<1>1. /\ t \in [size : Nat, used : Nat, table : [0..n-1 -> Seq(Entry)]]
      /\ t.size = n /\ t.used = 0 /\ t.table = [i \in 0..n-1 |-> <<>>]
  BY DEF Buckets
<1> HIDE DEF t
<1>2. \A b \in 0..n-1 : t.table[b] = <<>> /\ 1..Len(t.table[b]) = {}
  BY <1>1
<1>3. Elements(t) = {}
  <2>1. ASSUME NEW e \in Elements(t) PROVE FALSE
    <3>1. t.table \in [0..t.size-1 -> Seq(Entry)]
      BY <1>1
    <3> QED BY ZenonT(60), <1>1, <1>2, <3>1, ElementsOf DEF InTable
  <2> QED BY <2>1
<1>4. IsFiniteSet({}) /\ Cardinality({}) = 0
  BY FS_EmptySet
<1>5. TableSound(t)
  BY ZenonT(60), <1>1, <1>2, <1>3, <1>4 DEF TableSound, TableType, ChainSound
<1> QED BY <1>1, <1>3, <1>5 DEF t

(* Prepending to a chain.                                                  *)
LEMMA PrependProperties ==
  ASSUME NEW S, NEW c \in Seq(S), NEW e \in S
  PROVE  /\ <<e>> \o c \in Seq(S) /\ Len(<<e>> \o c) = Len(c) + 1
         /\ (<<e>> \o c)[1] = e
         /\ \A i \in 1..Len(c) : (<<e>> \o c)[i + 1] = c[i]
         /\ \A i \in 1..Len(c) + 1 : i # 1 => i - 1 \in 1..Len(c) /\ (<<e>> \o c)[i] = c[i - 1]
<1>1. <<e>> \in Seq(S) /\ Len(<<e>>) = 1 /\ <<e>>[1] = e /\ Len(c) \in Nat
  OBVIOUS
<1>2. /\ <<e>> \o c \in Seq(S) /\ Len(<<e>> \o c) = 1 + Len(c)
      /\ \A i \in 1..1 + Len(c) : (<<e>> \o c)[i] =
            IF i <= 1 THEN <<e>>[i] ELSE c[i - 1]
  BY <1>1, ConcatProperties
<1> QED BY <1>1, <1>2

(* Writing the fields of a table.                                          *)
LEMMA TableUpdate ==
  ASSUME NEW X, NEW Y, NEW t \in [size : Nat, used : Nat, table : X], NEW n \in Nat, NEW f \in Y
  PROVE  /\ [t EXCEPT !.used = n, !.table = f] \in [size : Nat, used : Nat, table : Y]
         /\ [t EXCEPT !.used = n, !.table = f].size = t.size
         /\ [t EXCEPT !.used = n, !.table = f].used = n
         /\ [t EXCEPT !.used = n, !.table = f].table = f
BY ZenonT(60)

(* PushEntry adds its entry, and nothing else changes.                     *)
LEMMA PushEntrySound ==
  ASSUME TableAssumption, NEW t, TableSound(t), t.size # 0, NEW e \in Entry,
         \A f \in Elements(t) : f.key # e.key
  PROVE  /\ TableSound(PushEntry(t, e))
         /\ Elements(PushEntry(t, e)) = Elements(t) \cup {e}
         /\ PushEntry(t, e).size = t.size
<1> DEFINE s == Slot(t, e.key)
           c == t.table[s]
           n == <<e>> \o c
           u == PushEntry(t, e)
<1>0. /\ t \in [size : Nat, used : Nat, table : [0..t.size-1 -> Seq(Entry)]]
      /\ t.size \in Nat \ {0}
  BY SMTT(90) DEF TableSound, TableType, ChainSound
<1>1. s \in 0..t.size-1 /\ e.key \in Key
  BY <1>0, SlotRange DEF Entry
<1>2. c \in Seq(Entry)
  BY SMTT(30), <1>0, <1>1
<1>3. /\ n \in Seq(Entry) /\ Len(n) = Len(c) + 1 /\ n[1] = e
      /\ \A i \in 1..Len(c) : n[i + 1] = c[i]
      /\ \A i \in 1..Len(n) : i # 1 => i - 1 \in 1..Len(c) /\ n[i] = c[i - 1]
  BY <1>2, PrependProperties
<1> HIDE DEF n
<1>4. u = [t EXCEPT !.used = t.used + 1, !.table = [t.table EXCEPT ![s] = n]]
  BY DEF PushEntry, n
<1> HIDE DEF s, u
<1>5. /\ u \in [size : Nat, used : Nat, table : [0..u.size-1 -> Seq(Entry)]]
      /\ u.size = t.size /\ u.used = t.used + 1
      /\ u.table = [t.table EXCEPT ![s] = n]
  <2>1. [t.table EXCEPT ![s] = n] \in [0..t.size-1 -> Seq(Entry)] /\ t.used + 1 \in Nat
    BY SMTT(90), <1>0, <1>1, <1>3
  <2>2. /\ u \in [size : Nat, used : Nat, table : [0..t.size-1 -> Seq(Entry)]]
        /\ u.size = t.size /\ u.used = t.used + 1 /\ u.table = [t.table EXCEPT ![s] = n]
    BY ZenonT(60), <1>0, <1>4, <2>1, TableUpdate
  <2> QED BY ZenonT(60), <2>2
<1>6. /\ u.table[s] = n
      /\ \A b \in 0..t.size-1 : b # s => u.table[b] = t.table[b]
  BY <1>0, <1>1, <1>5
<1>7. Elements(u) = Elements(t) \cup {e}
  <2>1. ASSUME NEW f \in Elements(u) PROVE f \in Elements(t) \cup {e}
    <3>1. PICK b \in 0..t.size-1 : \E i \in 1..Len(u.table[b]) : u.table[b][i] = f
      BY SMTT(90), <1>5, ElementsOf DEF InTable
    <3>2. PICK i \in 1..Len(u.table[b]) : u.table[b][i] = f
      BY <3>1
    <3>3. f = e \/ \E j \in 1..Len(t.table[b]) : t.table[b][j] = f
      <4>1. CASE b = s
        <5>1. i \in 1..Len(n) /\ n[i] = f
          BY <1>6, <3>2, <4>1
        <5> QED BY ZenonT(60), <1>3, <4>1, <5>1
      <4>2. CASE b # s
        BY <1>6, <3>2, <4>2
      <4> QED BY <4>1, <4>2
    <3> QED BY ZenonT(60), <1>0, <3>3, ElementsOf DEF InTable
  <2>2. ASSUME NEW f \in Elements(t) PROVE f \in Elements(u)
    <3>1. PICK b \in 0..t.size-1 : \E i \in 1..Len(t.table[b]) : t.table[b][i] = f
      BY <1>0, ElementsOf DEF InTable
    <3>2. PICK i \in 1..Len(t.table[b]) : t.table[b][i] = f
      BY <3>1
    <3>3. \E j \in 1..Len(u.table[b]) : u.table[b][j] = f
      <4>1. CASE b = s
        <5>1. i + 1 \in 1..Len(n) /\ n[i + 1] = f
          BY <1>2, <1>3, <3>2, <4>1
        <5> QED BY <1>6, <4>1, <5>1
      <4>2. CASE b # s
        BY <1>6, <3>2, <4>2
      <4> QED BY <4>1, <4>2
    <3> QED BY ZenonT(60), <1>5, <3>3, ElementsOf DEF InTable
  <2>3. e \in Elements(u)
    <3>1. 1 \in 1..Len(u.table[s]) /\ u.table[s][1] = e
      BY <1>2, <1>3, <1>6
    <3> QED BY ZenonT(60), <1>1, <1>5, <3>1, ElementsOf DEF InTable
  <2> QED BY <2>1, <2>2, <2>3
<1>8. IsFiniteSet(Elements(u)) /\ u.used = Cardinality(Elements(u))
  <2>1. e \notin Elements(t)
    OBVIOUS
  <2>2. IsFiniteSet(Elements(t)) /\ t.used = Cardinality(Elements(t))
    BY DEF TableSound, TableType, ChainSound
  <2> QED BY <1>5, <1>7, <2>1, <2>2, FS_AddElement
<1>9. ASSUME NEW b \in 0..u.size-1, NEW i \in 1..Len(u.table[b])
      PROVE  /\ Slot(u, u.table[b][i].key) = b
             /\ \A j \in 1..Len(u.table[b]) : u.table[b][j].key = u.table[b][i].key => j = i
  <2>0. \A k : Slot(u, k) = Slot(t, k)
    BY <1>5 DEF Slot
  <2>1. \A i1 \in 1..Len(t.table[b]) :
           /\ Slot(t, t.table[b][i1].key) = b
           /\ \A j \in 1..Len(t.table[b]) : t.table[b][j].key = t.table[b][i1].key => j = i1
    BY ZenonT(60), <1>5 DEF TableSound, TableType, ChainSound
  <2>2. CASE b # s
    BY SMTT(90), <1>5, <1>6, <2>0, <2>1, <2>2
  <2>3. CASE b = s
    <3>1. \A j \in 1..Len(c) : c[j].key # e.key
      BY SMTT(90), <1>0, <1>1, ElementsOf DEF InTable
    <3>2. /\ u.table[b] = n /\ Slot(t, e.key) = s
          /\ \A j \in 1..Len(c) : /\ Slot(t, c[j].key) = s
                                  /\ \A h \in 1..Len(c) : c[h].key = c[j].key => h = j
      BY <1>6, <2>1, <2>3 DEF s
    <3> HIDE DEF c
    <3>3. CASE i = 1
      <4>1. \A j \in 1..Len(n) : n[j].key = e.key => j = 1
        BY ZenonT(60), <1>3, <3>1
      <4> QED BY ZenonT(60), <1>3, <2>0, <2>3, <3>2, <3>3, <4>1
    <3>4. CASE i # 1
      <4>1. i - 1 \in 1..Len(c) /\ n[i] = c[i - 1]
        BY <1>3, <3>2, <3>4
      <4>2. ASSUME NEW j \in 1..Len(n), n[j].key = n[i].key PROVE j = i
        <5>1. j # 1
          BY ZenonT(60), <1>3, <3>1, <4>1, <4>2
        <5>2. j - 1 \in 1..Len(c) /\ n[j] = c[j - 1]
          BY <1>3, <5>1
        <5>3. j - 1 = i - 1
          BY ZenonT(60), <3>2, <4>1, <4>2, <5>2
        <5> QED BY <5>3
      <4> QED BY <2>0, <2>3, <3>2, <4>1, <4>2
    <3> QED BY <3>3, <3>4
  <2> QED BY <2>2, <2>3
<1>10. TableSound(u)
  BY ZenonT(60), <1>5, <1>8, <1>9 DEF TableSound, TableType, ChainSound
<1> QED BY <1>5, <1>7, <1>10 DEF u

(* The members of a chain, one by one.                                     *)
LEMMA ChainOfEntries ==
  ASSUME NEW c \in Seq(Entry)
  PROVE  /\ \A e : e \in Range(c) <=> \E i \in 1..Len(c) : c[i] = e
         /\ Range(c) \subseteq Entry
<1>1. DOMAIN c = 1..Len(c)
  BY LenProperties
<1> QED BY <1>1 DEF Range

(* A bucket replaced by a chain of entries that hash to it.                *)
Rebucket(t, s, n, m) == [t EXCEPT !.used = m, !.table = [t.table EXCEPT ![s] = n]]

Rebucketed(u, t, s, n, m) ==
    /\ IsFiniteSet(Elements(u)) /\ m = Cardinality(Elements(u)) => TableSound(u)
    /\ \A f : f \in Elements(u) <=>
          f \in Range(n) \/ (f \in Elements(t) /\ f \notin Range(t.table[s]))
    /\ u.size = t.size /\ u.table = [t.table EXCEPT ![s] = n]

LEMMA BucketReplaced ==
  ASSUME NEW t, TableSound(t), NEW s \in 0..t.size-1, NEW n \in Seq(Entry), NEW m \in Nat,
         ChainSound(t, n, s)
  PROVE  Rebucketed(Rebucket(t, s, n, m), t, s, n, m)
<1> DEFINE c == t.table[s]
           u == Rebucket(t, s, n, m)
<1>0. t \in [size : Nat, used : Nat, table : [0..t.size-1 -> Seq(Entry)]]
  BY ZenonT(60) DEF TableSound, TableType, ChainSound
<1>1. c \in Seq(Entry)
  BY <1>0
<1>9. [t.table EXCEPT ![s] = n] \in [0..t.size-1 -> Seq(Entry)]
  BY <1>0
<1>2. /\ u \in [size : Nat, used : Nat, table : [0..u.size-1 -> Seq(Entry)]]
      /\ u.size = t.size /\ u.used = m
      /\ u.table = [t.table EXCEPT ![s] = n]
  BY ZenonT(60), <1>0, <1>9, TableUpdate DEF Rebucket
<1> HIDE DEF u
<1>3. /\ u.table[s] = n
      /\ \A b \in 0..t.size-1 : b # s => u.table[b] = t.table[b]
  BY <1>0, <1>2
<1>4. \A b \in 0..t.size-1 : \A i \in 1..Len(t.table[b]) :
         /\ Slot(t, t.table[b][i].key) = b
         /\ \A j \in 1..Len(t.table[b]) : t.table[b][j].key = t.table[b][i].key => j = i
  BY ZenonT(60) DEF TableSound, TableType, ChainSound
<1>8. \A f : /\ f \in Elements(t) <=> InTable(t, f)
             /\ f \in Elements(u) <=> InTable(u, f)
  <2>1. t.table \in [0..t.size-1 -> Seq(Entry)] /\ u.table \in [0..u.size-1 -> Seq(Entry)]
    BY ZenonT(60), <1>0, <1>2
  <2> QED BY ZenonT(60), <2>1, ElementsOf
<1>5. ASSUME NEW f
      PROVE  f \in Elements(u) <=>
               f \in Range(n) \/ (f \in Elements(t) /\ f \notin Range(c))
  <2>1. ASSUME f \in Elements(u)
        PROVE  f \in Range(n) \/ (f \in Elements(t) /\ f \notin Range(c))
    <3>0. PICK b \in 0..u.size-1 : \E i \in 1..Len(u.table[b]) : u.table[b][i] = f
      BY ZenonT(60), <2>1, <1>8 DEF InTable
    <3>1. b \in 0..t.size-1 /\ \E i \in 1..Len(u.table[b]) : u.table[b][i] = f
      BY ZenonT(60), <1>2, <3>0
    <3>2. CASE b = s
      <4>1. f \in Range(n)
        BY SMTT(90), <1>3, <3>1, <3>2, ChainOfEntries
      <4> QED BY ZenonT(60), <4>1
    <3>3. CASE b # s
      <4>1. PICK i \in 1..Len(t.table[b]) : t.table[b][i] = f
        BY ZenonT(60), <1>3, <3>1, <3>3
      <4>2. f \in Elements(t)
        BY ZenonT(60), <3>1, <4>1, <1>8 DEF InTable
      <4>3. f \notin Range(c)
        <5>1. Slot(t, f.key) # s
          BY ZenonT(60), <1>4, <3>1, <3>3, <4>1
        <5>2. \A j \in 1..Len(c) : Slot(t, c[j].key) = s
          BY ZenonT(60), <1>4
        <5> HIDE DEF c
        <5> QED BY SMTT(90), <1>1, <5>1, <5>2, ChainOfEntries
      <4> QED BY ZenonT(60), <4>2, <4>3
    <3> QED BY <3>2, <3>3
  <2>2. ASSUME f \in Range(n) PROVE f \in Elements(u)
    <3>1. \E i \in 1..Len(u.table[s]) : u.table[s][i] = f
      BY <1>3, <2>2, ChainOfEntries
    <3> QED BY ZenonT(60), <1>2, <3>1, <1>8 DEF InTable
  <2>3. ASSUME f \in Elements(t), f \notin Range(c) PROVE f \in Elements(u)
    <3>1. PICK b \in 0..t.size-1 : \E i \in 1..Len(t.table[b]) : t.table[b][i] = f
      BY ZenonT(60), <2>3, <1>8 DEF InTable
    <3>2. b # s
      <4> HIDE DEF c
      <4>1. ~ \E i \in 1..Len(c) : c[i] = f
        BY ZenonT(60), <1>1, <2>3, ChainOfEntries
      <4> QED BY ZenonT(60), <3>1, <4>1 DEF c
    <3>3. \E i \in 1..Len(u.table[b]) : u.table[b][i] = f
      BY ZenonT(60), <1>3, <3>1, <3>2
    <3> QED BY ZenonT(60), <1>2, <3>3, <1>8 DEF InTable
  <2> QED BY ZenonT(60), <2>1, <2>2, <2>3
<1>6. ASSUME NEW b \in 0..u.size-1, NEW i \in 1..Len(u.table[b])
      PROVE  /\ Slot(u, u.table[b][i].key) = b
             /\ \A j \in 1..Len(u.table[b]) : u.table[b][j].key = u.table[b][i].key => j = i
  <2>0. \A k : Slot(u, k) = Slot(t, k)
    BY <1>2 DEF Slot
  <2>1. b \in 0..t.size-1
    BY <1>2
  <2>2. CASE b = s
    BY ZenonT(60), <1>3, <1>6, <2>0, <2>2 DEF ChainSound
  <2>3. CASE b # s
    <3>1. u.table[b] = t.table[b] /\ ChainSound(t, t.table[b], b)
      BY ZenonT(60), <1>3, <2>1, <2>3 DEF TableSound
    <3> QED BY ZenonT(60), <1>6, <2>0, <3>1 DEF ChainSound
  <2> QED BY <2>2, <2>3
<1>7. IsFiniteSet(Elements(u)) /\ m = Cardinality(Elements(u)) => TableSound(u)
  BY ZenonT(60), <1>2, <1>6 DEF TableSound, TableType, ChainSound
<1> QED BY ZenonT(60), <1>2, <1>5, <1>7 DEF Rebucketed, u

(* A chain without repetitions has as many entries as elements.            *)
LEMMA ChainCount ==
  ASSUME NEW c \in Seq(Entry),
         \A i, j \in 1..Len(c) : c[j].key = c[i].key => j = i
  PROVE  IsFiniteSet(Range(c)) /\ Cardinality(Range(c)) = Len(c)
<1>0. Len(c) \in Nat /\ DOMAIN c = 1..Len(c) /\ c \in [1..Len(c) -> Entry]
  BY LenProperties
<1>1. c \in [1..Len(c) -> Range(c)]
  BY <1>0 DEF Range
<1>2. \A a, b \in 1..Len(c) : c[a] = c[b] => a = b
  BY ZenonT(60)
<1>3. \A x \in Range(c) : \E a \in 1..Len(c) : c[a] = x
  BY ChainOfEntries
<1>4. c \in Bijection(1..Len(c), Range(c))
  BY <1>1, <1>2, <1>3 DEF Bijection, Injection, Surjection, IsInjective
<1>5. ExistsBijection(1..Len(c), Range(c))
  BY <1>4 DEF ExistsBijection
<1> QED BY <1>0, <1>5, FS_CountingElements, FS_NatBijection

(* f[i] is the table after the first i entries of a chain, and f ends with *)
(* what PushChain returns.                                                 *)
PushedBy(f, t, chain) ==
    /\ f[0] = t
    /\ \A i \in 1..Len(chain) : f[i] = PushEntry(f[i - 1], chain[i])
    /\ PushChain(t, chain) = f[Len(chain)]

(* The recursive function of PushChain exists.                             *)
LEMMA PushChainUnfold ==
  ASSUME NEW t, NEW chain, Len(chain) \in Nat
  PROVE  \E f : PushedBy(f, t, chain)
<1> DEFINE N == Len(chain)
           Fix(f, n) == f = [i \in 0..n |-> IF i = 0 THEN t ELSE PushEntry(f[i - 1], chain[i])]
           T == {n \in 0..N : ~ \E f : Fix(f, n)}
<1>0. /\ N \in Nat /\ T \in SUBSET Nat
      /\ \A n : n \in T <=> n \in 0..N /\ ~ \E f : Fix(f, n)
  OBVIOUS
<1>1. T = {}
  <2>1. SUFFICES ASSUME T # {} PROVE FALSE
    OBVIOUS
  <2> HIDE DEF T, N
  <2>2. PICK n \in T : \A y \in T : n <= y
    BY ZenonT(60), <2>1, <1>0, NatLeast
  <2>3. CASE n = 0
    <3>1. Fix([i \in 0..0 |-> t], 0)
      OBVIOUS
    <3> QED BY ZenonT(60), <3>1, <2>3, <2>2, <1>0
  <2>4. CASE n # 0
    <3>0. n \in 1..N
      BY <2>4, <2>2, <1>0
    <3>1. n - 1 \in 0..N /\ n - 1 \notin T
      <4> HIDE DEF Fix
      <4> QED BY <2>2, <3>0, <1>0
    <3>2. PICK f : Fix(f, n - 1)
      <4> HIDE DEF Fix
      <4> QED BY <3>1, <1>0
    <3> DEFINE g == [i \in 0..n |-> IF i = n THEN PushEntry(f[n - 1], chain[n]) ELSE f[i]]
    <3>3. Fix(g, n)
      BY <3>2, <3>0, <1>0
    <3> HIDE DEF Fix
    <3> QED BY <3>3, <2>2, <1>0
  <2> QED BY <2>3, <2>4
<1>2. \E f : Fix(f, N)
  <2> HIDE DEF Fix, T
  <2> QED BY <1>1, <1>0
<1>3. PICK f : Fix(f, N) /\ PushChain(t, chain) = f[N]
  BY ZenonT(60), <1>2 DEF PushChain
<1>4. ASSUME NEW h, NEW k \in 0..N, Fix(h, N)
      PROVE  h[k] = IF k = 0 THEN t ELSE PushEntry(h[k - 1], chain[k])
  <2> DEFINE F(j) == IF j = 0 THEN t ELSE PushEntry(h[j - 1], chain[j])
  <2>1. h = [j \in 0..N |-> F(j)]
    BY SMTT(30), <1>4
  <2> HIDE DEF F
  <2>2. h[k] = F(k)
    BY <2>1
  <2> QED BY <2>2 DEF F
<1>5. f[0] = t
  BY <1>0, <1>3, <1>4
<1>6. \A k \in 1..N : f[k] = PushEntry(f[k - 1], chain[k])
  <2> TAKE k \in 1..N
  <2>1. k \in 0..N /\ k # 0
    BY <1>0
  <2> HIDE DEF Fix, N
  <2> QED BY <2>1, <1>3, <1>4
<1>7. PushedBy(f, t, chain)
  BY <1>3, <1>5, <1>6 DEF PushedBy
<1> QED BY <1>7

(* A chain of keys that are not in the table is moved there whole.         *)
LEMMA PushChainSound ==
  ASSUME TableAssumption, NEW t, TableSound(t), t.size # 0, NEW chain \in Seq(Entry),
         \A i, j \in 1..Len(chain) : chain[j].key = chain[i].key => j = i,
         \A f \in Elements(t) : \A i \in 1..Len(chain) : f.key # chain[i].key
  PROVE  /\ TableSound(PushChain(t, chain))
         /\ Elements(PushChain(t, chain)) = Elements(t) \cup Range(chain)
         /\ PushChain(t, chain).size = t.size
<1> DEFINE N == Len(chain)
           First(i) == {chain[j] : j \in 1..i}
<1>1. N \in Nat
  BY LenProperties
<1>0. PICK f : PushedBy(f, t, chain)
  BY ZenonT(60), <1>1, PushChainUnfold
<1>2. /\ f[0] = t
      /\ \A k \in 1..N : f[k] = PushEntry(f[k - 1], chain[k])
      /\ PushChain(t, chain) = f[N]
  BY <1>0 DEF PushedBy
<1> DEFINE Good(k) == /\ TableSound(f[k]) /\ f[k].size = t.size
                      /\ Elements(f[k]) = Elements(t) \cup First(k)
           Bad == {k \in 0..N : ~Good(k)}
<1>3. Good(0)
  BY <1>2
<1>4. ASSUME NEW k \in 1..N, Good(k - 1) PROVE Good(k)
  <2> DEFINE g == f[k - 1]
             e == chain[k]
  <2>1. e \in Entry
    OBVIOUS
  <2>2. f[k] = PushEntry(g, e)
    BY <1>2
  <2>3. TableSound(g) /\ g.size # 0 /\ g.size = t.size /\ Elements(g) = Elements(t) \cup First(k - 1)
    BY <1>4
  <2>4. First(k) = First(k - 1) \cup {e}
    <3>1. 1..k = (1..k-1) \cup {k}
      BY <1>1
    <3> QED BY <3>1
  <2>5. \A x \in First(k - 1) : x.key # e.key
    BY <1>1
  <2> HIDE DEF g, e, First
  <2>6. \A x \in Elements(g) : x.key # e.key
    BY <2>3, <2>5 DEF e
  <2>7. TableSound(f[k]) /\ Elements(f[k]) = Elements(g) \cup {e} /\ f[k].size = g.size
    BY ZenonT(60), <2>1, <2>2, <2>3, <2>6, PushEntrySound
  <2>8. Elements(f[k]) = Elements(t) \cup First(k)
    BY <2>3, <2>4, <2>7
  <2> QED BY SMTT(30), <2>3, <2>7, <2>8
<1>5. First(N) = Range(chain)
  BY LenProperties DEF Range
<1> HIDE DEF Good
<1>6. Bad = {}
  <2>1. SUFFICES ASSUME Bad # {} PROVE FALSE
    OBVIOUS
  <2>2. PICK k \in Bad : \A y \in Bad : k <= y
    <3>1. Bad \in SUBSET Nat
      OBVIOUS
    <3> HIDE DEF Bad
    <3> QED BY ZenonT(60), <2>1, <3>1, NatLeast
  <2>3. k # 0
    BY <1>3
  <2>4. k \in 1..N /\ k - 1 \in 0..N /\ k - 1 \notin Bad
    BY <1>1, <2>2, <2>3
  <2>5. Good(k)
    BY <1>4, <2>4
  <2> QED BY <2>5
<1>7. Good(N)
  BY <1>1, <1>6
<1> QED BY <1>2, <1>5, <1>7 DEF Good

(* dictRehash leaves a bucket empty: its entries are no longer counted.    *)
LEMMA BucketEmptied ==
  ASSUME NEW t, TableSound(t), NEW s \in 0..t.size-1
  PROVE  /\ TableSound(EmptyBucket(t, s)) /\ EmptyBucket(t, s).size = t.size
         /\ Elements(EmptyBucket(t, s)) = Elements(t) \ Range(t.table[s])
         /\ Range(t.table[s]) \subseteq Elements(t)
         /\ EmptyBucket(t, s).table = [t.table EXCEPT ![s] = <<>>]
<1> DEFINE c == t.table[s]
           m == t.used - Len(c)
           E == Elements(t)
           u == EmptyBucket(t, s)
           n == <<>>
<1>0. /\ t \in [size : Nat, used : Nat, table : [0..t.size-1 -> Seq(Entry)]]
      /\ IsFiniteSet(E) /\ t.used = Cardinality(E)
  BY ZenonT(60) DEF TableSound, TableType, ChainSound
<1>1. c \in Seq(Entry) /\ Len(c) \in Nat
  BY <1>0, LenProperties
<1>2. \A i, j \in 1..Len(c) : c[j].key = c[i].key => j = i
  BY ZenonT(60) DEF TableSound, TableType, ChainSound
<1>3. Range(c) \subseteq E
  <2>1. ASSUME NEW f \in Range(c) PROVE f \in E
    <3>1. PICK i \in 1..Len(c) : c[i] = f
      BY ZenonT(60), <1>1, <2>1, ChainOfEntries
    <3>2. t.table \in [0..t.size-1 -> Seq(Entry)] /\ InTable(t, f)
      BY <1>0, <3>1 DEF InTable
    <3> QED BY ZenonT(60), <3>2, ElementsOf
  <2> QED BY ZenonT(60), <2>1
<1>4. IsFiniteSet(Range(c)) /\ Cardinality(Range(c)) = Len(c)
  <2> HIDE DEF c
  <2> QED BY ZenonT(60), <1>1, <1>2, ChainCount
<1> HIDE DEF c, E
<1>5. IsFiniteSet(E \ Range(c)) /\ Cardinality(E \ Range(c)) = m /\ m \in Nat
  <2>1. E \cap Range(c) = Range(c)
    BY ZenonT(60), <1>3
  <2>2. /\ IsFiniteSet(E \ Range(c))
        /\ Cardinality(E \ Range(c)) = Cardinality(E) - Cardinality(Range(c))
    <3>1. /\ IsFiniteSet(E \ Range(c))
          /\ Cardinality(E \ Range(c)) = Cardinality(E) - Cardinality(E \cap Range(c))
      BY ZenonT(60), <1>0, FS_Difference
    <3> QED BY ZenonT(60), <2>1, <3>1
  <2>3. Cardinality(E \ Range(c)) \in Nat
    BY ZenonT(60), <2>2, FS_CardinalityType
  <2> QED BY SMTT(90), <1>0, <1>4, <2>2, <2>3
<1> HIDE DEF m
<1>6. /\ n \in Seq(Entry) /\ 1..Len(n) = {} /\ Range(n) = {}
      /\ [t.table EXCEPT ![s] = n] \in [0..t.size-1 -> Seq(Entry)]
  BY <1>0 DEF Range
<1> HIDE DEF n
<1>7. u = Rebucket(t, s, n, m)
  BY ZenonT(60) DEF m, c, n, EmptyBucket, Rebucket
<1>8. ChainSound(t, n, s)
  BY ZenonT(60), <1>6 DEF ChainSound
<1>9. Rebucketed(u, t, s, n, m)
  <2> HIDE DEF u
  <2> QED BY ZenonT(60), <1>5, <1>6, <1>7, <1>8, BucketReplaced
<1> HIDE DEF u
<1>10. Elements(u) = E \ Range(c)
  BY ZenonT(60), <1>6, <1>9 DEF E, c, Rebucketed
<1> QED BY ZenonT(60), <1>3, <1>5, <1>9, <1>10 DEF E, c, u, n, Rebucketed

----------------------------------------------------------------------------
(* Two tables as a dictionary, and what DictSound says of them.            *)
Pair(a, b) == [t \in 0..1 |-> IF t = 0 THEN a ELSE b]

PairSound(a, b, r) ==
    /\ TableSound(a) /\ TableSound(b)
    /\ \A e \in Elements(a), f \in Elements(b) : e.key # f.key
    /\ r = -1 => b.size = 0
    /\ r # -1 => /\ r \in 0..a.size /\ a.size > 0 /\ b.size > 0
                 /\ \A s \in 0..r-1 : a.table[s] = <<>>

LEMMA PairFields ==
  ASSUME NEW a, NEW b, NEW r, NEW n
  PROVE  /\ Pair(a, b)[0] = a /\ Pair(a, b)[1] = b
         /\ Dict(Pair(a, b), r, n).ht = Pair(a, b)
         /\ Dict(Pair(a, b), r, n).rehashidx = r
         /\ Dict(Pair(a, b), r, n).iterators = n
BY DEF Pair, Dict

LEMMA PairIsSound ==
  ASSUME NEW a, NEW b, NEW r, NEW n, PairSound(a, b, r)
  PROVE  /\ DictSound(Dict(Pair(a, b), r, n))
         /\ Contents(Dict(Pair(a, b), r, n)) = Elements(a) \cup Elements(b)
<1> DEFINE d == Dict(Pair(a, b), r, n)
<1>1. d.ht = Pair(a, b) /\ d.ht[0] = a /\ d.ht[1] = b /\ d.rehashidx = r /\ d.iterators = n
  <2>1. d.ht = Pair(a, b) /\ d.rehashidx = r /\ d.iterators = n
    BY DEF Dict
  <2>2. Pair(a, b)[0] = a /\ Pair(a, b)[1] = b
    BY DEF Pair
  <2> HIDE DEF d
  <2> QED BY <2>1, <2>2
<1>2. d.ht = [t \in 0..1 |-> d.ht[t]]
  BY <1>1 DEF Pair
<1>3. d = Dict(d.ht, d.rehashidx, d.iterators)
  BY ZenonT(60), <1>1
<1> HIDE DEF d
<1>4. DictSound(d)
  BY ZenonT(60), <1>1, <1>2, <1>3 DEF DictSound, PairSound, IsRehashing
<1>5. Contents(d) = Elements(a) \cup Elements(b)
  BY ZenonT(60), <1>1 DEF Contents
<1> QED BY <1>4, <1>5 DEF d

IsDict(d) == d = Dict(Pair(d.ht[0], d.ht[1]), d.rehashidx, d.iterators)

LEMMA SoundIsPair ==
  ASSUME NEW d, DictSound(d)
  PROVE  /\ PairSound(d.ht[0], d.ht[1], d.rehashidx)
         /\ IsDict(d)
<1>1. d.ht = Pair(d.ht[0], d.ht[1])
  <2>1. d.ht = [t \in 0..1 |-> d.ht[t]]
    BY ZenonT(60) DEF DictSound
  <2>2. [t \in 0..1 |-> d.ht[t]] = Pair(d.ht[0], d.ht[1])
    BY DEF Pair
  <2> QED BY ZenonT(60), <2>1, <2>2
<1>2. d = Dict(d.ht, d.rehashidx, d.iterators)
  BY ZenonT(60) DEF DictSound
<1>3. PairSound(d.ht[0], d.ht[1], d.rehashidx)
  BY ZenonT(60) DEF DictSound, PairSound, IsRehashing
<1> QED BY ZenonT(60), <1>1, <1>2, <1>3 DEF IsDict

(* An entry that the search for its bucket meets.                          *)
LEMMA ElementChain ==
  ASSUME NEW t, TableSound(t), NEW e \in Elements(t)
  PROVE  InTable(t, e)
<1>1. t.table \in [0..t.size-1 -> Seq(Entry)]
  BY DEF TableSound, TableType
<1> QED BY ZenonT(60), <1>1, ElementsOf

(* A round of dictRehash that moves a bucket.                              *)
EmptyUpTo(a, r, i) == \A s \in r..i-1 : a.table[s] = <<>>

LEMMA BucketMoved ==
  ASSUME TableAssumption, NEW a, NEW b, NEW r, PairSound(a, b, r), r # -1,
         NEW i \in r..a.size-1, EmptyUpTo(a, r, i)
  PROVE  /\ PairSound(EmptyBucket(a, i), PushChain(b, a.table[i]), i + 1)
         /\ Elements(EmptyBucket(a, i)) \cup Elements(PushChain(b, a.table[i]))
               = Elements(a) \cup Elements(b)
<1> DEFINE c == a.table[i]
           p == EmptyBucket(a, i)
           q == PushChain(b, c)
<1>1. /\ TableSound(a) /\ TableSound(b) /\ r \in 0..a.size /\ b.size > 0
      /\ \A e \in Elements(a), f \in Elements(b) : e.key # f.key
      /\ \A s \in 0..r-1 : a.table[s] = <<>>
  BY ZenonT(60) DEF PairSound
<1>2. /\ a.size \in Nat /\ b.size \in Nat /\ a.table \in [0..a.size-1 -> Seq(Entry)]
  BY <1>1 DEF TableSound, TableType
<1>3. i \in 0..a.size-1 /\ i \in Nat /\ b.size # 0
  BY <1>1, <1>2
<1>4. c \in Seq(Entry)
  BY SMTT(90), <1>2, <1>3
<1>5. /\ TableSound(p) /\ p.size = a.size /\ Elements(p) = Elements(a) \ Range(c)
      /\ Range(c) \subseteq Elements(a) /\ p.table = [a.table EXCEPT ![i] = <<>>]
  BY ZenonT(60), <1>1, <1>3, BucketEmptied
<1>6. \A j, k \in 1..Len(c) : c[k].key = c[j].key => k = j
  BY ZenonT(60), <1>1, <1>3 DEF TableSound, ChainSound
<1> HIDE DEF c, p
<1>7. \A f \in Elements(b) : \A j \in 1..Len(c) : f.key # c[j].key
  <2>1. \A j \in 1..Len(c) : c[j] \in Elements(a)
    BY ZenonT(60), <1>4, <1>5, ChainOfEntries
  <2> QED BY ZenonT(60), <1>1, <2>1
<1>8. TableSound(q) /\ Elements(q) = Elements(b) \cup Range(c) /\ q.size = b.size
  BY ZenonT(60), <1>1, <1>3, <1>4, <1>6, <1>7, PushChainSound
<1> HIDE DEF q
<1>9. Elements(p) \cup Elements(q) = Elements(a) \cup Elements(b)
  BY <1>5, <1>8
<1>10. ASSUME NEW e \in Elements(p), NEW f \in Elements(q) PROVE e.key # f.key
  <2>1. e \in Elements(a) /\ e \notin Range(c) /\ (f \in Elements(b) \/ f \in Range(c))
    BY ZenonT(60), <1>5, <1>8, <1>10
  <2>2. CASE f \in Elements(b)
    BY ZenonT(60), <1>1, <2>1, <2>2
  <2>3. CASE f \in Range(c)
    <3>1. f \in Elements(a)
      BY ZenonT(60), <1>5, <2>3
    <3> QED BY ZenonT(60), <1>1, <2>1, <2>3, <3>1, KeyOnce
  <2> QED BY ZenonT(60), <2>1, <2>2, <2>3
<1>11. \A s \in 0..(i+1)-1 : p.table[s] = <<>>
  BY SMTT(90), <1>1, <1>2, <1>3, <1>5 DEF EmptyUpTo
<1>12. i + 1 # -1 /\ i + 1 \in 0..p.size /\ p.size > 0 /\ q.size > 0
  BY SMTT(90), <1>1, <1>2, <1>3, <1>5, <1>8
<1>13. PairSound(p, q, i + 1)
  BY ZenonT(60), <1>5, <1>8, <1>10, <1>11, <1>12 DEF PairSound
<1> QED BY ZenonT(60), <1>9, <1>13 DEF p, q, c

(* The bucket that the round picks.                                        *)
LEMMA BucketFound ==
  ASSUME NEW a, NEW b, NEW r, PairSound(a, b, r), r # -1, a.used # 0,
         NEW i, i = Min({j \in r..a.size-1 : a.table[j] # <<>>})
  PROVE  i \in r..a.size-1 /\ EmptyUpTo(a, r, i)
<1> DEFINE T == {j \in r..a.size-1 : a.table[j] # <<>>}
<1>1. /\ TableSound(a) /\ r \in 0..a.size /\ \A s \in 0..r-1 : a.table[s] = <<>>
  BY ZenonT(60) DEF PairSound
<1>2. /\ a.size \in Nat /\ a.used = Cardinality(Elements(a))
  BY <1>1 DEF TableSound, TableType
<1>3. Elements(a) # {}
  BY ZenonT(60), <1>2, FS_EmptySet
<1>4. PICK e : e \in Elements(a)
  BY ZenonT(60), <1>3
<1>5. PICK s \in 0..a.size-1 : \E j \in 1..Len(a.table[s]) : a.table[s][j] = e
  <2>1. InTable(a, e)
    BY ZenonT(60), <1>1, <1>4, ElementChain
  <2> QED BY ZenonT(60), <2>1 DEF InTable
<1>6. a.table[s] # <<>>
  BY <1>5
<1>7. s \in T
  BY <1>1, <1>2, <1>5, <1>6
<1>8. T \in SUBSET Nat /\ T # {}
  BY <1>1, <1>2, <1>7
<1>9. i \in T /\ \A y \in T : i <= y
  <2> HIDE DEF T
  <2>1. i = Min(T)
    BY DEF T
  <2>2. Min(T) \in T /\ \A y \in T : Min(T) <= y
    BY ZenonT(60), <1>8, NatLeast
  <2> QED BY ZenonT(60), <2>1, <2>2
<1>10. i \in r..a.size-1
  BY ZenonT(60), <1>9
<1>11. ASSUME NEW k \in r..i-1 PROVE a.table[k] = <<>>
  <2>1. k \in r..a.size-1 /\ ~(i <= k)
    BY SMTT(90), <1>1, <1>2, <1>10, <1>11
  <2> QED BY ZenonT(60), <1>9, <2>1
<1> QED BY ZenonT(60), <1>10, <1>11 DEF EmptyUpTo

(* The updates of the calls, on a dictionary made of two tables.           *)
LEMMA PairWrite ==
  ASSUME NEW a, NEW b, NEW q, NEW i \in 0..1
  PROVE  [Pair(a, b) EXCEPT ![i] = q] = IF i = 0 THEN Pair(q, b) ELSE Pair(a, q)
<1> DEFINE f == [Pair(a, b) EXCEPT ![i] = q]
           g == IF i = 0 THEN Pair(q, b) ELSE Pair(a, q)
<1>1. f = [t \in 0..1 |-> f[t]]
  BY SMTT(90) DEF Pair
<1>2. g = [t \in 0..1 |-> g[t]]
  BY SMTT(90) DEF Pair
<1>3. f[0] = g[0] /\ f[1] = g[1]
  BY SMTT(90) DEF Pair
<1> HIDE DEF f, g
<1>4. \A t \in 0..1 : f[t] = g[t]
  BY SMTT(90), <1>3
<1>5. [t \in 0..1 |-> f[t]] = [t \in 0..1 |-> g[t]]
  BY ZenonT(60), <1>4
<1> QED BY ZenonT(60), <1>1, <1>2, <1>5 DEF f, g

LEMMA DictWrite ==
  ASSUME NEW h, NEW r, NEW n, NEW g, NEW s
  PROVE  /\ [Dict(h, r, n) EXCEPT !.ht = g] = Dict(g, r, n)
         /\ [Dict(h, r, n) EXCEPT !.rehashidx = s] = Dict(h, s, n)
<1>1. [Dict(h, r, n) EXCEPT !.ht = g] = Dict(g, r, n)
  BY SMTT(90) DEF Dict
<1>2. [Dict(h, r, n) EXCEPT !.rehashidx = s] = Dict(h, s, n)
  BY SMTT(90) DEF Dict
<1> QED BY ZenonT(60), <1>1, <1>2

LEMMA TableUpdates ==
  ASSUME NEW a, NEW b, NEW r, NEW n, NEW p, NEW q
  PROVE  /\ [Dict(Pair(a, b), r, n) EXCEPT !.ht[0] = p] = Dict(Pair(p, b), r, n)
         /\ [Dict(Pair(a, b), r, n) EXCEPT !.ht[1] = q] = Dict(Pair(a, q), r, n)
<1>1. [Pair(a, b) EXCEPT ![0] = p] = Pair(p, b)
  BY PairWrite
<1>2. [Pair(a, b) EXCEPT ![1] = q] = Pair(a, q)
  BY PairWrite
<1>3. [Dict(Pair(a, b), r, n) EXCEPT !.ht[0] = p] = Dict(Pair(p, b), r, n)
  BY SMTT(90), <1>1 DEF Dict
<1>4. [Dict(Pair(a, b), r, n) EXCEPT !.ht[1] = q] = Dict(Pair(a, q), r, n)
  BY SMTT(90), <1>2 DEF Dict
<1> QED BY ZenonT(60), <1>3, <1>4

WriteFirst(d, p) == [d EXCEPT !.ht[0] = p]
WriteSecond(d, q) == [d EXCEPT !.ht[1] = q]
WriteMove(d, p, q, s) == [d EXCEPT !.ht[1] = q, !.ht[0] = p, !.rehashidx = s]
WriteSwitch(d, h, s) == [d EXCEPT !.ht = h, !.rehashidx = s]
WriteStart(d, q, s) == [d EXCEPT !.ht[1] = q, !.rehashidx = s]

LEMMA PairUpdates ==
  ASSUME NEW d, IsDict(d), NEW p, NEW q, NEW s
  PROVE  /\ WriteFirst(d, p) = Dict(Pair(p, d.ht[1]), d.rehashidx, d.iterators)
         /\ WriteSecond(d, q) = Dict(Pair(d.ht[0], q), d.rehashidx, d.iterators)
         /\ WriteMove(d, p, q, s) = Dict(Pair(p, q), s, d.iterators)
         /\ WriteSwitch(d, Pair(p, q), s) = Dict(Pair(p, q), s, d.iterators)
         /\ WriteStart(d, q, s) = Dict(Pair(d.ht[0], q), s, d.iterators)
<1> DEFINE a == d.ht[0]
           b == d.ht[1]
           r == d.rehashidx
           n == d.iterators
           c == Dict(Pair(a, b), r, n)
           e == Dict(Pair(a, q), r, n)
           f == Dict(Pair(p, q), r, n)
<1> HIDE DEF a, b, r, n
<1>0. d = c
  BY ZenonT(60) DEF IsDict, a, b, r, n
<1>1. [c EXCEPT !.ht[1] = q] = e /\ [c EXCEPT !.ht[0] = p] = Dict(Pair(p, b), r, n)
  BY SMTT(90), TableUpdates
<1>2. [e EXCEPT !.ht[0] = p] = f
  BY SMTT(90), TableUpdates
<1>3. [e EXCEPT !.rehashidx = s] = Dict(Pair(a, q), s, n)
  BY SMTT(90), DictWrite
<1>4. [f EXCEPT !.rehashidx = s] = Dict(Pair(p, q), s, n)
  BY SMTT(90), DictWrite
<1>5. [c EXCEPT !.ht = Pair(p, q)] = f
  BY SMTT(90), DictWrite
<1> HIDE DEF c, e, f
<1>6. [c EXCEPT !.ht[1] = q, !.ht[0] = p, !.rehashidx = s]
         = [[[c EXCEPT !.ht[1] = q] EXCEPT !.ht[0] = p] EXCEPT !.rehashidx = s]
  BY SMTT(90)
<1>7. [c EXCEPT !.ht = Pair(p, q), !.rehashidx = s]
         = [[c EXCEPT !.ht = Pair(p, q)] EXCEPT !.rehashidx = s]
  BY SMTT(90)
<1>8. [c EXCEPT !.ht[1] = q, !.rehashidx = s] = [[c EXCEPT !.ht[1] = q] EXCEPT !.rehashidx = s]
  BY SMTT(90)
<1>9. /\ WriteFirst(c, p) = Dict(Pair(p, b), r, n)
      /\ WriteSecond(c, q) = Dict(Pair(a, q), r, n)
  BY ZenonT(60), <1>1 DEF WriteFirst, WriteSecond, e
<1>10. WriteMove(c, p, q, s) = Dict(Pair(p, q), s, n)
  BY ZenonT(60), <1>1, <1>2, <1>4, <1>6 DEF WriteMove
<1>11. WriteSwitch(c, Pair(p, q), s) = Dict(Pair(p, q), s, n)
  BY ZenonT(60), <1>4, <1>5, <1>7 DEF WriteSwitch
<1>12. WriteStart(c, q, s) = Dict(Pair(a, q), s, n)
  BY ZenonT(60), <1>1, <1>3, <1>8 DEF WriteStart
<1> QED BY ZenonT(60), <1>0, <1>9, <1>10, <1>11, <1>12 DEF a, b, r, n

(* What a call that moves entries about may change: nothing that the       *)
(* caller sees.                                                            *)
Keeps(d, e) == DictSound(e) /\ Contents(e) = Contents(d) /\ e.iterators = d.iterators

LEMMA PairKeeps ==
  ASSUME NEW d, DictSound(d), NEW p, NEW q, NEW s, PairSound(p, q, s),
         Elements(p) \cup Elements(q) = Elements(d.ht[0]) \cup Elements(d.ht[1])
  PROVE  Keeps(d, Dict(Pair(p, q), s, d.iterators))
<1>1. Dict(Pair(p, q), s, d.iterators).iterators = d.iterators
  BY DEF Dict
<1>2. /\ DictSound(Dict(Pair(p, q), s, d.iterators))
      /\ Contents(Dict(Pair(p, q), s, d.iterators)) = Elements(p) \cup Elements(q)
  BY SMTT(90), PairIsSound
<1>3. Contents(d) = Elements(d.ht[0]) \cup Elements(d.ht[1])
  BY ZenonT(60) DEF Contents
<1> QED BY ZenonT(60), <1>1, <1>2, <1>3 DEF Keeps

LEMMA RehashBucketKeeps ==
  ASSUME TableAssumption, NEW d, DictSound(d), IsRehashing(d)
  PROVE  Keeps(d, RehashBucket(d))
<1> DEFINE a == d.ht[0]
           b == d.ht[1]
           r == d.rehashidx
           n == d.iterators
<1>1. PairSound(a, b, r) /\ IsDict(d) /\ r # -1
  BY ZenonT(60), SoundIsPair DEF IsRehashing
<1>2. CASE a.used = 0
  <2>1. RehashBucket(d) = WriteSwitch(d, Pair(b, NoTable), -1)
    BY ZenonT(60), <1>2 DEF RehashBucket, Pair, WriteSwitch
  <2>2. RehashBucket(d) = Dict(Pair(b, NoTable), -1, n)
    <3> QED BY ZenonT(60), <1>1, <2>1, PairUpdates
  <2>3. TableSound(NoTable) /\ Elements(NoTable) = {} /\ NoTable.size = 0
    BY ZenonT(60), BucketsSound DEF NoTable
  <2>4. TableSound(a) /\ TableSound(b)
    BY ZenonT(60), <1>1 DEF PairSound
  <2>5. Elements(a) = {}
    BY ZenonT(60), <1>2, <2>4, FS_EmptySet DEF TableSound
  <2>6. PairSound(b, NoTable, -1)
    BY ZenonT(60), <2>3, <2>4 DEF PairSound
  <2>7. Elements(b) \cup Elements(NoTable) = Elements(a) \cup Elements(b)
    BY ZenonT(60), <2>3, <2>5
  <2> QED BY ZenonT(60), <2>2, <2>6, <2>7, PairKeeps
<1>3. CASE a.used # 0
  <2> DEFINE i == Min({j \in r..a.size-1 : a.table[j] # <<>>})
             p == EmptyBucket(a, i)
             q == PushChain(b, a.table[i])
  <2>1. RehashBucket(d) = WriteMove(d, p, q, i + 1)
    BY ZenonT(60), <1>3 DEF RehashBucket, WriteMove
  <2>2. RehashBucket(d) = Dict(Pair(p, q), i + 1, n)
    <3> HIDE DEF i, p, q
    <3> QED BY ZenonT(60), <1>1, <2>1, PairUpdates
  <2>3. i \in r..a.size-1 /\ EmptyUpTo(a, r, i)
    <3>1. i = Min({j \in r..a.size-1 : a.table[j] # <<>>})
      BY ZenonT(60)
    <3> HIDE DEF a, b, r, i
    <3> QED BY ZenonT(60), <1>1, <1>3, <3>1, BucketFound
  <2>4. PairSound(p, q, i + 1) /\ Elements(p) \cup Elements(q) = Elements(a) \cup Elements(b)
    <3> HIDE DEF a, b, r, i
    <3> QED BY ZenonT(60), <1>1, <2>3, BucketMoved
  <2> HIDE DEF i, p, q
  <2> QED BY ZenonT(60), <2>2, <2>4, PairKeeps
<1> QED BY ZenonT(60), <1>2, <1>3

(* f[i] is the dictionary after i rounds of dictRehash.                    *)
RehashedBy(f, d, n) ==
    /\ f[0] = d
    /\ \A i \in 1..n :
          f[i] = IF IsRehashing(f[i - 1]) THEN RehashBucket(f[i - 1]) ELSE f[i - 1]
    /\ dictRehash(d, n) = f[n]

(* The recursive function of dictRehash exists.                            *)
LEMMA RehashUnfold ==
  ASSUME NEW d, NEW N \in Nat
  PROVE  \E f : RehashedBy(f, d, N)
<1> DEFINE Round1(e) == IF IsRehashing(e) THEN RehashBucket(e) ELSE e
           Fix(f, n) == f = [i \in 0..n |-> IF i = 0 THEN d ELSE Round1(f[i - 1])]
           T == {n \in 0..N : ~ \E f : Fix(f, n)}
<1>0. T \in SUBSET Nat /\ \A n : n \in T <=> n \in 0..N /\ ~ \E f : Fix(f, n)
  OBVIOUS
<1>3. ASSUME \E f : Fix(f, N) PROVE \E f : Fix(f, N) /\ dictRehash(d, N) = f[N]
  BY ZenonT(60), <1>3 DEF dictRehash
<1>8. \A e : Round1(e) = IF IsRehashing(e) THEN RehashBucket(e) ELSE e
  OBVIOUS
<1> HIDE DEF Round1
<1>1. T = {}
  <2>1. SUFFICES ASSUME T # {} PROVE FALSE
    OBVIOUS
  <2> HIDE DEF T
  <2>2. PICK n \in T : \A y \in T : n <= y
    BY ZenonT(60), <2>1, <1>0, NatLeast
  <2>3. CASE n = 0
    <3>1. Fix([i \in 0..0 |-> d], 0)
      OBVIOUS
    <3> QED BY ZenonT(60), <3>1, <2>3, <2>2, <1>0
  <2>4. CASE n # 0
    <3>0. n \in 1..N
      BY SMTT(30), <2>4, <2>2, <1>0
    <3>1. n - 1 \in 0..N /\ n - 1 \notin T
      <4> HIDE DEF Fix
      <4> QED BY SMTT(30), <2>2, <3>0, <1>0
    <3>2. PICK f : Fix(f, n - 1)
      <4> HIDE DEF Fix
      <4> QED BY SMTT(30), <3>1, <1>0
    <3> DEFINE g == [i \in 0..n |-> IF i = n THEN Round1(f[n - 1]) ELSE f[i]]
    <3>3. Fix(g, n)
      BY SMTT(30), <3>2, <3>0, <1>0
    <3> HIDE DEF Fix
    <3> QED BY SMTT(30), <3>3, <2>2, <1>0
  <2> QED BY <2>3, <2>4
<1>2. \E f : Fix(f, N)
  <2> HIDE DEF Fix, T
  <2> QED BY <1>1, <1>0
<1>9. PICK f : Fix(f, N) /\ dictRehash(d, N) = f[N]
  BY ZenonT(60), <1>2, <1>3
<1>4. ASSUME NEW k \in 0..N
      PROVE  f[k] = IF k = 0 THEN d ELSE Round1(f[k - 1])
  <2> DEFINE F(j) == IF j = 0 THEN d ELSE Round1(f[j - 1])
  <2>1. f = [j \in 0..N |-> F(j)]
    BY <1>9
  <2> HIDE DEF F
  <2>2. f[k] = F(k)
    BY <2>1
  <2> QED BY <2>2 DEF F
<1>5. f[0] = d
  BY <1>4
<1>6. \A k \in 1..N : f[k] = Round1(f[k - 1])
  <2> TAKE k \in 1..N
  <2>1. k \in 0..N /\ k # 0
    OBVIOUS
  <2> HIDE DEF Fix
  <2> QED BY <2>1, <1>4
<1>7. RehashedBy(f, d, N)
  BY ZenonT(60), <1>9, <1>5, <1>6, <1>8 DEF RehashedBy
<1> QED BY <1>7

LEMMA RehashKeeps ==
  ASSUME TableAssumption, NEW d, DictSound(d), NEW n \in Nat
  PROVE  Keeps(d, dictRehash(d, n))
<1>1. PICK f : RehashedBy(f, d, n)
  BY ZenonT(60), RehashUnfold
<1> DEFINE T == {i \in 0..n : ~Keeps(d, f[i])}
<1>2. Keeps(d, f[0])
  BY ZenonT(60), <1>1 DEF Keeps, RehashedBy
<1>3. ASSUME NEW i \in 1..n, Keeps(d, f[i - 1]) PROVE Keeps(d, f[i])
  <2>1. f[i] = IF IsRehashing(f[i - 1]) THEN RehashBucket(f[i - 1]) ELSE f[i - 1]
    BY ZenonT(60), <1>1 DEF RehashedBy
  <2> DEFINE e == f[i - 1]
  <2> HIDE DEF e
  <2>2. IsRehashing(e) => Keeps(e, RehashBucket(e))
    BY ZenonT(60), <1>3, RehashBucketKeeps DEF Keeps, e
  <2>3. IsRehashing(e) => Keeps(d, RehashBucket(e))
    BY ZenonT(60), <1>3, <2>2 DEF Keeps, e
  <2> QED BY ZenonT(60), <1>3, <2>1, <2>3 DEF e
<1>4. T = {}
  <2>1. SUFFICES ASSUME T # {} PROVE FALSE
    OBVIOUS
  <2>2. T \in SUBSET Nat /\ \A i : i \in T <=> i \in 0..n /\ ~Keeps(d, f[i])
    OBVIOUS
  <2> HIDE DEF T
  <2>3. PICK i \in T : \A y \in T : i <= y
    BY ZenonT(60), <2>1, <2>2, NatLeast
  <2>4. i # 0
    BY ZenonT(60), <1>2, <2>2, <2>3
  <2>5. i \in 1..n /\ i - 1 \in 0..n /\ ~(i <= i - 1)
    BY SMTT(90), <2>2, <2>3, <2>4
  <2>6. Keeps(d, f[i - 1])
    BY ZenonT(60), <2>2, <2>3, <2>5
  <2> QED BY ZenonT(60), <1>3, <2>2, <2>3, <2>5, <2>6
<1>5. Keeps(d, f[n])
  BY SMTT(90), <1>4
<1> QED BY ZenonT(60), <1>1, <1>5 DEF RehashedBy

LEMMA StepKeeps ==
  ASSUME TableAssumption, NEW d, DictSound(d)
  PROVE  Keeps(d, _dictRehashStep(d)) /\ Keeps(d, Stepped(d))
<1>1. Keeps(d, dictRehash(d, 1)) /\ Keeps(d, d)
  BY ZenonT(60), RehashKeeps DEF Keeps
<1> QED BY ZenonT(60), <1>1 DEF _dictRehashStep, Stepped

----------------------------------------------------------------------------
(* f[i] is the initial size doubled i times.                               *)
DoubledBy(f, n) ==
    /\ f[0] = DICT_HT_INITIAL_SIZE
    /\ \A i \in 1..n : f[i] = 2 * f[i - 1]
    /\ _dictNextPower(n) = f[Min({i \in 0..n : f[i] >= n})]

LEMMA DoubledUnfold ==
  ASSUME NEW N \in Nat
  PROVE  \E f : DoubledBy(f, N)
<1> DEFINE D == DICT_HT_INITIAL_SIZE
           Fix(f, n) == f = [i \in 0..n |-> IF i = 0 THEN D ELSE 2 * f[i - 1]]
           T == {n \in 0..N : ~ \E f : Fix(f, n)}
<1>0. T \in SUBSET Nat /\ \A n : n \in T <=> n \in 0..N /\ ~ \E f : Fix(f, n)
  OBVIOUS
<1>3. ASSUME \E f : Fix(f, N)
      PROVE  \E f : Fix(f, N) /\ _dictNextPower(N) = f[Min({i \in 0..N : f[i] >= N})]
  BY ZenonT(60), <1>3 DEF _dictNextPower
<1>1. T = {}
  <2>1. SUFFICES ASSUME T # {} PROVE FALSE
    OBVIOUS
  <2> HIDE DEF T
  <2>2. PICK n \in T : \A y \in T : n <= y
    BY ZenonT(60), <2>1, <1>0, NatLeast
  <2>3. CASE n = 0
    <3>1. Fix([i \in 0..0 |-> D], 0)
      OBVIOUS
    <3> QED BY ZenonT(60), <3>1, <2>3, <2>2, <1>0
  <2>4. CASE n # 0
    <3>0. n \in 1..N
      BY SMTT(90), <2>4, <2>2, <1>0
    <3>1. n - 1 \in 0..N /\ n - 1 \notin T
      <4> HIDE DEF Fix
      <4> QED BY <2>2, <3>0, <1>0
    <3>2. PICK f : Fix(f, n - 1)
      <4> HIDE DEF Fix
      <4> QED BY <3>1, <1>0
    <3> DEFINE g == [i \in 0..n |-> IF i = n THEN 2 * f[n - 1] ELSE f[i]]
    <3>3. Fix(g, n)
      BY SMTT(90), <3>2, <3>0, <1>0
    <3> HIDE DEF Fix
    <3> QED BY SMTT(30), <3>3, <2>2, <1>0
  <2> QED BY <2>3, <2>4
<1>2. \E f : Fix(f, N)
  <2> HIDE DEF Fix, T
  <2> QED BY <1>1, <1>0
<1>9. PICK f : Fix(f, N) /\ _dictNextPower(N) = f[Min({i \in 0..N : f[i] >= N})]
  BY ZenonT(60), <1>2, <1>3
<1>4. ASSUME NEW k \in 0..N
      PROVE  f[k] = IF k = 0 THEN D ELSE 2 * f[k - 1]
  <2> DEFINE F(j) == IF j = 0 THEN D ELSE 2 * f[j - 1]
  <2>1. f = [j \in 0..N |-> F(j)]
    BY ZenonT(60), <1>9
  <2> HIDE DEF F
  <2>2. f[k] = F(k)
    BY <2>1
  <2> QED BY <2>2 DEF F
<1>5. f[0] = D
  BY <1>4
<1>6. \A k \in 1..N : f[k] = 2 * f[k - 1]
  <2> TAKE k \in 1..N
  <2>1. k \in 0..N /\ k # 0
    OBVIOUS
  <2> HIDE DEF Fix
  <2> QED BY <2>1, <1>4
<1>7. DoubledBy(f, N)
  BY ZenonT(60), <1>9, <1>5, <1>6 DEF DoubledBy
<1> QED BY <1>7

(* The size that _dictNextPower picks exists and is large enough.          *)
LEMMA NextPower ==
  ASSUME TableAssumption, NEW n \in Nat
  PROVE  _dictNextPower(n) \in Nat \ {0} /\ _dictNextPower(n) >= n
<1>1. PICK f : DoubledBy(f, n)
  BY ZenonT(60), DoubledUnfold
<1> DEFINE Good(i) == f[i] \in Nat /\ f[i] > i
           T == {i \in 0..n : ~Good(i)}
           S == {i \in 0..n : f[i] >= n}
<1>2. Good(0)
  BY <1>1 DEF DoubledBy, TableAssumption
<1>3. \A i \in 1..n : Good(i - 1) => Good(i)
  <2> TAKE i \in 1..n
  <2>1. f[i] = 2 * f[i - 1]
    BY ZenonT(60), <1>1 DEF DoubledBy
  <2> QED BY SMTT(90), <2>1
<1>4. T = {}
  <2>1. SUFFICES ASSUME T # {} PROVE FALSE
    OBVIOUS
  <2> HIDE DEF Good
  <2>2. T \in SUBSET Nat /\ \A i : i \in T <=> i \in 0..n /\ ~Good(i)
    OBVIOUS
  <2> HIDE DEF T
  <2>3. PICK i \in T : \A y \in T : i <= y
    BY ZenonT(60), <2>1, <2>2, NatLeast
  <2>4. i # 0
    BY ZenonT(60), <1>2, <2>2, <2>3
  <2>5. i \in 1..n /\ i - 1 \in 0..n /\ ~(i <= i - 1)
    BY SMTT(90), <2>2, <2>3, <2>4
  <2> QED BY ZenonT(60), <1>3, <2>2, <2>3, <2>5
<1>5. \A i \in 0..n : Good(i)
  <2> HIDE DEF Good
  <2> QED BY SMTT(90), <1>4
<1>6. S \in SUBSET Nat /\ n \in S
  BY SMTT(90), <1>5
<1>7. Min(S) \in S
  <2> HIDE DEF S
  <2> QED BY ZenonT(60), <1>6, NatLeast
<1>8. _dictNextPower(n) = f[Min(S)]
  BY ZenonT(60), <1>1 DEF DoubledBy
<1> DEFINE m == Min(S)
<1>9. m \in 0..n /\ f[m] >= n /\ Good(m)
  <2> HIDE DEF m, Good
  <2>1. m \in S
    BY ZenonT(60), <1>7 DEF m
  <2> QED BY ZenonT(60), <1>5, <2>1
<1> HIDE DEF m
<1> QED BY SMTT(90), <1>8, <1>9 DEF m

(* A table of no buckets has no entries.                                   *)
LEMMA NoBuckets ==
  ASSUME NEW t, TableSound(t), t.size = 0
  PROVE  Elements(t) = {}
<1>1. ASSUME NEW e \in Elements(t) PROVE FALSE
  <2>0. InTable(t, e)
    BY ZenonT(60), <1>1, ElementChain
  <2>1. \E b \in 0..t.size-1 : TRUE
    BY ZenonT(60), <2>0 DEF InTable
  <2> QED BY SMTT(90), <2>1
<1> QED BY ZenonT(60), <1>1

LEMMA ExpandKeeps ==
  ASSUME TableAssumption, NEW d, DictSound(d), NEW size \in Nat
  PROVE  Keeps(d, dictExpand(d, size)) /\ (d.ht[0].used <= size => dictExpand(d, size).ht[0].size # 0)
<1> DEFINE a == d.ht[0]
           b == d.ht[1]
           r == d.rehashidx
           n == Buckets(_dictNextPower(size))
           e == dictExpand(d, size)
<1>1. PairSound(a, b, r) /\ IsDict(d) /\ TableSound(a) /\ TableSound(b)
  BY ZenonT(60), SoundIsPair DEF PairSound
<1>2. TableSound(n) /\ Elements(n) = {} /\ n.size \in Nat /\ n.size > 0
  <2> DEFINE m == _dictNextPower(size)
  <2>1. m \in Nat \ {0}
    BY ZenonT(60), NextPower
  <2> HIDE DEF m
  <2>2. m \in Nat /\ m > 0
    BY <2>1
  <2>3. TableSound(Buckets(m)) /\ Elements(Buckets(m)) = {} /\ Buckets(m).size = m
    BY ZenonT(60), <2>2, BucketsSound
  <2> QED BY ZenonT(60), <2>2, <2>3 DEF m
<1>3. a.size \in Nat /\ a.used \in Nat
  BY <1>1 DEF TableSound, TableType
<1>4. CASE IsRehashing(d)
  <2>1. e = d
    BY ZenonT(60), <1>4 DEF dictExpand
  <2>2. a.size > 0
    BY ZenonT(60), <1>1, <1>4 DEF PairSound, IsRehashing
  <2>3. a.size # 0
    BY SMTT(90), <2>2, <1>3
  <2> QED BY ZenonT(60), <2>1, <2>3 DEF Keeps
<1>5. CASE ~IsRehashing(d) /\ a.used > size
  <2>1. e = d
    BY ZenonT(60), <1>5 DEF dictExpand
  <2>2. ~(a.used <= size)
    BY SMTT(90), <1>3, <1>5
  <2> QED BY ZenonT(60), <2>1, <2>2 DEF Keeps
<1>6. CASE ~IsRehashing(d) /\ ~(a.used > size) /\ a.size = 0
  <2>1. e = WriteFirst(d, n)
    BY ZenonT(60), <1>6 DEF dictExpand, WriteFirst
  <2> HIDE DEF n
  <2>2. e = Dict(Pair(n, b), r, d.iterators)
    BY ZenonT(60), <1>1, <2>1, PairUpdates
  <2>3. r = -1 /\ b.size = 0
    BY ZenonT(60), <1>1, <1>6 DEF PairSound, IsRehashing
  <2>4. Elements(a) = {} /\ Elements(b) = {}
    BY ZenonT(60), <1>1, <1>6, <2>3, NoBuckets
  <2>5. PairSound(n, b, r)
    BY ZenonT(60), <1>1, <1>2, <2>3 DEF PairSound
  <2>6. Elements(n) \cup Elements(b) = Elements(a) \cup Elements(b)
    BY ZenonT(60), <1>2, <2>4
  <2>7. Keeps(d, e)
    BY ZenonT(60), <2>2, <2>5, <2>6, PairKeeps
  <2>8. e.ht[0] = n
    BY SMTT(90), <2>2 DEF Dict, Pair
  <2>9. n.size # 0
    BY SMTT(90), <1>2
  <2> QED BY ZenonT(60), <2>7, <2>8, <2>9
<1>7. CASE ~IsRehashing(d) /\ ~(a.used > size) /\ a.size # 0
  <2>1. e = WriteStart(d, n, 0)
    BY ZenonT(60), <1>7 DEF dictExpand, WriteStart
  <2> HIDE DEF n
  <2>2. e = Dict(Pair(a, n), 0, d.iterators)
    BY ZenonT(60), <1>1, <2>1, PairUpdates
  <2>3. r = -1 /\ b.size = 0
    BY ZenonT(60), <1>1, <1>7 DEF PairSound, IsRehashing
  <2>4. Elements(b) = {}
    BY ZenonT(60), <1>1, <2>3, NoBuckets
  <2>0. 0 \in 0..a.size /\ a.size > 0 /\ 0 # -1 /\ 0..0-1 = {}
    BY SMTT(90), <1>3, <1>7
  <2>5. PairSound(a, n, 0)
    BY ZenonT(60), <1>1, <1>2, <2>0 DEF PairSound
  <2>6. Elements(a) \cup Elements(n) = Elements(a) \cup Elements(b)
    BY ZenonT(60), <1>2, <2>4
  <2>7. Keeps(d, e)
    BY ZenonT(60), <2>2, <2>5, <2>6, PairKeeps
  <2>8. e.ht[0] = a
    BY SMTT(90), <2>2 DEF Dict, Pair
  <2> QED BY ZenonT(60), <1>7, <2>7, <2>8
<1> QED BY ZenonT(60), <1>4, <1>5, <1>6, <1>7

LEMMA ResizeKeeps ==
  ASSUME TableAssumption, NEW d, DictSound(d)
  PROVE  Keeps(d, dictResize(d))
<1> DEFINE m == Max({d.ht[0].used, DICT_HT_INITIAL_SIZE})
<1>1. d.ht[0].used \in Nat /\ DICT_HT_INITIAL_SIZE \in Nat
  BY SMTT(90) DEF DictSound, TableSound, TableType, TableAssumption
<1>2. m \in Nat
  BY SMTT(90), <1>1 DEF Max
<1> HIDE DEF m
<1>3. Keeps(d, d) /\ Keeps(d, dictExpand(d, m))
  BY ZenonT(60), <1>2, ExpandKeeps DEF Keeps
<1> QED BY ZenonT(60), <1>3 DEF dictResize, m

(* dictAddRaw leaves room for a new entry.                                 *)
LEMMA ExpandIfNeededKeeps ==
  ASSUME TableAssumption, NEW d, DictSound(d)
  PROVE  Keeps(d, _dictExpandIfNeeded(d)) /\ _dictExpandIfNeeded(d).ht[0].size # 0
<1> DEFINE a == d.ht[0]
           D == DICT_HT_INITIAL_SIZE
           e == _dictExpandIfNeeded(d)
<1>1. PairSound(a, d.ht[1], d.rehashidx) /\ TableSound(a) /\ Keeps(d, d)
  BY ZenonT(60), SoundIsPair DEF PairSound, Keeps
<1>2. a.size \in Nat /\ a.used \in Nat /\ a.used = Cardinality(Elements(a)) /\ D \in Nat
  BY SMTT(90), <1>1 DEF TableSound, TableType, TableAssumption
<1>3. CASE IsRehashing(d)
  <2>1. e = d
    BY ZenonT(60), <1>3 DEF _dictExpandIfNeeded
  <2>2. a.size > 0
    BY ZenonT(60), <1>1, <1>3 DEF PairSound, IsRehashing
  <2>3. a.size # 0
    BY SMTT(90), <2>2, <1>2
  <2> QED BY ZenonT(60), <1>1, <2>1, <2>3
<1>4. CASE ~IsRehashing(d) /\ a.size = 0
  <2>1. e = dictExpand(d, D)
    BY ZenonT(60), <1>4 DEF _dictExpandIfNeeded
  <2>2. a.used = 0
    BY ZenonT(60), <1>1, <1>2, <1>4, NoBuckets, FS_EmptySet
  <2>3. a.used <= D
    BY SMTT(90), <1>2, <2>2
  <2> HIDE DEF D
  <2>4. Keeps(d, dictExpand(d, D)) /\ dictExpand(d, D).ht[0].size # 0
    BY ZenonT(60), <1>2, <2>3, ExpandKeeps
  <2> QED BY ZenonT(60), <2>1, <2>4
<1>5. CASE ~IsRehashing(d) /\ a.size # 0 /\ e = d
  BY ZenonT(60), <1>1, <1>5
<1>6. CASE ~IsRehashing(d) /\ a.size # 0 /\ e = dictExpand(d, a.used * 2)
  <2> DEFINE m == a.used * 2
  <2>1. m \in Nat /\ a.used <= m
    BY SMTT(90), <1>2
  <2> HIDE DEF m
  <2>2. Keeps(d, dictExpand(d, m)) /\ dictExpand(d, m).ht[0].size # 0
    BY ZenonT(60), <2>1, ExpandKeeps
  <2> QED BY ZenonT(60), <1>6, <2>2 DEF m
<1>7. IsRehashing(d) \/ a.size = 0 \/ e = d \/ e = dictExpand(d, a.used * 2)
  BY ZenonT(60) DEF _dictExpandIfNeeded
<1> QED BY ZenonT(60), <1>3, <1>4, <1>5, <1>6, <1>7

----------------------------------------------------------------------------
(* The chain that a search for a key walks in one table has every entry    *)
(* of that key there is in the table.                                      *)
HasKey(E, k) == \E e \in E : e.key = k

LEMMA ChainOfKey ==
  ASSUME TableAssumption, NEW d, NEW x \in 0..1, TableSound(d.ht[x]), NEW k \in Key
  PROVE  /\ ChainOf(d, x, k) \in Seq(Entry)
         /\ Range(ChainOf(d, x, k)) \subseteq Elements(d.ht[x])
         /\ k \in KeysOf(ChainOf(d, x, k)) <=> HasKey(Elements(d.ht[x]), k)
<1> DEFINE t == d.ht[x]
           c == ChainOf(d, x, k)
           s == Slot(t, k)
<1>0. t.size \in Nat /\ t.table \in [0..t.size-1 -> Seq(Entry)]
  BY SMTT(90) DEF TableSound, TableType
<1>1. CASE t.size = 0
  <2>1. c = <<>> /\ KeysOf(c) = {} /\ Range(c) = {} /\ c \in Seq(Entry)
    BY SMTT(90), <1>1 DEF ChainOf, KeysOf, Range
  <2>2. Elements(t) = {}
    BY ZenonT(60), <1>1, NoBuckets
  <2> QED BY ZenonT(60), <2>1, <2>2 DEF HasKey
<1>2. CASE t.size # 0
  <2>1. s \in 0..t.size-1
    <3>1. t.size \in Nat \ {0}
      BY SMTT(90), <1>0, <1>2
    <3> HIDE DEF t
    <3> QED BY ZenonT(60), <3>1, SlotRange DEF s
  <2>2. c = t.table[s]
    BY ZenonT(60), <1>2 DEF ChainOf
  <2> HIDE DEF c, s
  <2>3. c \in Seq(Entry) /\ Len(c) \in Nat /\ DOMAIN c = 1..Len(c)
    <3>1. c \in Seq(Entry)
      BY SMTT(90), <1>0, <2>1, <2>2
    <3> QED BY ZenonT(60), <3>1, LenProperties
  <2>4. \A e : e \in Elements(t) <=> InTable(t, e)
    BY ZenonT(60), <1>0, ElementsOf
  <2>5. ASSUME NEW j \in 1..Len(c) PROVE c[j] \in Elements(t)
    BY ZenonT(60), <2>1, <2>2, <2>4, <2>5 DEF InTable
  <2>6. ASSUME NEW e \in Elements(t), e.key = k PROVE \E j \in 1..Len(c) : c[j] = e
    <3>0. PICK b \in 0..t.size-1 : \E j \in 1..Len(t.table[b]) : t.table[b][j] = e
      BY ZenonT(60), <2>4, <2>6 DEF InTable
    <3>1. PICK j \in 1..Len(t.table[b]) : t.table[b][j] = e
      BY ZenonT(60), <3>0
    <3>2. Slot(t, k) = b
      BY ZenonT(60), <2>6, <3>1 DEF TableSound, ChainSound
    <3> QED BY ZenonT(60), <2>2, <3>1, <3>2 DEF s
  <2>7. Range(c) \subseteq Elements(t)
    BY SMTT(90), <2>3, <2>5, ChainOfEntries
  <2>8. k \in KeysOf(c) <=> \E j \in 1..Len(c) : c[j].key = k
    BY SMTT(90), <2>3 DEF KeysOf
  <2>9. k \in KeysOf(c) <=> HasKey(Elements(t), k)
    BY ZenonT(60), <2>5, <2>6, <2>8 DEF HasKey
  <2> QED BY ZenonT(60), <2>3, <2>7, <2>9 DEF c
<1> QED BY ZenonT(60), <1>1, <1>2

(* Two chains walked one after the other.                                  *)
LEMMA ChainsJoined ==
  ASSUME NEW c \in Seq(Entry), NEW e \in Seq(Entry)
  PROVE  /\ c \o e \in Seq(Entry)
         /\ Range(c \o e) = Range(c) \cup Range(e)
         /\ KeysOf(c \o e) = KeysOf(c) \cup KeysOf(e)
<1> DEFINE s == c \o e
<1>1. /\ Len(c) \in Nat /\ DOMAIN c = 1..Len(c) /\ Len(e) \in Nat /\ DOMAIN e = 1..Len(e)
  BY LenProperties
<1>2. /\ s \in Seq(Entry) /\ Len(s) = Len(c) + Len(e)
      /\ \A i \in 1..Len(c) + Len(e) : s[i] = IF i <= Len(c) THEN c[i] ELSE e[i - Len(c)]
  BY ConcatProperties
<1> HIDE DEF s
<1>3. DOMAIN s = 1..Len(c) + Len(e)
  BY <1>2, LenProperties
<1>4. \A i \in 1..Len(c) : i \in DOMAIN s /\ s[i] = c[i]
  BY SMTT(90), <1>1, <1>2, <1>3
<1>5. \A i \in 1..Len(e) : i + Len(c) \in DOMAIN s /\ s[i + Len(c)] = e[i]
  BY SMTT(90), <1>1, <1>2, <1>3
<1>6. \A i \in DOMAIN s : \/ i \in 1..Len(c) /\ s[i] = c[i]
                          \/ i - Len(c) \in 1..Len(e) /\ s[i] = e[i - Len(c)]
  BY SMTT(90), <1>1, <1>2, <1>3
<1>7. Range(s) = Range(c) \cup Range(e)
  BY SMTT(90), <1>1, <1>4, <1>5, <1>6 DEF Range
<1>8. KeysOf(s) = KeysOf(c) \cup KeysOf(e)
  BY SMTT(90), <1>1, <1>4, <1>5, <1>6 DEF KeysOf
<1> QED BY <1>2, <1>7, <1>8 DEF s

(* Where a key is in a chain.                                              *)
LEMMA PositionFound ==
  ASSUME NEW c \in Seq(Entry), NEW k, k \in KeysOf(c)
  PROVE  Position(c, k) \in 1..Len(c) /\ c[Position(c, k)].key = k
<1> DEFINE T == {i \in DOMAIN c : c[i].key = k}
<1>1. Len(c) \in Nat /\ DOMAIN c = 1..Len(c)
  BY LenProperties
<1>2. T \in SUBSET Nat /\ T # {}
  BY SMTT(90), <1>1 DEF KeysOf
<1>3. Position(c, k) = Min(T)
  BY ZenonT(60) DEF Position
<1>4. \A i : i \in T => i \in 1..Len(c) /\ c[i].key = k
  BY ZenonT(60), <1>1
<1> HIDE DEF T
<1>5. Min(T) \in T
  BY ZenonT(60), <1>2, NatLeast
<1> QED BY ZenonT(60), <1>3, <1>4, <1>5

(* A search finds exactly the keys there are, each with its entry.         *)
LEMMA SearchSound ==
  ASSUME TableAssumption, NEW d, DictSound(d), NEW k \in Key
  PROVE  /\ Holds(d, k) <=> HasKey(Contents(d), k)
         /\ Holds(d, k) => [key |-> k, val |-> Fetch(d, k)] \in Contents(d)
         /\ Holds(d, k) => Found(d, k) \in 0..1 /\ HasKey(Elements(d.ht[Found(d, k)]), k)
<1> DEFINE a == d.ht[0]
           b == d.ht[1]
           c == ChainOf(d, 0, k)
           e == IF IsRehashing(d) THEN ChainOf(d, 1, k) ELSE <<>>
           s == c \o e
<1>1. TableSound(a) /\ TableSound(b) /\ (~IsRehashing(d) => b.size = 0)
  BY ZenonT(60) DEF DictSound
<1>2. /\ c \in Seq(Entry) /\ Range(c) \subseteq Elements(a)
      /\ k \in KeysOf(c) <=> HasKey(Elements(a), k)
  <2>1. 0 \in 0..1
    OBVIOUS
  <2> QED BY ZenonT(60), <1>1, <2>1, ChainOfKey
<1>3. /\ e \in Seq(Entry) /\ Range(e) \subseteq Elements(b)
      /\ k \in KeysOf(e) <=> HasKey(Elements(b), k)
  <2>1. CASE IsRehashing(d)
    <3>1. 1 \in 0..1
      OBVIOUS
    <3>2. e = ChainOf(d, 1, k)
      BY ZenonT(60), <2>1
    <3> QED BY ZenonT(60), <1>1, <3>1, <3>2, ChainOfKey
  <2>2. CASE ~IsRehashing(d)
    <3>1. e = <<>>
      BY ZenonT(60), <2>2
    <3>2. e \in Seq(Entry) /\ Range(e) = {} /\ KeysOf(e) = {}
      <4> HIDE DEF e
      <4> QED BY SMTT(90), <3>1 DEF Range, KeysOf
    <3>3. Elements(b) = {}
      BY ZenonT(60), <1>1, <2>2, NoBuckets
    <3> HIDE DEF e
    <3> QED BY ZenonT(60), <3>2, <3>3 DEF HasKey
  <2> QED BY ZenonT(60), <2>1, <2>2
<1>4. Searched(d, k) = s
  BY ZenonT(60) DEF Searched
<1> HIDE DEF c, e
<1>5. s \in Seq(Entry) /\ Range(s) = Range(c) \cup Range(e) /\ KeysOf(s) = KeysOf(c) \cup KeysOf(e)
  BY ZenonT(60), <1>2, <1>3, ChainsJoined
<1> HIDE DEF s
<1>6. Contents(d) = Elements(a) \cup Elements(b)
  BY ZenonT(60) DEF Contents
<1> HIDE DEF a, b
<1>7. Holds(d, k) <=> HasKey(Contents(d), k)
  BY ZenonT(60), <1>2, <1>3, <1>4, <1>5, <1>6 DEF Holds, HasKey
<1>8. ASSUME Holds(d, k) PROVE [key |-> k, val |-> Fetch(d, k)] \in Contents(d)
  <2> DEFINE p == Position(s, k)
  <2>1. p \in 1..Len(s) /\ s[p].key = k
    BY ZenonT(60), <1>4, <1>5, <1>8, PositionFound DEF Holds
  <2>2. Fetch(d, k) = s[p].val
    BY ZenonT(60), <1>4 DEF Fetch
  <2> HIDE DEF p
  <2>3. s[p] \in Entry /\ s[p] \in Range(s)
    BY ZenonT(60), <1>5, <2>1, ChainOfEntries
  <2>4. \A x \in Entry : x = [key |-> x.key, val |-> x.val]
    BY SMTT(90) DEF Entry
  <2>5. s[p] = [key |-> k, val |-> Fetch(d, k)]
    BY ZenonT(60), <2>1, <2>2, <2>3, <2>4
  <2> QED BY ZenonT(60), <1>2, <1>3, <1>5, <1>6, <2>3, <2>5
<1>9. ASSUME Holds(d, k) PROVE Found(d, k) \in 0..1 /\ HasKey(Elements(d.ht[Found(d, k)]), k)
  <2>1. k \in KeysOf(c) \/ k \in KeysOf(e)
    BY ZenonT(60), <1>4, <1>5, <1>9 DEF Holds
  <2>2. 0 \in 0..1 /\ 1 \in 0..1
    OBVIOUS
  <2>3. CASE k \in KeysOf(c)
    BY ZenonT(60), <1>2, <2>2, <2>3 DEF Found, c, a
  <2>4. CASE k \notin KeysOf(c)
    BY ZenonT(60), <1>3, <2>1, <2>2, <2>4 DEF Found, c, b
  <2> QED BY ZenonT(60), <2>3, <2>4
<1> QED BY ZenonT(60), <1>7, <1>8, <1>9

----------------------------------------------------------------------------
(* What a call makes of the entries.                                       *)
Becomes(d, C, n) == DictSound(d) /\ Contents(d) = C /\ d.iterators = n

LEMMA PairBecomes ==
  ASSUME NEW p, NEW q, NEW s, NEW n, PairSound(p, q, s)
  PROVE  Becomes(Dict(Pair(p, q), s, n), Elements(p) \cup Elements(q), n)
<1>1. Dict(Pair(p, q), s, n).iterators = n
  BY DEF Dict
<1> QED BY ZenonT(60), <1>1, PairIsSound DEF Becomes

(* Replacing one of the two tables by one with the same number of buckets, *)
(* which is not the first while buckets of it are declared empty.          *)
LEMMA FirstReplaced ==
  ASSUME NEW d, DictSound(d), NEW p, TableSound(p), p.size = d.ht[0].size,
         \A e \in Elements(p), f \in Elements(d.ht[1]) : e.key # f.key,
         d.rehashidx # -1 => \A s \in 0..d.rehashidx-1 : p.table[s] = <<>>
  PROVE  Becomes(WriteFirst(d, p), Elements(p) \cup Elements(d.ht[1]), d.iterators)
<1>1. PairSound(d.ht[0], d.ht[1], d.rehashidx) /\ IsDict(d)
  BY ZenonT(60), SoundIsPair
<1>2. PairSound(p, d.ht[1], d.rehashidx)
  BY ZenonT(60), <1>1 DEF PairSound
<1>3. WriteFirst(d, p) = Dict(Pair(p, d.ht[1]), d.rehashidx, d.iterators)
  BY ZenonT(60), <1>1, PairUpdates
<1> QED BY ZenonT(60), <1>2, <1>3, PairBecomes

LEMMA SecondReplaced ==
  ASSUME NEW d, DictSound(d), NEW q, TableSound(q), q.size = d.ht[1].size,
         \A e \in Elements(d.ht[0]), f \in Elements(q) : e.key # f.key
  PROVE  Becomes(WriteSecond(d, q), Elements(d.ht[0]) \cup Elements(q), d.iterators)
<1>1. PairSound(d.ht[0], d.ht[1], d.rehashidx) /\ IsDict(d)
  BY ZenonT(60), SoundIsPair
<1>2. PairSound(d.ht[0], q, d.rehashidx)
  BY ZenonT(60), <1>1 DEF PairSound
<1>3. WriteSecond(d, q) = Dict(Pair(d.ht[0], q), d.rehashidx, d.iterators)
  BY ZenonT(60), <1>1, PairUpdates
<1> QED BY ZenonT(60), <1>2, <1>3, PairBecomes

(* dictAddRaw links a new entry, and only when its key is not there.       *)
LEMMA LinkedSound ==
  ASSUME TableAssumption, NEW d, DictSound(d), NEW k \in Key, NEW v \in Value
  PROVE  /\ Added(d, k) <=> ~HasKey(Contents(d), k)
         /\ ~Added(d, k) => Becomes(Linked(d, k, v), Contents(d), d.iterators)
         /\ Added(d, k) => Becomes(Linked(d, k, v),
                                   Contents(d) \cup {[key |-> k, val |-> v]}, d.iterators)
<1> DEFINE s == _dictExpandIfNeeded(_dictRehashStep(d))
           x == [key |-> k, val |-> v]
           a == s.ht[0]
           b == s.ht[1]
<1>1. Keeps(d, s) /\ s.ht[0].size # 0
  <2> DEFINE e == _dictRehashStep(d)
  <2>1. Keeps(d, e)
    BY ZenonT(60), StepKeeps
  <2> HIDE DEF e
  <2>2. Keeps(e, _dictExpandIfNeeded(e)) /\ _dictExpandIfNeeded(e).ht[0].size # 0
    BY ZenonT(60), <2>1, ExpandIfNeededKeeps DEF Keeps
  <2> QED BY ZenonT(60), <2>1, <2>2 DEF Keeps, e
<1>2. Added(d, k) <=> ~Holds(s, k)
  BY ZenonT(60) DEF Added
<1>3. x \in Entry /\ x.key = k
  BY DEF Entry
<1>4. Linked(d, k, v) = IF Holds(s, k) THEN s
                        ELSE IF IsRehashing(s) THEN WriteSecond(s, PushEntry(b, x))
                        ELSE WriteFirst(s, PushEntry(a, x))
  BY ZenonT(60) DEF Linked, WriteSecond, WriteFirst
<1> HIDE DEF s, x
<1>5. DictSound(s) /\ Contents(s) = Contents(d) /\ s.iterators = d.iterators
  BY ZenonT(60), <1>1 DEF Keeps
<1>6. Holds(s, k) <=> HasKey(Contents(d), k)
  BY ZenonT(60), <1>5, SearchSound
<1>7. /\ PairSound(a, b, s.rehashidx) /\ TableSound(a) /\ TableSound(b)
      /\ Contents(d) = Elements(a) \cup Elements(b)
  BY ZenonT(60), <1>5, SoundIsPair DEF PairSound, Contents
<1> HIDE DEF a, b
<1>8. ASSUME ~Holds(s, k)
      PROVE  Becomes(Linked(d, k, v), Contents(d) \cup {x}, d.iterators)
  <2>1. \A f \in Elements(a) \cup Elements(b) : f.key # x.key
    BY ZenonT(60), <1>3, <1>6, <1>7, <1>8 DEF HasKey
  <2>2. CASE IsRehashing(s)
    <3> DEFINE q == PushEntry(b, x)
    <3>1. b.size # 0
      <4>1. b.size \in Nat /\ b.size > 0
        BY ZenonT(60), <1>7, <2>2 DEF PairSound, IsRehashing, TableSound, TableType
      <4> QED BY SMTT(90), <4>1
    <3>2. TableSound(q) /\ Elements(q) = Elements(b) \cup {x} /\ q.size = b.size
      BY ZenonT(60), <1>3, <1>7, <2>1, <3>1, PushEntrySound
    <3> HIDE DEF q
    <3>3. \A e \in Elements(a), f \in Elements(q) : e.key # f.key
      BY ZenonT(60), <1>7, <2>1, <3>2 DEF PairSound
    <3>4. Becomes(WriteSecond(s, q), Elements(a) \cup Elements(q), s.iterators)
      BY ZenonT(60), <1>5, <3>2, <3>3, SecondReplaced DEF a, b
    <3>5. Elements(a) \cup Elements(q) = Contents(d) \cup {x}
      BY ZenonT(60), <1>7, <3>2
    <3>6. Linked(d, k, v) = WriteSecond(s, q)
      BY ZenonT(60), <1>4, <1>8, <2>2 DEF q
    <3> QED BY ZenonT(60), <1>5, <3>4, <3>5, <3>6
  <2>3. CASE ~IsRehashing(s)
    <3> DEFINE p == PushEntry(a, x)
    <3>1. a.size # 0
      BY ZenonT(60), <1>1 DEF a
    <3>2. TableSound(p) /\ Elements(p) = Elements(a) \cup {x} /\ p.size = a.size
      BY ZenonT(60), <1>3, <1>7, <2>1, <3>1, PushEntrySound
    <3> HIDE DEF p
    <3>3. \A e \in Elements(p), f \in Elements(b) : e.key # f.key
      BY ZenonT(60), <1>7, <2>1, <3>2 DEF PairSound
    <3>4. Becomes(WriteFirst(s, p), Elements(p) \cup Elements(b), s.iterators)
      BY ZenonT(60), <1>5, <2>3, <3>2, <3>3, FirstReplaced DEF a, b, IsRehashing
    <3>5. Elements(p) \cup Elements(b) = Contents(d) \cup {x}
      BY ZenonT(60), <1>7, <3>2
    <3>6. Linked(d, k, v) = WriteFirst(s, p)
      BY ZenonT(60), <1>4, <1>8, <2>3 DEF p
    <3> QED BY ZenonT(60), <1>5, <3>4, <3>5, <3>6
  <2> QED BY ZenonT(60), <2>2, <2>3
<1>9. ASSUME Holds(s, k) PROVE Becomes(Linked(d, k, v), Contents(d), d.iterators)
  BY ZenonT(60), <1>4, <1>5, <1>9 DEF Becomes
<1> QED BY ZenonT(60), <1>2, <1>6, <1>8, <1>9 DEF x

----------------------------------------------------------------------------
(* Where the entry of a key is in its table.                               *)
LEMMA EntryPlace ==
  ASSUME NEW t, TableSound(t), NEW k, HasKey(Elements(t), k)
  PROVE  /\ Slot(t, k) \in 0..t.size-1 /\ t.table[Slot(t, k)] \in Seq(Entry)
         /\ Position(t.table[Slot(t, k)], k) \in 1..Len(t.table[Slot(t, k)])
         /\ t.table[Slot(t, k)][Position(t.table[Slot(t, k)], k)].key = k
         /\ t.table[Slot(t, k)][Position(t.table[Slot(t, k)], k)] \in Elements(t)
<1>1. PICK e \in Elements(t) : e.key = k
  BY ZenonT(60) DEF HasKey
<1>2. PICK b \in 0..t.size-1 : \E i \in 1..Len(t.table[b]) : t.table[b][i] = e
  <2>1. InTable(t, e)
    BY ZenonT(60), ElementChain
  <2> QED BY ZenonT(60), <2>1 DEF InTable
<1> DEFINE c == t.table[b]
           p == Position(c, k)
<1>3. PICK i \in 1..Len(c) : c[i] = e
  BY ZenonT(60), <1>2
<1>4. Slot(t, k) = b
  BY ZenonT(60), <1>1, <1>2, <1>3 DEF TableSound, ChainSound
<1>5. t.table \in [0..t.size-1 -> Seq(Entry)]
  BY SMTT(90) DEF TableSound, TableType
<1>6. c \in Seq(Entry)
  BY ZenonT(60), <1>5
<1>7. \A x : x \in Elements(t) <=> InTable(t, x)
  BY ZenonT(60), <1>5, ElementsOf
<1>8. k \in KeysOf(c)
  <2> HIDE DEF c
  <2>1. DOMAIN c = 1..Len(c)
    BY ZenonT(60), <1>6, LenProperties
  <2> QED BY SMTT(90), <1>1, <1>3, <2>1 DEF KeysOf
<1>9. p \in 1..Len(c) /\ c[p].key = k
  <2> HIDE DEF c
  <2> QED BY ZenonT(60), <1>6, <1>8, PositionFound
<1> HIDE DEF p
<1>10. c[p] \in Elements(t)
  BY ZenonT(60), <1>2, <1>7, <1>9 DEF InTable
<1> QED BY ZenonT(60), <1>2, <1>4, <1>6, <1>9, <1>10 DEF p

(* The one entry of its key.                                               *)
Others(E, k) == {e \in E : e.key # k}

LEMMA OneOfKey ==
  ASSUME NEW t, TableSound(t), NEW o \in Elements(t)
  PROVE  /\ Others(Elements(t), o.key) = Elements(t) \ {o}
         /\ IsFiniteSet(Elements(t) \ {o})
         /\ Cardinality(Elements(t) \ {o}) = t.used - 1 /\ t.used - 1 \in Nat
<1> DEFINE E == Elements(t)
<1>1. IsFiniteSet(E) /\ t.used = Cardinality(E) /\ \A e \in E : e.key = o.key => e = o
  BY ZenonT(60), KeyOnce DEF TableSound
<1> HIDE DEF E
<1>2. Others(E, o.key) = E \ {o}
  BY ZenonT(60), <1>1 DEF Others
<1>3. IsFiniteSet(E \ {o}) /\ Cardinality(E \ {o}) = Cardinality(E) - 1
  BY ZenonT(60), <1>1, FS_RemoveElement DEF E
<1>4. Cardinality(E \ {o}) \in Nat
  BY ZenonT(60), <1>3, FS_CardinalityType
<1> QED BY ZenonT(60), <1>1, <1>2, <1>3, <1>4 DEF E

(* A chain with one entry written over, and one with an entry taken out.   *)
Written(c, p, x) == [c EXCEPT ![p] = x]

SameKey(x, c, p) == x.key = c[p].key

WrittenOver(n, t, b, c, p, x) ==
  /\ n \in Seq(Entry) /\ ChainSound(t, n, b)
  /\ \A f : f \in Range(n) <=> f = x \/ (f \in Range(c) /\ f # c[p])

LEMMA ChainWritten ==
  ASSUME NEW t, NEW b, NEW c \in Seq(Entry), ChainSound(t, c, b), NEW p \in 1..Len(c),
         NEW x \in Entry, SameKey(x, c, p)
  PROVE  WrittenOver(Written(c, p, x), t, b, c, p, x)
<1> DEFINE n == Written(c, p, x)
<1>1. /\ n \in Seq(Entry) /\ Len(n) = Len(c)
      /\ \A j \in 1..Len(c) : n[j] = IF j = p THEN x ELSE c[j]
  BY SMTT(90), ExceptSeq DEF Written
<1> HIDE DEF n
<1>2. \A j \in 1..Len(c) : n[j].key = c[j].key
  BY ZenonT(60), <1>1 DEF SameKey
<1>3. /\ \A j \in 1..Len(c) : Slot(t, c[j].key) = b
      /\ \A i, j \in 1..Len(c) : c[j].key = c[i].key => j = i
  BY ZenonT(60) DEF ChainSound
<1>4. ChainSound(t, n, b)
  BY ZenonT(60), <1>1, <1>2, <1>3 DEF ChainSound
<1>5. \A f : /\ f \in Range(c) <=> \E i \in 1..Len(c) : c[i] = f
             /\ f \in Range(n) <=> \E i \in 1..Len(c) : n[i] = f
  <2>1. \A f : f \in Range(c) <=> \E i \in 1..Len(c) : c[i] = f
    BY ZenonT(60), ChainOfEntries
  <2>2. \A f : f \in Range(n) <=> \E i \in 1..Len(n) : n[i] = f
    BY ZenonT(60), <1>1, ChainOfEntries
  <2> QED BY ZenonT(60), <1>1, <2>1, <2>2
<1>6. ASSUME NEW f PROVE f \in Range(n) <=> f = x \/ (f \in Range(c) /\ f # c[p])
  <2>1. ASSUME NEW i \in 1..Len(c), n[i] = f PROVE f = x \/ (f \in Range(c) /\ f # c[p])
    <3>1. CASE i = p
      BY ZenonT(60), <1>1, <2>1, <3>1
    <3>2. CASE i # p
      <4>1. n[i] = c[i] /\ c[i] # c[p]
        BY ZenonT(60), <1>1, <1>3, <3>2
      <4> QED BY ZenonT(60), <1>5, <2>1, <4>1
    <3> QED BY ZenonT(60), <3>1, <3>2
  <2>2. ASSUME f = x PROVE f \in Range(n)
    BY ZenonT(60), <1>1, <1>5, <2>2
  <2>3. ASSUME f \in Range(c), f # c[p] PROVE f \in Range(n)
    BY ZenonT(60), <1>1, <1>5, <2>3
  <2> QED BY ZenonT(60), <1>5, <2>1, <2>2, <2>3
<1>7. WrittenOver(n, t, b, c, p, x)
  BY ZenonT(60), <1>1, <1>4, <1>6 DEF WrittenOver
<1> QED BY ZenonT(60), <1>7 DEF n

LEMMA RemoveProperties ==
  ASSUME NEW c \in Seq(Entry), NEW p \in 1..Len(c)
  PROVE  /\ Unlink(c, p) \in Seq(Entry) /\ Len(Unlink(c, p)) = Len(c) - 1
         /\ \A j \in 1..Len(c)-1 : Unlink(c, p)[j] = IF j < p THEN c[j] ELSE c[j + 1]
<1> DEFINE l == SubSeq(c, 1, p - 1)
           r == SubSeq(c, p + 1, Len(c))
<1>1. Len(c) \in Nat /\ \A i \in 1..Len(c) : c[i] \in Entry
  BY SMTT(30), LenProperties, ElementOfSeq
<1>2. /\ l \in Seq(Entry) /\ Len(l) = p - 1
      /\ \A i \in 1..p-1 : l[i] = c[i]
  <2>1. \A i \in 1..p-1 : c[i] \in Entry
    BY SMTT(90), <1>1
  <2>2. 1 \in Int /\ p - 1 \in Int
    BY SMTT(90), <1>1
  <2>3. /\ l \in Seq(Entry) /\ Len(l) = IF 1 <= p - 1 THEN (p - 1) - 1 + 1 ELSE 0
        /\ \A i \in 1..(p-1)-1+1 : l[i] = c[1 + i - 1]
    BY SMTT(90), <2>1, <2>2, SubSeqProperties
  <2> HIDE DEF l
  <2> QED BY SMTT(90), <1>1, <2>3
<1>3. /\ r \in Seq(Entry) /\ Len(r) = Len(c) - p
      /\ \A i \in 1..Len(c)-p : r[i] = c[p + i]
  <2>1. \A i \in p+1..Len(c) : c[i] \in Entry
    BY SMTT(90), <1>1
  <2>2. p + 1 \in Int /\ Len(c) \in Int
    BY SMTT(90), <1>1
  <2>3. /\ r \in Seq(Entry) /\ Len(r) = IF p + 1 <= Len(c) THEN Len(c) - (p + 1) + 1 ELSE 0
        /\ \A i \in 1..Len(c)-(p+1)+1 : r[i] = c[p + 1 + i - 1]
    BY SMTT(90), <2>1, <2>2, SubSeqProperties
  <2> HIDE DEF r
  <2> QED BY SMTT(90), <1>1, <2>3
<1>4. Unlink(c, p) = l \o r
  BY ZenonT(60) DEF Unlink
<1> HIDE DEF l, r
<1>5. /\ l \o r \in Seq(Entry) /\ Len(l \o r) = Len(l) + Len(r)
      /\ \A i \in 1..Len(l)+Len(r) : (l \o r)[i] = IF i <= Len(l) THEN l[i] ELSE r[i - Len(l)]
  BY ZenonT(60), <1>2, <1>3, ConcatProperties
<1> DEFINE n == l \o r
<1> HIDE DEF n
<1>6. /\ n \in Seq(Entry) /\ Len(n) = Len(c) - 1
      /\ \A i \in 1..Len(c)-1 : n[i] = IF i <= p - 1 THEN l[i] ELSE r[i - (p - 1)]
  BY SMTT(90), <1>1, <1>2, <1>3, <1>5 DEF n
<1>7. \A i \in 1..Len(c)-1 : n[i] = IF i < p THEN c[i] ELSE c[i + 1]
  BY SMTT(90), <1>1, <1>2, <1>3, <1>6
<1> QED BY ZenonT(60), <1>4, <1>6, <1>7 DEF n

LEMMA ChainCut ==
  ASSUME NEW t, NEW b, NEW c \in Seq(Entry), ChainSound(t, c, b), NEW p \in 1..Len(c)
  PROVE  /\ Unlink(c, p) \in Seq(Entry) /\ ChainSound(t, Unlink(c, p), b)
         /\ \A f : f \in Range(Unlink(c, p)) <=> f \in Range(c) /\ f # c[p]
<1> DEFINE n == Unlink(c, p)
           old(j) == IF j < p THEN j ELSE j + 1
<1>0. Len(c) \in Nat
  BY LenProperties
<1>1. /\ n \in Seq(Entry) /\ Len(n) = Len(c) - 1
      /\ \A j \in 1..Len(c)-1 : n[j] = IF j < p THEN c[j] ELSE c[j + 1]
  BY ZenonT(60), RemoveProperties
<1> HIDE DEF n
<1>2. \A j \in 1..Len(n) : old(j) \in 1..Len(c) /\ old(j) # p /\ n[j] = c[old(j)]
  BY SMTT(90), <1>0, <1>1
<1>3. \A i, j \in 1..Len(n) : old(i) = old(j) => i = j
  BY SMTT(90), <1>0, <1>1
<1>4. \A i \in 1..Len(c) : i # p => \E j \in 1..Len(n) : old(j) = i
  <2> TAKE i \in 1..Len(c)
  <2> HAVE i # p
  <2>1. CASE i < p
    <3>1. i \in 1..Len(n) /\ old(i) = i
      BY SMTT(90), <1>0, <1>1, <2>1
    <3> QED BY ZenonT(60), <3>1
  <2>2. CASE ~(i < p)
    <3>1. i - 1 \in 1..Len(n) /\ old(i - 1) = i
      BY SMTT(90), <1>0, <1>1, <2>2
    <3> QED BY ZenonT(60), <3>1
  <2> QED BY ZenonT(60), <2>1, <2>2
<1> HIDE DEF old
<1>5. /\ \A j \in 1..Len(c) : Slot(t, c[j].key) = b
      /\ \A i, j \in 1..Len(c) : c[j].key = c[i].key => j = i
  BY ZenonT(60) DEF ChainSound
<1>6. ChainSound(t, n, b)
  <2>1. ASSUME NEW i \in 1..Len(n) PROVE Slot(t, n[i].key) = b
    BY ZenonT(60), <1>2, <1>5
  <2>2. ASSUME NEW i \in 1..Len(n), NEW j \in 1..Len(n), n[j].key = n[i].key PROVE j = i
    <3>1. c[old(j)].key = c[old(i)].key /\ old(i) \in 1..Len(c) /\ old(j) \in 1..Len(c)
      BY ZenonT(60), <1>2, <2>2
    <3> QED BY ZenonT(60), <1>3, <1>5, <3>1
  <2> QED BY ZenonT(60), <2>1, <2>2 DEF ChainSound
<1>7. \A f : f \in Range(c) <=> \E i \in 1..Len(c) : c[i] = f
  BY ZenonT(60), ChainOfEntries
<1>8. \A f : f \in Range(n) <=> \E i \in 1..Len(n) : n[i] = f
  BY ZenonT(60), <1>1, ChainOfEntries
<1>9. ASSUME NEW f PROVE f \in Range(n) <=> f \in Range(c) /\ f # c[p]
  <2>1. ASSUME NEW i \in 1..Len(n), n[i] = f PROVE f \in Range(c) /\ f # c[p]
    <3>1. old(i) \in 1..Len(c) /\ old(i) # p /\ f = c[old(i)]
      BY ZenonT(60), <1>2, <2>1
    <3> QED BY ZenonT(60), <1>5, <1>7, <3>1
  <2>2. ASSUME NEW i \in 1..Len(c), c[i] = f, f # c[p] PROVE f \in Range(n)
    <3>1. PICK j \in 1..Len(n) : old(j) = i
      BY ZenonT(60), <1>4, <2>2
    <3> QED BY ZenonT(60), <1>2, <1>8, <2>2, <3>1
  <2> QED BY ZenonT(60), <1>7, <1>8, <2>1, <2>2
<1> QED BY ZenonT(60), <1>1, <1>6, <1>9 DEF n

(* dictSetVal writes over the value of one entry.                          *)
LEMMA SetEntrySound ==
  ASSUME NEW t, TableSound(t), NEW k \in Key, NEW v \in Value, HasKey(Elements(t), k)
  PROVE  /\ TableSound(SetEntry(t, k, v)) /\ SetEntry(t, k, v).size = t.size
         /\ Elements(SetEntry(t, k, v)) = Others(Elements(t), k) \cup {[key |-> k, val |-> v]}
         /\ \A s \in 0..t.size-1 : t.table[s] = <<>> => SetEntry(t, k, v).table[s] = <<>>
<1> DEFINE b == Slot(t, k)
           c == t.table[b]
           p == Position(c, k)
           o == c[p]
           x == [key |-> k, val |-> v]
           n == Written(c, p, x)
           E == Elements(t)
           u == SetEntry(t, k, v)
<1>1. b \in 0..t.size-1 /\ c \in Seq(Entry) /\ p \in 1..Len(c) /\ o.key = k /\ o \in E
  BY ZenonT(60), EntryPlace
<1>2. x \in Entry /\ x.key = k
  BY DEF Entry
<1>3. ChainSound(t, c, b)
  BY ZenonT(60), <1>1 DEF TableSound
<1>4. t \in [size : Nat, used : Nat, table : [0..t.size-1 -> Seq(Entry)]]
  BY ZenonT(60) DEF TableSound, TableType
<1>5. u = Rebucket(t, b, n, t.used)
  <2>1. u = [t EXCEPT !.table = [t.table EXCEPT ![b] = n]]
    BY ZenonT(60) DEF SetEntry, Written
  <2> HIDE DEF u, b, n
  <2> DEFINE g == [t.table EXCEPT ![b] = n]
  <2> HIDE DEF g
  <2>2. [t EXCEPT !.used = t.used] = t
    BY SMTT(90), <1>4
  <2>3. [t EXCEPT !.used = t.used, !.table = g] = [[t EXCEPT !.used = t.used] EXCEPT !.table = g]
    BY SMTT(90)
  <2> QED BY ZenonT(60), <2>1, <2>2, <2>3 DEF Rebucket, g
<1> HIDE DEF b, c, p, o, x, u
<1>6. n \in Seq(Entry) /\ ChainSound(t, n, b) /\ \A f : f \in Range(n) <=> f = x \/ (f \in Range(c) /\ f # o)
  <2>1. SameKey(x, c, p)
    BY ZenonT(60), <1>1, <1>2 DEF SameKey, o
  <2>2. WrittenOver(n, t, b, c, p, x)
    BY ZenonT(60), <1>1, <1>2, <1>3, <2>1, ChainWritten
  <2> QED BY ZenonT(60), <2>2 DEF WrittenOver, o
<1> HIDE DEF n
<1>7. t.used \in Nat
  BY SMTT(90), <1>4
<1>8. Rebucketed(u, t, b, n, t.used)
  BY ZenonT(60), <1>1, <1>5, <1>6, <1>7, BucketReplaced
<1>9. \A f : f \in Elements(u) <=> f \in Range(n) \/ (f \in E /\ f \notin Range(c))
  BY ZenonT(60), <1>8 DEF Rebucketed, c
<1>10. Range(c) \subseteq E /\ o \in Range(c)
  <2>1. \A f : f \in Range(c) <=> \E i \in 1..Len(c) : c[i] = f
    BY ZenonT(60), <1>1, ChainOfEntries
  <2>2. t.table \in [0..t.size-1 -> Seq(Entry)]
    BY SMTT(90), <1>4
  <2>3. \A f : f \in E <=> InTable(t, f)
    BY ZenonT(60), <2>2, ElementsOf
  <2> QED BY ZenonT(60), <1>1, <2>1, <2>3 DEF InTable, c, o
<1>11. Elements(u) = (E \ {o}) \cup {x}
  BY ZenonT(60), <1>6, <1>9, <1>10
<1>12. /\ Others(E, k) = E \ {o} /\ IsFiniteSet(E \ {o})
       /\ Cardinality(E \ {o}) = t.used - 1
  BY ZenonT(60), <1>1, OneOfKey
<1>13. x \notin E \ {o}
  BY ZenonT(60), <1>2, <1>12 DEF Others
<1>14. IsFiniteSet(Elements(u)) /\ Cardinality(Elements(u)) = t.used
  <2>1. IsFiniteSet(Elements(u)) /\ Cardinality(Elements(u)) = Cardinality(E \ {o}) + 1
    <3> DEFINE F == E \ {o}
    <3>1. IsFiniteSet(F) /\ x \notin F /\ Elements(u) = F \cup {x}
      BY ZenonT(60), <1>11, <1>12, <1>13
    <3> HIDE DEF F
    <3>2. /\ IsFiniteSet(F \cup {x})
          /\ Cardinality(F \cup {x}) = IF x \in F THEN Cardinality(F) ELSE Cardinality(F) + 1
      BY ZenonT(60), <3>1, FS_AddElement
    <3> QED BY ZenonT(60), <3>1, <3>2 DEF F
  <2> QED BY SMTT(90), <1>7, <1>12, <2>1
<1>15. TableSound(u) /\ u.size = t.size /\ u.table = [t.table EXCEPT ![b] = n]
  BY ZenonT(60), <1>8, <1>14 DEF Rebucketed
<1>16. ASSUME NEW s \in 0..t.size-1, t.table[s] = <<>> PROVE u.table[s] = <<>>
  <2>1. s # b
    <3>1. c # <<>>
      BY SMTT(90), <1>1
    <3> QED BY ZenonT(60), <1>16, <3>1 DEF c
  <2> QED BY SMTT(90), <1>4, <1>15, <1>16, <2>1
<1> QED BY ZenonT(60), <1>11, <1>12, <1>15, <1>16 DEF u, x

(* dictGenericDelete takes out one entry.                                  *)
LEMMA UnlinkEntrySound ==
  ASSUME NEW t, TableSound(t), NEW k \in Key, HasKey(Elements(t), k)
  PROVE  /\ TableSound(UnlinkEntry(t, k)) /\ UnlinkEntry(t, k).size = t.size
         /\ Elements(UnlinkEntry(t, k)) = Others(Elements(t), k)
         /\ \A s \in 0..t.size-1 : t.table[s] = <<>> => UnlinkEntry(t, k).table[s] = <<>>
<1> DEFINE b == Slot(t, k)
           c == t.table[b]
           p == Position(c, k)
           o == c[p]
           n == Unlink(c, p)
           m == t.used - 1
           E == Elements(t)
           u == UnlinkEntry(t, k)
<1>1. b \in 0..t.size-1 /\ c \in Seq(Entry) /\ p \in 1..Len(c) /\ o.key = k /\ o \in E
  BY ZenonT(60), EntryPlace
<1>2. ChainSound(t, c, b)
  BY ZenonT(60), <1>1 DEF TableSound
<1>3. t \in [size : Nat, used : Nat, table : [0..t.size-1 -> Seq(Entry)]]
  BY ZenonT(60) DEF TableSound, TableType
<1>4. /\ Others(E, k) = E \ {o} /\ IsFiniteSet(E \ {o})
      /\ Cardinality(E \ {o}) = m /\ m \in Nat
  BY ZenonT(60), <1>1, OneOfKey
<1>5. u = Rebucket(t, b, n, m)
  BY ZenonT(60) DEF UnlinkEntry, Rebucket
<1> HIDE DEF b, c, p, o, u, m
<1>6. n \in Seq(Entry) /\ ChainSound(t, n, b) /\ \A f : f \in Range(n) <=> f \in Range(c) /\ f # o
  BY ZenonT(60), <1>1, <1>2, ChainCut DEF o
<1> HIDE DEF n
<1>7. Rebucketed(u, t, b, n, m)
  BY ZenonT(60), <1>1, <1>4, <1>5, <1>6, BucketReplaced
<1>8. \A f : f \in Elements(u) <=> f \in Range(n) \/ (f \in E /\ f \notin Range(c))
  BY ZenonT(60), <1>7 DEF Rebucketed, c
<1>9. Range(c) \subseteq E /\ o \in Range(c)
  <2>1. \A f : f \in Range(c) <=> \E i \in 1..Len(c) : c[i] = f
    BY ZenonT(60), <1>1, ChainOfEntries
  <2>2. t.table \in [0..t.size-1 -> Seq(Entry)]
    BY SMTT(90), <1>3
  <2>3. \A f : f \in E <=> InTable(t, f)
    BY ZenonT(60), <2>2, ElementsOf
  <2> QED BY ZenonT(60), <1>1, <2>1, <2>3 DEF InTable, c, o
<1>10. Elements(u) = E \ {o}
  BY ZenonT(60), <1>6, <1>8, <1>9
<1>11. TableSound(u) /\ u.size = t.size /\ u.table = [t.table EXCEPT ![b] = n]
  BY ZenonT(60), <1>4, <1>7, <1>10 DEF Rebucketed
<1>12. ASSUME NEW s \in 0..t.size-1, t.table[s] = <<>> PROVE u.table[s] = <<>>
  <2>1. s # b
    <3>1. c # <<>>
      BY SMTT(90), <1>1
    <3> QED BY ZenonT(60), <1>12, <3>1 DEF c
  <2> QED BY SMTT(90), <1>3, <1>11, <1>12, <2>1
<1> QED BY ZenonT(60), <1>4, <1>10, <1>11, <1>12 DEF u

----------------------------------------------------------------------------
(* The table in which the key is takes the change; the other one has no    *)
(* entry of the key.                                                       *)
LEMMA FoundReplaced ==
  ASSUME TableAssumption, NEW d, DictSound(d), NEW k \in Key, Holds(d, k), NEW X, NEW u,
         TableSound(u), u.size = d.ht[Found(d, k)].size,
         \A x \in X : x.key = k,
         Elements(u) = Others(Elements(d.ht[Found(d, k)]), k) \cup X,
         \A s \in 0..u.size-1 : d.ht[Found(d, k)].table[s] = <<>> => u.table[s] = <<>>
  PROVE  Becomes([d EXCEPT !.ht[Found(d, k)] = u],
                 Others(Contents(d), k) \cup X, d.iterators)
<1> DEFINE a == d.ht[0]
           b == d.ht[1]
           i == Found(d, k)
           r == d.rehashidx
           C == Others(Contents(d), k) \cup X
<1>1. PairSound(a, b, r) /\ TableSound(a) /\ TableSound(b)
  BY ZenonT(60), SoundIsPair DEF PairSound
<1>2. /\ \A e \in Elements(a), f \in Elements(b) : e.key # f.key
      /\ r # -1 => r \in 0..a.size /\ \A s \in 0..r-1 : a.table[s] = <<>>
  BY ZenonT(60), <1>1 DEF PairSound
<1>3. HasKey(Elements(d.ht[i]), k)
  BY ZenonT(60), SearchSound
<1>4. i = 0 \/ i = 1
  BY ZenonT(60) DEF Found
<1>5. Contents(d) = Elements(a) \cup Elements(b)
  BY ZenonT(60) DEF Contents
<1> HIDE DEF i
<1>6. CASE i = 0
  <2>1. [d EXCEPT !.ht[i] = u] = WriteFirst(d, u)
    BY ZenonT(60), <1>6 DEF WriteFirst
  <2>2. Elements(u) = Others(Elements(a), k) \cup X /\ u.size = a.size
    BY ZenonT(60), <1>6 DEF i
  <2>3. \A f \in Elements(b) : f.key # k
    BY ZenonT(60), <1>2, <1>3, <1>6 DEF HasKey
  <2>4. \A e \in Elements(u), f \in Elements(b) : e.key # f.key
    BY ZenonT(60), <1>2, <2>2, <2>3 DEF Others
  <2>5. r # -1 => \A s \in 0..r-1 : u.table[s] = <<>>
    <3>1. \A s \in 0..u.size-1 : a.table[s] = <<>> => u.table[s] = <<>>
      BY ZenonT(60), <1>6 DEF i
    <3>2. a.size \in Nat /\ (r # -1 => \A s \in 0..r-1 : s \in 0..a.size-1)
      <4>1. a.size \in Nat
        BY ZenonT(60), <1>1 DEF TableSound, TableType
      <4> QED BY SMTT(90), <1>2, <4>1
    <3> QED BY ZenonT(60), <1>2, <2>2, <3>1, <3>2
  <2>6. Becomes(WriteFirst(d, u), Elements(u) \cup Elements(b), d.iterators)
    BY ZenonT(60), <2>2, <2>4, <2>5, FirstReplaced
  <2>7. Elements(u) \cup Elements(b) = C
    BY ZenonT(60), <1>5, <2>2, <2>3 DEF Others
  <2> QED BY ZenonT(60), <2>1, <2>6, <2>7 DEF i
<1>7. CASE i = 1
  <2>1. [d EXCEPT !.ht[i] = u] = WriteSecond(d, u)
    BY ZenonT(60), <1>7 DEF WriteSecond
  <2>2. Elements(u) = Others(Elements(b), k) \cup X /\ u.size = b.size
    BY ZenonT(60), <1>7 DEF i
  <2>3. \A f \in Elements(a) : f.key # k
    BY ZenonT(60), <1>2, <1>3, <1>7 DEF HasKey
  <2>4. \A e \in Elements(a), f \in Elements(u) : e.key # f.key
    BY ZenonT(60), <1>2, <2>2, <2>3 DEF Others
  <2>6. Becomes(WriteSecond(d, u), Elements(a) \cup Elements(u), d.iterators)
    BY ZenonT(60), <2>2, <2>4, SecondReplaced
  <2>7. Elements(a) \cup Elements(u) = C
    BY ZenonT(60), <1>5, <2>2, <2>3 DEF Others
  <2> QED BY ZenonT(60), <2>1, <2>6, <2>7 DEF i
<1> QED BY ZenonT(60), <1>4, <1>6, <1>7

LEMMA SetValSound ==
  ASSUME TableAssumption, NEW d, DictSound(d), NEW k \in Key, NEW v \in Value, Holds(d, k)
  PROVE  Becomes(SetVal(d, k, v),
                 Others(Contents(d), k) \cup {[key |-> k, val |-> v]}, d.iterators)
<1> DEFINE t == d.ht[Found(d, k)]
           u == SetEntry(t, k, v)
           X == {[key |-> k, val |-> v]}
<1>1. TableSound(t) /\ HasKey(Elements(t), k)
  <2>1. Found(d, k) = 0 \/ Found(d, k) = 1
    BY ZenonT(60) DEF Found
  <2>2. TableSound(t)
    BY ZenonT(60), <2>1 DEF DictSound
  <2>3. HasKey(Elements(t), k)
    BY ZenonT(60), SearchSound
  <2> QED BY ZenonT(60), <2>2, <2>3
<1>2. SetVal(d, k, v) = [d EXCEPT !.ht[Found(d, k)] = u]
  BY ZenonT(60) DEF SetVal
<1>3. \A x \in X : x.key = k
  BY SMTT(90)
<1> HIDE DEF t
<1>4. /\ TableSound(u) /\ u.size = t.size /\ Elements(u) = Others(Elements(t), k) \cup X
      /\ \A s \in 0..t.size-1 : t.table[s] = <<>> => u.table[s] = <<>>
  BY ZenonT(60), <1>1, SetEntrySound
<1> HIDE DEF u, X
<1>5. Becomes([d EXCEPT !.ht[Found(d, k)] = u], Others(Contents(d), k) \cup X, d.iterators)
  <2>1. \A s \in 0..u.size-1 : t.table[s] = <<>> => u.table[s] = <<>>
    BY ZenonT(60), <1>4
  <2> QED BY ZenonT(60), <1>3, <1>4, <2>1, FoundReplaced DEF t
<1> QED BY ZenonT(60), <1>2, <1>5 DEF X

LEMMA UnlinkedSound ==
  ASSUME TableAssumption, NEW d, DictSound(d), NEW k \in Key
  PROVE  Becomes(Unlinked(d, k), Others(Contents(d), k), d.iterators)
<1>1. CASE Holds(d, k)
  <2> DEFINE t == d.ht[Found(d, k)]
             u == UnlinkEntry(t, k)
  <2>1. TableSound(t) /\ HasKey(Elements(t), k)
    <3>1. Found(d, k) = 0 \/ Found(d, k) = 1
      BY ZenonT(60) DEF Found
    <3>2. TableSound(t)
      BY ZenonT(60), <3>1 DEF DictSound
    <3>3. HasKey(Elements(t), k)
      BY ZenonT(60), <1>1, SearchSound
    <3> QED BY ZenonT(60), <3>2, <3>3
  <2>2. Unlinked(d, k) = [d EXCEPT !.ht[Found(d, k)] = u]
    BY ZenonT(60), <1>1 DEF Unlinked
  <2> HIDE DEF t
  <2>3. /\ TableSound(u) /\ u.size = t.size /\ Elements(u) = Others(Elements(t), k)
        /\ \A s \in 0..t.size-1 : t.table[s] = <<>> => u.table[s] = <<>>
    BY ZenonT(60), <2>1, UnlinkEntrySound
  <2> HIDE DEF u
  <2> DEFINE X == {}
  <2>4. /\ \A x \in X : x.key = k
        /\ Elements(u) = Others(Elements(t), k) \cup X
        /\ Others(Contents(d), k) \cup X = Others(Contents(d), k)
    BY ZenonT(60), <2>3
  <2> HIDE DEF X
  <2>5. \A s \in 0..u.size-1 : t.table[s] = <<>> => u.table[s] = <<>>
    BY ZenonT(60), <2>3
  <2>6. Becomes([d EXCEPT !.ht[Found(d, k)] = u], Others(Contents(d), k) \cup X, d.iterators)
    BY ZenonT(60), <1>1, <2>3, <2>4, <2>5, FoundReplaced DEF t
  <2> QED BY ZenonT(60), <2>2, <2>4, <2>6
<1>2. CASE ~Holds(d, k)
  <2>1. Unlinked(d, k) = d
    BY ZenonT(60), <1>2 DEF Unlinked
  <2>2. ~HasKey(Contents(d), k)
    BY ZenonT(60), <1>2, SearchSound
  <2>3. Others(Contents(d), k) = Contents(d)
    BY ZenonT(60), <2>2 DEF HasKey, Others
  <2> QED BY ZenonT(60), <2>1, <2>3 DEF Becomes
<1> QED BY ZenonT(60), <1>1, <1>2

LEMMA ReplacedSound ==
  ASSUME TableAssumption, NEW d, DictSound(d), NEW k \in Key, NEW v \in Value
  PROVE  Becomes(Replaced(d, k, v),
                 Others(Contents(d), k) \cup {[key |-> k, val |-> v]}, d.iterators)
<1> DEFINE x == [key |-> k, val |-> v]
           a == Linked(d, k, v)
           s == Stepped(a)
<1> HIDE DEF x
<1>1. CASE Added(d, k)
  <2>1. ~HasKey(Contents(d), k) /\ Becomes(a, Contents(d) \cup {x}, d.iterators)
    BY ZenonT(60), <1>1, LinkedSound DEF x
  <2>2. Others(Contents(d), k) = Contents(d)
    BY ZenonT(60), <2>1 DEF HasKey, Others
  <2>3. Replaced(d, k, v) = a
    BY ZenonT(60), <1>1 DEF Replaced
  <2> QED BY ZenonT(60), <2>1, <2>2, <2>3 DEF x
<1>2. CASE ~Added(d, k)
  <2>1. HasKey(Contents(d), k) /\ Becomes(a, Contents(d), d.iterators)
    BY ZenonT(60), <1>2, LinkedSound
  <2>2. Replaced(d, k, v) = SetVal(s, k, v)
    BY ZenonT(60), <1>2 DEF Replaced
  <2> HIDE DEF a
  <2>3. Keeps(a, s)
    BY ZenonT(60), <2>1, StepKeeps DEF Becomes
  <2> HIDE DEF s
  <2>4. DictSound(s) /\ Contents(s) = Contents(d) /\ s.iterators = d.iterators
    BY ZenonT(60), <2>1, <2>3 DEF Becomes, Keeps
  <2>5. Holds(s, k)
    BY ZenonT(60), <2>1, <2>4, SearchSound
  <2>6. Becomes(SetVal(s, k, v), Others(Contents(s), k) \cup {x}, s.iterators)
    BY ZenonT(60), <2>4, <2>5, SetValSound DEF x
  <2> QED BY ZenonT(60), <2>2, <2>4, <2>6 DEF x
<1> QED BY ZenonT(60), <1>1, <1>2
=============================================================================
