--------------------------- MODULE PrezDictProofs ---------------------------
(***************************************************************************)
(* The dictionary of dict.c is a map: the calls of PrezDict, each shown in *)
(* PrezTableProofs to keep the tables sound, follow PrezMap step by step.  *)
(***************************************************************************)
EXTENDS PrezDict, PrezTableProofs

LEMMA WithoutOthers == \A m, k : M!Without(m, k) = Others(m, k)
BY ZenonT(60) DEF M!Without, Others

----------------------------------------------------------------------------
(* The inductive invariant: the two tables are sound and hold the map.     *)
DictInv == DictSound(This) /\ Contents(This) = map

LEMMA SetInv ==
  ASSUME NEW d, NEW n, Set(d), Becomes(d, map', n)
  PROVE  DictInv'
<1>1. d = Dict(d.ht, d.rehashidx, d.iterators)
  BY ZenonT(60) DEF Becomes, DictSound
<1>2. This' = d
  BY ZenonT(60), <1>1 DEF Set, This
<1> QED BY ZenonT(60), <1>2 DEF DictInv, Becomes

(* Iterators are counted beside the tables.                                *)
LEMMA CountInv ==
  ASSUME DictInv, ht' = ht, rehashidx' = rehashidx, map' = map
  PROVE  DictInv'
<1>1. This.ht = ht /\ This.rehashidx = rehashidx
  BY SMTT(90) DEF This, Dict
<1>2. This'.ht = ht /\ This'.rehashidx = rehashidx /\ This'.iterators = iterators'
  BY SMTT(90) DEF This, Dict
<1>3. This' = Dict(This'.ht, This'.rehashidx, This'.iterators)
  BY ZenonT(60), <1>2 DEF This
<1> DEFINE d == This
           e == This'
<1>4. DictSound(d) /\ Contents(d) = map /\ d.ht = e.ht /\ d.rehashidx = e.rehashidx
  BY ZenonT(60), <1>1, <1>2 DEF DictInv
<1> HIDE DEF d, e
<1>5. DictSound(e) /\ Contents(e) = map
  BY ZenonT(60), <1>3, <1>4 DEF DictSound, Contents, IsRehashing, e
<1> QED BY ZenonT(60), <1>5 DEF DictInv, e

(* A dictionary of two empty tables.                                       *)
LEMMA EmptyBecomes == Becomes(Dict(Pair(NoTable, NoTable), -1, 0), {}, 0)
<1>1. TableSound(NoTable) /\ Elements(NoTable) = {} /\ NoTable.size = 0
  BY ZenonT(60), BucketsSound DEF NoTable
<1>2. PairSound(NoTable, NoTable, -1) /\ Elements(NoTable) \cup Elements(NoTable) = {}
  BY ZenonT(60), <1>1 DEF PairSound
<1> QED BY ZenonT(60), <1>2, PairBecomes

LEMMA NextInv ==
  ASSUME DictAssumption, DictInv, [Next]_vars
  PROVE  DictInv'
<1> DEFINE d == This
<1>0. DictSound(d) /\ Contents(d) = map /\ TableAssumption
  BY ZenonT(60) DEF DictInv, DictAssumption
<1>9. \A k \in Key : k \in M!Keys(map) <=> HasKey(map, k)
  BY ZenonT(60) DEF M!Keys, HasKey
<1>10. Keeps(d, Stepped(d)) /\ Keeps(d, dictResize(d))
  BY ZenonT(60), <1>0, StepKeeps, ResizeKeeps
<1> HIDE DEF d
<1>1. ASSUME NEW k \in Key, NEW v \in Stored[k], dictAdd(k, v) PROVE DictInv'
  <2>1. v \in Value
    BY SMTT(90) DEF DictAssumption
  <2>2. Set(Linked(d, k, v)) /\ M!Add(k, v)
    BY ZenonT(60), <1>1 DEF dictAdd, d
  <2>3. Becomes(Linked(d, k, v), map', d.iterators)
    BY ZenonT(60), <1>0, <1>9, <2>1, <2>2, LinkedSound DEF M!Add
  <2> QED BY ZenonT(60), <2>2, <2>3, SetInv
<1>2. ASSUME NEW k \in Key, NEW v \in Stored[k], dictReplace(k, v) PROVE DictInv'
  <2>1. v \in Value
    BY SMTT(90) DEF DictAssumption
  <2>2. Set(Replaced(d, k, v)) /\ M!Replace(k, v)
    BY ZenonT(60), <1>2 DEF dictReplace, d
  <2>3. Becomes(Replaced(d, k, v), map', d.iterators)
    BY ZenonT(60), <1>0, <2>1, <2>2, ReplacedSound, WithoutOthers DEF M!Replace
  <2> QED BY ZenonT(60), <2>2, <2>3, SetInv
<1>3. ASSUME NEW k \in Key, dictDelete(k) PROVE DictInv'
  <2> DEFINE s == Stepped(d)
  <2>1. Set(Unlinked(s, k)) /\ M!Delete(k)
    BY ZenonT(60), <1>3 DEF dictDelete, d
  <2>2. DictSound(s) /\ Contents(s) = map
    BY ZenonT(60), <1>0, <1>10 DEF Keeps
  <2> HIDE DEF s
  <2>3. Becomes(Unlinked(s, k), map', s.iterators)
    BY ZenonT(60), <1>0, <2>1, <2>2, UnlinkedSound, WithoutOthers DEF M!Delete
  <2> QED BY ZenonT(60), <2>1, <2>3, SetInv
<1>4. ASSUME NEW e, Keeps(d, e), Set(e), map' = map PROVE DictInv'
  <2>1. Becomes(e, map', d.iterators)
    BY ZenonT(60), <1>0, <1>4 DEF Keeps, Becomes
  <2> QED BY ZenonT(60), <1>4, <2>1, SetInv
<1>5. ASSUME NEW k \in Key, dictFind(k) PROVE DictInv'
  BY ZenonT(60), <1>4, <1>5, <1>10 DEF dictFind, d
<1>6. ASSUME dictEmpty PROVE DictInv'
  <2> DEFINE e == Dict(Pair(NoTable, NoTable), -1, 0)
  <2>1. [i \in 0..1 |-> NoTable] = Pair(NoTable, NoTable)
    BY ZenonT(60) DEF Pair
  <2>2. Set(e) /\ map' = {}
    BY ZenonT(60), <1>6, <2>1 DEF dictEmpty, M!Empty
  <2> QED BY ZenonT(60), <2>2, EmptyBecomes, SetInv
<1>7. ASSUME Resize PROVE DictInv'
  BY ZenonT(60), <1>4, <1>7, <1>10 DEF Resize, d
<1>8. ASSUME NEW n \in 1..2, dictRehashMilliseconds(n) PROVE DictInv'
  <2>1. n \in Nat
    BY SMTT(90)
  <2>2. Keeps(d, dictRehash(d, n))
    BY ZenonT(60), <1>0, <2>1, RehashKeeps
  <2> QED BY ZenonT(60), <1>4, <1>8, <2>2 DEF dictRehashMilliseconds, d
<1>11. CASE \/ \E safe \in BOOLEAN : dictGetIterator(safe)
            \/ dictNext \/ dictReleaseIterator \/ DropIterator \/ ScanStart \/ dictScan
            \/ UNCHANGED vars
  <2>1. ht' = ht /\ rehashidx' = rehashidx /\ map' = map
    BY ZenonT(60), <1>11 DEF dictGetIterator, dictNext, dictReleaseIterator, DropIterator,
                             ScanStart, dictScan, tables, vars
  <2> QED BY ZenonT(60), <2>1, CountInv
<1> QED BY ZenonT(60), <1>1, <1>2, <1>3, <1>5, <1>6, <1>7, <1>8, <1>11 DEF Next

(* What a lookup sees of tables that hold the map.                         *)
LEMMA LookupSound ==
  ASSUME DictAssumption, DictInv
  PROVE  ActsAsMap /\ TablesSound
<1> DEFINE d == Stepped(This)
<1>0. TableAssumption
  BY ZenonT(60) DEF DictAssumption
<1>1. DictSound(d) /\ Contents(d) = map
  BY ZenonT(60), <1>0, StepKeeps DEF DictInv, Keeps
<1> HIDE DEF d
<1>2. ASSUME NEW k \in Key
      PROVE  /\ Holds(d, k) <=> k \in M!Keys(map)
             /\ Holds(d, k) => [key |-> k, val |-> Fetch(d, k)] \in map
  <2>1. /\ Holds(d, k) <=> HasKey(map, k)
        /\ Holds(d, k) => [key |-> k, val |-> Fetch(d, k)] \in map
    BY ZenonT(60), <1>0, <1>1, SearchSound
  <2>2. HasKey(map, k) <=> k \in M!Keys(map)
    BY ZenonT(60) DEF M!Keys, HasKey
  <2> QED BY ZenonT(60), <2>1, <2>2
<1> QED BY ZenonT(60), <1>2 DEF ActsAsMap, TablesSound, DictInv, d

(* dict.c is a map: through adds, replaces, deletes, resizes, full and     *)
(* partial rehashes, and with iterators open, the two tables hold exactly  *)
(* the entries the calls describe, every entry is in the bucket of its     *)
(* hash, `used' counts them, and a lookup finds the last value of exactly  *)
(* the keys there are.  For any finite or infinite set of keys, any hash   *)
(* function, any initial size and any resize policy.                       *)
THEOREM DictIsMap == DictAssumption => (Spec => [](ActsAsMap /\ TablesSound))
<1> SUFFICES ASSUME DictAssumption PROVE Spec => [](ActsAsMap /\ TablesSound)
  OBVIOUS
<1>1. Init => DictInv
  <2> SUFFICES ASSUME Init PROVE DictInv
    OBVIOUS
  <2>1. [i \in 0..1 |-> NoTable] = Pair(NoTable, NoTable)
    BY ZenonT(60) DEF Pair
  <2>2. This = Dict(Pair(NoTable, NoTable), -1, 0) /\ map = {}
    BY ZenonT(60), <2>1 DEF Init, This, M!Init
  <2> QED BY ZenonT(60), <2>2, EmptyBecomes DEF DictInv, Becomes
<1>2. DictInv /\ [Next]_vars => DictInv'
  BY ZenonT(60), NextInv
<1>3. DictInv => ActsAsMap /\ TablesSound
  BY ZenonT(60), LookupSound
<1> QED BY <1>1, <1>2, <1>3, PTL DEF Spec
=============================================================================
