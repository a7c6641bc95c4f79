------------------------------ MODULE PrezDict ------------------------------
(***************************************************************************)
(* The hash table of dict.c: chained buckets, a second table into which    *)
(* entries move one bucket per call, safe and unsafe iterators, the        *)
(* stateless scan with its bit-reversed cursor.  The module shows that,    *)
(* whatever the state of a rehash, the two tables together are one map     *)
(* (PrezMap), that an iterator returns each entry once, and that a scan    *)
(* misses no entry that stays in the table while it is resized.            *)
(***************************************************************************)
EXTENDS PrezTables, SequencesExt

CONSTANTS Stored,                 \* [Key -> SUBSET Value]: the values stored under a key
          WordBits,               \* bits of the scan cursor (unsigned long)
          Null,
          MaxWalks                \* bound on the iterators and scans begun

DictAssumption == TableAssumption /\ Stored \in [Key -> SUBSET Value]

VARIABLES ht,         \* the two tables, ht[0] and ht[1]
          rehashidx,  \* the next bucket of ht[0] to move, -1 when at rest
          iterators,  \* safe iterators that hold the tables still
          it,         \* the caller's iterator and what it has returned
          scan,       \* the caller's scan: cursor, keys seen, keys owed, keys
                      \* missed once it is over, and whether a call found upper
                      \* bits of the larger table in the cursor
          taken,      \* iterators and scans begun so far
          map,        \* what the calls so far make of a map (PrezMap)
          lost        \* an iterator was dropped without being released

vars == <<ht, rehashidx, iterators, it, scan, taken, map, lost>>
tables == <<ht, rehashidx, iterators>>

This == Dict(ht, rehashidx, iterators)

(* dictGetRandomKeys: from a random bucket of each table, round the table, *)
(* until `count' entries are stored.                                       *)
Round(t, start) ==
    FlattenSeq([i \in 1..t.size |-> t.table[(start + i - 1) % t.size]])

dictGetRandomKeys(d, i, j, count) ==
    LET all == Round(d.ht[0], i) \o (IF IsRehashing(d) THEN Round(d.ht[1], j) ELSE <<>>)
    IN  SubSeq(all, 1, Min({count, dictSize(d)}))

----------------------------------------------------------------------------
(* The scan. *)

\* rev: the WordBits bits of v in the opposite order.
rev(v) ==
    LET r[i \in 0..WordBits] ==
            IF i = 0 THEN 0 ELSE 2 * r[i-1] + ((v \div 2^(i-1)) % 2)
    IN  r[WordBits]

\* Setting the bits above the smaller table's mask, then a reversed increment.
NextCursor(v, s0) ==
    rev((rev(2^WordBits - s0 + (v % s0)) + 1) % 2^WordBits)

(* The two tables of a rehash by size, and what the cursor has above the   *)
(* smaller one's mask.                                                     *)
Smaller(d) == d.ht[IF d.ht[0].size > d.ht[1].size THEN 1 ELSE 0]
Larger(d) == d.ht[IF d.ht[0].size > d.ht[1].size THEN 0 ELSE 1]
Upper(d, v) == (v % Larger(d).size) \div Smaller(d).size

(* The keys dictScan hands to the callback for cursor v: the bucket of the *)
(* smaller table and, while rehashing, the expansions of the cursor in the *)
(* larger one from the cursor's own upper bits on.                         *)
Emitted(d, v) ==
    IF ~IsRehashing(d) THEN KeysOf(d.ht[0].table[v % d.ht[0].size])
    ELSE LET small == Smaller(d)
             large == Larger(d)
         IN  KeysOf(small.table[v % small.size]) \cup
             UNION {KeysOf(large.table[h * small.size + (v % small.size)]) :
                        h \in Upper(d, v)..(large.size \div small.size) - 1}

SmallerSize(d) == IF IsRehashing(d) THEN Smaller(d).size ELSE d.ht[0].size

----------------------------------------------------------------------------
(* The iterator. *)

NoIterator == [on |-> FALSE]
NoScan == [on |-> FALSE, v |-> 0, seen |-> {}, owed |-> {}, missed |-> {}, cut |-> FALSE]
Fingerprint(d) == [i \in 0..1 |-> <<d.ht[i].size, d.ht[i].used>>]

\* The bucket positions dictNext still has in front of it.
Ahead(d, i) ==
    {p \in (0..1) \X (0..2^WordBits) :
        /\ p[2] < d.ht[p[1]].size
        /\ \/ p[1] = i.table /\ p[2] > i.index
           \/ p[1] = 1 /\ i.table = 0 /\ IsRehashing(d)
        /\ d.ht[p[1]].table[p[2]] # <<>>}
FirstOf(ps) == CHOOSE p \in ps : \A q \in ps : p[1] < q[1] \/ (p[1] = q[1] /\ p[2] <= q[2])

\* What follows `entry' in its chain: saved before the caller sees the entry.
After(chain, k) ==
    LET i == Position(chain, k)
    IN  IF i < Len(chain) THEN chain[i + 1].key ELSE Null

Returning(d, i, t, x, k) ==
    [i EXCEPT !.table = t, !.index = x, !.entry = k,
              !.next = After(d.ht[t].table[x], k),
              !.repeated = @ \cup ({k} \cap i.returned), !.returned = @ \cup {k}]

----------------------------------------------------------------------------
(* The caller's steps. *)

M == INSTANCE PrezMap

KeysIn(d) == {e.key : e \in Contents(d)}
Set(d) == ht' = d.ht /\ rehashidx' = d.rehashidx /\ iterators' = d.iterators
\* Only a safe iterator allows other calls while it is open.
MayCall == it.on => it.safe

Forget(k) ==
    /\ it' = IF it.on THEN [it EXCEPT !.owed = @ \ {k}] ELSE it
    /\ scan' = [scan EXCEPT !.owed = @ \ {k}]

dictAdd(k, v) ==
    /\ MayCall
    /\ Set(Linked(This, k, v))
    /\ M!Add(k, v)
    /\ UNCHANGED <<it, scan, taken, lost>>

dictReplace(k, v) ==
    /\ MayCall
    /\ Set(Replaced(This, k, v))
    /\ M!Replace(k, v)
    /\ UNCHANGED <<it, scan, taken, lost>>

\* The entry saved as the iterator's next one is not the caller's to delete.
dictDelete(k) ==
    LET d == Stepped(This) IN
    /\ MayCall
    /\ it.on => it.next # k
    /\ Set(Unlinked(d, k))
    /\ Forget(k)
    /\ M!Delete(k)
    /\ UNCHANGED <<taken, lost>>

dictFind(k) ==
    LET d == Stepped(This) IN
    /\ MayCall
    /\ Set(d)
    /\ UNCHANGED <<it, scan, taken, map, lost>>

dictEmpty ==
    /\ ~it.on
    /\ Set(Dict([i \in 0..1 |-> NoTable], -1, 0))
    /\ scan' = [scan EXCEPT !.owed = {}]
    /\ M!Empty
    /\ UNCHANGED <<it, taken, lost>>

Resize ==
    /\ MayCall
    /\ Set(dictResize(This))
    /\ UNCHANGED <<it, scan, taken, map, lost>>

\* One slice of n buckets, and no iterator is open then.
dictRehashMilliseconds(n) ==
    /\ ~it.on
    /\ IsRehashing(This)
    /\ Set(dictRehash(This, n))
    /\ UNCHANGED <<it, scan, taken, map, lost>>

dictGetIterator(safe) ==
    /\ ~it.on
    /\ taken < MaxWalks
    /\ it' = [on |-> TRUE, safe |-> safe, table |-> 0, index |-> -1, entry |-> Null,
              next |-> Null, returned |-> {}, repeated |-> {}, owed |-> {},
              finger |-> <<>>, done |-> FALSE]
    /\ taken' = taken + 1
    /\ UNCHANGED <<tables, scan, map, lost>>

dictNext ==
    LET first == it.entry = Null /\ it.index = -1 /\ it.table = 0
        i == IF ~first THEN it
             ELSE [it EXCEPT !.owed = KeysIn(This),
                             !.finger = IF it.safe THEN <<>> ELSE Fingerprint(This)]
        p == FirstOf(Ahead(This, i))
    IN
    /\ it.on /\ ~it.done
    /\ iterators' = IF first /\ it.safe THEN iterators + 1 ELSE iterators
    /\ it' = IF i.entry # Null /\ i.next # Null
             THEN Returning(This, i, i.table, i.index, i.next)
             ELSE IF Ahead(This, i) # {}
             THEN Returning(This, i, p[1], p[2], ht[p[1]].table[p[2]][1].key)
             ELSE [i EXCEPT !.entry = Null, !.next = Null, !.done = TRUE]
    /\ UNCHANGED <<ht, rehashidx, scan, taken, map, lost>>

Started == it.index # -1 \/ it.table # 0 \/ it.done

\* Mutant: releasing a safe iterator leaves the tables held.
releaseHolds ==
    /\ it.on
    /\ it' = NoIterator
    /\ UNCHANGED <<tables, scan, taken, map, lost>>

dictReleaseIterator ==
    /\ it.on
    /\ iterators' = IF Started /\ it.safe THEN iterators - 1 ELSE iterators
    /\ it' = NoIterator
    /\ UNCHANGED <<ht, rehashidx, scan, taken, map, lost>>

(* clusterCron, on winning an election, walks the nodes with a safe        *)
(* iterator and never releases it: the count it holds stays.               *)
DropIterator ==
    /\ it.on /\ it.safe /\ it.done
    /\ it' = NoIterator
    /\ lost' = TRUE
    /\ UNCHANGED <<tables, scan, taken, map>>

ScanStart ==
    /\ ~scan.on
    /\ ~it.on
    /\ taken < MaxWalks
    /\ taken' = taken + 1
    /\ scan' = [NoScan EXCEPT !.on = TRUE, !.owed = KeysIn(This)]
    /\ UNCHANGED <<tables, it, map, lost>>

dictScan ==
    LET seen == scan.seen \cup
                (IF dictSize(This) = 0 THEN {} ELSE Emitted(This, scan.v))
        cut == scan.cut \/ (IsRehashing(This) /\ Upper(This, scan.v) # 0)
        v == IF dictSize(This) = 0 THEN 0 ELSE NextCursor(scan.v, SmallerSize(This))
    IN
    /\ scan.on
    /\ scan' = IF v # 0 THEN [scan EXCEPT !.v = v, !.seen = seen, !.cut = cut]
               ELSE [NoScan EXCEPT !.missed = scan.owed \ seen, !.cut = cut]
    /\ UNCHANGED <<tables, it, taken, map, lost>>

Init ==
    /\ ht = [i \in 0..1 |-> NoTable]
    /\ rehashidx = -1
    /\ iterators = 0
    /\ it = NoIterator
    /\ scan = NoScan
    /\ taken = 0
    /\ M!Init
    /\ lost = FALSE

Next ==
    \/ \E k \in Key : \E v \in Stored[k] : dictAdd(k, v) \/ dictReplace(k, v)
    \/ \E k \in Key : dictDelete(k) \/ dictFind(k)
    \/ dictEmpty
    \/ Resize
    \/ \E n \in 1..2 : dictRehashMilliseconds(n)
    \/ \E safe \in BOOLEAN : dictGetIterator(safe)
    \/ dictNext
    \/ dictReleaseIterator
    \/ DropIterator
    \/ ScanStart
    \/ dictScan

Spec == Init /\ [][Next]_vars

(* Fairness: the owner keeps looking keys up (every command and every      *)
(* cluster message does), and an iterator, which runs inside one           *)
(* function, is walked to its end and released.                            *)
Fairness ==
    /\ WF_vars(\E k \in Key : dictFind(k))
    /\ WF_vars(dictNext)
    /\ WF_vars(it.on /\ it.done /\ dictReleaseIterator)

FairSpec == Spec /\ Fairness
----------------------------------------------------------------------------

(* dict.c keeps its tables in order: see DictSound.                        *)
TablesSound == DictSound(This)

(* dict.c as a whole: through adds, deletes, resizes and partial rehashes, *)
(* with or without an iterator open, the entries of the two tables are     *)
(* those of the map the calls describe, and a lookup that takes its own    *)
(* rehash step first finds exactly those keys with their last values.      *)
ActsAsMap ==
    LET d == Stepped(This) IN
    /\ Contents(This) = map
    /\ \A k \in Key :
        /\ Holds(d, k) <=> k \in M!Keys(map)
        /\ Holds(d, k) => [key |-> k, val |-> Fetch(d, k)] \in map

(* dictNext with a safe iterator: an entry that stays in the table from    *)
(* the first call to the last is returned exactly once, although the       *)
(* caller adds, deletes and starts rehashes meanwhile.                     *)
IteratedOnce ==
    it.on => /\ it.owed \cap it.repeated = {}
             /\ it.done => it.owed \subseteq it.returned

(* dictScan: "all the elements that are present in the dictionary from the *)
(* start to the end of the iteration are returned", across expansions and  *)
(* shrinks between two calls, whole or half done.  The exception is a call *)
(* made during a rehash with a cursor that has upper bits of the larger    *)
(* mask, as one from before a shrink has: the expansions below those bits  *)
(* are never visited.                                                      *)
ScanComplete == ~scan.cut => scan.missed = {}

(* dictGetRandomKeys returns as many entries as asked for, or all there    *)
(* are, and no entry twice, wherever it starts.                            *)
SampleDistinct ==
    \A count \in 1..Cardinality(Key) :
    \A i \in 0..Max({ht[0].size - 1, 0}), j \in 0..Max({ht[1].size - 1, 0}) :
        Cardinality(ToSet(dictGetRandomKeys(This, i, j, count)))
            = Min({count, Cardinality(KeysIn(This))})

(* A rehash, once begun, ends as long as lookups keep coming and no        *)
(* iterator has been lost; a lost one (clusterCron's) stops it for good.   *)
RehashEnds == IsRehashing(This) ~> (~IsRehashing(This) \/ lost)
=============================================================================
