----------------------------- MODULE PrezTables -----------------------------
(***************************************************************************)
(* The two hash tables of a dictionary of dict.c as a value, and what each *)
(* call makes of them: chained buckets, and a second table into which      *)
(* entries move one bucket per call.  PrezDict runs the calls.             *)
(***************************************************************************)
EXTENDS Integers, Sequences, FiniteSets, FiniteSetsExt, Functions

CONSTANTS Key, Value,
          Hash,                   \* [Key -> Nat]: type->hashFunction
          DICT_HT_INITIAL_SIZE,   \* a power of two
          dict_can_resize,        \* no caller in the program changes it from 1
          ForceRatio              \* dict_force_resize_ratio

(* What the tables rest on, whatever the keys and the hash function. *)
TableAssumption == Hash \in [Key -> Nat] /\ DICT_HT_INITIAL_SIZE \in Nat \ {0}

(* A dictionary as a value, so that the calls compose. *)
Dict(h, r, n) == [ht |-> h, rehashidx |-> r, iterators |-> n]

Buckets(size) == [size |-> size, used |-> 0, table |-> [i \in 0..size-1 |-> <<>>]]
\* _dictReset: a table of no buckets.
NoTable == Buckets(0)

IsRehashing(d) == d.rehashidx # -1
dictSize(d) == d.ht[0].used + d.ht[1].used
\* h & sizemask: sizes are powers of two.
Slot(t, k) == Hash[k] % t.size
KeysOf(chain) == {chain[i].key : i \in DOMAIN chain}
ChainOf(d, t, k) == IF d.ht[t].size = 0 THEN <<>> ELSE d.ht[t].table[Slot(d.ht[t], k)]

(* The entries of both tables, which is what the caller sees. *)
Elements(t) == UNION {Range(t.table[i]) : i \in DOMAIN t.table}
Contents(d) == Elements(d.ht[0]) \cup Elements(d.ht[1])

----------------------------------------------------------------------------
(* Growing and moving. *)

\* The initial size doubled until it is large enough.
_dictNextPower(size) ==
    LET doubled[i \in 0..size] == IF i = 0 THEN DICT_HT_INITIAL_SIZE ELSE 2 * doubled[i-1]
    IN  doubled[Min({i \in 0..size : doubled[i] >= size})]

dictExpand(d, size) ==
    LET n == Buckets(_dictNextPower(size)) IN
    IF IsRehashing(d) \/ d.ht[0].used > size THEN d
    ELSE IF d.ht[0].size = 0 THEN [d EXCEPT !.ht[0] = n]
    ELSE [d EXCEPT !.ht[1] = n, !.rehashidx = 0]

dictResize(d) ==
    IF ~dict_can_resize \/ IsRehashing(d) THEN d
    ELSE dictExpand(d, Max({d.ht[0].used, DICT_HT_INITIAL_SIZE}))

_dictExpandIfNeeded(d) ==
    IF IsRehashing(d) THEN d
    ELSE IF d.ht[0].size = 0 THEN dictExpand(d, DICT_HT_INITIAL_SIZE)
    ELSE IF /\ d.ht[0].used >= d.ht[0].size
            /\ dict_can_resize \/ d.ht[0].used \div d.ht[0].size > ForceRatio
         THEN dictExpand(d, d.ht[0].used * 2)
    ELSE d

(* Prepending an entry to its bucket of table t. *)
PushEntry(t, e) ==
    [t EXCEPT !.used = @ + 1, !.table[Slot(t, e.key)] = <<e>> \o @]

(* Taking the whole bucket b out of table t. *)
EmptyBucket(t, b) == [t EXCEPT !.used = @ - Len(t.table[b]), !.table[b] = <<>>]

PushChain(t, chain) ==
    LET pushed[i \in 0..Len(chain)] ==
            IF i = 0 THEN t ELSE PushEntry(pushed[i-1], chain[i])
    IN  pushed[Len(chain)]

(* One round of dictRehash: the switch when ht[0] is empty, otherwise the  *)
(* whole next non-empty bucket, entry by entry from the head of its chain. *)
RehashBucket(d) ==
    IF d.ht[0].used = 0
    THEN [d EXCEPT !.ht = [i \in 0..1 |-> IF i = 0 THEN d.ht[1] ELSE NoTable],
                   !.rehashidx = -1]
    ELSE LET i == Min({j \in d.rehashidx..d.ht[0].size - 1 : d.ht[0].table[j] # <<>>})
         IN  [d EXCEPT !.ht[1] = PushChain(d.ht[1], d.ht[0].table[i]),
                       !.ht[0] = EmptyBucket(d.ht[0], i),
                       !.rehashidx = i + 1]

(* dictRehash(d, n): n rounds, or fewer when the table is done. *)
dictRehash(d, n) ==
    LET rounds[i \in 0..n] ==
            IF i = 0 THEN d
            ELSE IF IsRehashing(rounds[i-1]) THEN RehashBucket(rounds[i-1]) ELSE rounds[i-1]
    IN  rounds[n]

\* Mutant: the step of a call does not look at the iterators.
stepUnderIterators(d) == dictRehash(d, 1)

_dictRehashStep(d) == IF d.iterators = 0 THEN dictRehash(d, 1) ELSE d

----------------------------------------------------------------------------
(* The calls, each on a dictionary value. *)

\* Mutant: the search stops after the first table.
firstTableOnly(d, k) == ChainOf(d, 0, k)

(* The chains a search for k walks: ht[0], then ht[1] while rehashing. *)
Searched(d, k) ==
    ChainOf(d, 0, k) \o (IF IsRehashing(d) THEN ChainOf(d, 1, k) ELSE <<>>)
Holds(d, k) == k \in KeysOf(Searched(d, k))

(* The table a search for k finds it in, and its position in the chain. *)
Found(d, k) == IF k \in KeysOf(ChainOf(d, 0, k)) THEN 0 ELSE 1
Position(chain, k) == Min({i \in DOMAIN chain : chain[i].key = k})

(* dictFind, dictFetchValue: the step, then the search. *)
Stepped(d) == IF d.ht[0].size = 0 THEN d ELSE _dictRehashStep(d)
Fetch(d, k) == LET s == Searched(d, k) IN s[Position(s, k)].val

(* dictAddRaw with dictAdd's value: step, expand, search, link. *)
Linked(d, k, v) ==
    LET s == _dictExpandIfNeeded(_dictRehashStep(d))
        t == IF IsRehashing(s) THEN 1 ELSE 0
    IN  IF Holds(s, k) THEN s
        ELSE [s EXCEPT !.ht[t] = PushEntry(s.ht[t], [key |-> k, val |-> v])]
Added(d, k) == ~Holds(_dictExpandIfNeeded(_dictRehashStep(d)), k)

(* dictSetVal on the entry a search for k finds. *)
SetEntry(t, k, v) ==
    LET b == Slot(t, k)
    IN  [t EXCEPT !.table[b][Position(t.table[b], k)] = [key |-> k, val |-> v]]
SetVal(d, k, v) == [d EXCEPT !.ht[Found(d, k)] = SetEntry(@, k, v)]

(* dictReplace: dictAdd, and when the key is there dictFind and its value. *)
Replaced(d, k, v) ==
    LET a == Linked(d, k, v) IN
    IF Added(d, k) THEN a ELSE SetVal(Stepped(a), k, v)

(* dictGenericDelete after its rehash step. *)
Unlink(chain, i) == SubSeq(chain, 1, i - 1) \o SubSeq(chain, i + 1, Len(chain))
UnlinkEntry(t, k) ==
    LET b == Slot(t, k)
    IN  [t EXCEPT !.used = @ - 1, !.table[b] = Unlink(@, Position(@, k))]
Unlinked(d, k) ==
    IF Holds(d, k) THEN [d EXCEPT !.ht[Found(d, k)] = UnlinkEntry(@, k)] ELSE d

----------------------------------------------------------------------------
(* A table: every entry is in the bucket its hash gives, no key is twice   *)
(* in a bucket, and `used' counts the entries.                             *)
Entry == [key : Key, val : Value]

TableType(t) == t \in [size : Nat, used : Nat, table : [0..t.size-1 -> Seq(Entry)]]

ChainSound(t, chain, b) ==
    \A i \in 1..Len(chain) :
       /\ Slot(t, chain[i].key) = b
       /\ \A j \in 1..Len(chain) : chain[j].key = chain[i].key => j = i

TableSound(t) ==
    /\ TableType(t)
    /\ \A b \in 0..t.size-1 : ChainSound(t, t.table[b], b)
    /\ IsFiniteSet(Elements(t)) /\ t.used = Cardinality(Elements(t))

(* Both: no key is in the two tables, the second table exists exactly      *)
(* while rehashing, and the buckets already moved are empty.               *)
DictSound(d) ==
    /\ d = Dict(d.ht, d.rehashidx, d.iterators) /\ d.ht = [t \in 0..1 |-> d.ht[t]]
    /\ TableSound(d.ht[0]) /\ TableSound(d.ht[1])
    /\ \A e \in Elements(d.ht[0]), f \in Elements(d.ht[1]) : e.key # f.key
    /\ ~IsRehashing(d) => d.ht[1].size = 0
    /\ IsRehashing(d) => /\ d.rehashidx \in 0..d.ht[0].size
                         /\ d.ht[0].size > 0 /\ d.ht[1].size > 0
                         /\ \A b \in 0..d.rehashidx-1 : d.ht[0].table[b] = <<>>
=============================================================================
