----------------------------- MODULE PrezObject -----------------------------
(***************************************************************************)
(* The reference counted objects of object.c and the keyspace of db.c that *)
(* holds them: the arguments of a command, the value of a key and a queued *)
(* reply share one object.  A string is a sequence of characters, 0 to 9   *)
(* the digits; an object holds it as bytes (raw, or embstr when short) or  *)
(* as an integer.                                                          *)
(***************************************************************************)
EXTENDS Integers, Sequences, FiniteSets, SequencesExt

CONSTANTS Strings,      \* the strings to compare and convert
          Values,       \* the values commands set
          Key,
          EmbLimit,     \* PREZ_ENCODING_EMBSTR_SIZE_LIMIT
          SharedInts,   \* PREZ_SHARED_INTEGERS
          MaxInt,       \* bound on the integers an object holds
          MaxObjs, MaxReplies

VARIABLES heap,    \* address -> object
          db,      \* key -> address, for the keys that are set
          argv,    \* the client's arguments
          reply,   \* the objects queued for the client
          last,    \* ghost: key -> the string last set
          owed,    \* ghost: the strings the client was to be sent
          probe    \* two objects to compare and convert

vars == <<heap, db, argv, reply, last, owed, probe>>

Digit == 0..9
IsNumber(s) == \A i \in DOMAIN s : s[i] \in Digit
ll2string(n) == IF n < 10 THEN <<n>> ELSE <<n \div 10, n % 10>>
(* strtoll: the value of the leading digits, 0 for none.                   *)
strtoll(s) == FoldLeft(LAMBDA acc, d : 10 * acc + d, 0, s)
----------------------------------------------------------------------------
createObject(s) == [encoding |-> "raw", s |-> s, n |-> 0, refcount |-> 1]
createEmbeddedStringObject(s) == [createObject(s) EXCEPT !.encoding = "embstr"]

createStringObject(s) ==
    IF Len(s) <= EmbLimit THEN createEmbeddedStringObject(s) ELSE createObject(s)

(* A small integer is the shared object; another is an object of its own.  *)
createStringObjectFromLongLong(n) ==
    [encoding |-> "int", s |-> <<>>, n |-> n, refcount |-> IF n < SharedInts THEN 2 ELSE 1]

sdsEncodedObject(o) == o.encoding \in {"raw", "embstr"}

dupStringObject(o) == [o EXCEPT !.refcount = 1]

(* A short raw string becomes an embedded one, a new object; a shared one  *)
(* is left alone.                                                          *)
tryObjectEncoding(o) ==
    IF ~sdsEncodedObject(o) \/ o.refcount > 1 \/ Len(o.s) > EmbLimit THEN o
    ELSE IF o.encoding = "embstr" THEN o ELSE createEmbeddedStringObject(o.s)

getDecodedObject(o) ==
    IF sdsEncodedObject(o) THEN [o EXCEPT !.refcount = @ + 1] ELSE createStringObject(ll2string(o.n))

(* The bytes to compare: of the string, or of the integer written out.     *)
bytesOf(o) == IF sdsEncodedObject(o) THEN o.s ELSE ll2string(o.n)

memcmp(a, b, len) ==
    LET diff == {i \in 1..len : a[i] # b[i]}
    IN  IF diff = {} THEN 0
        ELSE LET i == CHOOSE i \in diff : \A k \in diff : i <= k IN a[i] - b[i]

compareStringObjects(a, b) ==
    LET as == bytesOf(a)
        bs == bytesOf(b)
        cmp == memcmp(as, bs, IF Len(as) < Len(bs) THEN Len(as) ELSE Len(bs))
    IN  IF a = b THEN 0 ELSE IF cmp = 0 THEN Len(as) - Len(bs) ELSE cmp

equalStringObjects(a, b) ==
    IF a.encoding = "int" /\ b.encoding = "int" THEN a.n = b.n ELSE compareStringObjects(a, b) = 0

stringObjectLen(o) == IF sdsEncodedObject(o) THEN Len(o.s) ELSE Len(ll2string(o.n))

(* The integer in a set of one, or none.                                   *)
getLongLongFromObject(o) ==
    IF sdsEncodedObject(o) THEN {strtoll(s) : s \in {t \in {o.s} : IsNumber(t)}} ELSE {o.n}
----------------------------------------------------------------------------
(* The heap. *)
Addr == 1..MaxObjs
zmalloc(h) == CHOOSE a \in Addr \ DOMAIN h : \A b \in Addr \ DOMAIN h : a <= b
RoomFor(n) == Cardinality(Addr \ DOMAIN heap) >= n
New(h, o) == [a \in DOMAIN h \cup {zmalloc(h)} |-> IF a \in DOMAIN h THEN h[a] ELSE o]

incrRefCount(h, a) == [h EXCEPT ![a].refcount = @ + 1]

(* The last reference frees the object (freeStringObject, zfree).          *)
decrRefCount(h, a) ==
    IF h[a].refcount = 1 THEN [b \in DOMAIN h \ {a} |-> h[b]] ELSE [h EXCEPT ![a].refcount = @ - 1]

decrAll(h, as) == FoldLeft(decrRefCount, h, as)

Objects == {createObject(s) : s \in Strings} \cup {createStringObject(s) : s \in Strings}
           \cup {createStringObjectFromLongLong(n) : n \in 0..MaxInt}

Init ==
    /\ heap = [a \in {} |-> 0] /\ db = [k \in {} |-> 0] /\ argv = <<>> /\ reply = <<>>
    /\ last = [k \in {} |-> <<>>] /\ owed = <<>>
    /\ probe = <<>>

(* Two objects to try the conversions on.                                  *)
Try(a, b) == heap = [x \in {} |-> 0] /\ probe' = <<a, b>>
             /\ UNCHANGED <<heap, db, argv, reply, last, owed>>
----------------------------------------------------------------------------
(* Keyspace. *)
lookupKey(k) == IF k \in DOMAIN db THEN db[k] ELSE 0
Bound(f, k, v) == [x \in DOMAIN f \cup {k} |-> IF x = k THEN v ELSE f[x]]

dbAdd(k, a) == Bound(db, k, a)
dbOverwrite(k, a) == [db EXCEPT ![k] = a]

\* Mutant: the old value's object is given the new string.
setKeyInPlace(h, k, a) ==
    IF lookupKey(k) = 0 THEN [heap |-> incrRefCount(h, a), db |-> dbAdd(k, a)]
    ELSE [heap |-> [h EXCEPT ![db[k]].s = h[a].s], db |-> db]

(* The old value is released by the hash table's value destructor.         *)
setKey(h, k, a) ==
    IF lookupKey(k) = 0 THEN [heap |-> incrRefCount(h, a), db |-> dbAdd(k, a)]
    ELSE [heap |-> incrRefCount(decrRefCount(h, db[k]), a), db |-> dbOverwrite(k, a)]

(* A SET is parsed: its value becomes an object (the name and the key are  *)
(* left out, nothing keeps them).                                          *)
ReadSet(k, s) ==
    /\ argv = <<>> /\ RoomFor(1)
    /\ heap' = New(heap, createStringObject(s))
    /\ argv' = <<[key |-> k, val |-> zmalloc(heap)]>>
    /\ UNCHANGED <<db, reply, last, owed, probe>>

(* A leader applies it: setCommand, then resetClient releases argv.        *)
CallSet ==
    /\ argv # <<>>
    /\ LET k == argv[1].key
           a == argv[1].val
           r == setKey(heap, k, a)
       IN  /\ heap' = decrRefCount(r.heap, a)
           /\ db' = r.db
           /\ last' = Bound(last, k, heap[a].s)
    /\ argv' = <<>>
    /\ UNCHANGED <<reply, owed, probe>>

(* The client goes away while the SET waits.                               *)
freeClientArgv ==
    /\ argv # <<>>
    /\ heap' = decrAll(heap, <<argv[1].val>>) /\ argv' = <<>>
    /\ UNCHANGED <<db, reply, last, owed, probe>>

(* Another node applies the entry: logApply makes objects of the words of  *)
(* the command and releases them.                                          *)
logApply(k, s) ==
    /\ RoomFor(1) /\ s # <<>>
    /\ LET h == New(heap, createObject(s))
           a == zmalloc(heap)
           r == setKey(h, k, a)
       IN  heap' = decrRefCount(r.heap, a) /\ db' = r.db
    /\ last' = Bound(last, k, s)
    /\ UNCHANGED <<argv, reply, owed, probe>>

(* GET: the value is queued, and a reply is sent later.                    *)
getCommand(k) ==
    /\ lookupKey(k) # 0 /\ Len(reply) < MaxReplies
    /\ heap' = incrRefCount(heap, db[k])
    /\ reply' = Append(reply, db[k]) /\ owed' = Append(owed, last[k])
    /\ UNCHANGED <<db, argv, last, probe>>

sendReplyToClient ==
    /\ reply # <<>>
    /\ heap' = decrRefCount(heap, Head(reply))
    /\ reply' = Tail(reply) /\ owed' = Tail(owed)
    /\ UNCHANGED <<db, argv, last, probe>>

freeClientReplies ==
    /\ reply # <<>>
    /\ heap' = decrAll(heap, reply) /\ reply' = <<>> /\ owed' = <<>>
    /\ UNCHANGED <<db, argv, last, probe>>

dbDelete(k) ==
    /\ lookupKey(k) # 0
    /\ heap' = decrRefCount(heap, db[k])
    /\ db' = [x \in DOMAIN db \ {k} |-> db[x]] /\ last' = [x \in DOMAIN last \ {k} |-> last[x]]
    /\ UNCHANGED <<argv, reply, owed, probe>>

Next ==
    /\ probe = <<>>
    /\ \/ \E a, b \in Objects : Try(a, b)
       \/ \E k \in Key, s \in Values : ReadSet(k, s) \/ logApply(k, s)
       \/ CallSet \/ freeClientArgv \/ sendReplyToClient \/ freeClientReplies
       \/ \E k \in Key : getCommand(k) \/ dbDelete(k)
Spec == Init /\ [][Next]_vars
----------------------------------------------------------------------------
Holders(a) ==
    Cardinality({k \in DOMAIN db : db[k] = a}) + Cardinality({i \in DOMAIN reply : reply[i] = a})
    + Cardinality({i \in DOMAIN argv : argv[i].val = a})

(* An object is allocated exactly as long as the arguments, the keyspace   *)
(* or the reply queue hold it, and counts its holders: none is freed under *)
(* a holder, none is left behind (object.c incrRefCount, decrRefCount).    *)
RefcountsExact ==
    /\ \A a \in DOMAIN heap : heap[a].refcount = Holders(a) /\ Holders(a) > 0
    /\ {db[k] : k \in DOMAIN db} \cup ToSet(reply) \cup {argv[i].val : i \in DOMAIN argv}
            \subseteq DOMAIN heap

(* A queued reply still reads as the value did when GET was served, though *)
(* the key has been set again, deleted, or the value's object reused since;*)
(* and each key holds what was set last.                                   *)
RepliesAsRead ==
    /\ \A k \in DOMAIN db : heap[db[k]].s = last[k]
    /\ Len(reply) = Len(owed) /\ \A i \in DOMAIN reply : heap[reply[i]].s = owed[i]

(* The encodings of an object are invisible: equality, order, length,      *)
(* decoding, re-encoding and duplication agree with the string it stands   *)
(* for, whichever way the two objects hold it (object.c 346 to 545).       *)
EncodingsAgree ==
    probe # <<>> =>
    LET a == probe[1]
        b == probe[2]
        str(o) == IF sdsEncodedObject(o) THEN o.s ELSE ll2string(o.n)
    IN  /\ equalStringObjects(a, b) <=> str(a) = str(b)
        /\ (compareStringObjects(a, b) < 0) <=> (compareStringObjects(b, a) > 0)
        /\ (compareStringObjects(a, b) = 0) <=> equalStringObjects(a, b)
        /\ stringObjectLen(a) = Len(str(a))
        /\ getDecodedObject(a).s = str(a) /\ sdsEncodedObject(getDecodedObject(a))
        /\ str(tryObjectEncoding(a)) = str(a) /\ str(dupStringObject(a)) = str(a)
        /\ str(a) = str(b) => getLongLongFromObject(a) = getLongLongFromObject(b)
=============================================================================
