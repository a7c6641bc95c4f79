----------------------------- MODULE PrezZipmap -----------------------------
(***************************************************************************)
(* The zipmap of zipmap.c: a small map in one block of bytes.  An entry is *)
(* the key with its length, the value with its length, and a count of free *)
(* bytes behind the value, so that a value may shrink and grow a little in *)
(* place.  The first byte of the block counts the entries.                 *)
(***************************************************************************)
EXTENDS PrezBytes

CONSTANTS Key, Value,       \* sequences of bytes
          COUNT_MAX,        \* ZIPMAP_BIGLEN, as the count of entries
          VALUE_MAX_FREE    \* ZIPMAP_VALUE_MAX_FREE

VARIABLES zm, ref           \* the block, and the map it stands for

vars == <<zm, ref>>

ZIPMAP_BIGLEN == Byte - 2
ZIPMAP_END == Byte - 1
NULL == 0
None == <<-1>>              \* the key is not in the map

ZIPMAP_LEN_BYTES(len) == IF len < ZIPMAP_BIGLEN THEN 1 ELSE 5
zipmapEncodeLength(len) ==
    IF len < ZIPMAP_BIGLEN THEN <<len>> ELSE <<ZIPMAP_BIGLEN>> \o LittleEndian(len, 4)
zipmapDecodeLength(mem, p) ==
    IF At(mem, p) < ZIPMAP_BIGLEN THEN At(mem, p) ELSE Unsigned(Bytes(mem, p + 1, 4))

zipmapRequiredLength(klen, vlen) ==
    klen + vlen + 3 + (IF klen >= ZIPMAP_BIGLEN THEN 4 ELSE 0)
                    + (IF vlen >= ZIPMAP_BIGLEN THEN 4 ELSE 0)
RawKey(l) == ZIPMAP_LEN_BYTES(l) + l
RawValue(mem, p, l) ==
    LET used == ZIPMAP_LEN_BYTES(l) IN used + At(mem, p + used) + 1 + l
zipmapRawKeyLength(mem, p) == RawKey(zipmapDecodeLength(mem, p))
zipmapRawValueLength(mem, p) == RawValue(mem, p, zipmapDecodeLength(mem, p))
zipmapRawEntryLength(mem, p) ==
    LET l == zipmapRawKeyLength(mem, p) IN l + zipmapRawValueLength(mem, p + l)

\* What zipmapNext reports of the entry at p.
KeyAt(mem, p) ==
    LET klen == zipmapDecodeLength(mem, p) IN Bytes(mem, p + ZIPMAP_LEN_BYTES(klen), klen)
ValueAt(mem, p) ==
    LET v == p + zipmapRawKeyLength(mem, p)
        vlen == zipmapDecodeLength(mem, v)
    IN  Bytes(mem, v + 1 + ZIPMAP_LEN_BYTES(vlen), vlen)

\* The offsets of the entries from p on, and where the end marker is.
RECURSIVE entriesFrom(_, _)
entriesFrom(mem, p) ==
    IF At(mem, p) \in {ZIPMAP_END, Garbage} THEN <<>>
    ELSE <<p>> \o entriesFrom(mem, p + zipmapRawEntryLength(mem, p))
Entries(mem) == entriesFrom(mem, 2)
Behind(mem, ps) == IF ps = <<>> THEN 2 ELSE Last(ps) + zipmapRawEntryLength(mem, Last(ps))
EndOf(mem) == Behind(mem, Entries(mem))

zipmapLookupRaw(mem, key) ==
    LET hits == SelectSeq(Entries(mem), LAMBDA p : KeyAt(mem, p) = key)
    IN  IF hits = <<>> THEN NULL ELSE Head(hits)
zipmapBlobLen(mem) == EndOf(mem)

zipmapResize(mem, len) == memcpy(zrealloc(mem, len), len, <<ZIPMAP_END>>)
zipmapGet(mem, key) ==
    LET p == zipmapLookupRaw(mem, key) IN IF p = NULL THEN None ELSE ValueAt(mem, p)

count(n, d) == IF n < COUNT_MAX THEN n + d ELSE n

zipmapLen(mem) == IF mem[1] < COUNT_MAX THEN mem[1] ELSE Len(Entries(mem))

(* zipmapSet, first part: a block in which freelen bytes are available at  *)
(* p, at least the reqlen that are needed.                                 *)
MakeRoom(mem, zmlen, p, reqlen) ==
    LET freelen == zipmapRawEntryLength(mem, p)
        larger == zmlen - freelen + reqlen
    IN  IF p = NULL
        THEN [mem |-> memcpy(zipmapResize(mem, zmlen + reqlen), 1, <<count(mem[1], 1)>>),
              p |-> zmlen, freelen |-> reqlen]
        ELSE IF freelen < reqlen
        THEN [mem |-> memmove(zipmapResize(mem, larger), p + reqlen, p + freelen,
                              zmlen - (p + freelen)),
              p |-> p, freelen |-> reqlen]
        ELSE [mem |-> mem, p |-> p, freelen |-> freelen]

tooFree(empty) == empty >= VALUE_MAX_FREE

vempty(empty) == IF tooFree(empty) THEN 0 ELSE empty

(* Second part: too many free bytes are given back.                        *)
CloseUp(r, reqlen) ==
    LET zmlen == Len(r.mem)
        empty == r.freelen - reqlen
        moved == memmove(r.mem, r.p + reqlen, r.p + r.freelen, zmlen - (r.p + r.freelen))
    IN  IF tooFree(empty) THEN zipmapResize(moved, zmlen - empty) ELSE r.mem

WrittenIn(r, key, val, reqlen) ==
    memcpy(CloseUp(r, reqlen), r.p,
           zipmapEncodeLength(Len(key)) \o key
           \o zipmapEncodeLength(Len(val)) \o <<vempty(r.freelen - reqlen)>> \o val)

Written(mem, key, val) ==
    LET reqlen == zipmapRequiredLength(Len(key), Len(val))
        r == MakeRoom(mem, zipmapBlobLen(mem), zipmapLookupRaw(mem, key), reqlen)
    IN  WrittenIn(r, key, val, reqlen)

Removed(mem, p) ==
    LET zmlen == zipmapBlobLen(mem)
        freelen == zipmapRawEntryLength(mem, p)
        moved == memmove(mem, p, p + freelen, zmlen - (p + freelen))
    IN  memcpy(zipmapResize(moved, zmlen - freelen), 1, <<count(mem[1], -1)>>)
----------------------------------------------------------------------------
zipmapNew == <<0, ZIPMAP_END>>

Init == zm = zipmapNew /\ ref = [k \in Key |-> None]

zipmapSet(k, v) == zm' = Written(zm, k, v) /\ ref' = [ref EXCEPT ![k] = v]

zipmapDel(k) ==
    LET p == zipmapLookupRaw(zm, k)
    IN  zm' = (IF p = NULL THEN zm ELSE Removed(zm, p)) /\ ref' = [ref EXCEPT ![k] = None]

\* zipmapLen stores the count again when it is small enough.
StoreCount ==
    /\ zipmapLen(zm) < COUNT_MAX
    /\ zm' = memcpy(zm, 1, <<zipmapLen(zm)>>) /\ UNCHANGED ref

Next ==
    \/ \E k \in Key, v \in Value : zipmapSet(k, v)
    \/ \E k \in Key : zipmapDel(k)
    \/ StoreCount

Spec == Init /\ [][Next]_vars
----------------------------------------------------------------------------
(* Whatever was set, shortened, lengthened and deleted before, the block   *)
(* reads as the map it stands for: zipmapGet gives the value set last,     *)
(* zipmapNext gives each key once and no other, and zipmapLen their        *)
(* number, although the count stops at its limit.                          *)
ZipmapReads ==
    LET keys == {k \in Key : ref[k] # None}
        ps == Entries(zm)
    IN  /\ \A k \in Key : zipmapGet(zm, k) = ref[k]
        /\ {KeyAt(zm, ps[i]) : i \in DOMAIN ps} = keys
        /\ Len(ps) = Cardinality(keys) /\ zipmapLen(zm) = Len(ps)

(* The entries with their free bytes fill the block exactly, so the next   *)
(* operation moves what it means to and writes inside the allocation; no   *)
(* value keeps more free bytes than the limit.                             *)
ZipmapFilled ==
    /\ zipmapBlobLen(zm) = Len(zm)
    /\ \A p \in Range(Entries(zm)) :
          zipmapRawEntryLength(zm, p)
            - zipmapRequiredLength(Len(KeyAt(zm, p)), Len(ValueAt(zm, p))) \in 0 .. VALUE_MAX_FREE - 1
=============================================================================
