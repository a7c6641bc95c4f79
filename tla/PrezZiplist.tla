---------------------------- MODULE PrezZiplist -----------------------------
(***************************************************************************)
(* The ziplist of ziplist.c: a list in one block of bytes.  An entry is    *)
(* the length of the entry before it (one byte, or five when that does not *)
(* fit), an encoding with its own length, and a string or an integer.      *)
(* Inserting and deleting move the bytes behind the place and may widen    *)
(* the previous-length field of one entry after the other.                 *)
(*                                                                         *)
(* Offsets count from 1 behind the header; ZIPLIST_BYTES is the length of  *)
(* the block.                                                              *)
(***************************************************************************)
EXTENDS PrezBytes

CONSTANTS STR_14B_MAX,    \* 0x3fff: the longest string with a two byte length
          LENGTH_MAX,     \* UINT16_MAX: the length field is not kept up from there
          Items,          \* what is inserted: see StrItem and IntItem
          Numbers,        \* integers to encode
          MaxEntries      \* bound

VARIABLES zl,             \* the block, its tail offset and its length field
          ref,            \* the items it is meant to hold
          torn            \* bytes in use were cut off

vars == <<zl, ref, torn>>

(* An item is a string, or one that string2ll reads as an integer.         *)
StrItem(bytes) == [int |-> FALSE, num |-> 0, str |-> bytes]
IntItem(n) == [int |-> TRUE, num |-> n, str |-> <<>>]

ZIP_END == Byte - 1
ZIP_BIGLEN == Byte - 2
ZIP_STR_14B == Byte \div 4
ZIP_STR_32B == 2 * ZIP_STR_14B
ZIP_STR_MASK == 3 * ZIP_STR_14B
ZIP_INT_16B == ZIP_STR_MASK
ZIP_INT_32B == ZIP_STR_MASK + Byte \div 16
ZIP_INT_64B == ZIP_STR_MASK + 2 * (Byte \div 16)
ZIP_INT_24B == ZIP_STR_MASK + 3 * (Byte \div 16)
ZIP_INT_8B == Byte - 2
ZIP_INT_IMM_MIN == ZIP_INT_24B + 1
ZIP_INT_IMM_MAX == Byte - 3

ZIP_IS_STR(enc) == enc < ZIP_STR_MASK

ziplistResize(mem, len) == memcpy(zrealloc(mem, len), len, <<ZIP_END>>)
----------------------------------------------------------------------------
(* Encodings.                                                              *)
zipIntSize(enc) ==
    CASE enc = ZIP_INT_8B -> 1 [] enc = ZIP_INT_16B -> 2 [] enc = ZIP_INT_24B -> 3
      [] enc = ZIP_INT_32B -> 4 [] enc = ZIP_INT_64B -> 8 [] OTHER -> 0

Fits(n, width) == -(2^(width * ByteBits - 1)) <= n /\ n < 2^(width * ByteBits - 1)

\* The encoding of an integer, the smallest that holds it.
zipTryEncoding(n) ==
    IF 0 <= n /\ n <= ZIP_INT_IMM_MAX - ZIP_INT_IMM_MIN THEN ZIP_INT_IMM_MIN + n
    ELSE IF Fits(n, 1) THEN ZIP_INT_8B
    ELSE IF Fits(n, 2) THEN ZIP_INT_16B
    ELSE IF Fits(n, 3) THEN ZIP_INT_24B
    ELSE IF Fits(n, 4) THEN ZIP_INT_32B ELSE ZIP_INT_64B

zipSaveInteger(n, enc) == LittleEndian(n, zipIntSize(enc))
zipLoadInteger(bytes, enc) ==
    IF bytes = <<>> THEN enc - ZIP_INT_IMM_MIN ELSE Signed(bytes)

zipEncodeLength(enc, rawlen) ==
    IF ~ZIP_IS_STR(enc) THEN <<enc>>
    ELSE IF rawlen < ZIP_STR_14B THEN <<rawlen>>
    ELSE IF rawlen <= STR_14B_MAX THEN <<ZIP_STR_14B + rawlen \div Byte, rawlen % Byte>>
    ELSE <<ZIP_STR_32B>> \o Reverse(LittleEndian(rawlen, 4))

zipPrevEncodeLengthForceLarge(len) == <<ZIP_BIGLEN>> \o LittleEndian(len, 4)
zipPrevEncodeLength(len) ==
    IF len < ZIP_BIGLEN THEN <<len>> ELSE zipPrevEncodeLengthForceLarge(len)
PrevLenSize(len) == Len(zipPrevEncodeLength(len))

(* ZIP_DECODE_PREVLENSIZE, ZIP_ENTRY_ENCODING and ZIP_DECODE_LENGTH, the   *)
(* last at q, behind the previous length.                                  *)
PrevLenSizeAt(mem, p) == IF At(mem, p) < ZIP_BIGLEN THEN 1 ELSE 5
Encoding(b) == IF b < ZIP_STR_MASK THEN b - (b % ZIP_STR_14B) ELSE b
LenSize(enc) == IF enc = ZIP_STR_14B THEN 2 ELSE IF enc = ZIP_STR_32B THEN 5 ELSE 1
DecodeLength(mem, q, enc) ==
    CASE enc = 0 -> At(mem, q)
      [] enc = ZIP_STR_14B -> (At(mem, q) - enc) * Byte + At(mem, q + 1)
      [] enc = ZIP_STR_32B -> Unsigned(Reverse(Bytes(mem, q + 1, 4)))
      [] OTHER -> zipIntSize(enc)

Decoded(mem, p, pls, enc) ==
    [prevrawlensize |-> pls,
     prevrawlen |-> IF pls = 1 THEN At(mem, p) ELSE Unsigned(Bytes(mem, p + 1, 4)),
     encoding |-> enc, len |-> DecodeLength(mem, p + pls, enc), headersize |-> pls + LenSize(enc)]

zipEntry(mem, p) ==
    LET pls == PrevLenSizeAt(mem, p) IN Decoded(mem, p, pls, Encoding(At(mem, p + pls)))

RawLength(e) == e.headersize + e.len
zipRawEntryLength(mem, p) == RawLength(zipEntry(mem, p))
zipPrevLenByteDiff(mem, p, len) == PrevLenSize(len) - zipEntry(mem, p).prevrawlensize

\* ZIPLIST_INCR_LENGTH
incrLength(length, n) == IF length < LENGTH_MAX THEN length + n ELSE length
----------------------------------------------------------------------------
(* __ziplistCascadeUpdate: from the entry at p on, the previous-length     *)
(* fields are corrected; one that has to grow makes its entry longer, and  *)
(* the next is looked at; one that could shrink stays as it is.            *)
\* Mutant: the tail offset moves though the last entry keeps its place.
tailAlways(tail, np, extra) == tail + extra

tailMoved(tail, np, extra) == IF tail # np THEN tail + extra ELSE tail

\* The field of the entry at np, pls bytes so far, grows by extra bytes.
Widened(z, np, rawlen, pls, extra) ==
    LET grown == memmove(ziplistResize(z.mem, Len(z.mem) + extra), np + pls + extra,
                         np + pls, Len(z.mem) - np - pls)
    IN  [z EXCEPT !.mem = memcpy(grown, np, zipPrevEncodeLength(rawlen)),
                  !.tail = tailMoved(@, np, extra)]

RECURSIVE ziplistCascadeUpdate(_, _)
ziplistCascadeUpdate(z, p) ==
    LET rawlen == zipRawEntryLength(z.mem, p)
        np == p + rawlen
        next == zipEntry(z.mem, np)
        extra == PrevLenSize(rawlen) - next.prevrawlensize
    IN  IF At(z.mem, p) = ZIP_END \/ At(z.mem, np) = ZIP_END \/ next.prevrawlen = rawlen THEN z
        ELSE IF extra > 0
        THEN ziplistCascadeUpdate(Widened(z, np, rawlen, next.prevrawlensize, extra), np)
        ELSE [z EXCEPT !.mem = memcpy(@, np, IF extra < 0 THEN zipPrevEncodeLengthForceLarge(rawlen)
                                             ELSE zipPrevEncodeLength(rawlen))]

\* The offset num entries on, or the end.
RECURSIVE skip(_, _, _)
skip(mem, p, num) ==
    IF num = 0 \/ At(mem, p) \in {ZIP_END, Garbage} THEN p
    ELSE skip(mem, p + zipRawEntryLength(mem, p), num - 1)

\* The offsets of the entries from p on.
RECURSIVE entriesFrom(_, _)
entriesFrom(mem, p) ==
    IF At(mem, p) \in {ZIP_END, Garbage} THEN <<>>
    ELSE <<p>> \o entriesFrom(mem, p + zipRawEntryLength(mem, p))

(* __ziplistDelete: the entries from p up to q go, the one at q is told    *)
(* the length of the one before p.                                         *)
CutOut(z, p, q, prevrawlen, nextdiff) ==
    LET deleted == Len(entriesFrom(z.mem, p)) - Len(entriesFrom(z.mem, q))
        last == z.mem[q] = ZIP_END
        at == q - nextdiff
        mem == memcpy(z.mem, at, zipPrevEncodeLength(prevrawlen))
        more == At(mem, at + zipRawEntryLength(mem, at)) # ZIP_END
        moved == IF last THEN z.mem ELSE memmove(mem, p, at, Len(mem) - at)
    IN  [mem |-> ziplistResize(moved, Len(moved) - (q - p) + nextdiff),
         tail |-> IF last THEN p - prevrawlen
                  ELSE z.tail - (q - p) + (IF more THEN nextdiff ELSE 0),
         length |-> incrLength(z.length, -deleted)]

deleteEntries(z, p, num) ==
    LET q == skip(z.mem, p, num)
        prevrawlen == zipEntry(z.mem, p).prevrawlen
        nextdiff == IF z.mem[q] = ZIP_END THEN 0 ELSE zipPrevLenByteDiff(z.mem, q, prevrawlen)
        done == CutOut(z, p, q, prevrawlen, nextdiff)
    IN  IF nextdiff # 0 THEN ziplistCascadeUpdate(done, p) ELSE done

(* __ziplistInsert.  EntryBytes is what is written at p, with the header.  *)
EntryBytes(item, prevlen) ==
    LET enc == IF item.int THEN zipTryEncoding(item.num) ELSE 0
    IN  zipPrevEncodeLength(prevlen) \o zipEncodeLength(enc, Len(item.str))
        \o (IF item.int THEN zipSaveInteger(item.num, enc) ELSE item.str)

PrevLen(z, p) ==
    IF z.mem[p] # ZIP_END THEN zipEntry(z.mem, p).prevrawlen
    ELSE IF z.mem[z.tail] # ZIP_END THEN zipRawEntryLength(z.mem, z.tail) ELSE 0

InsertDiff(z, p, reqlen) ==
    IF z.mem[p] # ZIP_END THEN zipPrevLenByteDiff(z.mem, p, reqlen) ELSE 0

insertBytes(z, p, bytes, nextdiff) ==
    LET reqlen == Len(bytes)
        np == p + reqlen
        room == ziplistResize(z.mem, Len(z.mem) + reqlen + nextdiff)
        moved == memcpy(memmove(room, np, p - nextdiff, Len(z.mem) - p + nextdiff),
                        np, zipPrevEncodeLength(reqlen))
        more == At(moved, np + zipRawEntryLength(moved, np)) # ZIP_END
        done == IF z.mem[p] = ZIP_END THEN [z EXCEPT !.mem = room, !.tail = p]
                ELSE [z EXCEPT !.mem = moved,
                               !.tail = @ + reqlen + (IF more THEN nextdiff ELSE 0)]
        cascaded == IF nextdiff # 0 THEN ziplistCascadeUpdate(done, np) ELSE done
    IN  [cascaded EXCEPT !.mem = memcpy(@, p, bytes), !.length = incrLength(@, 1)]
----------------------------------------------------------------------------
(* Reading.                                                                *)
ziplistGet(z, p) ==
    LET e == zipEntry(z.mem, p)
        bytes == Bytes(z.mem, p + e.headersize, e.len)
    IN  IF ZIP_IS_STR(e.encoding) THEN StrItem(bytes) ELSE IntItem(zipLoadInteger(bytes, e.encoding))

NULL == 0

\* Backwards along the previous-length fields, as far as index and the head allow.
RECURSIVE backFrom(_, _, _)
backFrom(z, p, index) ==
    LET prev == zipEntry(z.mem, p).prevrawlen
    IN  IF prev = 0 \/ index = 0 \/ prev >= p THEN <<p, index>> ELSE backFrom(z, p - prev, index - 1)

ziplistIndex(z, index) ==
    LET q == skip(z.mem, 1, index)
        back == backFrom(z, z.tail, -index - 1)
    IN  IF index >= 0 THEN IF z.mem[q] = ZIP_END THEN NULL ELSE q
        ELSE IF z.mem[z.tail] = ZIP_END \/ back[2] > 0 THEN NULL ELSE back[1]

ziplistNext(z, p) ==
    LET q == p + zipRawEntryLength(z.mem, p)
    IN  IF z.mem[p] = ZIP_END \/ z.mem[q] = ZIP_END THEN NULL ELSE q

ziplistPrev(z, p) ==
    IF z.mem[p] = ZIP_END THEN IF z.mem[z.tail] = ZIP_END THEN NULL ELSE z.tail
    ELSE IF p = 1 THEN NULL ELSE p - zipEntry(z.mem, p).prevrawlen

ziplistCompare(z, p, item) ==
    LET e == zipEntry(z.mem, p)
    IN  /\ z.mem[p] # ZIP_END
        /\ IF ZIP_IS_STR(e.encoding) THEN ~item.int /\ ziplistGet(z, p).str = item.str
           ELSE item.int /\ ziplistGet(z, p).num = item.num

RECURSIVE ziplistFind(_, _, _, _)
ziplistFind(z, p, item, every) ==
    IF p = NULL \/ z.mem[p] = ZIP_END THEN NULL
    ELSE IF ziplistCompare(z, p, item) THEN p
    ELSE ziplistFind(z, skip(z.mem, p, every + 1), item, every)

\* ziplistLen, and the length field after it.
ziplistLen(z) == IF z.length < LENGTH_MAX THEN z.length ELSE Len(entriesFrom(z.mem, 1))
----------------------------------------------------------------------------
ziplistNew == [mem |-> <<ZIP_END>>, tail |-> 1, length |-> 0]

Init == zl = ziplistNew /\ ref = <<>> /\ torn = FALSE

Offsets == entriesFrom(zl.mem, 1)
Place(i) == IF i <= Len(Offsets) THEN Offsets[i] ELSE Len(zl.mem)

(* ziplistInsert, ziplistPush: before the i-th entry, or at the end.  When *)
(* the entry behind has a wide field it no longer needs, and the new entry *)
(* is shorter than the four bytes this saves, the block is resized to less *)
(* than it holds before anything is moved: bytes in use are cut off, and   *)
(* what is left is undefined.                                              *)
Inserted(p, bytes, nextdiff) ==
    LET cut == Len(bytes) + nextdiff < 0
    IN  torn' = cut /\ zl' = IF cut THEN zl ELSE insertBytes(zl, p, bytes, nextdiff)

ziplistInsert(i, item) ==
    LET p == Place(i)
        bytes == EntryBytes(item, PrevLen(zl, p))
    IN  /\ ~torn /\ Len(ref) < MaxEntries
        /\ Inserted(p, bytes, InsertDiff(zl, p, Len(bytes)))
        /\ ref' = InsertAt(ref, i, item)

ziplistDelete(i) ==
    /\ ~torn /\ i <= Len(ref)
    /\ zl' = deleteEntries(zl, Place(i), 1)
    /\ ref' = RemoveAt(ref, i)
    /\ UNCHANGED torn

ziplistDeleteRange(index, num) ==
    LET p == ziplistIndex(zl, index)
    IN  /\ ~torn
        /\ zl' = IF p = NULL THEN zl ELSE deleteEntries(zl, p, num)
        /\ ref' = SubSeq(ref, 1, index) \o SubSeq(ref, index + num + 1, Len(ref))
        /\ UNCHANGED torn

\* ziplistLen stores the length again when it is small enough.
StoreLength ==
    /\ ~torn /\ ziplistLen(zl) < LENGTH_MAX
    /\ zl' = [zl EXCEPT !.length = ziplistLen(zl)]
    /\ UNCHANGED <<ref, torn>>

Next ==
    \/ \E i \in 1 .. Len(ref) + 1, item \in Items : ziplistInsert(i, item)
    \/ \E i \in 1 .. Len(ref) : ziplistDelete(i)
    \/ \E index \in 0 .. Len(ref), num \in 2..3 : ziplistDeleteRange(index, num)
    \/ StoreLength

Spec == Init /\ [][Next]_vars
----------------------------------------------------------------------------
(* However far an insertion or a deletion cascades, the block reads from   *)
(* the head as the items it is meant to hold, up to its very last byte,    *)
(* each previous-length field tells the length of the entry before it, and *)
(* the tail offset is the last entry's.                                    *)
ZiplistSound ==
    LET n == Len(Offsets)
        raw(i) == zipRawEntryLength(zl.mem, Offsets[i])
    IN  ~torn =>
        /\ n = Len(ref) /\ skip(zl.mem, 1, n) = Len(zl.mem)
        /\ zl.tail = IF n = 0 THEN 1 ELSE Offsets[n]
        /\ \A i \in 1..n :
              /\ ziplistGet(zl, Offsets[i]) = ref[i]
              /\ zipEntry(zl.mem, Offsets[i]).prevrawlen = IF i = 1 THEN 0 ELSE raw(i - 1)

(* ziplistIndex counts from either end and gives NULL outside, Next and    *)
(* Prev are each other's inverse, ziplistFind gives the first match among  *)
(* every entry or every second one, and ziplistLen is right although the   *)
(* length field stops counting at its limit.                               *)
ZiplistLookups ==
    LET n == Len(ref)
        place(i) == IF i \in 1..n THEN Offsets[i] ELSE NULL
        firstOf(item, every) ==
            LET hits == {i \in 1..n : ref[i] = item /\ (i - 1) % (every + 1) = 0}
            IN  IF hits = {} THEN NULL ELSE Offsets[Min(hits)]
    IN  ~torn =>
        /\ \A i \in 0 .. n + 1 : /\ ziplistIndex(zl, i) = place(i + 1)
                                 /\ ziplistIndex(zl, -i - 1) = place(n - i)
        /\ \A i \in 1..n : /\ ziplistNext(zl, Offsets[i]) = place(i + 1)
                           /\ ziplistPrev(zl, Offsets[i]) = place(i - 1)
        /\ ziplistPrev(zl, Len(zl.mem)) = place(n)
        /\ \A item \in Items, every \in 0..1 : ziplistFind(zl, 1, item, every) = firstOf(item, every)
        /\ ziplistLen(zl) = n

(* An integer reads back from the encoding chosen for it, at both edges of *)
(* every width, the sign included.                                         *)
IntegersKept ==
    ref = <<>> => \A n \in Numbers :
        LET enc == zipTryEncoding(n)
        IN  zipLoadInteger(zipSaveInteger(n, enc), enc) = n
=============================================================================
