------------------------------ MODULE PrezSds -------------------------------
(***************************************************************************)
(* The dynamic strings of sds.c: one string, its header (len, free) and    *)
(* its allocation byte by byte, under any sequence of the operations that  *)
(* change it in place.  The ghost `ref' is what each operation's comment   *)
(* promises the string to be.                                              *)
(***************************************************************************)
EXTENDS Integers, Sequences, FiniteSetsExt

CONSTANTS Char,              \* bytes that are not NUL
          Garbage,           \* a byte realloc() or malloc() left undefined
          SDS_MAX_PREALLOC,
          StaticBuf,         \* sizeof(staticbuf) of sdscatvprintf
          MaxLen             \* bound on the length of the string

VARIABLES s, ref

vars == <<s, ref>>

NUL == 0
Byte == Char \cup {NUL}
Texts(B, n) == UNION {[1..k -> B] : k \in 0..n}

\* memcpy(b+at, t, Len(t)); writing past the end shows as a longer buffer.
Put(b, at, t) ==
    [i \in 1..Max({Len(b), at + Len(t)}) |->
        IF i \in (at + 1)..(at + Len(t)) THEN t[i - at] ELSE b[i]]
Undefined(n) == [i \in 1..n |-> Garbage]
realloc(b, n) == [i \in 1..n |-> IF i <= Len(b) THEN b[i] ELSE Garbage]

strlen(b) == Min({i \in 1..Len(b) : b[i] = NUL}) - 1
----------------------------------------------------------------------------
sdsnewlen(t) == [buf |-> Append(t, NUL), len |-> Len(t), free |-> 0]

sdsupdatelen(x) ==
    LET reallen == strlen(x.buf)
    IN  [x EXCEPT !.free = @ + (x.len - reallen), !.len = reallen]

sdsclear(x) == [buf |-> Put(x.buf, 0, <<NUL>>), len |-> 0, free |-> x.free + x.len]

\* Mutant: the terminating NUL is counted as room.
makeRoomOverNul(x, addlen) ==
    LET newlen == IF x.len + addlen < SDS_MAX_PREALLOC THEN 2 * (x.len + addlen)
                  ELSE x.len + addlen + SDS_MAX_PREALLOC
    IN  IF x.free + 1 >= addlen THEN x
        ELSE [buf |-> realloc(x.buf, newlen + 1), len |-> x.len, free |-> newlen - x.len]

sdsMakeRoomFor(x, addlen) ==
    LET newlen == IF x.len + addlen < SDS_MAX_PREALLOC THEN 2 * (x.len + addlen)
                  ELSE x.len + addlen + SDS_MAX_PREALLOC
    IN  IF x.free >= addlen THEN x
        ELSE [buf |-> realloc(x.buf, newlen + 1), len |-> x.len, free |-> newlen - x.len]

sdsRemoveFreeSpace(x) == [buf |-> realloc(x.buf, x.len + 1), len |-> x.len, free |-> 0]

(* sdsIncrLen, for a caller that keeps its two assertions.                 *)
sdsIncrLen(x, incr) ==
    [buf |-> Put(x.buf, x.len + incr, <<NUL>>), len |-> x.len + incr, free |-> x.free - incr]

sdsgrowzero(x, len) ==
    LET room == sdsMakeRoomFor(x, len - x.len)
    IN  IF len <= x.len THEN x
        ELSE [buf |-> Put(room.buf, x.len, [i \in 1..(len - x.len + 1) |-> NUL]),
              len |-> len, free |-> room.len + room.free - len]

sdscatlen(x, t) ==
    LET room == sdsMakeRoomFor(x, Len(t))
    IN  [buf |-> Put(room.buf, x.len, Append(t, NUL)),
         len |-> x.len + Len(t), free |-> room.free - Len(t)]

sdscpylen(x, t) ==
    LET room == IF x.free + x.len < Len(t) THEN sdsMakeRoomFor(x, Len(t) - x.len) ELSE x
    IN  [buf |-> Put(room.buf, 0, Append(t, NUL)),
         len |-> Len(t), free |-> room.free + room.len - Len(t)]

(* sdscatvprintf: what vsnprintf() puts into a buffer that is doubled      *)
(* until the byte before its last stays NUL.                               *)
RECURSIVE vprinted(_, _)
vprinted(t, buflen) ==
    IF Len(t) >= buflen - 1 THEN vprinted(t, 2 * buflen)
    ELSE SubSeq(t, 1, Min({Len(t), buflen - 1}))
sdscatvprintf(x, t) == sdscatlen(x, vprinted(t, StaticBuf))

(* sdscatfmt: each directive makes room for one byte, a %-directive then   *)
(* for its text; the terminator comes at the end.                          *)
Directive(x, d) ==
    LET one == IF x.free = 0 THEN sdsMakeRoomFor(x, 1) ELSE x
        room == IF d.pct /\ one.free < Len(d.text) THEN sdsMakeRoomFor(one, Len(d.text)) ELSE one
    IN  [buf |-> Put(room.buf, x.len, d.text),
         len |-> x.len + Len(d.text), free |-> room.free - Len(d.text)]
sdscatfmt(x, first, second) ==
    LET y == Directive(Directive(x, first), second)
    IN  [y EXCEPT !.buf = Put(@, y.len, <<NUL>>)]

sdstrim(x, cset) ==
    LET end == x.len - 1
        in(i) == x.buf[i + 1] \in cset \cup {NUL}       \* strchr finds the NUL too
        sp == Min({i \in 0..x.len : i = x.len \/ ~in(i)})
        ep == Max({0} \cup {i \in 1..end : ~in(i)})
        len == IF sp > (IF x.len = 0 THEN -1 ELSE ep) THEN 0 ELSE ep - sp + 1
    IN  [buf |-> Put(Put(x.buf, 0, SubSeq(x.buf, sp + 1, sp + len)), len, <<NUL>>),
         len |-> len, free |-> x.free + (x.len - len)]

sdsrange(x, start, end) ==
    LET from == IF start < 0 THEN Max({0, x.len + start}) ELSE start
        to == IF end < 0 THEN Max({0, x.len + end}) ELSE end
        clipped == IF to >= x.len THEN x.len - 1 ELSE to
        newlen == IF from > clipped \/ from >= x.len THEN 0 ELSE clipped - from + 1
    IN  IF x.len = 0 THEN x
        ELSE [buf |-> Put(Put(x.buf, 0, SubSeq(x.buf, from + 1, from + newlen)), newlen, <<NUL>>),
              len |-> newlen, free |-> x.free + (x.len - newlen)]

(* One character for another; sdstolower and sdstoupper are the same loop. *)
sdsmapchars(x, from, to) ==
    [x EXCEPT !.buf = [i \in DOMAIN @ |-> IF i <= x.len /\ @[i] = from THEN to ELSE @[i]]]
----------------------------------------------------------------------------
(* The promises, on the sequence the string stands for.                    *)
UpToNul(t) == SubSeq(t, 1, strlen(Append(t, NUL)))
Slice(t, start, end) ==
    LET at(i) == IF i < 0 THEN Max({0, Len(t) + i}) ELSE i
        kept == {i \in 0..(Len(t) - 1) : at(start) <= i /\ i <= at(end)}
    IN  IF kept = {} THEN <<>> ELSE SubSeq(t, Min(kept) + 1, Max(kept) + 1)
Trimmed(t, cset) ==
    LET kept == {i \in 1..Len(t) : t[i] \notin cset \cup {NUL}}
    IN  IF kept = {} THEN <<>> ELSE SubSeq(t, Min(kept), Max(kept))

Do(x, t) == s' = x /\ ref' = t

Append0 == {t \in Texts(Byte, MaxLen) : Len(t) + s.len <= MaxLen}
Plain == {t \in Append0 : NUL \notin {t[i] : i \in DOMAIN t}}

Init == \E t \in Texts(Byte, 1) : s = sdsnewlen(t) /\ ref = t

Cat == \E t \in Append0 : Do(sdscatlen(s, t), ref \o t)
Copy == \E t \in Texts(Byte, MaxLen) : Do(sdscpylen(s, t), t)
Printf == \E t \in Plain : Do(sdscatvprintf(s, t), ref \o t)
Fmt == \E t \in Plain, c \in Char :
    /\ Len(t) + s.len < MaxLen
    /\ \/ Do(sdscatfmt(s, [pct |-> FALSE, text |-> <<c>>], [pct |-> TRUE, text |-> t]),
             ref \o <<c>> \o t)
       \/ Do(sdscatfmt(s, [pct |-> TRUE, text |-> t], [pct |-> FALSE, text |-> <<c>>]),
             ref \o t \o <<c>>)
(* What readQueryFromClient does: room, bytes from the kernel, new length. *)
ReadInto == \E t \in Append0, spare \in 0..1 :
    LET room == sdsMakeRoomFor(s, Len(t) + spare)
    IN  Do(sdsIncrLen([room EXCEPT !.buf = Put(@, s.len, t)], Len(t)), ref \o t)
CutRight == \E n \in 1..s.len : Do(sdsIncrLen(s, 0 - n), SubSeq(ref, 1, Len(ref) - n))
Grow == \E n \in 0..MaxLen :
    Do(sdsgrowzero(s, n), ref \o [i \in 1..(n - Len(ref)) |-> NUL])
Clear == Do(sdsclear(s), <<>>)
Update == Do(sdsupdatelen(s), UpToNul(ref))
Shrink == Do(sdsRemoveFreeSpace(s), ref)
Room == \E n \in 0..MaxLen : s.len + n <= MaxLen /\ Do(sdsMakeRoomFor(s, n), ref)
Trim == \E c \in Char : Do(sdstrim(s, {c}), Trimmed(ref, {c}))
Subrange == \E a, b \in (0 - MaxLen - 1)..(MaxLen + 1) : Do(sdsrange(s, a, b), Slice(ref, a, b))
MapChars == \E a, b \in Char :
    Do(sdsmapchars(s, a, b), [i \in DOMAIN ref |-> IF ref[i] = a THEN b ELSE ref[i]])

Next == Cat \/ Copy \/ Printf \/ Fmt \/ ReadInto \/ CutRight \/ Grow \/ Clear
        \/ Update \/ Shrink \/ Room \/ Trim \/ Subrange \/ MapChars

Spec == Init /\ [][Next]_vars
----------------------------------------------------------------------------
(* The header tells the truth about the allocation: len, free and the NUL  *)
(* make up all of it, so nothing was written past its end and the next     *)
(* operation will not either.                                              *)
AllocExact == s.free >= 0 /\ Len(s.buf) = s.len + s.free + 1

(* Whatever was done before, the string holds the bytes its operations     *)
(* promise, none of them undefined, and ends in a NUL.                     *)
ContentsExact == SubSeq(s.buf, 1, s.len + 1) = Append(ref, NUL)
=============================================================================
