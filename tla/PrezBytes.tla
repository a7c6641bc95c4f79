----------------------------- MODULE PrezBytes ------------------------------
(***************************************************************************)
(* Blocks of bytes, for the structures that are kept in one allocation     *)
(* (ziplist.c, zipmap.c).  A block is a sequence, offsets count from 1.  A *)
(* byte has ByteBits bits, 8 in the code, which scales the limits of these *)
(* structures together.                                                    *)
(***************************************************************************)
EXTENDS Integers, SequencesExt

CONSTANT ByteBits

Byte == 2^ByteBits
Garbage == Byte           \* a byte nobody has written

At(mem, p) == IF p \in DOMAIN mem THEN mem[p] ELSE Garbage
Bytes(mem, p, n) == [i \in 1..n |-> At(mem, p + i - 1)]

memcpy(mem, p, bytes) ==
    [i \in DOMAIN mem |-> IF i \in p .. p + Len(bytes) - 1 THEN bytes[i - p + 1] ELSE mem[i]]

memmove(mem, to, from, n) ==
    [i \in DOMAIN mem |-> IF i \in to .. to + n - 1 THEN At(mem, from + i - to) ELSE mem[i]]

zrealloc(mem, len) == [i \in 1..len |-> At(mem, i)]

(* Integers are little endian whatever the machine (endianconv.h).         *)
RECURSIVE LittleEndian(_, _)
LittleEndian(n, width) ==
    IF width = 0 THEN <<>> ELSE <<n % Byte>> \o LittleEndian(n \div Byte, width - 1)
Unsigned(bytes) == FoldRight(LAMBDA b, acc : acc * Byte + b, bytes, 0)
Signed(bytes) ==
    FoldRight(LAMBDA b, acc : acc * Byte + b, bytes, IF Last(bytes) < Byte \div 2 THEN 0 ELSE -1)
=============================================================================
