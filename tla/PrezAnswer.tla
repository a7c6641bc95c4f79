----------------------------- MODULE PrezAnswer -----------------------------
(***************************************************************************)
(* What the addReply functions of networking.c write: each answer in the   *)
(* protocol, with its length where it has one, and next to it what the     *)
(* client is meant to read.  How the bytes are queued is in PrezReply.     *)
(* Characters are their ASCII codes, as in PrezText.                       *)
(***************************************************************************)
EXTENDS Integers, SequencesExt

CONSTANTS Lines,                \* texts of status replies and fixed errors
          Formatted,            \* texts of formatted errors: any character
          Blobs,                \* contents of bulk replies: any byte
          Numbers,
          LLONG_MAX,            \* scaled down, of a long as well
          SHARED_BULKHDR_LEN,   \* PREZ_SHARED_BULKHDR_LEN
          MaxAnswers            \* bound

VARIABLES out,                  \* the bytes written so far
          meant                 \* the answers given so far

vars == <<out, meant>>

Text == INSTANCE PrezText WITH use <- "number", text <- <<>>, Alphabet <- {}, MaxLen <- 0,
          Separators <- {}, Strings <- {}, Cwds <- {}
ll2string(n) == Text!ll2string(n)

CRLF == <<13, 10>>
PLUS == 43
MINUS == 45
COLON == 58
DOLLAR == 36
ASTERISK == 42
ERR == <<69, 82, 82, 32>>
Inf == <<105, 110, 102>>

(* What a client reads: a line, a bulk (or its absence), or an array.      *)
Answer(kind, bytes, elements) == [kind |-> kind, bytes |-> bytes, elements |-> elements]
Plain(kind, bytes) == Answer(kind, bytes, <<>>)
Bulk(bytes) == Plain("bulk", bytes)
NullBulk == Plain("null", <<>>)
----------------------------------------------------------------------------
(* The shared headers, one for each short length (createSharedObjects).    *)
sharedHeader(prefix) ==
    [j \in 0 .. SHARED_BULKHDR_LEN - 1 |-> <<prefix>> \o ll2string(j) \o CRLF]
nullbulk == <<DOLLAR, MINUS, 49>> \o CRLF
czero == <<COLON, 48>> \o CRLF
cone == <<COLON, 49>> \o CRLF

addReplyStatusLength(text) == <<PLUS>> \o text \o CRLF
addReplyErrorLength(text) == <<MINUS>> \o ERR \o text \o CRLF

\* "Make sure there are no newlines in the string."
oneLine(text) == [i \in DOMAIN text |-> IF text[i] \in {10, 13} THEN 32 ELSE text[i]]
addReplyErrorFormat(text) == addReplyErrorLength(oneLine(text))

addReplyLongLongWithPrefix(n, prefix) ==
    IF prefix \in {ASTERISK, DOLLAR} /\ n < SHARED_BULKHDR_LEN THEN sharedHeader(prefix)[n]
    ELSE <<prefix>> \o ll2string(n) \o CRLF

addReplyLongLong(n) ==
    IF n = 0 THEN czero ELSE IF n = 1 THEN cone ELSE addReplyLongLongWithPrefix(n, COLON)

addReplyMultiBulkLen(n) == addReplyLongLongWithPrefix(n, ASTERISK)

(* An object is a string, or a long kept in place of the pointer: then its *)
(* digits are counted.  -n is n for the least long, and / rounds to zero.  *)
Negated(n) == IF n = -LLONG_MAX - 1 THEN n ELSE -n
Tenth(n) == IF n < 0 THEN -((-n) \div 10) ELSE n \div 10
RECURSIVE digits(_)
digits(n) == IF Tenth(n) = 0 THEN 1 ELSE 1 + digits(Tenth(n))

\* Mutant: the sign is not counted.
lengthUnsigned(n) == digits(IF n < 0 THEN Negated(n) ELSE n)

decimalLength(n) == IF n < 0 THEN 1 + digits(Negated(n)) ELSE digits(n)

bulkOf(len, bytes) == addReplyLongLongWithPrefix(len, DOLLAR) \o bytes \o CRLF
addReplyBulkString(bytes) == bulkOf(Len(bytes), bytes)
addReplyBulkInteger(n) == bulkOf(decimalLength(n), ll2string(n))

\* strlen: a C string ends at its first NUL.
CString(bytes) ==
    LET nul == {i \in DOMAIN bytes : bytes[i] = 0}
    IN  IF nul = {} THEN bytes ELSE SubSeq(bytes, 1, Min(nul) - 1)
addReplyBulkCBuffer(bytes) == bulkOf(Len(bytes), bytes)
addReplyBulkCString(bytes) == addReplyBulkCBuffer(CString(bytes))
addReplyBulkLongLong(n) == addReplyBulkCBuffer(ll2string(n))

\* The infinities of addReplyDouble; other doubles go through snprintf.
addReplyInfinite(sign) == addReplyBulkCString(sign \o Inf)
----------------------------------------------------------------------------
Init == out = <<>> /\ meant = <<>>

Reply(bytes, answer) ==
    /\ Len(meant) < MaxAnswers
    /\ out' = out \o bytes /\ meant' = Append(meant, answer)

ReplyStatus(text) == Reply(addReplyStatusLength(text), Plain("status", text))
ReplyError(text) == Reply(addReplyErrorLength(text), Plain("error", ERR \o text))
ReplyErrorFormat(text) ==
    LET blank == [i \in DOMAIN text |-> IF text[i] \in {10, 13} THEN 32 ELSE text[i]]
    IN  Reply(addReplyErrorFormat(text), Plain("error", ERR \o blank))
ReplyLongLong(n) == Reply(addReplyLongLong(n), Plain("integer", ll2string(n)))
ReplyBulk(bytes) == Reply(addReplyBulkString(bytes), Bulk(bytes))
ReplyBulkInteger(n) == Reply(addReplyBulkInteger(n), Bulk(ll2string(n)))
ReplyBulkCString(bytes) == Reply(addReplyBulkCString(bytes), Bulk(CString(bytes)))
ReplyNullBulk == Reply(nullbulk, NullBulk)
ReplyBulkLongLong(n) == Reply(addReplyBulkLongLong(n), Bulk(ll2string(n)))
ReplyInfinite(sign) == Reply(addReplyInfinite(sign), Bulk(sign \o Inf))
ReplyArray(n, bytes) ==
    Reply(addReplyMultiBulkLen(n) \o FlattenSeq([i \in 1..n |-> addReplyBulkString(bytes)]),
          Answer("array", <<>>, [i \in 1..n |-> Bulk(bytes)]))

Next ==
    \/ \E text \in Lines : ReplyStatus(text) \/ ReplyError(text)
    \/ \E text \in Formatted : ReplyErrorFormat(text)
    \/ \E n \in Numbers : ReplyLongLong(n) \/ ReplyBulkInteger(n) \/ ReplyBulkLongLong(n)
    \/ \E bytes \in Blobs : ReplyBulk(bytes) \/ ReplyBulkCString(bytes)
    \/ \E n \in 0 .. SHARED_BULKHDR_LEN + 1, bytes \in Blobs : ReplyArray(n, bytes)
    \/ \E sign \in {<<>>, <<MINUS>>} : ReplyInfinite(sign)
    \/ ReplyNullBulk

Spec == Init /\ [][Next]_vars
----------------------------------------------------------------------------
(* A client that follows the protocol: the line from p ends at the first   *)
(* CR LF; a bulk has the announced number of bytes and a CR LF; an array   *)
(* the announced number of answers.                                        *)
RECURSIVE lineEnd(_)
lineEnd(p) == IF p >= Len(out) \/ SubSeq(out, p, p + 1) = CRLF THEN p ELSE lineEnd(p + 1)
Garbled == [at |-> Len(out) + 1, answer |-> Plain("garbled", <<>>)]

RECURSIVE readOne(_), readSome(_, _)
readOne(p) ==
    LET e == lineEnd(p)
        line == SubSeq(out, p + 1, e - 1)
        n == Text!string2ll(line)
        end == e + 2 + n.value
        some == readSome(e + 2, n.value)
        plain(kind) == [at |-> e + 2, answer |-> Plain(kind, line)]
    IN  IF e >= Len(out) THEN Garbled
        ELSE CASE out[p] = PLUS -> plain("status")
               [] out[p] = MINUS -> plain("error")
               [] out[p] = COLON /\ n.ok -> plain("integer")
               [] out[p] = DOLLAR /\ n.ok /\ n.value = -1 -> [at |-> e + 2, answer |-> NullBulk]
               [] out[p] = DOLLAR /\ n.ok /\ n.value >= 0 /\ SubSeq(out, end, end + 1) = CRLF
                    -> [at |-> end + 2, answer |-> Bulk(SubSeq(out, e + 2, end - 1))]
               [] out[p] = ASTERISK /\ n.ok /\ n.value >= 0
                    -> [at |-> some.at, answer |-> Answer("array", <<>>, some.answers)]
               [] OTHER -> Garbled
readSome(p, n) ==
    LET one == readOne(p)
        rest == readSome(one.at, n - 1)
    IN  IF n = 0 \/ p > Len(out) THEN [at |-> p, answers |-> <<>>]
        ELSE [at |-> rest.at, answers |-> <<one.answer>> \o rest.answers]

(* The client reads exactly the answers that were given, in order, with    *)
(* nothing left over, whatever bytes they hold: no length is wrong and no  *)
(* text breaks the line it is on, so one answer never runs into the next.  *)
AnswersReadBack == readSome(1, Len(out)).answers = meant
=============================================================================
