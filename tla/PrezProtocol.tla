---------------------------- MODULE PrezProtocol ----------------------------
(***************************************************************************)
(* How a server turns the bytes of one client connection into commands     *)
(* (networking.c: readQueryFromClient, processInputBuffer and the two      *)
(* parsers under it).  The peer sends whole requests; the kernel hands     *)
(* them over in pieces of any size, and the parsers keep their place in    *)
(* querybuf, multibulklen, bulklen and argv from one piece to the next.    *)
(*                                                                         *)
(* A byte is a pair: <<"*", n>> and <<"$", n>> stand for the text of a     *)
(* length line, <<"w", x>> for a word of an inline request, <<"b", x>> for *)
(* a byte of a bulk argument, CR and LF for themselves.                    *)
(***************************************************************************)
EXTENDS Integers, SequencesExt

CONSTANTS Requests,          \* requests the peer may send
          MaxRequests,       \* bound on how many it sends
          IOBUF_LEN,         \* PREZ_IOBUF_LEN
          MBULK_BIG_ARG,     \* PREZ_MBULK_BIG_ARG
          INLINE_MAX_SIZE,   \* PREZ_INLINE_MAX_SIZE
          MaxMultibulk,      \* 1024*1024
          MaxBulk,           \* 512*1024*1024
          QUERYBUF_LEN,      \* client_max_querybuf_len
          Writes             \* names of the commands a leader queues

VARIABLES c,                 \* the client structure
          wire,              \* bytes sent and not yet read
          sent,              \* requests sent
          executed           \* argument vectors handed to processCommand

vars == <<c, wire, sent, executed>>

CR == <<"cr", 0>>
LF == <<"lf", 0>>

(* The bytes of a request.                                                 *)
Line(b) == <<b, CR, LF>>
Bulk(arg) == Line(<<"$", Len(arg)>>) \o arg \o <<CR, LF>>
Words(r) == [i \in DOMAIN r.words |-> <<"w", r.words[i]>>]
Bytes(r) ==
    CASE r.kind = "multibulk" -> Line(<<"*", Len(r.args)>>) \o FlattenSeq([i \in DOMAIN r.args |-> Bulk(r.args[i])])
      [] r.kind = "inline"    -> Words(r) \o <<CR, LF>>
      [] r.kind = "newline"   -> Words(r) \o <<LF>>
      [] r.kind = "length"    -> Line(<<"*", r.n>>)
      [] r.kind = "bulk"      -> Line(<<"*", 1>>) \o Line(<<"$", r.n>>)
      [] r.kind = "nodollar"  -> Line(<<"*", 1>>) \o Line(<<"w", "x">>)

(* What the peer means by its requests: the commands, up to a request that *)
(* breaks the protocol.                                                    *)
Malformed(r) ==
    \/ r.kind = "length" /\ r.n > MaxMultibulk
    \/ r.kind = "bulk" /\ r.n > MaxBulk
    \/ r.kind = "nodollar"
    \/ r.kind = "inline" /\ "unbalanced" \in Range(r.words)
Command(r) ==
    IF r.kind = "multibulk" THEN r.args
    ELSE IF r.kind \in {"inline", "newline"} THEN [i \in DOMAIN r.words |-> <<Words(r)[i]>>]
    ELSE <<>>
WellFormed(rs) ==
    {k \in 0..Len(rs) : \A i \in 1..k : ~Malformed(rs[i])}
Meant(rs) ==
    LET k == Max(WellFormed(rs))
    IN  SelectSeq([i \in 1..k |-> Command(rs[i])], LAMBDA a : a # <<>>)
----------------------------------------------------------------------------
(* Offset of the first b at or after offset pos, -1 for NULL.              *)
strchr(q, pos, b) ==
    LET at == {i \in pos..(Len(q) - 1) : q[i + 1] = b}
    IN  IF at = {} THEN -1 ELSE Min(at)

sdsrange(q, pos) == SubSeq(q, pos + 1, Len(q))

(* setProtocolError, after the error reply.                                *)
setProtocolError(cl, pos) ==
    [cl EXCEPT !.close_after_reply = TRUE, !.querybuf = sdsrange(@, pos)]

resetClient(cl) ==
    [cl EXCEPT !.argv = <<>>, !.reqtype = "none", !.multibulklen = 0, !.bulklen = -1]

(* A parser's answer: the client and whether a command is complete.        *)
OK(cl) == [ok |-> TRUE, cl |-> cl]
ERR(cl) == [ok |-> FALSE, cl |-> cl]

(* One line, split into its words; querylen does not count the CR.         *)
processInlineBuffer(cl) ==
    LET q == cl.querybuf
        newline == strchr(q, 0, LF)
        querylen == IF newline > 0 /\ q[newline] = CR THEN newline - 1 ELSE newline
        line == SubSeq(q, 1, querylen)
    IN  IF newline = -1
        THEN ERR(IF Len(q) > INLINE_MAX_SIZE THEN setProtocolError(cl, 0) ELSE cl)
        ELSE IF <<"w", "unbalanced">> \in Range(line) THEN ERR(setProtocolError(cl, 0))
        ELSE OK([cl EXCEPT !.querybuf = sdsrange(@, querylen + 2),
                           !.argv = [i \in DOMAIN line |-> <<line[i]>>]])

\* Mutant: the CRLF after the argument is not waited for.
argWithoutCrlf(cl, pos) == Len(cl.querybuf) - pos >= cl.bulklen

\* The argument at offset pos is there, with its CRLF.
ArgIsThere(cl, pos) == Len(cl.querybuf) - pos >= cl.bulklen + 2

(* The loop over the arguments, from offset pos of the query buffer.       *)
RECURSIVE readArguments(_, _)
readArguments(cl, pos) ==
    LET q == cl.querybuf
        newline == strchr(q, pos, CR)
        trimmed == [cl EXCEPT !.querybuf = sdsrange(@, pos)]
        ll == q[pos + 1][2]
        after == newline + 2
    IN  IF cl.multibulklen = 0 THEN OK(trimmed)
        ELSE IF cl.bulklen = -1
        THEN IF newline = -1
             THEN ERR(IF Len(q) > INLINE_MAX_SIZE THEN setProtocolError(cl, 0) ELSE trimmed)
             ELSE IF newline > Len(q) - 2 THEN ERR(trimmed)
             ELSE IF q[pos + 1][1] # "$" \/ ll < 0 \/ ll > MaxBulk
             THEN ERR(setProtocolError(cl, pos))
             ELSE IF ll >= MBULK_BIG_ARG
             THEN readArguments([cl EXCEPT !.bulklen = ll, !.querybuf = sdsrange(@, after)], 0)
             ELSE readArguments([cl EXCEPT !.bulklen = ll], after)
        ELSE IF ~ArgIsThere(cl, pos) THEN ERR(trimmed)
        ELSE LET read == [cl EXCEPT !.argv = Append(@, SubSeq(q, pos + 1, pos + cl.bulklen)),
                                    !.bulklen = -1, !.multibulklen = @ - 1]
             IN  IF pos = 0 /\ cl.bulklen >= MBULK_BIG_ARG /\ Len(q) = cl.bulklen + 2
                 THEN readArguments([read EXCEPT !.querybuf = <<>>], 0)
                 ELSE readArguments(read, pos + cl.bulklen + 2)

processMultibulkBuffer(cl) ==
    LET q == cl.querybuf
        newline == strchr(q, 0, CR)
        ll == q[1][2]
        pos == newline + 2
    IN  IF cl.multibulklen > 0 THEN readArguments(cl, 0)
        ELSE IF newline = -1
        THEN ERR(IF Len(q) > INLINE_MAX_SIZE THEN setProtocolError(cl, 0) ELSE cl)
        ELSE IF newline > Len(q) - 2 THEN ERR(cl)
        ELSE IF ll > MaxMultibulk THEN ERR(setProtocolError(cl, 0))
        ELSE IF ll <= 0 THEN OK([cl EXCEPT !.querybuf = sdsrange(@, pos)])
        ELSE readArguments([cl EXCEPT !.multibulklen = ll], pos)

(* processCommand, as far as the parsers see it: a write that is queued    *)
(* returns PREZ_ERR and keeps the client as it is until it is applied,     *)
(* any other command is done with.  cl.run collects the commands.          *)
Write(argv) == argv # <<>> /\ argv[1] \in Writes
processCommand(cl) ==
    LET ran == [cl EXCEPT !.run = Append(@, cl.argv)]
    IN  IF Write(cl.argv) THEN ran ELSE resetClient(ran)

(* The loop of processInputBuffer.                                         *)
RECURSIVE processInputBuffer(_)
processInputBuffer(cl) ==
    LET typed == IF cl.reqtype # "none" THEN cl
                 ELSE [cl EXCEPT !.reqtype = IF cl.querybuf[1][1] = "*" THEN "multibulk" ELSE "inline"]
        r == IF typed.reqtype = "inline" THEN processInlineBuffer(typed)
             ELSE processMultibulkBuffer(typed)
    IN  IF cl.querybuf = <<>> \/ cl.close_after_reply THEN cl
        ELSE IF ~r.ok THEN r.cl
        ELSE processInputBuffer(IF r.cl.argv = <<>> THEN resetClient(r.cl)
                                ELSE processCommand(r.cl))

(* How much readQueryFromClient asks read() for.                           *)
readlen ==
    LET remaining == c.bulklen + 2 - Len(c.querybuf)
    IN  IF /\ c.reqtype = "multibulk" /\ c.multibulklen > 0
           /\ c.bulklen >= MBULK_BIG_ARG /\ remaining < IOBUF_LEN
        THEN remaining ELSE IOBUF_LEN
----------------------------------------------------------------------------
Init ==
    /\ c = [querybuf |-> <<>>, reqtype |-> "none", multibulklen |-> 0, bulklen |-> -1,
            argv |-> <<>>, close_after_reply |-> FALSE, freed |-> FALSE, run |-> <<>>]
    /\ wire = <<>> /\ sent = <<>> /\ executed = <<>>

(* The peer waits for the answer to a write before it sends on (one that   *)
(* does not is in PrezClient).                                             *)
Queued == c.multibulklen = 0 /\ c.argv # <<>>
Awaited(rs) == SelectSeq(Meant(rs), Write)

Send(r) ==
    /\ Len(sent) < MaxRequests
    /\ ~Queued /\ Awaited(sent) = SelectSeq(executed, Write)
    /\ wire' = wire \o Bytes(r)
    /\ sent' = Append(sent, r)
    /\ UNCHANGED <<c, executed>>

(* read() returns n of the bytes that have arrived.  A client whose buffer *)
(* grows past the limit is freed.                                          *)
readQueryFromClient(n) ==
    /\ ~c.freed
    /\ n <= readlen /\ n <= Len(wire)
    /\ LET read == [c EXCEPT !.querybuf = @ \o SubSeq(wire, 1, n)]
           d == IF Len(read.querybuf) > QUERYBUF_LEN THEN [read EXCEPT !.freed = TRUE]
                ELSE processInputBuffer(read)
       IN  /\ executed' = executed \o d.run
           /\ c' = [d EXCEPT !.run = <<>>]
    /\ wire' = SubSeq(wire, n + 1, Len(wire))
    /\ UNCHANGED sent

\* logApply: call(c) answers the write and resets the client.
Applied ==
    /\ Queued /\ ~c.freed
    /\ c' = resetClient(c)
    /\ UNCHANGED <<wire, sent, executed>>

Next ==
    \/ \E r \in Requests : Send(r)
    \/ \E n \in 1..IOBUF_LEN : readQueryFromClient(n)
    \/ Applied

Spec == Init /\ [][Next]_vars
----------------------------------------------------------------------------
CrLfBetween(rs) == \A i \in 1..(Len(rs) - 1) : rs[i].kind # "newline"

(* However the stream is cut into reads, the commands executed are the     *)
(* ones the peer meant, in order, with the arguments it gave; when all of  *)
(* the stream has been read none is missing and nothing is left over, and  *)
(* a request that breaks the protocol is where execution stops.  After a   *)
(* line that ends with a bare LF the first byte of what follows in the     *)
(* buffer is skipped (sdsrange by querylen+2), so such a line comes last.  *)
(* The parsers cut back what they have used, so that the limit on the      *)
(* buffer is only ever reached by a peer that broke the protocol.          *)
FramingExact ==
    CrLfBetween(sent) =>
      /\ IsPrefix(executed, Meant(sent))
      /\ wire = <<>> => executed = Meant(sent)
      /\ c.freed => c.close_after_reply
      /\ c.close_after_reply => \E i \in 1..Len(sent) : Malformed(sent[i])
      /\ wire = <<>> /\ ~c.close_after_reply => c.querybuf = <<>>

(* read() is never asked for zero bytes or fewer: it would return 0, which *)
(* readQueryFromClient takes for a closed connection.                      *)
ReadAsksForBytes == ~c.close_after_reply => readlen > 0
=============================================================================
