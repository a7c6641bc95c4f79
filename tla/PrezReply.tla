----------------------------- MODULE PrezReply ------------------------------
(***************************************************************************)
(* The output side of one client (networking.c): replies are copied into   *)
(* the static buffer while the reply list is empty and it has room, and    *)
(* queued on the list after that, glued to the last object of the list     *)
(* when they fit.  Objects on the list may be shared with the key space or *)
(* with other replies.  The write handler sends as much as the socket      *)
(* takes and comes back for the rest; reply_bytes accounts for the list    *)
(* and is held against the output buffer limits.                           *)
(***************************************************************************)
EXTENDS Integers, SequencesExt

CONSTANTS Shared,             \* objects owned elsewhere too (values, shared.ok, ...)
          SharedLen,          \* [Shared -> Nat]: their length
          Embedded,           \* those of them in the EMBSTR encoding
          Own,                \* marks an object only this reply list holds
          Lengths,            \* lengths of replies that are not objects
          REPLY_CHUNK_BYTES,  \* PREZ_REPLY_CHUNK_BYTES, and sizeof(c->buf)
          EMBSTR_SIZE_LIMIT,  \* PREZ_ENCODING_EMBSTR_SIZE_LIMIT
          ItemSize,           \* sizeof(listNode)+sizeof(robj)
          HardLimit, SoftLimit, SoftSeconds,
          MaxOps, MaxTime     \* bounds

VARIABLES c,                  \* the client structure
          objs,               \* contents of the shared objects
          owed,               \* bytes replied and not yet sent, in order
          unixtime, ops

vars == <<c, objs, owed, unixtime, ops>>

Contents(o) == [i \in 1..SharedLen[o] |-> <<o, i>>]
NewBytes(n) == [i \in 1..n |-> <<ops, i>>]

(* An object of the list: ptr is NULL until a deferred length is set.      *)
Raw(data) == [of |-> Own, enc |-> "raw", ptr |-> TRUE, data |-> data, alloc |-> Len(data) + 1]
createStringObject(data) ==
    IF Len(data) <= EMBSTR_SIZE_LIMIT THEN [Raw(data) EXCEPT !.enc = "embstr", !.alloc = 0]
    ELSE Raw(data)
SharedObject(o) ==
    [Raw(<<>>) EXCEPT !.of = o, !.enc = IF o \in Embedded THEN "embstr" ELSE "raw",
                      !.alloc = IF o \in Embedded THEN 0 ELSE SharedLen[o] + 1]
Data(s, o) == IF o.of = Own THEN o.data ELSE s.objs[o.of]

(* getStringObjectSdsUsedMemory, and sdscatlen with its preallocation.     *)
UsedMemory(s, o) == IF o.enc = "embstr" THEN Len(Data(s, o)) ELSE o.alloc
Room(o, data) == IF o.alloc - 1 >= Len(data) THEN o.alloc ELSE 2 * Len(data) + 1

listSum(s) == FoldSeq(LAMBDA o, sum : sum + UsedMemory(s, o), 0,
                      SelectSeq(s.c.reply, LAMBDA o : o.ptr))

Here == [c |-> c, objs |-> objs, owed |-> owed]
Owe(s, data) == [s EXCEPT !.owed = @ \o data]

(* checkClientOutputBufferLimits and the asynchronous close.               *)
UsedMem(cl) == cl.reply_bytes + ItemSize * Len(cl.reply)
asyncCloseClientOnOutputBufferLimitReached(s) ==
    LET soft == UsedMem(s.c) >= SoftLimit
        since == s.c.soft_time
        over == soft /\ since # 0 /\ unixtime - since > SoftSeconds
        t == [s EXCEPT !.c.soft_time = IF ~soft THEN 0 ELSE IF since = 0 THEN unixtime ELSE since]
    IN  IF s.c.reply_bytes = 0 \/ s.c.close_asap THEN s
        ELSE [t EXCEPT !.c.close_asap = over \/ UsedMem(s.c) >= HardLimit]

\* Mutant: the last object is taken as it is.
keepLastObject(s) == s

(* dupLastObjectIfNeeded: an object that others hold too is replaced by a  *)
(* copy, at the end of the list.                                           *)
dupLastObjectIfNeeded(s) ==
    LET n == Len(s.c.reply)
        tail == s.c.reply[n]
    IN  IF tail.of = Own THEN s ELSE [s EXCEPT !.c.reply[n] = Raw(Data(s, tail))]

(* sdscatlen on the last object of the list, wherever its bytes are.       *)
catToLast(s, data) ==
    LET n == Len(s.c.reply)
        tail == s.c.reply[n]
        cat == Data(s, tail) \o data
        t == [s EXCEPT !.c.reply[n].alloc = Room(tail, cat)]
    IN  IF tail.of = Own THEN [t EXCEPT !.c.reply[n].data = cat]
        ELSE [t EXCEPT !.objs[tail.of] = cat]

\* Mutant: the memory of the last object is taken off and not put back.
glueUncounted(s, data) ==
    [catToLast(dupLastObjectIfNeeded(s), data) EXCEPT !.c.reply_bytes = @ - Last(s.c.reply).alloc]

\* Append to the last object of the list.
glueToLast(s, data) ==
    LET t == catToLast(dupLastObjectIfNeeded(s), data)
    IN  [t EXCEPT !.c.reply_bytes = @ - Last(s.c.reply).alloc + Last(t.c.reply).alloc]

(* _addReplyObjectToList, _addReplySdsToList, _addReplyStringToList: what  *)
(* differs is the object o a new list node gets.                           *)
addToList(s, o, data) ==
    LET n == Len(s.c.reply)
        tail == s.c.reply[n]
        fits == n > 0 /\ tail.ptr /\ tail.enc = "raw"
                /\ Len(Data(s, tail)) + Len(data) <= REPLY_CHUNK_BYTES
        t == IF fits THEN glueToLast(s, data)
             ELSE [s EXCEPT !.c.reply = Append(@, o), !.c.reply_bytes = @ + UsedMemory(s, o)]
    IN  asyncCloseClientOnOutputBufferLimitReached(t)

(* prepareClientToWrite installs the write handler on the first reply; the *)
(* static buffer takes what fits while the list is empty; a client that is *)
(* to be closed gets nothing more.                                         *)
prepareClientToWrite(s) ==
    IF s.c.buf = <<>> /\ s.c.reply = <<>> THEN [s EXCEPT !.c.writable = TRUE] ELSE s

\* _addReplyToBuffer takes the reply.
InBuffer(s, data) == s.c.reply = <<>> /\ Len(s.c.buf) + Len(data) <= REPLY_CHUNK_BYTES

add(s, o, data) ==
    LET t == prepareClientToWrite(s)
    IN  IF s.c.close_after_reply THEN t
        ELSE IF InBuffer(s, data) THEN Owe([t EXCEPT !.c.buf = @ \o data], data)
        ELSE Owe(addToList(t, o, data), data)

addReply(s, o) == add(s, SharedObject(o), s.objs[o])
addReplySds(s, data) == add(s, Raw(data), data)
addReplyString(s, data) == add(s, createStringObject(data), data)

(* addDeferredMultiBulkLength, the elements, setDeferredMultiBulkLength:   *)
(* the header is written in front of elements that are already queued, and *)
(* glued to the next object.                                               *)
addDeferred(s) ==
    LET t == prepareClientToWrite(s)
    IN  [t EXCEPT !.c.reply = Append(@, [Raw(<<>>) EXCEPT !.ptr = FALSE, !.alloc = 0])]

setDeferred(s, at, header) ==
    LET len == [Raw(header) EXCEPT !.alloc = Len(header) + 1]
        next == s.c.reply[at + 1]
        glue == at < Len(s.c.reply) /\ next.ptr
        cat == header \o Data(s, next)
        glued == [len EXCEPT !.data = cat, !.alloc = Room(len, cat)]
        t == IF glue
             THEN [s EXCEPT !.c.reply = RemoveAt([@ EXCEPT ![at] = glued], at + 1),
                            !.c.reply_bytes = @ - UsedMemory(s, next) + glued.alloc]
             ELSE [s EXCEPT !.c.reply[at] = len, !.c.reply_bytes = @ + len.alloc]
    IN  asyncCloseClientOnOutputBufferLimitReached(t)

(* sendReplyToClient with a socket that takes n bytes: the buffer first,   *)
(* then the list head, sentlen counting into whichever is being sent.      *)
RECURSIVE drain(_, _)
drain(s, n) ==
    LET inBuf == s.c.buf # <<>>
        o == s.c.reply[1]
        len == IF inBuf THEN Len(s.c.buf) ELSE Len(Data(s, o))
        k == IF n < len - s.c.sentlen THEN n ELSE len - s.c.sentlen
        whole == s.c.sentlen + k = len
        sentBuf == [s EXCEPT !.c.buf = <<>>, !.c.sentlen = 0]
        sentObj == [s EXCEPT !.c.reply = Tail(@), !.c.sentlen = 0,
                             !.c.reply_bytes = @ - UsedMemory(s, o)]
    IN  IF n = 0 \/ (~inBuf /\ s.c.reply = <<>>) THEN s
        ELSE IF ~whole THEN [s EXCEPT !.c.sentlen = @ + k]
        ELSE drain(IF inBuf THEN sentBuf ELSE sentObj, n - k)

Unsent(s) ==
    LET list == FlattenSeq([i \in DOMAIN s.c.reply |-> Data(s, s.c.reply[i])])
        all == s.c.buf \o list
    IN  SubSeq(all, s.c.sentlen + 1, Len(all))
----------------------------------------------------------------------------
Init ==
    /\ c = [st |-> "open", buf |-> <<>>, reply |-> <<>>, sentlen |-> 0, reply_bytes |-> 0,
            close_after_reply |-> FALSE, close_asap |-> FALSE, soft_time |-> 0, writable |-> FALSE]
    /\ objs = [o \in Shared |-> Contents(o)]
    /\ owed = <<>> /\ unixtime = 1 /\ ops = 0

Reply(s) ==
    /\ c.st = "open" /\ ops < MaxOps
    /\ c' = s.c /\ objs' = s.objs /\ owed' = s.owed
    /\ ops' = ops + 1 /\ UNCHANGED unixtime

ReplyObject(o) == Reply(addReply(Here, o))
ReplySds(n) == Reply(addReplySds(Here, NewBytes(n)))
ReplyString(n) == Reply(addReplyString(Here, NewBytes(n)))

(* An error reply after which the connection is closed (setProtocolError). *)
ReplyErrorAndClose(n) ==
    LET s == addReplyString(Here, NewBytes(n))
    IN  Reply([s EXCEPT !.c.close_after_reply = TRUE])

(* A multi bulk reply of one element whose length is set at the end; the   *)
(* header goes out before the element.                                     *)
ReplyDeferred(o) ==
    LET s == addDeferred(Here)
        at == Len(s.c.reply)
        header == NewBytes(1)
        t == setDeferred(addReply(s, o), at, header)
    IN  /\ ~c.close_after_reply
        /\ Reply([t EXCEPT !.owed = owed \o header \o objs[o]])

sendReplyToClient(n) ==
    LET s == drain(Here, n)
        done == s.c.buf = <<>> /\ s.c.reply = <<>>
    IN  /\ c.st = "open" /\ c.writable
        /\ n <= Len(owed)
        /\ c' = [s.c EXCEPT !.writable = ~done,
                            !.st = IF done /\ c.close_after_reply THEN "freed" ELSE "open"]
        /\ owed' = SubSeq(owed, n + 1, Len(owed))
        /\ UNCHANGED <<objs, unixtime, ops>>

Tick ==
    /\ unixtime < MaxTime
    /\ unixtime' = unixtime + 1
    /\ UNCHANGED <<c, objs, owed, ops>>

SendSome == \E n \in 0..Len(owed) : sendReplyToClient(n)

Next ==
    \/ \E o \in Shared : ReplyObject(o)
    \/ \E n \in Lengths : ReplySds(n)
    \/ \E n \in Lengths : ReplyString(n)
    \/ \E n \in Lengths : ReplyErrorAndClose(n)
    \/ \E o \in Shared : ReplyDeferred(o)
    \/ SendSome
    \/ Tick

Spec == Init /\ [][Next]_vars
----------------------------------------------------------------------------
(* What the buffer and the list still hold, from sentlen on, is exactly    *)
(* what was replied and not sent: no byte is lost, repeated or out of      *)
(* order, however replies and partial writes interleave.                   *)
OwedIsQueued == c.st = "open" => Unsent(Here) = owed

(* Objects that others hold too are never written to through the list.     *)
SharedUntouched == \A o \in Shared : objs[o] = Contents(o)

(* reply_bytes is the memory of the objects on the list, so the output     *)
(* limits act on the truth and it never wraps below zero.                  *)
Accounted == c.reply_bytes = listSum(Here)

(* While something is to be sent the write handler is installed, so the    *)
(* event loop will come back for it; so will it for a client to be closed  *)
(* after its reply.                                                        *)
WriteHandlerInstalled ==
    c.st = "open" /\ (owed # <<>> \/ c.close_after_reply) => c.writable

(* A client whose queued replies reach the hard limit has been scheduled   *)
(* for closing.                                                            *)
HardLimitCloses == UsedMem(c) >= HardLimit => c.close_asap
=============================================================================
