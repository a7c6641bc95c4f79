------------------------------ MODULE PrezBus ------------------------------
(***************************************************************************)
(* One link of the cluster bus, byte by byte: the send buffer and its      *)
(* write handler, the socket, the reader that asks for the length first    *)
(* and then for the rest of the packet, the length checks on each packet,  *)
(* and the loss of the link with reconnection by clusterCron.  Side "out"  *)
(* is the node that connects (it knows the peer: link->node), side "in"    *)
(* the node that accepts; requests go out, answers come back on the link.  *)
(***************************************************************************)
EXTENDS Integers, Sequences, SequencesExt, FiniteSets, FiniteSetsExt

CONSTANTS HDR,            \* the 8 bytes with signature and length, scaled down
          FIXED,          \* CLUSTERMSG_MIN_LEN
          BODY,           \* [type -> Nat]: the type's struct without its entries
          ENTRY,          \* sizeof(logEntry)
          MaxEntries,     \* log_max_entries_per_request
          MaxSent,        \* bound on the requests sent on a connection
          MaxConns        \* bound on the connections made

VARIABLES link,     \* [Side -> BOOLEAN]: the side has a clusterLink
          sndbuf, writable, rcvbuf,   \* per side: the buffers and the write event
          net,      \* [Side -> Seq(bytes)]: sent by the side, not yet read
          sent,     \* [Side -> Seq(messages)]: given to clusterSendMessage
          handled,  \* [Side -> Seq(messages)]: packets passed on to a handler
          dropped,  \* [Side -> Nat]: packets refused, by their header or read whole
          conns

vars == <<link, sndbuf, writable, rcvbuf, net, sent, handled, dropped, conns>>

Side == {"out", "in"}
Peer(s) == IF s = "out" THEN "in" ELSE "out"
Requests == {"VOTEREQUEST", "APPENDENTRIES"}
Answer(type) == IF type = "VOTEREQUEST" THEN "VOTEREQUEST_RESP" ELSE "APPENDENTRIES_RESP"

\* Mutant: the entry count is left out of an AppendEntries message's length.
flatLength(type, count) == FIXED + BODY[type]

\* clusterBuildMessageHdr, and the length clusterSendAppendEntries computes.
TotLen(type, count) ==
    FIXED + BODY[type] + (IF type = "APPENDENTRIES" THEN count * ENTRY ELSE 0)

(* The bytes on the wire: each names its message, its place in it, and     *)
(* carries the fields a reader can take from the part it has.              *)
Message(type, count) == [type |-> type, count |-> count, totlen |-> TotLen(type, count)]
Bytes(m) == [i \in 1..m.totlen |-> [m |-> m, i |-> i]]

----------------------------------------------------------------------------
clusterSendMessage(s, m) ==
    /\ writable' = [writable EXCEPT ![s] = @ \/ (sndbuf[s] = <<>> /\ m.totlen # 0)]
    /\ sndbuf' = [sndbuf EXCEPT ![s] = @ \o Bytes(m)]
    /\ sent' = [sent EXCEPT ![s] = Append(@, m)]

(* clusterSendRequestVote through clusterBroadcastMessage, and             *)
(* clusterSendAppendEntries: both need the node's link.                    *)
SendRequest(m) ==
    /\ link["out"]
    /\ Len(sent["out"]) < MaxSent
    /\ clusterSendMessage("out", m)
    /\ UNCHANGED <<link, rcvbuf, net, handled, dropped, conns>>

SendRequests ==
    \/ SendRequest(Message("VOTEREQUEST", 0))
    \/ \E count \in 0..MaxEntries : SendRequest(Message("APPENDENTRIES", count))

(* freeClusterLink: events off, buffers gone, socket closed, node->link    *)
(* NULL.  Bytes already in the socket can still be read by the peer.       *)
freeClusterLink(s) ==
    /\ link' = [link EXCEPT ![s] = FALSE]
    /\ sndbuf' = [sndbuf EXCEPT ![s] = <<>>]
    /\ rcvbuf' = [rcvbuf EXCEPT ![s] = <<>>]
    /\ writable' = [writable EXCEPT ![s] = FALSE]

(* clusterWriteHandler: some bytes go out; the event goes with the last.   *)
clusterWriteHandler(s) ==
    /\ link[s] /\ writable[s]
    /\ \E n \in 1..Len(sndbuf[s]) :
        /\ net' = [net EXCEPT ![s] = IF link[Peer(s)] THEN @ \o SubSeq(sndbuf[s], 1, n) ELSE @]
        /\ sndbuf' = [sndbuf EXCEPT ![s] = SubSeq(@, n + 1, Len(@))]
        /\ writable' = [writable EXCEPT ![s] = n < Len(sndbuf[s])]
    /\ UNCHANGED <<link, rcvbuf, sent, handled, dropped, conns>>

(* write() or read() fails: the link is dropped with what it holds. *)
handleLinkIOError(s) ==
    /\ link[s]
    /\ freeClusterLink(s)
    /\ net' = [net EXCEPT ![Peer(s)] = <<>>]
    /\ UNCHANGED <<sent, handled, dropped, conns>>

----------------------------------------------------------------------------
(* Reading. *)

\* How many bytes clusterReadHandler asks for next.
readlen(buf) ==
    IF Len(buf) < HDR THEN HDR - Len(buf)
    ELSE Min({buf[1].m.totlen - Len(buf),
              FIXED + Max({BODY[t] : t \in DOMAIN BODY}) + MaxEntries * ENTRY})

(* The check made when exactly the header is there.  The signature, and    *)
(* the version clusterProcessPacket looks at, are constants that           *)
(* clusterBuildMessageHdr writes in every message.                         *)
SaneHeader(buf) == Len(buf) = HDR => buf[1].m.totlen >= FIXED

(* clusterProcessPacket's checks: the length the type and the entry count  *)
(* call for.                                                               *)
explen(m) ==
    FIXED + BODY[m.type] + (IF m.type = "APPENDENTRIES" THEN m.count * ENTRY ELSE 0)
Accepted(buf) ==
    /\ buf[1].m.totlen <= Len(buf)
    /\ buf[1].m.totlen = explen(buf[1].m)

(* The state a reader carries round its loop over the `avail' bytes that   *)
(* have arrived: what it holds, the packets handled, the answers they      *)
(* cause, in order, the packets refused, and whether a header was not sane *)
(* (the link goes, with what it holds).                                    *)
ReadStep(r) ==
    LET n == Min({readlen(r.buf), Len(r.avail)})
        buf == r.buf \o SubSeq(r.avail, 1, n)
        rest == SubSeq(r.avail, n + 1, Len(r.avail))
        whole == Len(buf) >= HDR /\ Len(buf) = buf[1].m.totlen
        ok == whole /\ Accepted(buf)
    IN  IF ~SaneHeader(r.buf) THEN [r EXCEPT !.avail = <<>>, !.broken = TRUE]
        ELSE [avail |-> rest,
              buf |-> IF whole THEN <<>> ELSE buf,
              handled |-> IF ok THEN Append(r.handled, buf[1].m) ELSE r.handled,
              dropped |-> IF whole /\ ~ok THEN r.dropped + 1 ELSE r.dropped,
              broken |-> FALSE]

RECURSIVE ReadLoop(_)
ReadLoop(r) ==
    IF r.avail = <<>> THEN r ELSE CHOOSE z \in {ReadLoop(x) : x \in {ReadStep(r)}} : TRUE

\* What the handlers of those packets send back.
Answers(ms) ==
    LET asks == SelectSeq(ms, LAMBDA m : m.type \in Requests)
    IN  [i \in DOMAIN asks |-> Message(Answer(asks[i].type), 0)]

(* The n bytes that have arrived are read, packet by packet; each request  *)
(* is answered on the same link by clusterSendMessage.  The next header is *)
(* looked at before the read that finds nothing more.                      *)
ReadArrived(s, n) ==
    \E r \in {ReadLoop([avail |-> SubSeq(net[Peer(s)], 1, n), buf |-> rcvbuf[s],
                        handled |-> <<>>, dropped |-> 0, broken |-> FALSE])} :
        LET out == Answers(r.handled)
            broken == r.broken \/ ~SaneHeader(r.buf)
        IN  /\ net' = [net EXCEPT ![Peer(s)] = IF broken THEN <<>> ELSE SubSeq(@, n + 1, Len(@))]
            /\ handled' = [handled EXCEPT ![s] = @ \o r.handled]
            /\ dropped' = [dropped EXCEPT ![s] = @ + r.dropped + (IF broken THEN 1 ELSE 0)]
            /\ sent' = [sent EXCEPT ![s] = @ \o out]
            /\ UNCHANGED conns
            /\ IF broken THEN freeClusterLink(s)
               ELSE /\ rcvbuf' = [rcvbuf EXCEPT ![s] = r.buf]
                    /\ sndbuf' = [sndbuf EXCEPT ![s] = @ \o FlattenSeq([i \in DOMAIN out |-> Bytes(out[i])])]
                    /\ writable' = [writable EXCEPT ![s] = @ \/ out # <<>>]
                    /\ UNCHANGED link

\* Mutant: the reader does not touch a socket with less than a header in it.
readWithHeader(s) == link[s] /\ \E n \in HDR..Len(net[Peer(s)]) : ReadArrived(s, n)

\* clusterReadHandler: up to EAGAIN, wherever in the stream that comes.
clusterReadHandler(s) == link[s] /\ \E n \in 1..Len(net[Peer(s)]) : ReadArrived(s, n)

\* read() returns 0: the peer has closed and nothing is left to read.
ReadEof(s) ==
    /\ link[s] /\ ~link[Peer(s)] /\ net[Peer(s)] = <<>>
    /\ handleLinkIOError(s)

(* clusterCron connects a node without a link; the peer's                  *)
(* clusterAcceptHandler gives the connection a link of its own.            *)
Connect ==
    /\ ~link["out"] /\ ~link["in"]
    /\ conns < MaxConns
    /\ conns' = conns + 1
    /\ link' = [s \in Side |-> TRUE]
    /\ net' = [s \in Side |-> <<>>]
    /\ sent' = [s \in Side |-> <<>>]
    /\ handled' = [s \in Side |-> <<>>]
    /\ dropped' = [s \in Side |-> 0]
    /\ UNCHANGED <<sndbuf, writable, rcvbuf>>

Init ==
    /\ link = [s \in Side |-> FALSE]
    /\ sndbuf = [s \in Side |-> <<>>] /\ rcvbuf = [s \in Side |-> <<>>]
    /\ writable = [s \in Side |-> FALSE]
    /\ net = [s \in Side |-> <<>>] /\ sent = [s \in Side |-> <<>>]
    /\ handled = [s \in Side |-> <<>>] /\ dropped = [s \in Side |-> 0]
    /\ conns = 0

Next ==
    \/ SendRequests
    \/ \E s \in Side : \/ clusterWriteHandler(s) \/ clusterReadHandler(s)
                       \/ handleLinkIOError(s) \/ ReadEof(s)
    \/ Connect

(* Fairness: epoll reports a socket that stays ready, so its handler runs. *)
Fairness == \A s \in Side : WF_vars(clusterWriteHandler(s) \/ clusterReadHandler(s))

Spec == Init /\ [][Next]_vars
FairSpec == Spec /\ Fairness
----------------------------------------------------------------------------

(* The packets a side has handled on a connection are the ones the other   *)
(* side sent on it, whole, each once and in order, however the bytes were  *)
(* cut by the two buffers and the socket; none is refused by a check, and  *)
(* what is left in the buffer is the beginning of the next one.            *)
PacketsInOrder ==
    \A s \in Side :
        /\ dropped[s] = 0
        /\ link[s] => IsPrefix(handled[s], sent[Peer(s)])
        /\ rcvbuf[s] # <<>> =>
            /\ Len(handled[s]) < Len(sent[Peer(s)])
            /\ IsStrictPrefix(rcvbuf[s], Bytes(sent[Peer(s)][Len(handled[s]) + 1]))

(* clusterSendMessage and clusterWriteHandler: a link with something to    *)
(* send has its write event, and one without has not, so that nothing      *)
(* waits unsent and epoll does not spin.                                   *)
WriteEventExact == \A s \in Side : writable[s] <=> sndbuf[s] # <<>>

AllHandled == \A s \in Side : link[s] /\ link[Peer(s)] => handled[Peer(s)] = sent[s]

(* What is sent on a connection that stays up is handled by the peer: time *)
(* and again all of it has been, in both directions.                       *)
SentIsHandled == []<>AllHandled
=============================================================================
