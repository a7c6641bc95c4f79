-------------------------- MODULE MCPrezStructures --------------------------
(***************************************************************************)
(* Small instances of the parts of one server that promise safety only.    *)
(* Each behaviour is one of one part.  The parts share the variables x1,   *)
(* x2, ..., which stand for the variables of the part that runs.           *)
(***************************************************************************)
EXTENDS Integers, Sequences

CONSTANTS Own, Wait, ok, val, small,   \* model values
          k1, k2

VARIABLES part, x1, x2, x3, x4, x5, x6, x7, x8, x9,
          x10, x11, x12, x13, x14, x15, x16, x17, x18

(* What a part leaves alone, by the number of variables it has.            *)
After12 == <<part, x13, x14, x15, x16, x17, x18>>
After10 == <<x11, x12, After12>>
After8 == <<x9, x10, After10>>
After7 == <<x8, After8>>
After5 == <<x6, x7, After7>>
After4 == <<x5, After5>>
After3 == <<x4, After4>>
After2 == <<x3, After3>>
After1 == <<x2, After2>>

Unused12 == x13 = 0 /\ x14 = 0 /\ x15 = 0 /\ x16 = 0 /\ x17 = 0 /\ x18 = 0
Unused10 == x11 = 0 /\ x12 = 0 /\ Unused12
Unused8 == x9 = 0 /\ x10 = 0 /\ Unused10
Unused7 == x8 = 0 /\ Unused8
Unused5 == x6 = 0 /\ x7 = 0 /\ Unused7
Unused4 == x5 = 0 /\ Unused5
Unused3 == x4 = 0 /\ Unused4
Unused2 == x3 = 0 /\ Unused3
Unused1 == x2 = 0 /\ Unused2
----------------------------------------------------------------------------
(* The query buffer: well-formed and malformed requests of both protocols, *)
(* cut anywhere by reads of four bytes; a "big" argument has four.  One    *)
(* request of each protocol is a write.                                    *)
Arg(n) == [i \in 1..n |-> <<"b", i>>]
Multibulk(args) == [kind |-> "multibulk", args |-> args]
Inline(words) == [kind |-> "inline", words |-> words]
Requests ==
    {Multibulk(<<Arg(1)>>), Multibulk(<<Arg(1), Arg(4)>>), Multibulk(<<Arg(5), Arg(0)>>),
     Multibulk(<<Arg(3), Arg(3)>>), Inline(<<"a", "b">>), Inline(<<"set">>), Inline(<<>>), Inline(<<"unbalanced">>),
     [kind |-> "newline", words |-> <<"a">>], [kind |-> "length", n |-> 0],
     [kind |-> "length", n |-> 11], [kind |-> "bulk", n |-> 13], [kind |-> "nodollar"]}

Q == INSTANCE PrezProtocol WITH c <- x1, wire <- x2, sent <- x3, executed <- x4,
       MaxRequests <- 3, IOBUF_LEN <- 4, MBULK_BIG_ARG <- 4, INLINE_MAX_SIZE <- 10,
       MaxMultibulk <- 10, MaxBulk <- 12, QUERYBUF_LEN <- 18, Writes <- {<<<<"w", "set">>>>, Arg(3)}

(* Replies: chunks of three bytes, limits a few replies can reach.         *)
Shared == {ok, val, small}
SharedLen == [o \in Shared |-> IF o = val THEN 2 ELSE 1]
R == INSTANCE PrezReply WITH c <- x1, objs <- x2, owed <- x3, unixtime <- x4,
       ops <- x5, Embedded <- {small}, Lengths <- {1, 2}, REPLY_CHUNK_BYTES <- 3, EMBSTR_SIZE_LIMIT <- 1, ItemSize <- 1,
       HardLimit <- 12, SoftLimit <- 6, SoftSeconds <- 0, MaxOps <- 4, MaxTime <- 2

(* The event loop: two connections besides the listening socket, a table   *)
(* that starts too small for the second, two timers, a clock set back.     *)
E == INSTANCE PrezEventLoop WITH events <- x1, interest <- x2, open <- x3,
       maxfd <- x4, setsize <- x5, fired <- x6, stale <- x7, pc <- x8,
       left <- x9, now <- x10, lastTime <- x11, back <- x12, timers <- x13,
       nextId <- x14, maxId <- x15, te <- x16, ops <- x17, busy <- x18,
       FD <- 0..2, MS <- 2, SetSizes <- {2, 3}, Periods <- {1, 2}, MaxNow <- 6, MaxBusy <- 1,
       MaxBack <- 1, MaxOps <- 2, MaxTimers <- 2

(* What the proofs about the event loop assume of its constants.           *)
ASSUME TurnAssumption == E!LoopAssumption

(* The log file: records of two lengths, one short write, one stop.        *)
CmdLen(index, term) == 1 + ((index + term) % 2)
F == INSTANCE PrezLogFile WITH list <- x1, log_current_size <- x2,
       file <- x3, disk <- x4, status <- x5, torn <- x6, durable <- x7,
       short <- x8, crashes <- x9, power_losses <- x10,
       MaxTerm <- 2, MaxLen <- 3, MaxBatch <- 2, MaxShort <- 1, MaxStops <- 1

(* Strings: up to four bytes, a static buffer of two.                      *)
S == INSTANCE PrezSds WITH s <- x1, ref <- x2, Char <- {1, 2}, Garbage <- 9,
       SDS_MAX_PREALLOC <- 3, StaticBuf <- 2, MaxLen <- 4

(* Texts: the characters each conversion treats differently, in ASCII.     *)
Alphabet == [split |-> {97, 44, 45},
             args |-> {97, 34, 39, 92, 10, 0, 255, 32, 120, 48},
             number |-> {45, 48, 49, 50, 52, 55, 57},
             glob |-> {42, 63, 97, 98, 91, 93, 94, 45, 92},
             path |-> {47, 46, 97, 32}]
MaxLen == [split |-> 5, args |-> 3, number |-> 5, glob |-> 4, path |-> 6]
Separators == {<<44>>, <<44, 45>>, <<44, 44>>}
Subjects == UNION {[1..n -> {97, 98}] : n \in 1..3}
Cwds == {<<47>>, <<47, 98>>, <<47, 98, 47, 99>>}
T == INSTANCE PrezText WITH use <- x1, text <- x2, LLONG_MAX <- 2047, Strings <- Subjects

(* Lists of at most three nodes.                                           *)
L == INSTANCE PrezList WITH list <- x1, it <- x2, todo <- x3,
       Value <- {1, 2}, MaxNodes <- 3
A == INSTANCE PrezSequence WITH Value <- {1, 2},
       seq <- IF part = "list" THEN L!Values(x1) ELSE <<>>

(* Settings: one line of the file and two CONFIG SETs that reach every     *)
(* branch, with the values around each boundary; int is -16..15.           *)
Line(n, v, w, gs) == [name |-> n, num |-> v, word |-> w, groups |-> gs]
Num(n, v) == Line(n, v, "number", <<>>)
Word(n, w) == Line(n, 0, w, <<>>)
Group(class, v) == [class |-> class, hard |-> v, soft |-> 0, secs |-> v]
Groups(gs, w) == Line("client-output-buffer-limit", 0, w, gs)
Edges == {-1, 0, 4, 13, 16}
Lines ==
    {Num(n, v) : n \in {"timeout", "tcp-keepalive", "port", "tcp-backlog", "cluster-port",
                        "maxclients", "maxmemory", "maxmemory-samples", "hz", "cluster-election-timeout",
                        "cluster-heartbeat-interval", "bind", "unixsocketperm"}, v \in Edges}
    \cup {Word(n, w) : n \in {"name", "unixsocket", "logfile", "syslog-ident", "pidfile",
                              "cluster-config-file", "port", "dir", "loglevel", "syslog-enabled",
                              "daemonize", "syslog-facility", "maxmemory-policy", "include", "",
                              "rename-command"},
                       w \in {"yes", "unreachable", "user", "notice", "noeviction"}}
    \cup {Groups(<<Group(class, v)>>, "groups") : class \in {"normal", "slave"}, v \in {-1, 1}}
Sets ==
    {Num(n, v) : n \in {"maxclients", "hz", "timeout", "tcp-keepalive", "cluster-election-timeout",
                        "cluster-heartbeat-interval", "port"}, v \in Edges}
    \cup {Word(n, w) : n \in {"maxclients", "timeout", "loglevel", "dbfilename"},
                       w \in {"path", "notice"}}
    \cup {Groups(gs, w) : gs \in {<<>>, <<Group("normal", 1)>>,
                                  <<Group("normal", 1), Group("normal", 2)>>,
                                  <<Group("normal", 2), Group("normal", -1)>>,
                                  <<Group("normal", 1), Group("slave", 1)>>},
                          w \in {"groups", "ragged"}}
Limits == [cur : {1, 4, 7}, max : {7, 9}, root : BOOLEAN, known : {TRUE}]
          \cup {[cur |-> 0, max |-> 0, root |-> FALSE, known |-> TRUE],
                [cur |-> 4, max |-> 7, root |-> FALSE, known |-> FALSE]}

C == INSTANCE PrezConfig WITH phase <- x1, server <- x2, setsize <- x3,
       rlimit <- x4, reply <- x5, line <- x6, count <- x7, asked <- x8,
       IntMax <- 15, MaxPort <- 12, MinHz <- 1, MaxHz <- 4, BindMax <- 2, Reserved <- 2,
       FdsetIncr <- 3, Step <- 2, AssumedFiles <- 8, Requests <- Sets, MaxLines <- 1, MaxSets <- 2

(* Start-up: bind directives and nodes.conf files of each shape, and room  *)
(* for one client.                                                         *)
Node(n, port) == [kind |-> "node", name |-> n, ip |-> "10.0.0.1", port |-> port]
Odd(kind) == [kind |-> kind, name |-> "a", ip |-> "", port |-> 0]
Files == {<<Node("a", 10001), Node("b", 10002)>>,
          <<Node("b", 20001), Odd("blank"), Node("A", 10002)>>,
          <<Node("a", 10001), Node("a", 10002)>>, <<Node("b", 10001)>>, <<Odd("nofile")>>,
          <<Odd("noaddr")>>, <<Odd("nocolon")>>}
Fold == [n \in {"a", "A", "b"} |-> IF n = "A" THEN "a" ELSE n]
U == INSTANCE PrezStartup WITH phase <- x1, conf <- x2, open <- x3, ipfd <- x4,
       sofd <- x5, cfd <- x6, j <- x7, clients <- x8, inlinks <- x9,
       file <- x10, nodes <- x11, myself <- x12,
       Binds <- {<<>>, <<"v4">>, <<"v6", "v4">>}, MyName <- "a",
       ServerPort <- 9001, SetSize <- 8, MaxClients <- 1, MaxFd <- 9

(* Objects: a string that is short enough to embed and one that is not.    *)
Strings == {<<>>, <<7>>, <<1, 2>>, <<1, 10>>, <<1, 2, 3>>}
Values == {<<7>>, <<1, 2, 3>>}
O == INSTANCE PrezObject WITH heap <- x1, db <- x2, argv <- x3, reply <- x4,
       last <- x5, owed <- x6, probe <- x7, Key <- {k1, k2},
       EmbLimit <- 2, SharedInts <- 10, MaxInt <- 12,
       MaxObjs <- 4, MaxReplies <- 1

(* Answers: every kind twice, with the bytes that could break a line and   *)
(* numbers around each change of length; three shared headers.             *)
W == INSTANCE PrezAnswer WITH out <- x1, meant <- x2, Lines <- {<<79, 75>>},
       Formatted <- {<<97>>, <<97, 13, 10, 58>>},
       Blobs <- {<<>>, <<13, 10>>, <<36, 0, 13>>, <<97, 98, 99, 100>>},
       Numbers <- {-2048, -10, -9, -1, 0, 1, 9, 10, 99, 100, 2047},
       LLONG_MAX <- 2047, SHARED_BULKHDR_LEN <- 3, MaxAnswers <- 2

(* Ziplists of up to four entries.  A byte has six bits, the fewest that   *)
(* keep the encodings apart: a string of 58 bytes is just not long, and    *)
(* becomes so when the field in front of it grows; one of 59 is.           *)
Run(n) == [i \in 1..n |-> i % 61]
Item(b, n, bytes) == [int |-> b, num |-> n, str |-> bytes]
EdgesOf(width) == {-(2^(width - 1)) - 1, -(2^(width - 1)), 2^(width - 1) - 1, 2^(width - 1)}
Z == INSTANCE PrezZiplist WITH zl <- x1, ref <- x2, torn <- x3, ByteBits <- 6,
       STR_14B_MAX <- 58, LENGTH_MAX <- 3, MaxEntries <- 4,
       Items <- {Item(FALSE, 0, Run(n)) : n \in {1, 58, 59}} \cup {Item(TRUE, n, <<>>) : n \in {0, -2049}},
       Numbers <- {-1, 0, 1} \cup UNION {EdgesOf(6 * n) : n \in 1..4}

(* Zipmaps of three keys, one of them long; a byte has three bits, so six  *)
(* bytes are long.                                                         *)
M == INSTANCE PrezZipmap WITH zm <- x1, ref <- x2, ByteBits <- 3,
       Key <- {<<1>>, <<2>>, <<2, 3, 3, 3, 3, 7>>}, Value <- {Run(n) : n \in {0, 3, 4, 6}},
       COUNT_MAX <- 2, VALUE_MAX_FREE <- 4

(* Arrays of up to seven elements, sorted by insertion below three and     *)
(* with a median of nine above five.                                       *)
P == INSTANCE PrezSort WITH array <- x1, Element <- 1..3, MaxLen <- 7,
       InsertionBelow <- 3, NineAbove <- 5, Spread <- 4
----------------------------------------------------------------------------
Init ==
    \/ part = "query" /\ Q!Init /\ Unused4
    \/ part = "reply" /\ R!Init /\ Unused5
    \/ part = "events" /\ E!Init
    \/ part = "logfile" /\ F!Init /\ Unused10
    \/ part = "sds" /\ S!Init /\ Unused2
    \/ part = "text" /\ T!Init /\ Unused2
    \/ part = "list" /\ L!Init /\ Unused3
    \/ part = "config" /\ C!Init /\ Unused8
    \/ part = "startup" /\ U!Init /\ Unused12
    \/ part = "object" /\ O!Init /\ Unused7
    \/ part = "answer" /\ W!Init /\ Unused2
    \/ part = "ziplist" /\ Z!Init /\ Unused3
    \/ part = "zipmap" /\ M!Init /\ Unused2
    \/ part = "sort" /\ P!Init /\ Unused1

Next ==
    \/ part = "query" /\ Q!Next /\ UNCHANGED After4
    \/ part = "reply" /\ R!Next /\ UNCHANGED After5
    \/ part = "events" /\ E!Next /\ UNCHANGED part
    \/ part = "logfile" /\ F!Next /\ UNCHANGED After10
    \/ part = "sds" /\ S!Next /\ UNCHANGED After2
    \/ part = "text" /\ T!Next /\ UNCHANGED After2
    \/ part = "list" /\ L!Next /\ UNCHANGED After3
    \/ part = "config" /\ C!Next /\ UNCHANGED After8
    \/ part = "startup" /\ U!Next /\ UNCHANGED After12
    \/ part = "object" /\ O!Next /\ UNCHANGED After7
    \/ part = "answer" /\ W!Next /\ UNCHANGED After2
    \/ part = "ziplist" /\ Z!Next /\ UNCHANGED After3
    \/ part = "zipmap" /\ M!Next /\ UNCHANGED After2
    \/ part = "sort" /\ P!Next /\ UNCHANGED After1

vars == <<x1, x2, After2>>
Spec == Init /\ [][Next]_vars
----------------------------------------------------------------------------
(* However the stream is cut into reads, the commands executed are the     *)
(* ones the peer meant, in order, with the arguments it gave; when all of  *)
(* the stream has been read none is missing and nothing is left over, and  *)
(* a request that breaks the protocol is where execution stops. After a    *)
(* line that ends with a bare LF the first byte of what follows in the     *)
(* buffer is skipped (sdsrange by querylen+2), so such a line comes last.  *)
(* And read() is never asked for zero bytes or fewer: it would return 0,   *)
(* which readQueryFromClient takes for a closed connection.                *)
FramingExact == part = "query" => Q!FramingExact /\ Q!ReadAsksForBytes

(* What the buffer and the list still hold, from sentlen on, is exactly    *)
(* what was replied and not sent, however replies and partial writes       *)
(* interleave; objects that others hold too are never written to through   *)
(* the list; and while something is to be sent, or the client is to be     *)
(* closed after its reply, the write handler is installed, so the event    *)
(* loop will come back (networking.c 81 to 266, 779).                      *)
RepliesQueued ==
    part = "reply" => R!OwedIsQueued /\ R!SharedUntouched /\ R!WriteHandlerInstalled

(* reply_bytes is the memory of the objects on the list, so it never wraps *)
(* below zero and the output limits act on the truth; a client whose       *)
(* queued replies reach the hard limit has been scheduled for closing      *)
(* (networking.c 1592 to 1643).                                            *)
LimitsAct == part = "reply" => R!Accounted /\ R!HardLimitCloses

(* The masks in the event table, what epoll watches and the highest        *)
(* descriptor agree whatever handlers register and close, and nothing is   *)
(* watched on a descriptor that is closed. After the timers have run, none *)
(* is further ahead than its period, the time a turn takes and a second: a *)
(* clock set back while the loop sleeps does not postpone a timer by that  *)
(* amount (ae.c 135 to 190, 271).                                          *)
LoopSound == part = "events" => E!LoopSound

(* "maybe an already processed event removed an element that fired and we  *)
(* still didn't processed" (ae.c 407): no reader is called for a           *)
(* descriptor that is not registered for reading by then, nor a writer,    *)
(* unless the table was reallocated under the entry being served. And      *)
(* aeProcessEvents sleeps exactly until the nearest timer when that timer  *)
(* lies ahead, and less than a second when it is already due (not zero:    *)
(* the milliseconds are borrowed before the seconds are clamped).          *)
CallsAndSleeps == [][part = "events" => E!RegisteredCall /\ E!TimedSleep]_vars

(* The file holds what the list says, up to the first short write: reading *)
(* it back gives those entries, each at the offset the list records for it *)
(* (logTruncate cuts there), or is refused. A node whose writes were all   *)
(* complete and that never lost power always starts again. An entry that   *)
(* was written whole, with no torn record before it, and covered by an     *)
(* fsync() that succeeded, is in the log after any crash or power loss the *)
(* node comes back from, unless it was truncated (log.c 58 to 299).        *)
LogFileSound ==
    part = "logfile" => F!FileHoldsList /\ F!RefusalHasCause /\ F!AckedSurvive

(* The header of a string tells the truth about its allocation: len, free  *)
(* and the NUL make up all of it, so nothing was written past its end and  *)
(* the next operation will not either; and the string holds the bytes its  *)
(* operations promise, none of them undefined (sds.c).                     *)
StringsExact == part = "sds" => S!AllocExact /\ S!ContentsExact

(* The text functions agree with what they mean: sdssplitlen loses         *)
(* nothing; sdssplitargs reads back as one argument what sdscatrepr has    *)
(* quoted, for any bytes; string2ll takes exactly the texts ll2string      *)
(* writes, and no number that wraps; stringmatchlen with its shortcuts     *)
(* says of a string what the pattern means (an escape that ends the        *)
(* pattern inside a bracket is left out, and what a bracket holds is taken *)
(* from the code itself); getAbsolutePath leads where the name leads       *)
(* (sds.c 678, 741; util.c 45, 304, 475).                                  *)
TextsAgree ==
    part = "text" => /\ T!SplitJoins /\ T!ReprReadsBack /\ T!NumbersReadBack
                     /\ T!GlobAgrees /\ T!PathLeadsThere

(* Read from the head and from the tail the list is the same nodes, as     *)
(* many as len says, and no other node is allocated. However it changes    *)
(* under an iterator in the ways that are allowed, the iterator returns    *)
(* each node once and misses none. listIndex counts from either end and    *)
(* gives NULL outside, listSearchKey finds the first match, listDup gives  *)
(* an equal list (adlist.c).                                               *)
ListSound == part = "list" => L!LinksSound /\ L!IteratorSound /\ L!LookupsExact

(* Every operation on the pointers is the operation PrezSequence describes *)
(* on the sequence of the values: the list implements that specification.  *)
ImplementsSequence == A!Spec

(* After every line and every CONFIG SET: a running server has descriptors *)
(* and event slots for maxclients clients besides its own, whether the     *)
(* change was granted, refused by the system or refused by the event loop; *)
(* what is in force is what was last asked, if the number fits an int (hz  *)
(* is clamped, maxclients may have been lowered to the limit on files);    *)
(* a CONFIG SET answered with an error has changed no setting, the limits  *)
(* of several client classes in one request included; and no CONFIG SET    *)
(* ends in the exit() that adjustOpenFilesLimit has for the start. (When   *)
(* getrlimit() fails the limit on files is a guess.) (prez.c 674, config.c *)
(* 638, 852)                                                               *)
SettingsSound ==
    [][part = "config" => C!Refusal /\ (C!FdsSuffice /\ C!AsAsked)']_vars

(* Every open socket has one owner, through failed binds, refused clients  *)
(* and lost links, so that a descriptor handed out again is never still    *)
(* held by an earlier owner (the one leak is a listening socket whose      *)
(* SO_REUSEADDR failed, anet.c 431). A server that runs serves every       *)
(* address it was told to bind. Every client has a read handler; a link    *)
(* goes unwatched only when the event loop is full (cluster.c 304, 996).   *)
(* If no name comes twice in nodes.conf there is one node for each line,   *)
(* and so the quorum the file intends, this server is the node of its own  *)
(* name, and the link of another node goes to the address of its line, for *)
(* the ports 10000 to 19999 that survive the reading (cluster.c 119 to     *)
(* 134, 983).                                                              *)
StartupSound ==
    part = "startup" => /\ U!SocketsOwned /\ U!ListenersServed
                        /\ U!ConnectionsWatched /\ U!NodesMatchFile

(* An object is allocated exactly as long as the arguments, the key space  *)
(* or the reply queue hold it, and counts its holders. A queued reply      *)
(* still reads as the value did when GET was served, though the key has    *)
(* been set again, deleted, or the value's object reused since; each key   *)
(* holds what was set last. And the encodings are invisible: equality,     *)
(* order, length, decoding, re-encoding and duplication agree with the     *)
(* string an object stands for (object.c 285 to 545, db.c).                *)
ObjectsExact ==
    part = "object" => O!RefcountsExact /\ O!RepliesAsRead /\ O!EncodingsAgree

(* The client reads exactly the answers that were given, in order, with    *)
(* nothing left over, whatever bytes they hold: no length is wrong and no  *)
(* text breaks the line it is on, so one answer never runs into the next   *)
(* (the addReply functions, networking.c 330 to 525).                      *)
AnswersReadBack == part = "answer" => W!AnswersReadBack

(* The structures kept in one block. However far an insertion or a         *)
(* deletion cascades, a ziplist reads from the head as the items it is     *)
(* meant to hold, up to its very last byte, each previous-length field is  *)
(* right, and so is the tail offset; lookups from either end agree; an     *)
(* integer reads back from the encoding chosen for it. (A block cut short  *)
(* by an insertion before a field that is wider than needed is left out,   *)
(* ziplist.c 620.) A zipmap reads as the map it stands for, its entries    *)
(* with their free bytes fill the block exactly, and no value keeps more   *)
(* free bytes than the limit.                                              *)
BlocksSound ==
    /\ part = "ziplist" => Z!ZiplistSound /\ Z!ZiplistLookups /\ Z!IntegersKept
    /\ part = "zipmap" => M!ZipmapReads /\ M!ZipmapFilled

(* For every array and every range in it, pqsort leaves at the positions   *)
(* of the range what a full sort would, loses and invents no element, and  *)
(* never reads outside the array.                                          *)
RangeSorted == part = "sort" => P!RangeSorted
=============================================================================
