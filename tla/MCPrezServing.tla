--------------------------- MODULE MCPrezServing ---------------------------
(***************************************************************************)
(* Small instances of the parts of one server that promise progress: the   *)
(* clients and their commands, the hash table, a link of the cluster bus.  *)
(* Each behaviour is one of one part.  The parts share the variables x1,   *)
(* x2, ..., which stand for the variables of the part that runs.           *)
(***************************************************************************)
EXTENDS Integers, Sequences

CONSTANTS c1, c2, v1, NoCmd, k1, k2, Null   \* model values

VARIABLES part, x1, x2, x3, x4, x5, x6, x7, x8, x9, x10, x11, x12, x13, x14

After9 == <<part, x10, x11, x12, x13, x14>>
After8 == <<x9, After9>>
Unused9 == x10 = 0 /\ x11 = 0 /\ x12 = 0 /\ x13 = 0 /\ x14 = 0
Unused8 == x9 = 0 /\ Unused9
vars == <<x1, x2, x3, x4, x5, x6, x7, x8, After8>>
----------------------------------------------------------------------------
(* Two clients with two requests each, one change of role, and a limit on  *)
(* clients that the second may or may not exceed.  The second client       *)
(* sends its commands in one protocol only.                                *)
C == INSTANCE PrezClient WITH cl <- x1, proc_clients <- x2, role <- x3, log <- x4,
       commit_index <- x5, applied <- x6, db <- x7, crashed <- x8, sent <- x9, answers <- x10,
       rushed <- x11, orphaned <- x12, roles <- x13, maxclients <- x14,
       Client <- {c1, c2}, Value <- {v1}, FlagReads <- {{}, {"close_asap"}}, MaxMarked <- 1, MaxClients <- {1, 2},
       MaxSent <- 2, MaxLog <- 2, MaxRoles <- 1, InlineToo <- {c1}

(* Two keys that share a bucket of the smallest table; a table of one      *)
(* bucket that grows as soon as it is full.                                *)
Stored == [k \in {k1, k2} |-> IF k = k1 THEN {"a", "b"} ELSE {"a"}]
Hash == [k \in {k1, k2} |-> IF k = k1 THEN 0 ELSE 2]
D == INSTANCE PrezDict WITH ht <- x1, rehashidx <- x2, iterators <- x3, it <- x4, scan <- x5,
       taken <- x6, map <- x7, lost <- x8, Key <- {k1, k2}, Value <- {"a", "b"},
       DICT_HT_INITIAL_SIZE <- 1, dict_can_resize <- TRUE, ForceRatio <- 1, WordBits <- 3,
       MaxWalks <- 1

(* What the proofs about the hash table assume of its constants.           *)
ASSUME ServedAssumption == D!DictAssumption

(* One connection and a second one after it is lost; a header of two bytes.*)
BODY == [t \in {"VOTEREQUEST", "APPENDENTRIES", "VOTEREQUEST_RESP", "APPENDENTRIES_RESP"} |->
           IF t \in {"APPENDENTRIES", "VOTEREQUEST_RESP"} THEN 1 ELSE 2]
B == INSTANCE PrezBus WITH link <- x1, sndbuf <- x2, writable <- x3, rcvbuf <- x4, net <- x5,
       sent <- x6, handled <- x7, dropped <- x8, conns <- x9,
       HDR <- 2, FIXED <- 3, ENTRY <- 2, MaxEntries <- 1, MaxSent <- 2, MaxConns <- 1
----------------------------------------------------------------------------
Init ==
    \/ part = "client" /\ C!Init
    \/ part = "dict" /\ D!Init /\ Unused8
    \/ part = "bus" /\ B!Init /\ Unused9

Next ==
    \/ part = "client" /\ C!Next /\ UNCHANGED part
    \/ part = "dict" /\ D!Next /\ UNCHANGED After8
    \/ part = "bus" /\ B!Next /\ UNCHANGED After9

(* The fairness of the parts, each of the one that runs.                   *)
Fairness ==
    /\ WF_vars(part = "client" /\ C!Commit /\ UNCHANGED part)
    /\ WF_vars(part = "client" /\ C!logApply /\ UNCHANGED part)
    /\ WF_vars(part = "dict" /\ UNCHANGED <<x4, x5, x6, x7, x8, After8>> /\ D!dictFind(k1))
    /\ WF_vars(part = "dict" /\ D!dictNext /\ UNCHANGED After8)
    /\ WF_vars(part = "dict" /\ x4.on /\ x4.done /\ D!dictReleaseIterator /\ UNCHANGED After8)
    /\ \A s \in B!Side : WF_vars(/\ part = "bus"
                                 /\ B!clusterWriteHandler(s) \/ B!clusterReadHandler(s)
                                 /\ UNCHANGED After9)

FairSpec == Init /\ [][Next]_vars /\ Fairness
----------------------------------------------------------------------------
(* A node runs at each index the command its log has there, whether it     *)
(* takes it from the waiting client or from the entry, as long as no       *)
(* client sent on over a waiting write and no write was left waiting when  *)
(* the node lost office.                                                   *)
RunsWhatIsLogged == part = "client" => C!RunsWhatIsLogged

(* To a client that waits for its writes every request is answered once    *)
(* and in the order it was sent, whatever else the node is doing, and one  *)
(* that is told "ok" has its write in the committed log, once (prez.c 405  *)
(* to 440, log.c 311).                                                     *)
AnsweredInOrder == part = "client" => C!AnsweredInOrder /\ C!OkMeansCommitted

(* The assertions and the pointers that logApply follows hold, unless a    *)
(* client sent on over its waiting write, left while it waited, or was     *)
(* created over memory that read as PREZ_CLOSE_ASAP.                       *)
CrashHasCause == part = "client" => C!CrashHasCause

(* A write that waits on a leader that stays in office is answered.  (c1   *)
(* stands for both clients: what the other may send, it may send.)         *)
WaitingIsAnswered ==
    (part = "client" /\ c1 \in C!Waiting) ~> (part # "client" \/ C!Settled(c1))

(* dict.c as a whole: through adds, deletes, resizes and partial rehashes, *)
(* with or without an iterator open, the entries of the two tables are     *)
(* those of the map the calls describe, and a lookup that takes its own    *)
(* rehash step first finds exactly those keys with their last values.      *)
(* Every entry is in the bucket its hash gives, once in the two tables     *)
(* together; `used' counts the entries of each; the second table exists    *)
(* exactly while rehashing, and the buckets already moved are empty.       *)
ActsAsMap == part = "dict" => D!ActsAsMap /\ D!TablesSound

(* An entry that stays in the table from the first call to the last is     *)
(* returned exactly once by a safe iterator, although the caller adds,     *)
(* deletes and starts rehashes meanwhile, and at least once by dictScan,   *)
(* across expansions and shrinks between two calls, whole or half done     *)
(* (the exception is a call made during a rehash with a cursor that has    *)
(* upper bits of the larger mask, as one from before a shrink has: the     *)
(* expansions below those bits are never visited). dictGetRandomKeys       *)
(* returns as many entries as asked for, or all there are, and no entry    *)
(* twice (dict.c 567, 671, 800).                                           *)
TraversalsComplete ==
    part = "dict" => D!IteratedOnce /\ D!ScanComplete /\ D!SampleDistinct

(* A rehash, once begun, ends as long as lookups keep coming and no        *)
(* iterator has been lost; a lost one (clusterCron's) stops it for good.   *)
RehashEnds ==
    (part = "dict" /\ D!IsRehashing(D!This)) ~> (part # "dict" \/ ~D!IsRehashing(D!This) \/ x8)

(* The packets a side has handled on a connection are the ones the other   *)
(* side sent on it, whole, each once and in order, however the bytes were  *)
(* cut by the two buffers and the socket; none is refused by a check, and  *)
(* what is left in the buffer is the beginning of the next one. A link     *)
(* with something to send has its write event, and one without has not, so *)
(* that nothing waits unsent and epoll does not spin (cluster.c 516 to     *)
(* 615).                                                                   *)
PacketsInOrder == part = "bus" => B!PacketsInOrder /\ B!WriteEventExact

(* What is sent on a connection that stays up is handled by the peer: time *)
(* and again all of it has been, in both directions.                       *)
SentIsHandled == []<>(part = "bus" => B!AllHandled)
=============================================================================
