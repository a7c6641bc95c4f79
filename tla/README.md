# Prez in TLA+

Prez (`src/`) is a replicated key-value server: a Redis fork in which a write is
first agreed on by a Raft cluster and then run by every node. This directory
holds a TLA+ model of the cluster and of the server around it, the TLC
configurations that check the models on small instances, and TLAPS proofs about
the cluster for any number of nodes, about the hash table for any keys and about the
event loop for any descriptors and timers.

## The system and its parts

A node is one thread. `serverCron`, 100 times a second, calls `clusterCron`, which
reopens links, applies what is committed, and then starts an election, takes
office or does a leader's work. Packets arrive through `clusterReadHandler`,
which hands each complete one to `clusterProcessPacket`. A client's bytes go
through the query buffer and its parsers to `processCommand`; a read is answered
at once, a write goes to `clusterProcessCommand`, which logs it, and the client
waits in `proc_clients` until `logApply` runs its command. Answers leave through
the reply buffer and list. All of this is driven by the event loop.

| Part | Source | Module |
|---|---|---|
| Elections, replication, commit, apply | `cluster.c`, `log.c` | `PrezCluster` over `PrezLog` |
| What elections promise | | `PrezVoting` (abstract) |
| Log file: records, offsets, loading | `log.c` | `PrezLogFile` |
| Cluster bus: send buffer, framing | `cluster.c` | `PrezBus` |
| Start-up: sockets, `nodes.conf`, links | `prez.c`, `cluster.c`, `anet.c` | `PrezStartup` |
| Settings: file, `CONFIG SET` and `GET` | `config.c` | `PrezConfig` |
| Query buffer and parsers | `networking.c` | `PrezProtocol` |
| Clients, dispatch, waiting writes | `networking.c`, `prez.c`, `log.c` | `PrezClient` |
| Reply queue and output limits | `networking.c` | `PrezReply` |
| Reply formats | `networking.c` | `PrezAnswer` |
| Event loop | `ae.c`, `ae_epoll.c` | `PrezEventLoop` |
| Hash table | `dict.c` | `PrezDict` over `PrezTables`, against `PrezMap` (abstract) |
| Linked list | `adlist.c` | `PrezList`, implements `PrezSequence` (abstract) |
| Objects and key space | `object.c`, `db.c` | `PrezObject` |
| Strings | `sds.c` | `PrezSds`, `PrezText` |
| Numbers, glob patterns, paths | `util.c` | `PrezText` |
| Ziplist, zipmap, partial sort | `ziplist.c`, `zipmap.c`, `pqsort.c` | `PrezZiplist`, `PrezZipmap` over `PrezBytes`; `PrezSort` |

`PROJECT.json` maps every definition to the lines it stands for.

## The cluster

* **`PrezLog`**: the list of log entries as a sequence, and one operator per
  function of `log.c`. An entry has an `index` field and a position, and the code
  assumes that they agree (`getLogNode`); the model keeps them apart, because
  `logTruncate` can make them differ.
* **`PrezCluster`**: the state of every node and of the links. The variables carry
  the names of the fields of `clusterState` and `clusterNode`. One action per
  handler: `clusterProcessRequestVote`, `clusterProcessAppendEntries`,
  `clusterProcessResponseVote`, `clusterProcessResponseAppendEntries`,
  `clusterCron`, `clusterProcessCommand`, `handleLinkIOError`, and `clusterInit`
  for a crash followed by a restart.
* **`PrezElectionInv`**: the inductive invariant of the election argument.
* **`PrezReplicationInv`**: those of the arguments about entries and about one leader.
* **`PrezVoting`**: ballots and offices only; `ImplementsVoting` maps the history
  variables `votes` and `elected` to them.
* **`MCPrezCluster`**: the instance TLC runs, with symmetry and the start states.

How the cluster is abstracted:

* A node `n` opens one connection to each peer `m`, sends requests on it and reads
  the answers from it. `req[n][m]` and `resp[n][m]` are its two directions, in TCP
  order. When `n` gives the link up, a prefix of the unread requests moves to
  `stale[n][m]`: `m` still finds them in its socket, in any order relative to newer
  connections, and its answers go nowhere. A link whose peer has crashed is `DEAD`
  until its owner notices.
* Timers are dropped: an election timeout or a due heartbeat may be found elapsed
  at every pass of `clusterCron`.
* A client command is a model value. `applied[n]` is the sequence of commands run,
  so `last_applied` is its length; `Nil` in it is an index for which nothing was run.
* A leader runs a waiting client, not the entry: `call(c)` takes what `argv` holds by then.
  A client that waits, connected, for its answer still has the logged command there; one
  that sends a line meanwhile has it replaced or emptied, one that has left leaves a pointer
  to memory that may be another's. `ClientsWait` says which clients there are (`ClientArgv`).
  The runs have it TRUE, except `BugSentOver`; `PrezClient` models the client itself.
* Three reads of undefined values are choices: the length of a self vote
  (`SelfVoteReads`), the node's own `match_index`, which no code ever writes
  (`SelfMatchReads`), and the index read through a freed `last_sent_entry`
  (`FREED`). The self vote is made with `zstrdup` and measured with `sdslen`; a libc
  build stores the block size in the bytes that are read, so the length is not 0
  there, while with the default jemalloc it is whatever the neighbour left.
  `compareIndices` returns a difference as an `int`; the model sorts exactly, and
  `ClusterAssumption` keeps the `match_index` that is read within `IntMax` of the others.
* `next_index` is decremented without limit in the code. Every value below 1 makes
  the same request (no entries, a `prev_log_index` that is refused), so the model
  stops at 0.
* `votes`, `counted` and `elected` are history: votes cast, peers counted in
  `votes_granted`, nodes that took office per term.
* The log file is taken to equal the list. `PrezLogFile` checks when this holds: as
  long as no write is cut short and no power is lost.
* The single-node shortcut of `clusterProcessCommand` is left out: a cluster has at
  least two nodes here.

## The server

One module per part, each with the functions of the code as actions (or as
operators, where a function only computes) under their own names.

* **`PrezProtocol`**: a stream of requests that `read` cuts anywhere. `c` holds the
  query buffer and the parser's four places in it. A byte of structure is a pair;
  lengths are numbers, so the text of a length is one symbol.
* **`PrezClient`**: clients of one node from accept to free. The log, the commit index
  and the role are the node's; `Commit`, `ChangeRole` and `ReplaceEntry` are what the
  rest of the cluster may do to them. `rushed` and `orphaned` are history: a client
  that sent on over a waiting write, a write left waiting when office was lost.
  `flags`, which `createClient` never sets, starts as a choice (`FlagReads`).
* **`PrezReply`**, **`PrezAnswer`**: the queue with its shared objects, byte counts and
  limits; and what each `addReply` function writes, read back by a client.
* **`PrezEventLoop`**: the table, epoll's own view, the fired batch being walked while
  handlers accept, close and resize; timers under a clock that may be set back.
* **`PrezLogFile`**: bytes of records in the file and on the disk. A write may be short,
  an `fsync` fail, the process stop, the power fail; then `loadLogFile` runs.
* **`PrezBus`**: one link, byte by byte: packets of different lengths, the reader that
  asks for the length first, the write event, loss and reconnection.
* **`PrezStartup`**: descriptors and their owners from `initServer` to the running
  server, with each way the calls of `anet.c` can fail; `nodes.conf` line by line.
  The port of a line is read from its second digit on (`atoi(p+2)`) and 10000 added
  when the node is called, so ports from 10000 to 19999 survive and others do not.
* **`PrezConfig`**: directives as name and argument; an `int` has a scaled range.
* **`PrezTables`**: the two tables of a dictionary as a value, bucket by bucket, and what
  each call of `dict.c` makes of it. **`PrezDict`** runs the calls, with one walking
  iterator and one scan; `map` is what they should add up to. Hash values are a constant.
* **`PrezList`**: nodes with their pointers. **`PrezObject`**: a heap of counted objects
  under arguments, keys and queued replies. **`PrezSds`**: header, bytes and allocation.
* **`PrezText`**, **`PrezSort`**: pure functions; the state is an input that grows, so TLC
  tries every input up to a length.
* **`PrezZiplist`**, **`PrezZipmap`**: one block of bytes. `ByteBits`, 8 in the code, scales
  all limits together, so that cascades and overlong fields fit into a few entries.

## Runs

The runs on the cluster use three nodes: the smallest cluster in which two
majorities differ, and the minimum the repository's README asks for. Two terms and
two elections are enough for rivals in one term, a deposed leader and a late answer;
one or two entries are enough for a retry, a conflict and a batch. `Max...` constants
bound terms, elections, entries, the list, heartbeats in flight, lost links and
restarts; they appear in guards only. `SingleLeader` also has at most `MaxMessages`
packets under way in the whole cluster, two on one link or one on each of two, as a
state constraint (`FewMessages`). Runs on replication start after an undisturbed
first election (`AfterElection`, a reachable state), to spend their bounds on what
follows. Deadlock is checked: a pass of `clusterCron` is always possible.

| Run | What it shows |
|---|---|
| `Election` | rival elections over two terms, a link lost at any moment, late requests, lost answers: one leader per term, one vote per node and term, no uncast vote counted, no hint to a leader of another term; every step is one of the abstract voting; the inductive invariant of the proof |
| `Replication` | writes, and an election that may replace the leader: an entry is identified by index and term, and the inductive invariant of that proof; only clients change the log of a leader in office |
| `SingleLeader` | two entries, batches, two heartbeats in flight, a follower whose fsync fails after the append, an own `match_index` that is ahead: retries are recognised; same commands, same order, each at its index; the inductive invariant from which this is proved |
| `Restart` | a node restarts from its log under one leader: its replay agrees with the others |
| `Serving` | the parts of the server that promise progress: clients, hash table, bus link |
| `Structures` | the other parts of the server, safety only |

`Serving` and `Structures` are composed of parts: the variable `part` is chosen at
the start and each behaviour is one of that part's. The parts share the
variables `x1`, `x2`, ... of `MCPrezServing` and `MCPrezStructures`, which also say
what each instance contains. A part ends when its bounds are used up, so these runs
do not check for deadlock. The bounds are chosen by the case that must be reached:

* clients: two, with two requests each, so that one can wait while the other reads,
  leaves, or exceeds `maxclients`; only the first also speaks the inline protocol; one
  change of role;
* hash table: two keys in one bucket of a table of one, which forces the growth, the
  collision and the rehash of a chain; a scan of a three-bit word;
* bus: packets of every type and two lengths in a stream cut anywhere, and a second
  connection after the first is lost;
* requests: up to three, well-formed and not, read four bytes at a time, so that every
  field is cut at every place, one of them a write, and a buffer limit that the longest
  ones exceed; replies: four operations on chunks of three bytes, which fill the buffer,
  glue, overflow to the list and reach both limits, the soft one after a second;
* event loop: two connections, two timers, a table that starts too small, a clock that
  runs to 6 and is set back once, to 2 at the least, so that a timer left as it was would be
  late; settings: limits on open files below, at and above what is needed, and unknown ones;
  log file: three entries of two lengths in two terms, a short write, a stop;
* texts: all up to three to six characters over the characters a function treats
  differently; sorting: all arrays up to seven of three values;
* ziplist: four entries with strings just below and at the length that widens the next
  entry; zipmap: three keys, values with and without reusable free bytes.

What they check, by part. A property is the conjunction of the operators in brackets,
which the part's module defines and comments:

| Part | Properties |
|---|---|
| clients | `RunsWhatIsLogged`; `AnsweredInOrder` (with `OkMeansCommitted`); `CrashHasCause` (the only ways to the assertion, to a freed client, to the missing list entry); `WaitingIsAnswered` |
| hash table | `ActsAsMap` (with `TablesSound`); `TraversalsComplete` (`IteratedOnce`, `ScanComplete`, `SampleDistinct`); `RehashEnds` |
| bus | `PacketsInOrder` (with `WriteEventExact`); `SentIsHandled` |
| requests | `FramingExact` (with `ReadAsksForBytes`) |
| replies | `RepliesQueued` (`OwedIsQueued`, `SharedUntouched`, `WriteHandlerInstalled`); `LimitsAct` (`Accounted`, `HardLimitCloses`); `AnswersReadBack` |
| event loop | `LoopSound` (`TablesAgree`, `TimersOnTime`); `CallsAndSleeps` (`RegisteredCall`, `TimedSleep`) |
| log file | `LogFileSound` (`FileHoldsList`, `AckedSurvive`, `RefusalHasCause`) |
| strings, texts | `StringsExact` (`AllocExact`, `ContentsExact`); `TextsAgree` (`SplitJoins`, `ReprReadsBack`, `NumbersReadBack`, `GlobAgrees`, `PathLeadsThere`) |
| list | `ImplementsSequence` (refinement); `ListSound` (`LinksSound`, `IteratorSound`, `LookupsExact`) |
| settings | `SettingsSound` (`FdsSuffice`, `AsAsked`, `Refusal`) |
| start-up | `StartupSound` (`SocketsOwned`, `ListenersServed`, `ConnectionsWatched`, `NodesMatchFile`) |
| objects | `ObjectsExact` (`RefcountsExact`, `RepliesAsRead`, `EncodingsAgree`) |
| ziplist, zipmap, sort | `BlocksSound` (`ZiplistSound`, `ZiplistLookups`, `IntegersKept`, `ZipmapReads`, `ZipmapFilled`); `RangeSorted` |

Six runs end in a counterexample, each against a statement of the repository that
`PROJECT.json` quotes:

| Run | What the code does |
|---|---|
| `BugRestartVotes` | a restarted voter votes again in the same term: two leaders |
| `BugEarlyAck` | an answer booked for an entry sent later: commit without replicas |
| `BugDivergence` | a conflict on the last entry leaves it in the list; two nodes run different commands for one index |
| `BugStuckFollower` | two heartbeats in flight when a connection breaks: two refusals take `next_index` below 1, the follower refuses for ever and never runs the entry, although links and handlers are fair |
| `BugSentOver` | a client sends a line while its write waits: the leader runs another command, or none, for an entry that the followers run |
| `PipelinedWrite` | a second command of a client whose write waits: the assertion that it was reset fails |

Properties that hold only with an exception name it. The exceptions are behaviour of
the code worth knowing:

* a self vote read back as empty (`SelfVoteReads = {FALSE}` in `Election.cfg`) gives
  two leaders;
* two logs, one longer and one newer, deny each other the vote (`OutOfDate`);
* a leader that loses office never answers the writes that wait, and their clients stay
  registered under indices other entries may take (`orphaned`);
* a client freed while its write waits is called by `logApply` afterwards;
* an inline line that ends in a bare LF takes the next byte of the buffer with it;
* a scan during a rehash with a cursor that has upper bits of a larger mask misses
  elements; an iterator that is not released, as the one `clusterCron` uses on taking
  office, stops rehashing for good;
* an overdue timer still sleeps for up to a second; a handler that grows the event table
  leaves the loop with a pointer into the old one;
* clients over their output limit are listed for closing, and nothing reads that list;
* a link for which the event table has no slot stays open and unread; a listening socket
  whose `SO_REUSEADDR` fails is not closed;
* an insertion of fewer than four bytes before a ziplist field wider than needed cuts
  the block before it is moved (`torn`);
* `CONFIG SET timeout` accepts values that do not fit its `int`.

### Fairness

Only liveness properties use it. Cluster: every node keeps passing through `clusterCron`
(`serverCron` re-arms itself), a pass opens each missing link and a heartbeat is
sent to each peer within the bound of those in flight (`heartbeat_interval` elapses), and
packets in a socket are read (the event loop serves every readable descriptor). It serves
`EventuallyApplied`, which fails all the same: in `BugStuckFollower` every handler runs
again and again.
Server: entries of a leader get committed and `logApply` runs, since it is called on
every pass (`WaitingIsAnswered`); keys keep being looked up, and an iterator is walked
to its end within one function (`RehashEnds`); readable and writable links are
served (`SentIsHandled`). No fairness is assumed of clients, elections, errors, role
changes or restarts.

## Proofs

Eight modules hold them. None is about an instance: `Node` is any finite set of two or more
nodes, and commands, keys, hash values, descriptors, periods and all bounds are arbitrary
(`ClusterAssumption`, `DictAssumption`, `LoopAssumption`).

| Module | Theorems |
|---|---|
| `PrezTypeProofs` | `TypeCorrect`; what the functions of `log.c` return; what a step does to packets, logs and offices |
| `PrezElectionVotes` | the steps that handle requests keep `ElectionInv` |
| `PrezElectionProofs` | `ElectionInvariant`, `ElectionSafe`, `CountsBacked`, `VotesAndHints`, `LeaderAlone`, `VotingRefined` |
| `PrezEntryProofs` | `EntryInvariant`, `EntriesUnique` |
| `PrezOfficeProofs` | `OfficeInvariant`, `PositionsKept`, `SameCommandsRun`, `EntriesApplied` |
| `PrezTableProofs` | what each call makes of sound tables |
| `PrezDictProofs` | `DictIsMap` |
| `PrezLoopProofs` | `LoopStaysSound`, `CallsRegistered` |

### Types and lists

`TypeCorrect`: `Spec => []TypeOK`, for all constants, restarts and errors included. It
rests on what the functions of `log.c` return; the list after a batch is a recursive
function, handled by a least-counterexample argument.

### Elections

Assumption: `SteadyNodes`, no restarts, and a self vote read back as a vote. Neither half
can be dropped: `BugRestartVotes` shows it for the first, and `ElectionSafety` fails with
`SelfVoteReads = {FALSE}` for the second. Under it:

* `ElectionInvariant`: `ElectionInv` is invariant. `ElectionSafety` is not inductive:
  it says nothing about votes still on the wire. A vote passes four stages, a
  request on the link, the voter's `voted_for`, a grant on the link, a count in
  `votes_granted`; the conjuncts say that for the present candidacy a peer is at one
  stage at most, and that each later stage is backed by a vote really cast.
* `ElectionSafe`: at most one node takes office per term. Two quorums share a voter,
  and a voter has one vote per term.
* `CountsBacked`, `VotesAndHints`: `votes_granted` counts cast votes; one vote per
  term; a leader hint is a leader of the node's own term.
* `LeaderAlone`: the log of a leader in office changes by client writes only.
* `VotingRefined`: `Spec => ImplementsVoting`. Every step casts one ballot, puts one
  candidate with the ballots of a majority into an empty office, or changes neither. A
  grant is a new ballot because `ElectionInv` holds in the next state (`VoteIsCast`); who
  takes office has a quorum because each count is backed by a vote, and is the first
  because of `OneElected`.

The step proof has one lemma per action. Most steps are dealt with by relations
between old and new state: `PassiveStep` (casts no vote), `QuietBus` (adds no request
and no grant), `OfficeEarned` (office only with a quorum), `AppendsAllowed`
(AppendEntries only from the elected); `QuietStep` shows that together they preserve
the invariant, and the request, the grant, the count and the taking of office are
treated on their own.

### Entries

`EntriesUnique`: under `SteadyNodes`, two entries with the same index and term, in any
two logs, hold the same command. `EntryUnique` is not inductive: entries travel in
AppendEntries and lie in closed connections, and a new entry must differ from all of
them. `EntryInv` speaks of all entries that exist (`Known`): they are identified by index
and term; their term has a leader; a leader in office has the last entry of its term; and
who has held office in a term never stands in it again. The index a client's write gets
is then new in its term (`CommandLast`), because by `ElectionSafe` nobody else writes in
that term. This holds although logs may come to disagree (`BugDivergence`).

### One leader

With a second leader the logs really diverge, so what is proved of commit and apply has the
condition `OneOffice`: only one node has ever taken office, in one term or several. Links
fail, connections deliver late, `fsync` fails, any node restarts, the leader too, and the
node's own `match_index` may read as any number that `compareIndices` orders (`IntMax`).
What a leader runs for a client it holds is a matter of the client: where commands are
compared the results also assume `ClientsWait`, and `BugSentOver` shows that they need it.

* `OfficeInvariant`: `OfficeInv` is invariant. All logs are beginnings of the log of the
  node that took office; an AppendEntries, new or old, carries the entries of that log that
  follow its `prev_log_index`; no index committed or acknowledged is past the end of the
  log, and no `last_sent_entry` dangles; a waiting client is registered under its own
  entry; no node has run an index beyond its log, and with `ClientsWait` what it has run is
  the beginning of its log.
* `PositionsKept`: `OneOffice` implies `PositionIsIndex` in every reachable state.
* `SameCommandsRun`: if `ClientsWait`, `OneOffice` implies `StateMachineSafety` in every
  reachable state.
* `EntriesApplied`: as long as `OneOffice` holds, every step that runs commands runs those
  of the log, at their index, wherever no client is held (`AppliesUnlessHeld`: followers,
  replays, entries of an earlier life of the leader), and everywhere if `ClientsWait`
  (`AppliesTheEntry`): the client found in `proc_clients` is the one the entry came from.

The lemmas compare a list with the whole it is a beginning of: writing the entries of the
whole that follow a position leaves a beginning of the whole (`logWriteEntry` finds each
entry it has and appends the others, and never truncates). A retry after a failed `fsync`
and a late duplicate are the same case. A commit does not pass the end of the log even
if the own `match_index` does: the rank that `clusterUpdateCommitIndex` picks is reached by a
peer too (`QuorumMatchReached`), and a follower stops at its last entry (`logCommitIndex`).

### The hash table

`DictIsMap`: `DictAssumption => (Spec => [](ActsAsMap /\ TablesSound))`. `DictAssumption`
says that hash values are natural numbers, that the initial size is not 0, and which values
are stored; `MCPrezServing` has it as an `ASSUME` for its instance. However many keys share
a bucket, whatever the resize policy, with a rehash begun, half done or held by iterators:

* the entries of the two tables are those of the map, each once, in the bucket that its hash
  gives; `used` counts them; the second table exists exactly while rehashing, and what
  `rehashidx` has passed is empty, so that the scan for the next bucket ends (`BucketFound`,
  the assertion and the loop of `dict.c` 259 and 260);
* a lookup, which takes its own rehash step first, finds the value the map has.

`TablesSound` is the inductive part: `PrezTableProofs` shows for each call, as a function of
the tables, that it keeps them sound and what it does to the set of entries. Rehashing and
resizing change nothing of it (`Keeps`), adding, setting and deleting one entry (`Becomes`).
Chains, the moving of a chain and the rounds of `dictRehash` are recursive functions, taken
apart at the least position.

### The event loop

Assumption: `LoopAssumption`, the descriptors are 0 to some number, table sizes and periods
are positive and a second has at least one millisecond; `MCPrezStructures` has it as an
`ASSUME` for its instance. Handlers may register, close, accept, grow the table, create and
delete timers in any order, and the clock may be set back in any sleep, as often as one likes.

* `LoopStaysSound`: `LoopSound` is invariant. `TimersOnTime`, which speaks of the moment
  before a poll, is not inductive. `TimeInv` says how far ahead a timer may be at any moment:
  counted from the end of the second of the last turn, or from the present time if it was
  set while the descriptors of this turn are served. When the clock goes back below the last
  turn's second, `processTimeEvents` makes every timer due, which restores the first case;
  when it goes back less, or forward, the first case holds already (`BeginTime`).
  For the table, `Files` adds that open descriptors lie below `setsize`, and what
  `aeDeleteFileEvent` finds by searching down is the greatest registered (`DeleteFiles`).
* `CallsRegistered`: `CallsAndSleeps` holds of every step. `aeAddMillisecondsToNow` is an
  addition (`AddMs`); a nearest timer exists (`NearestTimer`); the difference with its borrow
  is exact when the timer lies ahead and below a second otherwise (`SleepIsDifference`).

### Only model-checked

Liveness, which needs fairness: `WaitingIsAnswered`, `RehashEnds`,
`SentIsHandled`. The traversals of the hash table (the scan's order is arithmetic on
reversed bits, by recursion). The clients, the bus and the parts in `Structures`; many of
these rest on recursive definitions over data, whose results for every input are beyond
the proof system.

## Not modelled

* Timers of the cluster as durations, randomised timeouts, and node names drawn at random.
* The single-node shortcut of `clusterProcessCommand`.
* Joining `argv` with blanks into the 40 bytes of an entry's command
  (`cluster.c` 402 to 410) and splitting it again: a logged command is one value, so
  arguments with blanks or quotes, empty arguments (for which `logApply` leaves an
  argument unset, `log.c` 334 to 340) and longer commands are out.
* Floating point (`d2string`, `addReplyDouble` of finite values), the unit suffixes of
  `memtoll`, `addReplyStatusFormat`.
* `CONFIG RESETSTAT`, which resets a counter no module has, and what `CONFIG GET` prints of
  anything but numbers. The signature and the version of a bus packet: constants that every
  node writes.
* What closes a client over its output limit: the code only lists it.
* A second reading of glob brackets: `GlobAgrees` compares the matcher with a declarative
  match, but takes from the code what one bracket stands for.
* `main`, `daemonize`, signals, logging, crash reports (`prez.c`, `debug.c`): I/O around
  the state. `CLIENT` and the description of clients are not in the command table.
* `zmalloc.c` but for the blocks that `zmalloc` and `zrealloc` return: counters, the
  failure of `malloc`. `lzf_c.c`, `lzf_d.c`, `crc64.c`, `sha1.c`: no
  caller, and fixed-width arithmetic over buffers of interesting size is out of TLC's
  reach. `endianconv.c` does nothing on little-endian machines.
* The `select`, `kqueue` and `evport` backends: not compiled on Linux.
* Code that is compiled out: `db.c` 128 to 1161, most object types of `object.c`, the
  tests, and parts of `config.c`. `cluster-node-timeout`, which the sample `prez.conf`
  and the repository's README use, is among them: the loader refuses the line.
* Callers: `ziplist.c`, `zipmap.c` and `pqsort.c` are compiled, and no command of Prez
  reaches them; their modules check them as libraries.
