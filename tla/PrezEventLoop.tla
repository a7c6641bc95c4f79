--------------------------- MODULE PrezEventLoop ---------------------------
(***************************************************************************)
(* The event loop of ae.c over epoll (ae_epoll.c).  One turn computes how  *)
(* long it may sleep, polls, calls the handlers of the descriptors that    *)
(* fired, then the timers that are due.  Handlers register, unregister,    *)
(* open and close descriptors, create and delete timers and grow the       *)
(* table while the loop is still walking what the poll returned.           *)
(***************************************************************************)
EXTENDS Integers, Sequences, SequencesExt, FiniteSets, FiniteSetsExt

CONSTANTS FD,           \* descriptors, 0..n; 0 is the listening socket
          MS,           \* milliseconds in a second, scaled down
          SetSizes,     \* sizes of the event table: the first and the grown one
          Periods,      \* what a timer handler may return, in milliseconds
          Wait,         \* tvp = NULL
          MaxNow, MaxBack, MaxOps, MaxTimers,   \* bounds
          MaxBusy       \* milliseconds the code of one turn may take

(* What the loop rests on: descriptors are small numbers, the table has    *)
(* room for the listening socket, and a timer that is kept has a period.   *)
LoopAssumption ==
    /\ Max(FD) \in Nat /\ FD = 0..Max(FD)
    /\ Periods # {} /\ Max(Periods) \in Nat /\ Periods \subseteq 1..Max(Periods)
    /\ SetSizes # {} /\ SetSizes \subseteq Nat \ {0}
    /\ MS \in Nat \ {0} /\ MaxBusy \in Nat

VARIABLES events,    \* events[fd].mask
          interest,  \* what epoll watches, per open descriptor
          open,      \* open descriptors
          maxfd, setsize,
          fired,     \* the poll's result, the part still to walk
          stale,     \* events was reallocated while a handler of fe ran
          pc,        \* where in the turn the loop is
          left,      \* what remains of the sleep
          now, lastTime, back,       \* the wall clock, and times it was set back
          timers,    \* timeEventHead: id and when, newest first
          nextId, maxId, te,         \* timeEventNextId, the round's limit, the timer run
          ops,       \* operations the handlers may still do
          busy       \* time spent in this turn

fileVars == <<events, interest, open, maxfd, setsize>>
timeVars == <<timers, nextId>>
clock == <<now, back, busy>>
vars == <<fileVars, fired, stale, pc, left, clock, lastTime, timeVars, maxId, te, ops>>

R == "r"
W == "w"

----------------------------------------------------------------------------
(* Registration. *)

Registered(ev) == {fd \in FD : ev[fd] # {}}

(* aeCreateFileEvent below setsize, with aeApiAddEvent: old and new events *)
(* merged.  The caller tests fd >= setsize, the one error modelled.        *)
aeCreateFileEvent(fd, mask) ==
    /\ events' = [events EXCEPT ![fd] = @ \cup mask]
    /\ interest' = [interest EXCEPT ![fd] = events[fd] \cup mask]
    /\ maxfd' = Max({fd, maxfd})

(* aeDeleteFileEvent with aeApiDelEvent. *)
aeDeleteFileEvent(fd, mask) ==
    LET ev == [events EXCEPT ![fd] = @ \ mask] IN
    IF fd >= setsize \/ events[fd] = {} THEN UNCHANGED <<events, interest, maxfd>>
    ELSE /\ events' = ev
         /\ interest' = [interest EXCEPT ![fd] = ev[fd]]
         /\ maxfd' = IF fd = maxfd /\ ev[fd] = {}
                     THEN Max({-1} \cup {j \in Registered(ev) : j < maxfd})
                     ELSE maxfd

----------------------------------------------------------------------------
(* What handlers do: the calls the program makes from inside a callback.   *)

InHandler == pc \in {"rhandler", "whandler", "thandler"}
Op == InHandler /\ ops > 0 /\ ops' = ops - 1
KeepTurn == UNCHANGED <<pc, left, clock, lastTime, maxId, te, fired>>

\* acceptCommonHandler, createClient: the lowest free descriptor, watched for
\* reading, or closed again when the table has no room for it.
Accept ==
    LET fd == Min(FD \ open) IN
    /\ Op
    /\ open # FD
    /\ IF fd >= setsize
       THEN UNCHANGED <<events, interest, maxfd, open>>
       ELSE aeCreateFileEvent(fd, {R}) /\ open' = open \cup {fd}
    /\ UNCHANGED <<setsize, stale, timeVars>> /\ KeepTurn

\* prepareClientToWrite, clusterSendMessage.
WantWrite(fd) ==
    /\ Op
    /\ fd \in open \ {0}
    /\ aeCreateFileEvent(fd, {W})
    /\ UNCHANGED <<open, setsize, stale, timeVars>> /\ KeepTurn

\* sendReplyToClient, clusterWriteHandler: nothing left to send.
DoneWriting(fd) ==
    /\ Op
    /\ fd \in open \ {0}
    /\ aeDeleteFileEvent(fd, {W})
    /\ UNCHANGED <<open, setsize, stale, timeVars>> /\ KeepTurn

\* freeClient, freeClusterLink: both events off, then close.
CloseFd(fd) ==
    /\ Op
    /\ fd \in open \ {0}
    /\ aeDeleteFileEvent(fd, {R, W})
    /\ open' = open \ {fd}
    /\ UNCHANGED <<setsize, stale, timeVars>> /\ KeepTurn

(* aeResizeSetSize, as CONFIG SET maxclients calls it (to grow): the table *)
(* may move, and the entry the loop holds is then freed memory.            *)
aeResizeSetSize(size) ==
    /\ Op
    /\ pc = "rhandler"
    /\ size > setsize /\ maxfd < size
    /\ setsize' = size
    /\ stale' \in {stale, TRUE}
    /\ UNCHANGED <<events, interest, open, maxfd, timeVars>> /\ KeepTurn

When(t) == <<t \div MS, t % MS>>

\* aeAddMillisecondsToNow: seconds and milliseconds apart, with the carry.
aeAddMillisecondsToNow(ms) ==
    LET sec == (now \div MS) + (ms \div MS)
        rest == (now % MS) + (ms % MS)
    IN  IF rest >= MS THEN <<sec + 1, rest - MS>> ELSE <<sec, rest>>

aeCreateTimeEvent(ms) ==
    /\ Op
    /\ nextId < MaxTimers
    /\ timers' = <<[id |-> nextId, when |-> aeAddMillisecondsToNow(ms)]>> \o timers
    /\ nextId' = nextId + 1
    /\ UNCHANGED <<fileVars, stale>> /\ KeepTurn

\* The first timer of the list that has the id, if there is one, is taken out.
WithoutTimer(id) ==
    LET found == {i \in DOMAIN timers : timers[i].id = id}
    IN  IF found = {} THEN timers ELSE RemoveAt(timers, Min(found))

\* Not the timer that is running: the loop still writes to it afterwards.
aeDeleteTimeEvent(id) ==
    /\ Op
    /\ pc = "thandler" => te # id
    /\ timers' = WithoutTimer(id)
    /\ UNCHANGED <<nextId, fileVars, stale>> /\ KeepTurn

----------------------------------------------------------------------------
(* The turn. *)

Earlier(a, b) == a[1] < b[1] \/ (a[1] = b[1] /\ a[2] < b[2])

\* aeSearchNearestTimer: the first of the earliest.
aeSearchNearestTimer ==
    timers[Min({i \in DOMAIN timers :
        \A j \in DOMAIN timers : ~Earlier(timers[j].when, timers[i].when)})]

\* The timeout of aeProcessEvents, in milliseconds, from the timer's fields.
SleepFor(w) ==
    LET short == w[2] < now % MS
        sec == w[1] - (now \div MS) - (IF short THEN 1 ELSE 0)
        ms == (IF short THEN w[2] + MS ELSE w[2]) - (now % MS)
    IN  Max({sec, 0}) * MS + Max({ms, 0})

StartPoll ==
    /\ pc = "poll"
    /\ pc' = "wait"
    /\ left' = IF timers = <<>> THEN Wait ELSE SleepFor(aeSearchNearestTimer.when)
    /\ UNCHANGED <<fileVars, fired, stale, clock, lastTime, timeVars, maxId, te, ops>>

(* What epoll_wait may report: each watched descriptor with what it is     *)
(* ready for; EPOLLERR and EPOLLHUP count as writable, watched or not.     *)
Reports ==
    {f \in [FD -> SUBSET {R, W}] :
        \A fd \in FD : f[fd] \subseteq (IF interest[fd] = {} THEN {} ELSE interest[fd] \cup {W})}

aeApiPoll ==
    /\ pc = "wait"
    /\ \E f \in Reports :
        LET fds == {fd \in FD : f[fd] # {}} IN
        /\ fds # {} \/ left = 0
        /\ \E order \in SetToSeqs(fds) :
            fired' = [i \in DOMAIN order |-> [fd |-> order[i], mask |-> f[order[i]], r |-> FALSE]]
    /\ pc' = "file"
    /\ left' = Wait
    /\ busy' = 0
    /\ UNCHANGED <<fileVars, stale, now, back, lastTime, timeVars, maxId, te, ops>>

(* Walking the fired events: the reader, then the writer, each only if     *)
(* still registered.  After a reader that moved the table, fe is stale and *)
(* its mask is whatever the freed memory holds.                            *)
FileStep(next) ==
    /\ pc' = next
    /\ UNCHANGED <<fileVars, clock, lastTime, timeVars, maxId, te, ops, left>>

\* Mutant: what the poll reported is believed.
readUnchecked ==
    /\ pc = "file" /\ fired # <<>>
    /\ R \in Head(fired).mask /\ ~Head(fired).r
    /\ fired' = [fired EXCEPT ![1].r = TRUE]
    /\ UNCHANGED stale
    /\ FileStep("rhandler")

CallReader ==
    /\ pc = "file" /\ fired # <<>>
    /\ R \in Head(fired).mask \cap events[Head(fired).fd] /\ ~Head(fired).r
    /\ fired' = [fired EXCEPT ![1].r = TRUE]
    /\ UNCHANGED stale
    /\ FileStep("rhandler")

CallWriter ==
    /\ pc = "file" /\ fired # <<>>
    /\ ~(R \in Head(fired).mask \cap events[Head(fired).fd] /\ ~Head(fired).r)
    /\ W \in Head(fired).mask
    /\ stale \/ W \in events[Head(fired).fd]
    /\ fired' = Tail(fired)
    /\ stale' = FALSE
    /\ FileStep("whandler")

SkipWriter ==
    /\ pc = "file" /\ fired # <<>>
    /\ ~(R \in Head(fired).mask \cap events[Head(fired).fd] /\ ~Head(fired).r)
    /\ ~(W \in Head(fired).mask /\ W \in events[Head(fired).fd]) \/ stale
    /\ fired' = Tail(fired)
    /\ stale' = FALSE
    /\ FileStep("file")

HandlerReturns ==
    /\ pc \in {"rhandler", "whandler"}
    /\ pc' = "file"
    /\ UNCHANGED <<fileVars, fired, stale, left, clock, lastTime, timeVars, maxId, te, ops>>

\* Mutant: a clock that went back is not noticed.
beginAsIs ==
    /\ pc = "file" /\ fired = <<>>
    /\ pc' = "time"
    /\ lastTime' = now \div MS
    /\ maxId' = nextId - 1
    /\ UNCHANGED <<fileVars, fired, stale, left, clock, timeVars, te, ops>>

(* processTimeEvents: a clock that went back makes every timer due. *)
BeginTimers ==
    /\ pc = "file" /\ fired = <<>>
    /\ pc' = "time"
    /\ timers' = IF now \div MS < lastTime
                 THEN [i \in DOMAIN timers |-> [timers[i] EXCEPT !.when[1] = 0]]
                 ELSE timers
    /\ lastTime' = now \div MS
    /\ maxId' = nextId - 1
    /\ UNCHANGED <<fileVars, fired, stale, left, clock, nextId, te, ops>>

\* The timers of this round that are due, as positions in the list.
Due == {i \in DOMAIN timers : timers[i].id <= maxId /\ ~Earlier(When(now), timers[i].when)}

RunTimer ==
    /\ pc = "time"
    /\ Due # {}
    /\ te' = timers[Min(Due)].id
    /\ pc' = "thandler"
    /\ UNCHANGED <<fileVars, fired, stale, left, clock, lastTime, timeVars, maxId, ops>>

TimerReturns ==
    /\ pc = "thandler"
    /\ \/ \E ms \in Periods :
            timers' = [i \in DOMAIN timers |->
                IF timers[i].id = te THEN [timers[i] EXCEPT !.when = aeAddMillisecondsToNow(ms)]
                ELSE timers[i]]
       \/ timers' = WithoutTimer(te)
    /\ te' = -1
    /\ pc' = "time"
    /\ UNCHANGED <<fileVars, fired, stale, left, clock, lastTime, nextId, maxId, ops>>

EndTimers ==
    /\ pc = "time"
    /\ Due = {}
    /\ pc' = "poll"
    /\ UNCHANGED <<fileVars, fired, stale, left, clock, lastTime, timeVars, maxId, te, ops>>

----------------------------------------------------------------------------
(* The clock: external.  It may be set back while the loop sleeps. *)

Tick ==
    /\ now < MaxNow
    /\ IF pc = "wait"
       THEN /\ left # 0
            /\ left' = IF left = Wait THEN left ELSE left - 1
            /\ UNCHANGED busy
       ELSE busy < MaxBusy /\ busy' = busy + 1 /\ UNCHANGED left
    /\ now' = now + 1
    /\ UNCHANGED <<fileVars, fired, stale, pc, back, lastTime, timeVars, maxId, te, ops>>

SetBack ==
    /\ pc = "wait" /\ back < MaxBack
    /\ \E t \in MS..now - 1 : now' = t
    /\ back' = back + 1
    /\ UNCHANGED <<fileVars, fired, stale, pc, left, busy, lastTime, timeVars, maxId, te, ops>>

(* initServer: the listening socket and serverCron's timer, 1 ms ahead. *)
Init ==
    /\ events = [fd \in FD |-> IF fd = 0 THEN {R} ELSE {}]
    /\ interest = events
    /\ open = {0}
    /\ maxfd = 0
    /\ setsize = Min(SetSizes)
    /\ fired = <<>> /\ stale = FALSE
    /\ pc = "poll" /\ left = Wait
    /\ now = MS /\ back = 0 /\ busy = 0 /\ lastTime = 1
    /\ timers = <<[id |-> 0, when |-> aeAddMillisecondsToNow(1)]>>
    /\ nextId = 1 /\ maxId = 0 /\ te = -1
    /\ ops = MaxOps

Next ==
    \/ StartPoll \/ aeApiPoll
    \/ CallReader \/ CallWriter \/ SkipWriter \/ HandlerReturns
    \/ BeginTimers \/ RunTimer \/ TimerReturns \/ EndTimers
    \/ Accept
    \/ \E fd \in FD : WantWrite(fd) \/ DoneWriting(fd) \/ CloseFd(fd)
    \/ \E size \in SetSizes : aeResizeSetSize(size)
    \/ \E ms \in Periods : aeCreateTimeEvent(ms)
    \/ \E i \in DOMAIN timers : aeDeleteTimeEvent(timers[i].id)
    \/ Tick \/ SetBack

Spec == Init /\ [][Next]_vars
----------------------------------------------------------------------------

(* The masks in the event table, what epoll watches and the highest        *)
(* descriptor agree whatever handlers register and close, and nothing is   *)
(* watched on a descriptor that is closed.                                 *)
TablesAgree ==
    /\ interest = events
    /\ \A fd \in Registered(events) : fd \in open /\ fd < setsize
    /\ maxfd = Max({-1} \cup Registered(events))

InMs(w) == w[1] * MS + w[2]

(* After the timers have run, none is further ahead than its period, the   *)
(* time a turn takes and a second: a clock set back while the loop sleeps  *)
(* does not postpone a timer by the amount it was set back.                *)
TimersOnTime ==
    pc = "poll" =>
        \A i \in DOMAIN timers :
            InMs(timers[i].when) < now + Max(Periods) + MaxBusy + MS

LoopSound == TablesAgree /\ TimersOnTime

(* "maybe an already processed event removed an element that fired and we  *)
(* still didn't processed": no reader is called for a descriptor that is   *)
(* not registered for reading by then, nor a writer, unless the table was  *)
(* reallocated under the entry being served.                               *)
RegisteredCall ==
    /\ pc = "file" /\ pc' = "rhandler" => R \in events[Head(fired).fd]
    /\ pc = "file" /\ pc' = "whandler" => stale \/ W \in events[Head(fired).fd]

(* aeProcessEvents sleeps exactly until the nearest timer when that timer  *)
(* lies ahead, and less than a second when it is already due (not zero:    *)
(* the milliseconds are borrowed before the seconds are clamped).          *)
TimedSleep ==
    pc = "poll" /\ pc' = "wait" /\ timers # <<>> =>
        LET w == InMs(aeSearchNearestTimer.when)
        IN  IF w >= now THEN left' = w - now ELSE left' < MS

CallsAndSleeps == [][RegisteredCall /\ TimedSleep]_vars
=============================================================================
