----------------------------- MODULE PrezConfig -----------------------------
(***************************************************************************)
(* The settings of the server: the defaults, the lines of the              *)
(* configuration file and of the command line that overwrite them one by   *)
(* one, the adjustment of maxclients to the limit on open files, and the   *)
(* CONFIG command that changes settings while the server runs.             *)
(*                                                                         *)
(* A line is a name and one argument: a number (word = "number"), or a     *)
(* word; a number directive reads a word as atoi() does, as 0.  The        *)
(* argument of client-output-buffer-limit is a sequence of groups <class,  *)
(* hard, soft, seconds>.  int is the range -IntMax-1 .. IntMax, long long  *)
(* is every integer.                                                       *)
(***************************************************************************)
EXTENDS Integers, Sequences

CONSTANTS IntMax, MaxPort, MinHz, MaxHz, BindMax,
          Reserved, FdsetIncr, Step,   \* PREZ_MIN_RESERVED_FDS, ..FDSET_INCR, decr_step
          Lines, Requests,             \* what the file holds, what CONFIG SET is asked
          Limits,                      \* the limits on open files at start: [cur, max, root, known]
          AssumedFiles,                \* 1024, what a limit that cannot be read counts as
          MaxLines, MaxSets            \* bounds: lines read, CONFIG SETs received

VARIABLES phase,    \* "load", "refused", "exited", "running" or "looping"
          server, setsize, rlimit, reply,
          line,     \* the line that was refused
          count,    \* how many there have been since the start, or since the load
          asked     \* ghost: per number setting, the last accepted value

vars == <<phase, server, setsize, rlimit, reply, line, count, asked>>

Numbers == {"timeout", "tcp-keepalive", "port", "tcp-backlog", "cluster-port",
            "maxclients", "maxmemory-samples", "hz",
            "cluster-election-timeout", "cluster-heartbeat-interval"}
Texts == {"name", "unixsocket", "logfile", "syslog-ident", "pidfile", "cluster-config-file"}

initServerConfig ==
    [timeout |-> 0, keepalive |-> 0, port |-> 1, backlog |-> 1, cport |-> 2, maxclients |-> 3,
     samples |-> 0, memory |-> 0, hz |-> MaxHz, et |-> 2, hb |-> 1, bind |-> 0, perm |-> 0,
     verbosity |-> "debug", policy |-> "none", facility |-> "local0",
     syslog |-> 0, daemonize |-> 0,
     limit |-> [hard |-> 0, soft |-> 0, secs |-> 0],
     text |-> [t \in Texts |-> "default"]]

Field == [n \in Numbers |->
    CASE n = "timeout" -> "timeout" [] n = "tcp-keepalive" -> "keepalive" [] n = "port" -> "port"
      [] n = "tcp-backlog" -> "backlog" [] n = "cluster-port" -> "cport"
      [] n = "maxclients" -> "maxclients" [] n = "maxmemory-samples" -> "samples"
      [] n = "hz" -> "hz" [] n = "cluster-election-timeout" -> "et"
      [] n = "cluster-heartbeat-interval" -> "hb"]
----------------------------------------------------------------------------
(* Conversions. *)
ToInt(n) == ((n + IntMax + 1) % (2 * (IntMax + 1))) - (IntMax + 1)
atoi(l) == IF l.word = "number" THEN ToInt(l.num) ELSE 0
strtoll(l) == IF l.word = "number" THEN l.num ELSE 0

yesnotoi(w) == CASE w = "yes" -> 1 [] w = "no" -> 0 [] OTHER -> -1

Clamp(hz) == IF hz < MinHz THEN MinHz ELSE IF hz > MaxHz THEN MaxHz ELSE hz

getClientTypeByName(w) == IF w = "normal" THEN 0 ELSE -1
----------------------------------------------------------------------------
(* loadServerConfigFromString, one family of directives an operator: the   *)
(* settings after the line, or none when the line is an error.  Each       *)
(* directive stores the value first and tests what it has stored.          *)
loadNetworking(s, l) ==
    CASE l.name = "timeout" -> {t \in {[s EXCEPT !.timeout = atoi(l)]} : t.timeout >= 0}
      [] l.name = "name" -> {[s EXCEPT !.text["name"] = l.word]}
      [] l.name = "tcp-keepalive" -> {t \in {[s EXCEPT !.keepalive = atoi(l)]} : t.keepalive >= 0}
      [] l.name = "port" -> {t \in {[s EXCEPT !.port = atoi(l)]} : t.port >= 0 /\ t.port <= MaxPort}
      [] l.name = "tcp-backlog" -> {t \in {[s EXCEPT !.backlog = atoi(l)]} : t.backlog >= 0}
      [] l.name = "bind" -> {t \in {[s EXCEPT !.bind = l.num]} : l.num <= BindMax}
      [] l.name = "unixsocket" -> {[s EXCEPT !.text["unixsocket"] = l.word]}
      [] OTHER -> {t \in {[s EXCEPT !.perm = strtoll(l)]} : t.perm \in 0..511}   \* unixsocketperm

(* "unreachable" is a directory chdir() refuses, a file fopen() refuses.   *)
loadLogging(s, l) ==
    CASE l.name = "dir" -> {t \in {s} : l.word # "unreachable"}
      [] l.name = "loglevel" ->
            {t \in {[s EXCEPT !.verbosity = l.word]} :
                t.verbosity \in {"debug", "verbose", "notice", "warning"}}
      [] l.name = "logfile" ->
            {t \in {[s EXCEPT !.text["logfile"] = l.word]} : l.word # "unreachable"}
      [] l.name = "syslog-enabled" ->
            {t \in {[s EXCEPT !.syslog = yesnotoi(l.word)]} : t.syslog # -1}
      [] l.name = "syslog-ident" -> {[s EXCEPT !.text["syslog-ident"] = l.word]}
      [] OTHER -> {t \in {[s EXCEPT !.facility = l.word]} : l.word \in {"user", "local0"}}

loadMemory(s, l) ==
    CASE l.name = "include" -> {t \in {s} : l.word # "unreachable"}  \* its lines are read next
      [] l.name = "maxclients" -> {t \in {[s EXCEPT !.maxclients = atoi(l)]} : t.maxclients >= 1}
      [] l.name = "maxmemory" -> {[s EXCEPT !.memory = strtoll(l)]}    \* memtoll, without a unit
      [] l.name = "maxmemory-policy" ->
            {t \in {[s EXCEPT !.policy = l.word]} : t.policy \in {"volatile-lru", "noeviction"}}
      [] OTHER -> {t \in {[s EXCEPT !.samples = atoi(l)]} : t.samples > 0}

loadProcess(s, l) ==
    CASE l.name = "daemonize" ->
            {t \in {[s EXCEPT !.daemonize = yesnotoi(l.word)]} : t.daemonize # -1}
      [] OTHER -> {[s EXCEPT !.hz = Clamp(atoi(l))]}

loadPidfile(s, l) == {[s EXCEPT !.text["pidfile"] = l.word]}

(* The range test of the cluster port reads the client port.               *)
loadCluster(s, l) ==
    CASE l.name = "cluster-port" ->
            {t \in {[s EXCEPT !.cport = atoi(l)]} : t.cport >= 0 /\ t.port <= MaxPort}
      [] l.name = "cluster-config-file" -> {[s EXCEPT !.text["cluster-config-file"] = l.word]}
      [] l.name = "cluster-election-timeout" -> {t \in {[s EXCEPT !.et = strtoll(l)]} : t.et > 0}
      [] OTHER -> {t \in {[s EXCEPT !.hb = strtoll(l)]} : t.hb > 0}

(* A line of the file has one group.                                       *)
loadOutputLimit(s, l) ==
    LET g == l.groups[1]
    IN  {t \in {[s EXCEPT !.limit = [hard |-> g.hard, soft |-> g.soft, secs |-> ToInt(g.secs)]]} :
            getClientTypeByName(g.class) # -1 /\ t.limit.secs >= 0}

loadServerConfigFromString(s, l) ==
    CASE l.name \in {"timeout", "name", "tcp-keepalive", "port", "tcp-backlog", "bind",
                     "unixsocket", "unixsocketperm"} -> loadNetworking(s, l)
      [] l.name \in {"dir", "loglevel", "logfile", "syslog-enabled", "syslog-ident",
                     "syslog-facility"} -> loadLogging(s, l)
      [] l.name \in {"include", "maxclients", "maxmemory", "maxmemory-policy", "maxmemory-samples"} ->
            loadMemory(s, l)
      [] l.name \in {"daemonize", "hz"} -> loadProcess(s, l)
      [] l.name = "pidfile" -> loadPidfile(s, l)
      [] l.name \in {"cluster-port", "cluster-config-file", "cluster-election-timeout",
                     "cluster-heartbeat-interval"} -> loadCluster(s, l)
      [] l.name = "client-output-buffer-limit" -> loadOutputLimit(s, l)
      [] l.name \in {"", "#"} -> {s}
      [] OTHER -> {}
----------------------------------------------------------------------------
(* adjustOpenFilesLimit: the largest limit, going down from the wanted one *)
(* in steps, that setrlimit() accepts; below the present one the present   *)
(* one stays.  The last step is not taken when it would go below zero.     *)
(* Only a privileged process may raise the hard limit; the call sets both  *)
(* limits to what it asks.                                                 *)
setrlimit(r, f) == f <= r.max \/ r.root

Tried(want, cur) ==
    {f \in (cur + 1)..want : (want - f) % Step = 0}

Reached(r, want) ==
    LET tried == Tried(want, r.cur)
        granted == {f \in tried : setrlimit(r, f)}
        last == CHOOSE f \in tried : \A h \in tried : f <= h
    IN  IF granted # {} THEN CHOOSE f \in granted : \A h \in granted : f >= h
        ELSE IF last < Step THEN last ELSE r.cur

adjustOpenFilesLimit(s, r) ==
    LET want == s.maxclients + Reserved
        f == Reached(r, want)
    IN  IF ~r.known
        THEN [server |-> [s EXCEPT !.maxclients = AssumedFiles - Reserved], rlimit |-> r, exit |-> FALSE]
        ELSE IF r.cur >= want THEN [server |-> s, rlimit |-> r, exit |-> FALSE]
        ELSE [server |-> [s EXCEPT !.maxclients = IF f = want THEN @ ELSE f - Reserved],
              rlimit |-> IF setrlimit(r, f) /\ f > r.cur THEN [r EXCEPT !.cur = f, !.max = f] ELSE r,
              exit |-> f # want /\ f - Reserved < 1]
----------------------------------------------------------------------------
NoLine == [name |-> "", num |-> 0, word |-> "", groups |-> <<>>]

Init ==
    /\ phase = "load" /\ server = initServerConfig /\ setsize = 0
    /\ rlimit \in Limits /\ reply = "none" /\ line = NoLine /\ count = 0
    /\ asked = [n \in Numbers |-> initServerConfig[Field[n]]]

(* One more line of the file, of an included file, or of the options, that *)
(* loadServerConfig appends to the file.                                   *)
loadServerConfig(l) ==
    /\ phase = "load" /\ count < MaxLines
    /\ LET after == loadServerConfigFromString(server, l)
       IN  IF after = {} THEN phase' = "refused" /\ UNCHANGED <<server, asked>>
           ELSE /\ \E s \in after : server' = s
                /\ asked' = IF l.name \in Numbers
                            THEN [asked EXCEPT ![l.name] = IF l.word = "number" THEN l.num ELSE 0]
                            ELSE asked
                /\ UNCHANGED phase
    /\ line' = IF phase' = "refused" THEN l ELSE NoLine
    /\ count' = count + 1
    /\ UNCHANGED <<setsize, rlimit, reply>>

(* initServer: the limit on open files, then the event loop.               *)
initServer ==
    /\ phase = "load"
    /\ LET a == adjustOpenFilesLimit(server, rlimit)
       IN  IF a.exit
           THEN phase' = "exited" /\ UNCHANGED <<server, setsize, rlimit>>
           ELSE /\ phase' = "running"
                /\ server' = a.server /\ rlimit' = a.rlimit
                /\ setsize' = a.server.maxclients + FdsetIncr
    /\ UNCHANGED <<reply, line, asked>> /\ count' = 0
----------------------------------------------------------------------------
(* configSetCommand.  Each branch answers "ok" or "err".                   *)
Answer(r, s) == reply' = r /\ server' = s

(* A value above int wraps; a negative sum is a limit near 2^64, from      *)
(* which adjustOpenFilesLimit steps down without end.  A refusal puts the  *)
(* old value back.                                                         *)
setMaxclients(q, canResize) ==
    LET s == [server EXCEPT !.maxclients = ToInt(q.num)]
        a == adjustOpenFilesLimit(s, rlimit)
    IN  IF q.num <= server.maxclients THEN Answer("ok", s) /\ UNCHANGED <<setsize, rlimit, phase>>
        ELSE IF rlimit.known /\ s.maxclients + Reserved < 0
             THEN phase' = "looping" /\ server' = s /\ UNCHANGED <<setsize, rlimit, reply>>
        ELSE IF a.exit THEN phase' = "exited" /\ UNCHANGED <<server, setsize, rlimit, reply>>
        ELSE /\ rlimit' = a.rlimit /\ UNCHANGED phase
             /\ IF a.server.maxclients # q.num THEN Answer("err", server) /\ UNCHANGED setsize
                ELSE IF setsize >= q.num + FdsetIncr THEN Answer("ok", a.server) /\ UNCHANGED setsize
                ELSE IF ~canResize THEN Answer("err", server) /\ UNCHANGED setsize
                ELSE Answer("ok", a.server) /\ setsize' = q.num + FdsetIncr

setNumber(s, q) ==
    CASE q.name = "hz" -> {t \in {[s EXCEPT !.hz = Clamp(ToInt(q.num))]} : q.num >= 0}
      [] q.name = "timeout" -> {t \in {[s EXCEPT !.timeout = ToInt(q.num)]} : q.num >= 0}
      [] OTHER -> {t \in {[s EXCEPT !.keepalive = ToInt(q.num)]} : q.num >= 0 /\ q.num <= IntMax}

setClusterNumber(s, q) ==
    IF q.name = "cluster-heartbeat-interval" THEN {t \in {[s EXCEPT !.hb = q.num]} : q.num > 0}
    ELSE {t \in {[s EXCEPT !.et = q.num]} : q.num > 0}

setLoglevel(s, q) ==
    {t \in {[s EXCEPT !.verbosity = q.word]} :
        t.verbosity \in {"debug", "verbose", "notice", "warning"}}

Stored(s, groups) ==
    IF groups = <<>> THEN s
    ELSE LET last == groups[Len(groups)]
         IN  [s EXCEPT !.limit = [hard |-> last.hard, soft |-> last.soft, secs |-> ToInt(last.secs)]]

BadGroup(g) == getClientTypeByName(g.class) = -1 \/ g.hard < 0 \/ g.soft < 0 \/ g.secs < 0
BadGroups(q) == {i \in DOMAIN q.groups : BadGroup(q.groups[i])}

\* Mutant: each group is stored as soon as it has been tested.
limitWhileTesting(q) ==
    IF q.word = "ragged" THEN Answer("err", server)
    ELSE IF BadGroups(q) = {} THEN Answer("ok", Stored(server, q.groups))
    ELSE LET i == CHOOSE i \in BadGroups(q) : \A j \in BadGroups(q) : i <= j
         IN  Answer("err", Stored(server, SubSeq(q.groups, 1, i - 1)))

(* Every group is tested before the first is stored; the last one stays.   *)
setOutputLimit(q) ==
    IF q.word = "ragged" \/ BadGroups(q) # {} THEN Answer("err", server)
    ELSE Answer("ok", Stored(server, q.groups))

(* The settings that only CONFIG SET's own test can refuse.                *)
Settable(q) ==
    CASE q.name \in {"hz", "timeout", "tcp-keepalive"} ->
            IF q.word = "number" THEN setNumber(server, q) ELSE {}
      [] q.name \in {"cluster-heartbeat-interval", "cluster-election-timeout"} ->
            IF q.word = "number" THEN setClusterNumber(server, q) ELSE {}
      [] q.name = "loglevel" -> setLoglevel(server, q)
      [] q.name = "dbfilename" -> {s \in {server} : q.word # "path"}
      [] OTHER -> {}

configSetCommand(q) ==
    IF q.name = "maxclients" /\ q.word = "number" /\ q.num >= 1
    THEN \E canResize \in BOOLEAN : setMaxclients(q, canResize)
    ELSE /\ IF q.name = "client-output-buffer-limit" THEN setOutputLimit(q)
            ELSE IF q.name = "maxclients" \/ Settable(q) = {} THEN Answer("err", server)
            ELSE \E s \in Settable(q) : Answer("ok", s)
         /\ UNCHANGED <<setsize, rlimit, phase>>

(* configGetCommand: what CONFIG GET prints of a number.                   *)
configGetCommand(s, n) == s[Field[n]]

(* CONFIG SET.  CONFIG GET changes nothing, CONFIG RESETSTAT only the      *)
(* statistics, which are not modelled.                                     *)
configCommand(q) ==
    /\ phase = "running" /\ count < MaxSets
    /\ configSetCommand(q)
    /\ asked' = IF q.name \in Numbers /\ reply' = "ok" /\ phase' = "running"
                THEN [asked EXCEPT ![q.name] = q.num] ELSE asked
    /\ count' = count + 1 /\ UNCHANGED line

Next == (\E l \in Lines : loadServerConfig(l)) \/ initServer \/ (\E q \in Requests : configCommand(q))
Spec == Init /\ [][Next]_vars
----------------------------------------------------------------------------
(* A running server has file descriptors and event slots for maxclients    *)
(* clients besides the ones it needs itself, after the start and after     *)
(* every CONFIG SET maxclients, granted, refused by the system, or refused *)
(* by the event loop (prez.c 674, config.c 638).  When getrlimit() fails   *)
(* the descriptors are a guess.                                            *)
FdsSuffice ==
    phase = "running" =>
        /\ server.maxclients >= 1
        /\ rlimit.known => server.maxclients + Reserved <= rlimit.cur
        /\ server.maxclients + FdsetIncr <= setsize

(* What is in force is what was last asked: the last line for a number, or *)
(* the last CONFIG SET that was answered OK, if the number fits an int;    *)
(* hz is clamped, maxclients may have been lowered to the limit on files.  *)
AsAsked ==
    phase = "running" => \A n \in Numbers : asked[n] \in 0..IntMax =>
        LET got == configGetCommand(server, n)
        IN  CASE n = "hz" -> got = Clamp(asked[n])
              [] n = "maxclients" -> rlimit.known => got <= asked[n]
              [] OTHER -> got = asked[n]

Refusal ==
    phase = "running" =>
        /\ phase' # "exited"
        /\ phase' = "running" /\ reply' = "err" => server' = server

(* A CONFIG SET that is answered with an error has changed no setting, the *)
(* limits of several client classes in one request included (config.c 850),*)
(* and none ends in the exit() adjustOpenFilesLimit has for the start.     *)
RefusedChangesNothing == [][Refusal]_vars
=============================================================================
