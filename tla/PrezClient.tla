----------------------------- MODULE PrezClient -----------------------------
(***************************************************************************)
(* The clients of one node: accepting and freeing them, running what they  *)
(* send (networking.c, prez.c), and the writes that wait in proc_clients   *)
(* until the cluster has committed them (clusterProcessCommand of          *)
(* cluster.c, logApply of log.c).  Requests arrive whole, one or several   *)
(* per read (PrezProtocol is about their bytes); the node's role, its log  *)
(* and what is committed change under it the way PrezCluster describes.    *)
(*                                                                         *)
(* processCommand answers a write with PREZ_ERR "so that the client        *)
(* doesn't get reset": argv stays filled until logApply runs it.           *)
(***************************************************************************)
EXTENDS PrezLog, FiniteSets

CONSTANTS Client,        \* client structures
          Value,         \* values to write
          NoCmd,         \* c->cmd == NULL
          FlagReads,     \* what c->flags, never initialised, may read as
          MaxMarked,     \* bound on the clients for which it is not empty
          MaxClients,    \* what server.maxclients may be set to
          MaxSent,       \* bound on the requests of one client
          MaxLog,        \* bound on the log
          MaxRoles,      \* bound on changes of role
          InlineToo      \* the clients that use both protocols, not multibulk alone

VARIABLES cl,            \* [Client -> the client structure]
          proc_clients,  \* [1..MaxLog -> Client \cup {NoCmd}]
          role,          \* server.cluster->state
          log,           \* server.cluster->log_entries
          commit_index, applied,
          db,            \* the value of the one key
          crashed,       \* the process is gone, and why
          sent,          \* [Client -> number of requests sent]
          answers,       \* [Client -> the requests answered, in order]
          rushed,        \* clients that sent on while a write of theirs waited
          orphaned,      \* clients whose write waited when the node lost office
          roles, maxclients

vars == <<cl, proc_clients, role, log, commit_index, applied, db, crashed,
          sent, answers, rushed, orphaned, roles, maxclients>>

(* A request: n-th of its client; a write carries a value.                 *)
Transports(x) == {"multibulk"} \cup (IF x \in InlineToo THEN {"inline"} ELSE {})
Request(x, n) == [cmd : {"get"}, n : {n}, from : {x}, v : {NoCmd}, via : Transports(x)]
                   \cup [cmd : {"bad"}, n : {n}, from : {x}, v : {NoCmd}, via : {"inline"}]
                   \cup [cmd : {"set"}, n : {n}, from : {x}, v : Value, via : Transports(x)]

Running == crashed = "no"
Clients == {x \in Client : cl[x].st = "open"}          \* server.clients
Waiting == {x \in Client : \E i \in 1..MaxLog : proc_clients[i] = x}

NewClient(flags) == [st |-> "open", flags |-> flags, query |-> <<>>,
                     reqtype |-> "none", argv |-> NoCmd, out |-> <<>>]

resetClient(s, x) ==
    [s EXCEPT !.cl[x].argv = NoCmd, !.cl[x].reqtype = "none"]

(* addReply: nothing is queued for a client that is to be closed.          *)
addReply(s, x, r, reply) ==
    IF "close_after_reply" \in s.cl[x].flags THEN s
    ELSE [s EXCEPT !.cl[x].out = Append(@, [reply |-> reply, n |-> r.n]), !.answers[x] = Append(@, r.n)]

(* What the handlers work on.                                              *)
Here == [cl |-> cl, proc_clients |-> proc_clients, log |-> log, db |-> db,
         crashed |-> crashed, answers |-> answers, rushed |-> rushed]
Becomes(s) ==
    /\ cl' = s.cl /\ proc_clients' = s.proc_clients /\ log' = s.log /\ db' = s.db
    /\ crashed' = s.crashed /\ answers' = s.answers /\ rushed' = s.rushed

\* Mutant: a get of a missing key goes on after its null reply.
getFallsThrough(s, x) ==
    LET r == s.cl[x].argv
        null == IF r # NoCmd /\ r.cmd = "get" /\ s.db = NoCmd THEN addReply(s, x, r, "null") ELSE s
    IN  IF r = NoCmd THEN resetClient(s, x)
        ELSE IF r.cmd = "get" THEN resetClient(addReply(null, x, r, s.db), x)
        ELSE resetClient(addReply([s EXCEPT !.db = r.v], x, r, "ok"), x)

(* call(): run c->cmd if there is one, then reset the client.              *)
call(s, x) ==
    LET r == s.cl[x].argv
    IN  IF r = NoCmd THEN resetClient(s, x)
        ELSE IF r.cmd = "get" THEN resetClient(addReply(s, x, r, s.db), x)
        ELSE resetClient(addReply([s EXCEPT !.db = r.v], x, r, "ok"), x)

\* Mutant: the client waits for the entry before its own.
waitForPrevious(s, x, r) ==
    LET i == logCurrentIndex(s.log)
    IN  [s EXCEPT !.log = Append(@, [index |-> i + 1, cmd |-> r]),
                  !.proc_clients[i] = IF @ = NoCmd THEN x ELSE @]

(* clusterProcessCommand: log the command; dictAdd leaves an index that is *)
(* already in proc_clients with the client it has.                         *)
clusterProcessCommand(s, x, r) ==
    LET i == logCurrentIndex(s.log) + 1
    IN  [s EXCEPT !.log = Append(@, [index |-> i, cmd |-> r]),
                  !.proc_clients[i] = IF @ = NoCmd THEN x ELSE @]

\* Mutant: PREZ_OK for a write that waits, so that the client is reset.
resetWaiting(s, x, r) ==
    LET t == [s EXCEPT !.cl[x].argv = r]
    IN  IF r.cmd = "bad" THEN resetClient(addReply(t, x, r, "unknown command"), x)
        ELSE IF r.cmd = "get" THEN resetClient(call(t, x), x)
        ELSE IF role = "leader" THEN resetClient(clusterProcessCommand(t, x, r), x)
        ELSE resetClient(addReply(t, x, r, "ask"), x)

processCommand(s, x, r) ==
    LET t == [s EXCEPT !.cl[x].argv = r]
    IN  IF r.cmd = "bad" THEN resetClient(addReply(t, x, r, "unknown command"), x)
        ELSE IF r.cmd = "get" THEN resetClient(call(t, x), x)
        ELSE IF role = "candidate" THEN resetClient(addReply(t, x, r, "clusterdown"), x)
        ELSE IF role = "follower" THEN resetClient(addReply(t, x, r, "ask"), x)
        ELSE clusterProcessCommand(t, x, r)

(* The loop of processInputBuffer over whole requests.  A client that was  *)
(* not reset is still in its last request: an array request then meets the *)
(* assertion that argc is 0; a line is taken as the next command over it,  *)
(* and an array read as lines is a bad command.                            *)
RECURSIVE processInputBuffer(_, _)
processInputBuffer(s, x) ==
    LET c == s.cl[x]
        r == Head(c.query)
        reqtype == IF c.reqtype = "none" THEN r.via ELSE c.reqtype
        t == [s EXCEPT !.cl[x].query = Tail(@), !.cl[x].reqtype = reqtype,
                       !.rushed = IF c.argv = NoCmd THEN @ ELSE @ \cup {x}]
        read == IF reqtype = "inline" /\ r.via = "multibulk" THEN [r EXCEPT !.cmd = "bad"] ELSE r
    IN  IF s.crashed # "no" \/ c.query = <<>> \/ c.flags \cap {"blocked", "close_after_reply"} # {} THEN s
        ELSE IF reqtype = "multibulk" /\ c.argv # NoCmd
        THEN [t EXCEPT !.crashed = "argc"]
        ELSE processInputBuffer(processCommand(t, x, read), x)

(* freeClient: out of every list but proc_clients.                         *)
freeClient(s, x) ==
    IF "close_asap" \in s.cl[x].flags THEN [s EXCEPT !.crashed = "clients_to_close"]
    ELSE [s EXCEPT !.cl[x].st = "freed", !.cl[x].query = <<>>, !.cl[x].out = <<>>,
                   !.cl[x].argv = NoCmd]
----------------------------------------------------------------------------
Init ==
    /\ cl = [x \in Client |-> [NewClient({}) EXCEPT !.st = "none"]]
    /\ proc_clients = [i \in 1..MaxLog |-> NoCmd]
    /\ role \in {"follower", "candidate", "leader"}
    /\ log = <<>> /\ commit_index = 0 /\ applied = <<>> /\ db = NoCmd
    /\ crashed = "no"
    /\ sent = [x \in Client |-> 0] /\ answers = [x \in Client |-> <<>>]
    /\ rushed = {} /\ orphaned = {} /\ roles = 0 /\ maxclients \in MaxClients

(* acceptCommonHandler: the client is created before it is counted, and    *)
(* freed again when it is one too many.                                    *)
acceptCommonHandler(x, flags) ==
    /\ Running /\ cl[x].st = "none"
    /\ flags # {} => Cardinality({y \in Client : "close_asap" \in cl[y].flags}) < MaxMarked
    /\ LET s == [Here EXCEPT !.cl[x] = NewClient(flags)]
       IN  Becomes(IF Cardinality(Clients) + 1 > maxclients THEN freeClient(s, x) ELSE s)
    /\ UNCHANGED <<role, commit_index, applied, sent, orphaned, roles, maxclients>>

(* readQueryFromClient: one or more requests in one read.                  *)
readQueryFromClient(x, rs) ==
    /\ Running /\ x \in Clients
    /\ sent[x] + Len(rs) <= MaxSent /\ Len(log) + Len(rs) <= MaxLog
    /\ Becomes(processInputBuffer([Here EXCEPT !.cl[x].query = @ \o rs], x))
    /\ sent' = [sent EXCEPT ![x] = @ + Len(rs)]
    /\ UNCHANGED <<role, commit_index, applied, orphaned, roles, maxclients>>

(* The peer closes, or a read or write fails.                              *)
Disconnect(x) ==
    /\ Running /\ x \in Clients
    /\ Becomes(freeClient(Here, x))
    /\ UNCHANGED <<role, commit_index, applied, sent, orphaned, roles, maxclients>>

(* sendReplyToClient delivers everything queued.                           *)
sendReplyToClient(x) ==
    /\ Running /\ x \in Clients /\ cl[x].out # <<>>
    /\ LET s == [Here EXCEPT !.cl[x].out = <<>>]
       IN  Becomes(IF "close_after_reply" \in cl[x].flags THEN freeClient(s, x) ELSE s)
    /\ UNCHANGED <<role, commit_index, applied, sent, orphaned, roles, maxclients>>

(* The leader learns that a majority has one more entry; a follower is     *)
(* told.                                                                   *)
Commit ==
    /\ Running /\ role # "candidate" /\ commit_index < Len(log)
    /\ commit_index' = commit_index + 1
    /\ UNCHANGED <<cl, proc_clients, role, log, applied, db, crashed, sent, answers,
                   rushed, orphaned, roles, maxclients>>

(* logApply of entry i: a leader runs it as the client that waits for it,  *)
(* everyone else from the log.                                             *)
ApplyEntry(i) ==
    LET x == proc_clients[i]
        run == IF cl[x].argv = NoCmd THEN NoCmd ELSE [cl[x].argv EXCEPT !.via = "multibulk"]
        entry == [log[i].cmd EXCEPT !.via = "multibulk"]
    IN  /\ IF role = "leader" /\ x # NoCmd
           THEN /\ Becomes([(IF cl[x].st = "freed" THEN [Here EXCEPT !.crashed = "freed client"]
                             ELSE call(Here, x)) EXCEPT !.proc_clients[i] = NoCmd])
                /\ applied' = Append(applied, IF cl[x].st = "freed" THEN NoCmd ELSE run)
           ELSE /\ Becomes([Here EXCEPT !.db = entry.v])
                /\ applied' = Append(applied, entry)
        /\ UNCHANGED <<role, commit_index, sent, orphaned, roles, maxclients>>

\* Mutant: the last committed entry is left for the next time.
applyButLast == Running /\ Len(applied) + 1 < commit_index /\ ApplyEntry(Len(applied) + 1)

(* One round of its loop.                                                  *)
logApply == Running /\ Len(applied) < commit_index /\ ApplyEntry(Len(applied) + 1)

(* The cluster moves the node to another role; a node that is not leader   *)
(* may have to give up uncommitted entries, or take another leader's.      *)
ChangeRole(new) ==
    /\ Running /\ roles < MaxRoles /\ role # new
    /\ <<role, new>> \notin {<<"follower", "leader">>, <<"leader", "candidate">>}
    /\ role' = new /\ roles' = roles + 1
    /\ orphaned' = IF role = "leader" THEN orphaned \cup Waiting ELSE orphaned
    /\ UNCHANGED <<cl, proc_clients, log, commit_index, applied, db, crashed, sent,
                   answers, rushed, maxclients>>

ReplaceEntry(r) ==
    /\ Running /\ role = "follower" /\ Len(log) > commit_index
    /\ log' = Append(SubSeq(log, 1, Len(log) - 1), [index |-> Len(log), cmd |-> r])
    /\ log' # log
    /\ UNCHANGED <<cl, proc_clients, role, commit_index, applied, db, crashed, sent,
                   answers, rushed, orphaned, roles, maxclients>>

Elsewhere == [cmd : {"set"}, n : {0}, from : {NoCmd}, v : Value, via : {"multibulk"}]

Next ==
    \/ \E x \in Client, flags \in FlagReads : acceptCommonHandler(x, flags)
    \/ \E x \in Client : \E r \in Request(x, sent[x] + 1) :
         \/ readQueryFromClient(x, <<r>>)
         \/ \E q \in Request(x, sent[x] + 2) : readQueryFromClient(x, <<r, q>>)
    \/ \E x \in Client : Disconnect(x)
    \/ \E x \in Client : sendReplyToClient(x)
    \/ Commit
    \/ logApply
    \/ \E new \in {"follower", "candidate", "leader"} : ChangeRole(new)
    \/ \E r \in Elsewhere : ReplaceEntry(r)

(* The event loop serves the node's own work again and again.              *)
Fairness == WF_vars(Commit) /\ WF_vars(logApply)

Spec == Init /\ [][Next]_vars
FairSpec == Spec /\ Fairness
----------------------------------------------------------------------------
(* A node runs at each index the command its log has there, whether it     *)
(* takes it from the waiting client or from the entry, as long as no       *)
(* client sent on over a waiting write and no write was left waiting when  *)
(* the node lost office.                                                   *)
RunsWhatIsLogged ==
    rushed = {} /\ orphaned = {} /\ Running =>
      \A i \in 1..Len(applied) :
        applied[i] = [log[i].cmd EXCEPT !.via = "multibulk"]

(* Every request is answered once and in the order it was sent, whatever   *)
(* else the node is doing, to a client that waits for its writes.          *)
AnsweredInOrder ==
    \A x \in Client \ (rushed \cup orphaned) :
      \A k \in 1..Len(answers[x]) : answers[x][k] = k

(* A client that is told "ok" has its write in the committed log, once.    *)
OkMeansCommitted ==
    rushed = {} /\ orphaned = {} =>
      \A x \in Client : \A k \in 1..Len(cl[x].out) :
        cl[x].out[k].reply = "ok" =>
          Cardinality({i \in 1..Len(applied) : applied[i] # NoCmd
                         /\ applied[i].from = x /\ applied[i].n = cl[x].out[k].n}) = 1

(* The assertions and the pointers that logApply follows hold, unless a    *)
(* client sent on over its waiting write, left while it waited, or was     *)
(* created over memory that read as PREZ_CLOSE_ASAP.                       *)
CrashHasCause ==
    /\ crashed = "argc" => rushed # {}
    /\ crashed = "freed client" => \E x \in Client : cl[x].st = "freed"
    /\ crashed = "clients_to_close" => \E x \in Client : "close_asap" \in cl[x].flags
    /\ \A x \in Waiting : cl[x].st = "open" /\ x \notin rushed => cl[x].argv # NoCmd

Settled(x) == x \notin Waiting \/ ~Running \/ orphaned # {}

(* A write that waits on a leader that stays in office is answered.        *)
WaitingIsAnswered == \A x \in Client : x \in Waiting ~> Settled(x)

(* The assertion of processMultibulkBuffer, "The client should have been   *)
(* reset".                                                                 *)
ClientWasReset == crashed # "argc"
=============================================================================
