---------------------------- MODULE PrezStartup ----------------------------
(***************************************************************************)
(* How the server comes up and which sockets it holds: initServer opens    *)
(* the listening sockets of the clients, clusterInit reads the nodes of    *)
(* the cluster from a file and opens those of the cluster bus; then        *)
(* connections are accepted, made and closed.  The calls of anet.c are the *)
(* outcomes the operating system can give them.                            *)
(***************************************************************************)
EXTENDS Integers, Sequences, FiniteSets, FiniteSetsExt, SequencesExt

CONSTANTS Binds,      \* the bind directives to try: sequences of "v4" and "v6"
          Files,      \* the cluster configuration files to try
          MyName,     \* server.name
          Fold,       \* [name -> name]: lower case
          ServerPort, \* server.port
          SetSize,    \* slots of the event loop
          MaxClients, MaxFd    \* server.maxclients; bound on the descriptors in use

VARIABLES phase,      \* "tcp", "unix", "events", "nodes", "bus", "busevents", "running", ...
          conf,       \* [bind, port, unix]
          open,       \* fd -> what the kernel and the event loop know of it
          ipfd, sofd, cfd,
          j,          \* the address or line in turn
          clients, inlinks,   \* the descriptors of clients and of accepted links
          file, nodes, myself \* nodes: the clusterNodes in the order of creation

vars == <<phase, conf, open, ipfd, sofd, cfd, j, clients, inlinks, file, nodes, myself>>
netVars == <<open, ipfd, sofd, cfd, clients, inlinks>>
nodeVars == <<file, nodes, myself>>

ANET_ERR == -1
PREZ_CLUSTER_PORT_INCR == 10000
----------------------------------------------------------------------------
(* Sockets.  Each call gives the set of its possible results [fd, open].   *)
socket(o) == Min(0..MaxFd \ DOMAIN o)
Fresh == [listening |-> FALSE, connected |-> FALSE, nonblock |-> FALSE, reuse |-> TRUE,
          handler |-> "none", port |-> 0]
Opened(o, s, rec) == [f \in DOMAIN o \cup {s} |-> IF f = s THEN rec ELSE o[f]]
close(o, s) == [f \in DOMAIN o \ {s} |-> o[f]]
Failed(o) == {[fd |-> ANET_ERR, open |-> o]}

(* fcntl() on an open socket does not fail.                                *)
anetNonBlock(o, s) == [o EXCEPT ![s].nonblock = TRUE]

(* bind() or listen() fails, and the socket is closed; or both succeed.    *)
anetListen(o, s) ==
    Failed(close(o, s)) \cup {[fd |-> s, open |-> [o EXCEPT ![s].listening = TRUE]]}

(* The address cannot be resolved or gives no socket; IPV6_V6ONLY fails,   *)
(* and the socket is closed; SO_REUSEADDR fails, and it is not; or the     *)
(* socket is bound.                                                        *)
_anetTcpServer(o, af) ==
    LET s == socket(o)
        withSocket == Opened(o, s, Fresh)
        anetV6Only == IF af = "v6" THEN Failed(close(withSocket, s)) ELSE {}
        anetSetReuseAddr == Failed([withSocket EXCEPT ![s].reuse = FALSE])
    IN  Failed(o) \cup anetV6Only \cup anetSetReuseAddr \cup anetListen(withSocket, s)

(* anetCreateSocket closes the socket whose SO_REUSEADDR fails.            *)
anetUnixServer(o) == LET s == socket(o) IN Failed(o) \cup anetListen(Opened(o, s, Fresh), s)

(* The next connection in the queue, or an error.                          *)
anetGenericAccept(o) ==
    Failed(o) \cup {[fd |-> socket(o), open |-> Opened(o, socket(o), [Fresh EXCEPT !.connected = TRUE])]}

(* No address, or none that gives a connection: an error with the socket   *)
(* closed.  A source address that cannot be bound jumps to the end: the    *)
(* socket is returned although it was never connected.                     *)
anetTcpGenericConnect(o, source, port) ==
    LET s == socket(o)
        rec == [Fresh EXCEPT !.nonblock = TRUE, !.port = port]
        unbound == [fd |-> s, open |-> Opened(o, s, rec)]
    IN  Failed(o) \cup {[fd |-> s, open |-> Opened(o, s, [rec EXCEPT !.connected = TRUE])]}
        \cup (IF source THEN {unbound} ELSE {})

(* aeCreateFileEvent refuses a descriptor beyond the slots.                *)
HasSlot(s) == s < SetSize
aeCreateFileEvent(o, s, proc) == IF HasSlot(s) THEN [o EXCEPT ![s].handler = proc] ELSE o
----------------------------------------------------------------------------
Init ==
    /\ conf \in [bind : Binds, port : BOOLEAN, unix : BOOLEAN]
    /\ phase = "tcp" /\ open = [f \in 0..2 |-> [Fresh EXCEPT !.handler = "std"]]
    /\ ipfd = <<>> /\ sofd = ANET_ERR /\ cfd = <<>> /\ j = 1
    /\ clients = {} /\ inlinks = {}
    /\ file \in Files /\ nodes = <<>> /\ myself = 0

(* listenToPort: every address of the bind directive, or * for IPv6 and    *)
(* IPv4, of which one is enough.  `fds' is ipfd or cfd.                    *)
ListenAny(o, fds) ==
    UNION {{LET got == SelectSeq(<<a.fd, b.fd>>, LAMBDA f : f # ANET_ERR)
            IN  [ok |-> got # <<>>, fds |-> fds \o got,
                 open |-> [f \in DOMAIN b.open |->
                    IF f \in ToSet(got) THEN [b.open[f] EXCEPT !.nonblock = TRUE] ELSE b.open[f]]]
             : b \in _anetTcpServer(a.open, "v4")} : a \in _anetTcpServer(o, "v6")}

ListenOn(o, fds, af) ==
    {[ok |-> a.fd # ANET_ERR, fds |-> Append(fds, a.fd),
      open |-> IF a.fd = ANET_ERR THEN a.open ELSE anetNonBlock(a.open, a.fd)]
        : a \in _anetTcpServer(o, af)}

(* One round of its loop; the caller exits on an error.                    *)
listenToPort(fds, fdsNew, after) ==
    \E r \in (IF conf.bind = <<>> THEN ListenAny(open, fds) ELSE ListenOn(open, fds, conf.bind[j])) :
        /\ open' = r.open
        /\ fdsNew = (IF r.ok THEN r.fds ELSE fds)
        /\ phase' = IF ~r.ok THEN "exited" ELSE IF j >= Len(conf.bind) THEN after ELSE phase
        /\ j' = IF phase' = after THEN 1 ELSE j + 1

(* initServer, in its order. *)
ListenTcp ==
    /\ phase = "tcp"
    /\ IF conf.port THEN listenToPort(ipfd, ipfd', "unix")
       ELSE phase' = "unix" /\ UNCHANGED <<open, ipfd, j>>
    /\ UNCHANGED <<conf, sofd, cfd, clients, inlinks, nodeVars>>

ListenUnix ==
    /\ phase = "unix"
    /\ IF conf.unix
       THEN \E r \in anetUnixServer(open) :
                /\ sofd' = r.fd
                /\ open' = IF r.fd = ANET_ERR THEN r.open ELSE anetNonBlock(r.open, r.fd)
                /\ phase' = IF r.fd = ANET_ERR THEN "exited" ELSE "events"
       ELSE /\ phase' = IF ipfd = <<>> THEN "exited" ELSE "events"
            /\ UNCHANGED <<open, sofd>>
    /\ UNCHANGED <<conf, ipfd, cfd, j, clients, inlinks, nodeVars>>

(* A listening socket without a slot is a panic.                           *)
Watch(o, fds, proc) == [f \in DOMAIN o |-> IF f \in fds THEN [o[f] EXCEPT !.handler = proc] ELSE o[f]]

CreateEvents ==
    LET unix == IF sofd > 0 THEN {sofd} ELSE {}
    IN  /\ phase = "events"
        /\ IF \A f \in ToSet(ipfd) \cup unix : HasSlot(f)
           THEN /\ open' = Watch(Watch(open, ToSet(ipfd), "acceptTcp"), unix, "acceptUnix")
                /\ phase' = "nodes"
           ELSE phase' = "exited" /\ UNCHANGED open
        /\ UNCHANGED <<conf, ipfd, sofd, cfd, j, clients, inlinks, nodeVars>>
----------------------------------------------------------------------------
(* createClusterNode leaves the flags as zmalloc found them.               *)
createClusterNode(name, garbage) ==
    [name |-> name, ip |-> "", port |-> 0, flagged |-> garbage, link |-> ANET_ERR]

(* clusterLookupNode compares PREZ_CLUSTER_NAMELEN bytes, and a shorter    *)
(* name is followed by whatever memory holds: the same name need not be    *)
(* found again.                                                            *)
clusterLookupNode(name) == {0} \cup {i \in DOMAIN nodes : nodes[i].name = name}

isMyself(name, i) == IF Fold[name] = Fold[MyName] THEN i ELSE myself

(* atoi(p+2), with p at the colon: the port of the line without its first  *)
(* digit.  PREZ_CLUSTER_PORT_INCR, added when the node is called, restores *)
(* it if the port has five digits and the first is a 1.                    *)
portOf(port) == port % Max({1} \cup {t \in {10, 100, 1000, 10000} : t <= port})

(* A line with a name and an address: the node is created unless it is     *)
(* found, is marked when the name is this server's, and gets the address.  *)
LoadNode(l) ==
    \E found \in clusterLookupNode(l.name), garbage \in BOOLEAN :
        LET i == IF found = 0 THEN Len(nodes) + 1 ELSE found
            old == IF found = 0 THEN createClusterNode(l.name, garbage) ELSE nodes[i]
            n == [old EXCEPT !.ip = l.ip, !.port = portOf(l.port),
                              !.flagged = @ \/ Fold[l.name] = Fold[MyName]]
        IN  /\ nodes' = IF found = 0 THEN Append(nodes, n) ELSE [nodes EXCEPT ![i] = n]
            /\ myself' = isMyself(l.name, i)
            /\ UNCHANGED phase

(* One line of clusterLoadConfig.  No file: this server alone, under a     *)
(* random name, its mark lost.  Quotes that do not balance, or an address  *)
(* without a colon, exit; no address at all is a read through NULL.        *)
clusterLoadConfig ==
    /\ phase = "nodes" /\ j <= Len(file)
    /\ LET l == file[j]
       IN  CASE l.kind = "blank" -> UNCHANGED <<phase, nodes, myself>>
             [] l.kind = "node" -> LoadNode(l)
             [] l.kind = "nofile" ->
                /\ \E garbage \in BOOLEAN : nodes' = <<createClusterNode(l.name, garbage)>>
                /\ myself' = 1 /\ UNCHANGED phase
             [] l.kind = "noaddr" -> phase' = "crashed" /\ UNCHANGED <<nodes, myself>>
             [] OTHER -> phase' = "exited" /\ UNCHANGED <<nodes, myself>>
    /\ j' = j + 1
    /\ UNCHANGED <<conf, file, netVars>>

(* The end of the file: a server that is not in it aborts.                 *)
LoadedConfig ==
    /\ phase = "nodes" /\ j > Len(file)
    /\ phase' = IF myself = 0 THEN "exited" ELSE "bus"
    /\ j' = 1
    /\ UNCHANGED <<conf, nodeVars, netVars>>

(* The rest of clusterInit.                                                *)
ListenBus ==
    /\ phase = "bus"
    /\ listenToPort(cfd, cfd', "busevents")
    /\ UNCHANGED <<conf, ipfd, sofd, clients, inlinks, nodeVars>>

BusEvents ==
    /\ phase = "busevents"
    /\ IF \A f \in ToSet(cfd) : HasSlot(f)
       THEN /\ open' = Watch(open, ToSet(cfd), "clusterAccept") /\ phase' = "running"
            /\ nodes' = [nodes EXCEPT ![myself].port = ServerPort]
       ELSE phase' = "exited" /\ UNCHANGED <<open, nodes>>
    /\ UNCHANGED <<conf, ipfd, sofd, cfd, j, clients, inlinks, file, myself>>
----------------------------------------------------------------------------
(* Running: the sockets of connections.                                    *)
createClient(o, s) ==
    IF HasSlot(s) THEN [fd |-> s, open |-> aeCreateFileEvent(anetNonBlock(o, s), s, "client")]
    ELSE [fd |-> ANET_ERR, open |-> close(o, s)]

(* The client is created first and freed again when there are too many.    *)
acceptCommonHandler(o, s) ==
    LET c == createClient(o, s)
    IN  IF c.fd = ANET_ERR THEN open' = close(c.open, s) /\ UNCHANGED clients
        ELSE IF Cardinality(clients) + 1 > MaxClients
             THEN open' = close(c.open, s) /\ UNCHANGED clients
        ELSE open' = c.open /\ clients' = clients \cup {s}

acceptTcpHandler ==
    /\ phase = "running" /\ \E f \in DOMAIN open : open[f].handler \in {"acceptTcp", "acceptUnix"}
    /\ Cardinality(DOMAIN open) < MaxFd
    /\ \E a \in anetGenericAccept(open) :
        IF a.fd = ANET_ERR THEN UNCHANGED <<open, clients>> ELSE acceptCommonHandler(a.open, a.fd)
    /\ UNCHANGED <<phase, conf, ipfd, sofd, cfd, j, inlinks, nodeVars>>

(* Nobody asks whether aeCreateFileEvent found a slot for the link.        *)
clusterAcceptHandler ==
    /\ phase = "running" /\ Cardinality(DOMAIN open) < MaxFd
    /\ \E a \in anetGenericAccept(open) :
        IF a.fd = ANET_ERR THEN UNCHANGED <<open, inlinks>>
        ELSE /\ open' = aeCreateFileEvent(anetNonBlock(a.open, a.fd), a.fd, "bus")
             /\ inlinks' = inlinks \cup {a.fd}
    /\ UNCHANGED <<phase, conf, ipfd, sofd, cfd, j, clients, nodeVars>>

(* clusterCron, for one node.                                              *)
ConnectNode(i) ==
    /\ phase = "running" /\ Cardinality(DOMAIN open) < MaxFd
    /\ ~nodes[i].flagged /\ nodes[i].link = ANET_ERR
    /\ \E a \in anetTcpGenericConnect(open, conf.bind # <<>>, nodes[i].port + PREZ_CLUSTER_PORT_INCR) :
        IF a.fd = ANET_ERR THEN UNCHANGED <<open, nodes>>
        ELSE /\ open' = aeCreateFileEvent(a.open, a.fd, "bus")
             /\ nodes' = [nodes EXCEPT ![i].link = a.fd]
    /\ UNCHANGED <<phase, conf, ipfd, sofd, cfd, j, clients, inlinks, file, myself>>

\* Mutant: the node is not told that its link is gone.
freeKeepsNode(s) ==
    open' = close(open, s) /\ inlinks' = inlinks \ {s} /\ UNCHANGED nodes

freeLink(s) ==
    /\ open' = close(open, s) /\ inlinks' = inlinks \ {s}
    /\ nodes' = [i \in DOMAIN nodes |->
                    IF nodes[i].link = s THEN [nodes[i] EXCEPT !.link = ANET_ERR] ELSE nodes[i]]

freeClusterLink(s) ==
    /\ phase = "running" /\ open[s].handler = "bus"
    /\ freeLink(s)
    /\ UNCHANGED <<phase, conf, ipfd, sofd, cfd, j, clients, file, myself>>

freeClient(s) ==
    /\ phase = "running" /\ s \in clients
    /\ open' = close(open, s) /\ clients' = clients \ {s}
    /\ UNCHANGED <<phase, conf, ipfd, sofd, cfd, j, inlinks, nodeVars>>

Next ==
    \/ ListenTcp \/ ListenUnix \/ CreateEvents
    \/ clusterLoadConfig \/ LoadedConfig \/ ListenBus \/ BusEvents
    \/ acceptTcpHandler \/ clusterAcceptHandler
    \/ (\E i \in DOMAIN nodes : ConnectNode(i))
    \/ (\E s \in DOMAIN open : freeClusterLink(s))
    \/ (\E s \in clients : freeClient(s))
Spec == Init /\ [][Next]_vars
----------------------------------------------------------------------------
Links == {nodes[i].link : i \in DOMAIN nodes} \ {ANET_ERR}
Listening == ToSet(ipfd) \cup ToSet(cfd) \cup ({sofd} \ {ANET_ERR})

(* Every socket that is open has one owner, through failed binds, refused  *)
(* clients and lost links: a descriptor the kernel hands out again is      *)
(* never still held by an earlier owner.  The one leak is a listening      *)
(* socket whose SO_REUSEADDR failed (anet.c 431).                          *)
SocketsOwned ==
    phase = "running" =>
        LET owned == Listening \cup clients \cup inlinks \cup Links
        IN  /\ owned \subseteq DOMAIN open
            /\ \A f \in DOMAIN open \ owned : f \in 0..2 \/ ~open[f].reuse
            /\ Cardinality(owned) =
                    Len(ipfd) + Len(cfd) + (IF sofd = ANET_ERR THEN 0 ELSE 1)
                    + Cardinality(clients) + Cardinality(inlinks)
                    + Cardinality({i \in DOMAIN nodes : nodes[i].link # ANET_ERR})

(* A server that runs serves every address it was told to bind, for        *)
(* clients and for the cluster, without blocking on any; it never runs     *)
(* with nowhere to listen (prez.c 489, 616 to 634, cluster.c 198).         *)
ListenersServed ==
    phase = "running" =>
        /\ conf.bind # <<>> => Len(cfd) = Len(conf.bind) /\ (conf.port => Len(ipfd) = Len(conf.bind))
        /\ cfd # <<>> /\ (ipfd # <<>> \/ sofd # ANET_ERR)
        /\ \A f \in Listening : open[f].listening /\ open[f].nonblock
        /\ \A f \in ToSet(ipfd) : open[f].handler = "acceptTcp"
        /\ \A f \in ToSet(cfd) : open[f].handler = "clusterAccept"
        /\ sofd # ANET_ERR => open[sofd].handler = "acceptUnix"

(* Every client has a read handler and there are never more than           *)
(* maxclients; a link goes unwatched only when the event loop is full, and *)
(* then nothing ever reads or closes it (cluster.c 303, 995).              *)
ConnectionsWatched ==
    phase = "running" =>
        /\ \A f \in clients : open[f].handler = "client"
        /\ Cardinality(clients) <= MaxClients
        /\ \A f \in inlinks \cup Links : open[f].handler = "bus" \/ ~HasSlot(f)

(* If no name comes twice in the file, the cluster has one node for each   *)
(* line, and so the quorum the file intends; this server is the node of    *)
(* its own name; and the link of another node goes to the address of its   *)
(* line, for the ports 10000 to 19999 that survive the reading (cluster.c  *)
(* 119 to 134, 983).                                                       *)
NodesMatchFile ==
    LET lines == SelectSeq(file, LAMBDA l : l.kind = "node")
        calls(i) == nodes[i].link # ANET_ERR /\ i # myself
    IN  /\ phase = "running" /\ lines # <<>>
        /\ \A a, b \in DOMAIN lines : lines[a].name = lines[b].name => a = b
        => /\ Len(nodes) = Len(lines)
           /\ \A i \in DOMAIN nodes :
                 /\ nodes[i].name = lines[i].name /\ nodes[i].ip = lines[i].ip
                 /\ calls(i) /\ lines[i].port \in 10000..19999
                       => open[nodes[i].link].port = lines[i].port
           /\ Fold[nodes[myself].name] = Fold[MyName]
=============================================================================
