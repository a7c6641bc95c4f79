------------------------------ MODULE PrezList ------------------------------
(***************************************************************************)
(* The doubly linked list of adlist.c, pointer by pointer: the nodes in    *)
(* memory with their prev and next, the list's head, tail and len, and one *)
(* iterator that stands in the list while it changes.  The log, the reply  *)
(* queue and the list of clients are such lists.                           *)
(***************************************************************************)
EXTENDS Integers, Sequences, FiniteSets

CONSTANTS Value, MaxNodes     \* bound on the nodes allocated at a time

VARIABLES list,    \* [head, tail, len, mem]; mem: address -> node
          it,      \* the iterator: [on, next, up, current]
          todo     \* ghost: the nodes the iterator has still to return

vars == <<list, it, todo>>

NULL == 0
Addr == 1..MaxNodes
NoNode == [prev |-> NULL, next |-> NULL, value |-> NULL]   \* freed memory

listCreate == [head |-> NULL, tail |-> NULL, len |-> 0, mem |-> [a \in {} |-> NoNode]]

Allocated(l) == DOMAIN l.mem
CanAlloc(l) == Addr \ Allocated(l) # {}
zmalloc(l) == CHOOSE a \in Addr \ Allocated(l) : \A b \in Addr \ Allocated(l) : a <= b
With(mem, a, node) == [b \in DOMAIN mem \cup {a} |-> IF b = a THEN node ELSE mem[b]]
Without(mem, a) == [b \in DOMAIN mem \ {a} |-> mem[b]]
----------------------------------------------------------------------------
listAddNodeHead(l, v) ==
    LET a == zmalloc(l)
        node == [prev |-> NULL, next |-> l.head, value |-> v]
        mem == IF l.len = 0 THEN l.mem ELSE [l.mem EXCEPT ![l.head].prev = a]
    IN  [head |-> a, tail |-> IF l.len = 0 THEN a ELSE l.tail, len |-> l.len + 1,
         mem |-> With(mem, a, node)]

listAddNodeTail(l, v) ==
    LET a == zmalloc(l)
        node == [prev |-> l.tail, next |-> NULL, value |-> v]
        mem == IF l.len = 0 THEN l.mem ELSE [l.mem EXCEPT ![l.tail].next = a]
    IN  [head |-> IF l.len = 0 THEN a ELSE l.head, tail |-> a, len |-> l.len + 1,
         mem |-> With(mem, a, node)]

(* The neighbours of a node, told of a new one or of its going.            *)
SetNext(mem, p, a) == IF p = NULL THEN mem ELSE [mem EXCEPT ![p].next = a]
SetPrev(mem, p, a) == IF p = NULL THEN mem ELSE [mem EXCEPT ![p].prev = a]

listInsertNode(l, old, v, after) ==
    LET a == zmalloc(l)
        node == IF after THEN [prev |-> old, next |-> l.mem[old].next, value |-> v]
                ELSE [prev |-> l.mem[old].prev, next |-> old, value |-> v]
    IN  [head |-> IF ~after /\ l.head = old THEN a ELSE l.head,
         tail |-> IF after /\ l.tail = old THEN a ELSE l.tail,
         len |-> l.len + 1,
         mem |-> With(SetPrev(SetNext(l.mem, node.prev, a), node.next, a), a, node)]

listDelNode(l, a) ==
    LET n == l.mem[a]
    IN  [head |-> IF n.prev = NULL THEN n.next ELSE l.head,
         tail |-> IF n.next = NULL THEN n.prev ELSE l.tail,
         len |-> l.len - 1,
         mem |-> Without(SetPrev(SetNext(l.mem, n.prev, n.next), n.next, n.prev), a)]

\* Mutant: the other way round, the head becomes the tail.
rotateHead(l) ==
    LET h == l.head
        n == l.mem[h].next
    IN  IF l.len <= 1 THEN l
        ELSE [head |-> n, tail |-> h, len |-> l.len,
              mem |-> [[[l.mem EXCEPT ![n].prev = NULL] EXCEPT ![l.tail].next = h]
                         EXCEPT ![h].next = NULL, ![h].prev = l.tail]]

listRotate(l) ==
    LET t == l.tail
        p == l.mem[t].prev
    IN  IF l.len <= 1 THEN l
        ELSE [head |-> t, tail |-> p, len |-> l.len,
              mem |-> [[[l.mem EXCEPT ![p].next = NULL] EXCEPT ![l.head].prev = t]
                         EXCEPT ![t].prev = NULL, ![t].next = l.head]]

(* Nodes from a on, in the direction the pointers lead, as far as they are *)
(* allocated and not more than there are: a pointer to freed memory and a  *)
(* cycle show as a wrong sequence.                                         *)
RECURSIVE Walk(_, _, _, _)
Walk(mem, a, up, n) ==
    IF a \notin DOMAIN mem \/ n = 0 THEN <<>>
    ELSE <<a>> \o Walk(mem, IF up THEN mem[a].prev ELSE mem[a].next, up, n - 1)
Nodes(l) == Walk(l.mem, l.head, FALSE, MaxNodes + 1)
ValuesAt(l, nodes) == [i \in DOMAIN nodes |-> l.mem[nodes[i]].value]
Values(l) == ValuesAt(l, Nodes(l))
Back(t) == [i \in DOMAIN t |-> t[Len(t) + 1 - i]]

(* listIndex: a node, or NULL.                                             *)
RECURSIVE steps(_, _, _, _)
steps(mem, a, up, index) ==
    IF index = 0 \/ a = NULL THEN a
    ELSE steps(mem, IF up THEN mem[a].prev ELSE mem[a].next, up, index - 1)
listIndex(l, index) ==
    IF index < 0 THEN steps(l.mem, l.tail, TRUE, (0 - index) - 1)
    ELSE steps(l.mem, l.head, FALSE, index)

\* listSearchKey without a match method.
RECURSIVE searchFrom(_, _, _)
searchFrom(mem, a, key) ==
    IF a = NULL \/ mem[a].value = key THEN a ELSE searchFrom(mem, mem[a].next, key)
listSearchKey(l, key) == searchFrom(l.mem, l.head, key)

\* listDup without a dup method.
RECURSIVE dupFrom(_, _, _)
dupFrom(l, a, copy) ==
    IF a = NULL THEN copy ELSE dupFrom(l, l.mem[a].next, listAddNodeTail(copy, l.mem[a].value))
listDup(l) == dupFrom(l, l.head, listCreate)
----------------------------------------------------------------------------
NoIter == [on |-> FALSE, next |-> NULL, up |-> FALSE, current |-> NULL]

Init == list = listCreate /\ it = NoIter /\ todo = <<>>

(* New nodes: an iterator meets the one that is added where it still goes. *)
AddHead(v) ==
    /\ CanAlloc(list)
    /\ list' = listAddNodeHead(list, v)
    /\ todo' = IF it.on /\ it.up /\ todo # <<>> THEN Append(todo, zmalloc(list)) ELSE todo
    /\ UNCHANGED it

AddTail(v) ==
    /\ CanAlloc(list)
    /\ list' = listAddNodeTail(list, v)
    /\ todo' = IF it.on /\ ~it.up /\ todo # <<>> THEN Append(todo, zmalloc(list)) ELSE todo
    /\ UNCHANGED it

Insert(a, v, after) ==
    /\ CanAlloc(list) /\ ~it.on
    /\ list' = listInsertNode(list, a, v, after)
    /\ UNCHANGED <<it, todo>>

(* "It's valid to remove the currently returned element [...], but not to  *)
(* remove other elements" while an iterator stands in the list.            *)
Delete(a) ==
    /\ it.on => a = it.current
    /\ list' = listDelNode(list, a)
    /\ it' = [it EXCEPT !.current = NULL]
    /\ UNCHANGED todo

Rotate == ~it.on /\ list' = listRotate(list) /\ UNCHANGED <<it, todo>>

\* listRelease frees len nodes from the head; a new list takes the old one's
\* place, and a node that was not freed stays allocated.
Release ==
    LET freed == Walk(list.mem, list.head, FALSE, list.len)
        left == Allocated(list) \ {freed[i] : i \in DOMAIN freed}
    IN  /\ ~it.on
        /\ list' = [listCreate EXCEPT !.mem = [a \in left |-> list.mem[a]]]
        /\ UNCHANGED <<it, todo>>

\* listGetIterator, listRewind, listRewindTail.
listGetIterator(up) ==
    /\ ~it.on
    /\ it' = [on |-> TRUE, next |-> IF up THEN list.tail ELSE list.head, up |-> up, current |-> NULL]
    /\ todo' = IF up THEN Back(Nodes(list)) ELSE Nodes(list)
    /\ UNCHANGED list

\* Mutant: the iterator remembers the node it returned, not the next one.
nextLate ==
    /\ it.on /\ it.next # NULL
    /\ it' = [it EXCEPT !.current = it.next,
                        !.next = IF it.current = NULL THEN it.next
                                 ELSE IF it.up THEN list.mem[it.next].prev ELSE list.mem[it.next].next]
    /\ todo' = Tail(todo)
    /\ UNCHANGED list

listNext ==
    /\ it.on /\ it.next # NULL
    /\ it' = [it EXCEPT !.current = it.next,
                        !.next = IF it.up THEN list.mem[it.next].prev ELSE list.mem[it.next].next]
    /\ todo' = Tail(todo)
    /\ UNCHANGED list

IterEnds == it.on /\ it.next = NULL /\ it' = NoIter /\ todo' = <<>> /\ UNCHANGED list

Next ==
    \/ \E v \in Value : AddHead(v) \/ AddTail(v)
    \/ \E a \in Allocated(list) : Delete(a) \/ \E v \in Value, after \in BOOLEAN : Insert(a, v, after)
    \/ Rotate
    \/ Release
    \/ \E up \in BOOLEAN : listGetIterator(up)
    \/ listNext
    \/ IterEnds

Spec == Init /\ [][Next]_vars
----------------------------------------------------------------------------
(* The list read from the head and the list read from the tail are the     *)
(* same nodes, as many as len says, and no other node is allocated.        *)
LinksSound ==
    LET nodes == Nodes(list)
    IN  /\ nodes = Back(Walk(list.mem, list.tail, TRUE, MaxNodes + 1))
        /\ Len(nodes) = list.len
        /\ {nodes[i] : i \in DOMAIN nodes} = Allocated(list)

(* However the list changes under it in the ways that are allowed, the     *)
(* iterator returns each node once and misses none: what it reaches from   *)
(* its next pointer is what it has still to return.                        *)
IteratorSound == it.on => Walk(list.mem, it.next, it.up, MaxNodes + 1) = todo

(* listIndex counts from either end and gives NULL outside, listSearchKey  *)
(* finds the first match, listDup an equal list.                           *)
LookupsExact ==
    LET nodes == Nodes(list)
    IN  /\ \A i \in (0 - MaxNodes - 1)..MaxNodes :
             listIndex(list, i) = LET k == IF i < 0 THEN list.len + i + 1 ELSE i + 1
                                  IN  IF k \in DOMAIN nodes THEN nodes[k] ELSE NULL
        /\ \A v \in Value :
             LET a == listSearchKey(list, v)
             IN  IF a = NULL THEN \A b \in Allocated(list) : list.mem[b].value # v
                 ELSE \E i \in DOMAIN nodes :
                        /\ nodes[i] = a /\ list.mem[a].value = v
                        /\ \A j \in 1..(i - 1) : list.mem[nodes[j]].value # v
        /\ Values(listDup(list)) = Values(list)

A == INSTANCE PrezSequence WITH seq <- Values(list)

(* Every operation on the pointers is the operation PrezSequence describes *)
(* on the sequence of the values: the list implements that specification.  *)
ImplementsSequence == A!Spec
=============================================================================
