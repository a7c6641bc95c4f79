------------------------------ MODULE PrezMap ------------------------------
(***************************************************************************)
(* What a dictionary promises its caller: a finite map from keys to        *)
(* values that changes by one binding at a time.  There are no buckets, no *)
(* second table and no rehashing here.  PrezDict runs it in lockstep: each *)
(* call on the two tables is a call on the map.                            *)
(***************************************************************************)
VARIABLE map      \* the entries, a set of [key, val]

Keys(m) == {e.key : e \in m}
Without(m, k) == {e \in m : e.key # k}

Init == map = {}

Add(k, v) ==
    map' = IF k \in Keys(map) THEN map ELSE map \cup {[key |-> k, val |-> v]}

Replace(k, v) == map' = Without(map, k) \cup {[key |-> k, val |-> v]}

Delete(k) == map' = Without(map, k)

Empty == map' = {}

=============================================================================
