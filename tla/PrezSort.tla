------------------------------ MODULE PrezSort ------------------------------
(***************************************************************************)
(* pqsort.c: a quicksort that sorts only as far as is needed to have the   *)
(* right elements, in order, at the positions lrange to rrange.  The state *)
(* is an array that grows an element at a time, so that TLC tries every    *)
(* array up to MaxLen.  Positions count from 1, an element has size 1.     *)
(***************************************************************************)
EXTENDS Integers, SequencesExt

CONSTANTS Element,          \* integers, compared as such
          MaxLen,           \* bound
          InsertionBelow,   \* 7: shorter arrays are sorted by insertion
          NineAbove,        \* 40: longer ones take the median of nine
          Spread            \* 8: n/Spread is the distance of these nine

VARIABLE array

swap(a, i, j) == [a EXCEPT ![i] = a[j], ![j] = a[i]]

\* vecswap: n elements from i with n elements from j.
RECURSIVE vecswap(_, _, _, _)
vecswap(a, i, j, n) == IF n <= 0 THEN a ELSE vecswap(swap(a, i, j), i + 1, j + 1, n - 1)

med3(x, a, b, c) ==
    IF x[a] < x[b] THEN IF x[b] < x[c] THEN b ELSE IF x[a] < x[c] THEN c ELSE a
    ELSE IF x[b] > x[c] THEN b ELSE IF x[a] < x[c] THEN a ELSE c

\* The insertion sort of the elements from lo to hi: the one at pl sinks.
RECURSIVE sink(_, _, _)
sink(x, lo, pl) ==
    IF pl > lo /\ x[pl - 1] > x[pl] THEN sink(swap(x, pl, pl - 1), lo, pl - 1) ELSE x
RECURSIVE insertion(_, _, _, _)
insertion(x, lo, hi, pm) == IF pm > hi THEN x ELSE insertion(sink(x, lo, pm), lo, hi, pm + 1)

Pivot(x, lo, n) ==
    LET mid == lo + n \div 2
        hi == lo + n - 1
        d == n \div Spread
        nine == n > NineAbove
        pl == IF nine THEN med3(x, lo, lo + d, lo + 2 * d) ELSE lo
        pm == IF nine THEN med3(x, mid - d, mid, mid + d) ELSE mid
        pn == IF nine THEN med3(x, hi - 2 * d, hi - d, hi) ELSE hi
    IN  IF n > InsertionBelow THEN med3(x, pl, pm, pn) ELSE mid

(* The partition around the pivot at lo: what equals it is collected at    *)
(* both ends, before pa and behind pd, while pb and pc approach.           *)
RECURSIVE up(_, _)
up(s, lo) ==
    LET x == s.x
    IN  IF s.pb > s.pc \/ x[s.pb] > x[lo] THEN s
        ELSE IF x[s.pb] = x[lo]
        THEN up([s EXCEPT !.x = swap(x, s.pa, s.pb), !.pa = @ + 1, !.pb = @ + 1], lo)
        ELSE up([s EXCEPT !.pb = @ + 1], lo)
RECURSIVE down(_, _)
down(s, lo) ==
    LET x == s.x
    IN  IF s.pb > s.pc \/ x[s.pc] < x[lo] THEN s
        ELSE IF x[s.pc] = x[lo]
        THEN down([s EXCEPT !.x = swap(x, s.pc, s.pd), !.pd = @ - 1, !.pc = @ - 1], lo)
        ELSE down([s EXCEPT !.pc = @ - 1], lo)
RECURSIVE partition(_, _)
partition(s, lo) ==
    LET t == down(up(s, lo), lo)
    IN  IF t.pb > t.pc THEN t
        ELSE partition([t EXCEPT !.x = swap(@, t.pb, t.pc), !.pb = @ + 1, !.pc = @ - 1], lo)

\* Mutant: a part is skipped when the range only begins in it.
disjointAtEnd(l, r, lo, hi) == r < lo \/ l > hi \/ (l > lo /\ r > hi)

\* The range wanted lies on one side of the elements from lo to hi.
disjoint(l, r, lo, hi) == (l < lo /\ r < lo) \/ (l > hi /\ r > hi)

RECURSIVE pqsortFrom(_, _, _, _, _)
pqsortFrom(a, lo, n, l, r) ==
    LET hi == lo + n - 1
        s == partition([x |-> swap(a, lo, Pivot(a, lo, n)), pa |-> lo + 1, pb |-> lo + 1,
                        pc |-> hi, pd |-> hi], lo)
        less == s.pb - s.pa                  \* elements below the pivot
        more == s.pd - s.pc                  \* elements above it
        front == Min({s.pa - lo, less})
        back == Min({more, hi - s.pd})
        x == vecswap(vecswap(s.x, lo, s.pb - front, front), s.pb, hi + 1 - back, back)
        left == IF less > 1 /\ ~disjoint(l, r, lo, lo + less - 1)
                THEN pqsortFrom(x, lo, less, l, r) ELSE x
    IN  IF n < InsertionBelow THEN insertion(a, lo, hi, lo + 1)
        ELSE IF more > 1 /\ ~disjoint(l, r, hi + 1 - more, hi)
        THEN pqsortFrom(left, hi + 1 - more, more, l, r) ELSE left

pqsort(a, l, r) == pqsortFrom(a, 1, Len(a), l, r)
----------------------------------------------------------------------------
Init == array = <<>>
Grow == Len(array) < MaxLen /\ \E e \in Element : array' = Append(array, e)
Next == Grow
Spec == Init /\ [][Next]_array
----------------------------------------------------------------------------
(* For every array and every range in it, pqsort leaves at the positions   *)
(* of the range what a full sort would, loses and invents no element, and  *)
(* never reads outside the array.                                          *)
RangeSorted ==
    \A l, r \in DOMAIN array : l <= r =>
        LET x == pqsort(array, l, r)
            sorted == SortSeq(array, <)
        IN  /\ SubSeq(x, l, r) = SubSeq(sorted, l, r)
            /\ SortSeq(x, <) = sorted
=============================================================================
