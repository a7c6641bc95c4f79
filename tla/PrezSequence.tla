---------------------------- MODULE PrezSequence ----------------------------
(***************************************************************************)
(* What adlist.c promises its callers: a list is a sequence of values that *)
(* changes only at its ends, next to an element, by the removal of one     *)
(* element, or by a rotation that brings the last element to the front.    *)
(***************************************************************************)
EXTENDS Integers, Sequences, SequencesExt

CONSTANT Value

VARIABLE seq

Init == seq = <<>>

AddHead(v) == seq' = <<v>> \o seq
AddTail(v) == seq' = Append(seq, v)
Insert(i, v, after) == seq' = InsertAt(seq, IF after THEN i + 1 ELSE i, v)
Delete(i) == seq' = RemoveAt(seq, i)
Rotate == seq' = IF Len(seq) <= 1 THEN seq ELSE <<Last(seq)>> \o Front(seq)
Release == seq' = <<>>

Next ==
    \/ \E v \in Value : AddHead(v) \/ AddTail(v)
    \/ \E i \in 1..Len(seq) : \/ Delete(i)
                              \/ \E v \in Value, after \in BOOLEAN : Insert(i, v, after)
    \/ Rotate
    \/ Release

Spec == Init /\ [][Next]_seq
=============================================================================
