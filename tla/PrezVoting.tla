----------------------------- MODULE PrezVoting -----------------------------
(***************************************************************************)
(* What the elections of a cluster promise, without messages, timers or    *)
(* counters: in each term a voter casts one ballot, and one candidate at   *)
(* most takes office, with the ballots of a quorum.                        *)
(***************************************************************************)
CONSTANTS Voter, Term,
          Quorum     \* the sets of voters that can put a candidate in office

VARIABLES ballots,   \* the ballots cast
          office     \* [Term -> SUBSET Voter]: who has taken office

Ballot(v, t, c) == [voter |-> v, term |-> t, candidate |-> c]

Supporters(c, t) == {b.voter : b \in {x \in ballots : x.term = t /\ x.candidate = c}}

Init == ballots = {} /\ office = [t \in Term |-> {}]

Cast(v, t, c) ==
    /\ \A b \in ballots : ~(b.voter = v /\ b.term = t)
    /\ ballots' = ballots \cup {Ballot(v, t, c)}
    /\ UNCHANGED office

TakeOffice(c, t) ==
    /\ office[t] = {}
    /\ Supporters(c, t) \in Quorum
    /\ office' = [office EXCEPT ![t] = {c}]
    /\ UNCHANGED ballots

Next ==
    \/ \E v, c \in Voter, t \in Term : Cast(v, t, c)
    \/ \E c \in Voter, t \in Term : TakeOffice(c, t)

Spec == Init /\ [][Next]_<<ballots, office>>
=============================================================================
