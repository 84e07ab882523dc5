----------------------------- MODULE MCTimeline -----------------------------
(* Timeline for TLC: messages of one author, rooms and catch-up loops are   *)
(* interchangeable.                                                         *)
EXTENDS Timeline, TLC

Symmetry ==
    Permutations(Own) \cup Permutations(Theirs) \cup Permutations(Room) \cup Permutations(Task)

(* Two catch-up loops overlap until the phone sends a message of its own.   *)
OverlapBound ==
    \/ \A m \in Own : stage[m] = "none"
    \/ \A t, u \in Task : t = u \/ Asleep \in {sync[t], sync[u]}
=============================================================================
