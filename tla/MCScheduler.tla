---------------------------- MODULE MCScheduler -----------------------------
(* Scheduler for TLC: schedules are interchangeable.                        *)
EXTENDS Scheduler, TLC

(* Once a week, early in its second day; and every day, late.               *)
SomeCrons == {[hour |-> 0, days |-> {1}], [hour |-> Hours - 1, days |-> 0..(Week - 1)]}

Symmetry == Permutations(Sched)
=============================================================================
