------------------------------ MODULE MCOutbox ------------------------------
(* Outbox for TLC: requests and messages are interchangeable.               *)
EXTENDS Outbox, TLC

Symmetry == Permutations(Req) \cup Permutations(Msg)

(* Time passes with up to two requests; four meet at one instant.           *)
ClockBound == now = 0 \/ Cardinality({r \in Req : pc[r] # "idle"}) <= 2
=============================================================================
