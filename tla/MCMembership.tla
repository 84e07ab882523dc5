---------------------------- MODULE MCMembership ----------------------------
(* Membership for TLC: requests and tokens are interchangeable.             *)
EXTENDS Membership, TLC

Symmetry == Permutations(Req) \cup Permutations(Token)
=============================================================================
