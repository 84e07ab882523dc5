---------------------------- MODULE MCRoomsFile -----------------------------
(* RoomsFile for TLC: rooms are interchangeable.                            *)
EXTENDS RoomsFile, TLC

Symmetry == Permutations(Room)
=============================================================================
