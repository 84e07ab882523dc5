---------------------------- MODULE CatchUpStore ----------------------------
(***************************************************************************)
(* What the catch-up toggle promises, with no files, locks or requests     *)
(* (docs/offline-catchup.md, and the contract stated above outbox_append   *)
(* in server/outbox.php): a message is taken only while catch-up is on,    *)
(* and switching it off forgets everything in one step.  What is kept may  *)
(* be lost at any time, to age, to the row cap or to a late wipe.          *)
(***************************************************************************)
CONSTANT Msg

VARIABLES on, kept

Init == on \in BOOLEAN /\ kept = {}

Admit(m) == on /\ kept' \subseteq kept \cup {m} /\ UNCHANGED on

Lose == kept' \subseteq kept /\ UNCHANGED on

SwitchOn == on' = TRUE /\ UNCHANGED kept

SwitchOff == on' = FALSE /\ kept' = {}

Next == (\E m \in Msg : Admit(m)) \/ Lose \/ SwitchOn \/ SwitchOff

Spec == Init /\ [][Next]_<<on, kept>>
=============================================================================
