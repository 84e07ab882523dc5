------------------------------- MODULE Updater ------------------------------
(***************************************************************************)
(* The updates of one installed binary (cli/src/lib/updater.ts): the ticks *)
(* of a daemon's background loops and `hisohiso update`, which all stage   *)
(* their download in the one file `<binary>.new` and rename it.  runDaemon *)
(* starts a loop for every control room it serves (daemon-main.ts:431), so *)
(* even one daemon may run several.                                        *)
(***************************************************************************)
EXTENDS Naturals, FiniteSets

CONSTANTS
    Tick,       \* background ticks
    Command,    \* runs of `hisohiso update`
    None        \* no file

Run == Tick \cup Command

RunsAssumption == Tick \cap Command = {} /\ None \notin Run

VARIABLES
    pc,         \* where each run is
    tmp,        \* `<binary>.new`: its writer, if it is whole, if it is what was released
    disk,       \* the binary: the same; at first the one that was installed
    turns,      \* whether an agent session is in the middle of a turn
    gone,       \* whether the daemon has exited onto the new binary
    overlap,    \* ghost: a run touched the file while another was staging there
    cutoff      \* ghost: where the daemon was when a turn it exits upon began

vars == <<pc, tmp, disk, turns, gone, overlap, cutoff>>

Installed == [by |-> None, whole |-> TRUE, good |-> TRUE]
Binary == [by : Run \cup {None}, whole : BOOLEAN, good : BOOLEAN]

Init ==
    /\ pc = [u \in Run |-> "idle"]
    /\ tmp = None /\ disk = Installed
    /\ turns = FALSE /\ gone = FALSE
    /\ overlap = FALSE /\ cutoff = None

Go(u, next) == pc' = [pc EXCEPT ![u] = next]
Runs(u) == u \in Command \/ ~gone

(* Runs between their first touch of the file and their last.               *)
Staging == {u \in Run : pc[u] \in {"write", "written", "verify", "wait", "swap", "drop"}}
Touch(u) == overlap' = (overlap \/ Staging \ {u} # {})
-----------------------------------------------------------------------------
(* checkLatest and resolveAssets: no newer release, no asset for this       *)
(* platform, a source checkout or HISOHISO_AUTO_UPDATE=off end the run.     *)
(* Then the stale download is removed.                                      *)
Begin(u) ==
    /\ pc[u] = "idle" /\ Runs(u)
    /\ \/ Go(u, "done") /\ UNCHANGED <<tmp, overlap>>
       \/ Go(u, "write") /\ tmp' = None /\ Touch(u)
    /\ UNCHANGED <<disk, turns, gone, cutoff>>

(* downloadTo: the file is opened once the answer is here, or there is none *)
(* and nothing is cleaned up.                                               *)
Write(u) ==
    /\ pc[u] = "write" /\ Runs(u)
    /\ \/ Go(u, "done") /\ UNCHANGED <<tmp, overlap>>
       \/ /\ Go(u, "written") /\ Touch(u)
          /\ \E good \in BOOLEAN : tmp' = [by |-> u, whole |-> FALSE, good |-> good]
    /\ UNCHANGED <<disk, turns, gone, cutoff>>

(* Its last byte is written, if the file is still the one it opened.        *)
Written(u) ==
    /\ pc[u] = "written" /\ Runs(u)
    /\ Go(u, "verify")
    /\ tmp' = IF tmp # None /\ tmp.by = u THEN [tmp EXCEPT !.whole = TRUE] ELSE tmp
    /\ UNCHANGED <<disk, turns, gone, overlap, cutoff>>

(* verifyChecksum reads whatever the path holds now.  A mismatch removes    *)
(* it; a command swaps at once, a tick waits for the sessions.              *)
Verify(u) ==
    /\ pc[u] = "verify" /\ Runs(u)
    /\ Go(u, IF tmp = None THEN "done"
             ELSE IF ~(tmp.whole /\ tmp.good) THEN "drop"
             ELSE IF u \in Tick THEN "wait" ELSE "swap")
    /\ UNCHANGED <<tmp, disk, turns, gone, overlap, cutoff>>

(* Mutant: thirty minutes are enough.                                       *)
WaitNoLonger(u) ==
    /\ pc[u] = "wait" /\ Runs(u)
    /\ Go(u, "swap")
    /\ UNCHANGED <<tmp, disk, turns, gone, overlap, cutoff>>

(* waitForIdle: every two seconds, for thirty minutes.                      *)
WaitIdle(u) ==
    /\ pc[u] = "wait" /\ Runs(u)
    /\ Go(u, IF turns THEN "drop" ELSE "swap")
    /\ UNCHANGED <<tmp, disk, turns, gone, overlap, cutoff>>

Drop(u) ==
    /\ pc[u] = "drop" /\ Runs(u)
    /\ tmp' = None /\ Go(u, "done") /\ Touch(u)
    /\ UNCHANGED <<disk, turns, gone, cutoff>>

(* The rename; it fails if the file has gone.  A tick then re-executes or   *)
(* leaves it to the service manager, and exits 250 ms later.                *)
Swap(u) ==
    /\ pc[u] = "swap" /\ Runs(u)
    /\ IF tmp = None
       THEN Go(u, "done") /\ UNCHANGED <<tmp, disk>>
       ELSE /\ disk' = tmp /\ tmp' = None
            /\ Go(u, IF u \in Tick THEN "exit" ELSE "bounce")
    /\ UNCHANGED <<turns, gone, overlap, cutoff>>

Exit(u) ==
    /\ pc[u] = "exit" /\ Runs(u)
    /\ gone' = TRUE /\ Go(u, "done")
    /\ UNCHANGED <<tmp, disk, turns, overlap, cutoff>>

(* `hisohiso update` bounces a running daemon by the control socket, idle   *)
(* or not.                                                                  *)
Bounce(u) ==
    /\ pc[u] = "bounce"
    /\ Go(u, "done")
    /\ gone' = TRUE
    /\ cutoff' = IF gone THEN cutoff ELSE "asked"
    /\ UNCHANGED <<tmp, disk, turns, overlap>>
-----------------------------------------------------------------------------
(* An agent's turn.  cutoff remembers whether a tick had looked and was on  *)
(* its way out when it began.                                               *)
TurnBegins ==
    /\ ~turns /\ ~gone
    /\ turns' = TRUE
    /\ cutoff' = IF \E u \in Tick : pc[u] \in {"swap", "exit"} THEN "late" ELSE "early"
    /\ UNCHANGED <<pc, tmp, disk, gone, overlap>>

TurnEnds ==
    /\ turns /\ ~gone
    /\ turns' = FALSE
    /\ UNCHANGED <<pc, tmp, disk, gone, overlap, cutoff>>

Next ==
    \/ \E u \in Run :
         \/ Begin(u) \/ Write(u) \/ Written(u) \/ Verify(u) \/ WaitIdle(u)
         \/ Drop(u) \/ Swap(u) \/ Exit(u) \/ Bounce(u)
    \/ TurnBegins \/ TurnEnds

Spec == Init /\ [][Next]_vars
-----------------------------------------------------------------------------
TypeOK ==
    /\ pc \in [Run -> {"idle", "write", "written", "verify", "wait", "swap", "drop", "exit",
                       "bounce", "done"}]
    /\ tmp \in Binary \cup {None} /\ disk \in Binary
    /\ turns \in BOOLEAN /\ gone \in BOOLEAN /\ overlap \in BOOLEAN
    /\ cutoff \in {None, "early", "late", "asked"}

(* What is installed is a whole, verified binary, whichever run installed   *)
(* it, until two runs stage in the shared file at once: then the one may    *)
(* rename what the other is still writing.                                  *)
InstalledIsVerified == overlap \/ (disk.whole /\ disk.good)

(* No tick ends the daemon upon a turn, but one that began after it had     *)
(* looked.                                                                  *)
ExitSparesTurns == (gone /\ turns) => cutoff \in {"late", "asked"}
=============================================================================
