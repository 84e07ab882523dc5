------------------------------ MODULE RoomsFile -----------------------------
(***************************************************************************)
(* The daemon's agent rooms over its life: the manager's session map       *)
(* (cli/src/daemon/agent-manager.ts), rooms.json behind it (the write      *)
(* chain of cli/src/lib/config.ts), the rooms as they stand on the relay,  *)
(* and what a stop, a crash and a boot do to them.                         *)
(*                                                                         *)
(* One step is what the daemon's single thread runs between two awaits.    *)
(* persistRooms takes its snapshot of the map at once; the write lands     *)
(* later, each after the one before.                                       *)
(***************************************************************************)
EXTENDS Naturals, FiniteSets, Sequences

CONSTANTS
    Room,       \* agent rooms that may be spawned
    MaxBoot,    \* bound on the daemon's boots
    MaxSave     \* bound on the waiting writes that ending turns add to

ASSUME BoundsAssumption == MaxBoot \in Nat \ {0} /\ MaxSave \in Nat \ {0}

VARIABLES
    state,      \* "boot" (restoring), "up", "stopping" (detached) or "down"
    boots,      \* boots so far
    alive,      \* rooms that exist on the relay
    sessions,   \* the manager's map
    todo,       \* rooms that restore has yet to look at
    spawning,   \* rooms created and not yet attached, or attached with a stream
                \* that has not opened yet
    turns,      \* rooms whose agent runs a turn
    writes,     \* snapshots waiting to be written, with the kill each answers
    disk,       \* rooms.json
    closed,     \* ghost: rooms closed by kill, destroy or reconcile
    killed      \* ghost: rooms whose kill was answered

process == <<state, boots>>
tasks == <<todo, spawning, turns>>
ghosts == <<closed, killed>>
vars == <<process, alive, sessions, tasks, writes, disk, ghosts>>

Running == state \in {"boot", "up", "stopping"}

Init ==
    /\ state = "up" /\ boots = 1
    /\ alive = {} /\ sessions = {}
    /\ todo = {} /\ spawning = {} /\ turns = {}
    /\ writes = <<>> /\ disk = {}
    /\ closed = {} /\ killed = {}

Save(map, answers) ==
    writes' = Append(writes, [rooms |-> map, answers |-> answers])
-----------------------------------------------------------------------------
(* spawn: create the room; attach it; once its stream is open, save.        *)
SpawnCreate(a) ==
    /\ state = "up"
    /\ a \notin alive \cup sessions \cup closed \cup disk
    /\ alive' = alive \cup {a}
    /\ spawning' = spawning \cup {a}
    /\ UNCHANGED <<process, sessions, todo, turns, writes, disk, ghosts>>

SpawnAttach(a) ==
    /\ Running /\ a \in spawning \ sessions
    /\ sessions' = sessions \cup {a}
    /\ UNCHANGED <<process, alive, tasks, writes, disk, ghosts>>

SpawnSave(a) ==
    /\ Running /\ a \in spawning \cap sessions
    /\ spawning' = spawning \ {a}
    /\ Save(sessions, {})
    /\ UNCHANGED <<process, alive, sessions, todo, turns, disk, ghosts>>

(* A turn of the agent.  It outlives its session, and it saves the rooms    *)
(* when the agent's session id was rotated (or a message came in).          *)
TurnStart(a) ==
    /\ a \in sessions /\ a \notin turns
    /\ turns' = turns \cup {a}
    /\ UNCHANGED <<process, alive, sessions, todo, spawning, writes, disk, ghosts>>

TurnEnd(a) ==
    /\ Running /\ a \in turns
    /\ turns' = turns \ {a}
    /\ \/ Len(writes) < MaxSave /\ Save(sessions, {})
       \/ UNCHANGED writes
    /\ UNCHANGED <<process, alive, sessions, todo, spawning, disk, ghosts>>

(* Mutant: the next save will do.                                           *)
CloseUnsaved(a, answers) ==
    /\ sessions' = sessions \ {a} /\ spawning' = spawning \ {a}
    /\ closed' = closed \cup {a}
    /\ UNCHANGED writes

(* closeSession, and the save it makes.  A stream that is closed before it  *)
(* has opened never does, and its spawn waits for ever.                     *)
CloseSession(a, answers) ==
    /\ sessions' = sessions \ {a} /\ spawning' = spawning \ {a}
    /\ closed' = closed \cup {a}
    /\ Save(sessions', answers)

(* kill answers once its save is on disk; the room stays on the relay.      *)
Kill(a) ==
    /\ state = "up" /\ a \in sessions
    /\ CloseSession(a, {a})
    /\ UNCHANGED <<process, alive, todo, turns, disk, killed>>

(* A phone disbands the room.                                               *)
Disband(a) ==
    /\ a \in alive
    /\ alive' = alive \ {a}
    /\ UNCHANGED <<process, sessions, tasks, writes, disk, ghosts>>

(* The destroy event, if the stream is open and it arrives.                 *)
Destroyed(a) ==
    /\ a \in sessions \ alive /\ a \notin spawning
    /\ CloseSession(a, {})
    /\ UNCHANGED <<process, alive, todo, turns, disk, killed>>

(* Mutant: only sessions with no turn running are looked at.                *)
ReconcileIdle(a) ==
    /\ state = "up" /\ a \in sessions \ alive /\ turns = {}
    /\ CloseSession(a, {})
    /\ UNCHANGED <<process, alive, todo, turns, disk, killed>>

(* Mutant: a room the relay could not be asked about is taken for gone.     *)
ReconcileUnknown(a) ==
    /\ state = "up" /\ a \in sessions
    /\ CloseSession(a, {})
    /\ UNCHANGED <<process, alive, todo, turns, disk, killed>>

(* reconcileSession: only a room that the relay calls gone is closed (an    *)
(* answer of alive, or none, changes nothing).                              *)
Reconcile(a) ==
    /\ state = "up" /\ a \in sessions \ alive
    /\ CloseSession(a, {})
    /\ UNCHANGED <<process, alive, todo, turns, disk, killed>>
-----------------------------------------------------------------------------
WriteLands ==
    /\ Running /\ writes # <<>>
    /\ disk' = Head(writes).rooms
    /\ killed' = killed \cup Head(writes).answers
    /\ writes' = Tail(writes)
    /\ UNCHANGED <<process, alive, sessions, tasks, closed>>

(* detachAll, of a shutdown, a restart or an update: the map is emptied,    *)
(* the file is left alone; the process lives on until its last awaits end.  *)
Detach ==
    /\ state = "up"
    /\ state' = "stopping"
    /\ sessions' = {} /\ spawning' = spawning \ sessions
    /\ UNCHANGED <<boots, alive, todo, turns, writes, disk, ghosts>>

Exit ==
    /\ state' = "down"
    /\ sessions' = {} /\ todo' = {} /\ spawning' = {} /\ turns' = {}
    /\ writes' = <<>>
    /\ UNCHANGED <<boots, alive, disk, ghosts>>

Stop == state = "stopping" /\ Exit
Crash == state \in {"boot", "up"} /\ Exit

(* The next daemon reads rooms.json and restores the rooms one by one.      *)
Boot ==
    /\ state = "down" /\ boots < MaxBoot
    /\ state' = "boot" /\ boots' = boots + 1
    /\ todo' = disk
    /\ UNCHANGED <<alive, sessions, spawning, turns, writes, disk, ghosts>>

RestoreAttach(a) ==
    /\ state = "boot" /\ a \in todo /\ a \in alive
    /\ todo' = todo \ {a}
    /\ sessions' = sessions \cup {a}
    /\ UNCHANGED <<process, alive, spawning, turns, writes, disk, ghosts>>

(* checkRoom threw: the room is gone, or the relay did not answer well.     *)
RestoreDrop(a) ==
    /\ state = "boot" /\ a \in todo
    /\ todo' = todo \ {a}
    /\ UNCHANGED <<process, alive, sessions, spawning, turns, writes, disk, ghosts>>

(* The end of restore: save what was restored.                              *)
RestoreDone ==
    /\ state = "boot" /\ todo = {}
    /\ state' = "up"
    /\ Save(sessions, {})
    /\ UNCHANGED <<boots, alive, sessions, tasks, disk, ghosts>>

Spawn(a) == SpawnCreate(a) \/ SpawnAttach(a) \/ SpawnSave(a)
Turn(a) == TurnStart(a) \/ TurnEnd(a)
End(a) == Kill(a) \/ Disband(a) \/ Destroyed(a) \/ Reconcile(a)
Restore(a) == RestoreAttach(a) \/ RestoreDrop(a)
Next ==
    \/ \E a \in Room : Spawn(a) \/ Turn(a) \/ End(a) \/ Restore(a)
    \/ WriteLands \/ Detach \/ Stop \/ Crash \/ Boot \/ RestoreDone

(* Writes land, spawns and restores go on, turns end, and the five-minute   *)
(* reconciliation gets an answer about a room that is gone.                 *)
Fairness ==
    /\ WF_vars(WriteLands) /\ WF_vars(RestoreDone)
    /\ \A a \in Room :
        /\ WF_vars(Reconcile(a)) /\ WF_vars(Restore(a))
        /\ WF_vars(SpawnAttach(a) \/ SpawnSave(a)) /\ WF_vars(TurnEnd(a))

Spec == Init /\ [][Next]_vars
FairSpec == Spec /\ Fairness
-----------------------------------------------------------------------------
(* The daemon is well typed: every list, in memory, on its way to the file  *)
(* or in it, is a set of rooms.                                             *)
TypeOK ==
    /\ state \in {"boot", "up", "stopping", "down"} /\ boots \in 1..MaxBoot
    /\ alive \subseteq Room /\ sessions \subseteq Room
    /\ todo \subseteq Room /\ spawning \subseteq Room /\ turns \subseteq Room
    /\ writes \in Seq([rooms : SUBSET Room, answers : SUBSET Room])
    /\ disk \subseteq Room /\ closed \subseteq Room /\ killed \subseteq Room

(* With nothing under way the file is the map: spawns, closings and late    *)
(* saves of ending turns leave no room in one that is not in the other.     *)
FileIsCurrent ==
    state = "up" /\ writes = <<>> /\ spawning = {} => disk = sessions

(* Once a kill is answered the agent is gone for good: no late save and no  *)
(* restart brings its session back.                                         *)
KillIsFinal == killed \cap (sessions \cup disk \cup todo) = {}

(* The daemon drops a session only if the operator killed it, its room is   *)
(* gone on the relay, or the daemon itself goes down.                       *)
LiveSessionsStay ==
    [][\A a \in (sessions \ sessions') \cap alive :
          Kill(a) \/ state' \in {"stopping", "down"}]_vars

(* A room that the daemon serves leaves the file only by a save made during *)
(* a boot's restore, of the rooms restored so far, and the save at its end  *)
(* puts the room back: only a death of the daemon in between loses it.      *)
ServedIsListed ==
    [][\A a \in sessions \cap (disk \ disk') :
          state = "boot" \/ \E i \in DOMAIN writes' : a \in writes'[i].rooms]_vars

(* Sessions, saves and rooms.json are well typed, and once the saves have   *)
(* landed the file lists the sessions there are.                            *)
FileIsSound == TypeOK /\ FileIsCurrent

(* A session ends for good when it is killed, and only then or with its     *)
(* room; and while it lasts its room stays in the file, but for the saves   *)
(* that a restore makes good.                                               *)
SessionsEndForCause == []KillIsFinal /\ LiveSessionsStay /\ ServedIsListed

(* A session whose room is gone on the relay does not stay in the list,     *)
(* even if the destroy event was missed, unless the daemon is stopping.     *)
GhostsGo ==
    \A a \in Room : a \in sessions \ alive ~> a \notin sessions \/ state = "stopping"

(* agent-manager.ts:1142, "Close in-process resources without touching the  *)
(* persisted rooms file": while the daemon stops, no room leaves the file   *)
(* except one that was closed.                                              *)
StopKeepsRooms == [][state = "stopping" => disk \ disk' \subseteq closed]_vars
=============================================================================
