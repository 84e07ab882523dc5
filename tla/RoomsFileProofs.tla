-------------------------- MODULE RoomsFileProofs --------------------------
(***************************************************************************)
(* Theorems about RoomsFile, for any rooms, any number of boots and any    *)
(* number of saves under way.                                              *)
(*                                                                         *)
(* The argument.  What rooms.json will be is in the last save under way;   *)
(* every step that changes the session map makes such a save, and a save   *)
(* names the whole map.  A killed room is in no list made after its kill,  *)
(* and as saves land in their order, no earlier one lands after it.        *)
(***************************************************************************)
EXTENDS RoomsFile, TLAPS

(* What rooms.json will be once all saves have landed.                      *)
Final == IF writes = <<>> THEN disk ELSE writes[Len(writes)].rooms

(* The rooms that some list names, in the file or on its way to it.         *)
Named == disk \cup UNION {writes[i].rooms : i \in DOMAIN writes}

(* A daemon that is not running holds nothing, and one that does not        *)
(* restore has nothing left to restore.                                     *)
Idle ==
    /\ state # "boot" => todo = {}
    /\ state = "boot" =>
        spawning = {} /\ \A i \in DOMAIN writes : writes[i].answers = {}
    /\ state = "down" => sessions = {} /\ writes = <<>> /\ spawning = {}

(* The last list names the sessions, but for rooms still being spawned; and *)
(* a session that any list names is named by the last one too.              *)
FileFollows ==
    /\ state = "up" => Final \subseteq sessions /\ sessions \ spawning \subseteq Final
    /\ state \in {"up", "stopping"} => sessions \cap Named \subseteq Final

(* Nothing names a room whose spawn has yet to attach it, and what a list   *)
(* on its way names is a session or was closed.                             *)
SpawnIsNew ==
    /\ (spawning \ sessions) \cap Named = {}
    /\ state \in {"boot", "up"} =>
        \A i \in DOMAIN writes : writes[i].rooms \subseteq sessions \cup closed

(* Where a killed room can no longer be.                                    *)
Left(a) == a \in closed /\ a \notin sessions \cup todo \cup spawning

(* A kill whose save has yet to land has left the session map and the later *)
(* lists; one whose save has landed has left the file as well.              *)
KillsLeave ==
    /\ \A i \in DOMAIN writes : \A a \in writes[i].answers :
        Left(a) /\ \A j \in DOMAIN writes : i <= j => a \notin writes[j].rooms
    /\ \A a \in killed : Left(a) /\ a \notin Named

IInv == TypeOK /\ Idle /\ FileFollows /\ SpawnIsNew /\ KillsLeave
-----------------------------------------------------------------------------
Snapshot == [rooms : SUBSET Room, answers : SUBSET Room]

(* A save goes to the end of what is under way: it is what the file will    *)
(* be, and nothing else changes.                                            *)
LEMMA SaveAppends ==
    ASSUME writes \in Seq(Snapshot), NEW map \in SUBSET Room, NEW answers \in SUBSET Room,
           Save(map, answers), UNCHANGED disk
    PROVE  /\ writes' \in Seq(Snapshot)
           /\ DOMAIN writes' = 1..(Len(writes) + 1) /\ DOMAIN writes = 1..Len(writes)
           /\ \A i \in DOMAIN writes : writes'[i] = writes[i]
           /\ writes'[Len(writes) + 1] = [rooms |-> map, answers |-> answers]
           /\ Final' = map /\ Named' = Named \cup map
<1> DEFINE new == [rooms |-> map, answers |-> answers]
<1>1. new \in Snapshot /\ writes' = Append(writes, new)
  BY DEF Save, Snapshot
<1>2. /\ writes' \in Seq(Snapshot) /\ Len(writes') = Len(writes) + 1
      /\ DOMAIN writes' = 1..(Len(writes) + 1) /\ DOMAIN writes = 1..Len(writes)
      /\ \A i \in DOMAIN writes : writes'[i] = writes[i]
      /\ writes'[Len(writes) + 1] = new /\ Len(writes) \in Nat
  BY <1>1
<1>3. Final' = map
  BY <1>2 DEF Final
<1>4. UNION {writes'[i].rooms : i \in DOMAIN writes'}
        = (UNION {writes[i].rooms : i \in DOMAIN writes}) \cup map
  BY <1>2
<1> QED
  BY <1>2, <1>3, <1>4 DEF Named

(* A save that lands was the first; what the file will be stays the same.   *)
LEMMA LandingShifts ==
    ASSUME writes \in Seq(Snapshot), WriteLands
    PROVE  /\ writes' \in Seq(Snapshot) /\ Len(writes) \in Nat \ {0}
           /\ DOMAIN writes = 1..Len(writes) /\ DOMAIN writes' = 1..(Len(writes) - 1)
           /\ \A i \in DOMAIN writes' : writes'[i] = writes[i + 1]
           /\ writes[1] \in Snapshot /\ disk' = writes[1].rooms
           /\ killed' = killed \cup writes[1].answers
           /\ Final' = Final /\ Named' \subseteq Named
<1>1. /\ writes # <<>> /\ writes' = Tail(writes) /\ disk' = Head(writes).rooms
      /\ killed' = killed \cup Head(writes).answers
  BY DEF WriteLands
<1>2. /\ writes' \in Seq(Snapshot) /\ Len(writes) \in Nat \ {0}
      /\ Len(writes') = Len(writes) - 1
      /\ DOMAIN writes = 1..Len(writes) /\ DOMAIN writes' = 1..(Len(writes) - 1)
      /\ \A i \in DOMAIN writes' : writes'[i] = writes[i + 1]
      /\ Head(writes) = writes[1] /\ writes[1] \in Snapshot
  BY <1>1
<1>3. Final' = Final
  <2>1. CASE Len(writes) = 1
    <3>1. writes' = <<>>
      BY <1>2, <2>1
    <3> QED
      BY <1>1, <1>2, <2>1, <3>1 DEF Final
  <2>2. CASE Len(writes) # 1
    <3>1. Len(writes) - 1 \in DOMAIN writes' /\ writes' # <<>>
      BY <1>2, <2>2
    <3>2. writes'[Len(writes) - 1] = writes[Len(writes)]
      BY <1>2, <3>1
    <3> QED
      BY <1>1, <1>2, <3>1, <3>2 DEF Final
  <2> QED
    BY <2>1, <2>2
<1>4. Named' \subseteq Named
  <2>1. \A i \in DOMAIN writes' : i + 1 \in DOMAIN writes /\ writes'[i] = writes[i + 1]
    BY <1>2
  <2>2. 1 \in DOMAIN writes
    BY <1>2
  <2> QED
    BY <1>1, <1>2, <2>1, <2>2 DEF Named
<1> QED
  BY <1>1, <1>2, <1>3, <1>4
-----------------------------------------------------------------------------
(* What the steps are made of.                                              *)
LEMMA Steps ==
    ASSUME [Next]_vars
    PROVE  \/ \E a \in Room :
                \/ SpawnCreate(a) \/ SpawnAttach(a) \/ SpawnSave(a)
                \/ TurnStart(a) \/ TurnEnd(a)
                \/ Kill(a) \/ Disband(a) \/ Destroyed(a) \/ Reconcile(a)
                \/ RestoreAttach(a) \/ RestoreDrop(a)
           \/ WriteLands \/ Detach \/ (Exit /\ state # "down") \/ Boot \/ RestoreDone
           \/ UNCHANGED vars
BY DEF Next, Spawn, Turn, End, Restore, Stop, Crash

(* The lists and the ghosts stay sets of rooms.                             *)
LEMMA TypeKept ==
    ASSUME TypeOK, [Next]_vars
    PROVE  TypeOK'
<1> USE DEF TypeOK
<1>0. writes \in Seq(Snapshot)
  BY DEF Snapshot
<1>1. ASSUME NEW a \in Room,
             \/ SpawnCreate(a) \/ SpawnAttach(a) \/ TurnStart(a) \/ Disband(a)
             \/ RestoreAttach(a) \/ RestoreDrop(a)
      PROVE  TypeOK'
  BY <1>1 DEF SpawnCreate, SpawnAttach, TurnStart, Disband, RestoreAttach, RestoreDrop,
              process, tasks, ghosts
<1>2. ASSUME NEW a \in Room, SpawnSave(a)
      PROVE  TypeOK'
  <2>1. Save(sessions, {}) /\ UNCHANGED disk
    BY <1>2 DEF SpawnSave
  <2>2. writes' \in Seq(Snapshot)
    BY <1>0, <2>1, SaveAppends
  <2> QED
    BY <1>2, <2>2 DEF SpawnSave, process, ghosts, Snapshot
<1>3. ASSUME NEW a \in Room, TurnEnd(a)
      PROVE  TypeOK'
  <2>1. (Save(sessions, {}) \/ UNCHANGED writes) /\ UNCHANGED disk
    BY <1>3 DEF TurnEnd
  <2>2. writes' \in Seq(Snapshot)
    BY <1>0, <2>1, SaveAppends
  <2> QED
    BY <1>3, <2>2 DEF TurnEnd, process, ghosts, Snapshot
<1>4. ASSUME NEW a \in Room, Kill(a) \/ Destroyed(a) \/ Reconcile(a)
      PROVE  TypeOK'
  <2>1. PICK answers \in SUBSET Room : CloseSession(a, answers)
    BY <1>4 DEF Kill, Destroyed, Reconcile
  <2>2. Save(sessions', answers) /\ sessions' \in SUBSET Room /\ UNCHANGED disk
    BY <1>4, <2>1 DEF CloseSession, Kill, Destroyed, Reconcile
  <2>3. writes' \in Seq(Snapshot)
    BY <1>0, <2>2, SaveAppends
  <2> QED
    BY <1>4, <2>1, <2>3 DEF CloseSession, Kill, Destroyed, Reconcile, process, Snapshot
<1>5. CASE WriteLands
  <2>1. writes' \in Seq(Snapshot) /\ writes[1] \in Snapshot
        /\ disk' = writes[1].rooms /\ killed' = killed \cup writes[1].answers
    BY <1>0, <1>5, LandingShifts
  <2> QED
    BY <1>5, <2>1 DEF WriteLands, process, tasks, Snapshot
<1>6. CASE Detach
  BY <1>6 DEF Detach, ghosts
<1>7. CASE Exit
  BY <1>7 DEF Exit, ghosts
<1>8. CASE Boot
  BY <1>8, BoundsAssumption DEF Boot, ghosts
<1>9. CASE RestoreDone
  <2>1. Save(sessions, {}) /\ UNCHANGED disk
    BY <1>9 DEF RestoreDone
  <2>2. writes' \in Seq(Snapshot)
    BY <1>0, <2>1, SaveAppends
  <2> QED
    BY <1>9, <2>2 DEF RestoreDone, tasks, ghosts, Snapshot
<1>10. CASE UNCHANGED vars
  BY <1>10 DEF vars, process, tasks, ghosts
<1> QED
  BY <1>1, <1>2, <1>3, <1>4, <1>5, <1>6, <1>7, <1>8, <1>9, <1>10, Steps

(* Idle, step by step.                                                      *)
LEMMA IdleKept ==
    ASSUME TypeOK, Idle, [Next]_vars
    PROVE  Idle'
<1>0. writes \in Seq(Snapshot)
  BY DEF TypeOK, Snapshot
<1> USE DEF Idle
<1>1. ASSUME NEW a \in Room,
             \/ SpawnCreate(a) \/ SpawnAttach(a) \/ SpawnSave(a) \/ TurnStart(a)
             \/ Disband(a) \/ RestoreAttach(a) \/ RestoreDrop(a)
      PROVE  Idle'
  BY <1>1 DEF SpawnCreate, SpawnAttach, SpawnSave, TurnStart, Disband, RestoreAttach,
              RestoreDrop, process, tasks, ghosts, Running
<1>2. ASSUME NEW a \in Room, TurnEnd(a)
      PROVE  Idle'
  <2>1. CASE UNCHANGED writes
    BY <1>2, <2>1 DEF TurnEnd, process, ghosts, Running
  <2>2. CASE Save(sessions, {})
    <3>1. /\ DOMAIN writes' = 1..(Len(writes) + 1) /\ DOMAIN writes = 1..Len(writes)
          /\ \A i \in DOMAIN writes : writes'[i] = writes[i]
          /\ writes'[Len(writes) + 1] = [rooms |-> sessions, answers |-> {}]
      BY <1>0, <1>2, <2>2, SaveAppends DEF TurnEnd, TypeOK
    <3>2. \A i \in DOMAIN writes' : i \in DOMAIN writes \/ i = Len(writes) + 1
      BY <1>0, <3>1
    <3> QED
      BY <1>2, <3>1, <3>2 DEF TurnEnd, process, ghosts, Running
  <2> QED
    BY <1>2, <2>1, <2>2 DEF TurnEnd
<1>3. ASSUME NEW a \in Room, Kill(a) \/ Reconcile(a)
      PROVE  Idle'
  BY <1>3 DEF Kill, Reconcile, CloseSession, process
<1>4. ASSUME NEW a \in Room, Destroyed(a)
      PROVE  Idle'
  <2>1. Save(sessions', {}) /\ sessions' \in SUBSET Room /\ UNCHANGED disk
    BY <1>4 DEF Destroyed, CloseSession, TypeOK
  <2>2. /\ DOMAIN writes' = 1..(Len(writes) + 1) /\ DOMAIN writes = 1..Len(writes)
        /\ \A i \in DOMAIN writes : writes'[i] = writes[i]
        /\ writes'[Len(writes) + 1] = [rooms |-> sessions', answers |-> {}]
    BY <1>0, <2>1, SaveAppends
  <2>3. \A i \in DOMAIN writes' : i \in DOMAIN writes \/ i = Len(writes) + 1
    BY <1>0, <2>2
  <2> QED
    BY <1>4, <2>2, <2>3 DEF Destroyed, CloseSession, process
<1>5. CASE WriteLands
  <2>1. \A i \in DOMAIN writes' : i + 1 \in DOMAIN writes /\ writes'[i] = writes[i + 1]
    BY <1>0, <1>5, LandingShifts
  <2> QED
    BY <1>5, <2>1 DEF WriteLands, process, tasks, Running
<1>6. CASE Detach \/ Exit \/ RestoreDone
  BY <1>6 DEF Detach, Exit, RestoreDone, tasks, ghosts
<1>7. CASE Boot
  BY <1>7 DEF Boot, ghosts
<1>8. CASE UNCHANGED vars
  BY <1>8 DEF vars, process, tasks, ghosts
<1> QED
  BY <1>1, <1>2, <1>3, <1>4, <1>5, <1>6, <1>7, <1>8, Steps

(* A step that closes a session saves the map that is left.                 *)
LEMMA ClosingSaves ==
    ASSUME TypeOK, NEW a \in Room, Kill(a) \/ Destroyed(a) \/ Reconcile(a)
    PROVE  \E answers \in SUBSET {a} :
              /\ Save(sessions', answers) /\ sessions' \in SUBSET Room
              /\ (answers # {} => state = "up") /\ UNCHANGED <<disk, killed, state, todo>>
              /\ a \in sessions /\ sessions' = sessions \ {a}
              /\ spawning' = spawning \ {a} /\ closed' = closed \cup {a}
BY DEF TypeOK, Kill, Destroyed, Reconcile, CloseSession, process

(* FileFollows, step by step: every change of the map is followed by a      *)
(* save, but for a spawn's, whose room no list names yet.                   *)
LEMMA FileFollowsKept ==
    ASSUME TypeOK, FileFollows, SpawnIsNew, [Next]_vars
    PROVE  FileFollows'
<1>0. writes \in Seq(Snapshot) /\ sessions \in SUBSET Room
  BY DEF TypeOK, Snapshot
<1>1. UNCHANGED <<writes, disk>> => Final' = Final /\ Named' = Named
  BY DEF Final, Named
<1>2. Final' = sessions' => FileFollows'
  BY DEF FileFollows
<1>3. ASSUME NEW a \in Room,
             \/ SpawnCreate(a) \/ TurnStart(a) \/ Disband(a)
             \/ RestoreAttach(a) \/ RestoreDrop(a)
      PROVE  FileFollows'
  BY <1>1, <1>3 DEF SpawnCreate, TurnStart, Disband, RestoreAttach, RestoreDrop, process,
                    tasks, ghosts, FileFollows
<1>4. ASSUME NEW a \in Room, SpawnAttach(a)
      PROVE  FileFollows'
  <2>1. a \notin Named
    BY <1>4 DEF SpawnAttach, SpawnIsNew
  <2> QED
    BY <1>1, <1>4, <2>1 DEF SpawnAttach, process, tasks, FileFollows
<1>5. ASSUME NEW a \in Room, SpawnSave(a)
      PROVE  FileFollows'
  <2>1. Save(sessions, {}) /\ UNCHANGED <<disk, sessions>>
    BY <1>5 DEF SpawnSave
  <2> QED
    BY <1>0, <1>2, <2>1, SaveAppends
<1>6. ASSUME NEW a \in Room, TurnEnd(a)
      PROVE  FileFollows'
  <2>1. UNCHANGED <<disk, sessions, spawning, state>>
    BY <1>6 DEF TurnEnd, process
  <2>2. CASE Save(sessions, {})
    BY <1>0, <1>2, <2>1, <2>2, SaveAppends
  <2>3. CASE UNCHANGED writes
    BY <1>1, <2>1, <2>3 DEF FileFollows
  <2> QED
    BY <1>6, <2>2, <2>3 DEF TurnEnd
<1>7. ASSUME NEW a \in Room, Kill(a) \/ Destroyed(a) \/ Reconcile(a)
      PROVE  FileFollows'
  <2>1. PICK answers \in SUBSET {a} :
            Save(sessions', answers) /\ sessions' \in SUBSET Room /\ UNCHANGED disk
    BY <1>7, ClosingSaves
  <2> QED
    BY <1>0, <1>2, <2>1, SaveAppends
<1>8. CASE WriteLands
  <2>1. Final' = Final /\ Named' \subseteq Named
    BY <1>0, <1>8, LandingShifts
  <2> QED
    BY <1>8, <2>1 DEF WriteLands, process, tasks, FileFollows
<1>9. CASE Detach \/ Exit \/ Boot
  BY <1>9 DEF Detach, Exit, Boot, FileFollows
<1>10. CASE RestoreDone
  <2>1. Save(sessions, {}) /\ UNCHANGED <<disk, sessions>>
    BY <1>10 DEF RestoreDone
  <2> QED
    BY <1>0, <1>2, <2>1, SaveAppends
<1>11. CASE UNCHANGED vars
  BY <1>1, <1>11 DEF vars, process, tasks, FileFollows
<1> QED
  BY <1>3, <1>4, <1>5, <1>6, <1>7, <1>8, <1>9, <1>10, <1>11, Steps

(* SpawnIsNew, step by step.                                                *)
LEMMA SpawnIsNewKept ==
    ASSUME TypeOK, Idle, SpawnIsNew, [Next]_vars
    PROVE  SpawnIsNew'
<1>0. writes \in Seq(Snapshot) /\ sessions \in SUBSET Room
  BY DEF TypeOK, Snapshot
<1>1. UNCHANGED <<writes, disk>> => Named' = Named
  BY DEF Named
<1>2. ASSUME NEW answers \in SUBSET Room, sessions' \in SUBSET Room,
             Save(sessions', answers), UNCHANGED <<disk>>,
             spawning' \ sessions' \subseteq spawning \ sessions,
             sessions \cup closed \subseteq sessions' \cup closed',
             state' \in {"boot", "up"} => state \in {"boot", "up"}
      PROVE  SpawnIsNew'
  <2>1. /\ DOMAIN writes' = 1..(Len(writes) + 1) /\ DOMAIN writes = 1..Len(writes)
        /\ \A i \in DOMAIN writes : writes'[i] = writes[i]
        /\ writes'[Len(writes) + 1] = [rooms |-> sessions', answers |-> answers]
        /\ Named' = Named \cup sessions'
    BY <1>0, <1>2, SaveAppends
  <2>2. \A i \in DOMAIN writes' : i \in DOMAIN writes \/ i = Len(writes) + 1
    BY <1>0, <2>1
  <2>3. (spawning' \ sessions') \cap Named' = {}
    BY <1>2, <2>1 DEF SpawnIsNew
  <2>4. ASSUME state' \in {"boot", "up"}, NEW i \in DOMAIN writes'
        PROVE  writes'[i].rooms \subseteq sessions' \cup closed'
    <3>1. CASE i \in DOMAIN writes
      BY <1>2, <2>1, <2>4, <3>1 DEF SpawnIsNew
    <3>2. CASE i = Len(writes) + 1
      BY <2>1, <3>2
    <3> QED
      BY <2>2, <2>4, <3>1, <3>2
  <2> QED
    BY <2>3, <2>4 DEF SpawnIsNew
<1>3. ASSUME NEW a \in Room, SpawnCreate(a)
      PROVE  SpawnIsNew'
  <2>1. a \notin Named
    BY <1>3 DEF SpawnCreate, SpawnIsNew, Named
  <2> QED
    BY <1>1, <1>3, <2>1 DEF SpawnCreate, SpawnIsNew, process, ghosts
<1>4. ASSUME NEW a \in Room,
             \/ SpawnAttach(a) \/ TurnStart(a) \/ Disband(a)
             \/ RestoreAttach(a) \/ RestoreDrop(a)
      PROVE  SpawnIsNew'
  BY <1>1, <1>4 DEF SpawnAttach, TurnStart, Disband, RestoreAttach, RestoreDrop, process,
                    tasks, ghosts, SpawnIsNew
<1>5. ASSUME NEW a \in Room, SpawnSave(a)
      PROVE  SpawnIsNew'
  <2>1. /\ Save(sessions', {}) /\ UNCHANGED <<disk, sessions, closed, state>>
        /\ spawning' = spawning \ {a}
    BY <1>5 DEF SpawnSave, process, ghosts
  <2> QED
    BY <1>0, <1>2, <2>1
<1>6. ASSUME NEW a \in Room, TurnEnd(a)
      PROVE  SpawnIsNew'
  <2>1. UNCHANGED <<disk, sessions, spawning, state, closed>>
    BY <1>6 DEF TurnEnd, process, ghosts
  <2>2. CASE Save(sessions, {})
    <3>1. Save(sessions', {})
      BY <2>1, <2>2
    <3> QED
      BY <1>0, <1>2, <2>1, <3>1
  <2>3. CASE UNCHANGED writes
    BY <1>1, <2>1, <2>3 DEF SpawnIsNew
  <2> QED
    BY <1>6, <2>2, <2>3 DEF TurnEnd
<1>7. ASSUME NEW a \in Room, Kill(a) \/ Destroyed(a) \/ Reconcile(a)
      PROVE  SpawnIsNew'
  <2>1. PICK answers \in SUBSET {a} :
            /\ Save(sessions', answers) /\ sessions' \in SUBSET Room
            /\ UNCHANGED <<disk, state>> /\ sessions' = sessions \ {a}
            /\ spawning' = spawning \ {a} /\ closed' = closed \cup {a}
    BY <1>7, ClosingSaves
  <2> QED
    BY <1>2, <2>1
<1>8. CASE WriteLands
  <2>1. /\ Named' \subseteq Named
        /\ \A i \in DOMAIN writes' : i + 1 \in DOMAIN writes /\ writes'[i] = writes[i + 1]
    BY <1>0, <1>8, LandingShifts
  <2>2. UNCHANGED <<state, sessions, spawning, closed>>
    BY <1>8 DEF WriteLands, process, tasks
  <2> QED
    BY <2>1, <2>2 DEF SpawnIsNew
<1>9. CASE Detach
  BY <1>1, <1>9 DEF Detach, ghosts, SpawnIsNew
<1>10. CASE Exit
  BY <1>10 DEF Exit, SpawnIsNew
<1>11. CASE Boot
  BY <1>11 DEF Boot, Idle, SpawnIsNew
<1>12. CASE RestoreDone
  <2>1. Save(sessions', {}) /\ UNCHANGED <<disk, sessions, spawning, closed>> /\ state = "boot"
    BY <1>12 DEF RestoreDone, tasks, ghosts
  <2> QED
    BY <1>0, <1>2, <2>1
<1>13. CASE UNCHANGED vars
  BY <1>1, <1>13 DEF vars, process, tasks, ghosts, SpawnIsNew
<1> QED
  BY <1>3, <1>4, <1>5, <1>6, <1>7, <1>8, <1>9, <1>10, <1>11, <1>12, <1>13, Steps

(* KillsLeave, step by step: what is saved is of the session map, which a   *)
(* killed room has left.                                                    *)
LEMMA KillsLeaveKept ==
    ASSUME TypeOK, Idle, KillsLeave, [Next]_vars
    PROVE  KillsLeave'
<1>0. writes \in Seq(Snapshot) /\ sessions \in SUBSET Room
  BY DEF TypeOK, Snapshot
<1>1. UNCHANGED <<writes, disk>> => Named' = Named
  BY DEF Named
<1>2. ASSUME NEW answers \in SUBSET Room, sessions' \in SUBSET sessions,
             Save(sessions', answers), UNCHANGED <<disk, killed>>,
             todo' \subseteq todo, spawning' \subseteq spawning, closed \subseteq closed',
             \A a \in answers : Left(a)'
      PROVE  KillsLeave'
  <2>1. /\ DOMAIN writes' = 1..(Len(writes) + 1) /\ DOMAIN writes = 1..Len(writes)
        /\ \A i \in DOMAIN writes : writes'[i] = writes[i]
        /\ writes'[Len(writes) + 1] = [rooms |-> sessions', answers |-> answers]
        /\ Named' = Named \cup sessions'
    BY <1>0, <1>2, SaveAppends
  <2>2. \A i \in DOMAIN writes' : i \in DOMAIN writes \/ i = Len(writes) + 1
    BY <1>0, <2>1
  <2>3. \A a : Left(a) => Left(a)'
    BY <1>2 DEF Left
  <2>4. \A a \in killed' : Left(a)' /\ a \notin Named'
    BY <1>2, <2>1, <2>3 DEF KillsLeave, Left
  <2>5. ASSUME NEW i \in DOMAIN writes', NEW a \in writes'[i].answers
        PROVE  Left(a)'
    BY <1>2, <2>1, <2>2, <2>3, <2>5 DEF KillsLeave
  <2>6. ASSUME NEW i \in DOMAIN writes', NEW a \in writes'[i].answers,
               NEW j \in DOMAIN writes', i <= j
        PROVE  a \notin writes'[j].rooms
    <3>1. a \notin sessions'
      BY <2>5, <2>6 DEF Left
    <3>2. CASE j \in DOMAIN writes
      <4>1. i \in DOMAIN writes
        BY <1>0, <2>1, <2>2, <2>6, <3>2
      <4> QED
        BY <2>1, <2>6, <3>2, <4>1 DEF KillsLeave
    <3>3. CASE j = Len(writes) + 1
      BY <2>1, <3>1, <3>3
    <3> QED
      BY <2>2, <2>6, <3>2, <3>3
  <2> QED
    BY <2>4, <2>5, <2>6 DEF KillsLeave
<1>3. ASSUME UNCHANGED <<writes, disk, killed>>, \A a : Left(a) => Left(a)'
      PROVE  KillsLeave'
  BY <1>1, <1>3 DEF KillsLeave
<1>4. ASSUME NEW a \in Room,
             \/ SpawnCreate(a) \/ SpawnAttach(a) \/ TurnStart(a) \/ Disband(a)
             \/ RestoreAttach(a) \/ RestoreDrop(a)
      PROVE  KillsLeave'
  <2>1. UNCHANGED <<writes, disk, killed>>
    BY <1>4 DEF SpawnCreate, SpawnAttach, TurnStart, Disband, RestoreAttach, RestoreDrop,
                ghosts
  <2>2. \A b : Left(b) => Left(b)'
    BY <1>4 DEF SpawnCreate, SpawnAttach, TurnStart, Disband, RestoreAttach, RestoreDrop,
                tasks, ghosts, Left
  <2> QED
    BY <1>3, <2>1, <2>2
<1>5. ASSUME NEW a \in Room, SpawnSave(a)
      PROVE  KillsLeave'
  <2>1. /\ Save(sessions', {}) /\ UNCHANGED <<disk, killed, sessions, closed, todo>>
        /\ spawning' \subseteq spawning
    BY <1>5 DEF SpawnSave, ghosts
  <2> QED
    BY <1>2, <2>1
<1>6. ASSUME NEW a \in Room, TurnEnd(a)
      PROVE  KillsLeave'
  <2>1. UNCHANGED <<disk, killed, sessions, spawning, closed, todo>>
    BY <1>6 DEF TurnEnd, ghosts
  <2>2. CASE Save(sessions, {})
    <3>1. Save(sessions', {})
      BY <2>1, <2>2
    <3> QED
      BY <1>2, <2>1, <3>1
  <2>3. CASE UNCHANGED writes
    BY <1>3, <2>1, <2>3 DEF Left
  <2> QED
    BY <1>6, <2>2, <2>3 DEF TurnEnd
<1>7. ASSUME NEW a \in Room, Kill(a) \/ Destroyed(a) \/ Reconcile(a)
      PROVE  KillsLeave'
  <2>1. PICK answers \in SUBSET {a} :
            /\ Save(sessions', answers) /\ sessions' \in SUBSET Room
            /\ (answers # {} => state = "up") /\ UNCHANGED <<disk, killed, todo>>
            /\ sessions' = sessions \ {a}
            /\ spawning' = spawning \ {a} /\ closed' = closed \cup {a}
    BY <1>7, ClosingSaves
  <2>2. \A b \in answers : Left(b)'
    BY <2>1 DEF Idle, Left
  <2> QED
    BY <1>2, <2>1, <2>2
<1>8. CASE WriteLands
  <2>1. /\ DOMAIN writes = 1..Len(writes) /\ DOMAIN writes' = 1..(Len(writes) - 1)
        /\ Len(writes) \in Nat \ {0} /\ \A i \in DOMAIN writes' : writes'[i] = writes[i + 1]
        /\ disk' = writes[1].rooms /\ killed' = killed \cup writes[1].answers
        /\ Named' \subseteq Named
    BY <1>0, <1>8, LandingShifts
  <2>2. \A b : Left(b)' <=> Left(b)
    BY <1>8 DEF WriteLands, tasks, Left
  <2>3. \A i \in DOMAIN writes' :
            1 \in DOMAIN writes /\ i + 1 \in DOMAIN writes /\ 1 <= i + 1
    BY <2>1
  <2>4. \A i \in DOMAIN writes' : \A b \in writes'[i].answers :
            Left(b)' /\ \A j \in DOMAIN writes' : i <= j => b \notin writes'[j].rooms
    BY <2>1, <2>2, <2>3 DEF KillsLeave
  <2>5. ASSUME NEW b \in writes[1].answers
        PROVE  Left(b) /\ b \notin Named'
    <3>1. 1 \in DOMAIN writes /\ 1 <= 1
      BY <2>1
    <3>2. Left(b) /\ b \notin disk'
      BY <2>1, <3>1 DEF KillsLeave
    <3>3. \A i \in DOMAIN writes' : b \notin writes'[i].rooms
      BY <2>1, <2>3, <3>1 DEF KillsLeave
    <3> QED
      BY <3>2, <3>3 DEF Named
  <2>6. \A b \in killed' : Left(b)' /\ b \notin Named'
    BY <2>1, <2>2, <2>5 DEF KillsLeave
  <2> QED
    BY <2>4, <2>6 DEF KillsLeave
<1>9. CASE Detach
  <2>1. UNCHANGED <<writes, disk, killed>> /\ \A b : Left(b) => Left(b)'
    BY <1>9 DEF Detach, ghosts, Left
  <2> QED
    BY <1>3, <2>1
<1>10. CASE Exit
  <2>1. writes' = <<>> /\ UNCHANGED <<disk, killed>> /\ \A b : Left(b) => Left(b)'
    BY <1>10 DEF Exit, ghosts, Left
  <2>2. Named' \subseteq Named
    BY <2>1 DEF Named
  <2> QED
    BY <2>1, <2>2 DEF KillsLeave
<1>11. CASE Boot
  <2>1. /\ todo' = disk /\ writes = <<>>
        /\ UNCHANGED <<writes, disk, killed, sessions, spawning, closed>>
    BY <1>11 DEF Boot, Idle, ghosts
  <2>2. \A b \in killed : Left(b)'
    BY <2>1 DEF KillsLeave, Left, Named
  <2> QED
    BY <1>1, <2>1, <2>2 DEF KillsLeave
<1>12. CASE RestoreDone
  <2>1. Save(sessions', {}) /\ UNCHANGED <<disk, killed, sessions, spawning, closed, todo>>
    BY <1>12 DEF RestoreDone, tasks, ghosts
  <2> QED
    BY <1>2, <2>1
<1>13. CASE UNCHANGED vars
  <2>1. UNCHANGED <<writes, disk, killed>> /\ \A b : Left(b) => Left(b)'
    BY <1>13 DEF vars, process, tasks, ghosts, Left
  <2> QED
    BY <1>3, <2>1
<1> QED
  BY <1>4, <1>5, <1>6, <1>7, <1>8, <1>9, <1>10, <1>11, <1>12, <1>13, Steps
-----------------------------------------------------------------------------
(* The strengthened invariant holds at first.                               *)
LEMMA InitGood ==
    ASSUME Init
    PROVE  IInv
<1>1. writes \in Seq(Snapshot) /\ DOMAIN writes = {}
  BY DEF Init
<1> QED
  BY <1>1, BoundsAssumption DEF Init, IInv, TypeOK, Snapshot, Idle, FileFollows, Final, Named,
                                SpawnIsNew, KillsLeave

(* The strengthened invariant: what the file will be, which rooms no list   *)
(* can name, and which rooms no list may name any more.                     *)
THEOREM InvariantHolds == Spec => []IInv
<1>1. IInv /\ [Next]_vars => IInv'
  BY TypeKept, IdleKept, FileFollowsKept, SpawnIsNewKept, KillsLeaveKept DEF IInv
<1> QED
  BY <1>1, InitGood, PTL DEF Spec

(* Memory, saves under way and rooms.json are well typed, and the file is   *)
(* the session map whenever nothing is under way.                           *)
THEOREM FileStaysSound == Spec => []FileIsSound
<1>1. IInv => FileIsSound
  <2> SUFFICES ASSUME IInv, state = "up", writes = <<>>, spawning = {}
               PROVE  disk = sessions
    BY DEF IInv, FileIsSound, FileIsCurrent
  <2> QED
    BY DEF IInv, FileFollows, Final
<1> QED
  BY <1>1, InvariantHolds, PTL

(* The map loses a session only to a kill, to its room's end or to the      *)
(* daemon's own.                                                            *)
LEMMA LossHasCause ==
    ASSUME [Next]_vars, NEW a \in (sessions \ sessions') \cap alive
    PROVE  Kill(a) \/ state' \in {"stopping", "down"}
<1>1. ASSUME NEW b \in Room,
             \/ SpawnCreate(b) \/ SpawnAttach(b) \/ SpawnSave(b) \/ TurnStart(b)
             \/ TurnEnd(b) \/ Disband(b) \/ RestoreAttach(b) \/ RestoreDrop(b)
      PROVE  FALSE
  BY <1>1 DEF SpawnCreate, SpawnAttach, SpawnSave, TurnStart, TurnEnd, Disband,
              RestoreAttach, RestoreDrop
<1>2. ASSUME NEW b \in Room, Kill(b) \/ Destroyed(b) \/ Reconcile(b)
      PROVE  Kill(a)
  <2>1. sessions' = sessions \ {b}
    BY <1>2 DEF Kill, Destroyed, Reconcile, CloseSession
  <2>2. a = b
    BY <2>1
  <2> QED
    BY <1>2, <2>2 DEF Destroyed, Reconcile
<1>3. CASE Detach \/ Exit
  BY <1>3 DEF Detach, Exit
<1>4. CASE WriteLands \/ Boot \/ RestoreDone \/ UNCHANGED vars
  BY <1>4 DEF WriteLands, Boot, RestoreDone, vars
<1> QED
  BY <1>1, <1>2, <1>3, <1>4, Steps

(* The last element but one of a longer sequence.                           *)
LEMMA LastShifts ==
    ASSUME NEW n \in Nat \ {0}, n # 1
    PROVE  n - 1 \in 1..(n - 1)
BY SMT

(* A room that is served stays in the file or in a save on its way to it.   *)
LEMMA ServedStaysListed ==
    ASSUME IInv, [Next]_vars, NEW a \in sessions \cap (disk \ disk')
    PROVE  state = "boot" \/ \E i \in DOMAIN writes' : a \in writes'[i].rooms
<1>0. writes \in Seq(Snapshot)
  BY DEF IInv, TypeOK, Snapshot
<1>1. CASE WriteLands
  <2>1. /\ DOMAIN writes' = 1..(Len(writes) - 1) /\ Len(writes) \in Nat \ {0}
        /\ \A i \in DOMAIN writes' : writes'[i] = writes[i + 1]
        /\ disk' = writes[1].rooms /\ writes # <<>>
    BY <1>0, <1>1, LandingShifts DEF WriteLands
  <2>2. CASE state \in {"up", "stopping"}
    <3>1. a \in Final
      BY <2>2 DEF IInv, FileFollows, Named
    <3>2. a \in writes[Len(writes)].rooms
      BY <2>1, <3>1 DEF Final
    <3>3. Len(writes) # 1
      BY <2>1, <3>2
    <3>4. Len(writes) - 1 \in DOMAIN writes'
      <4>1. Len(writes) - 1 \in 1..(Len(writes) - 1)
        BY <2>1, <3>3, LastShifts
      <4> QED
        BY <2>1, <4>1
    <3>5. (Len(writes) - 1) + 1 = Len(writes)
      BY <2>1
    <3>6. writes'[Len(writes) - 1] = writes[Len(writes)]
      BY <2>1, <3>4, <3>5
    <3> QED
      BY <3>2, <3>4, <3>6
  <2> QED
    BY <1>1, <2>2 DEF WriteLands, Running
<1>2. ASSUME NEW b \in Room,
             \/ SpawnCreate(b) \/ SpawnAttach(b) \/ SpawnSave(b) \/ TurnStart(b)
             \/ TurnEnd(b) \/ Kill(b) \/ Disband(b) \/ Destroyed(b) \/ Reconcile(b)
             \/ RestoreAttach(b) \/ RestoreDrop(b)
      PROVE  FALSE
  BY <1>2 DEF SpawnCreate, SpawnAttach, SpawnSave, TurnStart, TurnEnd, Kill, Disband,
              Destroyed, Reconcile, RestoreAttach, RestoreDrop
<1>3. CASE Detach \/ Exit \/ Boot \/ RestoreDone \/ UNCHANGED vars
  BY <1>3 DEF Detach, Exit, Boot, RestoreDone, vars
<1> QED
  BY <1>1, <1>2, <1>3, Steps

(* A kill is final, across late saves, crashes and restores; no other live  *)
(* session is dropped while the daemon runs; and what is served is listed.  *)
THEOREM SessionsLast == Spec => SessionsEndForCause
<1>1. IInv => KillIsFinal
  BY DEF IInv, KillsLeave, KillIsFinal, Left, Named
<1>2. [Next]_vars =>
        [\A a \in (sessions \ sessions') \cap alive :
            Kill(a) \/ state' \in {"stopping", "down"}]_vars
  BY LossHasCause
<1>3. IInv /\ [Next]_vars =>
        [\A a \in sessions \cap (disk \ disk') :
            state = "boot" \/ \E i \in DOMAIN writes' : a \in writes'[i].rooms]_vars
  BY ServedStaysListed
<1> QED
  BY <1>1, <1>2, <1>3, InvariantHolds, PTL
     DEF Spec, SessionsEndForCause, LiveSessionsStay, ServedIsListed
=============================================================================
