----------------------------- MODULE AgentTurns -----------------------------
(***************************************************************************)
(* One agent session of the daemon: how the chat messages of its room      *)
(* become turns of the agent process (cli/src/daemon/agent-manager.ts,     *)
(* onChat and its ledger), and what of that survives the daemon.           *)
(*                                                                         *)
(* The daemon is one JavaScript process: what runs between two awaits is   *)
(* one step here, and the callbacks of different events interleave at the  *)
(* awaits.  sse-client calls onChat without waiting for the previous call. *)
(*                                                                         *)
(* The replay ledger seenMsgIds is kept in memory and written to           *)
(* rooms.json; each write carries the ledger as it was when the write was  *)
(* asked for, and the writes land one after the other (config.ts).         *)
(***************************************************************************)
EXTENDS Naturals, FiniteSets, Sequences, SequencesExt

CONSTANTS
    Msg,        \* message ids
    Cap,        \* SEEN_MSG_MAX
    Ttl,        \* SEEN_MSG_TTL_MS, in ticks of the model's clock
    MaxTime,    \* bound on the clock
    MaxCrash,   \* bound on the daemon's crashes
    MaxUnsent,  \* bound on the notices that cannot be sent
    NoRecord    \* rooms.json does not list the room

ASSUME BoundsAssumption ==
    /\ Cap \in Nat \ {0} /\ Ttl \in Nat
    /\ MaxTime \in Nat /\ MaxCrash \in Nat /\ MaxUnsent \in Nat

VARIABLES
    up,         \* the daemon runs
    open,       \* the session is in the manager's map, its stream open
    seen,       \* seenMsgIds: ids with the time they were first seen
    parsing,    \* messages whose onChat is awaiting its decryption
    pending,    \* messages queued behind the running turn
    turn,       \* the messages the running turn was given; none: not running
    acks,       \* "Queued" notices being sent
    writes,     \* snapshots of the record on their way to rooms.json
    disk,       \* the room's record in rooms.json
    now, crashes, unsent,
    started     \* ghost: the messages given to the agent in this life

vars == <<up, open, seen, parsing, pending, turn, acks, writes, disk, now, crashes,
          unsent, started>>
outside == <<now, crashes, unsent>>
memory == <<seen, parsing, pending, turn, acks, started>>

Entry == [id : Msg, at : Nat]
Ids(L) == {e.id : e \in L}
running == turn # <<>>

Init ==
    /\ up = TRUE /\ open = TRUE
    /\ seen = {} /\ parsing = {} /\ pending = <<>> /\ turn = <<>> /\ acks = 0
    /\ writes = <<>> /\ disk = {}
    /\ now = 0 /\ crashes = 0 /\ unsent = 0
    /\ started = <<>>
-----------------------------------------------------------------------------
(* Mutant: the ids are saved without their times.                           *)
PrunedIds(L) == {Ids(L)}

(* pruneSeenMsgIds: the entries of the last Ttl, and of those the newest    *)
(* Cap (which of equally old ones go depends on the order of insertion).    *)
Pruned(L) ==
    LET young == {e \in L : e.at + Ttl >= now}
    IN IF Cardinality(young) <= Cap THEN {young}
       ELSE {K \in SUBSET young : /\ Cardinality(K) = Cap
                                  /\ \A e \in K, f \in young \ K : f.at <= e.at}

(* persistRooms: the snapshot is taken now, the write joins the chain.      *)
Persist(L, listed) ==
    \E snapshot \in IF listed THEN Pruned(L) ELSE {NoRecord} :
        writes' = Append(writes, snapshot)

(* Mutant: the id enters the ledger only once its turn is due.              *)
DeliverUnmarked(m) ==
    /\ up /\ open
    /\ m \notin Ids(seen)
    /\ parsing' = parsing \cup {m}
    /\ UNCHANGED <<up, open, seen, pending, turn, acks, writes, disk, outside, started>>

(* onChat up to its first await.  The relay may deliver any message again   *)
(* at any time; an id in the ledger is dropped.                             *)
Deliver(m) ==
    /\ up /\ open
    /\ m \notin Ids(seen)
    /\ seen' = seen \cup {[id |-> m, at |-> now]}
    /\ Persist(seen', TRUE)
    /\ parsing' = parsing \cup {m}
    /\ UNCHANGED <<up, open, pending, turn, acks, disk, outside, started>>

(* The payload does not decrypt or parse: logged and dropped.               *)
Discard(m) ==
    /\ m \in parsing
    /\ parsing' = parsing \ {m}
    /\ UNCHANGED <<up, open, seen, pending, turn, acks, writes, disk, outside, started>>

(* After the decryption: queue behind the running turn and say so ...       *)
Enqueue(m) ==
    /\ m \in parsing /\ running
    /\ parsing' = parsing \ {m}
    /\ pending' = Append(pending, m)
    /\ acks' = acks + 1
    /\ UNCHANGED <<up, open, seen, turn, writes, disk, outside, started>>

(* ... or start a turn with it.                                             *)
StartTurn(m) ==
    /\ m \in parsing /\ ~running
    /\ parsing' = parsing \ {m}
    /\ turn' = <<m>>
    /\ started' = Append(started, m)
    /\ UNCHANGED <<up, open, seen, pending, acks, writes, disk, outside>>

(* Mutant: the queue waits for the next message to start a turn.            *)
EndTurnIdle ==
    /\ running
    /\ turn' = <<>>
    /\ UNCHANGED <<up, open, seen, parsing, pending, acks, writes, disk, outside, started>>

(* runTurn returned: the whole queue becomes one turn, until it is empty.   *)
(* A turn that rotated the agent's session id saves the rooms as well.      *)
EndTurn ==
    /\ running
    /\ turn' = pending
    /\ started' = started \o pending
    /\ pending' = <<>>
    /\ Persist(seen, open) \/ UNCHANGED writes
    /\ UNCHANGED <<up, open, seen, parsing, acks, disk, outside>>

AckSent ==
    /\ acks > 0
    /\ acks' = acks - 1
    /\ UNCHANGED <<up, open, seen, parsing, pending, turn, writes, disk, outside, started>>
-----------------------------------------------------------------------------
(* saveActiveRooms: temporary file and rename, one write after the other.   *)
WriteLands ==
    /\ writes # <<>>
    /\ disk' = Head(writes)
    /\ writes' = Tail(writes)
    /\ UNCHANGED <<up, open, memory, outside>>

(* closeSession, for `kill', a destroy event or a room found gone.  What    *)
(* runs in this session goes on: only its stream is closed.                 *)
Close ==
    /\ up /\ open
    /\ open' = FALSE
    /\ Persist({}, FALSE)
    /\ UNCHANGED <<up, memory, disk, outside>>

Forget ==
    /\ parsing' = {} /\ pending' = <<>> /\ turn' = <<>> /\ acks' = 0
    /\ started' = <<>> /\ seen' = {} /\ writes' = <<>>

(* The daemon dies: a crash, a kill, a power cut.                           *)
Crash ==
    /\ up /\ crashes < MaxCrash
    /\ up' = FALSE /\ open' = FALSE
    /\ crashes' = crashes + 1
    /\ Forget
    /\ UNCHANGED <<disk, now, unsent>>

(* The notice "Queued" cannot be sent (room gone, relay away).  Nobody      *)
(* catches that rejection of the onChat promise, and the process ends.      *)
AckFails ==
    /\ acks > 0 /\ unsent < MaxUnsent
    /\ up' = FALSE /\ open' = FALSE
    /\ unsent' = unsent + 1
    /\ Forget
    /\ UNCHANGED <<disk, now, crashes>>

(* Mutant: restore forgets to hand the ledger over.                         *)
RestartBlank ==
    /\ ~up
    /\ up' = TRUE
    /\ open' = (disk # NoRecord)
    /\ seen' = {}
    /\ UNCHANGED <<writes, disk, parsing, pending, turn, acks, outside, started>>

(* The next daemon: restore attaches the room if rooms.json lists it, its   *)
(* ledger seeded from the record, and saves the rooms.                      *)
Restart ==
    /\ ~up
    /\ up' = TRUE
    /\ open' = (disk # NoRecord)
    /\ IF disk = NoRecord THEN seen' = {} ELSE seen' \in Pruned(disk)
    /\ Persist(seen', open')
    /\ UNCHANGED <<disk, parsing, pending, turn, acks, outside, started>>

Tick ==
    /\ now < MaxTime
    /\ now' = now + 1
    /\ UNCHANGED <<up, open, memory, writes, disk, crashes, unsent>>

Inbound == \E m \in Msg : Deliver(m) \/ Discard(m) \/ Enqueue(m) \/ StartTurn(m)
Next ==
    \/ Inbound \/ EndTurn \/ AckSent \/ WriteLands \/ Close
    \/ Crash \/ AckFails \/ Restart \/ Tick

(* Promises resolve and the agent process ends its turn.                    *)
Fairness ==
    /\ WF_vars(EndTurn) /\ WF_vars(WriteLands)
    /\ \A m \in Msg : WF_vars(Enqueue(m) \/ StartTurn(m))

Spec == Init /\ [][Next]_vars
FairSpec == Spec /\ Fairness
-----------------------------------------------------------------------------
Record == (SUBSET Entry) \cup {NoRecord}

(* The session is well typed: the ledger holds stamped entries, the queue   *)
(* and the turn hold messages, and rooms.json is absent or a ledger.        *)
TypeOK ==
    /\ up \in BOOLEAN /\ open \in BOOLEAN
    /\ seen \subseteq Entry /\ parsing \subseteq Msg
    /\ pending \in Seq(Msg) /\ turn \in Seq(Msg)
    /\ acks \in Nat /\ now \in Nat /\ crashes \in Nat /\ unsent \in Nat
    /\ \A i \in DOMAIN writes : writes[i] = NoRecord \/ writes[i] \subseteq Entry
    /\ disk = NoRecord \/ disk \subseteq Entry
    /\ started \in Seq(Msg)

(* While a daemon lives, it gives no message to the agent twice, however    *)
(* often the relay delivers it and wherever the first copy is on its way.   *)
NoTurnTwice == IsInjective(started)

(* An id on disk stays there until it is too old or Cap newer ones are: no  *)
(* write that lands late takes the ledger back.                             *)
LedgerNeverRegresses ==
    [][disk # NoRecord /\ disk' # NoRecord =>
          \A e \in disk :
              \/ e \in disk'
              \/ e.at + Ttl < now
              \/ Cardinality({f \in disk' : f.at >= e.at}) >= Cap]_vars

(* A message whose id reached the disk is not accepted again within its     *)
(* lifetime, by this daemon or by one that restores from that file.         *)
PersistedIsNotReplayed ==
    [][\A m \in parsing' \ parsing :
          disk = NoRecord \/ \A e \in disk : e.id = m => e.at + Ttl < now]_vars

(* A queued message is run in the end, unless the daemon goes down first.   *)
QueuedIsRun ==
    \A m \in Msg : m \in ToSet(pending) ~> m \in ToSet(started) \/ ~up
=============================================================================
