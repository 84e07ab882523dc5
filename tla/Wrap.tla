-------------------------------- MODULE Wrap --------------------------------
(***************************************************************************)
(* hisohiso wrap (cli/src/commands/wrap.ts): one process, one room, one    *)
(* agent.  It waits for a phone that knows the code and the knock message, *)
(* lets it in, and then runs a turn for every message, coalescing what     *)
(* comes during a turn into the next one.                                  *)
(*                                                                         *)
(* Its handlers are asynchronous and nobody waits for them: what they      *)
(* throw is an unhandled rejection, which ends the process.                *)
(***************************************************************************)
EXTENDS Naturals, Sequences, FiniteSets

CONSTANTS
    Phone,      \* phones that know the secrets
    Msg,        \* msg_ids of the messages they send
    MaxChunk    \* bound on the posts of one answer

ChunkAssumption == MaxChunk \in Nat \ {0}

VARIABLES
    phase,      \* "pairing", "chat", "dead"
    knocks,     \* phone -> how far its knock has got
    room,       \* whether the room is at the relay
    stopping,   \* SIGINT: /disband is under way
    seen,       \* seenMsgIds
    opening,    \* messages being decrypted
    running,    \* the flag of that name
    turn,       \* the messages of the turn under way
    left,       \* posts of its answer that remain; 0: the agent is still at it
    pending,    \* the array of that name
    acks,       \* notices being sent
    heard,      \* ghost: the messages understood, in order
    taken       \* ghost: the messages given to the agent, in order

loop == <<seen, opening, running, turn, left, pending, acks, heard, taken>>
vars == <<phase, knocks, room, stopping, loop>>

(* createRoomAndJoin; the subscription of the pairing is open.              *)
Init ==
    /\ phase = "pairing" /\ room = TRUE /\ stopping = FALSE
    /\ knocks = [p \in Phone |-> "out"]
    /\ seen = {} /\ opening = {} /\ running = FALSE /\ turn = <<>> /\ left = 0
    /\ pending = <<>> /\ acks = 0 /\ heard = <<>> /\ taken = <<>>

Alive == phase # "dead"
-----------------------------------------------------------------------------
(* onKnock, both factors right; others are ignored without a word.          *)
Knock(p) ==
    /\ phase = "pairing" /\ room /\ knocks[p] = "out"
    /\ knocks' = [knocks EXCEPT ![p] = "approving"]
    /\ UNCHANGED <<phase, room, stopping, loop>>

Approved(p) ==
    /\ Alive /\ room /\ knocks[p] = "approving"
    /\ knocks' = [knocks EXCEPT ![p] = "wrapping"]
    /\ UNCHANGED <<phase, room, stopping, loop>>

(* sendWrappedToken: the subscription is closed, the loop begins.           *)
Wrapped(p) ==
    /\ Alive /\ room /\ knocks[p] = "wrapping"
    /\ knocks' = [knocks EXCEPT ![p] = "in"]
    /\ phase' = "chat"
    /\ UNCHANGED <<room, stopping, loop>>

(* Either call fails: reject, which ends the command while it is pairing    *)
(* and does nothing once another phone has been let in.                     *)
KnockFails(p) ==
    /\ Alive /\ knocks[p] \in {"approving", "wrapping"}
    /\ knocks' = [knocks EXCEPT ![p] = "failed"]
    /\ phase' = IF phase = "pairing" THEN "dead" ELSE phase
    /\ UNCHANGED <<room, stopping, loop>>
-----------------------------------------------------------------------------
(* Mutant: the message is not entered into the ledger.                      *)
DeliverUnmarked(m) ==
    /\ phase = "chat" /\ m \notin seen
    /\ opening' = opening \cup {m}
    /\ UNCHANGED <<phase, knocks, room, stopping, seen, running, turn, left, pending, acks,
                   heard, taken>>

(* onChat, up to its first await; the hub delivers a message again.         *)
Deliver(m) ==
    /\ phase = "chat" /\ m \notin seen
    /\ seen' = seen \cup {m}
    /\ opening' = opening \cup {m}
    /\ UNCHANGED <<phase, knocks, room, stopping, running, turn, left, pending, acks,
                   heard, taken>>

(* A turn of these messages begins.                                         *)
Run(batch) ==
    /\ running' = TRUE /\ turn' = batch /\ left' = 0
    /\ taken' = taken \o batch

(* Decrypted, it starts a turn, or waits for the one under way.             *)
Decrypted(m) ==
    /\ Alive /\ m \in opening
    /\ opening' = opening \ {m}
    /\ heard' = Append(heard, m)
    /\ IF running
       THEN /\ pending' = Append(pending, m) /\ acks' = acks + 1
            /\ UNCHANGED <<running, turn, left, taken>>
       ELSE Run(<<m>>) /\ UNCHANGED <<pending, acks>>
    /\ UNCHANGED <<phase, knocks, room, stopping, seen>>

Undecryptable(m) ==
    /\ Alive /\ m \in opening
    /\ opening' = opening \ {m}
    /\ UNCHANGED <<phase, knocks, room, stopping, seen, running, turn, left, pending, acks,
                   heard, taken>>

AckSent ==
    /\ Alive /\ room /\ acks > 0
    /\ acks' = acks - 1
    /\ UNCHANGED <<phase, knocks, room, stopping, seen, opening, running, turn, left, pending,
                   heard, taken>>

(* The agent is done; its answer takes so many posts.                       *)
AgentEnds ==
    /\ Alive /\ turn # <<>> /\ left = 0
    /\ left' \in 1 .. MaxChunk
    /\ UNCHANGED <<phase, knocks, room, stopping, seen, opening, running, turn, pending, acks,
                   heard, taken>>

Posted ==
    /\ Alive /\ room /\ left > 1
    /\ left' = left - 1
    /\ UNCHANGED <<phase, knocks, room, stopping, seen, opening, running, turn, pending, acks,
                   heard, taken>>

(* The last post: the whole of pending is the next turn.                    *)
TurnEnds ==
    /\ Alive /\ room /\ left = 1
    /\ pending' = <<>>
    /\ IF pending # <<>> THEN Run(pending)
       ELSE running' = FALSE /\ turn' = <<>> /\ left' = 0 /\ UNCHANGED taken
    /\ UNCHANGED <<phase, knocks, room, stopping, seen, opening, acks, heard>>

(* A notice or a post of the answer cannot be sent: the handler rejects.    *)
PostFails ==
    /\ Alive /\ (acks > 0 \/ left > 0)
    /\ phase' = "dead"
    /\ UNCHANGED <<knocks, room, stopping, loop>>
-----------------------------------------------------------------------------
(* SIGINT, and the exit once /disband has been answered one way or another. *)
Interrupt ==
    /\ Alive /\ ~stopping
    /\ stopping' = TRUE
    /\ UNCHANGED <<phase, knocks, room, loop>>

Disbanded ==
    /\ Alive /\ stopping /\ room
    /\ room' = FALSE
    /\ UNCHANGED <<phase, knocks, stopping, loop>>

Exit ==
    /\ Alive /\ stopping
    /\ phase' = "dead"
    /\ UNCHANGED <<knocks, room, stopping, loop>>

(* A phone disbands the room; the destroy event ends the loop's process.    *)
PhoneDisbands ==
    /\ room /\ \E p \in Phone : knocks[p] = "in"
    /\ room' = FALSE
    /\ UNCHANGED <<phase, knocks, stopping, loop>>

Destroyed ==
    /\ phase = "chat" /\ ~room
    /\ phase' = "dead"
    /\ UNCHANGED <<knocks, room, stopping, loop>>
-----------------------------------------------------------------------------
PairWith(p) == Knock(p) \/ Approved(p) \/ Wrapped(p) \/ KnockFails(p)

Inbound(m) == Deliver(m) \/ Decrypted(m) \/ Undecryptable(m)

Turn == AckSent \/ AgentEnds \/ Posted \/ TurnEnds \/ PostFails

End == Interrupt \/ Disbanded \/ Exit \/ PhoneDisbands \/ Destroyed

Next ==
    \/ \E p \in Phone : PairWith(p)
    \/ \E m \in Msg : Inbound(m)
    \/ Turn
    \/ End

Spec == Init /\ [][Next]_vars
-----------------------------------------------------------------------------
TypeOK ==
    /\ phase \in {"pairing", "chat", "dead"}
    /\ room \in BOOLEAN /\ stopping \in BOOLEAN /\ running \in BOOLEAN
    /\ knocks \in [Phone -> {"out", "approving", "wrapping", "in", "failed"}]
    /\ opening \subseteq Msg /\ seen \subseteq Msg
    /\ left \in 0 .. MaxChunk /\ acks \in Nat

(* A message is given to the agent or waits, once, and in the order it was  *)
(* understood, however often the hub delivers it and whatever the turn      *)
(* under way is doing.                                                      *)
TakenOnce ==
    /\ taken \o pending = heard
    /\ \A i, j \in DOMAIN heard : heard[i] = heard[j] => i = j

(* Nothing waits without a turn to be drained by: no later message is       *)
(* needed to get a queued one run.                                          *)
NothingWaitsIdle == pending # <<>> => running /\ turn # <<>>

(* What the comment over the pairing says: closing the subscription after   *)
(* the first approval lets exactly one phone in.                            *)
OneDevice == Cardinality({p \in Phone : knocks[p] = "in"}) <= 1
=============================================================================
