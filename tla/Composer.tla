------------------------------ MODULE Composer ------------------------------
(***************************************************************************)
(* Writing in a room of the phone (app/src/pages/RoomController.tsx): the  *)
(* composer and its draft, the message a reply points at, the collector in *)
(* which the replies to an agent wait to be dispatched as one message, and *)
(* the send that is under way.                                             *)
(*                                                                         *)
(* The page is one instance that swaps rooms in place.  A send works with  *)
(* what its closure captured, the room included; what it sets when the     *)
(* relay has answered, it sets in the page, whichever room that shows by   *)
(* then.  A message is identified with the room it was read in: it only    *)
(* matters whose message a reply points at.                                *)
(***************************************************************************)
EXTENDS Naturals, Sequences, FiniteSets, SequencesExt

CONSTANTS
    Room,       \* rooms the phone is a participant of
    Agent,      \* those whose kind is "agent"
    Text,       \* texts the user types, each once
    MaxSwitch,  \* bound on the changes of room
    MaxLost,    \* bound on the sends that get no answer
    None

AgentAssumption == Agent \subseteq Room
NoneAssumption == None \notin Room \cup Text
BoundsAssumption == {MaxSwitch, MaxLost} \subseteq Nat

VARIABLES
    at,         \* roomHash: the room shown
    open,       \* showComposer
    draft,      \* chatInput: a text, or None when it is blank
    replyTo,    \* replyToId: the room of the message it is of, or None
    queue,      \* replyQueue: replies that wait, with the message they answer
    flight,     \* the sends under way: sendInFlightRef lets one through
    accepted,   \* messages the relay has accepted, oldest first
    lost,       \* texts sent by the sends that got no answer
    switches

composer == <<open, draft, replyTo>>
vars == <<at, composer, queue, flight, accepted, lost, switches>>

Reply == [text: Text, to: Room \cup {None}]

(***************************************************************************)
(* A message as posted: the room whose token and key it goes out with, and *)
(* the replies in it; a plain message is one reply, perhaps to nothing.    *)
(***************************************************************************)
Message == [room: Room, replies: Seq(Reply), batch: BOOLEAN]

Typed ==
    {draft} \cup {queue[i].text : i \in DOMAIN queue} \cup lost
        \cup UNION {{r.text : r \in ToSet(m.replies)} : m \in ToSet(accepted \o flight)}

Init ==
    /\ at \in Room
    /\ open = FALSE /\ draft = None /\ replyTo = None
    /\ queue = <<>> /\ flight = <<>>
    /\ accepted = <<>> /\ lost = {}
    /\ switches = 0

MaySendAlways == TRUE
MaySend == flight = <<>>

-----------------------------------------------------------------------------
(* The compose button or, on a desktop, the Enter key (to = None), or the  *)
(* Reply of a message on the screen.  The collector stands in the button's *)
(* place while a batch waits, and leaves the key.                          *)
OpenComposer(to) ==
    /\ ~open
    /\ to \in {None, at}
    /\ open' = TRUE /\ replyTo' = to
    /\ UNCHANGED <<at, draft, queue, flight, accepted, lost, switches>>

Type(t) ==
    /\ open /\ t \notin Typed
    /\ draft' = t
    /\ UNCHANGED <<at, open, replyTo, queue, flight, accepted, lost, switches>>

(* Cancel keeps the draft. *)
CloseComposer ==
    /\ open
    /\ open' = FALSE /\ replyTo' = None
    /\ UNCHANGED <<at, draft, queue, flight, accepted, lost, switches>>

(***************************************************************************)
(* Done, Cmd-Enter, or on a touch device the blur of the field: a reply in *)
(* an agent room joins the batch, anything else is sent.  A tap on Done    *)
(* may be both a blur and a click, and each may come while a send is on.   *)
(***************************************************************************)
Queued == at \in Agent /\ replyTo # None

QueueReply ==
    /\ open /\ Queued /\ draft # None
    /\ queue' = Append(queue, [text |-> draft, to |-> replyTo])
    /\ open' = FALSE /\ draft' = None /\ replyTo' = None
    /\ UNCHANGED <<at, flight, accepted, lost, switches>>

SendText ==
    /\ open /\ ~Queued /\ draft # None
    /\ MaySend
    /\ flight' = Append(flight, [room |-> at, batch |-> FALSE,
                                 replies |-> <<[text |-> draft, to |-> replyTo]>>])
    /\ UNCHANGED <<at, composer, queue, accepted, lost, switches>>

(* The collector: dispatch all, remove one, clear. *)
DispatchBatch ==
    /\ at \in Agent /\ queue # <<>>
    /\ MaySend
    /\ flight' = Append(flight, [room |-> at, batch |-> TRUE, replies |-> queue])
    /\ UNCHANGED <<at, composer, queue, accepted, lost, switches>>

RemoveQueuedReply(i) ==
    /\ at \in Agent
    /\ queue' = RemoveAt(queue, i)
    /\ UNCHANGED <<at, composer, flight, accepted, lost, switches>>

ClearBatch ==
    /\ at \in Agent /\ queue # <<>>
    /\ queue' = <<>>
    /\ UNCHANGED <<at, composer, flight, accepted, lost, switches>>

(***************************************************************************)
(* The relay has accepted the message: the page forgets the draft, or the  *)
(* whole queue, as they are now.                                           *)
(***************************************************************************)
SendSucceeds(i) ==
    /\ accepted' = Append(accepted, flight[i])
    /\ flight' = RemoveAt(flight, i)
    /\ IF flight[i].batch
       THEN queue' = <<>> /\ UNCHANGED composer
       ELSE draft' = None /\ open' = FALSE /\ replyTo' = None /\ UNCHANGED queue
    /\ UNCHANGED <<at, lost, switches>>

(* The relay has refused it: everything stays, to be sent again. *)
SendIsRefused(i) ==
    /\ flight' = RemoveAt(flight, i)
    /\ UNCHANGED <<at, composer, queue, accepted, lost, switches>>

(* The relay has accepted it and the answer does not arrive. *)
SendIsUnanswered(i) ==
    /\ Cardinality(lost) < MaxLost
    /\ accepted' = Append(accepted, flight[i])
    /\ lost' = lost \cup {r.text : r \in ToSet(flight[i].replies)}
    /\ flight' = RemoveAt(flight, i)
    /\ UNCHANGED <<at, composer, queue, switches>>

(***************************************************************************)
(* Another room is entered: the reset of the init effect closes the        *)
(* composer and drops the pointer, and the messages of the old room go.    *)
(***************************************************************************)
EnterRoom(r) ==
    /\ r # at /\ switches < MaxSwitch
    /\ at' = r /\ switches' = switches + 1
    /\ open' = FALSE /\ replyTo' = None
    /\ UNCHANGED <<draft, queue, flight, accepted, lost>>

Next ==
    \/ \E to \in Room \cup {None} : OpenComposer(to)
    \/ \E t \in Text : Type(t)
    \/ CloseComposer \/ QueueReply \/ SendText
    \/ DispatchBatch \/ ClearBatch
    \/ \E i \in DOMAIN queue : RemoveQueuedReply(i)
    \/ \E i \in DOMAIN flight : SendSucceeds(i) \/ SendIsRefused(i) \/ SendIsUnanswered(i)
    \/ \E r \in Room : EnterRoom(r)

Spec == Init /\ [][Next]_vars

-----------------------------------------------------------------------------
TypeOK ==
    /\ at \in Room /\ open \in BOOLEAN
    /\ draft \in Text \cup {None} /\ replyTo \in Room \cup {None}
    /\ queue \in Seq(Reply) /\ accepted \in Seq(Message)
    /\ flight \in Seq(Message)
    /\ lost \subseteq Text /\ switches \in 0..MaxSwitch

(***************************************************************************)
(* What is typed once arrives once, however often Done, the blur and the   *)
(* dispatch button are hit while a send is under way; only a send whose    *)
(* answer was lost is repeated.  (The guard is between sends: a draft that *)
(* is being sent can still be added to the batch, and then comes in both.) *)
(***************************************************************************)
Carrying(t, batch) ==
    {i \in DOMAIN accepted :
        accepted[i].batch = batch /\ \E r \in ToSet(accepted[i].replies) : r.text = t}
OncePerDraft ==
    \A t \in Text \ lost, batch \in BOOLEAN : Cardinality(Carrying(t, batch)) <= 1

(* A plain message points at a message of the room it is posted in: the    *)
(* pointer, with its quote, does not follow the reader into another room.  *)
PointerIsLocal ==
    \A m \in ToSet(accepted) :
        ~m.batch => \A r \in ToSet(m.replies) : r.to \in {None, m.room}

(* "A reply points at the message it answers" (docs/pwa-room-contracts.md):*)
(* the replies of a batch go to the agent whose messages they answer.      *)
RepliesStayHome ==
    \A m \in ToSet(accepted) : m.batch => \A r \in ToSet(m.replies) : r.to = m.room
=============================================================================
