------------------------------ MODULE Timeline ------------------------------
(***************************************************************************)
(* What a phone shows and keeps of a room: the message list of the PWA     *)
(* (app/src/pages/RoomController.tsx), its IndexedDB rows (lib/db.ts), the *)
(* live events of the relay and the catch-up from the outbox.              *)
(*                                                                         *)
(* The page is one JavaScript thread: a step is what runs between two      *)
(* awaits.  One component instance serves every room, and neither an event *)
(* being decrypted nor a catch-up loop stops when the reader switches to   *)
(* another room.  The hub pushes an event to open streams only; a stream   *)
(* that reconnects by itself may be given what it missed, a rebuilt one    *)
(* is not.  Catch-up is on.  The clocks of phone and relay agree.          *)
(***************************************************************************)
EXTENDS Naturals, Sequences

CONSTANTS
    Own,        \* ids of the messages this phone sends
    Theirs,     \* ids of the messages others send
    Room,       \* rooms
    Task,       \* identities for catch-up loops under way
    MaxTime,    \* bound on the clock
    MaxOpen,    \* bound on the connections
    NoRoom,     \* no room: the app is closed, or a message is not sent yet
    NoMsg       \* no request of ours is under way

Msg == Own \cup Theirs

ASSUME NobodyAssumption ==
    /\ Own \cap Theirs = {} /\ NoMsg \notin Msg /\ NoRoom \notin Room
ASSUME BoundsAssumption == MaxTime \in Nat /\ MaxOpen \in Nat

VARIABLES
    now,
    stage,      \* each message on the relay: "none", "published" or "stored"
    roomOf,     \* the room it was posted to
    at,         \* the timestamp of its event
    kept,       \* the timestamp of its outbox row
    live,       \* its outbox row still has the payload
    here,       \* the room that is open in the app
    phase,      \* "closed", "reset" (list emptied), "merge" (rows read), "ready"
    history,    \* the rows that were read
    conn,       \* the stream: "none", "open" or "broken"
    opens,      \* connections so far
    unseen,     \* events of this room since its stream broke
    inbox,      \* events being decrypted
    sync,       \* the catch-up loops
    screen,     \* the message list
    puts,       \* IndexedDB writes under way
    disk,       \* the IndexedDB rows
    sending     \* the message whose POST is under way

relay == <<stage, roomOf, at, kept, live>>
page == <<here, phase, history>>
stream == <<conn, opens, unseen>>
local == <<screen, puts, disk>>
vars == <<now, relay, page, stream, inbox, sync, local, sending>>

(* A record of the list or of IndexedDB: a message, or the marker that one  *)
(* expired.                                                                 *)
Record == [id : Msg, room : Room, ts : Nat, what : {"text", "gone"}]
IdsOf(S) == {x.id : x \in S}
InRoom(S, r) == {x \in S : x.room = r}

Asleep == [at |-> "idle", room |-> NoRoom, since |-> 0, todo |-> {}, rows |-> {}]

Init ==
    /\ now = 1
    /\ stage = [m \in Msg |-> "none"] /\ roomOf = [m \in Msg |-> NoRoom]
    /\ at = [m \in Msg |-> 0] /\ kept = [m \in Msg |-> 0]
    /\ live = [m \in Msg |-> TRUE]
    /\ here = NoRoom /\ phase = "closed" /\ history = {}
    /\ conn = "none" /\ opens = 0 /\ unseen = {}
    /\ inbox = {} /\ sync = [t \in Task |-> Asleep]
    /\ screen = {} /\ puts = <<>> /\ disk = {}
    /\ sending = NoMsg

(* IndexedDB: a put replaces the row of the same id; a read comes after the *)
(* writes that were asked for before it.                                    *)
Put(rows, x) == {y \in rows : y.id # x.id} \cup {x}
Latest(q) == {i \in DOMAIN q : \A j \in DOMAIN q : q[j].id = q[i].id => j <= i}
Written(rows, q) ==
    {y \in rows : \A i \in DOMAIN q : q[i].id # y.id} \cup {q[i] : i \in Latest(q)}
Landed == Written(disk, puts)
-----------------------------------------------------------------------------
EventOf(m) == [id |-> m, room |-> roomOf'[m], ts |-> at'[m]]

(* The relay publishes a message; an open stream of its room delivers it.   *)
Publish(m, r) ==
    /\ stage[m] = "none"
    /\ stage' = [stage EXCEPT ![m] = "published"]
    /\ roomOf' = [roomOf EXCEPT ![m] = r]
    /\ at' = [at EXCEPT ![m] = now]
    /\ inbox' = IF conn = "open" /\ r = here THEN inbox \cup {EventOf(m)} ELSE inbox
    /\ unseen' = IF conn = "broken" /\ r = here THEN unseen \cup {m} ELSE unseen
    /\ UNCHANGED <<now, kept, live, page, conn, opens, sync, local>>

TheyPost(m, r) == m \in Theirs /\ Publish(m, r) /\ UNCHANGED sending

(* The outbox row, later and with a timestamp of its own.                   *)
Store(m) ==
    /\ stage[m] = "published"
    /\ stage' = [stage EXCEPT ![m] = "stored"]
    /\ kept' = [kept EXCEPT ![m] = now]
    /\ UNCHANGED <<now, roomOf, at, live, page, stream, inbox, sync, local, sending>>

(* The row's payload ages out, a day later: longer than anything the page   *)
(* has under way.                                                           *)
Quiet == inbox = {} /\ puts = <<>> /\ \A t \in Task : sync[t] = Asleep

Expire(m) ==
    /\ stage[m] = "stored" /\ live[m] /\ kept[m] < now /\ Quiet
    /\ live' = [live EXCEPT ![m] = FALSE]
    /\ UNCHANGED <<now, stage, roomOf, at, kept, page, stream, inbox, sync, local, sending>>
-----------------------------------------------------------------------------
(* sendText: one POST at a time.                                            *)
Send(m) ==
    /\ m \in Own /\ phase = "ready" /\ sending = NoMsg
    /\ Publish(m, here)
    /\ sending' = m

(* The answer: the message is shown and saved with the phone's clock.       *)
Sent ==
    /\ sending # NoMsg /\ stage[sending] = "stored"
    /\ LET x == [id |-> sending, room |-> roomOf[sending], ts |-> now, what |-> "text"]
       IN /\ puts' = Append(puts, x)
          /\ screen' = IF sending \in IdsOf(screen) THEN screen ELSE screen \cup {x}
    /\ sending' = NoMsg
    /\ UNCHANGED <<now, relay, page, stream, inbox, sync, disk>>

(* ingestEncryptedChat, once decrypted: a message that is on screen keeps   *)
(* everything except its timestamp (mergeChatMessageEcho).                  *)
ShowText(x) ==
    \/ /\ x.id \notin IdsOf(screen)
       /\ screen' = screen \cup {x}
       /\ puts' = Append(puts, x)
    \/ \E y \in screen :
        LET merged == [y EXCEPT !.ts = x.ts]
        IN /\ y.id = x.id
           /\ screen' = (screen \ {y}) \cup {merged}
           /\ puts' = IF merged = y THEN puts ELSE Append(puts, merged)

(* Mutant: the marker takes the place of whatever is there.                 *)
ShowTombstoneOver(x) ==
    /\ screen' = Put(screen, x)
    /\ puts' = Append(puts, x)

(* ingestTombstone: nothing if the id is on screen.                         *)
ShowTombstone(x) ==
    /\ screen' = IF x.id \in IdsOf(screen) THEN screen ELSE screen \cup {x}
    /\ puts' = IF x.id \in IdsOf(screen) THEN puts ELSE Append(puts, x)

(* handleEvent, after the decryption of a chat event.                       *)
Handle(e) ==
    /\ e \in inbox
    /\ inbox' = inbox \ {e}
    /\ ShowText([id |-> e.id, room |-> e.room, ts |-> e.ts, what |-> "text"])
    /\ UNCHANGED <<now, relay, page, stream, sync, disk, sending>>
-----------------------------------------------------------------------------
(* The stream breaks, or is torn down on resume; nobody notices at once.    *)
Drop ==
    /\ conn = "open"
    /\ conn' = "broken"
    /\ UNCHANGED <<now, relay, page, opens, unseen, inbox, sync, local, sending>>

(* It reconnects by itself (the hub may replay what it missed) or is built  *)
(* anew (nothing is replayed); onopen starts a catch-up.                    *)
Open(t) ==
    /\ phase = "ready" /\ conn # "open" /\ opens < MaxOpen /\ sync[t].at = "idle"
    /\ conn' = "open" /\ opens' = opens + 1 /\ unseen' = {}
    /\ sync' = [sync EXCEPT ![t] = [Asleep EXCEPT !.at = "load", !.room = here]]
    /\ inbox' \in {inbox, inbox \cup {[id |-> m, room |-> roomOf[m], ts |-> at[m]] :
                                        m \in unseen}}
    /\ UNCHANGED <<now, relay, page, local, sending>>

(* localMax: the newest timestamp among the room's local rows.              *)
LoadLocal(t) ==
    /\ sync[t].at = "load"
    /\ \E newest \in {0} \cup {x.ts : x \in InRoom(Landed, sync[t].room)} :
        /\ \A x \in InRoom(Landed, sync[t].room) : x.ts <= newest
        /\ sync' = [sync EXCEPT ![t].at = "fetch", ![t].since = newest]
    /\ UNCHANGED <<now, relay, page, stream, inbox, local, sending>>

RowsOf(r) ==
    {[id |-> m, room |-> r, ts |-> kept[m], what |-> IF live[m] THEN "text" ELSE "gone"] :
        m \in {n \in Msg : stage[n] = "stored" /\ roomOf[n] = r}}

(* GET /outbox?since_ts=localMax answers the newer rows, or fails.          *)
Fetch(t) ==
    /\ sync[t].at = "fetch"
    /\ LET rows == RowsOf(sync[t].room)
           newer == {x \in rows : x.ts > sync[t].since}
       IN sync' \in {[sync EXCEPT ![t].at = "ingest", ![t].todo = newer,
                                  ![t].rows = newer],
                     [sync EXCEPT ![t] = Asleep]}
    /\ UNCHANGED <<now, relay, page, stream, inbox, local, sending>>

(* Mutant: a row that is on screen ends the loop.                           *)
IngestUntilKnown(t) ==
    /\ sync[t].at = "ingest"
    /\ \E x \in sync[t].todo :
        /\ \A y \in sync[t].todo : x.ts <= y.ts
        /\ IF x.what = "text" THEN ShowText(x) ELSE ShowTombstone(x)
        /\ sync' = [sync EXCEPT ![t].todo = IF x.id \in IdsOf(screen) THEN {} ELSE @ \ {x}]
    /\ UNCHANGED <<now, relay, page, stream, inbox, disk, sending>>

(* The loop over the answer, oldest row first.                              *)
Ingest(t) ==
    /\ sync[t].at = "ingest"
    /\ \E x \in sync[t].todo :
        /\ \A y \in sync[t].todo : x.ts <= y.ts
        /\ IF x.what = "text" THEN ShowText(x) ELSE ShowTombstone(x)
        /\ sync' = [sync EXCEPT ![t].todo = @ \ {x}]
    /\ UNCHANGED <<now, relay, page, stream, inbox, disk, sending>>

Finish(t) ==
    /\ sync[t].at = "ingest" /\ sync[t].todo = {}
    /\ sync' = [sync EXCEPT ![t] = Asleep]
    /\ UNCHANGED <<now, relay, page, stream, inbox, local, sending>>
-----------------------------------------------------------------------------
(* init: another room, or the first.  The list is emptied; what the old     *)
(* room still has under way goes on.                                        *)
Enter(r) ==
    /\ r # here
    /\ here' = r /\ phase' = "reset" /\ history' = {}
    /\ screen' = {} /\ conn' = "none" /\ unseen' = {}
    /\ UNCHANGED <<now, relay, opens, inbox, sync, puts, disk, sending>>

ReadHistory ==
    /\ phase = "reset"
    /\ phase' = "merge" /\ history' = InRoom(Landed, here)
    /\ UNCHANGED <<now, relay, here, stream, inbox, sync, local, sending>>

(* Mutant: the rows that were read replace the list.                        *)
MergeReplacing ==
    /\ phase = "merge"
    /\ phase' = "ready" /\ history' = {}
    /\ screen' = history
    /\ UNCHANGED <<now, relay, here, stream, inbox, sync, puts, disk, sending>>

(* The rows read, and what this room's own events put on screen meanwhile.  *)
Merge ==
    /\ phase = "merge"
    /\ phase' = "ready" /\ history' = {}
    /\ screen' = history \cup {x \in InRoom(screen, here) : x.id \notin IdsOf(history)}
    /\ UNCHANGED <<now, relay, here, stream, inbox, sync, puts, disk, sending>>

WriteLands ==
    /\ puts # <<>>
    /\ disk' = Put(disk, Head(puts))
    /\ puts' = Tail(puts)
    /\ UNCHANGED <<now, relay, page, stream, inbox, sync, screen, sending>>

(* The app is closed: what had not reached IndexedDB is lost.               *)
Close ==
    /\ here # NoRoom
    /\ here' = NoRoom /\ phase' = "closed" /\ history' = {}
    /\ conn' = "none" /\ unseen' = {} /\ inbox' = {}
    /\ sync' = [t \in Task |-> Asleep]
    /\ screen' = {} /\ puts' = <<>> /\ sending' = NoMsg
    /\ UNCHANGED <<now, relay, opens, disk>>

Tick ==
    /\ now < MaxTime
    /\ now' = now + 1
    /\ UNCHANGED <<relay, page, stream, inbox, sync, local, sending>>

CatchUp(t) == Open(t) \/ LoadLocal(t) \/ Fetch(t) \/ Ingest(t) \/ Finish(t)
Relay(m) == (\E r \in Room : TheyPost(m, r)) \/ Store(m) \/ Expire(m) \/ Send(m)
Next ==
    \/ \E m \in Msg : Relay(m)
    \/ Sent \/ (\E e \in inbox : Handle(e)) \/ Drop \/ (\E t \in Task : CatchUp(t))
    \/ (\E r \in Room : Enter(r)) \/ ReadHistory \/ Merge
    \/ WriteLands \/ Close \/ Tick

Spec == Init /\ [][Next]_vars
-----------------------------------------------------------------------------
(* Once a room is open, everything saved of it is on screen, whatever was   *)
(* being decrypted, fetched or written while its history was read.          *)
SavedIsShown ==
    phase = "ready" => IdsOf(InRoom(Landed, here)) \subseteq IdsOf(screen)

(* A catch-up that ended has kept every row it was answered with, however   *)
(* many events and other catch-ups it was interleaved with.                 *)
AnsweredIsKept ==
    [][\A t \in Task : Finish(t) => IdsOf(sync[t].rows) \subseteq IdsOf(Landed)]_vars

(* While a room stays open, a message that is shown is not replaced by the  *)
(* marker of its expiry, however late the catch-up brings that.             *)
ShownTextStays ==
    [][here' = here /\ phase = "ready" =>
          \A x \in InRoom(screen, here) : x.what = "text" =>
              \E y \in screen' : y.id = x.id /\ y.what = "text"]_vars

(* RoomController.tsx:1297, "Pull anything we missed while disconnected":   *)
(* a stored message that is older than what a catch-up asks for, and so is  *)
(* never sent, is one the phone has saved, is decrypting, or posted itself. *)
CatchUpLeavesNoGap ==
    [][\A t \in Task : Fetch(t) /\ sync'[t].at = "ingest" =>
          \A x \in RowsOf(sync[t].room) : x.ts < sync[t].since =>
              x.id \in IdsOf(Landed) \cup IdsOf(inbox) \cup {sending}]_vars
=============================================================================
