------------------------------ MODULE Channels ------------------------------
(***************************************************************************)
(* What a phone keeps of its rooms, and how it forgets them: the list of   *)
(* rooms and the artifacts of each in local storage and IndexedDB          *)
(* (app/src/lib/storage.ts and its neighbours), written and wiped by       *)
(* handlers of the room page that work between awaits, with the room they  *)
(* captured, while the page may swap to another room or be reloaded.       *)
(*                                                                         *)
(* Of an artifact only its presence matters.  "prefs" stands for handle,   *)
(* password, knock messages, pending knocks, setup and auto-approve         *)
(* flags, "push" for flag and endpoint.  Leaving the room page is a page   *)
(* load: it ends every handler that is under way.                          *)
(***************************************************************************)
EXTENDS FiniteSets, Naturals

CONSTANTS
    Control, Spawned,   \* a daemon's control room, the rooms of its agents
    Chat,               \* rooms between people
    MaxActs,            \* bound on what the user and other people do
    None

Channel == {Control} \cup Spawned \cup Chat
MaxActsAssumption == MaxActs \in Nat

VARIABLES
    exists,     \* rooms the relay has
    member,     \* rooms the relay has a seat for this phone in
    kept,       \* artifacts of each room on this phone
    card,       \* StoredRoom of each room in the list, or None
    at,         \* the room the page shows, None for /rooms
    screen,     \* roomState of the page
    ops,        \* handlers under way
    wiped,      \* rooms cleared, and neither entered nor written to since
    acts,       \* how often somebody did something
    crossed     \* the room was swapped while it was being left or wiped

phone == <<kept, card, wiped>>
page == <<at, screen>>
vars == <<exists, member, phone, page, ops, acts, crossed>>

Local == {"token", "prefs", "push"}
Artifact == Local \cup {"messages", "created"}
Kind(r) == IF r = Control THEN "control" ELSE IF r \in Spawned THEN "agent" ELSE "chat"
Dead == {"DESTROYED", "LEFT"}

(* Fresh: the entry upsertRoom pushes. *)
Fresh == [kind |-> "chat", nick |-> None, auto |-> None, parent |-> None]
Card == [kind : {"chat", "control", "agent"}, nick : {None, "mine", "host"},
         auto : {None, "spawn", "topic"}, parent : {None, Control}]
DistinctAssumption ==
    /\ None \notin Channel \cup Card \cup {"mine", "host", "spawn", "topic"}
    /\ Control \notin Spawned \cup Chat

Op == [do : {"init", "ingest", "knock", "send", "enable", "disband", "leave",
             "unregister", "clear", "erase"},
       room : Channel, to : Dead \cup {"INIT"}]

Init ==
    /\ exists = Channel \ Chat /\ member = {Control}
    /\ kept = [r \in Channel |-> IF r = Control THEN {"token"} ELSE {}]
    /\ card = [r \in Channel |-> IF r = Control THEN Fresh ELSE None]
    /\ at = None /\ screen = "INIT"
    /\ ops = {} /\ wiped = {}
    /\ crossed = FALSE /\ acts = 0

-----------------------------------------------------------------------------
(* upsertRoom, setRoomKind: a kind is only sharpened away from "chat", and *)
(* the control room an agent belongs to is learnt once. *)
Sharpen(c, kind, parent) ==
    [c EXCEPT !.kind = IF kind = "chat" THEN @ ELSE kind,
              !.parent = IF @ = None THEN parent ELSE @]
Upserted(r, kind, parent) ==
    Sharpen(IF card[r] = None THEN Fresh ELSE card[r], kind, parent)

(* The reply of a daemon or agent: its host name if the room has no name,  *)
(* the agent's own title whenever it stamps one. *)
Stamped(r, c) ==
    [Sharpen(c, IF r = Control THEN "control" ELSE "chat", None) EXCEPT
        !.nick = IF r = Control /\ @ = None THEN "host" ELSE @,
        !.auto = IF r \in Spawned /\ c.kind = "agent" THEN "topic" ELSE @]

Put(r, artifacts, c) ==
    /\ kept' = [kept EXCEPT ![r] = @ \cup artifacts]
    /\ card' = [card EXCEPT ![r] = c]
Write(r, artifacts, c) ==
    /\ Put(r, artifacts, c)
    /\ wiped' = IF <<kept', card'>> = <<kept, card>> THEN wiped ELSE wiped \ {r}

(* clearLocalRoomStorage, and the IndexedDB rows that go after it. *)
Clears == Local

Act == acts < MaxActs /\ acts' = acts + 1
Begin(do, r, to) == ops' = ops \cup {[do |-> do, room |-> r, to |-> to]}
Ended(o) == ops' = ops \ {o}
Becomes(o, do) == ops' = (ops \ {o}) \cup {[o EXCEPT !.do = do]}
Begins(o, do, to) == ops' = (ops \ {o}) \cup {[do |-> do, room |-> o.room, to |-> to]}

(* wipeLocalRoomArtifacts first waits for the relay to drop the endpoint.  *)
WipeStart(r) == IF {"token", "push"} \subseteq kept[r] THEN "unregister" ELSE "clear"

-----------------------------------------------------------------------------
(***************************************************************************)
(* Pages.  An in-place swap leaves the handlers of the old room running,   *)
(* but for its init, which it aborts; a page load ends them all, and a     *)
(* wipe that it ends half-way leaves the rows it had not erased yet.       *)
(***************************************************************************)
Loading(r) == [do |-> "init", room |-> r, to |-> "INIT"]
HalfWiped == {r \in Channel : \E o \in ops : o.room = r /\ o.do = "erase"}
Enters(r, artifacts, c) == Put(r, artifacts, c) /\ wiped' = wiped \ {r}

SwapTo(r) ==
    /\ Act
    /\ at # None /\ r # at
    /\ at' = r /\ screen' = "INIT"
    /\ ops' = (ops \ {Loading(at)}) \cup {Loading(r)}
    /\ Enters(r, {}, card[r])
    /\ crossed' = (crossed \/ \E o \in ops : o.to \in Dead)
    /\ UNCHANGED <<exists, member>>

Open(r) ==
    /\ Act
    /\ at = None
    /\ at' = r /\ screen' = "INIT"
    /\ ops' = {Loading(r)}
    /\ wiped' = (wiped \ HalfWiped) \ {r}
    /\ UNCHANGED <<exists, member, kept, card, crossed>>

GoToRooms ==
    /\ Act
    /\ at # None
    /\ at' = None /\ screen' = "INIT"
    /\ ops' = {}
    /\ wiped' = wiped \ HalfWiped
    /\ crossed' = FALSE
    /\ UNCHANGED <<exists, member, kept, card>>

(* RoomCreator: mints a room, stores what it needs and loads its page. *)
Create(r) ==
    /\ Act
    /\ at = None /\ ops = {} /\ r \in Chat /\ r \notin exists /\ card[r] = None
    /\ exists' = exists \cup {r} /\ member' = member \cup {r}
    /\ Enters(r, {"token", "created"}, Upserted(r, "chat", None))
    /\ at' = r /\ screen' = "INIT" /\ ops' = {Loading(r)}
    /\ UNCHANGED crossed

(* joinActionRoom: the Join button of a spawn answer in the control room.  *)
JoinAction(r) ==
    /\ Act
    /\ at = Control /\ screen = "PARTICIPANT" /\ r \in Spawned
    /\ LET c == Upserted(r, "agent", Control) IN
       Enters(r, {"prefs"}, [c EXCEPT !.auto = IF @ = None THEN "spawn" ELSE @])
    /\ at' = r /\ screen' = "INIT"
    /\ ops' = (ops \ {Loading(at)}) \cup {Loading(r)}
    /\ crossed' = (crossed \/ \E o \in ops : o.to \in Dead)
    /\ UNCHANGED <<exists, member>>

(* The init effect: 404 wipes, a token that is refused is dropped. *)
InitEnds(r) ==
    /\ Loading(r) \in ops /\ at = r
    /\ IF r \notin exists
       THEN /\ Begins(Loading(r), WipeStart(r), "DESTROYED")
            /\ UNCHANGED <<phone, page>>
       ELSE /\ Ended(Loading(r))
            /\ card' = [card EXCEPT ![r] = Upserted(r, "chat", None)]
            /\ wiped' = wiped \ {r}
            /\ IF "token" \in kept[r] /\ r \in member
               THEN screen' = "PARTICIPANT" /\ UNCHANGED kept
               ELSE screen' = "LOBBY" /\ kept' = [kept EXCEPT ![r] = @ \ {"token"}]
            /\ UNCHANGED at
    /\ UNCHANGED <<exists, member, acts, crossed>>

(* The lobby ends with a token of one's own (module Join). *)
Admit ==
    /\ Act
    /\ screen = "LOBBY" /\ at \in exists
    /\ member' = member \cup {at}
    /\ Write(at, {"token", "prefs"}, card[at])
    /\ screen' = "PARTICIPANT"
    /\ UNCHANGED <<exists, at, ops, crossed>>

-----------------------------------------------------------------------------
(* Handlers of the room on the screen: a message, a knock that has to be   *)
(* decrypted, a send, the switch for notifications, the way out.           *)
In == at # None /\ screen = "PARTICIPANT"
Hear(do) ==
    /\ Act
    /\ In /\ at \in exists /\ do \in {"ingest", "knock", "enable"}
    /\ Begin(do, at, "INIT")
    /\ UNCHANGED <<exists, member, phone, page, crossed>>

Send ==
    /\ Act
    /\ In
    /\ Write(at, {}, Upserted(at, "chat", None))
    /\ Begin("send", at, "INIT")
    /\ UNCHANGED <<exists, member, page, crossed>>

WalkOut(do, to) ==
    /\ Act
    /\ In /\ <<do, to>> \in {<<"disband", "DESTROYED">>, <<"leave", "LEFT">>}
    /\ Begin(do, at, to)
    /\ UNCHANGED <<exists, member, phone, page, crossed>>

HandlerEnds(o) ==
    /\ CASE o.do = "ingest" ->
              Write(o.room, {"messages"},
                    IF card[o.room] = None THEN None ELSE Stamped(o.room, card[o.room]))
         [] o.do = "knock" -> Write(o.room, {"prefs"}, card[o.room])
         [] o.do = "send" ->
              IF o.room \in member THEN Write(o.room, {"messages"}, card[o.room])
              ELSE UNCHANGED phone
         [] o.do = "enable" ->
              IF o.room \in member THEN Write(o.room, {"push"}, card[o.room])
              ELSE UNCHANGED phone
         [] OTHER -> FALSE
    /\ Ended(o)
    /\ UNCHANGED <<exists, member, page, acts, crossed>>

(* The relay answers a disband or leave, 404 if the room is gone already;  *)
(* a refusal leaves the room as it is. *)
OutAnsweredAnyhow(o) ==
    /\ o.do \in {"disband", "leave"}
    /\ Becomes(o, WipeStart(o.room))
    /\ UNCHANGED <<exists, member, phone, page, acts, crossed>>
OutRefused(o) ==
    /\ o.do \in {"disband", "leave"} /\ o.room \in exists
    /\ Ended(o)
    /\ UNCHANGED <<exists, member, phone, page, acts, crossed>>
OutAnswered(o) ==
    /\ o.do \in {"disband", "leave"}
    /\ exists' = IF o.do = "disband" THEN exists \ {o.room} ELSE exists
    /\ member' = member \ {o.room}
    /\ Becomes(o, WipeStart(o.room))
    /\ UNCHANGED <<phone, page, acts, crossed>>

(* Somebody else disbands the room: the destroy event, or nothing, arrives.*)
OthersDisband(r, heard) ==
    /\ Act
    /\ r \in exists
    /\ exists' = exists \ {r} /\ member' = member \ {r}
    /\ IF heard THEN at = r /\ screen \in {"LOBBY", "PARTICIPANT"}
                     /\ Begin(WipeStart(r), r, "DESTROYED")
       ELSE UNCHANGED ops
    /\ UNCHANGED <<phone, page, crossed>>

-----------------------------------------------------------------------------
(* The wipe, one await after the other; /rooms forgets without a screen.   *)
Unregistered(o) ==
    /\ o.do = "unregister"
    /\ Becomes(o, "clear")
    /\ kept' = [kept EXCEPT ![o.room] = @ \ {"push"}]
    /\ UNCHANGED <<exists, member, card, wiped, page, acts, crossed>>

Clear(o) ==
    /\ o.do = "clear"
    /\ kept' = [kept EXCEPT ![o.room] = @ \ Clears]
    /\ card' = [card EXCEPT ![o.room] = None]
    /\ wiped' = wiped \cup {o.room}
    /\ Becomes(o, "erase")
    /\ UNCHANGED <<exists, member, page, acts, crossed>>

Erase(o) ==
    /\ o.do = "erase"
    /\ kept' = [kept EXCEPT ![o.room] = @ \ {"messages"}]
    /\ Ended(o)
    /\ screen' = IF at # None THEN o.to ELSE screen
    /\ UNCHANGED <<exists, member, card, wiped, at, acts, crossed>>

Forget(r) ==
    /\ Act
    /\ at = None /\ card[r] # None
    /\ Begin(WipeStart(r), r, "INIT")
    /\ UNCHANGED <<exists, member, phone, page, crossed>>

(* The name given on a card; the settings of the room's menu. *)
Rename(r, nick) ==
    /\ Act
    /\ at = None /\ card[r] # None /\ nick \in {None, "mine"}
    /\ card' = [card EXCEPT ![r].nick = nick]
    /\ UNCHANGED <<exists, member, kept, wiped, page, ops, crossed>>

SetPreference ==
    /\ Act
    /\ In
    /\ Write(at, {"prefs"}, card[at])
    /\ UNCHANGED <<exists, member, page, ops, crossed>>

Next ==
    \/ \E r \in Channel :
         \/ SwapTo(r) \/ Open(r) \/ Create(r) \/ JoinAction(r) \/ InitEnds(r) \/ Forget(r)
         \/ \E heard \in BOOLEAN : OthersDisband(r, heard)
         \/ \E nick \in {None, "mine"} : Rename(r, nick)
    \/ GoToRooms \/ Admit \/ Send \/ SetPreference
    \/ \E do \in {"ingest", "knock", "enable"} : Hear(do)
    \/ \E do \in {"disband", "leave"}, to \in Dead : WalkOut(do, to)
    \/ \E o \in ops :
         \/ HandlerEnds(o) \/ OutAnswered(o) \/ OutRefused(o)
         \/ Unregistered(o) \/ Clear(o) \/ Erase(o)

Spec == Init /\ [][Next]_vars

-----------------------------------------------------------------------------
TypeOK ==
    /\ {exists, member, wiped} \subseteq SUBSET Channel
    /\ kept \in [Channel -> SUBSET Artifact]
    /\ card \in [Channel -> Card \cup {None}]
    /\ at \in Channel \cup {None}
    /\ screen \in {"INIT", "LOBBY", "PARTICIPANT"} \cup Dead
    /\ ops \subseteq Op /\ crossed \in BOOLEAN

(* Forgetting, leaving, disbanding and the end of a room leave nothing of  *)
(* it on the phone but the mark of its maker, which no wipe clears, unless *)
(* the room is entered again or a handler still under way writes to it.    *)
WipeIsComplete ==
    \A r \in wiped : (\A o \in ops : o.room = r => o.do # "erase") =>
        kept[r] \subseteq {"created"} /\ card[r] = None

(* A screen that says disbanded or left says so of a room the phone has no *)
(* seat in any more, unless the room was swapped while another was being   *)
(* left or wiped: that one's end is then shown over the wrong room.        *)
DeadScreenIsDead == screen \in Dead /\ ~crossed => at \notin member

(* While a room stays in the list nobody but the user touches the name he  *)
(* gave it, its kind never falls back, it stays with its daemon, and the   *)
(* agent's own title is not overwritten by the name it was spawned under.  *)
IdentityLasts ==
    [][\A r \in Channel : card[r] # None /\ card'[r] # None =>
          /\ card[r].nick = "mine" => card'[r].nick = "mine" \/ \E n \in {None} : Rename(r, n)
          /\ card[r].kind # "chat" => card'[r].kind = card[r].kind
          /\ card[r].parent # None => card'[r].parent = card[r].parent
          /\ card[r].auto = "topic" => card'[r].auto = "topic"]_vars
=============================================================================
