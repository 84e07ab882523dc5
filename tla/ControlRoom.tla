----------------------------- MODULE ControlRoom ----------------------------
(***************************************************************************)
(* The daemon's control room over its lives (cli/src/daemon/               *)
(* daemon-main.ts): setupControlRoom, the re-pair loop, the knocks of      *)
(* phones, the devices parked for a tap, and daemon-state.json             *)
(* (cli/src/lib/config.ts), which is written in place, with no chain.      *)
(*                                                                         *)
(* One step is what the daemon runs between two awaits.  saveDaemonState   *)
(* turns the live state object into text once the directory is there, and  *)
(* writes that text, whatever other saves are under way.                   *)
(***************************************************************************)
EXTENDS Naturals, FiniteSets

CONSTANTS
    Room,       \* control rooms that may be minted
    Device,     \* phones, by the key they knock with
    KnockId,    \* the ids of the knocks that may be sent
    None,
    MaxLife     \* bound on the daemon's boots

BoundAssumption == MaxLife \in Nat \ {0} /\ None \notin Room \cup Device

VARIABLES
    phase,      \* "down", "load", "create", "pairing", "keep", "up", "clear", "exit"
    lives,      \* boots so far
    leaving,    \* repair or server answered; the process is about to exit
    room,       \* the room of `state` and of `ctrl`
    fresh,      \* the room setupControlRoom is about to return
    obj,        \* the state object of each room: bound, and to which key
    saves,      \* the saves under way: [by, room, text, over]
    file,       \* daemon-state.json
    alive,      \* rooms on the relay
    minted,     \* rooms ever created
    knocks,     \* what each knock says: by whom, on which room
    handler,    \* what the handler of each knock is doing
    parked,     \* knocks that wait for the operator
    mixed,      \* ghost: what landed last was under way together with another text
    auto,       \* ghost: <<room, device>> admitted without a tap
    taps        \* ghost: how often each was admitted by a tap since it was last parked

proc == <<phase, lives, leaving, room, fresh>>
disk == <<saves, file, mixed>>
relay == <<alive, minted>>
phones == <<knocks, handler, parked>>
ghosts == <<auto, taps>>
vars == <<proc, obj, disk, relay, phones, ghosts>>

Unbound == [bound |-> FALSE, key |-> None]
Saved(r) == [room |-> r, bound |-> obj[r].bound, key |-> obj[r].key]
NoFile == [room |-> None, bound |-> FALSE, key |-> None]

(* A save of room r, by the handler of a knock, by setupControlRoom or by a *)
(* new JWT: it has no text yet.  A second text under way is `over' it.      *)
Saver == KnockId \cup {"setup", "jwt"}
Save(by, r) == [by |-> by, room |-> r, text |-> None, over |-> FALSE]
Fixed == {s \in saves : s.text # None}

Init ==
    /\ phase = "down" /\ lives = 0 /\ leaving = FALSE
    /\ room = None /\ fresh = None
    /\ obj = [r \in Room |-> Unbound]
    /\ saves = {} /\ file = NoFile /\ mixed = FALSE
    /\ alive = {} /\ minted = {}
    /\ knocks = [k \in KnockId |-> [dev |-> None, room |-> None]]
    /\ handler = [k \in KnockId |-> "none"]
    /\ parked = {}
    /\ auto = {} /\ taps = [k \in KnockId |-> 0]
-----------------------------------------------------------------------------
Boot ==
    /\ phase = "down" /\ lives < MaxLife
    /\ phase' = "load" /\ lives' = lives + 1
    /\ UNCHANGED <<leaving, room, fresh, obj, disk, relay, phones, ghosts>>

(* Mutant: the binding is taken for a thing of the old process.             *)
LoadUnbound ==
    /\ phase = "load"
    /\ \/ /\ file.room \in alive
          /\ fresh' = file.room /\ phase' = "keep"
          /\ obj' = [obj EXCEPT ![file.room] = Unbound]
          /\ \/ saves' = saves \cup {Save("setup", file.room)}
             \/ UNCHANGED saves
       \/ phase' = "create" /\ UNCHANGED <<fresh, obj, saves>>
    /\ UNCHANGED <<lives, leaving, room, file, mixed, relay, phones, ghosts>>

(* setupControlRoom reuses the saved room if the relay has it, perhaps with *)
(* a new JWT to save.  No file, no room, an answer it does not like or none *)
(* at all: it makes a new one.                                              *)
Load ==
    /\ phase = "load"
    /\ \/ /\ file.room \in alive
          /\ fresh' = file.room /\ phase' = "keep"
          /\ obj' = [obj EXCEPT ![file.room] = [bound |-> file.bound, key |-> file.key]]
          /\ \/ saves' = saves \cup {Save("setup", file.room)}
             \/ UNCHANGED saves
       \/ phase' = "create" /\ UNCHANGED <<fresh, obj, saves>>
    /\ UNCHANGED <<lives, leaving, room, file, mixed, relay, phones, ghosts>>

(* A room that waits for its first device: without a terminal it is saved   *)
(* unbound; with one the daemon waits for the knock first.                  *)
Create(r) ==
    /\ phase = "create" /\ r \notin minted
    /\ minted' = minted \cup {r} /\ alive' = alive \cup {r}
    /\ fresh' = r /\ obj' = [obj EXCEPT ![r] = Unbound]
    /\ \/ phase' = "keep" /\ saves' = saves \cup {Save("setup", r)}
       \/ phase' = "pairing" /\ UNCHANGED saves
    /\ UNCHANGED <<lives, leaving, room, file, mixed, phones, ghosts>>

(* The save has landed: the room is the current one.  A new ControlRoom     *)
(* starts with nothing parked.                                              *)
Serve ==
    /\ phase = "keep" /\ \A s \in saves : s.by # "setup"
    /\ phase' = "up" /\ room' = fresh /\ parked' = {}
    /\ UNCHANGED <<lives, leaving, fresh, obj, disk, relay, knocks, handler, ghosts>>

(* The object is made into text, and the writing begins: over that of every *)
(* text that is under way.                                                  *)
FixText(s) ==
    /\ s \in saves /\ s.text = None /\ phase # "down"
    /\ saves' = (saves \ (Fixed \cup {s}))
                  \cup {[t EXCEPT !.over = TRUE] : t \in Fixed}
                  \cup {[s EXCEPT !.text = Saved(s.room), !.over = Fixed # {}]}
    /\ UNCHANGED <<proc, obj, file, mixed, relay, phones, ghosts>>

(* It is written.  Two writers opened the file one after the other or both  *)
(* before either wrote: then of a longer text, the bound one, the end is    *)
(* left behind a shorter, and the whole reads like no file.                 *)
SaveLands(s) ==
    /\ s \in saves /\ s.text # None /\ phase # "down"
    /\ saves' = saves \ {s} /\ mixed' = s.over
    /\ \/ file' = s.text
       \/ s.over /\ file.bound /\ ~s.text.bound /\ file' = NoFile
    /\ UNCHANGED <<proc, obj, relay, phones, ghosts>>

(* The hub refuses the stream: a new JWT is fetched and saved.              *)
RefreshJwt ==
    /\ phase = "up" /\ room \in alive
    /\ \A s \in saves : s.by = "jwt" => s.room # room
    /\ saves' = saves \cup {Save("jwt", room)}
    /\ UNCHANGED <<proc, obj, file, mixed, relay, phones, ghosts>>

(* The phone disbands the room.                                             *)
Disband(r) ==
    /\ r \in alive
    /\ alive' = alive \ {r}
    /\ UNCHANGED <<proc, obj, disk, minted, phones, ghosts>>

(* Its destroy event ends the iteration; the loop clears the file and sets  *)
(* up another room, with the knock message it has.                          *)
Destroyed ==
    /\ phase = "up" /\ room \notin alive
    /\ phase' = "clear"
    /\ UNCHANGED <<lives, leaving, room, fresh, obj, disk, relay, phones, ghosts>>

(* The file is unlinked: a writer that has opened it writes to nothing.     *)
Unlink ==
    /\ file' = NoFile /\ UNCHANGED mixed
    /\ \E lost \in SUBSET Fixed : saves' = saves \ lost

Clear ==
    /\ phase = "clear"
    /\ Unlink /\ phase' = "load"
    /\ UNCHANGED <<lives, leaving, room, fresh, obj, relay, phones, ghosts>>
-----------------------------------------------------------------------------
(* A phone that has the secret, the code and the knock message.             *)
SendKnock(k, d) ==
    /\ knocks[k].room = None
    /\ \E r \in alive : knocks' = [knocks EXCEPT ![k] = [dev |-> d, room |-> r]]
    /\ UNCHANGED <<proc, obj, disk, relay, handler, parked, ghosts>>

Handle(k, what) == handler' = [handler EXCEPT ![k] = what]

(* requestControlKnockConfirm: the knock is parked, anew if it was, and the *)
(* room is asked.                                                           *)
Park(k) == parked' = parked \cup {k}

(* onKnock, once it is decrypted: the first device is let in, the bound one *)
(* is let in again, any other waits for a tap.                              *)
OnKnock(k) ==
    /\ handler[k] = "none" /\ phase = "up" /\ knocks[k].room = room
    /\ LET o == obj[room] IN
       \/ ~o.bound /\ Handle(k, "first") /\ UNCHANGED parked
       \/ o.bound /\ o.key = knocks[k].dev /\ Handle(k, "again") /\ UNCHANGED parked
       \/ o.bound /\ o.key # knocks[k].dev /\ Park(k) /\ UNCHANGED handler
    /\ taps' = IF k \in parked' \ parked THEN [taps EXCEPT ![k] = 0] ELSE taps
    /\ UNCHANGED <<proc, obj, disk, relay, knocks, auto>>

(* The same while setupControlRoom waits for its first device.              *)
OnFirstKnock(k) ==
    /\ handler[k] = "none" /\ phase = "pairing" /\ knocks[k].room = fresh
    /\ Handle(k, "pairing")
    /\ UNCHANGED <<proc, obj, disk, relay, knocks, parked, ghosts>>

(* The device is let in: without a tap, or by one.                          *)
LetIn(k) ==
    IF handler[k] = "tap"
    THEN taps' = [taps EXCEPT ![k] = @ + 1] /\ UNCHANGED auto
    ELSE auto' = auto \cup {<<knocks[k].room, knocks[k].dev>>} /\ UNCHANGED taps

(* setupControlRoom still waits for the outcome of this knock.              *)
Pairs(k) == handler[k] = "pairing" /\ phase = "pairing" /\ fresh = knocks[k].room

(* The room is bound to the device, and saved.                              *)
Bind(k, by) ==
    /\ obj' = [obj EXCEPT ![knocks[k].room] = [bound |-> TRUE, key |-> knocks[k].dev]]
    /\ saves' = saves \cup {Save(by, knocks[k].room)}

(* beginApprove, /approve, wrap, /token succeed: the device has its pass.   *)
Approved(k) ==
    /\ handler[k] # "none" /\ knocks[k].room \in alive
    /\ Handle(k, "none") /\ LetIn(k)
    /\ CASE handler[k] = "first" -> Bind(k, k) /\ UNCHANGED phase
         [] Pairs(k) -> Bind(k, "setup") /\ phase' = "keep"
         [] OTHER -> UNCHANGED <<phase, obj, saves>>
    /\ UNCHANGED <<lives, leaving, room, fresh, file, mixed, relay, knocks, parked>>

(* Any of the four fails: the phone will knock again.  If only the answer   *)
(* to /token was lost the device is in nevertheless.  A pairing that fails  *)
(* ends the process.                                                        *)
ApproveFails(k) ==
    /\ handler[k] # "none"
    /\ Handle(k, "none")
    /\ \/ UNCHANGED ghosts
       \/ knocks[k].room \in alive /\ LetIn(k)
    /\ phase' = IF Pairs(k) THEN "exit" ELSE phase
    /\ UNCHANGED <<lives, leaving, room, fresh, obj, disk, relay, knocks, parked>>

(* resolvePending: who answers in the terminal names a knock that waits, or *)
(* means the only one that does; a tap in the room names its own.           *)
Answerable(k) == phase # "down" /\ k \in parked

(* The operator's answer, by a tap in the room or `admit`/`deny` in the     *)
(* terminal: one too many finds nothing.  Refused, or older than ten        *)
(* minutes, it is just forgotten.                                           *)
Resolve(k) ==
    /\ Answerable(k) /\ handler[k] = "none"
    /\ parked' = parked \ {k}
    /\ Handle(k, "tap") \/ UNCHANGED handler
    /\ UNCHANGED <<proc, obj, disk, relay, knocks, ghosts>>
-----------------------------------------------------------------------------
(* repair and server: disband what the state names, clear the file, answer, *)
(* and exit 400 ms later; the loop may re-pair in between.                  *)
Repair ==
    /\ room # None /\ phase # "down" /\ ~leaving
    /\ leaving' = TRUE
    /\ alive' = alive \ {room} \/ UNCHANGED alive
    /\ Unlink
    /\ UNCHANGED <<phase, lives, room, fresh, obj, minted, phones, ghosts>>

(* The process ends: by that exit, a signal, a crash, a pairing that        *)
(* failed.  A text in flight is lost, lands, or leaves half a file, which   *)
(* reads like none.                                                         *)
End ==
    /\ phase # "down"
    /\ phase' = "down" /\ leaving' = FALSE /\ room' = None /\ fresh' = None
    /\ \/ UNCHANGED file
       \/ Fixed # {} /\ file' = NoFile
       \/ \E s \in Fixed : file' = s.text
    /\ saves' = {} /\ mixed' = FALSE
    /\ handler' = [k \in KnockId |-> "none"] /\ parked' = {}
    /\ UNCHANGED <<lives, obj, relay, knocks, ghosts>>

Next ==
    \/ Boot \/ Load \/ Serve \/ RefreshJwt \/ Destroyed \/ Clear \/ Repair \/ End
    \/ \E r \in Room : Create(r) \/ Disband(r)
    \/ \E s \in saves : FixText(s) \/ SaveLands(s)
    \/ \E k \in KnockId :
         \/ \E d \in Device : SendKnock(k, d)
         \/ OnKnock(k) \/ OnFirstKnock(k)
         \/ Approved(k) \/ ApproveFails(k) \/ Resolve(k)

Spec == Init /\ [][Next]_vars
-----------------------------------------------------------------------------
TypeOK ==
    /\ phase \in {"down", "load", "create", "pairing", "keep", "up", "clear", "exit"}
    /\ lives \in 0..MaxLife /\ {leaving, mixed} \subseteq BOOLEAN
    /\ {room, fresh} \subseteq Room \cup {None}
    /\ obj \in [Room -> [bound : BOOLEAN, key : Device \cup {None}]]
    /\ \A s \in saves : s.by \in Saver /\ s.room \in Room
    /\ alive \subseteq minted /\ minted \subseteq Room
    /\ {file} \cup {s.text : s \in Fixed}
         \subseteq [room : Room \cup {None}, bound : BOOLEAN, key : Device \cup {None}]
    /\ parked \subseteq KnockId /\ auto \subseteq Room \X Device

(* First device wins, for good: once the file records a room's binding, no  *)
(* knock on that room is taken for the first, in this life of the daemon or *)
(* a later one, and a device gets its first pass there by a tap or from a   *)
(* handler that had judged the room unbound before.  All that were judged   *)
(* while it was unbound are let in unasked.                                 *)
First == {"first", "pairing"}
BindingIsKept ==
    [][\A k \in KnockId :
         LET r == knocks[k].room  d == knocks[k].dev IN
         r # None /\ file.room = r /\ file.bound =>
            /\ handler'[k] \in First => handler[k] \in First
            /\ <<r, d>> \in auto' \ auto =>
                 \E i \in KnockId : knocks[i] = knocks[k] /\ handler[i] \in First]_vars

(* However many taps and `admit`s answer a parked knock, and in whatever    *)
(* order with knocks that come again, it is admitted once.                  *)
OneAdmissionPerTap == \A k \in KnockId : taps[k] <= 1

(* Once the saves are done the next boot would reuse the room this daemon   *)
(* serves, with its binding; but for a text that landed when another was    *)
(* under way.                                                               *)
FileNamesRoom ==
    phase = "up" /\ saves = {} /\ ~mixed /\ file.room \in alive => file = Saved(room)

(* "thereafter any additional knock is routed to an explicit operator       *)
(* confirm" (config.ts:47): the file that names the room says whether it is *)
(* bound.  Texts that land in another order than they were made break it.   *)
BindingIsOnFile ==
    phase = "up" /\ saves = {} /\ ~leaving /\ file.room = room =>
        file.bound = obj[room].bound

(* "the first authenticated knock binds the control room and is             *)
(* auto-approved.  A later knock [...] is NOT silently admitted"            *)
(* (daemon-main.ts:470): one device is let in without a tap.  Two that are  *)
(* judged before either is approved both are.                               *)
OneUnasked ==
    \A r \in Room : \A d, e \in Device : {<<r, d>>, <<r, e>>} \subseteq auto => d = e
=============================================================================
