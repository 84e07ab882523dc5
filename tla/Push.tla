------------------------------- MODULE Push -------------------------------
(***************************************************************************)
(* Notifications of one phone: the relay's rows of endpoints per room      *)
(* (server/push.php and the push routes of server/index.php) and the page  *)
(* that subscribes, unsubscribes and keeps telling the relay which room is *)
(* on its screen (app/src/lib/push.ts, RoomController.tsx), over requests  *)
(* that are delayed, lost and overtake one another.                        *)
(*                                                                         *)
(* The browser has one endpoint for all rooms; it may replace it, and the  *)
(* old one is then dead (410).  One unit of time is one refresh of the     *)
(* page (10 s), so PUSH_FOREGROUND_TTL is two.                             *)
(***************************************************************************)
EXTENDS FiniteSets, Integers

CONSTANTS
    Room,
    MaxTime, MaxEndpoint, MaxLost, MaxFlight,   \* bounds
    None

TTL == 2
MaxDelay == 1       \* a request is answered or lost before the next tick but one
Endpoint == 1..MaxEndpoint
BoundsAssumption == {MaxTime, MaxLost, MaxFlight} \subseteq Nat /\ MaxEndpoint \in Nat \ {0}

VARIABLES
    now,        \* clock of the relay
    row,        \* push_subscriptions: foreground_at, 0 when not, None without a row
    member,     \* rooms in which the phone's token is good
    endpoint,   \* the browser's live endpoint
    flag,       \* per room, the endpoint kept with the flag "1", None when off
    at,         \* the room the page shows as a participant, None for elsewhere
    visible,    \* visibilityState of the page
    status,     \* pushStatus of the page
    toggle,     \* handleTogglePush under way (pushBusy), or None
    net,        \* requests in flight
    lost,       \* requests lost so far
    shown,      \* when the room was last on the screen
    loose       \* rooms of which a request was lost or refused, or a toggle cut short

relay == <<row, member>>
page == <<at, visible, status, toggle>>
vars == <<now, relay, endpoint, flag, page, net, lost, shown, loose>>

Posts == [do : {"subscribe", "unsubscribe", "mark", "unmark", "push"}, room : Room,
            end : Endpoint \cup {None}, late : BOOLEAN]
Toggle == [do : {"subscribe", "unsubscribe"}, room : Room, got : {None, "ok", "failed"}]
NoneAssumption == None \notin Room \cup Nat \cup {"ok", "failed"} /\ None \notin Toggle

Init ==
    /\ now = TTL + 1
    /\ row = [r \in Room |-> [e \in Endpoint |-> None]] /\ member = Room
    /\ endpoint = 1 /\ flag = [r \in Room |-> None]
    /\ at = None /\ visible = TRUE /\ status = "off" /\ toggle = None
    /\ net = {} /\ lost = 0
    /\ shown = [r \in Room |-> 0] /\ loose = {}

-----------------------------------------------------------------------------
(***************************************************************************)
(* The page.  The effect that refreshes the marker runs while the room is  *)
(* shown and its status is "on"; when either ends it takes the mark back.  *)
(***************************************************************************)
Post(do, r, e) == [do |-> do, room |-> r, end |-> e, late |-> FALSE]
Refresh(r, seen) == {Post(IF seen THEN "mark" ELSE "unmark", r, endpoint)}

Marks(before, on, after, onAfter, seen) ==
    (IF before # None /\ on = "on" /\ (after # before \/ onAfter # "on")
     THEN {Post("unmark", before, endpoint)} ELSE {})
    \cup (IF after # None /\ onAfter = "on" THEN Refresh(after, seen) ELSE {})

Seen == shown' = [r \in Room |-> IF (at = r /\ visible) \/ (at' = r /\ visible')
                                 THEN now ELSE shown[r]]
Cut == loose' = loose \cup {r \in Room : toggle # None /\ toggle' = None /\ toggle.room = r}
Flight(requests) ==
    net' = net \cup requests /\ Cardinality(net') <= MaxFlight

(* Another room, or none, is shown; the status is read again for a room.   *)
(* A page load ends a toggle under way, an in-place swap does not.         *)
Show(r, load) ==
    /\ r # at
    /\ at' = r
    /\ status' = IF r = None THEN "off" ELSE IF flag[r] # None THEN "on" ELSE "off"
    /\ toggle' = IF load \/ r = None \/ at = None THEN None ELSE toggle
    /\ Flight(Marks(at, status, r, status', visible))
    /\ UNCHANGED <<now, relay, endpoint, flag, visible, lost>>
    /\ Seen /\ Cut

(* visibilitychange, pagehide and pageshow. *)
HideOrShow ==
    /\ visible' = ~visible
    /\ Flight(IF at # None /\ status = "on" THEN Refresh(at, visible') ELSE {})
    /\ UNCHANGED <<now, relay, endpoint, flag, at, status, toggle, lost, loose>>
    /\ Seen

(* handleTogglePush: disablePush forgets the flag before it asks the relay *)
(* to forget the endpoint, enablePush sets it after the relay has it.      *)
Ask(do) == [do |-> do, room |-> at, got |-> None]
ToggleOn ==
    /\ at \in member /\ visible /\ toggle = None /\ status = "off"
    /\ toggle' = Ask("subscribe")
    /\ Flight({Post("subscribe", at, endpoint)})
    /\ UNCHANGED <<now, relay, endpoint, flag, at, visible, status, lost, shown,
                   loose>>

ToggleOffLocally ==
    /\ at # None /\ visible /\ toggle = None /\ status = "on"
    /\ flag' = [flag EXCEPT ![at] = None]
    /\ status' = "off" /\ Flight(Marks(at, "on", at, "off", visible))
    /\ UNCHANGED <<now, relay, endpoint, at, visible, toggle, lost, shown, loose>>
ToggleOff ==
    /\ at # None /\ visible /\ toggle = None /\ status = "on"
    /\ flag' = [flag EXCEPT ![at] = None]
    /\ toggle' = Ask("unsubscribe")
    /\ Flight({Post("unsubscribe", at, endpoint)})
    /\ UNCHANGED <<now, relay, endpoint, at, visible, status, lost, shown, loose>>

(* A failed unsubscribe is swallowed.  The status is set of whatever room  *)
(* the page shows by then. *)
ToggleEnds ==
    /\ toggle # None /\ toggle.got # None
    /\ flag' = IF toggle.do = "subscribe" /\ toggle.got = "ok"
               THEN [flag EXCEPT ![toggle.room] = endpoint] ELSE flag
    /\ status' = CASE toggle.do = "unsubscribe" -> "off"
                   [] toggle.got = "ok" -> "on"
                   [] OTHER -> IF flag[toggle.room] # None THEN "on" ELSE "off"
    /\ toggle' = None
    /\ Flight(IF status' = status THEN {} ELSE Marks(at, status, at, status', visible))
    /\ UNCHANGED <<now, relay, endpoint, at, visible, lost, shown, loose>>

(* The wipe of a room that is forgotten, or was left or disbanded: of a    *)
(* room left the token is not good any more when the relay is asked. *)
Forget(r, left) ==
    /\ r \in member /\ (left => at = r)
    /\ member' = IF left THEN member \ {r} ELSE member
    /\ flag' = [flag EXCEPT ![r] = None]
    /\ at' = None /\ status' = "off" /\ toggle' = None
    /\ loose' = loose \cup (IF left THEN {r} ELSE {})
                     \cup {q \in Room : toggle # None /\ toggle.room = q}
    /\ Flight((IF flag[r] # None THEN {Post("unsubscribe", r, endpoint)} ELSE {})
              \cup Marks(at, status, None, "off", visible))
    /\ UNCHANGED <<now, row, endpoint, visible, lost>>
    /\ Seen

(* triggerRoomPush after a message of one's own; the push of somebody else *)
(* names no endpoint of this phone. *)
SendOwn ==
    /\ at \in member
    /\ Flight({Post("push", at, IF flag[at] # None THEN endpoint ELSE None)})
    /\ UNCHANGED <<now, relay, endpoint, flag, page, lost, shown, loose>>

Rotate ==
    /\ endpoint < MaxEndpoint /\ endpoint' = endpoint + 1
    /\ UNCHANGED <<now, relay, flag, page, net, lost, shown, loose>>

-----------------------------------------------------------------------------
(* The relay.  notify_room leaves out the endpoint excluded and those with *)
(* a fresh mark, prunes those that turn out to be dead (410). *)
Fresh(r, e) == row[r][e] >= now - TTL
Notify(r, exclude) ==
    LET reached == {e \in Endpoint : row[r][e] # None /\ e # exclude /\ ~Fresh(r, e)} IN
    row' = [row EXCEPT ![r] =
             [e \in Endpoint |-> IF e \in reached /\ e # endpoint THEN None ELSE @[e]]]

NotifyOther(r) ==
    /\ Notify(r, None)
    /\ UNCHANGED <<now, member, endpoint, flag, page, net, lost, shown, loose>>

Subscribed(r, e) ==
    row' = [row EXCEPT ![r][e] = IF @ = None THEN 0 ELSE @]
Marked(r, e, time) ==
    row' = [row EXCEPT ![r][e] = IF @ = None THEN None ELSE time]

Answered(q, got) ==
    toggle' = IF toggle # None /\ toggle.do = q.do /\ toggle.room = q.room
                               /\ toggle.got = None
              THEN [toggle EXCEPT !.got = got] ELSE toggle

Serve(q) ==
    /\ q.room \in member
    /\ CASE q.do = "subscribe" -> Subscribed(q.room, q.end)
         [] q.do = "unsubscribe" -> row' = [row EXCEPT ![q.room][q.end] = None]
         [] q.do = "mark" -> Marked(q.room, q.end, now)
         [] q.do = "unmark" -> Marked(q.room, q.end, 0)
         [] q.do = "push" -> Notify(q.room, q.end)
    /\ net' = net \ {q} /\ Answered(q, "ok")
    /\ UNCHANGED <<now, member, endpoint, flag, at, visible, status, lost, shown, loose>>

(* The token is refused, or the request or its answer is lost; what the    *)
(* relay did before an answer was lost is done. *)
Refuse(q) ==
    /\ q.room \notin member
    /\ net' = net \ {q} /\ Answered(q, "failed")
    /\ UNCHANGED <<now, relay, endpoint, flag, at, visible, status, lost, shown,
                   loose>>

Lose(q, done) ==
    /\ lost < MaxLost /\ lost' = lost + 1
    /\ net' = net \ {q} /\ Answered(q, "failed")
    /\ loose' = loose \cup {q.room}
    /\ IF done /\ q.room \in member /\ q.do = "subscribe" THEN Subscribed(q.room, q.end)
       ELSE UNCHANGED row
    /\ UNCHANGED <<now, member, endpoint, flag, at, visible, status, shown>>

Tick ==
    /\ now < MaxTime /\ \A q \in net : ~q.late
    /\ now' = now + 1
    /\ net' = {[q EXCEPT !.late = TRUE] : q \in net}
              \cup (IF at # None /\ status = "on" THEN Refresh(at, visible) ELSE {})
    /\ Cardinality(net') <= MaxFlight
    /\ shown' = [r \in Room |-> IF at = r /\ visible THEN now' ELSE shown[r]]
    /\ UNCHANGED <<relay, endpoint, flag, page, lost, loose>>

Next ==
    \/ \E r \in Room \cup {None}, load \in BOOLEAN : Show(r, load)
    \/ HideOrShow \/ ToggleOn \/ ToggleOff \/ ToggleEnds \/ SendOwn \/ Rotate \/ Tick
    \/ \E r \in Room : NotifyOther(r) \/ \E left \in BOOLEAN : Forget(r, left)
    \/ \E q \in net : Serve(q) \/ Refuse(q) \/ \E done \in BOOLEAN : Lose(q, done)

Spec == Init /\ [][Next]_vars

-----------------------------------------------------------------------------
TypeOK ==
    /\ {now, lost} \subseteq Nat
    /\ row \in [Room -> [Endpoint -> 0..MaxTime \cup {None}]]
    /\ {member, loose} \subseteq SUBSET Room
    /\ endpoint \in Endpoint /\ flag \in [Room -> Endpoint \cup {None}]
    /\ at \in Room \cup {None} /\ visible \in BOOLEAN /\ status \in {"on", "off"}
    /\ toggle \in Toggle \cup {None} /\ net \subseteq Posts
    /\ shown \in [Room -> 0..MaxTime]

(* A device is left out of a fan-out as "showing the room" only if it did  *)
(* show it no longer ago than the marker lives and a request may take:     *)
(* marks and their withdrawals that overtake one another, lost ones, pages *)
(* that go away and the switch itself never silence it for longer.         *)
SuppressedForCause ==
    \A r \in Room, e \in Endpoint :
        row[r][e] \notin {None, 0} => row[r][e] <= shown[r] + MaxDelay

(* The relay keeps the live endpoint of a phone in a room that has its     *)
(* notifications off only while a request about it is on the way, or since *)
(* one of them was lost, or since the room was left, whose token could not *)
(* unsubscribe any more. *)
RowForCause ==
    \A r \in Room : row[r][endpoint] # None /\ flag[r] = None =>
        \/ r \in loose
        \/ \E q \in net : q.room = r /\ q.do = "unsubscribe"
        \/ toggle # None /\ toggle.room = r

(* push.ts: the endpoint is not revealed for rooms where notifications are *)
(* disabled. *)
EndpointStaysHome ==
    [][\A r \in Room : (\E q \in net' \ net : q.room = r /\ q.do = "mark")
          => flag'[r] # None \/ flag[r] # None]_vars
=============================================================================
