-------------------------------- MODULE Join --------------------------------
(***************************************************************************)
(* How a phone gets into a room: its knock, the approver's answer, the     *)
(* token that is issued but not yet claimed, and the pings that claim it   *)
(* (app/src/pages/RoomController.tsx against server/index.php).            *)
(*                                                                         *)
(* The page is one JavaScript thread; a step is what runs between two      *)
(* awaits.  React applies what a step sets at its next render, which       *)
(* tears down the old effects and starts the new ones: `want' is what was  *)
(* last set, `live' what the effects that run were started with.  A ref    *)
(* (eph, tag) changes at once, and for every effect.  Tokens go to the     *)
(* lobby streams that are open and are not replayed.  Rooms live on, and   *)
(* the phone does not leave by itself; its browser has one tab.            *)
(***************************************************************************)
EXTENDS Naturals, FiniteSets

CONSTANTS
    Token,      \* tokens that can be issued; each has a claim tag of its own
    Knock,      \* knocks, each with a key pair of its own
    Room,       \* rooms
    Members,    \* members who may answer one post of a knock
    MaxTry,     \* KNOCK_RETRY_MAX
    MaxPing,    \* bound on the presence requests under way
    MaxLost,    \* bound on the requests that get no answer
    MaxEnter,   \* bound on the rooms entered
    None

ASSUME NoneAssumption == None \notin Token \cup Knock \cup Room
ASSUME BoundsAssumption ==
    {Members, MaxTry, MaxPing, MaxLost, MaxEnter} \subseteq Nat

VARIABLES
    row,        \* each token's row on the relay: "none", "pending", "active", "gone"
    answers,    \* the knock each token was issued for
    due,        \* how many answers each knock can still get
    wrapping,   \* tokens an approver has to wrap and post
    roomOf,     \* the room of each knock
    want,       \* the page: its room, its state and its token, as last set
    live,       \* the same, as the running effects know it
    stored,     \* the token of each room in local storage
    eph,        \* knockEphemeralRef: the knock the page has the key of
    tag,        \* claimTagRef: a token's claim tag
    posting,    \* knocks whose POST is under way
    sent,       \* knockSent
    tries,      \* attempts of the retry timer
    jwt,        \* lobbyJwt: the room it is for
    lobby,      \* the lobby stream of the page is open
    unwraps,    \* token events the page is working on
    pings,      \* presence requests
    error,      \* the page shows that it could not load the room
    lost,       \* requests without an answer so far
    enters,     \* rooms entered so far
    crossed     \* two tokens were unwrapped at once, or a room was left meanwhile

relay == <<row, answers, due, wrapping>>
knocking == <<roomOf, eph, posting, sent, tries, jwt>>
bounds == <<lost, enters>>
vars ==
    <<relay, knocking, want, live, stored, tag, lobby, unwraps, pings, error, bounds, crossed>>

Page == [room : Room \cup {None}, state : {"closed", "init", "lobby", "in", "destroyed"},
         token : Token \cup {None}]
Ping == [token : Token, room : Room, tag : Token \cup {None}, init : BOOLEAN,
         mine : BOOLEAN, answer : {"none", "ok", "refused"}]

Closed == [room |-> None, state |-> "closed", token |-> None]

Init ==
    /\ row = [t \in Token |-> "none"] /\ answers = [t \in Token |-> None]
    /\ due = [k \in Knock |-> 0] /\ wrapping = {}
    /\ roomOf = [k \in Knock |-> None]
    /\ want = Closed /\ live = Closed
    /\ stored = [r \in Room |-> None]
    /\ eph = None /\ tag = None
    /\ posting = {} /\ sent = FALSE /\ tries = 0 /\ jwt = None /\ lobby = FALSE
    /\ unwraps = {} /\ pings = {} /\ error = FALSE /\ lost = 0 /\ enters = 0 /\ crossed = FALSE
-----------------------------------------------------------------------------
(* The relay and the approvers.                                             *)

RoomOfToken(t) == roomOf[answers[t]]

(* POST /approve, for a knock a member was shown: a row that is pending.    *)
Approve(t, k) ==
    /\ row[t] = "none" /\ due[k] > 0
    /\ row' = [row EXCEPT ![t] = "pending"]
    /\ answers' = [answers EXCEPT ![t] = k]
    /\ due' = [due EXCEPT ![k] = @ - 1]
    /\ wrapping' = wrapping \cup {t}
    /\ UNCHANGED <<knocking, want, live, stored, tag, lobby, unwraps, pings, error, bounds,
                   crossed>>

(* The token handler of the page: it is for the knock whose key the page    *)
(* has, and the effect it belongs to knows of no token.                     *)
Heeds(t) ==
    /\ lobby /\ RoomOfToken(t) = live.room
    /\ eph = answers[t] /\ live.token = None

(* POST /token: the wrapped token is published to the lobby.                *)
PostToken(t) ==
    /\ t \in wrapping
    /\ wrapping' = wrapping \ {t}
    /\ IF Heeds(t)
       THEN /\ unwraps' = unwraps \cup {[token |-> t, room |-> live.room, at |-> "unwrap"]}
            /\ crossed' = (crossed \/ unwraps # {} \/ want.token # None)
       ELSE UNCHANGED <<unwraps, crossed>>
    /\ UNCHANGED <<row, answers, due, knocking, want, live, stored, tag, lobby, pings,
                   error, bounds>>

(* An approver who stops between the two.                                   *)
Forsake(t) ==
    /\ t \in wrapping
    /\ wrapping' = wrapping \ {t}
    /\ UNCHANGED <<row, answers, due, knocking, want, live, stored, tag, lobby, unwraps,
                   pings, error, bounds, crossed>>

(* A pending row outlives PENDING_PARTICIPANT_TTL.                          *)
Prune(t) ==
    /\ row[t] = "pending"
    /\ row' = [row EXCEPT ![t] = "gone"]
    /\ UNCHANGED <<answers, due, wrapping, knocking, want, live, stored, tag, lobby, unwraps,
                   pings, error, bounds, crossed>>

(* POST /presence: a member, or a pending row whose tag is revealed.        *)
Verdict(p) ==
    IF RoomOfToken(p.token) = p.room
       /\ (row[p.token] = "active" \/ (row[p.token] = "pending" /\ p.tag = p.token))
    THEN "ok" ELSE "refused"

(* The relay serves a ping; the row of a failed claim is burned.            *)
Presence(p) ==
    /\ p \in pings /\ p.answer = "none"
    /\ row' = [row EXCEPT ![p.token] =
                  IF @ = "pending" /\ RoomOfToken(p.token) = p.room
                  THEN (IF Verdict(p) = "ok" THEN "active" ELSE "gone") ELSE @]
    /\ pings' = (pings \ {p}) \cup
                (IF p.mine THEN {[p EXCEPT !.answer = Verdict(p)]} ELSE {})
    /\ UNCHANGED <<answers, due, wrapping, knocking, want, live, stored, tag, lobby, unwraps,
                   error, bounds, crossed>>
-----------------------------------------------------------------------------
(* The page: entering a room.                                               *)

(* Requests of effects that are torn down are aborted: the relay may serve  *)
(* them, the page does not hear of it.                                      *)
Abort(S) == {[p EXCEPT !.mine = FALSE] : p \in {q \in S : q.answer = "none"}}
OfInit == {p \in pings : p.init /\ p.mine}

PingOf(r, t, init) ==
    [token |-> t, room |-> r, tag |-> None, init |-> init, mine |-> TRUE, answer |-> "none"]

(* init: everything is reset; a stored token is tried by a ping without a   *)
(* tag.                                                                     *)
Enter(r, page) ==
    /\ enters < MaxEnter /\ enters' = enters + 1
    /\ want' = page /\ live' = page
    /\ pings' = Abort(pings)
          \cup (IF stored[r] = None THEN {} ELSE {PingOf(r, stored[r], TRUE)})
          \cup (IF page.state # "in" THEN {} ELSE {PingOf(r, stored[r], FALSE)})
    /\ eph' = None /\ tag' = None /\ jwt' = None /\ lobby' = FALSE
    /\ sent' = FALSE /\ tries' = 0 /\ error' = FALSE
    /\ UNCHANGED <<relay, roomOf, stored, lost>>

(* Another room, in the same page: what is under way goes on.               *)
Switch(r) ==
    /\ live.room \notin {r, None}
    /\ Enter(r, [room |-> r, state |-> IF stored[r] = None THEN "lobby" ELSE "init",
                 token |-> None])
    /\ crossed' = (crossed \/ unwraps # {})
    /\ UNCHANGED <<posting, unwraps>>

(* The page is opened, or opened again: with a stored token it is in, and   *)
(* pings, before init has heard of it.                                      *)
Load(r) ==
    /\ Enter(r, [room |-> r, state |-> IF stored[r] = None THEN "lobby" ELSE "in",
                 token |-> stored[r]])
    /\ posting' = {} /\ unwraps' = {}
    /\ UNCHANGED crossed

(* init, after its ping.                                                    *)
Recognized(p) ==
    /\ p \in pings /\ p.init /\ p.mine /\ p.answer = "ok"
    /\ pings' = pings \ {p}
    /\ want' = [want EXCEPT !.state = "in", !.token = p.token]
    /\ UNCHANGED <<relay, knocking, live, stored, tag, lobby, unwraps, error, bounds, crossed>>

Unrecognized(p) ==
    /\ p \in pings /\ p.init /\ p.mine /\ p.answer = "refused"
    /\ pings' = pings \ {p}
    /\ stored' = [stored EXCEPT ![p.room] = None]
    /\ want' = [want EXCEPT !.state = "lobby", !.token = None]
    /\ UNCHANGED <<relay, knocking, live, tag, lobby, unwraps, error, bounds, crossed>>

(* React renders: pings and streams belong to effects that are torn down;   *)
(* a page that is in pings at once.                                         *)
Render ==
    /\ want # live
    /\ live' = want
    /\ lobby' = FALSE /\ tries' = 0
    /\ pings' = (IF live.state = "in" THEN OfInit \cup Abort(pings \ OfInit) ELSE pings) \cup
                (IF want.state = "in" /\ want.token # None
                 THEN {[token |-> want.token, room |-> want.room, tag |-> tag,
                        init |-> FALSE, mine |-> TRUE, answer |-> "none"]}
                 ELSE {})
    /\ UNCHANGED <<relay, roomOf, eph, posting, sent, jwt, want, stored, tag, unwraps,
                   error, bounds,
                   crossed>>
-----------------------------------------------------------------------------
(* The page: knocking.                                                      *)

(* sendKnock, up to the POST; the members are shown the knock.              *)
SendKnock(k) ==
    /\ live.state = "lobby" /\ roomOf[k] = None
    /\ roomOf' = [roomOf EXCEPT ![k] = live.room]
    /\ eph' = k /\ posting' = posting \cup {k}
    /\ due' = [due EXCEPT ![k] = Members]
    /\ UNCHANGED <<row, answers, wrapping, want, live, stored, sent, tries, jwt, tag, lobby,
                   unwraps, pings, error, bounds, crossed>>

(* Its answer: a JWT for the lobby of the room that was knocked at, with    *)
(* which the stream is built anew.                                          *)
KnockAnswered(k) ==
    /\ k \in posting
    /\ posting' = posting \ {k}
    /\ jwt' = roomOf[k] /\ lobby' = FALSE
    /\ sent' = TRUE /\ tries' = IF sent THEN tries ELSE 0
    /\ UNCHANGED <<relay, roomOf, eph, want, live, stored, tag, unwraps, pings, error,
                   bounds, crossed>>

KnockFailed(k) ==
    /\ k \in posting /\ lost < MaxLost
    /\ lost' = lost + 1
    /\ posting' = posting \ {k}
    /\ eph' = None /\ sent' = FALSE
    /\ UNCHANGED <<relay, roomOf, tries, jwt, want, live, stored, tag, lobby, unwraps,
                   pings, error,
                   enters, crossed>>

(* The stream of the lobby; a JWT for another room's does not open it.      *)
OpenLobby ==
    /\ live.state = "lobby" /\ jwt = live.room /\ ~lobby
    /\ lobby' = TRUE
    /\ UNCHANGED <<relay, knocking, want, live, stored, tag, unwraps, pings, error, bounds,
                   crossed>>

CloseLobby ==
    /\ lobby /\ lost < MaxLost
    /\ lost' = lost + 1
    /\ lobby' = FALSE
    /\ UNCHANGED <<relay, knocking, want, live, stored, tag, unwraps, pings, error, enters,
                   crossed>>

(* Mutant: the attempts are not counted.                                    *)
RetryForever ==
    /\ live.state = "lobby" /\ live.token = None /\ sent /\ eph # None
    /\ tries' = tries + 1
    /\ due' = [due EXCEPT ![eph] = @ + Members]
    /\ UNCHANGED <<row, answers, wrapping, roomOf, eph, posting, sent, jwt, want, live, stored,
                   tag, lobby, unwraps, pings, error, bounds, crossed>>

(* The same knock again, in case the token was missed.                      *)
Retry ==
    /\ live.state = "lobby" /\ live.token = None /\ sent /\ eph # None /\ tries < MaxTry
    /\ tries' = tries + 1
    /\ due' = [due EXCEPT ![eph] = @ + Members]
    /\ UNCHANGED <<row, answers, wrapping, roomOf, eph, posting, sent, jwt, want, live, stored,
                   tag, lobby, unwraps, pings, error, bounds, crossed>>

(* The token is unwrapped: it is stored for the room of the effect, and set *)
(* on the page whatever room that shows.                                    *)
Adopt(u) ==
    /\ u \in unwraps /\ u.at = "unwrap"
    /\ unwraps' = (unwraps \ {u}) \cup {[u EXCEPT !.at = "hash"]}
    /\ eph' = None /\ tag' = u.token
    /\ stored' = [stored EXCEPT ![u.room] = u.token]
    /\ want' = [want EXCEPT !.token = u.token]
    /\ UNCHANGED <<relay, roomOf, posting, sent, tries, jwt, live, lobby, pings, error,
                   bounds, crossed>>

(* And, once its hash is computed, the page is in.                          *)
Admit(u) ==
    /\ u \in unwraps /\ u.at = "hash"
    /\ unwraps' = unwraps \ {u}
    /\ jwt' = None
    /\ want' = [want EXCEPT !.state = "in"]
    /\ UNCHANGED <<relay, roomOf, eph, posting, sent, tries, live, stored, tag, lobby, pings,
                   error, bounds, crossed>>
-----------------------------------------------------------------------------
(* The page: pings.                                                         *)

(* Twenty seconds later: the ping carries the tag, as long as there is one. *)
Tick ==
    /\ live.state = "in" /\ live.token # None /\ Cardinality(pings) < MaxPing
    /\ pings' = pings \cup {[token |-> live.token, room |-> live.room, tag |-> tag,
                             init |-> FALSE, mine |-> TRUE, answer |-> "none"]}
    /\ UNCHANGED <<relay, knocking, want, live, stored, tag, lobby, unwraps, error, bounds,
                   crossed>>

(* An answer that changes nothing, or confirms the claim.                   *)
Confirmed(p) ==
    /\ p \in pings /\ ~p.init /\ p.mine
    /\ p.answer = "ok" \/ (p.answer = "refused" /\ p.tag = None)
    /\ pings' = pings \ {p}
    /\ tag' = IF p.tag # None THEN None ELSE tag
    /\ UNCHANGED <<relay, knocking, want, live, stored, lobby, unwraps, error, bounds, crossed>>

(* A claim that is refused: everything of the room is wiped.                *)
Wipe(p) ==
    /\ p \in pings /\ ~p.init /\ p.mine /\ p.answer = "refused" /\ p.tag # None
    /\ pings' = OfInit \cup Abort(pings \ OfInit)
    /\ tag' = None /\ jwt' = None
    /\ stored' = [stored EXCEPT ![p.room] = None]
    /\ want' = [want EXCEPT !.state = "destroyed", !.token = None]
    /\ UNCHANGED <<relay, roomOf, eph, posting, sent, tries, live, lobby, unwraps, error,
                   bounds, crossed>>

(* Mutant: a ping without an answer uses up the tag.                        *)
LoseWithTag(p) ==
    /\ p \in pings /\ lost < MaxLost
    /\ lost' = lost + 1
    /\ pings' = pings \ {p}
    /\ tag' = IF p.mine /\ ~p.init THEN None ELSE tag
    /\ error' = (error \/ (p.init /\ p.mine))
    /\ UNCHANGED <<relay, knocking, want, live, stored, lobby, unwraps, enters, crossed>>

(* No answer, or a 5xx: the next tick tries again; init shows an error.     *)
Lose(p) ==
    /\ p \in pings /\ lost < MaxLost
    /\ lost' = lost + 1
    /\ pings' = pings \ {p}
    /\ error' = (error \/ (p.init /\ p.mine))
    /\ UNCHANGED <<relay, knocking, want, live, stored, tag, lobby, unwraps, enters, crossed>>
-----------------------------------------------------------------------------
Approver(t) == (\E k \in Knock : Approve(t, k)) \/ PostToken(t) \/ Forsake(t)
Asking(k) == SendKnock(k) \/ KnockAnswered(k) \/ KnockFailed(k)
Answered(p) == Recognized(p) \/ Unrecognized(p) \/ Confirmed(p) \/ Wipe(p)

Next ==
    \/ \E t \in Token : Approver(t) \/ Prune(t)
    \/ \E r \in Room : Switch(r) \/ Load(r)
    \/ \E k \in Knock : Asking(k)
    \/ Render \/ OpenLobby \/ CloseLobby \/ Retry \/ Tick
    \/ \E u \in unwraps : Adopt(u) \/ Admit(u)
    \/ \E p \in pings : Presence(p) \/ Answered(p) \/ Lose(p)

Spec == Init /\ [][Next]_vars
-----------------------------------------------------------------------------
(* The relay, the page and what lies between them are well typed, and a     *)
(* knock is repeated at most MaxTry times in one stay in the lobby.         *)
TypeOK ==
    /\ row \in [Token -> {"none", "pending", "active", "gone"}]
    /\ answers \in [Token -> Knock \cup {None}]
    /\ due \in [Knock -> Nat] /\ wrapping \subseteq Token
    /\ roomOf \in [Knock -> Room \cup {None}]
    /\ want \in Page /\ live \in Page
    /\ stored \in [Room -> Token \cup {None}]
    /\ eph \in Knock \cup {None} /\ tag \in Token \cup {None}
    /\ posting \subseteq Knock /\ sent \in BOOLEAN /\ tries \in 0 .. MaxTry
    /\ jwt \in Room \cup {None} /\ lobby \in BOOLEAN
    /\ unwraps \subseteq [token : Token, room : Room, at : {"unwrap", "hash"}]
    /\ pings \subseteq Ping
    /\ error \in BOOLEAN /\ lost \in Nat /\ enters \in Nat /\ crossed \in BOOLEAN

(* A page that shows itself in a room has a seat there, or still has the    *)
(* tag that will claim it or tell that it is lost, or has not heard yet of  *)
(* the token it was opened with, or shows an error: whatever pings are      *)
(* lost, repeated or aborted, the tag is never spent before its claim is    *)
(* confirmed.  (Unless two tokens were unwrapped at once, or a room was     *)
(* left while one was: then the page may stay in with a dead token.)        *)
NoZombie ==
    live.state = "in" /\ want = live /\ ~crossed =>
        /\ live.token \in Token
        /\ \/ row[live.token] = "active" \/ tag = live.token
           \/ OfInit # {} \/ error

(* A phone never has two seats in a room: neither retries, nor several      *)
(* approvers, nor a reload between the token and its claim, nor a lost      *)
(* answer makes it join twice.  (Under the same condition.)                 *)
OneSeat ==
    ~crossed =>
        \A r \in Room :
            Cardinality({t \in Token : row[t] = "active" /\ RoomOfToken(t) = r}) <= 1

(* Nothing is lost without cause.  What the phone knows of a room is wiped  *)
(* only if the token it has stored is gone (RoomController.tsx:1445,        *)
(* "Either way the session is unrecoverable").  A token is never burned     *)
(* while the page holds its tag, not even by a ping that was aborted and is *)
(* served late: only the tagless ping of a page that was opened again       *)
(* before the claim burns.  (Under the same condition.)                     *)
LostForCause ==
    [][~crossed =>
        /\ want'.state = "destroyed" /\ want.state # "destroyed" =>
              stored[want.room] \in Token /\ row[stored[want.room]] = "gone"
        /\ \A p \in pings :
              Presence(p) /\ row[p.token] = "pending" /\ row'[p.token] = "gone" =>
                  tag # p.token]_vars
=============================================================================
