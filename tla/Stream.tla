------------------------------- MODULE Stream -------------------------------
(***************************************************************************)
(* One subscription of the daemon or of wrap to a room's topic             *)
(* (cli/src/lib/sse-client.ts): an EventSource that reconnects by itself,  *)
(* a watchdog for a connection that died without a word, and the refresh   *)
(* of a subscriber JWT the hub answers with a 401.                         *)
(*                                                                         *)
(* External: the EventSource of the eventsource package (3.x) retries a    *)
(* dropped stream or a failed connection, and closes for good on any       *)
(* status but 200; the hub accepts a JWT until it expires, the relay mints *)
(* one for a participant.                                                  *)
(***************************************************************************)
EXTENDS Naturals

CONSTANTS
    Floor,      \* JWT_REFRESH_RETRY_MS, in ticks
    MaxTime,    \* ticks after which the last refresh is long ago
    MaxFault    \* bound on network failures, expiries and silent deaths

BoundsAssumption ==
    {Floor, MaxTime, MaxFault} \subseteq Nat /\ Floor < MaxTime

VARIABLES
    es,         \* the EventSource: "connecting", "open" or "closed" (readyState 2)
    silent,     \* open here, but no byte will arrive again
    jwt,        \* currentJwt is still good
    refreshing, \* the flag of that name
    since,      \* ticks since lastRefreshAt, MaxTime at most
    closed,     \* close() was called
    net,        \* the network carries requests
    member,     \* the relay knows the participant token
    faults,     \* faults that happened
    lost        \* ghost: "jwt" once a refresh failed, "floor" once a 401 came
                \* too early for one, "status" once the hub's proxy answered an
                \* error, or "no"

world == <<net, member, faults>>
vars == <<es, silent, jwt, refreshing, since, closed, world, lost>>

(* subscribeToRoom, with a JWT that may have expired since it was stored.   *)
Init ==
    /\ es = "connecting" /\ silent = FALSE /\ jwt \in BOOLEAN
    /\ refreshing = FALSE /\ since = MaxTime /\ closed = FALSE
    /\ net = TRUE /\ member = TRUE /\ faults = 0 /\ lost = "no"
-----------------------------------------------------------------------------
Connected ==
    /\ es = "connecting" /\ net /\ jwt /\ ~closed
    /\ es' = "open" /\ silent' = FALSE
    /\ UNCHANGED <<jwt, refreshing, since, closed, world, lost>>

Fault == faults < MaxFault /\ faults' = faults + 1

MayRefresh == ~refreshing /\ ~closed /\ since >= Floor

(* onerror with a 401: the EventSource is closed; refreshJwt is called,     *)
(* unless the last call is too recent.                                      *)
Unauthorized ==
    /\ es = "connecting" /\ net /\ ~jwt /\ ~closed
    /\ es' = "closed"
    /\ IF MayRefresh THEN refreshing' = TRUE /\ since' = 0 /\ UNCHANGED lost
       ELSE lost' = "floor" /\ UNCHANGED <<refreshing, since>>
    /\ UNCHANGED <<silent, jwt, closed, world>>

(* refreshJwt returned a JWT: a new EventSource, unless close() came first. *)
(* (That the hub refuses this one too is a fault of the world.)             *)
Refreshed ==
    /\ refreshing /\ net /\ member
    /\ refreshing' = FALSE
    /\ IF closed THEN UNCHANGED <<es, silent, jwt>>
       ELSE es' = "connecting" /\ silent' = FALSE /\ jwt' \in BOOLEAN
    /\ IF closed \/ jwt' THEN UNCHANGED faults ELSE Fault
    /\ UNCHANGED <<since, closed, net, member, lost>>

(* It returned null: the network is down, or the relay refuses.             *)
RefreshFails ==
    /\ refreshing /\ ~(net /\ member)
    /\ refreshing' = FALSE /\ lost' = "jwt"
    /\ UNCHANGED <<es, silent, jwt, since, closed, world>>

(* Mutant: only a network that is down is noticed, and not one that forgot  *)
(* this connection.                                                         *)
StallOnError ==
    /\ es = "open" /\ silent /\ ~closed /\ ~net
    /\ es' = "connecting" /\ silent' = FALSE
    /\ UNCHANGED <<jwt, refreshing, since, closed, world, lost>>

(* Ninety seconds without a byte: the reader is cancelled, the body ends,   *)
(* and the EventSource reconnects.                                          *)
Stall ==
    /\ es = "open" /\ silent /\ ~closed
    /\ es' = "connecting" /\ silent' = FALSE
    /\ UNCHANGED <<jwt, refreshing, since, closed, world, lost>>

(* The caller is done with the subscription.                                *)
Close ==
    /\ ~closed
    /\ closed' = TRUE /\ es' = "closed" /\ silent' = FALSE
    /\ UNCHANGED <<jwt, refreshing, since, world, lost>>
-----------------------------------------------------------------------------
(* The stream ends with an error, for instance when the hub restarts.       *)
Drop ==
    /\ Fault /\ es = "open"
    /\ es' = "connecting" /\ silent' = FALSE
    /\ UNCHANGED <<jwt, refreshing, since, closed, net, member, lost>>

(* A NAT or a proxy forgets the connection: nothing arrives, nothing ends.  *)
Silence ==
    /\ Fault /\ es = "open"
    /\ silent' = TRUE
    /\ UNCHANGED <<es, jwt, refreshing, since, closed, net, member, lost>>

(* While the hub restarts, its proxy answers 502: nothing tries again.      *)
BadGateway ==
    /\ Fault /\ es = "connecting" /\ net
    /\ es' = "closed" /\ lost' = "status"
    /\ UNCHANGED <<silent, jwt, refreshing, since, closed, net, member>>

NetDown ==
    /\ Fault /\ net
    /\ net' = FALSE /\ silent' = (es = "open")
    /\ UNCHANGED <<es, jwt, refreshing, since, closed, member, lost>>

NetUp ==
    /\ ~net
    /\ net' = TRUE
    /\ UNCHANGED <<es, silent, jwt, refreshing, since, closed, member, faults, lost>>

(* The JWT expires, seven days after its mint and so long after the floor;  *)
(* an open stream stays open.                                               *)
Expire ==
    /\ Fault /\ jwt /\ since > Floor
    /\ jwt' = FALSE
    /\ UNCHANGED <<es, silent, refreshing, since, closed, net, member, lost>>

(* The participant's row is gone.                                           *)
Removed ==
    /\ Fault /\ member
    /\ member' = FALSE
    /\ UNCHANGED <<es, silent, jwt, refreshing, since, closed, net, lost>>

Tick ==
    /\ since < MaxTime
    /\ since' = since + 1
    /\ UNCHANGED <<es, silent, jwt, refreshing, closed, world, lost>>
-----------------------------------------------------------------------------
Stream == Connected \/ Unauthorized \/ Refreshed \/ RefreshFails \/ Stall \/ Close

World == Drop \/ BadGateway \/ Silence \/ NetDown \/ NetUp \/ Expire \/ Removed \/ Tick

Next == Stream \/ World

Spec == Init /\ [][Next]_vars

(* EventSource retries on a timer, the watchdog is one, an HTTP call ends,  *)
(* time passes and outages do too.                                          *)
Fairness ==
    /\ WF_vars(Connected) /\ WF_vars(Unauthorized)
    /\ WF_vars(Refreshed) /\ WF_vars(RefreshFails)
    /\ WF_vars(Stall) /\ WF_vars(NetUp) /\ WF_vars(Tick)

FairSpec == Spec /\ Fairness
-----------------------------------------------------------------------------
TypeOK ==
    /\ es \in {"connecting", "open", "closed"}
    /\ silent \in BOOLEAN /\ jwt \in BOOLEAN /\ refreshing \in BOOLEAN
    /\ closed \in BOOLEAN /\ net \in BOOLEAN /\ member \in BOOLEAN
    /\ lost \in {"no", "jwt", "floor", "status"}
    /\ since \in 0 .. MaxTime /\ faults \in 0 .. MaxFault

(* A subscription that listens no more has been closed by its owner, is     *)
(* fetching a JWT, or has been refused one or answered an error: an expired *)
(* JWT alone does not leave a daemon deaf.                                  *)
DeafForCause == es = "closed" => closed \/ refreshing \/ lost # "no"

(* A subscription nobody closed or refused comes back from any drop,        *)
(* outage, silent death or expiry, and stays once these stop: no order of   *)
(* them leaves it mute or waiting.                                          *)
HearsAgain == <>[](~closed /\ lost = "no") => <>[](es = "open" /\ ~silent)

(* What the comment on refreshJwt says: with it, an expired JWT heals.  A   *)
(* member whose subscription nobody closes, and to whom the hub does not    *)
(* refuse a fresh JWT, is connected again and again once the network stays  *)
(* up.                                                                      *)
SelfHeals ==
    <>[](net /\ member /\ ~closed /\ lost \in {"no", "jwt"}) => []<>(es = "open")
=============================================================================
