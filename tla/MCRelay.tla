------------------------------ MODULE MCRelay -------------------------------
(* Three parts of the relay side by side: a behaviour is one of the         *)
(* catch-up store, of push, or of the rate limiter.                         *)
EXTENDS Outbox, TLC

CONSTANTS
    Room, Quiet, Request, Client, None,
    MaxMark, MaxEndpoint, MaxLost, MaxFlight,   \* bounds of Push
    Limit, Window, Keep, MaxTick                \* parameters of RateLimit

VARIABLES
    which,      \* the part
    clock, row, member, endpoint, flag, at, visible, status, toggle, net, lost, shown, loose,
    tick, counter, pruned, bucket, step, client, key, start, setbacks

push == <<clock, row, member, endpoint, flag, at, visible, status, toggle, net, lost, shown,
          loose>>
rate == <<tick, counter, pruned, bucket, step, client, key, start, setbacks>>
all == <<which, vars, push, rate>>

P == INSTANCE Push WITH MaxTime <- MaxMark, now <- clock
L == INSTANCE RateLimit WITH MaxTime <- MaxTick, now <- tick, file <- counter, pc <- step

ASSUME PushAssumption == P!NoneAssumption /\ P!BoundsAssumption
ASSUME RateAssumption == L!LimitAssumption /\ L!NoneAssumption

RelayInit ==
    /\ which \in {"store", "push", "rate"}
    /\ Init /\ P!Init /\ L!Init
    /\ which = "store" \/ room = "absent"

(* To keep the instance small, in the quiet room the phone does nothing but *)
(* look: nothing is switched on there, sent from it or asked of the relay.  *)
(* And a rotation of the endpoint, a lost request and the requests under    *)
(* way are together at most two.                                            *)
Restful ==
    /\ Quiet \subseteq member'
    /\ \A q \in net' : q.room \notin Quiet
    /\ (endpoint' - 1) + lost' + Cardinality(net') <= 2

RelayNext ==
    /\ UNCHANGED which
    /\ \/ which = "store" /\ Next /\ UNCHANGED <<push, rate>>
       \/ which = "push" /\ P!Next /\ Restful /\ UNCHANGED <<vars, rate>>
       \/ which = "rate" /\ L!Next /\ UNCHANGED <<vars, push>>

(* Outbox's fairness, of its own steps. *)
RelaySpec ==
    /\ RelayInit /\ [][RelayNext]_all
    /\ \A r \in Req : WF_all(which = "store" /\ Step(r) /\ UNCHANGED <<which, push, rate>>)

(* A push is held back only for a phone that looks at the room or has just  *)
(* done so, and the relay keeps an endpoint only of a phone that subscribed *)
(* it and has not been told that it was dropped.                            *)
PushesForCause == P!SuppressedForCause /\ P!RowForCause

(* Of an address, a window lets no more requests that share the file's      *)
(* secret through than the limit, and that many again for each late request *)
(* that set the counter back over it.                                       *)
LimitHolds == L!LimitHolds
=============================================================================
