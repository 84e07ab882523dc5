------------------------------ MODULE MCPhone -------------------------------
(* The phone, side by side: a behaviour is one of its joining of rooms, of  *)
(* what it keeps of its rooms, of the composer, of the answers to blocks,   *)
(* of the app lock, or of the window of messages it renders.                *)
EXTENDS Join, TLC

CONSTANTS
    Place, Agent, Control, Spawned, Chat,
    MaxActs,                                        \* the bound of Channels
    MaxSwitch, MaxUnanswered,                       \* the bounds of Composer
    MaxAge, MaxTime,                                \* ... of AppLock
    PageSize, Cap, InitialTail, MaxItem, MaxLength, \* ... of MessageWindow
    MaxBatch                                        \* ... of BlockResponses

VARIABLES
    which,      \* the part
    exists, member, kept, card, at, screen, ops, wiped, acts, mixed,
    in, open, draft, replyTo, queue, flight, accepted, unanswered, switches,
    now, enabled, pin, passkey, session, intent, page, visible, leaving, op, marked, away,
    rearmed,
    items, start, end, seen, held, fired, born,
    wire, replying, memory, disk

joining == <<row, answers, due, wrapping, roomOf, want, live, stored, eph, tag, posting, sent,
             tries, jwt, lobby, unwraps, pings, error, lost, enters, crossed>>
channels == <<exists, member, kept, card, at, screen, ops, wiped, acts, mixed>>
composer == <<in, open, draft, replyTo, queue, flight, accepted, unanswered, switches>>
lock == <<now, enabled, pin, passkey, session, intent, page, visible, leaving, op, marked,
          away, rearmed>>
window == <<items, start, end, seen, held, fired, born>>
blocks == <<wire, replying, memory, disk>>
all == <<which, joining, channels, composer, lock, window, blocks>>

C == INSTANCE Channels WITH crossed <- mixed
P == INSTANCE Composer WITH
    Room <- Place, Text <- Token, MaxLost <- MaxUnanswered, at <- in, lost <- unanswered
L == INSTANCE AppLock
W == INSTANCE MessageWindow
B == INSTANCE BlockResponses WITH Id <- Knock, Value <- Token, posting <- replying

ASSUME PartsAssumption ==
    /\ C!DistinctAssumption /\ C!MaxActsAssumption
    /\ P!AgentAssumption /\ P!NoneAssumption /\ P!BoundsAssumption
    /\ L!AgeAssumption /\ W!SizeAssumption /\ B!ValueAssumption

PhoneInit ==
    /\ which \in {"joining", "channels", "composer", "lock", "window", "blocks"}
    /\ Init /\ C!Init /\ P!Init /\ L!Init /\ W!Init /\ B!Init
    /\ which = "composer" \/ in = CHOOSE r \in Place : r \notin Agent

Joins(A) ==
    which = "joining" /\ A /\ UNCHANGED <<which, channels, composer, lock, window, blocks>>
Keeps(A) ==
    which = "channels" /\ A /\ UNCHANGED <<which, joining, composer, lock, window, blocks>>
Writes(A) ==
    which = "composer" /\ A /\ UNCHANGED <<which, joining, channels, lock, window, blocks>>
Locks(A) ==
    which = "lock" /\ A /\ UNCHANGED <<which, joining, channels, composer, window, blocks>>
Scrolls(A) ==
    which = "window" /\ A /\ UNCHANGED <<which, joining, channels, composer, lock, blocks>>
Replies(A) ==
    which = "blocks" /\ A /\ UNCHANGED <<which, joining, channels, composer, lock, window>>

PhoneNext ==
    \/ Joins(Next) \/ Keeps(C!Next) \/ Writes(P!Next) \/ Locks(L!Next) \/ Scrolls(W!Next)
    \/ Replies(B!Next)

PhoneSpec == PhoneInit /\ [][PhoneNext]_all

Symmetry == Permutations(Token) \cup Permutations(Knock) \cup Permutations(Room)

(* What was said of a phone's seats ends where two unwraps meet; so does a  *)
(* behaviour.                                                               *)
SeatBound == ~crossed

(* Every variable has its type, in each part.                               *)
AllTypesOK == TypeOK /\ C!TypeOK /\ P!TypeOK /\ L!TypeOK /\ W!TypeOK /\ B!TypeOK

(* A page that shows itself in a room has a seat there or the means to      *)
(* claim it, a phone has one seat in a room, and nothing is wiped or burned *)
(* without cause, but where two unwraps meet or a room is left during one.  *)
SeatIsSound == [](NoZombie /\ OneSeat) /\ LostForCause

(* What is typed once is sent once as a plain message and once in a batch,  *)
(* but for a send whose answer was lost, which may be repeated; a plain     *)
(* message points into the room it is sent to; and of what a block is       *)
(* answered the history keeps all but the secrets.                          *)
DraftsAreSound ==
    /\ P!OncePerDraft /\ P!PointerIsLocal
    /\ B!DiskIsMasked /\ B!ShownIsSaid

(* Of a room that is left nothing stays, a dead screen is that of a dead    *)
(* room, and while a room stays its name, kind and daemon do.               *)
RoomsAreKept == [](C!WipeIsComplete /\ C!DeadScreenIsDead) /\ C!IdentityLasts

(* The list is not blank, what is read stays where it is, and a reader at   *)
(* the newest message sees those that come.                                 *)
WindowStays == []W!NeverBlank /\ W!ReadingStays /\ W!NewestIsShown

(* An armed app that went to the background is locked, but for the page     *)
(* whose own fresh marker or unlock under way lets it stay open; and one    *)
(* that shows an open page has marked its session as unlocked, unless the   *)
(* lock was switched on again with an earlier PIN.                          *)
LockHolds == L!AwayIsLocked /\ L!OpenIsRemembered
=============================================================================
