----------------------------- MODULE Membership -----------------------------
(***************************************************************************)
(* Who is in a room, as the relay keeps it: the rooms, participants and    *)
(* presence tables of server/db.php for one room hash, and the handlers of *)
(* server/index.php that read and write them.                              *)
(*                                                                         *)
(* Every request is a process of its own and each SQL statement commits by *)
(* itself, so a step here is one statement.  Foreign keys are on: deleting *)
(* the rooms row or a participants row deletes what refers to it, and an   *)
(* insert that refers to a missing row fails.                              *)
(*                                                                         *)
(* A token is its participants row: not minted yet, pending (minted by     *)
(* /approve and not claimed), active, or removed.  The room's traffic and  *)
(* its outbox are in Outbox; here `member' is any request a member makes.  *)
(***************************************************************************)
EXTENDS Naturals, FiniteSets

CONSTANTS
    Req,            \* the requests of a behaviour
    Token,          \* what random_token may return
    Ops,            \* the operations the requests may be
    Fresh,          \* touch_presence writes at most once per Fresh ticks
    PresenceTtl,    \* a member unseen for longer is not counted
    Wait,           \* how long a touch may take: its UPSERT waits for the write lock
    PresenceEvery,  \* presence_prune_stale deletes at most this often
    PendingTtl,     \* PENDING_PARTICIPANT_TTL
    PendingEvery,   \* pending_participant_prune_stale: at most this often
    MaxTime,        \* bound on the clock
    NoToken         \* a request that carries no token yet

AllOps == {"create", "look", "approve", "member", "presence", "leave", "disband"}

ASSUME OpsAssumption == Ops \subseteq AllOps
ASSUME ClockAssumption ==
    /\ Fresh \in Nat \ {0} /\ {PresenceTtl, Wait, PresenceEvery} \subseteq Nat
    /\ PendingTtl \in Nat /\ PendingEvery \in Nat /\ MaxTime \in Nat
ASSUME NoTokenAssumption == NoToken \notin Token

VARIABLES
    room,       \* the rooms row exists
    row,        \* each token's participants row
    joined,     \* its joined_at
    present,    \* the tokens with a presence row
    seenAt,     \* its last_seen
    presenceSwept, pendingSwept,    \* mtimes of the two marker files
    now,        \* time()
    pc,         \* where each request is
    job,        \* what each request asks for
    token,      \* the token it presents, or the one it minted
    read,       \* the pending flag /presence read
    stamp,      \* the clock that each request's touch_presence read
    known,      \* tokens some client was answered with
    owned,      \* ghost: tokens minted by a creation, or claimed with their tag
    touched     \* ghost: the clock of each token's latest touch that came to its end

rooms == <<room>>
participants == <<row, joined>>
presence == <<present, seenAt>>
sweeps == <<presenceSwept, pendingSwept>>
ghosts == <<owned, touched>>
mine == <<job, token, read, stamp>>
vars == <<rooms, participants, presence, sweeps, now, pc, mine, known, ghosts>>

Rows == {"unminted", "pending", "active", "removed"}
PCs == {"idle", "probe", "insertRoom", "mint", "admit", "admitAny", "read",
        "claim", "touch", "check", "upsert", "act", "drop", "dropPresence",
        "deleteRoom", "sweepPresence", "sweepPending", "reply", "done", "refused", "failed"}

NoJob == [op |-> "none", tag |-> "none"]
Jobs == [op: Ops \ {"presence"}, tag: {"none"}]
          \cup [op: Ops \cap {"presence"}, tag: {"right", "other"}]

HasRow(t) == row[t] \in {"pending", "active"}

Init ==
    /\ room = FALSE
    /\ row = [t \in Token |-> "unminted"]
    /\ joined = [t \in Token |-> 0]
    /\ present = {}
    /\ seenAt = [t \in Token |-> 0]
    /\ presenceSwept = 0 /\ pendingSwept = 0
    /\ now = 1
    /\ pc = [r \in Req |-> "idle"]
    /\ job = [r \in Req |-> NoJob]
    /\ token = [r \in Req |-> NoToken]
    /\ read = [r \in Req |-> "none"]
    /\ stamp = [r \in Req |-> 0]
    /\ known = {}
    /\ owned = {}
    /\ touched = [t \in Token |-> 0]

Go(r, label) == pc' = [pc EXCEPT ![r] = label]
-----------------------------------------------------------------------------
(* A request arrives.  Its token, if it has one, was answered to a client   *)
(* earlier; "right" is the claim tag that only the knocker can derive.      *)
Arrive(r, j, t) ==
    /\ pc[r] = "idle"
    /\ job' = [job EXCEPT ![r] = j]
    /\ token' = [token EXCEPT ![r] = t]
    /\ IF j.op \in {"create", "look"} THEN t = NoToken ELSE t \in known
    /\ Go(r, CASE j.op = "create" -> "probe"
               [] j.op = "look" -> "sweepPresence"
               [] j.op = "presence" -> "admitAny"
               [] OTHER -> "admit")
    /\ UNCHANGED <<rooms, participants, presence, sweeps, now, read, stamp, known, ghosts>>

(* require_participant_token: the row exists and has been claimed.  (A row  *)
(* implies its room, so room_exists only picks the error's wording.)        *)
Admitted(r) == row[token[r]] = "active"

Admit(r) ==
    /\ pc[r] = "admit" /\ Admitted(r)
    /\ Go(r, CASE job[r].op = "approve" -> "touch"
               [] job[r].op = "member" -> "act"
               [] job[r].op = "leave" -> "drop"
               [] OTHER -> "deleteRoom")
    /\ UNCHANGED <<rooms, participants, presence, sweeps, now, mine, known, ghosts>>

Refuse(r) ==
    /\ pc[r] = "admit" /\ ~Admitted(r)
    /\ Go(r, "refused")
    /\ UNCHANGED <<rooms, participants, presence, sweeps, now, mine, known, ghosts>>

(* Work done in the member's name: a publish, an outbox row, a JWT.         *)
Act(r) ==
    /\ pc[r] = "act"
    /\ Go(r, "touch")
    /\ UNCHANGED <<rooms, participants, presence, sweeps, now, mine, known, ghosts>>

(* touch_presence reads the clock first; what it writes in the end is that  *)
(* reading.                                                                 *)
ReadClock(r) ==
    /\ pc[r] = "touch"
    /\ stamp' = [stamp EXCEPT ![r] = now]
    /\ Go(r, "check")
    /\ UNCHANGED <<rooms, participants, presence, sweeps, now, job, token, read, known, ghosts>>

Touched(r) ==
    /\ touched' = [touched EXCEPT ![token[r]] = IF stamp[r] > @ THEN stamp[r] ELSE @]
    /\ stamp' = [stamp EXCEPT ![r] = 0]
    /\ Go(r, CASE job[r].op = "approve" -> "mint"
               [] job[r].op = "presence" -> "sweepPresence"
               [] OTHER -> "reply")

(* Mutant: one tick too many.                                               *)
IsFreshPlusOne(r) == token[r] \in present /\ stamp[r] <= seenAt[token[r]] + Fresh

(* PRESENCE_TOUCH_FRESHNESS: the row was written a moment ago.              *)
IsFresh(r) == token[r] \in present /\ stamp[r] < seenAt[token[r]] + Fresh

Check(r) ==
    /\ pc[r] = "check"
    /\ IF IsFresh(r) THEN Touched(r) ELSE Go(r, "upsert") /\ UNCHANGED <<touched, stamp>>
    /\ UNCHANGED <<rooms, participants, presence, sweeps, now, job, token, read, known, owned>>

(* The upsert waits for the write lock and is tried again; it overwrites    *)
(* whatever last_seen there is by then, and fails on its foreign key when   *)
(* the participant has gone since it was admitted.                          *)
Upsert(r) ==
    /\ pc[r] = "upsert"
    /\ IF HasRow(token[r])
       THEN /\ present' = present \cup {token[r]}
            /\ seenAt' = [seenAt EXCEPT ![token[r]] = stamp[r]]
            /\ Touched(r)
       ELSE Go(r, "failed") /\ UNCHANGED <<presence, touched, stamp>>
    /\ UNCHANGED <<rooms, participants, sweeps, now, job, token, read, known, owned>>
-----------------------------------------------------------------------------
(* POST /rooms: the probe, the insert (which fails if another request's     *)
(* came first), then create_participant, each committed by itself.          *)
Probe(r) ==
    /\ pc[r] = "probe"
    /\ Go(r, IF room THEN "sweepPresence" ELSE "insertRoom")
    /\ UNCHANGED <<rooms, participants, presence, sweeps, now, mine, known, ghosts>>

InsertRoom(r) ==
    /\ pc[r] = "insertRoom"
    /\ room' = TRUE
    /\ Go(r, IF room THEN "failed" ELSE "mint")
    /\ UNCHANGED <<participants, presence, sweeps, now, mine, known, ghosts>>

(* create_participant and create_pending_participant: a fresh token, whose  *)
(* row needs the room's.                                                    *)
Mint(r) ==
    /\ pc[r] = "mint"
    /\ IF room
       THEN \E t \in {u \in Token : row[u] = "unminted"} :
              /\ row' = [row EXCEPT ![t] =
                           IF job[r].op = "create" THEN "active" ELSE "pending"]
              /\ joined' = [joined EXCEPT ![t] = now]
              /\ token' = [token EXCEPT ![r] = t]
              /\ owned' = IF job[r].op = "create" THEN owned \cup {t} ELSE owned
              /\ Go(r, IF job[r].op = "create" THEN "touch" ELSE "reply")
       ELSE /\ Go(r, "failed")
            /\ UNCHANGED <<participants, token, owned>>
    /\ UNCHANGED <<rooms, presence, sweeps, now, job, read, stamp, known, touched>>

(* The answer: a minted token becomes known to its client.                  *)
Reply(r) ==
    /\ pc[r] = "reply"
    /\ known' = known \cup {token[r]}
    /\ Go(r, "done")
    /\ UNCHANGED <<rooms, participants, presence, sweeps, now, mine, ghosts>>
-----------------------------------------------------------------------------
(* POST /presence, the claim path: the token check accepts pending rows.    *)
AdmitAny(r) ==
    /\ pc[r] = "admitAny"
    /\ Go(r, IF HasRow(token[r]) THEN "read" ELSE "refused")
    /\ UNCHANGED <<rooms, participants, presence, sweeps, now, mine, known, ghosts>>

(* The second SELECT, of pending and claim_tag_hash.                        *)
ReadClaim(r) ==
    /\ pc[r] = "read"
    /\ read' = [read EXCEPT ![r] = row[token[r]]]
    /\ Go(r, CASE row[token[r]] = "pending" -> "claim"
               [] row[token[r]] = "active" -> "touch"
               [] OTHER -> "refused")
    /\ UNCHANGED <<rooms, participants, presence, sweeps, now, job, token, stamp, known, ghosts>>

(* A wrong or missing tag: delete_participant, whatever the row is by now.  *)
Burn(r) ==
    /\ pc[r] = "claim" /\ job[r].tag # "right"
    /\ row' = [row EXCEPT ![token[r]] = "removed"]
    /\ present' = present \ {token[r]}
    /\ Go(r, "refused")
    /\ UNCHANGED <<rooms, joined, seenAt, sweeps, now, mine, known, ghosts>>

(* The right tag: UPDATE ... SET pending = 0 WHERE ... AND pending = 1.     *)
Activate(r) ==
    /\ pc[r] = "claim" /\ job[r].tag = "right"
    /\ row' = IF row[token[r]] = "pending"
              THEN [row EXCEPT ![token[r]] = "active"] ELSE row
    /\ owned' = owned \cup {token[r]}
    /\ Go(r, "touch")
    /\ UNCHANGED <<rooms, joined, presence, sweeps, now, mine, known, touched>>
-----------------------------------------------------------------------------
(* Mutant: mark the row instead of deleting it.                             *)
DropMarks(r) ==
    /\ pc[r] = "drop"
    /\ row' = [row EXCEPT ![token[r]] = "left"]
    /\ present' = present \ {token[r]}
    /\ Go(r, "dropPresence")
    /\ UNCHANGED <<rooms, joined, seenAt, sweeps, now, mine, known, ghosts>>

(* POST /leave: the participants row (presence cascades), then presence.    *)
Drop(r) ==
    /\ pc[r] = "drop"
    /\ row' = [row EXCEPT ![token[r]] = "removed"]
    /\ present' = present \ {token[r]}
    /\ Go(r, "dropPresence")
    /\ UNCHANGED <<rooms, joined, seenAt, sweeps, now, mine, known, ghosts>>

DropPresence(r) ==
    /\ pc[r] = "dropPresence"
    /\ present' = present \ {token[r]}
    /\ Go(r, "done")
    /\ UNCHANGED <<rooms, participants, seenAt, sweeps, now, mine, known, ghosts>>

(* POST /disband: DELETE FROM rooms cascades to every row of the room.      *)
DeleteRoom(r) ==
    /\ pc[r] = "deleteRoom"
    /\ room' = FALSE
    /\ row' = [t \in Token |-> IF HasRow(t) THEN "removed" ELSE row[t]]
    /\ present' = {}
    /\ Go(r, "done")
    /\ UNCHANGED <<joined, seenAt, sweeps, now, mine, known, ghosts>>
-----------------------------------------------------------------------------
(* participant_count's two throttled prunes; the first to pass the marker   *)
(* moves it.  (A DELETE that waits has the cutoff of when it began, and     *)
(* deletes less.)                                                           *)
SweepPresence(r) ==
    /\ pc[r] = "sweepPresence"
    /\ IF now < presenceSwept + PresenceEvery
       THEN UNCHANGED <<presence, presenceSwept>>
       ELSE /\ presenceSwept' = now
            /\ present' = {t \in present : seenAt[t] + PresenceTtl >= now}
            /\ UNCHANGED seenAt
    /\ Go(r, "sweepPending")
    /\ UNCHANGED <<rooms, participants, pendingSwept, now, mine, known, ghosts>>

(* Mutant: prune by age alone.                                              *)
OverdueAnyRow(t) == HasRow(t) /\ joined[t] + PendingTtl < now

(* DELETE FROM participants WHERE pending = 1 AND joined_at < :cutoff       *)
Overdue(t) == row[t] = "pending" /\ joined[t] + PendingTtl < now

SweepPending(r) ==
    /\ pc[r] = "sweepPending"
    /\ IF now < pendingSwept + PendingEvery
       THEN UNCHANGED <<row, present, pendingSwept>>
       ELSE /\ pendingSwept' = now
            /\ row' = [t \in Token |-> IF Overdue(t) THEN "removed" ELSE row[t]]
            /\ present' = {t \in present : ~Overdue(t)}
    /\ Go(r, "done")
    /\ UNCHANGED <<rooms, joined, seenAt, presenceSwept, now, mine, known, ghosts>>
-----------------------------------------------------------------------------
Running(r) == pc[r] \notin {"idle", "done", "refused", "failed"}

(* A handler dies between two statements.                                   *)
Die(r) ==
    /\ Running(r)
    /\ Go(r, "failed")
    /\ UNCHANGED <<rooms, participants, presence, sweeps, now, mine, known, ghosts>>

(* A touch that began comes to its end, or fails, within Wait.              *)
Tick ==
    /\ now < MaxTime
    /\ \A r \in Req : pc[r] \in {"check", "upsert"} => now < stamp[r] + Wait
    /\ now' = now + 1
    /\ UNCHANGED <<rooms, participants, presence, sweeps, pc, mine, known, ghosts>>

Claim(r) == AdmitAny(r) \/ ReadClaim(r) \/ Burn(r) \/ Activate(r)
Sweep(r) == SweepPresence(r) \/ SweepPending(r)
Step(r) ==
    \/ Admit(r) \/ Refuse(r) \/ Act(r) \/ ReadClock(r) \/ Check(r) \/ Upsert(r)
    \/ Probe(r) \/ InsertRoom(r) \/ Mint(r) \/ Reply(r)
    \/ Claim(r) \/ Drop(r) \/ DropPresence(r) \/ DeleteRoom(r) \/ Sweep(r)

Next ==
    \/ \E r \in Req : \E j \in Jobs, t \in Token \cup {NoToken} : Arrive(r, j, t)
    \/ \E r \in Req : Step(r) \/ Die(r)
    \/ Tick

Spec == Init /\ [][Next]_vars
-----------------------------------------------------------------------------
(* The tables and the handlers are well typed: a participant row is absent, *)
(* pending or active, and a request keeps what it read.                     *)
TypeOK ==
    /\ room \in BOOLEAN
    /\ row \in [Token -> Rows] /\ joined \in [Token -> Nat]
    /\ present \subseteq Token /\ seenAt \in [Token -> Nat]
    /\ presenceSwept \in Nat /\ pendingSwept \in Nat /\ now \in Nat
    /\ pc \in [Req -> PCs]
    /\ job \in [Req -> Jobs \cup {NoJob}]
    /\ token \in [Req -> Token \cup {NoToken}]
    /\ read \in [Req -> Rows \cup {"none"}] /\ stamp \in [Req -> Nat]
    /\ known \subseteq Token /\ owned \subseteq Token
    /\ touched \in [Token -> Nat]

(* A token gives its bearer a member's powers only after the claim tag was  *)
(* shown, or if it came with the room's creation: no handler past its       *)
(* admission runs for anyone else (index.php, require_participant_token).   *)
ActsAsMember(r) ==
    \/ pc[r] \in {"act", "drop", "dropPresence", "deleteRoom"}
    \/ pc[r] \in {"touch", "check", "upsert", "mint"} /\ job[r].op \in {"approve", "member", "presence"}
OnlyOwnersAct ==
    \A r \in Req : ActsAsMember(r) => token[r] \in owned

(* Nobody is counted as present, and no token is honoured, without a room   *)
(* and a participants row: leaving or disbanding takes everything along.    *)
NoGhosts ==
    /\ \A t \in present : HasRow(t)
    /\ \A t \in Token : HasRow(t) => room

(* A token that was left, burned, collected or disbanded away is never good *)
(* again, even if a claim or a touch of it was under way.                   *)
RevokedIsRevoked ==
    [][\A t \in Token : row[t] = "removed" => row'[t] = "removed"]_vars

Leaves(t) == \E r \in Req : Drop(r) /\ token[r] = t
Disbands == \E r \in Req : DeleteRoom(r)
FailsClaim(t) ==
    \E r \in Req : Burn(r) /\ token[r] = t /\ read[r] = "pending"

(* A participants row goes for a reason: its bearer left, the room was      *)
(* disbanded, a claim with the wrong tag found it pending, or it stayed     *)
(* unclaimed past its lifetime.                                             *)
RemovedForCause ==
    [][\A t \in Token : HasRow(t) /\ row'[t] = "removed" =>
          \/ Leaves(t) \/ Disbands \/ FailsClaim(t)
          \/ row[t] = "pending" /\ joined[t] + PendingTtl < now]_vars

(* A member is counted as present for PresenceTtl after the clock reading   *)
(* of its last ping that came to its end, less what a skipped write or a    *)
(* late one may cost: a touch that finds the row fresh leaves a last_seen   *)
(* up to Fresh - 1 older, and one that waited for the lock writes its own   *)
(* reading, up to Wait old, over a newer last_seen.  (With the busy timeout *)
(* of 60 seconds for Wait, and 45 for PresenceTtl, nothing is left; a wait  *)
(* of w leaves PresenceTtl - w.)                                            *)
CountedWhilePinging ==
    \A t \in Token :
        row[t] = "active" /\ t \in owned /\ touched[t] > 0
            /\ now + Wait <= touched[t] + PresenceTtl
            /\ now + Fresh <= touched[t] + PresenceTtl + 1
        => t \in present /\ now <= seenAt[t] + PresenceTtl

(* Only a token that was claimed or created its room acts, nobody is        *)
(* counted without a row, and a member who pings is counted for as long     *)
(* after it as waits for the lock allow.                                    *)
TablesAreSound == OnlyOwnersAct /\ NoGhosts /\ CountedWhilePinging

(* A token that was removed stays removed, and none is removed without      *)
(* cause.                                                                   *)
TokensAreSound == RevokedIsRevoked /\ RemovedForCause
=============================================================================
