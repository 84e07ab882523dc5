------------------------------- MODULE Outbox -------------------------------
(***************************************************************************)
(* The relay's offline catch-up store: server/outbox.php and the handlers  *)
(* of server/index.php that reach it, for one room hash.                   *)
(*                                                                         *)
(* Every HTTP request is a process of its own.  chat.sqlite is accessed in *)
(* autocommit, so each statement is one step and the steps of different    *)
(* requests interleave; the room's outbox file has its own write lock      *)
(* (BEGIN IMMEDIATE), which outbox_append and outbox_wipe hold.            *)
(*                                                                         *)
(* A message is its msg_id.  A row keeps what the properties tell apart:   *)
(* its id, its timestamp, whether its payload is still there, and a ghost, *)
(* `cut', the number of statements that had condemned the store (switched  *)
(* catch-up off, or deleted the room) when the writer re-read the flag.    *)
(***************************************************************************)
EXTENDS Naturals, FiniteSets

CONSTANTS
    Req,        \* the requests of a behaviour
    Msg,        \* message ids
    Ops,        \* the operations the requests may be
    Cap,        \* OUTBOX_MAX_ROWS
    Ttl,        \* OUTBOX_TTL_MS, in ticks of the model's clock
    TombTtl,    \* OUTBOX_TOMBSTONE_TTL_MS, in ticks
    MaxTime,    \* bound on the clock
    NoReq       \* nobody holds the outbox lock

AllOps == {"message", "enable", "disable", "disband", "create", "fetch"}

ASSUME OpsAssumption == Ops \subseteq AllOps
ASSUME BoundsAssumption ==
    /\ Cap \in Nat \ {0} /\ Ttl \in Nat /\ TombTtl \in Nat /\ MaxTime \in Nat
    /\ Ttl <= TombTtl
ASSUME NoReqAssumption == NoReq \notin Req

VARIABLES
    room,       \* "absent", "off" or "on": the rooms row and catch_up_enabled
    gen,        \* how often the rooms row was inserted
    rows,       \* the messages table of the outbox file
    file,       \* the outbox file exists
    lock,       \* the request inside BEGIN IMMEDIATE on it, or NoReq
    now,        \* microtime, in ticks
    pc,         \* where each request is
    job,        \* what each request asks for
    admitted,   \* gen when the request's token was checked
    seen,       \* cuts when outbox_append re-read catch_up_enabled
    flip,       \* the condemning statement this request executed, or 0
    got,        \* the rows a fetch answered with
    cuts,       \* ghost: condemning statements executed so far
    wiped       \* ghost: the condemning statements whose wipe has finished

vars == <<room, gen, rows, file, lock, now, pc, job, admitted, seen, flip,
          got, cuts, wiped>>
db == <<room, gen, cuts>>
store == <<rows, file, lock, wiped>>
mine == <<job, admitted, seen, flip, got>>

PCs == {"idle", "admit", "publish", "open", "begin", "reread", "insert",
        "flip", "exists", "wipeBegin", "wipe", "announce",
        "probe", "create", "enabled", "ageOut", "select", "touch",
        "done", "refused", "failed"}

NoJob == [op |-> "none"]

Jobs == [op: Ops \ {"message", "fetch", "create"}]
          \cup [op: Ops \cap {"message"}, msg: Msg]
          \cup [op: Ops \cap {"fetch"}, since: 0..MaxTime]
          \cup [op: Ops \cap {"create"}, catchUp: {"off", "on"}]

Row == [id: Msg, ts: Nat, live: BOOLEAN, cut: Nat]

Init ==
    /\ room \in {"absent", "off", "on"}
    /\ gen = 0
    /\ rows = {}
    /\ file = FALSE
    /\ lock = NoReq
    /\ now = 0
    /\ pc = [r \in Req |-> "idle"]
    /\ job = [r \in Req |-> NoJob]
    /\ admitted = [r \in Req |-> 0]
    /\ seen = [r \in Req |-> 0]
    /\ flip = [r \in Req |-> 0]
    /\ got = [r \in Req |-> {}]
    /\ cuts = 0
    /\ wiped = {}
-----------------------------------------------------------------------------
(* outbox_expire_and_prune: blank old payloads, delete old tombstones.      *)
Expire(S, t) ==
    {[x EXCEPT !.live = x.live /\ x.ts + Ttl >= t] :
        x \in {y \in S : y.ts + TombTtl >= t}}

(* ORDER BY ts DESC LIMIT -1 OFFSET Cap names the rows to delete: what is   *)
(* left is Cap rows, none older than a deleted one (ties fall either way).  *)
Newest(S) ==
    IF Cardinality(S) <= Cap THEN {S}
    ELSE {K \in SUBSET S : /\ Cardinality(K) = Cap
                           /\ \A x \in K, y \in S \ K : y.ts <= x.ts}

(* Mutant: INSERT OR REPLACE.                                               *)
InsertReplacing(S, x) == {y \in S : y.id # x.id} \cup {x}

(* INSERT OR IGNORE: the first row of a msg_id stays as it is.              *)
Insert(S, x) == IF \E y \in S : y.id = x.id THEN S ELSE S \cup {x}

Go(r, label) == pc' = [pc EXCEPT ![r] = label]
-----------------------------------------------------------------------------
(* A request arrives, from a client whose token is good while the room      *)
(* stands (a request with a bad token is answered 403 and changes nothing). *)
Arrive(r, j) ==
    /\ pc[r] = "idle"
    /\ job' = [job EXCEPT ![r] = j]
    /\ Go(r, IF j.op = "create" THEN "probe" ELSE "admit")
    /\ UNCHANGED <<db, store, now, admitted, seen, flip, got>>

(* room_exists and require_participant_token.                               *)
Admit(r) ==
    /\ pc[r] = "admit"
    /\ room # "absent"
    /\ Go(r, CASE job[r].op = "message" -> "publish"
               [] job[r].op = "fetch" -> "enabled"
               [] OTHER -> "flip")
    /\ admitted' = [admitted EXCEPT ![r] = gen]
    /\ UNCHANGED <<db, store, now, job, seen, flip, got>>

(* room_not_found, or the cascade took the token with the room.             *)
Refuse(r) ==
    /\ pc[r] = "admit"
    /\ room = "absent"
    /\ Go(r, "refused")
    /\ UNCHANGED <<db, store, now, mine>>

(* POST /message: publish_event first, the outbox afterwards.               *)
Publish(r) ==
    /\ pc[r] = "publish"
    /\ Go(r, "open")
    /\ UNCHANGED <<db, store, now, mine>>

(* outbox_open creates the file before any lock is taken.                   *)
Open(r) ==
    /\ pc[r] = "open"
    /\ file' = TRUE
    /\ Go(r, "begin")
    /\ UNCHANGED <<db, rows, lock, wiped, now, mine>>

(* Mutant: BEGIN DEFERRED, which takes no lock before the flag is read.     *)
BeginDeferred(r) ==
    /\ pc[r] = "begin"
    /\ Go(r, "reread")
    /\ UNCHANGED <<db, store, now, mine>>

(* outbox_append: BEGIN IMMEDIATE.                                          *)
Begin(r) ==
    /\ pc[r] = "begin"
    /\ lock = NoReq
    /\ lock' = r
    /\ Go(r, "reread")
    /\ UNCHANGED <<db, rows, file, wiped, now, mine>>

(* Mutant: the flag is not read again under the lock.                       *)
RereadNothing(r) ==
    /\ pc[r] = "reread"
    /\ seen' = [seen EXCEPT ![r] = cuts]
    /\ Go(r, "insert")
    /\ UNCHANGED <<db, store, now, job, admitted, flip, got>>

(* The re-read of catch_up_enabled under the lock; off or gone: ROLLBACK.   *)
Reread(r) ==
    /\ pc[r] = "reread"
    /\ IF room = "on"
       THEN /\ seen' = [seen EXCEPT ![r] = cuts]
            /\ Go(r, "insert")
            /\ UNCHANGED lock
       ELSE /\ lock' = NoReq
            /\ Go(r, "touch")
            /\ UNCHANGED seen
    /\ UNCHANGED <<db, rows, file, wiped, now, job, admitted, flip, got>>

(* INSERT OR IGNORE, outbox_expire_and_prune and COMMIT: one transaction.   *)
InsertCommit(r) ==
    /\ pc[r] = "insert"
    /\ rows' \in Newest(Expire(Insert(rows,
                   [id |-> job[r].msg, ts |-> now, live |-> TRUE,
                    cut |-> seen[r]]), now))
    /\ lock' = NoReq
    /\ Go(r, "touch")
    /\ UNCHANGED <<db, file, wiped, now, mine>>
-----------------------------------------------------------------------------
(* /settings: UPDATE rooms SET catch_up_enabled; no row, no effect.         *)
Enable(r) ==
    /\ pc[r] = "flip" /\ job[r].op = "enable"
    /\ room' = IF room = "absent" THEN room ELSE "on"
    /\ Go(r, "announce")
    /\ UNCHANGED <<gen, cuts, store, now, mine>>

(* Mutants: tell the clients without wiping; keep a disbanded row around.   *)
CondemnAnnounces(r) ==
    /\ pc[r] = "flip" /\ job[r].op \in {"disable", "disband"}
    /\ room' = IF job[r].op = "disable" /\ room # "absent"
               THEN "off" ELSE "absent"
    /\ cuts' = cuts + 1
    /\ flip' = [flip EXCEPT ![r] = cuts + 1]
    /\ Go(r, "announce")
    /\ UNCHANGED <<gen, store, now, job, admitted, seen, got>>
CondemnMarks(r) ==
    /\ pc[r] = "flip" /\ job[r].op \in {"disable", "disband"}
    /\ room' = IF job[r].op = "disable" THEN "off" ELSE "disbanded"
    /\ cuts' = cuts + 1
    /\ flip' = [flip EXCEPT ![r] = cuts + 1]
    /\ Go(r, "exists")
    /\ UNCHANGED <<gen, store, now, job, admitted, seen, got>>

(* /settings off, and /disband's DELETE FROM rooms: both condemn the store  *)
(* and go on to outbox_wipe.                                                *)
Condemn(r) ==
    /\ pc[r] = "flip" /\ job[r].op \in {"disable", "disband"}
    /\ room' = IF job[r].op = "disable" /\ room # "absent"
               THEN "off" ELSE "absent"
    /\ cuts' = cuts + 1
    /\ flip' = [flip EXCEPT ![r] = cuts + 1]
    /\ Go(r, "exists")
    /\ UNCHANGED <<gen, store, now, job, admitted, seen, got>>

(* outbox_wipe: no file, nothing to wipe.                                   *)
WipeExists(r) ==
    /\ pc[r] = "exists"
    /\ IF file
       THEN Go(r, "wipeBegin") /\ UNCHANGED wiped
       ELSE Go(r, "announce") /\ wiped' = wiped \cup {flip[r]}
    /\ UNCHANGED <<db, rows, file, lock, now, mine>>

WipeBegin(r) ==
    /\ pc[r] = "wipeBegin"
    /\ lock = NoReq
    /\ lock' = r
    /\ Go(r, "wipe")
    /\ UNCHANGED <<db, rows, file, wiped, now, mine>>

(* DELETE FROM messages; COMMIT.                                            *)
Wipe(r) ==
    /\ pc[r] = "wipe"
    /\ rows' = {}
    /\ lock' = NoReq
    /\ wiped' = wiped \cup {flip[r]}
    /\ Go(r, "announce")
    /\ UNCHANGED <<db, file, now, mine>>

(* publish settings (then touch) or destroy (then answer).                  *)
Announce(r) ==
    /\ pc[r] = "announce"
    /\ Go(r, IF job[r].op = "disband" THEN "done" ELSE "touch")
    /\ UNCHANGED <<db, store, now, mine>>
-----------------------------------------------------------------------------
(* POST /rooms: probe, then insert the row unless it is there.              *)
Probe(r) ==
    /\ pc[r] = "probe"
    /\ Go(r, IF room = "absent" THEN "create" ELSE "done")
    /\ UNCHANGED <<db, store, now, mine>>

(* The INSERT of a room another request created meanwhile fails on its key. *)
Create(r) ==
    /\ pc[r] = "create"
    /\ IF room = "absent"
       THEN /\ room' = job[r].catchUp
            /\ gen' = gen + 1
            /\ admitted' = [admitted EXCEPT ![r] = gen + 1]
            /\ Go(r, "touch")
       ELSE /\ Go(r, "failed")
            /\ UNCHANGED <<room, gen, admitted>>
    /\ UNCHANGED <<cuts, store, now, job, seen, flip, got>>

(* GET /outbox: the flag is read before the file is opened.                 *)
Enabled(r) ==
    /\ pc[r] = "enabled"
    /\ Go(r, IF room = "on" /\ file THEN "ageOut" ELSE "done")
    /\ UNCHANGED <<db, store, now, mine>>

(* outbox_fetch ages the file out first, in three autocommit statements     *)
(* taken as one here; each waits for a writer's lock.                       *)
AgeOut(r) ==
    /\ pc[r] = "ageOut"
    /\ lock = NoReq
    /\ rows' \in Newest(Expire(rows, now))
    /\ Go(r, "select")
    /\ UNCHANGED <<db, file, lock, wiped, now, mine>>

(* SELECT ... WHERE ts > since ORDER BY ts LIMIT 500 (the row cap).         *)
Select(r) ==
    /\ pc[r] = "select"
    /\ got' = [got EXCEPT ![r] = {x \in rows : x.ts > job[r].since}]
    /\ Go(r, "done")
    /\ UNCHANGED <<db, store, now, job, admitted, seen, flip>>

(* touch_presence, touch_room and the answer.  The presence row references  *)
(* the participant, which the room's deletion cascaded away: the insert     *)
(* then fails and the client gets an error for work that was done.          *)
Touch(r) ==
    /\ pc[r] = "touch"
    /\ Go(r, IF room # "absent" /\ admitted[r] = gen THEN "done" ELSE "failed")
    /\ UNCHANGED <<db, store, now, mine>>
-----------------------------------------------------------------------------
Running(r) == pc[r] \notin {"idle", "done", "refused", "failed"}

(* A handler dies (fatal error, killed worker): its transaction, if it has  *)
(* one, rolls back.                                                         *)
Die(r) ==
    /\ Running(r)
    /\ lock' = IF lock = r THEN NoReq ELSE lock
    /\ Go(r, "failed")
    /\ UNCHANGED <<db, rows, file, wiped, now, mine>>

(* PRAGMA busy_timeout = 5000 ran out while another held the lock.          *)
Busy(r) ==
    /\ pc[r] \in {"begin", "wipeBegin", "ageOut"}
    /\ lock # NoReq
    /\ Go(r, "failed")
    /\ UNCHANGED <<db, store, now, mine>>

Tick ==
    /\ now < MaxTime
    /\ now' = now + 1
    /\ UNCHANGED <<db, store, pc, mine>>

Append(r) == Publish(r) \/ Open(r) \/ Begin(r) \/ Reread(r) \/ InsertCommit(r)
Purge(r) == WipeExists(r) \/ WipeBegin(r) \/ Wipe(r)
Toggle(r) == Enable(r) \/ Condemn(r) \/ Announce(r)
Fetch(r) == Enabled(r) \/ AgeOut(r) \/ Select(r)
Step(r) ==
    \/ Admit(r) \/ Refuse(r) \/ Append(r) \/ Toggle(r) \/ Purge(r)
    \/ Probe(r) \/ Create(r) \/ Fetch(r) \/ Touch(r)

Next ==
    \/ \E r \in Req : (\E j \in Jobs : Arrive(r, j)) \/ Step(r) \/ Die(r) \/ Busy(r)
    \/ Tick

(* A handler that has begun keeps running until it answers or dies.         *)
Fairness == \A r \in Req : WF_vars(Step(r))

Spec == Init /\ [][Next]_vars
FairSpec == Spec /\ Fairness
-----------------------------------------------------------------------------
(* The store and the handlers are well typed: rows carry their writer's     *)
(* switch-off count, and a write lock is held by one request.               *)
TypeOK ==
    /\ room \in {"absent", "off", "on"}
    /\ gen \in Nat /\ cuts \in Nat /\ now \in Nat
    /\ rows \subseteq Row
    /\ file \in BOOLEAN
    /\ lock \in Req \cup {NoReq}
    /\ pc \in [Req -> PCs]
    /\ job \in [Req -> Jobs \cup {NoJob}]
    /\ admitted \in [Req -> Nat]
    /\ seen \in [Req -> Nat]
    /\ flip \in [Req -> Nat]
    /\ got \in [Req -> SUBSET Row]
    /\ wiped \subseteq Nat

(* Once a wipe has finished, no row that it was to remove is in the store,  *)
(* and no append that re-read the flag before it can still put one there:   *)
(* the publish-to-append window that outbox.php closes.                     *)
WipedRowsStayGone == \A x \in rows : \A k \in wiped : k <= x.cut

(* A room that is switched off or gone, and whose last switch-off has been  *)
(* wiped, has nothing stored: no orphan row outlives the operator's toggle. *)
OffMeansEmpty == room # "on" /\ cuts \in wiped => rows = {}

(* No client hears `destroy', or `settings' with catch-up off, while a row  *)
(* older than that switch is still in the file (index.php, /disband).       *)
HeardMeansWiped ==
    \A r \in Req : pc[r] = "announce" /\ flip[r] > 0 =>
        \A x \in rows : flip[r] <= x.cut

(* The file never holds more than OUTBOX_MAX_ROWS committed rows.           *)
RowsBounded == Cardinality(rows) <= Cap

(* What one step may do to the rows already there.  A row goes by a wipe,   *)
(* by old age, or because Cap rows at least as new remain; a row that stays *)
(* keeps its timestamp, and an emptied payload never comes back, even when  *)
(* the same msg_id is appended again by a retry.                            *)
Explained(x) ==
    \/ \E y \in rows' :
          y.id = x.id /\ y.ts = x.ts /\ y.cut = x.cut /\ (y.live => x.live)
    \/ x.id \notin {y.id : y \in rows'} /\
         (\/ \E r \in Req : Wipe(r)
          \/ x.ts + TombTtl < now
          \/ Cardinality({y \in rows' : y.ts >= x.ts}) >= Cap)
RowsOnlyAge == [][\A x \in rows : Explained(x)]_vars

(* Switching off or disbanding ends in a wipe unless the handler dies.      *)
WipeFollows ==
    \A r \in Req : flip[r] > 0 ~> flip[r] \in wiped \/ pc[r] = "failed"

(* The rows no statement has condemned yet, seen as the store that          *)
(* CatchUpStore describes: with them the handlers, locks and late wipes     *)
(* implement the one-step toggle.                                           *)
Toggleable == INSTANCE CatchUpStore WITH
    on <- room = "on",
    kept <- {x.id : x \in {y \in rows : y.cut = cuts}}
ImplementsToggle == Toggleable!Spec
=============================================================================
