----------------------------- MODULE RateLimit -----------------------------
(***************************************************************************)
(* The per-client limiter in front of the relay's routes                   *)
(* (server/rate_limit.php): a request takes the window of its clock, reads *)
(* or mints the secret that keys the buckets, and counts itself in one     *)
(* upsert.  Requests run side by side, each with statics of its own, and   *)
(* one that dies while it creates the secret's file leaves it empty.       *)
(***************************************************************************)
EXTENDS FiniteSets, Integers

CONSTANTS
    Request, Client,
    Limit, Window,      \* enforce_rate_limit's $limit and $window
    Keep,               \* the hour after which a window's row is pruned
    MaxTime,            \* bound on the clock
    None

LimitAssumption == {Limit, Window, Keep} \subseteq Nat \ {0} /\ Keep >= Window
Counter == [start : Nat, count : Nat \ {0}]
NoneAssumption == None \notin Request \cup Client \cup Nat /\ None \notin Counter

VARIABLES
    now,
    file,       \* .rl_secret: None, "" once created, then the secret of its maker
    pruned,     \* mtime of .rate_limit_cleanup_at
    bucket,     \* rate_limits: per secret and client, the window and its count, or None
    pc,         \* where a request is: new, stamp, secret, create, write, reread, hit, in, out
    client,     \* who sent it
    key,        \* the secret it keys its bucket with
    start,      \* the window it counts itself in
    setbacks    \* ghost: how often a late request set a client's counter back over a window

vars == <<now, file, pruned, bucket, pc, client, key, start, setbacks>>

Init ==
    /\ now = 0 /\ file = None /\ pruned = 0
    /\ bucket = [s \in Request |-> [c \in Client |-> None]]
    /\ pc = [q \in Request |-> "new"]
    /\ client = [q \in Request |-> None]
    /\ key = [q \in Request |-> None] /\ start = [q \in Request |-> None]
    /\ setbacks = [c \in Client |-> [w \in 0..MaxTime |-> 0]]

Goes(q, to) == pc' = [pc EXCEPT ![q] = to]

-----------------------------------------------------------------------------
(* rate_limit_prune_stale, at most once per unit of time. *)
Overdue(row) == row # None /\ row.start < now - Keep
Arrive(q, c) ==
    /\ pc[q] = "new" /\ Goes(q, "stamp")
    /\ client' = [client EXCEPT ![q] = c]
    /\ pruned' = now
    /\ bucket' = [s \in Request |-> [d \in Client |->
                    IF pruned < now /\ Overdue(bucket[s][d]) THEN None ELSE bucket[s][d]]]
    /\ UNCHANGED <<now, file, key, start, setbacks>>

(* rate_limit_hit reads the clock first. *)
Stamp(q) ==
    /\ pc[q] = "stamp"
    /\ start' = [start EXCEPT ![q] = now - (now % Window)]
    /\ Goes(q, "secret")
    /\ UNCHANGED <<now, file, pruned, bucket, client, key, setbacks>>

(* rate_limit_secret: exclusive creation, the bytes, and the file re-read. *)
ReadSecret(q) ==
    /\ pc[q] = "secret"
    /\ IF file \in Request THEN key' = [key EXCEPT ![q] = file] /\ Goes(q, "hit")
       ELSE UNCHANGED key /\ Goes(q, IF file = None THEN "create" ELSE "reread")
    /\ UNCHANGED <<now, file, pruned, bucket, client, start, setbacks>>

Create(q) ==
    /\ pc[q] = "create"
    /\ IF file = None THEN file' = "" /\ Goes(q, "write")
       ELSE UNCHANGED file /\ Goes(q, "reread")
    /\ UNCHANGED <<now, pruned, bucket, client, key, start, setbacks>>

WriteSecret(q) ==
    /\ pc[q] = "write"
    /\ file' = q /\ Goes(q, "reread")
    /\ UNCHANGED <<now, pruned, bucket, client, key, start, setbacks>>

Reread(q) ==
    /\ pc[q] = "reread"
    /\ key' = [key EXCEPT ![q] = IF file \in Request THEN file ELSE q]
    /\ Goes(q, "hit")
    /\ UNCHANGED <<now, file, pruned, bucket, client, start, setbacks>>

Die(q) ==
    /\ pc[q] \in {"create", "write"} /\ Goes(q, "out")
    /\ UNCHANGED <<now, file, pruned, bucket, client, key, start, setbacks>>

(* The upsert may wait for a lock and be tried again. *)
CountAlways(row, q) == 1
Count(row, q) == IF row # None /\ row.start = start[q] THEN row.count + 1 ELSE 1
Hit(q) ==
    LET row == bucket[key[q]][client[q]] IN
    /\ pc[q] = "hit"
    /\ bucket' = [bucket EXCEPT ![key[q]][client[q]] =
                    [start |-> start[q], count |-> Count(row, q)]]
    /\ Goes(q, IF Count(row, q) > Limit THEN "out" ELSE "in")
    /\ setbacks' =
         IF row # None /\ row.start > start[q]
         THEN [setbacks EXCEPT ![client[q]] =
                 [w \in 0..MaxTime |-> IF w \in start[q]..row.start THEN @[w] + 1 ELSE @[w]]]
         ELSE setbacks
    /\ UNCHANGED <<now, file, pruned, client, key, start>>

(* A handler may outlast its window, not the hour. *)
UnderWay(q) == pc[q] \in {"secret", "create", "write", "reread", "hit"}
Tick ==
    /\ now < MaxTime /\ now' = now + 1
    /\ \A q \in Request : UnderWay(q) => now < start[q] + Keep
    /\ UNCHANGED <<file, pruned, bucket, pc, client, key, start, setbacks>>

Next ==
    \/ \E q \in Request :
         \/ \E c \in Client : Arrive(q, c)
         \/ Stamp(q) \/ ReadSecret(q) \/ Create(q) \/ WriteSecret(q) \/ Reread(q)
         \/ Die(q) \/ Hit(q)
    \/ Tick

Spec == Init /\ [][Next]_vars

-----------------------------------------------------------------------------
(* The buckets, the counters and the requests are well typed.              *)
TypeOK ==
    /\ {now, pruned} \subseteq 0..MaxTime /\ file \in Request \cup {None, ""}
    /\ bucket \in [Request -> [Client -> [start : 0..MaxTime, count : 1..Cardinality(Request)]
                                         \cup {None}]]
    /\ client \in [Request -> Client \cup {None}]
    /\ key \in [Request -> Request \cup {None}]
    /\ start \in [Request -> 0..MaxTime \cup {None}]

Through(c, w) ==
    {q \in Request : pc[q] = "in" /\ client[q] = c /\ key[q] = file /\ start[q] = w}

(* Of the requests of a client that key their buckets with the file's      *)
(* secret, Limit of a window get through, and Limit more each time that a  *)
(* request which waited while a later window began counts itself: it sets  *)
(* the counter back, and the counts of the windows between are forgotten.  *)
(* A request that found the file empty and keys with a secret of its own   *)
(* is limited by nobody.                                                   *)
LimitHolds ==
    \A c \in Client, w \in 0..MaxTime :
        Cardinality(Through(c, w)) <= Limit * (1 + setbacks[c][w])

(* What the comment above enforce_rate_limit says, of the requests that    *)
(* share the file's secret: at most Limit of a window get through.         *)
AtMostLimit ==
    \A c \in Client, w \in 0..MaxTime : Cardinality(Through(c, w)) <= Limit

(* What the comment in rate_limit_secret says: every worker converges on   *)
(* the same secret.                                                        *)
OneSecret == \A p, q \in Request : None \notin {key[p], key[q]} => key[p] = key[q]
=============================================================================
