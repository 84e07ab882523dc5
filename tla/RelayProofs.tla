---------------------------- MODULE RelayProofs ----------------------------
(***************************************************************************)
(* Theorems about the relay: the catch-up store of Outbox, for any number  *)
(* of requests and messages, any row cap and any lifetimes; the limiter of *)
(* RateLimit, for any windows; and the rows of Push, for any rooms.        *)
(*                                                                         *)
(* The store's argument.  A row, and an append that has re-read the flag,  *)
(* carry the number of switch-offs executed before that re-read.  A        *)
(* finished wipe k held the lock after switch-off k: appends that re-read  *)
(* earlier had committed by then and lost their row, later ones carry at   *)
(* least k.                                                                *)
(***************************************************************************)
EXTENDS MCRelay, Integers, FiniteSetTheorems, TLAPS

\* An append whose re-read of the flag saw it on, c switch-offs ago.
Current(c) ==
    /\ c <= cuts
    /\ room # "on" => c < cuts
    /\ \A k \in wiped : k <= c

Appending(r) == pc[r] \in {"publish", "open", "begin", "reread", "insert"}
Creating(r) == pc[r] \in {"probe", "create"}
Purging(r) == pc[r] \in {"exists", "wipeBegin", "wipe"}
Holding(r) == pc[r] \in {"reread", "insert", "wipe"}
Opened(r) == pc[r] \in {"begin", "reread", "insert", "wipeBegin", "wipe"}

IInv ==
    /\ TypeOK
    /\ \A r \in Req : Appending(r) => job[r] \in Jobs /\ job[r].op = "message"
    /\ \A r \in Req : Creating(r) => job[r] \in Jobs /\ job[r].op = "create"
    /\ \A r \in Req : Purging(r) => flip[r] \in 1..cuts
    /\ \A r \in Req : pc[r] \in {"idle", "admit", "flip"} => flip[r] = 0
    /\ \A r \in Req : Holding(r) => lock = r
    /\ \A r \in Req : Opened(r) => file
    /\ ~file => rows = {}
    /\ wiped \subseteq 1..cuts
    /\ \A x \in rows : Current(x.cut)
    /\ \A r \in Req : pc[r] = "insert" => Current(seen[r])
    /\ \A r \in Req : pc[r] = "announce" /\ flip[r] > 0 => flip[r] \in wiped
-----------------------------------------------------------------------------
(* What ageing and the row cap leave is made of rows that were there: same  *)
(* id, timestamp and writer, and no payload that was already blank.         *)
LEMMA KeptFrom ==
    ASSUME NEW S \in SUBSET Row, NEW t \in Nat, NEW K \in Newest(Expire(S, t))
    PROVE  /\ K \subseteq Row
           /\ \A y \in K : \E x \in S : /\ y.id = x.id /\ y.ts = x.ts
                                      /\ y.cut = x.cut /\ (y.live => x.live)
<1> DEFINE E == Expire(S, t)
<1>1. K \subseteq E
  BY DEF Newest
<1>2. \A y \in E : /\ y \in Row
                   /\ \E x \in S : /\ y.id = x.id /\ y.ts = x.ts
                                   /\ y.cut = x.cut /\ (y.live => x.live)
  <2> SUFFICES ASSUME NEW y \in E
               PROVE  /\ y \in Row
                      /\ \E x \in S : /\ y.id = x.id /\ y.ts = x.ts
                                      /\ y.cut = x.cut /\ (y.live => x.live)
    OBVIOUS
  <2>1. PICK x \in S : y = [x EXCEPT !.live = x.live /\ x.ts + Ttl >= t]
    BY DEF Expire
  <2>2. x \in Row
    OBVIOUS
  <2>3. (x.live /\ x.ts + Ttl >= t) \in BOOLEAN
    OBVIOUS
  <2>4. /\ y \in Row /\ y.id = x.id /\ y.ts = x.ts /\ y.cut = x.cut
        /\ y.live = (x.live /\ x.ts + Ttl >= t)
    BY <2>1, <2>2, <2>3 DEF Row
  <2> QED
    BY <2>4
<1> QED
  BY <1>1, <1>2

(* A row inserted into a well-typed store leaves it well typed.             *)
LEMMA InsertFrom ==
    ASSUME NEW S \in SUBSET Row, NEW x \in Row
    PROVE  Insert(S, x) \subseteq Row /\ Insert(S, x) \subseteq S \cup {x}
BY DEF Insert

(* A finished wipe joins the condemning statements that are already wiped.  *)
LEMMA WipedFrom ==
    ASSUME NEW c \in Nat, NEW W \in SUBSET (1..c), NEW k \in 1..c
    PROVE  W \cup {k} \subseteq 1..c /\ W \cup {k} \subseteq Nat
OBVIOUS

(* The invariant holds when the first request arrives.                      *)
LEMMA InitIInv == Init => IInv
<1> SUFFICES ASSUME Init PROVE IInv
  OBVIOUS
<1>1. TypeOK
  BY DEF Init, TypeOK, PCs
<1>2. \A r \in Req : pc[r] = "idle" /\ flip[r] = 0
  BY DEF Init
<1> QED
  BY <1>1, <1>2 DEF Init, IInv, Appending, Creating, Purging, Holding, Opened

(* Every step of a request, and the clock, preserve the invariant.          *)
LEMMA StepIInv == IInv /\ [Next]_vars => IInv'
<1> SUFFICES ASSUME IInv, [Next]_vars PROVE IInv'
  OBVIOUS
<1> USE NoReqAssumption DEF Go, db, store, mine
<1> USE DEF IInv, TypeOK, PCs, Appending, Creating, Purging, Holding, Opened, Current
<1>1. ASSUME NEW r \in Req, NEW j \in Jobs, Arrive(r, j) PROVE IInv'
  BY <1>1 DEF Arrive
<1>2. ASSUME NEW r \in Req, Admit(r) PROVE IInv'
  <2> DEFINE next == CASE job[r].op = "message" -> "publish"
                       [] job[r].op = "fetch" -> "enabled"
                       [] OTHER -> "flip"
  <2>1. next \in PCs /\ next \in {"publish", "enabled", "flip"}
    BY DEF PCs
  <2>2. next = "publish" => job[r].op = "message" /\ job[r] \in Jobs
    BY DEF NoJob
  <2>3. pc' = [pc EXCEPT ![r] = next]
    BY <1>2 DEF Admit
  <2> HIDE DEF next
  <2> QED
    BY <1>2, <2>1, <2>2, <2>3 DEF Admit
<1>3. ASSUME NEW r \in Req, Refuse(r) PROVE IInv'
  BY <1>3 DEF Refuse
<1>4. ASSUME NEW r \in Req, Publish(r) PROVE IInv'
  BY <1>4 DEF Publish
<1>5. ASSUME NEW r \in Req, Open(r) PROVE IInv'
  BY <1>5 DEF Open
<1>6. ASSUME NEW r \in Req, Begin(r) PROVE IInv'
  BY <1>6 DEF Begin
<1>7. ASSUME NEW r \in Req, Reread(r) PROVE IInv'
  BY <1>7 DEF Reread
<1>8. ASSUME NEW r \in Req, Enable(r) PROVE IInv'
  BY <1>8 DEF Enable
<1>9. ASSUME NEW r \in Req, Condemn(r) PROVE IInv'
  <2>1. cuts' = cuts + 1 /\ flip'[r] = cuts' /\ room' # "on"
    BY <1>9 DEF Condemn
  <2>2. TypeOK'
    BY <1>9, <2>1 DEF Condemn
  <2>3. \A c \in Nat : Current(c) => Current(c)'
    BY <1>9, <2>1 DEF Condemn
  <2>4. \A x \in rows' : Current(x.cut)'
    BY <1>9, <2>3 DEF Condemn, Row
  <2>5. \A q \in Req : pc'[q] = "insert" => Current(seen[q])'
    BY <1>9, <2>3 DEF Condemn
  <2>6. wiped' \subseteq 1..cuts'
    BY <1>9, <2>1 DEF Condemn
  <2>7. \A q \in Req : Purging(q)' => flip'[q] \in 1..cuts'
    BY <1>9, <2>1 DEF Condemn
  <2> QED
    BY <1>9, <2>2, <2>4, <2>5, <2>6, <2>7 DEF Condemn
<1>10. ASSUME NEW r \in Req, Announce(r) PROVE IInv'
  BY <1>10 DEF Announce
<1>11. ASSUME NEW r \in Req, WipeExists(r) PROVE IInv'
  <2>1. CASE file
    BY <1>11, <2>1 DEF WipeExists
  <2>2. CASE ~file
    <3>1. rows' = {} /\ \A q \in Req : pc'[q] # "insert"
      BY <1>11, <2>2 DEF WipeExists
    <3>2. /\ flip[r] \in 1..cuts /\ cuts' = cuts
          /\ wiped' = wiped \cup {flip[r]}
      BY <1>11, <2>2 DEF WipeExists
    <3>3. wiped' \subseteq 1..cuts' /\ wiped' \subseteq Nat
      BY <3>2, WipedFrom
    <3>4. pc' = [pc EXCEPT ![r] = "announce"] /\ UNCHANGED <<db, mine, lock, now>>
      BY <1>11, <2>2 DEF WipeExists
    <3>5. \A q \in Req : pc'[q] = "announce" /\ flip'[q] > 0
                          => flip'[q] \in wiped'
      BY <3>2, <3>4
    <3>6. file' = file
      BY <1>11 DEF WipeExists
    <3> QED
      BY <3>1, <3>2, <3>3, <3>4, <3>5, <3>6
  <2> QED
    BY <2>1, <2>2
<1>12. ASSUME NEW r \in Req, WipeBegin(r) PROVE IInv'
  BY <1>12 DEF WipeBegin
<1>13. ASSUME NEW r \in Req, Wipe(r) PROVE IInv'
  <2>1. /\ flip[r] \in 1..cuts /\ cuts' = cuts
        /\ wiped' = wiped \cup {flip[r]}
    BY <1>13 DEF Wipe
  <2>2. wiped' \subseteq 1..cuts' /\ wiped' \subseteq Nat
    BY <2>1, WipedFrom
  <2>3. \A q \in Req : pc'[q] # "insert"
    BY <1>13 DEF Wipe
  <2>4. \A q \in Req : pc'[q] = "announce" /\ flip'[q] > 0
                        => flip'[q] \in wiped'
    BY <1>13, <2>1 DEF Wipe
  <2> QED
    BY <1>13, <2>1, <2>2, <2>3, <2>4 DEF Wipe
<1>14. ASSUME NEW r \in Req, Probe(r) PROVE IInv'
  BY <1>14 DEF Probe
<1>15. ASSUME NEW r \in Req, Create(r) PROVE IInv'
  <2>1. CASE room = "absent"
    <3>1. job[r].catchUp \in {"off", "on"}
      BY <1>15 DEF Create, Jobs
    <3> QED
      BY <1>15, <2>1, <3>1 DEF Create
  <2>2. CASE room # "absent"
    BY <1>15, <2>2 DEF Create
  <2> QED
    BY <2>1, <2>2
<1>16. ASSUME NEW r \in Req, Enabled(r) PROVE IInv'
  BY <1>16 DEF Enabled
<1>17. ASSUME NEW r \in Req, AgeOut(r) PROVE IInv'
  <2>1. rows \in SUBSET Row /\ now \in Nat /\ rows' \in Newest(Expire(rows, now))
    BY <1>17 DEF AgeOut
  <2>4. /\ rows' \subseteq Row
        /\ \A y \in rows' : \E x \in rows : /\ y.id = x.id /\ y.ts = x.ts
                                       /\ y.cut = x.cut /\ (y.live => x.live)
    BY ONLY <2>1, KeptFrom
  <2>2. rows = {} => rows' = {}
    BY <2>4
  <2>3. \A y \in rows' : Current(y.cut)
    <3> SUFFICES ASSUME NEW y \in rows' PROVE Current(y.cut)
      OBVIOUS
    <3>1. PICK x \in rows : y.cut = x.cut
      BY ONLY <2>4
    <3>2. Current(x.cut)
      OBVIOUS
    <3> QED
      BY ONLY <3>1, <3>2
  <2> QED
    BY <1>17, <2>4, <2>2, <2>3 DEF AgeOut
<1>18. ASSUME NEW r \in Req, Select(r) PROVE IInv'
  BY <1>18 DEF Select
<1>19. ASSUME NEW r \in Req, Touch(r) PROVE IInv'
  BY <1>19 DEF Touch
<1>20. ASSUME NEW r \in Req, Die(r) PROVE IInv'
  BY <1>20 DEF Die
<1>21. ASSUME NEW r \in Req, Busy(r) PROVE IInv'
  BY <1>21 DEF Busy
<1>22. CASE Tick
  BY <1>22 DEF Tick
<1>23. ASSUME NEW r \in Req, InsertCommit(r) PROVE IInv'
  <2> DEFINE new == [id |-> job[r].msg, ts |-> now, live |-> TRUE,
                     cut |-> seen[r]]
  <2>1. pc[r] = "insert" /\ job[r] \in Jobs /\ job[r].op = "message"
    BY <1>23 DEF InsertCommit
  <2>2. job[r].msg \in Msg
    BY <2>1 DEF Jobs
  <2>3. new \in Row
    BY <2>2 DEF Row
  <2> DEFINE full == Insert(rows, new)
  <2>4. full \in SUBSET Row /\ full \subseteq rows \cup {new}
    BY <2>3, InsertFrom
  <2>5. rows' \in Newest(Expire(full, now)) /\ now \in Nat
    BY <1>23 DEF InsertCommit
  <2> HIDE DEF full
  <2>6. /\ rows' \subseteq Row
        /\ \A y \in rows' : \E x \in full : /\ y.id = x.id /\ y.ts = x.ts
                                      /\ y.cut = x.cut /\ (y.live => x.live)
    BY ONLY <2>4, <2>5, KeptFrom
  <2>7. \A x \in rows \cup {new} : Current(x.cut)
    BY <2>1
  <2>8. \A y \in rows' : Current(y.cut)
    <3> SUFFICES ASSUME NEW y \in rows' PROVE Current(y.cut)
      OBVIOUS
    <3>1. PICK x \in rows \cup {new} : y.cut = x.cut
      BY ONLY <2>4, <2>6
    <3>2. Current(x.cut)
      BY <2>7
    <3> QED
      BY ONLY <3>1, <3>2
  <2> HIDE DEF new
  <2> QED
    BY <1>23, <2>1, <2>6, <2>8 DEF InsertCommit
<1>24. CASE UNCHANGED vars
  BY <1>24 DEF vars
<1> QED
  BY <1>1, <1>2, <1>3, <1>4, <1>5, <1>6, <1>7, <1>8, <1>9, <1>10, <1>11, <1>12, <1>13,
     <1>14, <1>15, <1>16, <1>17, <1>18, <1>19, <1>20, <1>21, <1>22, <1>23, <1>24
  DEF Next, Step, Append, Purge, Toggle, Fetch

(* The inductive invariant.                                                 *)
THEOREM InvariantHolds == Spec => []IInv
<1>1. Init => IInv
  BY InitIInv
<1>2. IInv /\ [Next]_vars => IInv'
  BY StepIInv
<1> QED
  BY <1>1, <1>2, PTL DEF Spec

(* The variables keep their types.                                          *)
THEOREM TypeCorrect == Spec => []TypeOK
<1>1. IInv => TypeOK
  BY DEF IInv
<1> QED
  BY <1>1, InvariantHolds, PTL

(* No row outlives a finished wipe that was to remove it, whatever appends, *)
(* switches, disbands and re-creations ran around the wipe.                 *)
THEOREM WipedRowsNeverReturn == Spec => []WipedRowsStayGone
<1>1. IInv => WipedRowsStayGone
  BY DEF IInv, WipedRowsStayGone, Current
<1> QED
  BY <1>1, InvariantHolds, PTL

(* A room that is off or gone, and wiped, stores nothing.                   *)
THEOREM OffStoresNothing == Spec => []OffMeansEmpty
<1>1. IInv => OffMeansEmpty
  <2> SUFFICES ASSUME IInv, room # "on", cuts \in wiped, NEW x \in rows
               PROVE  FALSE
    BY DEF OffMeansEmpty
  <2>1. Current(x.cut) /\ x.cut \in Nat /\ cuts \in Nat
    BY DEF IInv, TypeOK, Row
  <2> QED
    BY <2>1 DEF Current
<1> QED
  BY <1>1, InvariantHolds, PTL

(* Clients hear of a switch-off or a disband only after its rows are gone.  *)
THEOREM HeardAfterWipe == Spec => []HeardMeansWiped
<1>1. IInv => HeardMeansWiped
  BY DEF IInv, HeardMeansWiped, Current
<1> QED
  BY <1>1, InvariantHolds, PTL

(* The committed rows of a room never exceed the cap.                       *)
THEOREM StoreIsBounded == Spec => []RowsBounded
<1>1. Cardinality({}) = 0
  BY FS_EmptySet
<1>2. Init => RowsBounded
  BY <1>1, BoundsAssumption DEF Init, RowsBounded
<1>3. ASSUME RowsBounded, [Next]_vars PROVE RowsBounded'
  <2>1. ASSUME NEW S, rows' \in Newest(S) PROVE RowsBounded'
    <3>1. CASE Cardinality(S) <= Cap
      BY <2>1, <3>1 DEF Newest, RowsBounded
    <3>2. CASE ~(Cardinality(S) <= Cap)
      BY <2>1, <3>2, BoundsAssumption DEF Newest, RowsBounded
    <3> QED
      BY <3>1, <3>2
  <2>2. ASSUME NEW r \in Req, InsertCommit(r) \/ AgeOut(r) PROVE RowsBounded'
    BY <2>1, <2>2 DEF InsertCommit, AgeOut
  <2>3. ASSUME NEW r \in Req, Wipe(r) PROVE RowsBounded'
    BY <1>1, <2>3, BoundsAssumption DEF Wipe, RowsBounded
  <2>4. CASE rows' = rows
    BY <1>3, <2>4 DEF RowsBounded
  <2> QED
    BY <1>3, <2>2, <2>3, <2>4
    DEF Next, vars, db, store, mine, Arrive, Step, Admit, Refuse, Append, Publish, Open,
        Begin, Reread, Toggle, Enable, Condemn, Announce, Purge, WipeExists,
        WipeBegin, Probe, Create, Fetch, Enabled, Select, Touch, Die, Busy, Tick
<1> QED
  BY <1>2, <1>3, PTL DEF Spec
-----------------------------------------------------------------------------
(* The handlers implement the one-step toggle: a message enters the visible *)
(* store only while catch-up is on, although the flag was read earlier, and *)
(* everything visible goes at the very statement that switches it off.      *)
Visible == {x.id : x \in {y \in rows : y.cut = cuts}}

(* Every step keeps a message, loses some, switches, or stutters.           *)
LEMMA StepRefines ==
    ASSUME IInv, [Next]_vars
    PROVE  [Toggleable!Next]_<<room = "on", Visible>>
<1> USE DEF Toggleable!Next, Toggleable!Admit, Toggleable!Lose,
            Toggleable!SwitchOn, Toggleable!SwitchOff
<1>1. ASSUME NEW S \in SUBSET Row, rows' \in Newest(Expire(S, now)), cuts' = cuts
      PROVE  Visible' \subseteq {x.id : x \in {y \in S : y.cut = cuts}}
  <2>1. now \in Nat
    BY DEF IInv, TypeOK
  <2>2. \A y \in rows' : \E x \in S : y.id = x.id /\ y.cut = x.cut
    BY <1>1, <2>1, KeptFrom
  <2> QED
    BY <1>1, <2>2 DEF Visible
<1>2. ASSUME NEW r \in Req, InsertCommit(r)
      PROVE  Toggleable!Next
  <2> DEFINE new == [id |-> job[r].msg, ts |-> now, live |-> TRUE, cut |-> seen[r]]
  <2>1. /\ Current(seen[r])
        /\ seen[r] \in Nat /\ cuts \in Nat /\ now \in Nat
        /\ rows \subseteq Row /\ job[r].msg \in Msg
        /\ room' = room /\ cuts' = cuts
    BY <1>2 DEF InsertCommit, IInv, TypeOK, Appending, Jobs, db
  <2>2. new \in Row /\ new.id = job[r].msg /\ new.cut = seen[r]
    BY <2>1 DEF Row
  <2>3. rows' \in Newest(Expire(Insert(rows, new), now))
    BY <1>2 DEF InsertCommit
  <2> HIDE DEF new
  <2>4. Insert(rows, new) \subseteq Row /\ Insert(rows, new) \subseteq rows \cup {new}
    BY <2>1, <2>2, InsertFrom
  <2>5. Visible' \subseteq {x.id : x \in {y \in Insert(rows, new) : y.cut = cuts}}
    BY <1>1, <2>1, <2>3, <2>4
  <2>6. CASE room = "on"
    <3>1. Visible' \subseteq Visible \cup {job[r].msg}
      BY <2>2, <2>4, <2>5 DEF Visible
    <3> QED
      BY <2>1, <2>6, <3>1 DEF Visible
  <2>7. CASE room # "on"
    <3>1. new.cut # cuts
      BY <2>1, <2>2, <2>7 DEF Current
    <3>2. Visible' \subseteq Visible
      BY <2>4, <2>5, <3>1 DEF Visible
    <3> QED
      BY <2>1, <3>2 DEF Visible
  <2> QED
    BY <2>6, <2>7
<1>3. ASSUME NEW r \in Req, AgeOut(r)
      PROVE  Toggleable!Next
  <2>1. /\ rows \subseteq Row /\ rows' \in Newest(Expire(rows, now))
        /\ room' = room /\ cuts' = cuts
    BY <1>3 DEF AgeOut, IInv, TypeOK, db
  <2>2. Visible' \subseteq Visible
    BY <1>1, <2>1 DEF Visible
  <2> QED
    BY <2>1, <2>2 DEF Visible
<1>4. ASSUME NEW r \in Req, Wipe(r)
      PROVE  Toggleable!Next
  <2>1. rows' = {} /\ room' = room
    BY <1>4 DEF Wipe, db
  <2>2. Visible' = {}
    BY <2>1 DEF Visible
  <2> QED
    BY <2>1, <2>2 DEF Visible
<1>5. ASSUME NEW r \in Req, Condemn(r)
      PROVE  Toggleable!Next
  <2>1. room' # "on" /\ cuts' = cuts + 1 /\ rows' = rows
    BY <1>5 DEF Condemn, store
  <2>2. \A x \in rows : x.cut # cuts + 1
    <3> SUFFICES ASSUME NEW x \in rows PROVE x.cut # cuts + 1
      OBVIOUS
    <3>1. x.cut \in Nat /\ cuts \in Nat /\ x.cut <= cuts
      BY DEF IInv, TypeOK, Row, Current
    <3> QED
      BY <3>1
  <2>3. Visible' = {}
    BY <2>1, <2>2 DEF Visible
  <2> QED
    BY <2>1, <2>3 DEF Visible
<1>6. ASSUME NEW r \in Req, Enable(r) \/ Create(r)
      PROVE  [Toggleable!Next]_<<room = "on", Visible>>
  <2>1. rows' = rows /\ cuts' = cuts
    BY <1>6 DEF Enable, Create, store
  <2>2. Visible' = Visible
    BY <2>1 DEF Visible
  <2>3. room' = "on" \/ (room' = "on") = (room = "on")
    BY <1>6 DEF Enable, Create
  <2> QED
    BY <2>2, <2>3 DEF Visible
<1>7. CASE rows' = rows /\ cuts' = cuts /\ room' = room
  BY <1>7 DEF Visible
<1> QED
  BY <1>2, <1>3, <1>4, <1>5, <1>6, <1>7
  DEF Next, vars, db, store, mine, Arrive, Step, Admit, Refuse, Append, Publish, Open,
      Begin, Reread, Toggle, Announce, Purge, WipeExists, WipeBegin,
      Probe, Fetch, Enabled, Select, Touch, Die, Busy, Tick

(* The detailed store implements the abstract one.                          *)
THEOREM StoreImplementsToggle == Spec => ImplementsToggle
<1>1. Init => Toggleable!Init
  BY DEF Init, Toggleable!Init
<1>2. IInv /\ [Next]_vars => [Toggleable!Next]_<<room = "on", Visible>>
  BY StepRefines
<1> QED
  BY <1>1, <1>2, InvariantHolds, PTL DEF Spec, ImplementsToggle, Toggleable!Spec, Visible
-----------------------------------------------------------------------------
(* Rows keep their id's first insert.                                       *)
UniqueIds == \A x, y \in rows : x.id = y.id => x = y

(* What ageing does to a row: it is blanked or it is past the tombstones'   *)
(* lifetime; of the rows beyond the cap the oldest go.                      *)
LEMMA AgedIsExplained ==
    ASSUME NEW S \in SUBSET Row, NEW t \in Nat, NEW K \in Newest(Expire(S, t)),
           NEW x \in S, \A y \in S : y.id = x.id => y = x
    PROVE  \/ \E y \in K : y.id = x.id /\ y.ts = x.ts /\ y.cut = x.cut /\ (y.live => x.live)
           \/ /\ \A y \in K : y.id # x.id
              /\ \/ x.ts + TombTtl < t
                 \/ Cardinality({y \in K : y.ts >= x.ts}) >= Cap
<1> DEFINE E == Expire(S, t)
           aged == [x EXCEPT !.live = x.live /\ x.ts + Ttl >= t]
<1>0. x \in Row /\ x.ts \in Nat /\ TombTtl \in Nat /\ Ttl \in Nat /\ Cap \in Nat
  BY BoundsAssumption DEF Row
<1>1. /\ aged.id = x.id /\ aged.ts = x.ts /\ aged.cut = x.cut /\ (aged.live => x.live)
  <2>1. (x.live /\ x.ts + Ttl >= t) \in BOOLEAN
    OBVIOUS
  <2> QED
    BY <1>0, <2>1 DEF Row
<1>2. ASSUME NEW y \in E, y.id = x.id PROVE y = aged /\ x.ts + TombTtl >= t
  <2>1. PICK z \in S : z.ts + TombTtl >= t /\ y = [z EXCEPT !.live = z.live /\ z.ts + Ttl >= t]
    BY DEF Expire
  <2>2. z.id = y.id
    BY <2>1 DEF Row
  <2>3. z = x
    BY <1>2, <2>2
  <2> QED
    BY <2>1, <2>3
<1>3. K \subseteq E
  BY DEF Newest
<1>4. CASE aged \in K
  BY <1>1, <1>4
<1>5. CASE aged \notin K
  <2>1. \A y \in K : y.id # x.id
    BY <1>2, <1>3, <1>5
  <2>2. CASE x.ts + TombTtl < t
    BY <2>1, <2>2
  <2>3. CASE ~(x.ts + TombTtl < t)
    <3>1. x.ts + TombTtl >= t
      BY ONLY <1>0, <2>3, t \in Nat
    <3>2. aged \in E
      BY <3>1 DEF Expire
    <3>3. Cardinality(K) = Cap /\ \A y \in K : aged.ts <= y.ts
      BY <1>5, <3>2 DEF Newest
    <3>4. \A y \in K : y.ts \in Nat
      BY KeptFrom DEF Row
    <3>5. \A y \in K : y.ts >= x.ts
      <4>1. \A y \in K : x.ts <= y.ts
        BY <1>1, <3>3
      <4> QED
        BY ONLY <1>0, <3>4, <4>1
    <3>6. {y \in K : y.ts >= x.ts} = K
      BY <3>5
    <3>7. Cardinality({y \in K : y.ts >= x.ts}) >= Cap
      BY <1>0, <3>3, <3>6
    <3> QED
      BY <2>1, <3>7
  <2> QED
    BY <2>2, <2>3
<1> QED
  BY <1>4, <1>5

(* Ageing keeps ids apart.                                                  *)
LEMMA AgedStaysUnique ==
    ASSUME NEW S \in SUBSET Row, NEW t \in Nat, NEW K \in Newest(Expire(S, t)),
           \A x, y \in S : x.id = y.id => x = y
    PROVE  \A x, y \in K : x.id = y.id => x = y
<1> SUFFICES ASSUME NEW x \in K, NEW y \in K, x.id = y.id PROVE x = y
  OBVIOUS
<1>1. x \in Expire(S, t) /\ y \in Expire(S, t)
  BY DEF Newest
<1>2. PICK u \in S : x = [u EXCEPT !.live = u.live /\ u.ts + Ttl >= t]
  BY <1>1 DEF Expire
<1>3. PICK v \in S : y = [v EXCEPT !.live = v.live /\ v.ts + Ttl >= t]
  BY <1>1 DEF Expire
<1>4. u.id = x.id /\ v.id = y.id
  BY <1>2, <1>3 DEF Row
<1>5. u = v
  BY <1>4
<1> QED
  BY <1>2, <1>3, <1>5

(* The steps that touch the rows.                                           *)
LEMMA RowsMove ==
    ASSUME [Next]_vars
    PROVE  \/ \E r \in Req : InsertCommit(r) \/ AgeOut(r) \/ Wipe(r)
           \/ rows' = rows
BY DEF Next, vars, db, store, mine, Arrive, Step, Admit, Refuse, Append, Publish, Open,
       Begin, Reread, Toggle, Enable, Condemn, Announce, Purge, WipeExists,
       WipeBegin, Probe, Create, Fetch, Enabled, Select, Touch, Die, Busy, Tick

(* The row an append inserts is well typed.                                 *)
LEMMA InsertsRow ==
    ASSUME IInv, NEW r \in Req, InsertCommit(r)
    PROVE  \E new \in Row : rows' \in Newest(Expire(Insert(rows, new), now))
<1> DEFINE new == [id |-> job[r].msg, ts |-> now, live |-> TRUE, cut |-> seen[r]]
<1>1. /\ seen[r] \in Nat /\ now \in Nat /\ job[r].msg \in Msg
  BY DEF InsertCommit, IInv, TypeOK, Appending, Jobs
<1>2. new \in Row
  BY <1>1 DEF Row
<1>3. rows' \in Newest(Expire(Insert(rows, new), now))
  BY DEF InsertCommit
<1> QED
  BY <1>2, <1>3

LEMMA UniqueKept == IInv /\ UniqueIds /\ [Next]_vars => UniqueIds'
<1> SUFFICES ASSUME IInv, UniqueIds, [Next]_vars PROVE UniqueIds'
  OBVIOUS
<1>0. rows \in SUBSET Row /\ now \in Nat
  BY DEF IInv, TypeOK
<1>1. ASSUME NEW r \in Req, InsertCommit(r) PROVE UniqueIds'
  <2>1. PICK new \in Row : rows' \in Newest(Expire(Insert(rows, new), now))
    BY <1>1, InsertsRow
  <2>2. Insert(rows, new) \in SUBSET Row
    BY <1>0, InsertFrom
  <2>3. \A x, y \in Insert(rows, new) : x.id = y.id => x = y
    BY DEF Insert, UniqueIds
  <2> QED
    BY <1>0, <2>1, <2>2, <2>3, AgedStaysUnique DEF UniqueIds
<1>2. ASSUME NEW r \in Req, AgeOut(r) PROVE UniqueIds'
  BY <1>0, <1>2, AgedStaysUnique DEF AgeOut, UniqueIds
<1>3. ASSUME NEW r \in Req, Wipe(r) PROVE UniqueIds'
  BY <1>3 DEF Wipe, UniqueIds
<1>4. CASE rows' = rows
  BY <1>4 DEF UniqueIds
<1> QED
  BY <1>1, <1>2, <1>3, <1>4, RowsMove

(* A stored row is only ever blanked or removed, and removed only by a      *)
(* wipe, by age or by the cap, its id never taken by another payload.       *)
THEOREM RowsAge == Spec => RowsOnlyAge
<1>1. Init => UniqueIds
  BY DEF Init, UniqueIds
<1>2. ASSUME IInv, UniqueIds, [Next]_vars PROVE [\A x \in rows : Explained(x)]_vars
  <2> SUFFICES ASSUME NEW x \in rows, Next PROVE Explained(x)
    BY <1>2
  <2>0. rows \in SUBSET Row /\ now \in Nat
    BY <1>2 DEF IInv, TypeOK
  <2>1. ASSUME NEW S \in SUBSET Row, rows \subseteq S, rows' \in Newest(Expire(S, now)),
               \A y \in S : y.id = x.id => y = x
        PROVE  Explained(x)
    BY <2>0, <2>1, AgedIsExplained DEF Explained
  <2>2. ASSUME NEW r \in Req, InsertCommit(r) PROVE Explained(x)
    <3>1. PICK new \in Row : rows' \in Newest(Expire(Insert(rows, new), now))
      BY <1>2, <2>2, InsertsRow
    <3>2. Insert(rows, new) \in SUBSET Row /\ rows \subseteq Insert(rows, new)
      BY <2>0, InsertFrom DEF Insert
    <3>3. \A y \in Insert(rows, new) : y.id = x.id => y = x
      BY <1>2 DEF Insert, UniqueIds
    <3> QED
      BY <2>1, <3>1, <3>2, <3>3
  <2>3. ASSUME NEW r \in Req, AgeOut(r) PROVE Explained(x)
    BY <1>2, <2>0, <2>1, <2>3 DEF AgeOut, UniqueIds
  <2>4. ASSUME NEW r \in Req, Wipe(r) PROVE Explained(x)
    BY <2>4 DEF Explained, Wipe
  <2>5. CASE rows' = rows
    BY <2>5 DEF Explained
  <2> QED
    BY <1>2, <2>2, <2>3, <2>4, <2>5, RowsMove
<1> QED
  BY <1>1, <1>2, UniqueKept, InvariantHolds, PTL DEF Spec, RowsOnlyAge
-----------------------------------------------------------------------------
(* The limiter.  Each time a late request sets the row back over a window,  *)
(* the window has Limit requests more to let in.  Beyond those, the row of  *)
(* the window has counted whoever got in; a row of an earlier window knows  *)
(* of nobody, as does a row that was pruned while a request of the window   *)
(* may still be counted; and a row of a later window has seen Limit at      *)
(* most.                                                                    *)
InWindow(s, c, w) ==
    {q \in Request : step[q] = "in" /\ client[q] = c /\ key[q] = s /\ start[q] = w}

RateType ==
    /\ tick \in Nat
    /\ bucket \in [Request -> [Client -> L!Counter \cup {None}]]
    /\ client \in [Request -> Client \cup {None}]
    /\ key \in [Request -> Request \cup {None}]
    /\ start \in [Request -> Nat \cup {None}]
    /\ step \in [Request -> {"new", "stamp", "secret", "create", "write", "reread", "hit", "in",
                             "out"}]
    /\ counter \in Request \cup {None, ""}
    /\ setbacks \in [Client -> [0..MaxTick -> Nat]]

(* A request that has its window will be counted before the row is pruned.  *)
Timely ==
    \A q \in Request :
        /\ step[q] # "new" => client[q] \in Client
        /\ step[q] \in {"hit", "in"} => key[q] \in Request
        /\ L!UnderWay(q) \/ step[q] = "in" => start[q] # None
        /\ start[q] # None => start[q] <= tick
        /\ L!UnderWay(q) => tick <= start[q] + Keep

Windows == 0..MaxTick

(* Of one row and one window, whose late requests allow n more: what the    *)
(* counter knows of the requests that are in.                               *)
Counts(r, In, w, t, n) ==
    /\ IsFiniteSet(In) /\ Cardinality(In) <= n + Limit
    /\ r # None /\ r.start = w => Cardinality(In) <= n + r.count
    /\ r # None /\ r.start < w => Cardinality(In) <= n
    /\ r = None /\ t <= w + Keep => Cardinality(In) <= n

More(c, w) == Limit * setbacks[c][w]

RowsCount ==
    \A s \in Request, c \in Client, w \in Windows :
        Counts(bucket[s][c], InWindow(s, c, w), w, tick, More(c, w))

RateInv == RateType /\ Timely /\ RowsCount

(* The parts of the limiter's next-state relation.                          *)
LEMMA RateSteps ==
    ASSUME L!Next
    PROVE  \/ \E q \in Request : \/ \E c \in Client : L!Arrive(q, c)
                                 \/ L!ReadSecret(q) \/ L!Create(q) \/ L!WriteSecret(q)
                                 \/ L!Reread(q) \/ L!Die(q) \/ L!Stamp(q) \/ L!Hit(q)
           \/ L!Tick
BY DEF L!Next

(* The start of a window is at most a window before its clock.              *)
LEMMA Remainder ==
    ASSUME NEW t \in Nat, NEW w \in Nat \ {0}
    PROVE  t - (t % w) \in Nat /\ t - (t % w) <= t /\ t < (t - (t % w)) + w
OBVIOUS

LEMMA SetbacksAreNat ==
    ASSUME RateType, NEW c \in Client, NEW w \in Windows PROVE setbacks[c][w] \in Nat
<1>1. setbacks \in [Client -> [0..MaxTick -> Nat]] /\ w \in 0..MaxTick
  BY DEF RateType, Windows
<1>2. setbacks[c] \in [0..MaxTick -> Nat]
  BY ONLY <1>1
<1> QED
  BY ONLY <1>1, <1>2

(* What late requests allow is a number, and one more late request allows   *)
(* Limit more.                                                              *)
LEMMA MoreIsNat ==
    ASSUME RateType, NEW c \in Client, NEW w \in Windows PROVE More(c, w) \in Nat
<1>1. setbacks[c][w] \in Nat /\ Limit \in Nat
  BY SetbacksAreNat, RateAssumption DEF L!LimitAssumption
<1> QED
  BY ONLY <1>1 DEF More

LEMMA OneMore ==
    ASSUME NEW n \in Nat, NEW l \in Nat
    PROVE  l * n \in Nat /\ l * (n + 1) = l * n + l /\ l * (1 + n) = l * n + l
OBVIOUS

LEMMA RateBegins == L!Init => RateInv
<1> SUFFICES ASSUME L!Init PROVE RateInv
  OBVIOUS
<1>1. RateType
  BY RateAssumption DEF L!Init, RateType
<1>2. Timely
  BY DEF L!Init, Timely, L!UnderWay
<1>3. \A s \in Request, c \in Client, w \in Windows : InWindow(s, c, w) = {}
  BY DEF L!Init, InWindow
<1>4. \A s \in Request, c \in Client : bucket[s][c] = None
  BY DEF L!Init
<1>5. RowsCount
  <2>1. IsFiniteSet({}) /\ Cardinality({}) = 0 /\ Limit \in Nat
    BY FS_EmptySet, RateAssumption DEF L!LimitAssumption
  <2>2. \A c \in Client, w \in Windows : More(c, w) \in Nat
    BY <1>1, MoreIsNat
  <2> QED
    BY <1>3, <1>4, <2>1, <2>2 DEF RowsCount, Counts
<1> QED
  BY <1>1, <1>2, <1>5 DEF RateInv

LEMMA RateTypeKept == RateInv /\ L!Next => RateType'
<1> SUFFICES ASSUME RateInv, L!Next PROVE RateType'
  OBVIOUS
<1> USE DEF RateInv, RateType, L!Goes
<1>1. ASSUME NEW q \in Request, NEW c \in Client, L!Arrive(q, c) PROVE RateType'
  BY <1>1 DEF L!Arrive
<1>2. ASSUME NEW q \in Request, L!ReadSecret(q) PROVE RateType'
  <2>1. CASE counter \in Request
    BY <1>2, <2>1 DEF L!ReadSecret
  <2>2. CASE counter \notin Request
    BY <1>2, <2>2 DEF L!ReadSecret
  <2> QED
    BY <2>1, <2>2
<1>3. ASSUME NEW q \in Request, L!Create(q) PROVE RateType'
  BY <1>3 DEF L!Create
<1>4. ASSUME NEW q \in Request, L!WriteSecret(q) PROVE RateType'
  BY <1>4 DEF L!WriteSecret
<1>5. ASSUME NEW q \in Request, L!Reread(q) PROVE RateType'
  BY <1>5 DEF L!Reread
<1>6. ASSUME NEW q \in Request, L!Die(q) PROVE RateType'
  BY <1>6 DEF L!Die
<1>7. ASSUME NEW q \in Request, L!Stamp(q) PROVE RateType'
  <2>1. tick \in Nat /\ Window \in Nat \ {0}
    BY RateAssumption DEF L!LimitAssumption
  <2>2. tick - (tick % Window) \in Nat
    BY ONLY <2>1, Remainder
  <2> QED
    BY <1>7, <2>2 DEF L!Stamp
<1>8. ASSUME NEW q \in Request, L!Hit(q) PROVE RateType'
  <2> DEFINE counted == bucket[key[q]][client[q]]
  <2>1. /\ key[q] \in Request /\ client[q] \in Client /\ start[q] \in Nat
        /\ counted \in L!Counter \cup {None}
    <3>1. step[q] = "hit"
      BY <1>8 DEF L!Hit
    <3>2. key[q] \in Request /\ client[q] \in Client /\ start[q] \in Nat
      <4>1. start[q] # None /\ start[q] \in Nat \cup {None}
        BY <3>1 DEF Timely, L!UnderWay
      <4> QED
        BY <3>1, <4>1 DEF Timely
    <3>3. counted \in L!Counter \cup {None}
      <4>1. bucket \in [Request -> [Client -> L!Counter \cup {None}]]
        OBVIOUS
      <4> QED
        BY ONLY <3>2, <4>1
    <3> QED
      BY <3>2, <3>3
  <2>2. L!Count(counted, q) \in Nat \ {0}
    <3>1. counted # None => counted.count \in Nat
      BY <2>1 DEF L!Counter
    <3> QED
      BY ONLY <3>1 DEF L!Count
  <2>3. [start |-> start[q], count |-> L!Count(counted, q)] \in L!Counter
    BY <2>1, <2>2 DEF L!Counter
  <2> HIDE DEF counted
  <2>4. bucket' \in [Request -> [Client -> L!Counter \cup {None}]]
    BY <1>8, <2>1, <2>3 DEF L!Hit, counted
  <2>5. step' \in [Request -> {"new", "stamp", "secret", "create", "write", "reread", "hit", "in",
                               "out"}]
    BY <1>8 DEF L!Hit
  <2>6. UNCHANGED <<tick, counter, client, key, start>>
    BY <1>8 DEF L!Hit
  <2>7. setbacks' \in [Client -> [0..MaxTick -> Nat]]
    <3>1. CASE setbacks' = setbacks
      BY <3>1
    <3>2. CASE setbacks' # setbacks
      <4> DEFINE over == [w \in 0..MaxTick |->
                            IF w \in start[q]..counted.start THEN setbacks[client[q]][w] + 1
                            ELSE setbacks[client[q]][w]]
      <4>1. setbacks' = [setbacks EXCEPT ![client[q]] = over]
        BY <1>8, <3>2 DEF L!Hit, counted
      <4>2. over \in [0..MaxTick -> Nat]
        <5>1. ASSUME NEW w \in 0..MaxTick PROVE setbacks[client[q]][w] \in Nat
          BY <2>1, <5>1, SetbacksAreNat DEF Windows
        <5>2. ASSUME NEW w \in 0..MaxTick
              PROVE  (IF w \in start[q]..counted.start THEN setbacks[client[q]][w] + 1
                      ELSE setbacks[client[q]][w]) \in Nat
          BY ONLY <5>1, <5>2
        <5> QED
          BY ONLY <5>2
      <4> HIDE DEF over
      <4> QED
        BY <2>1, <4>1, <4>2
    <3> QED
      BY <3>1, <3>2
  <2> QED
    BY <2>4, <2>5, <2>6, <2>7
<1>9. CASE L!Tick
  <2>1. tick' = tick + 1 /\ UNCHANGED <<counter, bucket, step, client, key, start, setbacks>>
    BY ONLY <1>9 DEF L!Tick
  <2>2. tick' \in Nat
    <3>1. tick \in Nat
      OBVIOUS
    <3> QED
      BY ONLY <2>1, <3>1
  <2> QED
    BY <2>1, <2>2
<1> QED
  BY <1>1, <1>2, <1>3, <1>4, <1>5, <1>6, <1>7, <1>8, <1>9, RateSteps

(* A step of one request keeps what is timely of the others.                *)
LEMMA TimelyKept == RateInv /\ L!Next => Timely'
<1> SUFFICES ASSUME RateInv, L!Next PROVE Timely'
  OBVIOUS
<1> USE DEF RateInv, RateType, Timely, L!Goes, L!UnderWay
<1>1. ASSUME NEW q \in Request, NEW c \in Client, L!Arrive(q, c) PROVE Timely'
  BY <1>1 DEF L!Arrive
<1>2. ASSUME NEW q \in Request, L!ReadSecret(q) PROVE Timely'
  <2>1. CASE counter \in Request
    BY <1>2, <2>1 DEF L!ReadSecret
  <2>2. CASE counter \notin Request
    BY <1>2, <2>2 DEF L!ReadSecret
  <2> QED
    BY <2>1, <2>2
<1>3. ASSUME NEW q \in Request, L!Create(q) PROVE Timely'
  BY <1>3 DEF L!Create
<1>4. ASSUME NEW q \in Request, L!WriteSecret(q) PROVE Timely'
  BY <1>4 DEF L!WriteSecret
<1>5. ASSUME NEW q \in Request, L!Reread(q) PROVE Timely'
  BY <1>5 DEF L!Reread
<1>6. ASSUME NEW q \in Request, L!Die(q) PROVE Timely'
  BY <1>6 DEF L!Die
<1>7. ASSUME NEW q \in Request, L!Stamp(q) PROVE Timely'
  <2> DEFINE w == tick - (tick % Window)
  <2>1. /\ tick \in Nat /\ Window \in Nat \ {0} /\ Keep \in Nat \ {0} /\ Keep >= Window
        /\ None \notin Nat
    BY RateAssumption DEF L!LimitAssumption, L!NoneAssumption
  <2>2. w \in Nat /\ w <= tick /\ tick < w + Window
    BY ONLY <2>1, Remainder
  <2>3. w \in Nat /\ w # None /\ w <= tick /\ tick <= w + Keep
    <3> HIDE DEF w
    <3> QED
      BY ONLY <2>1, <2>2
  <2>4. start' = [start EXCEPT ![q] = w] /\ UNCHANGED <<tick, client, key>>
    BY <1>7 DEF L!Stamp
  <2>5. step[q] = "stamp" /\ step' = [step EXCEPT ![q] = "secret"]
    BY <1>7 DEF L!Stamp
  <2> HIDE DEF w
  <2> QED
    BY <2>3, <2>4, <2>5
<1>8. ASSUME NEW q \in Request, L!Hit(q) PROVE Timely'
  <2>1. step' \in {[step EXCEPT ![q] = "out"], [step EXCEPT ![q] = "in"]}
    BY <1>8 DEF L!Hit
  <2>2. step[q] = "hit" /\ UNCHANGED <<tick, client, key, start>>
    BY <1>8 DEF L!Hit
  <2> QED
    BY <2>1, <2>2
<1>9. CASE L!Tick
  <2>1. /\ tick' = tick + 1 /\ UNCHANGED <<client, step, key, start>>
        /\ \A q \in Request : L!UnderWay(q) => tick < start[q] + Keep
    BY ONLY <1>9 DEF L!Tick
  <2>2. tick \in Nat /\ Keep \in Nat
    BY RateAssumption DEF L!LimitAssumption
  <2>3. ASSUME NEW q \in Request, start[q] # None PROVE start[q] <= tick + 1
    <3>1. start[q] \in Nat /\ start[q] <= tick
      BY <2>3
    <3> QED
      BY ONLY <2>2, <3>1
  <2>4. ASSUME NEW q \in Request, L!UnderWay(q)
        PROVE  tick + 1 <= start[q] + Keep
    <3>1. start[q] \in Nat /\ tick < start[q] + Keep
      BY <2>4, <2>1
    <3> QED
      BY ONLY <2>2, <3>1
  <2> QED
    BY <2>1, <2>3, <2>4
<1> QED
  BY <1>1, <1>2, <1>3, <1>4, <1>5, <1>6, <1>7, <1>8, <1>9, RateSteps

(* The request that counts itself, and those of its window before it.       *)
LEMMA HitCounts ==
    ASSUME RateInv, NEW q \in Request, L!Hit(q), NEW w \in Windows,
           NEW s \in Request, NEW c \in Client, s = key[q], c = client[q]
    PROVE  Counts(bucket'[s][c], InWindow(s, c, w)', w, tick', More(c, w)')
<1> DEFINE r == bucket[s][c]
           In == InWindow(s, c, w)
           new == [start |-> start[q], count |-> L!Count(r, q)]
           n == More(c, w)
           m == More(c, w)'
<1> USE DEF RateInv, RateType, Timely
<1>0. Counts(r, In, w, tick, n)
  BY DEF RowsCount
<1>1. /\ start[q] \in Nat /\ tick \in Nat /\ w \in Nat
      /\ tick <= start[q] + Keep /\ tick' = tick
      /\ Limit \in Nat \ {0} /\ Keep \in Nat
      /\ r \in L!Counter \cup {None}
  <2>1. step[q] = "hit" /\ start[q] # None /\ tick' = tick
    BY DEF L!Hit, L!UnderWay
  <2>2. start[q] \in Nat /\ tick \in Nat /\ tick <= start[q] + Keep
    BY <2>1 DEF L!UnderWay
  <2>3. Limit \in Nat \ {0} /\ Keep \in Nat
    BY RateAssumption DEF L!LimitAssumption
  <2>4. r \in L!Counter \cup {None}
    <3>1. bucket \in [Request -> [Client -> L!Counter \cup {None}]]
      OBVIOUS
    <3> QED
      BY ONLY <3>1
  <2>5. w \in Nat
    BY ONLY w \in Windows DEF Windows
  <2> QED
    BY <2>1, <2>2, <2>3, <2>4, <2>5
<1>2. r # None => r.start \in Nat /\ r.count \in Nat \ {0}
  BY <1>1 DEF L!Counter
(* A request that sets the counter back over w allows Limit more of it.     *)
<1>3. /\ n \in Nat /\ m \in Nat /\ n <= m
      /\ r # None /\ r.start > start[q] /\ w \in start[q]..r.start => m = n + Limit
  <2>1. n = Limit * setbacks[c][w] /\ m = Limit * setbacks'[c][w]
    BY DEF More
  <2>2. setbacks[c][w] \in Nat /\ Limit \in Nat
    BY <1>1, SetbacksAreNat
  <2>3. CASE r # None /\ r.start > start[q] /\ w \in start[q]..r.start
    <3>1. setbacks'[c][w] = setbacks[c][w] + 1
      BY <2>3 DEF L!Hit, Windows
    <3> HIDE DEF n, m, r
    <3> QED
      BY ONLY <2>1, <2>2, <3>1, OneMore
  <2>4. CASE ~(r # None /\ r.start > start[q] /\ w \in start[q]..r.start)
    <3>1. setbacks'[c][w] = setbacks[c][w]
      BY <2>4 DEF L!Hit, Windows
    <3>2. m = n /\ n \in Nat
      BY ONLY <2>1, <2>2, <3>1, OneMore
    <3> HIDE DEF n, m, r
    <3> QED
      BY ONLY <3>2, <2>4
  <2> QED
    BY <2>3, <2>4
<1>4. bucket'[s][c] = new
  BY DEF L!Hit
<1>5. step' = [step EXCEPT ![q] = IF L!Count(r, q) > Limit THEN "out" ELSE "in"]
      /\ UNCHANGED <<client, key, start>> /\ step[q] = "hit"
  BY DEF L!Hit, L!Goes
<1>6. /\ In' \subseteq In \cup {q} /\ q \notin In
      /\ w # start[q] => In' = In
      /\ L!Count(r, q) > Limit => In' = In
  BY <1>5 DEF InWindow
<1>7. new.start = start[q] /\ new.count = L!Count(r, q) /\ new # None
  <2>1. L!Count(r, q) \in Nat \ {0}
    BY ONLY <1>2 DEF L!Count
  <2>2. new \in L!Counter
    BY <1>1, <2>1 DEF L!Counter
  <2> QED
    BY <2>2, RateAssumption DEF L!NoneAssumption
<1>8. Counts(new, In', w, tick, m)
  <2> HIDE DEF In, new, r, n, m
  <2> DEFINE before == Cardinality(In)
  <2>0. IsFiniteSet(In) /\ before \in Nat /\ before <= n + Limit
    BY <1>0, FS_CardinalityType DEF Counts
  <2>1. CASE w > start[q]
    <3>1. before <= m
      <4>1. CASE r = None
        <5>1. before <= n
          BY ONLY <4>1, <2>1, <1>1, <1>0 DEF Counts
        <5> HIDE DEF before
        <5> QED
          BY ONLY <5>1, <2>0, <1>3
      <4>2. CASE r # None /\ r.start < w
        <5>1. before <= n
          BY ONLY <4>2, <1>0 DEF Counts
        <5> HIDE DEF before
        <5> QED
          BY ONLY <5>1, <2>0, <1>3
      <4>3. CASE r # None /\ ~(r.start < w)
        <5>1. r.start \in Nat /\ w <= r.start /\ r.start > start[q]
          BY ONLY <1>1, <1>2, <2>1, <4>3
        <5>2. w \in start[q]..r.start
          BY ONLY <1>1, <5>1, <2>1
        <5>3. m = n + Limit
          BY <1>3, <4>3, <5>1, <5>2
        <5> QED
          BY ONLY <5>3, <2>0
      <4> QED
        BY <4>1, <4>2, <4>3
    <3>2. In' = In
      BY ONLY <1>1, <1>6, <2>1
    <3>3. before <= m + Limit
      <4> HIDE DEF before
      <4> QED
        BY ONLY <3>1, <2>0, <1>1, <1>3
    <3> QED
      BY ONLY <2>0, <3>1, <3>2, <3>3, <1>1, <1>7, <2>1 DEF Counts
  <2>2. CASE w < start[q]
    <3>1. In' = In
      BY ONLY <1>1, <1>6, <2>2
    <3>2. before <= m + Limit
      <4> HIDE DEF before
      <4> QED
        BY ONLY <2>0, <1>1, <1>3
    <3> QED
      BY ONLY <2>0, <3>1, <3>2, <1>1, <1>7, <2>2 DEF Counts
  <2>3. CASE w = start[q]
    <3>2. before + 1 <= m + L!Count(r, q)
      <4>1. CASE r # None /\ r.start = start[q]
        <5>1. before <= n + r.count /\ r.count \in Nat /\ L!Count(r, q) = r.count + 1
          BY <4>1, <1>2, <1>0, <2>3 DEF Counts, L!Count
        <5> HIDE DEF before
        <5> QED
          BY ONLY <2>0, <5>1, <1>3
      <4>2. CASE ~(r # None /\ r.start = start[q])
        <5>1. L!Count(r, q) = 1
          BY <4>2 DEF L!Count
        <5>2. before <= m
          <6>1. CASE r = None \/ r.start < w
            <7>1. before <= n
              BY ONLY <6>1, <2>3, <1>1, <1>0 DEF Counts
            <7> HIDE DEF before
            <7> QED
              BY ONLY <7>1, <2>0, <1>3
          <6>2. CASE r # None /\ ~(r.start < w)
            <7>1. r.start \in Nat /\ r.start > start[q]
              BY ONLY <1>1, <1>2, <2>3, <4>2, <6>2
            <7>2. w \in start[q]..r.start
              BY ONLY <1>1, <7>1, <2>3
            <7>3. m = n + Limit
              BY <1>3, <6>2, <7>1, <7>2
            <7> QED
              BY ONLY <7>3, <2>0
          <6> QED
            BY <6>1, <6>2
        <5> HIDE DEF before
        <5> QED
          BY ONLY <5>1, <5>2, <2>0, <1>3
      <4> QED
        BY <4>1, <4>2
    <3>3. IsFiniteSet(In') /\ Cardinality(In') \in Nat
      <4>1. IsFiniteSet(In \cup {q})
        BY <2>0, FS_AddElement
      <4> QED
        BY <4>1, <1>6, FS_Subset, FS_CardinalityType
    <3>4. Cardinality(In') <= m + L!Count(r, q) /\ Cardinality(In') <= m + Limit
      <4>1. L!Count(r, q) \in Nat
        BY ONLY <1>2 DEF L!Count
      <4>2. CASE In' = In
        <5> HIDE DEF before
        <5>1. Cardinality(In') = before
          BY <4>2 DEF before
        <5> QED
          BY ONLY <5>1, <2>0, <3>2, <4>1, <1>1, <1>3
      <4>3. CASE In' # In
        <5>1. Cardinality(In \cup {q}) = before + 1 /\ IsFiniteSet(In \cup {q})
          BY <2>0, <1>6, FS_AddElement
        <5>2. Cardinality(In') <= before + 1
          BY ONLY <5>1, <1>6, FS_Subset
        <5>3. ~(L!Count(r, q) > Limit)
          BY <4>3, <1>6
        <5> HIDE DEF before
        <5> QED
          BY ONLY <5>2, <5>3, <2>0, <3>2, <3>3, <4>1, <1>1, <1>3
      <4> QED
        BY <4>2, <4>3
    <3> QED
      BY ONLY <3>3, <3>4, <1>1, <1>7, <2>3 DEF Counts
  <2> QED
    BY ONLY <2>1, <2>2, <2>3, <1>1
<1> QED
  BY <1>1, <1>4, <1>8

(* A step that counts nobody leaves who is in, so the rows still count them. *)
LEMMA StillCounts ==
    ASSUME RateInv, setbacks' = setbacks, tick' \in Nat, tick <= tick',
           \A s \in Request, c \in Client, w \in Windows :
               InWindow(s, c, w)' = InWindow(s, c, w),
           \A s \in Request, c \in Client :
               \/ bucket'[s][c] = bucket[s][c]
               \/ /\ bucket'[s][c] = None /\ bucket[s][c] # None
                  /\ bucket[s][c].start + Keep < tick'
    PROVE  RowsCount'
<1> SUFFICES ASSUME NEW s \in Request, NEW c \in Client, NEW w \in Windows
             PROVE  Counts(bucket'[s][c], InWindow(s, c, w), w, tick', More(c, w))
  BY DEF RowsCount, More
<1>1. Counts(bucket[s][c], InWindow(s, c, w), w, tick, More(c, w))
  BY DEF RateInv, RowsCount
<1>2. tick \in Nat /\ Keep \in Nat /\ w \in Nat
  <2>1. w \in Nat
    BY ONLY w \in Windows DEF Windows
  <2> QED
    BY <2>1, RateAssumption DEF RateInv, RateType, L!LimitAssumption
<1>3. CASE bucket'[s][c] = bucket[s][c]
  <2>1. tick' <= w + Keep => tick <= w + Keep
    BY ONLY <1>2, tick' \in Nat, tick <= tick'
  <2> QED
    BY ONLY <1>1, <1>3, <2>1 DEF Counts
<1>4. CASE /\ bucket'[s][c] = None /\ bucket[s][c] # None
           /\ bucket[s][c].start + Keep < tick'
  <2>1. bucket[s][c].start \in Nat
    <3>1. bucket \in [Request -> [Client -> L!Counter \cup {None}]]
      BY DEF RateInv, RateType
    <3>2. bucket[s][c] \in L!Counter
      BY ONLY <1>4, <3>1
    <3> QED
      BY ONLY <3>2 DEF L!Counter
  <2>2. tick' <= w + Keep => bucket[s][c].start < w
    BY ONLY <1>2, <1>4, <2>1, tick' \in Nat
  <2> QED
    BY ONLY <1>1, <1>4, <2>2 DEF Counts
<1> QED
  BY <1>3, <1>4

LEMMA CountsKept == RateInv /\ L!Next => RowsCount'
<1> SUFFICES ASSUME RateInv, L!Next PROVE RowsCount'
  OBVIOUS
<1>0. tick \in Nat /\ Keep \in Nat
  BY RateAssumption DEF RateInv, RateType, L!LimitAssumption
<1>1. ASSUME NEW q \in Request, NEW d \in Client, L!Arrive(q, d) PROVE RowsCount'
  <2>1. /\ step[q] = "new" /\ step' = [step EXCEPT ![q] = "stamp"]
        /\ client' = [client EXCEPT ![q] = d] /\ UNCHANGED <<tick, key, start, setbacks>>
    BY <1>1 DEF L!Arrive, L!Goes
  <2>2. \A s \in Request, c \in Client, w \in Windows : InWindow(s, c, w)' = InWindow(s, c, w)
    BY <2>1 DEF InWindow, RateInv, RateType
  <2>3. ASSUME NEW s \in Request, NEW c \in Client, bucket'[s][c] # bucket[s][c]
        PROVE  /\ bucket'[s][c] = None /\ bucket[s][c] # None
               /\ bucket[s][c].start + Keep < tick
    <3>1. /\ bucket'[s][c] = None /\ L!Overdue(bucket[s][c])
      BY <1>1, <2>3 DEF L!Arrive
    <3>2. bucket[s][c] \in L!Counter \cup {None}
      BY DEF RateInv, RateType
    <3>3. bucket[s][c] # None /\ bucket[s][c].start < tick - Keep
      BY <3>1 DEF L!Overdue
    <3>4. bucket[s][c].start \in Nat
      BY ONLY <3>2, <3>3 DEF L!Counter
    <3> QED
      BY ONLY <3>1, <3>3, <3>4, <1>0
  <2> QED
    BY <1>0, <2>1, <2>2, <2>3, StillCounts
<1>2. ASSUME NEW q \in Request, L!Hit(q) PROVE RowsCount'
  <2>1. /\ key[q] \in Request /\ client[q] \in Client
        /\ UNCHANGED <<tick, client, key, start>>
    BY <1>2 DEF L!Hit, RateInv, Timely
  <2>2. ASSUME NEW s \in Request, NEW c \in Client, NEW w \in Windows
        PROVE  Counts(bucket'[s][c], InWindow(s, c, w)', w, tick', More(c, w)')
    <3>2. Counts(bucket[s][c], InWindow(s, c, w), w, tick, More(c, w))
      BY DEF RateInv, RowsCount
    <3>3. CASE s = key[q] /\ c = client[q]
      BY <1>2, <2>2, <3>3, HitCounts
    <3>4. CASE ~(s = key[q] /\ c = client[q])
      <4>1. bucket'[s][c] = bucket[s][c]
        BY <1>2, <2>1, <3>4 DEF L!Hit, RateInv, RateType
      <4>2. InWindow(s, c, w)' = InWindow(s, c, w)
        BY <1>2, <2>1, <3>4 DEF L!Hit, L!Goes, InWindow, RateInv, RateType
      <4>3. More(c, w) \in Nat /\ More(c, w)' \in Nat /\ More(c, w) <= More(c, w)'
        <5>1. setbacks'[c][w] \in {setbacks[c][w], setbacks[c][w] + 1}
          BY <1>2, <2>1 DEF L!Hit, Windows, RateInv, RateType
        <5>2. setbacks[c][w] \in Nat /\ Limit \in Nat
          BY SetbacksAreNat, RateAssumption DEF RateInv, L!LimitAssumption
        <5> QED
          BY ONLY <5>1, <5>2, OneMore DEF More
      <4>4. Counts(bucket[s][c], InWindow(s, c, w), w, tick, More(c, w)')
        <5>1. bucket[s][c] # None => bucket[s][c].count \in Nat
          <6>1. bucket \in [Request -> [Client -> L!Counter \cup {None}]]
            BY DEF RateInv, RateType
          <6>2. bucket[s][c] \in L!Counter \cup {None}
            BY ONLY <6>1
          <6> QED
            BY ONLY <6>2 DEF L!Counter
        <5>2. Cardinality(InWindow(s, c, w)) \in Nat /\ Limit \in Nat
          BY <3>2, FS_CardinalityType, RateAssumption DEF Counts, L!LimitAssumption
        <5> QED
          BY ONLY <3>2, <4>3, <5>1, <5>2 DEF Counts
      <4> QED
        BY <2>1, <4>1, <4>2, <4>4
    <3> QED
      BY <3>3, <3>4
  <2> QED
    BY <2>2 DEF RowsCount
<1>3. ASSUME NEW q \in Request,
             L!ReadSecret(q) \/ L!Create(q) \/ L!WriteSecret(q) \/ L!Reread(q) \/ L!Die(q)
      PROVE  RowsCount'
  <2>1. /\ step[q] \in {"secret", "create", "write", "reread"}
        /\ \E to \in {"hit", "create", "reread", "write", "out"} :
              step' = [step EXCEPT ![q] = to]
        /\ \A p \in Request \ {q} : key'[p] = key[p]
        /\ UNCHANGED <<tick, client, start, setbacks, bucket>>
    BY <1>3 DEF L!ReadSecret, L!Create, L!WriteSecret, L!Reread, L!Die, L!Goes,
                RateInv, RateType
  <2>2. \A s \in Request, c \in Client, w \in Windows : InWindow(s, c, w)' = InWindow(s, c, w)
    BY <2>1 DEF InWindow, RateInv, RateType
  <2> QED
    BY <1>0, <2>1, <2>2, StillCounts
<1>4. ASSUME NEW q \in Request, L!Stamp(q) PROVE RowsCount'
  <2>1. /\ step[q] = "stamp" /\ \A p \in Request \ {q} : start'[p] = start[p]
        /\ step' = [step EXCEPT ![q] = "secret"]
        /\ UNCHANGED <<tick, bucket, client, key, setbacks>>
    BY <1>4 DEF L!Stamp, L!Goes, RateInv, RateType
  <2>2. \A s \in Request, c \in Client, w \in Windows : InWindow(s, c, w)' = InWindow(s, c, w)
    BY <2>1 DEF InWindow, RateInv, RateType
  <2> QED
    BY <1>0, <2>1, <2>2, StillCounts
<1>5. CASE L!Tick
  <2>1. tick' = tick + 1 /\ UNCHANGED <<bucket, step, client, key, start, setbacks>>
    BY <1>5 DEF L!Tick
  <2>2. \A s \in Request, c \in Client, w \in Windows : InWindow(s, c, w)' = InWindow(s, c, w)
    BY <2>1 DEF InWindow
  <2>3. tick' \in Nat /\ tick <= tick'
    BY ONLY <1>0, <2>1
  <2> QED
    BY <2>1, <2>2, <2>3, StillCounts
<1> QED
  BY <1>1, <1>2, <1>3, <1>4, <1>5, RateSteps

LEMMA RateKept == RateInv /\ [L!Next]_rate => RateInv'
<1>1. RateInv /\ L!Next => RateInv'
  BY RateTypeKept, TimelyKept, CountsKept DEF RateInv
<1>2. RateInv /\ UNCHANGED rate => RateInv'
  <2> SUFFICES ASSUME RateInv, UNCHANGED rate PROVE RateInv'
    OBVIOUS
  <2>1. RateType' /\ Timely'
    BY DEF RateInv, RateType, Timely, L!UnderWay, rate
  <2>2. \A s \in Request, c \in Client, w \in Windows : InWindow(s, c, w)' = InWindow(s, c, w)
    BY DEF InWindow, rate
  <2>3. tick' = tick /\ tick \in Nat /\ UNCHANGED <<bucket, setbacks>>
    BY DEF RateInv, RateType, rate
  <2>4. tick' \in Nat /\ tick <= tick'
    BY ONLY <2>3
  <2>5. RowsCount'
    BY <2>2, <2>3, <2>4, StillCounts
  <2> QED
    BY <2>1, <2>5 DEF RateInv
<1> QED
  BY <1>1, <1>2
-----------------------------------------------------------------------------
(* Push.  A mark on the way was sent by a page that showed the room no      *)
(* longer ago than the mark has been under way.                             *)
PushType ==
    /\ clock \in Nat
    /\ row \in [Room -> [P!Endpoint -> Nat \cup {None}]]
    /\ member \subseteq Room /\ loose \subseteq Room
    /\ endpoint \in P!Endpoint /\ flag \in [Room -> P!Endpoint \cup {None}]
    /\ at \in Room \cup {None} /\ status \in {"on", "off"}
    /\ toggle \in P!Toggle \cup {None}
    /\ net \subseteq P!Posts
    /\ shown \in [Room -> Nat]

LooksNow ==
    /\ at # None /\ visible => shown[at] = clock
    /\ \A r \in Room : shown[r] <= clock

MarksAreRecent ==
    \A q \in net : q.do = "mark" =>
        /\ clock <= shown[q.room] + 1
        /\ ~q.late => shown[q.room] = clock

MarkInv == LooksNow /\ MarksAreRecent /\ P!SuppressedForCause

(* A row of the live endpoint in a room whose switch is off is about to be  *)
(* taken back, or its toggle is still under way, or something was lost.     *)
OldEndsOnly ==
    /\ \A r \in Room, e \in P!Endpoint : e > endpoint => row[r][e] = None
    /\ \A q \in net : q.do # "push" => q.end \in P!Endpoint /\ q.end <= endpoint

LooseOnes ==
    /\ Room \ member \subseteq loose
    /\ toggle # None /\ toggle.got = "failed" => toggle.room \in loose

OneSubscribe ==
    /\ \A q \in net : q.do = "subscribe" /\ q.room \notin loose =>
          /\ toggle # None /\ toggle.do = "subscribe"
          /\ toggle.room = q.room /\ toggle.got = None
    /\ \A p, q \in net : /\ p.do = "subscribe" /\ q.do = "subscribe"
                         /\ p.room = q.room /\ p.room \notin loose
                         => p = q

Owed(r) ==
    \/ r \in loose
    \/ \E q \in net : q.room = r /\ q.do = "unsubscribe" /\ q.end = endpoint
    \/ toggle # None /\ toggle.do = "subscribe" /\ toggle.room = r

RowsOwed == \A r \in Room : row[r][endpoint] # None /\ flag[r] = None => Owed(r)

RowInv == OldEndsOnly /\ LooseOnes /\ OneSubscribe /\ RowsOwed

PushInv == PushType /\ MarkInv /\ RowInv

(* The parts of Push's next-state relation.                                 *)
LEMMA PushSteps ==
    ASSUME P!Next
    PROVE  \/ \E r \in Room \cup {None}, load \in BOOLEAN : P!Show(r, load)
           \/ P!HideOrShow \/ P!ToggleOn \/ P!ToggleOff \/ P!ToggleEnds \/ P!SendOwn
           \/ P!Rotate \/ P!Tick
           \/ \E r \in Room : P!NotifyOther(r) \/ \E left \in BOOLEAN : P!Forget(r, left)
           \/ \E q \in net : P!Serve(q) \/ P!Refuse(q) \/ \E done \in BOOLEAN : P!Lose(q, done)
BY DEF P!Next

(* What the constants allow.                                                *)
LEMMA PushBounds ==
    /\ {MaxMark, MaxEndpoint, MaxLost, MaxFlight} \subseteq Nat
    /\ None \notin Room /\ None \notin Nat /\ None \notin {"ok", "failed"}
    /\ None \notin P!Toggle
    /\ \A e \in P!Endpoint : e \in Nat /\ e # 0 /\ e # None
BY PushAssumption DEF P!NoneAssumption, P!BoundsAssumption, P!Endpoint

(* The messages a change of what is shown sends: marks and their            *)
(* withdrawals, by the live endpoint, and a mark only of the room shown.    *)
LEMMA MarksAre ==
    ASSUME PushType, NEW r1 \in Room \cup {None}, NEW s1, NEW r2 \in Room \cup {None}, NEW s2,
           NEW looking, NEW q \in P!Marks(r1, s1, r2, s2, looking)
    PROVE  /\ q \in P!Posts /\ q.do \in {"mark", "unmark"}
           /\ q.end = endpoint /\ q.room \in {r1, r2}
           /\ q.do = "mark" => q.room = r2 /\ looking
<1>1. endpoint \in P!Endpoint
  BY DEF PushType
<1>2. \/ q = P!Post("unmark", r1, endpoint) /\ r1 # None
      \/ q = P!Post("unmark", r2, endpoint) /\ r2 # None
      \/ q = P!Post("mark", r2, endpoint) /\ r2 # None /\ looking
  BY DEF P!Marks, P!Refresh
<1>3. CASE q = P!Post("unmark", r1, endpoint) /\ r1 # None
  BY <1>1, <1>3 DEF P!Post, P!Posts
<1>4. CASE q = P!Post("unmark", r2, endpoint) /\ r2 # None
  BY <1>1, <1>4 DEF P!Post, P!Posts
<1>5. CASE q = P!Post("mark", r2, endpoint) /\ r2 # None /\ looking
  BY <1>1, <1>5 DEF P!Post, P!Posts
<1> QED
  BY <1>2, <1>3, <1>4, <1>5

LEMMA RefreshIs ==
    ASSUME PushType, NEW r \in Room, NEW looking, NEW q \in P!Refresh(r, looking)
    PROVE  /\ q \in P!Posts /\ q.do \in {"mark", "unmark"}
           /\ q.end = endpoint /\ q.room = r
           /\ q.do = "mark" => looking
<1>1. endpoint \in P!Endpoint
  BY DEF PushType
<1>2. \/ q = P!Post("unmark", r, endpoint)
      \/ q = P!Post("mark", r, endpoint) /\ looking
  BY DEF P!Refresh
<1>3. CASE q = P!Post("unmark", r, endpoint)
  BY <1>1, <1>3 DEF P!Post, P!Posts
<1>4. CASE q = P!Post("mark", r, endpoint) /\ looking
  BY <1>1, <1>4 DEF P!Post, P!Posts
<1> QED
  BY <1>2, <1>3, <1>4

LEMMA AskIs ==
    ASSUME NEW do \in {"subscribe", "unsubscribe"}, NEW r \in Room, at = r
    PROVE  /\ P!Ask(do) \in P!Toggle /\ P!Ask(do) # None
           /\ P!Ask(do).do = do /\ P!Ask(do).room = r /\ P!Ask(do).got = None
<1>1. P!Ask(do) \in P!Toggle
  BY DEF P!Ask, P!Toggle
<1> QED
  BY <1>1, PushBounds DEF P!Ask

LEMMA PushBegins == P!Init => PushInv
<1> SUFFICES ASSUME P!Init PROVE PushInv
  OBVIOUS
<1> USE DEF P!Init
<1>1. PushType
  BY PushAssumption DEF PushType, P!BoundsAssumption, P!Endpoint, P!TTL
<1>2. MarkInv
  BY DEF MarkInv, LooksNow, MarksAreRecent, P!SuppressedForCause, P!TTL
<1>3. RowInv
  <2>1. /\ row = [r \in Room |-> [e \in P!Endpoint |-> None]] /\ net = {} /\ toggle = None
        /\ member = Room /\ endpoint \in P!Endpoint
    BY PushAssumption DEF P!BoundsAssumption, P!Endpoint
  <2>2. OldEndsOnly
    BY <2>1 DEF OldEndsOnly
  <2>3. LooseOnes /\ OneSubscribe
    BY <2>1 DEF LooseOnes, OneSubscribe
  <2>4. RowsOwed
    BY <2>1 DEF RowsOwed
  <2> QED
    BY <2>2, <2>3, <2>4 DEF RowInv
<1> QED
  BY <1>1, <1>2, <1>3 DEF PushInv

(* The variables keep their types.                                          *)
LEMMA PushTypeKept == PushInv /\ P!Next => PushType'
<1> SUFFICES ASSUME PushInv, P!Next PROVE PushType'
  OBVIOUS
<1> USE DEF PushInv, PushType, P!Flight
<1>0. endpoint \in P!Endpoint
  OBVIOUS
<1>1. ASSUME NEW r \in Room \cup {None}, NEW load \in BOOLEAN, P!Show(r, load)
      PROVE  PushType'
  <2>1. /\ at' = r /\ status' \in {"on", "off"} /\ toggle' \in {None, toggle}
        /\ net' = net \cup P!Marks(at, status, r, status', visible)
        /\ UNCHANGED <<clock, row, member, endpoint, flag, visible>>
    BY <1>1 DEF P!Show, P!relay
  <2>2. shown' \in [Room -> Nat] /\ loose' \subseteq Room
    BY <1>1 DEF P!Show, P!Seen, P!Cut
  <2>3. net' \subseteq P!Posts
    BY <2>1, MarksAre
  <2> QED
    BY <2>1, <2>2, <2>3
<1>2. CASE P!HideOrShow
  <2>1. /\ \A q \in net' \ net : q \in P!Refresh(at, visible') /\ at # None
        /\ UNCHANGED <<clock, row, member, endpoint, flag, at, status, toggle, loose>>
    BY <1>2 DEF P!HideOrShow, P!relay
  <2>2. shown' \in [Room -> Nat]
    BY <1>2 DEF P!HideOrShow, P!Seen
  <2>3. net' \subseteq P!Posts
    BY <2>1, RefreshIs
  <2> QED
    BY <2>1, <2>2, <2>3
<1>3. CASE P!ToggleOn
  <2>1. at \in Room /\ net' = net \cup {P!Post("subscribe", at, endpoint)}
        /\ toggle' = P!Ask("subscribe")
    BY <1>3 DEF P!ToggleOn
  <2>2. net' \subseteq P!Posts /\ toggle' \in P!Toggle
    <3>0. P!Post("subscribe", at, endpoint) \in P!Posts
      BY <2>1, <1>0 DEF P!Post, P!Posts
    <3>1. net' \subseteq P!Posts
      BY <2>1, <3>0
    <3>2. toggle' \in P!Toggle
      BY <2>1 DEF P!Ask, P!Toggle
    <3> QED
      BY <3>1, <3>2
  <2>3. flag' \in [Room -> P!Endpoint \cup {None}]
        /\ UNCHANGED <<clock, row, member, endpoint, at, status, shown, loose>>
    BY <1>3 DEF P!ToggleOn, P!relay
  <2> QED
    BY <2>2, <2>3
<1>4. CASE P!ToggleOff
  <2>1. at \in Room /\ net' = net \cup {P!Post("unsubscribe", at, endpoint)}
        /\ toggle' = P!Ask("unsubscribe")
    BY <1>4 DEF P!ToggleOff
  <2>2. net' \subseteq P!Posts /\ toggle' \in P!Toggle
    <3>0. P!Post("unsubscribe", at, endpoint) \in P!Posts
      BY <2>1, <1>0 DEF P!Post, P!Posts
    <3>1. net' \subseteq P!Posts
      BY <2>1, <3>0
    <3>2. toggle' \in P!Toggle
      BY <2>1 DEF P!Ask, P!Toggle
    <3> QED
      BY <3>1, <3>2
  <2>3. flag' \in [Room -> P!Endpoint \cup {None}]
        /\ UNCHANGED <<clock, row, member, endpoint, at, status, shown, loose>>
    BY <1>4 DEF P!ToggleOff, P!relay
  <2> QED
    BY <2>2, <2>3
<1>5. CASE P!ToggleEnds
  <2>1. /\ toggle' = None /\ flag' \in [Room -> P!Endpoint \cup {None}]
        /\ UNCHANGED <<clock, row, member, endpoint, at, visible, shown, loose>>
    BY <1>5 DEF P!ToggleEnds, P!relay
  <2>2. status' \in {"on", "off"}
    BY <1>5 DEF P!ToggleEnds
  <2>3. \A q \in net' \ net : q \in P!Marks(at, status, at, status', visible)
    BY <1>5 DEF P!ToggleEnds
  <2>4. net' \subseteq P!Posts
    BY <2>1, <2>3, MarksAre
  <2> QED
    BY <2>1, <2>2, <2>4
<1>6. CASE P!SendOwn
  <2>1. at \in Room
    BY <1>6 DEF P!SendOwn
  <2>2. (IF flag[at] # None THEN endpoint ELSE None) \in P!Endpoint \cup {None}
    OBVIOUS
  <2>3. net' = net \cup {P!Post("push", at, IF flag[at] # None THEN endpoint ELSE None)}
        /\ UNCHANGED <<clock, row, member, endpoint, flag, at, status, toggle, shown, loose>>
    BY <1>6 DEF P!SendOwn, P!relay, P!page
  <2>4. net' \subseteq P!Posts
    <3>1. P!Post("push", at, IF flag[at] # None THEN endpoint ELSE None) \in P!Posts
      BY <1>0, <2>1, <2>2 DEF P!Post, P!Posts
    <3> QED
      BY <2>3, <3>1
  <2> QED
    BY <2>3, <2>4
<1>7. CASE P!Rotate
  <2>1. endpoint' \in P!Endpoint
    BY <1>7, PushAssumption DEF P!Rotate, P!BoundsAssumption, P!Endpoint
  <2> QED
    BY <1>7, <2>1 DEF P!Rotate, P!relay, P!page
<1>8. CASE P!Tick
  <2>1. clock' = clock + 1 /\ clock' \in Nat
        /\ UNCHANGED <<row, member, endpoint, flag, at, visible, status, toggle, loose>>
    BY <1>8 DEF P!Tick, P!relay, P!page
  <2>2. shown' \in [Room -> Nat]
    BY <1>8, <2>1 DEF P!Tick
  <2>3. ASSUME NEW q \in net' PROVE q \in P!Posts
    <3>1. \/ \E p \in net : q = [p EXCEPT !.late = TRUE]
          \/ at # None /\ q \in P!Refresh(at, visible)
      BY <1>8 DEF P!Tick
    <3>2. ASSUME NEW p \in net, q = [p EXCEPT !.late = TRUE] PROVE q \in P!Posts
      BY <3>2 DEF P!Posts
    <3>3. CASE at # None /\ q \in P!Refresh(at, visible)
      BY <3>3, RefreshIs
    <3> QED
      BY <3>1, <3>2, <3>3
  <2> QED
    BY <2>1, <2>2, <2>3
<1>9. ASSUME NEW r \in Room, P!NotifyOther(r) PROVE PushType'
  BY <1>9 DEF P!NotifyOther, P!Notify, P!page
<1>10. ASSUME NEW r \in Room, NEW left \in BOOLEAN, P!Forget(r, left) PROVE PushType'
  <2>1. /\ member' \subseteq Room /\ flag' \in [Room -> P!Endpoint \cup {None}]
        /\ at' = None /\ status' = "off" /\ toggle' = None /\ loose' \subseteq Room
        /\ UNCHANGED <<clock, row, endpoint, visible>>
    BY <1>10 DEF P!Forget
  <2>2. shown' \in [Room -> Nat]
    BY <1>10 DEF P!Forget, P!Seen
  <2>3. \A q \in net' \ net : \/ q = P!Post("unsubscribe", r, endpoint)
                              \/ q \in P!Marks(at, status, None, "off", visible)
    BY <1>10 DEF P!Forget
  <2>4. net' \subseteq P!Posts
    <3>1. P!Post("unsubscribe", r, endpoint) \in P!Posts
      BY <1>0 DEF P!Post, P!Posts
    <3> QED
      BY <2>3, <3>1, MarksAre
  <2> QED
    BY <2>1, <2>2, <2>4
<1>11. ASSUME NEW q \in net, P!Serve(q) \/ P!Refuse(q) \/ \E done \in BOOLEAN : P!Lose(q, done)
       PROVE  PushType'
  <2>0. q.do \in {"subscribe", "unsubscribe", "mark", "unmark", "push"}
    BY DEF P!Posts
  <2>1. q.room \in Room
    BY DEF P!Posts
  <2>2. toggle' \in P!Toggle \cup {None}
    BY <1>11 DEF P!Serve, P!Refuse, P!Lose, P!Answered, P!Toggle
  <2>3. row' \in [Room -> [P!Endpoint -> Nat \cup {None}]]
    <3>1. \/ row' = row
          \/ P!Subscribed(q.room, q.end)
          \/ row' = [row EXCEPT ![q.room][q.end] = None]
          \/ P!Marked(q.room, q.end, clock)
          \/ P!Marked(q.room, q.end, 0)
          \/ P!Notify(q.room, q.end)
      BY <1>11, <2>0 DEF P!Serve, P!Refuse, P!Lose, P!relay
    <3> QED
      BY <2>1, <3>1 DEF P!Subscribed, P!Marked, P!Notify
  <2>4. net' = net \ {q} /\ loose' \in {loose, loose \cup {q.room}}
        /\ UNCHANGED <<clock, member, endpoint, flag, at, status, shown>>
    <3>1. CASE P!Serve(q)
      BY <3>1 DEF P!Serve
    <3>2. CASE P!Refuse(q)
      BY <3>2 DEF P!Refuse, P!relay
    <3>3. CASE \E done \in BOOLEAN : P!Lose(q, done)
      BY <3>3 DEF P!Lose
    <3> QED
      BY <1>11, <3>1, <3>2, <3>3
  <2> QED
    BY <2>1, <2>2, <2>3, <2>4
<1> QED
  BY <1>1, <1>2, <1>3, <1>4, <1>5, <1>6, <1>7, <1>8, <1>9, <1>10, <1>11, PushSteps

(* What the page does about its screen: the room it shows is shown now, and *)
(* the messages it adds are marks of a room shown now, or none.             *)
LEMMA MarksStay ==
    ASSUME PushType, MarkInv, clock' = clock,
           \A r \in Room, e \in P!Endpoint : row'[r][e] \in {None, 0, row[r][e]},
           \A r \in Room : shown'[r] \in {shown[r], clock},
           at' # None /\ visible' => shown'[at'] = clock,
           \A q \in net' \ net : q.do = "mark" => shown'[q.room] = clock
    PROVE  MarkInv'
<1>1. /\ clock \in Nat /\ \A r \in Room : shown[r] \in Nat /\ shown[r] <= clock
      /\ \A q \in net : q \in P!Posts /\ q.room \in Room
  BY DEF PushType, MarkInv, LooksNow, P!Posts
<1>2. \A r \in Room : shown[r] <= shown'[r] /\ shown'[r] <= clock
  BY ONLY <1>1, \A r \in Room : shown'[r] \in {shown[r], clock}
<1>3. LooksNow'
  BY <1>2 DEF LooksNow
<1>4. MarksAreRecent'
  <2> SUFFICES ASSUME NEW q \in net', q.do = "mark"
               PROVE  clock <= shown'[q.room] + 1 /\ (~q.late => shown'[q.room] = clock)
    BY DEF MarksAreRecent
  <2>1. CASE q \in net
    <3>1. q.room \in Room /\ clock <= shown[q.room] + 1 /\ (~q.late => shown[q.room] = clock)
      BY <1>1, <2>1 DEF MarkInv, MarksAreRecent
    <3>2. shown'[q.room] \in {shown[q.room], clock} /\ shown[q.room] \in Nat
      BY <1>1, <3>1
    <3> QED
      BY ONLY <1>1, <3>1, <3>2
  <2>2. CASE q \notin net
    BY <1>1, <2>2
  <2> QED
    BY <2>1, <2>2
<1>5. P!SuppressedForCause'
  <2> SUFFICES ASSUME NEW r \in Room, NEW e \in P!Endpoint, row'[r][e] \notin {None, 0}
               PROVE  row'[r][e] <= shown'[r] + P!MaxDelay
    BY DEF P!SuppressedForCause
  <2>1. row'[r][e] = row[r][e] /\ row[r][e] <= shown[r] + 1
    BY DEF MarkInv, P!SuppressedForCause, P!MaxDelay
  <2>2. row[r][e] \in Nat
    BY <2>1 DEF PushType
  <2>3. shown'[r] \in {shown[r], clock} /\ shown[r] \in Nat /\ shown[r] <= clock
    BY <1>1
  <2> QED
    BY ONLY <1>1, <2>1, <2>2, <2>3 DEF P!MaxDelay
<1> QED
  BY <1>3, <1>4, <1>5 DEF MarkInv

(* A mark that arrives is of a room shown a moment ago.                     *)
LEMMA MarkServed ==
    ASSUME PushType, MarkInv, NEW q \in net, P!Serve(q), q.do = "mark"
    PROVE  MarkInv'
<1>1. /\ q.room \in Room /\ clock \in Nat /\ shown[q.room] \in Nat
      /\ clock <= shown[q.room] + 1
  BY DEF PushType, MarkInv, MarksAreRecent, P!Posts
<1>2. /\ P!Marked(q.room, q.end, clock) /\ net' \subseteq net
      /\ UNCHANGED <<clock, at, visible, shown>>
  BY DEF P!Serve
<1>3. LooksNow' /\ MarksAreRecent'
  BY <1>2 DEF MarkInv, LooksNow, MarksAreRecent
<1>4. P!SuppressedForCause'
  <2> SUFFICES ASSUME NEW r \in Room, NEW e \in P!Endpoint, row'[r][e] \notin {None, 0}
               PROVE  row'[r][e] <= shown[r] + P!MaxDelay
    BY <1>2 DEF P!SuppressedForCause
  <2>1. row'[r][e] = row[r][e] \/ (r = q.room /\ row'[r][e] = clock)
    BY <1>2 DEF P!Marked, PushType
  <2>2. CASE row'[r][e] = row[r][e]
    BY <2>2 DEF MarkInv, P!SuppressedForCause
  <2>3. CASE r = q.room /\ row'[r][e] = clock
    BY ONLY <1>1, <2>3 DEF P!MaxDelay
  <2> QED
    BY <2>1, <2>2, <2>3
<1> QED
  BY <1>3, <1>4 DEF MarkInv

(* As time passes the marks that were sent now become a moment old; none    *)
(* was older, or the clock would have waited for it.                        *)
LEMMA MarksTick == PushType /\ MarkInv /\ P!Tick => MarkInv'
<1> SUFFICES ASSUME PushType, MarkInv, P!Tick PROVE MarkInv'
  OBVIOUS
<1>1. /\ clock \in Nat /\ clock' = clock + 1 /\ \A r \in Room : shown[r] \in Nat
      /\ \A r \in Room : shown[r] <= clock
      /\ UNCHANGED <<row, endpoint, at, visible>>
  BY DEF PushType, MarkInv, LooksNow, P!Tick, P!relay, P!page
<1>2. \A r \in Room : shown'[r] = IF at = r /\ visible THEN clock' ELSE shown[r]
  BY DEF P!Tick
<1>3. ASSUME NEW r \in Room
      PROVE  shown'[r] \in Nat /\ shown[r] <= shown'[r] /\ shown'[r] <= clock'
  <2>1. shown'[r] \in {shown[r], clock'}
    BY <1>2
  <2> QED
    BY ONLY <1>1, <2>1
<1>4. LooksNow'
  BY <1>1, <1>2, <1>3 DEF LooksNow, PushType
<1>5. MarksAreRecent'
  <2> SUFFICES ASSUME NEW q \in net', q.do = "mark"
               PROVE  /\ clock' <= shown'[q.room] + 1
                      /\ ~q.late => shown'[q.room] = clock'
    BY DEF MarksAreRecent
  <2>1. \/ \E p \in net : q = [p EXCEPT !.late = TRUE]
        \/ at # None /\ q \in P!Refresh(at, visible)
    BY DEF P!Tick
  <2>2. ASSUME NEW p \in net, q = [p EXCEPT !.late = TRUE]
        PROVE  clock' <= shown'[q.room] + 1 /\ q.late
    <3>1. p \in P!Posts /\ p.do = "mark" /\ p.room = q.room /\ q.late /\ p.room \in Room
      BY <2>2 DEF PushType, P!Posts
    <3>2. ~p.late
      BY DEF P!Tick
    <3>3. shown[q.room] = clock
      BY <3>1, <3>2 DEF MarkInv, MarksAreRecent
    <3>4. clock <= shown'[q.room] /\ shown'[q.room] \in Nat
      BY <1>3, <3>1, <3>3
    <3> QED
      BY ONLY <1>1, <3>1, <3>4
  <2>3. CASE at # None /\ q \in P!Refresh(at, visible)
    <3>1. at \in Room /\ q.room = at /\ visible
      BY <2>3, RefreshIs DEF PushType
    <3>2. shown'[at] = clock'
      BY <1>2, <3>1
    <3> QED
      BY ONLY <1>1, <3>1, <3>2
  <2> QED
    BY <2>1, <2>2, <2>3
<1>6. P!SuppressedForCause'
  <2> SUFFICES ASSUME NEW r \in Room, NEW e \in P!Endpoint, row[r][e] \notin {None, 0}
               PROVE  row[r][e] <= shown'[r] + P!MaxDelay
    BY <1>1 DEF P!SuppressedForCause
  <2>1. row[r][e] \in Nat /\ row[r][e] <= shown[r] + 1
    BY DEF MarkInv, PushType, P!SuppressedForCause, P!MaxDelay
  <2>2. shown[r] \in Nat /\ shown'[r] \in Nat /\ shown[r] <= shown'[r]
    BY <1>1, <1>3
  <2> QED
    BY ONLY <2>1, <2>2 DEF P!MaxDelay
<1> QED
  BY <1>4, <1>5, <1>6 DEF MarkInv

LEMMA MarksKept == PushInv /\ P!Next => MarkInv'
<1> SUFFICES ASSUME PushInv, P!Next PROVE MarkInv'
  OBVIOUS
<1>0. /\ PushType /\ MarkInv /\ endpoint \in P!Endpoint
      /\ \A r \in Room, e \in P!Endpoint : row[r][e] \in {None, 0, row[r][e]}
      /\ (at # None /\ visible => shown[at] = clock)
  BY DEF PushInv, PushType, MarkInv, LooksNow
<1>1. ASSUME NEW r \in Room \cup {None}, NEW load \in BOOLEAN, P!Show(r, load)
      PROVE  MarkInv'
  <2>1. /\ at' = r /\ visible' = visible /\ UNCHANGED <<clock, row>>
        /\ \A q \in net' \ net : q \in P!Marks(at, status, at', status', visible)
        /\ P!Seen
    BY <1>1 DEF P!Show, P!relay, P!Flight
  <2>2. /\ \A s \in Room : shown'[s] \in {shown[s], clock}
        /\ at' # None /\ visible' => shown'[at'] = clock
    BY <1>0, <2>1 DEF P!Seen
  <2>3. ASSUME NEW q \in net' \ net, q.do = "mark"
        PROVE  q.room = at' /\ visible /\ q.room \in Room
    <3>1. at \in Room \cup {None} /\ at' \in Room \cup {None}
      BY <1>0, <2>1 DEF PushType
    <3>2. q \in P!Posts /\ q.room = at' /\ visible
      BY <1>0, <2>1, <2>3, <3>1, MarksAre
    <3> QED
      BY <3>2 DEF P!Posts
  <2>4. \A q \in net' \ net : q.do = "mark" => shown'[q.room] = clock
    BY <2>1, <2>2, <2>3, PushBounds
  <2> QED
    BY <1>0, <2>1, <2>2, <2>4, MarksStay
<1>2. CASE P!HideOrShow
  <2>1. /\ at' = at /\ UNCHANGED <<clock, row>>
        /\ \A q \in net' \ net : at # None /\ q \in P!Refresh(at, visible')
        /\ P!Seen
    BY <1>2 DEF P!HideOrShow, P!relay, P!Flight
  <2>2. /\ \A s \in Room : shown'[s] \in {shown[s], clock}
        /\ at' # None /\ visible' => shown'[at'] = clock
    BY <1>0, <2>1 DEF P!Seen, PushType
  <2>3. \A q \in net' \ net : q.do = "mark" => shown'[q.room] = clock
    BY <1>0, <2>1, <2>2, RefreshIs DEF PushType
  <2> QED
    BY <1>0, <2>1, <2>2, <2>3, MarksStay
<1>3. ASSUME UNCHANGED <<clock, row, at, visible, shown>>,
             \A q \in net' \ net : q.do # "mark" \/ (q.room = at /\ at # None /\ visible)
      PROVE  MarkInv'
  BY <1>0, <1>3, MarksStay
<1>4. CASE P!ToggleOn \/ P!ToggleOff \/ P!SendOwn \/ P!Rotate
  <2>1. UNCHANGED <<clock, row, at, visible, shown>>
    BY <1>4 DEF P!ToggleOn, P!ToggleOff, P!SendOwn, P!Rotate, P!relay, P!page
  <2>2. \A q \in net' \ net : q.do # "mark"
    BY <1>4 DEF P!ToggleOn, P!ToggleOff, P!SendOwn, P!Rotate, P!Flight, P!Post
  <2> QED
    BY <1>3, <2>1, <2>2
<1>5. CASE P!ToggleEnds
  <2>1. UNCHANGED <<clock, row, at, visible, shown>>
        /\ \A q \in net' \ net : q \in P!Marks(at, status, at, status', visible)
    BY <1>5 DEF P!ToggleEnds, P!relay, P!Flight
  <2>2. \A q \in net' \ net : q.do # "mark" \/ (q.room = at /\ at # None /\ visible)
    <3> SUFFICES ASSUME NEW q \in net' \ net, q.do = "mark"
                 PROVE  q.room = at /\ at # None /\ visible
      OBVIOUS
    <3>0. at \in Room \cup {None}
      BY <1>0 DEF PushType
    <3>1. q \in P!Posts /\ q.room = at /\ visible
      BY <1>0, <2>1, <3>0, MarksAre
    <3> QED
      BY <3>1, PushBounds DEF P!Posts
  <2> QED
    BY <1>3, <2>1, <2>2
<1>6. ASSUME NEW r \in Room, NEW left \in BOOLEAN, P!Forget(r, left) PROVE MarkInv'
  <2>1. /\ at' = None /\ UNCHANGED <<clock, row>> /\ P!Seen
        /\ \A q \in net' \ net : \/ q = P!Post("unsubscribe", r, endpoint)
                                 \/ q \in P!Marks(at, status, None, "off", visible)
    BY <1>6 DEF P!Forget, P!Flight
  <2>2. \A s \in Room : shown'[s] \in {shown[s], clock}
    BY <2>1 DEF P!Seen
  <2>3. \A q \in net' \ net : q.do # "mark"
    <3> SUFFICES ASSUME NEW q \in net' \ net, q.do = "mark" PROVE FALSE
      OBVIOUS
    <3>1. q \in P!Marks(at, status, None, "off", visible)
      BY <2>1 DEF P!Post
    <3>2. at \in Room \cup {None} /\ None \in Room \cup {None}
      BY <1>0 DEF PushType
    <3>3. q \in P!Posts /\ q.room = None
      BY <1>0, <3>1, <3>2, MarksAre
    <3> QED
      BY <3>3, PushBounds DEF P!Posts
  <2> QED
    BY <1>0, <2>1, <2>2, <2>3, MarksStay
<1>7. ASSUME NEW r \in Room, P!NotifyOther(r) PROVE MarkInv'
  <2>1. /\ UNCHANGED <<clock, at, visible, shown, net>>
        /\ \A s \in Room, e \in P!Endpoint : row'[s][e] \in {None, row[s][e]}
    BY <1>7, <1>0 DEF P!NotifyOther, P!Notify, P!page, PushType
  <2> QED
    BY <1>0, <2>1, MarksStay
<1>8. ASSUME NEW q \in net, P!Serve(q) \/ P!Refuse(q) \/ \E done \in BOOLEAN : P!Lose(q, done)
      PROVE  MarkInv'
  <2>1. q.do \in {"subscribe", "unsubscribe", "mark", "unmark", "push"} /\ q.room \in Room
    BY <1>0 DEF PushType, P!Posts
  <2>2. UNCHANGED <<clock, at, visible, shown>> /\ net' \subseteq net
    BY <1>8 DEF P!Serve, P!Refuse, P!Lose
  <2>3. CASE P!Serve(q) /\ q.do = "mark"
    BY <1>0, <2>3, MarkServed
  <2>4. CASE ~(P!Serve(q) /\ q.do = "mark")
    <3>1. \/ row' = row
          \/ P!Subscribed(q.room, q.end)
          \/ row' = [row EXCEPT ![q.room][q.end] = None]
          \/ P!Marked(q.room, q.end, 0)
          \/ P!Notify(q.room, q.end)
      BY <1>8, <2>1, <2>4 DEF P!Serve, P!Refuse, P!Lose, P!relay
    <3>2. \A s \in Room, e \in P!Endpoint : row'[s][e] \in {None, 0, row[s][e]}
      BY <1>0, <2>1, <3>1 DEF P!Subscribed, P!Marked, P!Notify, PushType
    <3> QED
      BY <1>0, <2>2, <3>2, MarksStay
  <2> QED
    BY <2>3, <2>4
<1>9. CASE P!Tick
  BY <1>0, <1>9, MarksTick
<1> QED
  BY <1>1, <1>2, <1>4, <1>5, <1>6, <1>7, <1>8, <1>9, PushSteps

(* Steps that leave the switches, the endpoint and every subscription on    *)
(* its way alone: what they cut short or lose becomes loose.                *)
LEMMA RowsStay ==
    ASSUME PushType, RowInv, UNCHANGED <<endpoint, flag>>,
           \A r \in Room, e \in P!Endpoint : e > endpoint => row'[r][e] = None,
           \A r \in Room : row'[r][endpoint] # None =>
               row[r][endpoint] # None \/ r \in loose',
           loose \subseteq loose', Room \ member' \subseteq loose',
           \A q \in net' \ net : /\ q.do \notin {"subscribe", "unsubscribe"}
                                 /\ q.do # "push" => q.end \in P!Endpoint /\ q.end <= endpoint,
           \A q \in net \ net' : q.do = "unsubscribe" => q.room \in loose',
           \/ toggle' = toggle
           \/ /\ toggle # None /\ toggle.room \in loose'
              /\ toggle' # None => toggle'.room = toggle.room
    PROVE  RowInv'
<1> USE DEF RowInv, OldEndsOnly, LooseOnes, OneSubscribe, RowsOwed, Owed
<1>1. OldEndsOnly'
  OBVIOUS
<1>2. LooseOnes'
  OBVIOUS
<1>3. OneSubscribe'
  OBVIOUS
<1>4. RowsOwed'
  <2> SUFFICES ASSUME NEW r \in Room, row'[r][endpoint] # None, flag[r] = None, r \notin loose'
               PROVE  Owed(r)'
    OBVIOUS
  <2>1. row[r][endpoint] # None /\ r \notin loose
    OBVIOUS
  <2>2. Owed(r)
    BY <2>1
  <2>3. CASE \E q \in net : q.room = r /\ q.do = "unsubscribe" /\ q.end = endpoint
    BY <2>3
  <2>4. CASE toggle # None /\ toggle.do = "subscribe" /\ toggle.room = r
    BY <2>4
  <2> QED
    BY <2>1, <2>2, <2>3, <2>4
<1> QED
  BY <1>1, <1>2, <1>3, <1>4

LEMMA RowsTick == PushType /\ RowInv /\ P!Tick => RowInv'
<1> SUFFICES ASSUME PushType, RowInv, P!Tick PROVE RowInv'
  OBVIOUS
<1>1. /\ UNCHANGED <<row, member, endpoint, flag, toggle, loose>>
      /\ endpoint \in P!Endpoint /\ endpoint \in Nat
  BY PushBounds DEF P!Tick, P!relay, P!page, PushType
<1>2. ASSUME NEW q \in net', q.do \notin {"mark", "unmark"}
      PROVE  \E p \in net : q = [p EXCEPT !.late = TRUE]
  <2>1. \/ \E p \in net : q = [p EXCEPT !.late = TRUE]
        \/ at # None /\ q \in P!Refresh(at, visible)
    BY DEF P!Tick
  <2>2. at # None => at \in Room
    BY DEF PushType
  <2> QED
    BY <1>2, <2>1, <2>2, RefreshIs
<1>3. ASSUME NEW p \in net
      PROVE  LET q == [p EXCEPT !.late = TRUE]
             IN  q.do = p.do /\ q.room = p.room /\ q.end = p.end
  BY DEF PushType, P!Posts
<1>4. \A q \in net' : q.do # "push" => q.end \in P!Endpoint /\ q.end <= endpoint
  <2> SUFFICES ASSUME NEW q \in net', q.do # "push"
               PROVE  q.end \in P!Endpoint /\ q.end <= endpoint
    OBVIOUS
  <2>1. \/ \E p \in net : q = [p EXCEPT !.late = TRUE]
        \/ at \in Room /\ q \in P!Refresh(at, visible)
    BY DEF P!Tick, PushType
  <2>2. CASE at \in Room /\ q \in P!Refresh(at, visible)
    <3>1. q.end = endpoint
      BY <2>2, RefreshIs
    <3> QED
      BY <1>1, <3>1
  <2>3. ASSUME NEW p \in net, q = [p EXCEPT !.late = TRUE]
        PROVE  q.end \in P!Endpoint /\ q.end <= endpoint
    BY <1>3, <2>3 DEF RowInv, OldEndsOnly
  <2> QED
    BY <2>1, <2>2, <2>3
<1>5. OldEndsOnly' /\ LooseOnes'
  BY <1>1, <1>4 DEF RowInv, OldEndsOnly, LooseOnes
<1>6. OneSubscribe'
  <2>1. ASSUME NEW q \in net', q.do = "subscribe"
        PROVE  \E p \in net : /\ q = [p EXCEPT !.late = TRUE]
                              /\ p.do = "subscribe" /\ p.room = q.room
    <3>1. PICK p \in net : q = [p EXCEPT !.late = TRUE]
      BY <1>2, <2>1
    <3> QED
      BY <1>3, <2>1, <3>1
  <2>2. ASSUME NEW q \in net', q.do = "subscribe", q.room \notin loose
        PROVE  /\ toggle # None /\ toggle.do = "subscribe"
               /\ toggle.room = q.room /\ toggle.got = None
    <3>1. PICK p \in net : p.do = "subscribe" /\ p.room = q.room
      BY <2>1, <2>2
    <3> QED
      BY <2>2, <3>1 DEF RowInv, OneSubscribe
  <2>3. ASSUME NEW q1 \in net', NEW q2 \in net', q1.do = "subscribe", q2.do = "subscribe",
               q1.room = q2.room, q1.room \notin loose
        PROVE  q1 = q2
    <3>1. PICK p1 \in net : /\ q1 = [p1 EXCEPT !.late = TRUE]
                            /\ p1.do = "subscribe" /\ p1.room = q1.room
      BY <2>1, <2>3
    <3>2. PICK p2 \in net : /\ q2 = [p2 EXCEPT !.late = TRUE]
                            /\ p2.do = "subscribe" /\ p2.room = q2.room
      BY <2>1, <2>3
    <3>3. p1 = p2
      BY <2>3, <3>1, <3>2 DEF RowInv, OneSubscribe
    <3> QED
      BY <3>1, <3>2, <3>3
  <2> QED
    BY <1>1, <2>2, <2>3 DEF OneSubscribe
<1>7. RowsOwed'
  <2> SUFFICES ASSUME NEW r \in Room, Owed(r) PROVE Owed(r)'
    BY <1>1 DEF RowInv, RowsOwed
  <2>1. ASSUME NEW p \in net, p.room = r, p.do = "unsubscribe", p.end = endpoint
        PROVE  Owed(r)'
    <3>1. [p EXCEPT !.late = TRUE] \in net'
      BY DEF P!Tick
    <3> QED
      BY <1>1, <1>3, <2>1, <3>1 DEF Owed
  <2> QED
    BY <1>1, <2>1 DEF Owed
<1> QED
  BY <1>5, <1>6, <1>7 DEF RowInv

(* Switching on: nothing is on its way that would subscribe, as no toggle   *)
(* was under way; and the row that may come is owed to the toggle.          *)
LEMMA RowsOn == PushType /\ RowInv /\ P!ToggleOn => RowInv'
<1> SUFFICES ASSUME PushType, RowInv, P!ToggleOn PROVE RowInv'
  OBVIOUS
<1> DEFINE new == P!Post("subscribe", at, endpoint)
<1>1. /\ at \in Room /\ toggle = None /\ toggle' = P!Ask("subscribe")
      /\ net' = net \cup {new}
      /\ UNCHANGED <<row, member, endpoint, flag, loose>>
  BY DEF P!ToggleOn, P!relay, P!Flight, PushType
<1>2. /\ toggle' # None /\ toggle'.do = "subscribe" /\ toggle'.room = at
      /\ toggle'.got = None
  BY <1>1, AskIs
<1>3. new.do = "subscribe" /\ new.room = at /\ new.end = endpoint
  BY DEF P!Post
<1>4. endpoint \in P!Endpoint /\ endpoint <= endpoint
  BY PushBounds DEF PushType
<1> HIDE DEF new
<1>5. OldEndsOnly'
  BY <1>1, <1>3, <1>4 DEF RowInv, OldEndsOnly
<1>6. LooseOnes' /\ OneSubscribe'
  BY <1>1, <1>2, <1>3, PushBounds DEF RowInv, LooseOnes, OneSubscribe
<1>7. RowsOwed'
  BY <1>1 DEF RowInv, RowsOwed, Owed
<1> QED
  BY <1>5, <1>6, <1>7 DEF RowInv

(* Switching off: the withdrawal of the live endpoint is on its way.        *)
LEMMA RowsOff == PushType /\ RowInv /\ P!ToggleOff => RowInv'
<1> SUFFICES ASSUME PushType, RowInv, P!ToggleOff PROVE RowInv'
  OBVIOUS
<1> DEFINE new == P!Post("unsubscribe", at, endpoint)
<1>1. /\ at \in Room /\ toggle = None /\ toggle' = P!Ask("unsubscribe")
      /\ net' = net \cup {new} /\ flag' = [flag EXCEPT ![at] = None]
      /\ UNCHANGED <<row, member, endpoint, loose>>
  BY DEF P!ToggleOff, P!relay, P!Flight, PushType
<1>2. toggle' # None /\ toggle'.got = None
  BY <1>1, AskIs
<1>3. new.do = "unsubscribe" /\ new.room = at /\ new.end = endpoint
  BY DEF P!Post
<1>4. endpoint \in P!Endpoint /\ endpoint <= endpoint
  BY PushBounds DEF PushType
<1> HIDE DEF new
<1>5. OldEndsOnly'
  BY <1>1, <1>3, <1>4 DEF RowInv, OldEndsOnly
<1>6. LooseOnes' /\ OneSubscribe'
  BY <1>1, <1>2, <1>3, PushBounds DEF RowInv, LooseOnes, OneSubscribe
<1>7. RowsOwed'
  BY <1>1, <1>3 DEF RowInv, RowsOwed, Owed, PushType
<1> QED
  BY <1>5, <1>6, <1>7 DEF RowInv

(* A toggle ends once its request is answered: a row it made is now the     *)
(* switch's own.                                                            *)
LEMMA RowsEnd == PushType /\ RowInv /\ P!ToggleEnds => RowInv'
<1> SUFFICES ASSUME PushType, RowInv, P!ToggleEnds PROVE RowInv'
  OBVIOUS
<1>1. /\ toggle # None /\ toggle.got # None /\ toggle' = None
      /\ UNCHANGED <<row, member, endpoint, loose>>
      /\ net \subseteq net'
      /\ \A q \in net' \ net : q \in P!Marks(at, status, at, status', visible)
      /\ flag' = IF toggle.do = "subscribe" /\ toggle.got = "ok"
                 THEN [flag EXCEPT ![toggle.room] = endpoint] ELSE flag
  BY DEF P!ToggleEnds, P!relay, P!Flight
<1>2. /\ toggle.room \in Room /\ toggle.got \in {"ok", "failed"}
      /\ toggle.do \in {"subscribe", "unsubscribe"}
  BY <1>1 DEF PushType, P!Toggle
<1>3. endpoint \in P!Endpoint /\ endpoint # None /\ endpoint <= endpoint
  BY PushBounds DEF PushType
<1>4. at \in Room \cup {None}
  BY DEF PushType
<1>5. \A q \in net' \ net : q.do \in {"mark", "unmark"} /\ q.end = endpoint
  BY <1>1, <1>4, MarksAre
<1>6. OldEndsOnly'
  BY <1>1, <1>3, <1>5 DEF RowInv, OldEndsOnly
<1>7. LooseOnes' /\ OneSubscribe'
  BY <1>1, <1>5 DEF RowInv, LooseOnes, OneSubscribe
<1>8. RowsOwed'
  <2> SUFFICES ASSUME NEW r \in Room, row[r][endpoint] # None, flag'[r] = None PROVE Owed(r)'
    BY <1>1 DEF RowsOwed
  <2>1. flag[r] = None /\ ~(toggle.do = "subscribe" /\ toggle.got = "ok" /\ toggle.room = r)
    BY <1>1, <1>2, <1>3 DEF PushType
  <2>2. Owed(r)
    BY <2>1 DEF RowInv, RowsOwed
  <2>3. CASE toggle.do = "subscribe" /\ toggle.room = r
    BY <1>1, <1>2, <2>1, <2>3 DEF RowInv, LooseOnes, Owed
  <2> QED
    BY <1>1, <2>2, <2>3 DEF Owed
<1> QED
  BY <1>6, <1>7, <1>8 DEF RowInv

(* A room that is forgotten: its row is asked back, or its token is gone.   *)
LEMMA RowsForget ==
    ASSUME PushType, RowInv, NEW r \in Room, NEW left \in BOOLEAN, P!Forget(r, left)
    PROVE  RowInv'
<1> DEFINE new == P!Post("unsubscribe", r, endpoint)
<1>1. /\ member' = IF left THEN member \ {r} ELSE member
      /\ flag' = [flag EXCEPT ![r] = None] /\ toggle' = None
      /\ loose' = loose \cup (IF left THEN {r} ELSE {})
                        \cup {q \in Room : toggle # None /\ toggle.room = q}
      /\ net \subseteq net' /\ (flag[r] # None => new \in net')
      /\ \A q \in net' \ net : q = new \/ q \in P!Marks(at, status, None, "off", visible)
      /\ UNCHANGED <<row, endpoint>>
  BY DEF P!Forget, P!Flight
<1>2. new.do = "unsubscribe" /\ new.room = r /\ new.end = endpoint
  BY DEF P!Post
<1>3. endpoint \in P!Endpoint /\ endpoint <= endpoint
  BY PushBounds DEF PushType
<1>4. at \in Room \cup {None} /\ None \in Room \cup {None}
  BY DEF PushType
<1> HIDE DEF new
<1>5. \A q \in net' \ net : q.do \notin {"subscribe", "push"} /\ q.end = endpoint
  BY <1>1, <1>2, <1>4, MarksAre
<1>6. OldEndsOnly'
  BY <1>1, <1>3, <1>5 DEF RowInv, OldEndsOnly
<1>7. /\ loose \subseteq loose' /\ (left => r \in loose')
      /\ (toggle # None => toggle.room \in loose')
  BY <1>1 DEF PushType, P!Toggle
<1>8. LooseOnes'
  BY <1>1, <1>7 DEF RowInv, LooseOnes
<1>9. OneSubscribe'
  BY <1>1, <1>5, <1>7 DEF RowInv, OneSubscribe
<1>10. RowsOwed'
  <2> SUFFICES ASSUME NEW s \in Room, row[s][endpoint] # None, flag'[s] = None PROVE Owed(s)'
    BY <1>1 DEF RowsOwed
  <2>1. CASE s = r /\ flag[r] # None
    BY <1>1, <1>2, <2>1 DEF Owed
  <2>2. CASE ~(s = r /\ flag[r] # None)
    <3>1. flag[s] = None
      BY <1>1, <2>2 DEF PushType
    <3>2. Owed(s)
      BY <3>1 DEF RowInv, RowsOwed
    <3> QED
      BY <1>1, <1>7, <3>2 DEF Owed
  <2> QED
    BY <2>1, <2>2
<1> QED
  BY <1>6, <1>8, <1>9, <1>10 DEF RowInv

(* The browser's next endpoint has no row yet.                              *)
LEMMA RowsRotate == PushType /\ RowInv /\ P!Rotate => RowInv'
<1> SUFFICES ASSUME PushType, RowInv, P!Rotate PROVE RowInv'
  OBVIOUS
<1>1. /\ endpoint' = endpoint + 1 /\ endpoint' \in P!Endpoint
      /\ UNCHANGED <<row, member, flag, net, loose, toggle>>
  BY PushAssumption DEF P!Rotate, P!relay, P!page, PushType, P!BoundsAssumption, P!Endpoint
<1>2. \A e \in P!Endpoint : e \in Nat
  BY PushBounds
<1>3. endpoint \in Nat
  BY <1>2 DEF PushType
<1>4. \A e \in P!Endpoint : (e <= endpoint => e <= endpoint') /\ (e > endpoint' => e > endpoint)
  BY ONLY <1>1, <1>2, <1>3
<1>5. endpoint' > endpoint
  BY ONLY <1>1, <1>3
<1>6. OldEndsOnly'
  BY <1>1, <1>4 DEF RowInv, OldEndsOnly
<1>7. LooseOnes' /\ OneSubscribe'
  BY <1>1 DEF RowInv, LooseOnes, OneSubscribe
<1>8. RowsOwed'
  BY <1>1, <1>5 DEF RowInv, OldEndsOnly, RowsOwed
<1> QED
  BY <1>6, <1>7, <1>8 DEF RowInv

(* The relay writes a row for a toggle under way.                           *)
LEMMA RowsSubscribe ==
    ASSUME PushType, RowInv, NEW q \in net, P!Serve(q), q.do = "subscribe"
    PROVE  RowInv'
<1>1. /\ net' = net \ {q} /\ P!Answered(q, "ok") /\ P!Subscribed(q.room, q.end)
      /\ UNCHANGED <<member, endpoint, flag, loose>> /\ q.room \in Room
  BY DEF P!Serve, PushType, P!Posts
<1>2. q.end \in P!Endpoint /\ q.end <= endpoint
  BY DEF RowInv, OldEndsOnly
<1>3. endpoint \in P!Endpoint /\ \A e \in P!Endpoint : e \in Nat
  BY PushBounds DEF PushType
<1>4. \A r \in Room, e \in P!Endpoint : row'[r][e] = row[r][e] \/ (r = q.room /\ e = q.end)
  BY <1>1, <1>2 DEF P!Subscribed, PushType
<1>5. \A e \in P!Endpoint : e > endpoint => e # q.end
  BY ONLY <1>2, <1>3
<1>6. OldEndsOnly'
  BY <1>1, <1>4, <1>5 DEF RowInv, OldEndsOnly
<1>7. /\ toggle = None => toggle' = None
      /\ toggle # None => /\ toggle' # None /\ toggle'.room = toggle.room
                          /\ toggle'.do = toggle.do /\ toggle'.got \in {toggle.got, "ok"}
      /\ toggle # None /\ (toggle.do # q.do \/ toggle.room # q.room) => toggle' = toggle
  <2>1. CASE toggle' = toggle
    BY <1>1, <2>1
  <2>2. CASE toggle' # toggle
    <3>1. toggle # None /\ toggle' = [toggle EXCEPT !.got = "ok"]
          /\ toggle.do = q.do /\ toggle.room = q.room
      BY <1>1, <2>2 DEF P!Answered
    <3>2. toggle \in P!Toggle
      BY <3>1 DEF PushType
    <3>3. toggle' \in P!Toggle
      BY <3>1, <3>2 DEF P!Toggle
    <3> QED
      BY <3>1, <3>2, <3>3, PushBounds DEF P!Toggle
  <2> QED
    BY <2>1, <2>2
<1>8. LooseOnes'
  BY <1>1, <1>7 DEF RowInv, LooseOnes
<1>9. OneSubscribe'
  <2>1. ASSUME NEW p \in net', p.do = "subscribe", p.room \notin loose
        PROVE  toggle' = toggle
    <3>1. p.room # q.room
      BY <1>1, <2>1 DEF RowInv, OneSubscribe
    <3>2. toggle # None /\ toggle.room = p.room
      BY <1>1, <2>1 DEF RowInv, OneSubscribe
    <3> QED
      BY <1>7, <3>1, <3>2
  <2> QED
    BY <1>1, <2>1 DEF RowInv, OneSubscribe
<1>10. RowsOwed'
  <2> SUFFICES ASSUME NEW r \in Room, row'[r][endpoint] # None, flag[r] = None PROVE Owed(r)'
    BY <1>1 DEF RowsOwed
  <2>1. CASE r = q.room
    BY <1>1, <1>7, <2>1 DEF RowInv, OneSubscribe, Owed
  <2>2. CASE r # q.room
    <3>1. Owed(r)
      BY <1>3, <1>4, <2>2 DEF RowInv, RowsOwed
    <3> QED
      BY <1>1, <1>7, <3>1 DEF Owed
  <2> QED
    BY <2>1, <2>2
<1> QED
  BY <1>6, <1>8, <1>9, <1>10 DEF RowInv

(* ... and takes one back.                                                  *)
LEMMA RowsUnsubscribe ==
    ASSUME PushType, RowInv, NEW q \in net, P!Serve(q), q.do = "unsubscribe"
    PROVE  RowInv'
<1>1. /\ net' = net \ {q} /\ P!Answered(q, "ok") /\ q.room \in Room
      /\ row' = [row EXCEPT ![q.room][q.end] = None]
      /\ UNCHANGED <<member, endpoint, flag, loose>>
  BY DEF P!Serve, PushType, P!Posts
<1>2. endpoint \in P!Endpoint
  BY DEF PushType
<1>3. \A r \in Room, e \in P!Endpoint : /\ row'[r][e] \in {row[r][e], None}
                                        /\ r = q.room /\ e = q.end => row'[r][e] = None
  BY <1>1 DEF PushType
<1>4. OldEndsOnly'
  BY <1>1, <1>3 DEF RowInv, OldEndsOnly
<1>5. \/ toggle' = toggle
      \/ /\ toggle # None /\ toggle' # None /\ toggle'.got = "ok"
         /\ toggle.do = "unsubscribe" /\ toggle'.do = "unsubscribe"
  <2>1. CASE toggle' # toggle
    <3>1. toggle # None /\ toggle' = [toggle EXCEPT !.got = "ok"] /\ toggle.do = "unsubscribe"
      BY <1>1, <2>1 DEF P!Answered
    <3>2. toggle \in P!Toggle
      BY <3>1 DEF PushType
    <3>3. toggle' \in P!Toggle
      BY <3>1, <3>2 DEF P!Toggle
    <3> QED
      BY <3>1, <3>2, <3>3, PushBounds DEF P!Toggle
  <2> QED
    BY <2>1
<1>6. LooseOnes' /\ OneSubscribe'
  BY <1>1, <1>5 DEF RowInv, LooseOnes, OneSubscribe
<1>7. RowsOwed'
  <2> SUFFICES ASSUME NEW r \in Room, row'[r][endpoint] # None, flag[r] = None PROVE Owed(r)'
    BY <1>1 DEF RowsOwed
  <2>1. ~(r = q.room /\ endpoint = q.end) /\ row[r][endpoint] # None
    BY <1>2, <1>3
  <2>2. Owed(r)
    BY <2>1 DEF RowInv, RowsOwed
  <2> QED
    BY <1>1, <1>5, <2>1, <2>2 DEF Owed
<1> QED
  BY <1>4, <1>6, <1>7 DEF RowInv

(* A request that is refused or lost, and a mark or a push that is served.  *)
LEMMA RowsElse ==
    ASSUME PushType, RowInv, NEW q \in net,
           \/ P!Serve(q) /\ q.do \in {"mark", "unmark", "push"}
           \/ P!Refuse(q) \/ \E done \in BOOLEAN : P!Lose(q, done)
    PROVE  RowInv'
<1>1. q.room \in Room /\ endpoint \in P!Endpoint /\ \A e \in P!Endpoint : e \in Nat
  BY PushBounds DEF PushType, P!Posts
<1>2. /\ net' = net \ {q} /\ loose \subseteq loose' /\ UNCHANGED <<member, endpoint, flag>>
      /\ q.do \in {"mark", "unmark", "push"} \/ q.room \in loose'
  <2>1. CASE P!Serve(q) /\ q.do \in {"mark", "unmark", "push"}
    BY <2>1 DEF P!Serve
  <2>2. CASE P!Refuse(q)
    BY <1>1, <2>2 DEF P!Refuse, P!relay, RowInv, LooseOnes
  <2>3. CASE \E done \in BOOLEAN : P!Lose(q, done)
    BY <2>3 DEF P!Lose
  <2> QED
    BY <2>1, <2>2, <2>3
<1>3. \/ toggle' = toggle
      \/ /\ toggle # None /\ toggle.room \in loose'
         /\ toggle' # None => toggle'.room = toggle.room
  <2> SUFFICES ASSUME toggle' # toggle
               PROVE  /\ toggle # None /\ toggle.room \in loose'
                      /\ toggle' # None => toggle'.room = toggle.room
    OBVIOUS
  <2>1. /\ toggle # None /\ toggle.do = q.do /\ toggle.room = q.room
        /\ \E g \in {"ok", "failed"} : toggle' = [toggle EXCEPT !.got = g]
    BY DEF P!Serve, P!Refuse, P!Lose, P!Answered
  <2>2. toggle \in P!Toggle
    BY <2>1 DEF PushType
  <2>3. toggle.do \in {"subscribe", "unsubscribe"} /\ toggle'.room = toggle.room
    BY <2>1, <2>2 DEF P!Toggle
  <2>4. ~(P!Serve(q) /\ q.do \in {"mark", "unmark", "push"})
    BY <2>1, <2>3
  <2>5. q.room \in loose'
    BY <1>1, <1>2, <2>4 DEF P!Refuse, P!Lose, P!relay, RowInv, LooseOnes
  <2> QED
    BY <2>1, <2>3, <2>5
<1>4. \/ \A r \in Room, e \in P!Endpoint : row[r][e] = None => row'[r][e] = None
      \/ P!Subscribed(q.room, q.end) /\ q.room \in loose' /\ q.do = "subscribe"
  <2>1. \/ row' = row
        \/ P!Marked(q.room, q.end, clock) \/ P!Marked(q.room, q.end, 0)
        \/ P!Notify(q.room, q.end)
        \/ P!Subscribed(q.room, q.end) /\ q.room \in loose' /\ q.do = "subscribe"
    <3>1. CASE P!Serve(q)
      BY <3>1 DEF P!Serve, P!Refuse, P!Lose
    <3>2. CASE P!Refuse(q)
      BY <3>2 DEF P!Refuse, P!relay
    <3>3. CASE \E done \in BOOLEAN : P!Lose(q, done)
      BY <3>3 DEF P!Lose
    <3> QED
      BY <3>1, <3>2, <3>3
  <2>2. CASE P!Marked(q.room, q.end, clock) \/ P!Marked(q.room, q.end, 0)
    BY <2>2 DEF P!Marked, PushType
  <2>3. CASE P!Notify(q.room, q.end)
    BY <1>1, <2>3 DEF P!Notify, PushType
  <2> QED
    BY <2>1, <2>2, <2>3
<1>5. \A r \in Room, e \in P!Endpoint :
          row'[r][e] # None => row[r][e] # None \/ (r \in loose' /\ e <= endpoint)
  <2>1. CASE P!Subscribed(q.room, q.end) /\ q.room \in loose' /\ q.do = "subscribe"
    <3>1. q.end \in P!Endpoint /\ q.end <= endpoint
      BY <2>1 DEF RowInv, OldEndsOnly
    <3> QED
      BY <1>1, <2>1, <3>1 DEF P!Subscribed, PushType
  <2> QED
    BY <1>4, <2>1
<1>6. \A r \in Room, e \in P!Endpoint : e > endpoint => row'[r][e] = None
  <2>1. \A e \in P!Endpoint : e > endpoint => ~(e <= endpoint)
    BY ONLY <1>1
  <2> QED
    BY <1>5, <2>1 DEF RowInv, OldEndsOnly
<1>7. Room \ member' \subseteq loose'
  BY <1>2 DEF RowInv, LooseOnes
<1>8. \A p \in net \ net' : p.do = "unsubscribe" => p.room \in loose'
  BY <1>2
<1> QED
  BY <1>1, <1>2, <1>3, <1>5, <1>6, <1>7, <1>8, RowsStay

LEMMA RowsKept == PushInv /\ P!Next => RowInv'
<1> SUFFICES ASSUME PushInv, P!Next PROVE RowInv'
  OBVIOUS
<1>0. /\ PushType /\ RowInv /\ endpoint \in P!Endpoint /\ endpoint <= endpoint
      /\ at \in Room \cup {None} /\ toggle \in P!Toggle \cup {None}
      /\ Room \ member \subseteq loose
      /\ \A r \in Room, e \in P!Endpoint : e > endpoint => row[r][e] = None
  BY PushBounds DEF PushInv, PushType, RowInv, LooseOnes, OldEndsOnly
<1>1. ASSUME NEW r \in Room \cup {None}, NEW load \in BOOLEAN, P!Show(r, load)
      PROVE  RowInv'
  <2>1. /\ UNCHANGED <<row, member, endpoint, flag>> /\ toggle' \in {toggle, None}
        /\ net \subseteq net'
        /\ \A q \in net' \ net : q \in P!Marks(at, status, r, status', visible)
        /\ loose' = loose \cup {s \in Room : toggle # None /\ toggle' = None
                                            /\ toggle.room = s}
    BY <1>1 DEF P!Show, P!relay, P!Flight, P!Cut
  <2>2. \A q \in net' \ net : q.do \in {"mark", "unmark"} /\ q.end = endpoint
    BY <1>0, <2>1, MarksAre
  <2>3. toggle' = toggle \/ (toggle # None /\ toggle' = None /\ toggle.room \in loose')
    BY <1>0, <2>1 DEF P!Toggle
  <2> QED
    BY <1>0, <2>1, <2>2, <2>3, RowsStay
<1>2. CASE P!HideOrShow
  <2>1. /\ UNCHANGED <<row, member, endpoint, flag, toggle, loose>> /\ net \subseteq net'
        /\ \A q \in net' \ net : at # None /\ q \in P!Refresh(at, visible')
    BY <1>2 DEF P!HideOrShow, P!relay, P!Flight
  <2>2. \A q \in net' \ net : q.do \in {"mark", "unmark"} /\ q.end = endpoint
    BY <1>0, <2>1, RefreshIs
  <2> QED
    BY <1>0, <2>1, <2>2, RowsStay
<1>3. CASE P!SendOwn
  <2>1. /\ UNCHANGED <<row, member, endpoint, flag, toggle, loose>> /\ net \subseteq net'
        /\ \A q \in net' \ net : q.do = "push"
    BY <1>3 DEF P!SendOwn, P!relay, P!page, P!Flight, P!Post
  <2> QED
    BY <1>0, <2>1, RowsStay
<1>4. ASSUME NEW r \in Room, P!NotifyOther(r) PROVE RowInv'
  <2>1. /\ UNCHANGED <<member, endpoint, flag, toggle, loose, net>>
        /\ \A s \in Room, e \in P!Endpoint : row'[s][e] \in {None, row[s][e]}
    BY <1>0, <1>4 DEF P!NotifyOther, P!Notify, P!page, PushType
  <2> QED
    BY <1>0, <2>1, RowsStay
<1>5. ASSUME NEW q \in net, P!Serve(q) \/ P!Refuse(q) \/ \E done \in BOOLEAN : P!Lose(q, done)
      PROVE  RowInv'
  <2>1. q.do \in {"subscribe", "unsubscribe", "mark", "unmark", "push"}
    BY <1>0 DEF PushType, P!Posts
  <2> QED
    BY <1>0, <1>5, <2>1, RowsSubscribe, RowsUnsubscribe, RowsElse
<1>6. ASSUME NEW r \in Room, NEW left \in BOOLEAN, P!Forget(r, left) PROVE RowInv'
  BY <1>0, <1>6, RowsForget
<1> QED
  BY <1>0, <1>1, <1>2, <1>3, <1>4, <1>5, <1>6, PushSteps, RowsOn, RowsOff, RowsEnd,
     RowsRotate, RowsTick

LEMMA PushKept == PushInv /\ [P!Next]_push => PushInv'
<1>1. PushInv /\ P!Next => PushInv'
  BY PushTypeKept, MarksKept, RowsKept DEF PushInv
<1>2. PushInv /\ UNCHANGED push => PushInv'
  <2> SUFFICES ASSUME PushInv, UNCHANGED push PROVE PushInv'
    OBVIOUS
  <2>1. PushType'
    BY DEF PushInv, PushType, push
  <2>2. LooksNow' /\ MarksAreRecent' /\ P!SuppressedForCause'
    BY DEF PushInv, MarkInv, LooksNow, MarksAreRecent, P!SuppressedForCause, push
  <2>3. RowInv'
    BY DEF PushInv, RowInv, OldEndsOnly, LooseOnes, OneSubscribe, RowsOwed, Owed, push
  <2> QED
    BY <2>1, <2>2, <2>3 DEF PushInv, MarkInv
<1> QED
  BY <1>1, <1>2
-----------------------------------------------------------------------------
(* The sum: the two parts' invariants, whichever part moves.                *)
RelayParts == RateInv /\ PushInv

LEMMA PartsKept == RelayInit /\ [][RelayNext]_all => []RelayParts
<1>1. RelayInit => RelayParts
  BY RateBegins, PushBegins DEF RelayInit, RelayParts
<1>2. RelayParts /\ [RelayNext]_all => RelayParts'
  <2> SUFFICES ASSUME RelayParts, [RelayNext]_all PROVE RelayParts'
    OBVIOUS
  <2>1. [L!Next]_rate /\ [P!Next]_push
    BY DEF RelayNext, all
  <2> QED
    BY <2>1, RateKept, PushKept DEF RelayParts
<1> QED
  BY <1>1, <1>2, PTL

LEMMA SpecSteps == RelaySpec => RelayInit /\ [][RelayNext]_all
BY PTL DEF RelaySpec

(* The limiter's own copy of the library counts as the library does.        *)
LEMMA SameCardinality == ASSUME NEW S PROVE L!Cardinality(S) = Cardinality(S)
BY DEF L!Cardinality, Cardinality

(* Of the requests that key with the file's secret, a window lets the       *)
(* limit through, and that many again for each late request that set the    *)
(* counter back over it, for any requests, addresses, limit and window.     *)
THEOREM LimitIsHeld == RelaySpec => []LimitHolds
<1>1. RelayParts => LimitHolds
  <2> SUFFICES ASSUME RelayParts PROVE L!LimitHolds
    BY DEF LimitHolds
  <2>1. ASSUME NEW c \in Client, NEW w \in 0..MaxTick
        PROVE  Cardinality(L!Through(c, w)) <= Limit * (1 + setbacks[c][w])
    <3>1. Limit \in Nat /\ setbacks[c][w] \in Nat
      BY SetbacksAreNat, RateAssumption DEF L!LimitAssumption, RelayParts, RateInv, Windows
    <3>2. Limit * (1 + setbacks[c][w]) = More(c, w) + Limit /\ More(c, w) \in Nat
      BY ONLY <3>1, OneMore DEF More
    <3>3. CASE counter \in Request
      <4>1. L!Through(c, w) = InWindow(counter, c, w)
        BY DEF L!Through, InWindow
      <4>2. Cardinality(InWindow(counter, c, w)) <= More(c, w) + Limit
        BY <3>3 DEF RelayParts, RateInv, RowsCount, Counts, Windows
      <4> QED
        BY <3>2, <4>1, <4>2
    <3>4. CASE counter \notin Request
      <4>1. L!Through(c, w) = {}
        BY <3>4 DEF L!Through, RelayParts, RateInv, Timely
      <4>2. Cardinality(L!Through(c, w)) = 0
        BY <4>1, FS_EmptySet
      <4> QED
        BY ONLY <3>1, <3>2, <4>2
    <3> QED
      BY <3>3, <3>4
  <2> QED
    BY <2>1, SameCardinality DEF L!LimitHolds
<1> QED
  BY <1>1, PartsKept, SpecSteps, PTL

(* A push is held back only for a page that shows the room or has just done *)
(* so, and the live endpoint of a room whose switch is off is kept only     *)
(* while its removal is under way or was lost (push.ts, server/push.php).   *)
THEOREM PushesHaveCause == RelaySpec => []PushesForCause
<1>1. RelayParts => PushesForCause
  <2> SUFFICES ASSUME RelayParts PROVE PushesForCause
    OBVIOUS
  <2>1. P!SuppressedForCause
    BY DEF RelayParts, PushInv, MarkInv
  <2>2. P!RowForCause
    BY DEF RelayParts, PushInv, RowInv, RowsOwed, Owed, P!RowForCause
  <2> QED
    BY <2>1, <2>2 DEF PushesForCause
<1> QED
  BY <1>1, PartsKept, SpecSteps, PTL
=============================================================================
