--------------------------- MODULE TimelineProofs ---------------------------
(***************************************************************************)
(* Theorems about Timeline, for any messages, rooms and catch-up loops.    *)
(*                                                                         *)
(* The argument.  Every record anywhere tells the room its message was     *)
(* posted to.  Everything on screen is in IndexedDB or on its way there;   *)
(* from the moment the rows of a room are read, everything saved of it was *)
(* among those rows or is on screen; and a row that a catch-up was         *)
(* answered with is yet to be handled or is saved.  A put that is asked    *)
(* for only replaces a row of the same message, and one that lands changes *)
(* nothing a later read sees: so these three survive any interleaving.     *)
(***************************************************************************)
EXTENDS Timeline, TLAPS

Event == [id : Msg, room : Room, ts : Nat]
Loop == [at : {"idle", "load", "fetch", "ingest"}, room : Room \cup {NoRoom}, since : Nat,
         todo : SUBSET Record, rows : SUBSET Record]

TypeOK ==
    /\ now \in Nat
    /\ stage \in [Msg -> {"none", "published", "stored"}]
    /\ roomOf \in [Msg -> Room \cup {NoRoom}]
    /\ at \in [Msg -> Nat] /\ kept \in [Msg -> Nat] /\ live \in [Msg -> BOOLEAN]
    /\ here \in Room \cup {NoRoom} /\ phase \in {"closed", "reset", "merge", "ready"}
    /\ history \subseteq Record
    /\ conn \in {"none", "open", "broken"} /\ opens \in Nat /\ unseen \subseteq Msg
    /\ inbox \subseteq Event /\ sync \in [Task -> Loop]
    /\ screen \subseteq Record /\ puts \in Seq(Record) /\ disk \subseteq Record
    /\ sending \in Own \cup {NoMsg}

(* A message has a room once it is published; the page has one while it is  *)
(* open, and so has a loop under way.                                       *)
RoomsKnown ==
    /\ \A m \in Msg : stage[m] # "none" => roomOf[m] \in Room
    /\ phase # "closed" => here \in Room
    /\ \A t \in Task : sync[t].at # "idle" => sync[t].room \in Room
    /\ \A m \in unseen : stage[m] # "none"
    /\ sending # NoMsg => stage[sending] # "none"

(* A record is of a published message and names its room.                   *)
Placed(x) == stage[x.id] # "none" /\ x.room = roomOf[x.id]
Queued == {puts[i] : i \in DOMAIN puts}
Truthful ==
    /\ \A x \in screen \cup disk \cup history \cup inbox \cup Queued : Placed(x)
    /\ \A t \in Task : \A x \in sync[t].todo : Placed(x)

(* What is on screen, or was read to be, is saved or being saved.           *)
ShownIsSaved == IdsOf(screen) \cup IdsOf(history) \subseteq IdsOf(Landed)

(* From the reading of the rows on, what is saved of this room was read or  *)
(* is on screen.                                                            *)
ReadOrShown ==
    /\ phase = "merge" =>
        IdsOf(InRoom(Landed, here)) \subseteq IdsOf(history) \cup IdsOf(InRoom(screen, here))
    /\ SavedIsShown

(* A row that a loop was answered with is still to be handled, or saved.    *)
AnsweredIsHeld ==
    \A t \in Task : sync[t].at = "ingest" =>
        IdsOf(sync[t].rows) \subseteq IdsOf(sync[t].todo) \cup IdsOf(Landed)

IInv == TypeOK /\ RoomsKnown /\ Truthful /\ ShownIsSaved /\ ReadOrShown /\ AnsweredIsHeld
-----------------------------------------------------------------------------
(* A put at the end of the queue replaces the row of its id, as it would    *)
(* replace it in the store.                                                 *)
LEMMA WrittenAppend ==
    ASSUME NEW R, NEW q \in Seq(R), NEW x \in R, NEW rows
    PROVE  Written(rows, Append(q, x)) = Put(Written(rows, q), x)
<1> DEFINE p == Append(q, x)
           n == Len(q)
<1>1. /\ DOMAIN p = 1..(n + 1) /\ DOMAIN q = 1..n /\ n \in Nat
      /\ p[n + 1] = x /\ \A i \in 1..n : p[i] = q[i]
  OBVIOUS
<1>2. n + 1 \in Latest(p) /\ \A i \in Latest(p) : i # n + 1 => i \in Latest(q) /\ q[i].id # x.id
  BY <1>1 DEF Latest
<1>3. \A i \in Latest(q) : q[i].id # x.id => i \in Latest(p)
  BY <1>1 DEF Latest
<1>4. {p[i] : i \in Latest(p)} = {y \in {q[i] : i \in Latest(q)} : y.id # x.id} \cup {x}
  <2>1. \A i \in Latest(p) : p[i] \in {y \in {q[j] : j \in Latest(q)} : y.id # x.id} \cup {x}
    <3> SUFFICES ASSUME NEW i \in Latest(p), i # n + 1
                 PROVE  p[i] \in {q[j] : j \in Latest(q)} /\ p[i].id # x.id
      BY <1>1
    <3>1. i \in Latest(q) /\ q[i].id # x.id /\ i \in 1..n
      BY <1>1, <1>2 DEF Latest
    <3> QED
      BY <3>1, <1>1
  <2>2. \A i \in Latest(q) : q[i].id # x.id => q[i] \in {p[j] : j \in Latest(p)}
    <3> SUFFICES ASSUME NEW i \in Latest(q), q[i].id # x.id
                 PROVE  q[i] \in {p[j] : j \in Latest(p)}
      OBVIOUS
    <3>1. i \in 1..n /\ i \in Latest(p)
      BY <1>1, <1>3 DEF Latest
    <3> QED
      BY <3>1, <1>1
  <2>3. x \in {p[j] : j \in Latest(p)}
    BY <1>1, <1>2
  <2> QED
    BY <2>1, <2>2, <2>3
<1>5. \A y : (\A i \in DOMAIN p : p[i].id # y.id)
               <=> (\A i \in DOMAIN q : q[i].id # y.id) /\ y.id # x.id
  BY <1>1
<1> QED
  BY <1>4, <1>5 DEF Written, Put

(* A put that lands leaves what a later read sees as it is.                 *)
LEMMA WrittenTail ==
    ASSUME NEW R, NEW q \in Seq(R), q # <<>>, NEW rows
    PROVE  Written(Put(rows, Head(q)), Tail(q)) = Written(rows, q)
<1> DEFINE n == Len(q)
           p == Tail(q)
<1>1. /\ n \in Nat \ {0} /\ DOMAIN q = 1..n /\ DOMAIN p = 1..(n - 1)
      /\ \A i \in 1..(n - 1) : p[i] = q[i + 1]
      /\ Head(q) = q[1]
  OBVIOUS
<1>2. \A i \in 1..(n - 1) : i \in Latest(p) <=> i + 1 \in Latest(q)
  <2> SUFFICES ASSUME NEW i \in 1..(n - 1) PROVE i \in Latest(p) <=> i + 1 \in Latest(q)
    OBVIOUS
  <2>1. i + 1 \in 1..n /\ \A j \in 1..n : j # 1 => j - 1 \in 1..(n - 1) /\ (j - 1) + 1 = j
    BY <1>1
  <2>2. ASSUME i \in Latest(p) PROVE i + 1 \in Latest(q)
    <3> SUFFICES ASSUME NEW j \in 1..n, q[j].id = q[i + 1].id PROVE j <= i + 1
      BY <1>1, <2>1 DEF Latest
    <3>1. CASE j = 1
      BY <3>1
    <3>2. CASE j # 1
      <4>1. j - 1 \in DOMAIN p /\ p[j - 1] = q[j] /\ p[i] = q[i + 1]
        BY <3>2, <2>1, <1>1
      <4>2. j - 1 <= i
        BY <4>1, <2>2 DEF Latest
      <4> QED
        BY <4>2, <1>1
    <3> QED
      BY <3>1, <3>2
  <2>3. ASSUME i + 1 \in Latest(q) PROVE i \in Latest(p)
    <3> SUFFICES ASSUME NEW j \in 1..(n - 1), p[j].id = p[i].id PROVE j <= i
      BY <1>1 DEF Latest
    <3>1. j + 1 \in DOMAIN q /\ q[j + 1].id = q[i + 1].id
      BY <1>1
    <3> QED
      BY <3>1, <2>3 DEF Latest
  <2> QED
    BY <2>2, <2>3
<1>3. 1 \in Latest(q) <=> \A i \in 1..(n - 1) : p[i].id # q[1].id
  <2>1. ASSUME 1 \in Latest(q), NEW i \in 1..(n - 1) PROVE p[i].id # q[1].id
    <3>1. i + 1 \in DOMAIN q /\ p[i] = q[i + 1] /\ ~ (i + 1 <= 1)
      BY <1>1
    <3> QED
      BY <3>1, <2>1 DEF Latest
  <2>2. ASSUME \A i \in 1..(n - 1) : p[i].id # q[1].id PROVE 1 \in Latest(q)
    <3> SUFFICES ASSUME NEW j \in 1..n, q[j].id = q[1].id, j # 1 PROVE FALSE
      BY <1>1 DEF Latest
    <3>1. j - 1 \in 1..(n - 1) /\ p[j - 1] = q[j]
      BY <1>1
    <3> QED
      BY <3>1, <2>2
  <2> QED
    BY <2>1, <2>2
<1> DEFINE first == IF 1 \in Latest(q) THEN {q[1]} ELSE {}
<1>4. {q[i] : i \in Latest(q)} = {p[i] : i \in Latest(p)} \cup first
  <2>1. ASSUME NEW i \in Latest(q) PROVE q[i] \in {p[j] : j \in Latest(p)} \cup first
    <3>1. CASE i = 1
      BY <3>1, <2>1
    <3>2. CASE i # 1
      <4>1. i - 1 \in 1..(n - 1) /\ (i - 1) + 1 = i
        BY <3>2, <1>1, <2>1 DEF Latest
      <4> QED
        BY <4>1, <1>1, <1>2, <2>1
    <3> QED
      BY <3>1, <3>2
  <2>2. ASSUME NEW i \in Latest(p) PROVE p[i] \in {q[j] : j \in Latest(q)}
    <3>1. i \in 1..(n - 1)
      BY <1>1 DEF Latest
    <3> QED
      BY <3>1, <1>1, <1>2
  <2> QED
    BY <2>1, <2>2
<1>5. {y \in Put(rows, q[1]) : \A i \in DOMAIN p : p[i].id # y.id}
        = {y \in rows : \A i \in DOMAIN q : q[i].id # y.id} \cup first
  <2>1. ASSUME NEW y
        PROVE  (\A i \in DOMAIN q : q[i].id # y.id)
                 <=> (\A i \in DOMAIN p : p[i].id # y.id) /\ y.id # q[1].id
    <3>1. ASSUME \A i \in DOMAIN q : q[i].id # y.id
          PROVE  (\A i \in DOMAIN p : p[i].id # y.id) /\ y.id # q[1].id
      <4>1. 1 \in DOMAIN q /\ \A i \in DOMAIN p : i + 1 \in DOMAIN q /\ p[i] = q[i + 1]
        BY <1>1
      <4> QED
        BY <4>1, <3>1
    <3>2. ASSUME \A i \in DOMAIN p : p[i].id # y.id, y.id # q[1].id, NEW i \in DOMAIN q
          PROVE  q[i].id # y.id
      <4>1. i = 1 \/ (i - 1 \in DOMAIN p /\ p[i - 1] = q[i])
        BY <1>1
      <4> QED
        BY <4>1, <3>2
    <3> QED
      BY <3>1, <3>2
  <2>2. \A y \in first : y = q[1] /\ \A i \in DOMAIN p : p[i].id # y.id
    BY <1>1, <1>3
  <2>3. (\A i \in DOMAIN p : p[i].id # q[1].id) => q[1] \in first
    BY <1>1, <1>3
  <2> HIDE DEF first, p
  <2> QED
    BY <2>1, <2>2, <2>3 DEF Put
<1> QED
  BY <1>1, <1>4, <1>5 DEF Written
-----------------------------------------------------------------------------
LEMMA InitIInv == Init => IInv
<1> SUFFICES ASSUME Init PROVE IInv
  OBVIOUS
<1> USE DEF Init
<1>1. Asleep \in Loop
  BY DEF Asleep, Loop
<1>2. TypeOK
  BY <1>1 DEF TypeOK, Loop
<1>3. Landed = {}
  BY DEF Landed, Written, Latest
<1>4. RoomsKnown /\ Truthful /\ ShownIsSaved /\ ReadOrShown /\ AnsweredIsHeld
  BY <1>3 DEF RoomsKnown, Truthful, ShownIsSaved, ReadOrShown, SavedIsShown, AnsweredIsHeld,
             Queued, IdsOf, InRoom, Asleep
<1> QED
  BY <1>2, <1>4 DEF IInv

(* What a message's record says of its room stays true.                     *)
LEMMA PlacedStays ==
    ASSUME TypeOK, [Next]_vars, NEW x, x.id \in Msg, Placed(x)
    PROVE  Placed(x)'
<1>1. CASE \E m \in Msg, r \in Room \cup {NoRoom} : Publish(m, r)
  BY <1>1 DEF Publish, Placed, TypeOK
<1>2. CASE \E m \in Msg : Store(m)
  BY <1>2 DEF Store, Placed, TypeOK
<1>3. CASE UNCHANGED <<stage, roomOf>>
  BY <1>3 DEF Placed
<1>4. \/ \E m \in Msg, r \in Room \cup {NoRoom} : Publish(m, r)
      \/ \E m \in Msg : Store(m)
      \/ UNCHANGED <<stage, roomOf>>
  BY DEF Next, Relay, TheyPost, Send, Expire, Sent, Handle, Drop, CatchUp, Open, LoadLocal,
         Fetch,
         Ingest, Finish, Enter, ReadHistory, Merge, WriteLands, Close, Tick, vars, relay, TypeOK
<1> QED
  BY <1>1, <1>2, <1>3, <1>4

(* A step that shows a record w, or brings up to date what shows it, and    *)
(* may ask for a put of it.                                                 *)
Adds(w) ==
    /\ w \in Record /\ Placed(w)
    /\ screen' \subseteq Record /\ \A v \in screen' : Placed(v)
    /\ IdsOf(screen') \subseteq IdsOf(screen) \cup {w.id}
    /\ \E v \in screen' : v.id = w.id /\ v.room = w.room
    /\ \A y \in screen : \E v \in screen' : v.id = y.id /\ v.room = y.room /\ v.what = y.what
    /\ puts' = Append(puts, w) \/ (puts' = puts /\ w.id \in IdsOf(screen))
    /\ disk' = disk

LEMMA ShowTextAdds ==
    ASSUME TypeOK, Truthful, NEW x \in Record, Placed(x), ShowText(x), disk' = disk
    PROVE  \E w : Adds(w)
<1>1. CASE x.id \notin IdsOf(screen) /\ screen' = screen \cup {x} /\ puts' = Append(puts, x)
  <2>1. Adds(x)
    BY <1>1 DEF Adds, Truthful, TypeOK, IdsOf
  <2> QED
    BY <2>1
<1>2. ASSUME NEW y \in screen, y.id = x.id,
             screen' = (screen \ {y}) \cup {[y EXCEPT !.ts = x.ts]},
             puts' = IF [y EXCEPT !.ts = x.ts] = y THEN puts
                     ELSE Append(puts, [y EXCEPT !.ts = x.ts])
      PROVE  \E w : Adds(w)
  <2> DEFINE w == [y EXCEPT !.ts = x.ts]
  <2>1. /\ w \in Record /\ w.id = y.id /\ w.room = y.room /\ w.what = y.what
        /\ Placed(y) /\ screen \subseteq Record /\ \A v \in screen : Placed(v)
    BY DEF Record, TypeOK, Truthful
  <2>2. Placed(w)
    BY <2>1 DEF Placed
  <2>3. screen' = (screen \ {y}) \cup {w} /\ (puts' = Append(puts, w) \/ puts' = puts)
    BY <1>2
  <2> HIDE DEF w
  <2>4. Adds(w)
    BY <2>1, <2>2, <2>3 DEF Adds, IdsOf
  <2> QED
    BY <2>4
<1> QED
  BY <1>1, <1>2 DEF ShowText

LEMMA ShowTombstoneAdds ==
    ASSUME TypeOK, Truthful, NEW x \in Record, Placed(x), ShowTombstone(x), disk' = disk
    PROVE  Adds(x)
<1>1. CASE x.id \in IdsOf(screen)
  BY <1>1 DEF ShowTombstone, Adds, Truthful, TypeOK, IdsOf, Placed
<1>2. CASE x.id \notin IdsOf(screen)
  BY <1>2 DEF ShowTombstone, Adds, Truthful, TypeOK, IdsOf
<1> QED
  BY <1>1, <1>2

LEMMA SentAdds ==
    ASSUME TypeOK, RoomsKnown, Truthful, Sent
    PROVE  \E w : Adds(w)
<1> DEFINE x == [id |-> sending, room |-> roomOf[sending], ts |-> now, what |-> "text"]
<1>1. x \in Record /\ Placed(x) /\ x.id = sending
  BY DEF Sent, TypeOK, RoomsKnown, Record, Placed, Msg
<1>2. /\ puts' = Append(puts, x) /\ disk' = disk
      /\ screen' = IF x.id \in IdsOf(screen) THEN screen ELSE screen \cup {x}
  BY DEF Sent
<1> HIDE DEF x
<1>3. Adds(x)
  <2>1. CASE x.id \in IdsOf(screen)
    BY <1>1, <1>2, <2>1 DEF Adds, Truthful, TypeOK, IdsOf, Placed
  <2>2. CASE x.id \notin IdsOf(screen)
    BY <1>1, <1>2, <2>2 DEF Adds, Truthful, TypeOK, IdsOf
  <2> QED
    BY <2>1, <2>2
<1> QED
  BY <1>3

(* The steps that touch the list or the rows of a page that stays open.     *)
LEMMA AddingSteps ==
    ASSUME TypeOK, RoomsKnown, Truthful,
           Sent \/ (\E e \in inbox : Handle(e)) \/ (\E t \in Task : Ingest(t))
    PROVE  (\E w : Adds(w)) /\ UNCHANGED page
<1>1. CASE Sent
  BY <1>1, SentAdds DEF Sent
<1>2. ASSUME NEW e \in inbox, Handle(e)
      PROVE  (\E w : Adds(w)) /\ UNCHANGED page
  <2> DEFINE x == [id |-> e.id, room |-> e.room, ts |-> e.ts, what |-> "text"]
  <2>1. x \in Record /\ Placed(x) /\ ShowText(x) /\ disk' = disk /\ UNCHANGED page
    BY <1>2 DEF Handle, TypeOK, Event, Record, Truthful, Placed
  <2> HIDE DEF x
  <2> QED
    BY <2>1, ShowTextAdds
<1>3. ASSUME NEW t \in Task, Ingest(t)
      PROVE  (\E w : Adds(w)) /\ UNCHANGED page
  <2>1. PICK x \in sync[t].todo : IF x.what = "text" THEN ShowText(x) ELSE ShowTombstone(x)
    BY <1>3 DEF Ingest
  <2>2. x \in Record /\ Placed(x) /\ disk' = disk /\ UNCHANGED page
    BY <1>3 DEF Ingest, TypeOK, Loop, Truthful
  <2> QED
    BY <2>1, <2>2, ShowTextAdds, ShowTombstoneAdds
<1> QED
  BY <1>1, <1>2, <1>3

(* What such a step does to what is saved and shown.                        *)
LEMMA AddingKeeps ==
    ASSUME IInv, NEW w, Adds(w), UNCHANGED page
    PROVE  /\ ShownIsSaved' /\ ReadOrShown' /\ IdsOf(Landed) \subseteq IdsOf(Landed')
           /\ w.id \in IdsOf(Landed')
           /\ puts' \in Seq(Record) /\ Queued' \subseteq Queued \cup {w}
<1>1. CASE puts' = puts /\ w.id \in IdsOf(screen)
  <2>1. Landed' = Landed
    BY <1>1 DEF Landed, Adds
  <2>2. /\ puts' \in Seq(Record) /\ Queued' = Queued
        /\ IdsOf(screen) \subseteq IdsOf(Landed) /\ IdsOf(history) \subseteq IdsOf(Landed)
    BY <1>1 DEF IInv, TypeOK, Queued, ShownIsSaved
  <2>3. ShownIsSaved' /\ w.id \in IdsOf(Landed')
    BY <1>1, <2>1, <2>2 DEF ShownIsSaved, Adds, page
  <2>4. \A y \in screen : \E v \in screen' : v.id = y.id /\ v.room = y.room
    BY DEF Adds
  <2>5. ReadOrShown'
    BY <2>1, <2>4 DEF IInv, ReadOrShown, SavedIsShown, IdsOf, InRoom, page
  <2> QED
    BY <2>1, <2>2, <2>3, <2>5
<1>2. CASE puts' = Append(puts, w)
  <2>1. Landed' = Put(Landed, w) /\ puts \in Seq(Record) /\ w \in Record
    BY <1>2, WrittenAppend DEF Landed, Adds, IInv, TypeOK
  <2>2. /\ puts' \in Seq(Record) /\ DOMAIN puts' = 1..(Len(puts) + 1)
        /\ DOMAIN puts = 1..Len(puts) /\ puts'[Len(puts) + 1] = w
        /\ \A i \in DOMAIN puts : puts'[i] = puts[i]
    BY <1>2, <2>1
  <2>3. Queued' \subseteq Queued \cup {w}
    BY <2>2 DEF Queued
  <2>4. \A y \in Landed' : y = w \/ y \in Landed
    BY <2>1 DEF Put
  <2>5. IdsOf(Landed) \subseteq IdsOf(Landed') /\ w.id \in IdsOf(Landed')
    BY <2>1 DEF Put, IdsOf
  <2>6. ShownIsSaved'
    BY <2>5 DEF IInv, ShownIsSaved, Adds, page
  <2>7. \A y \in screen : \E v \in screen' : v.id = y.id /\ v.room = y.room
    BY DEF Adds
  <2>8. \E v \in screen' : v.id = w.id /\ v.room = w.room
    BY DEF Adds
  <2>9. ReadOrShown'
    BY <2>4, <2>7, <2>8 DEF IInv, ReadOrShown, SavedIsShown, IdsOf, InRoom, page
  <2> QED
    BY <2>2, <2>3, <2>5, <2>6, <2>9
<1> QED
  BY <1>1, <1>2 DEF Adds
-----------------------------------------------------------------------------
LEMMA TypeKept == IInv /\ [Next]_vars => TypeOK' /\ RoomsKnown'
<1> SUFFICES ASSUME IInv, [Next]_vars PROVE TypeOK' /\ RoomsKnown'
  OBVIOUS
<1> USE DEF TypeOK, RoomsKnown, relay, page, stream, local
<1>0. Asleep \in Loop
  BY DEF Asleep, Loop
<1>1. ASSUME NEW m \in Msg, NEW r \in Room, Publish(m, r), sending' \in {sending, m},
             sending' # sending => m \in Own
      PROVE  TypeOK' /\ RoomsKnown'
  <2>1. EventOf(m) \in Event
    BY <1>1 DEF Publish, EventOf, Event, IInv
  <2> QED
    BY <1>1, <2>1 DEF Publish, IInv
<1>2. ASSUME NEW m \in Msg, Relay(m) PROVE TypeOK' /\ RoomsKnown'
  <2>1. CASE \E r \in Room : TheyPost(m, r)
    BY <1>1, <2>1 DEF TheyPost
  <2>2. CASE Store(m)
    BY <2>2 DEF Store, IInv
  <2>3. CASE Expire(m)
    BY <2>3 DEF Expire, IInv
  <2>4. CASE Send(m)
    <3>1. here \in Room /\ m \in Own /\ Publish(m, here) /\ sending' = m
      BY <2>4 DEF Send, IInv
    <3> QED
      BY <3>1, <1>1
  <2> QED
    BY <1>2, <2>1, <2>2, <2>3, <2>4 DEF Relay
<1>3. CASE Sent \/ (\E e \in inbox : Handle(e)) \/ (\E t \in Task : Ingest(t))
  <2>1. /\ screen' \subseteq Record /\ puts' \in Seq(Record) /\ disk' = disk
        /\ UNCHANGED page
    BY <1>3, AddingSteps, AddingKeeps DEF IInv, Adds
  <2>2. CASE Sent
    BY <2>1, <2>2 DEF Sent, IInv
  <2>3. CASE \E e \in inbox : Handle(e)
    BY <2>1, <2>3 DEF Handle, IInv
  <2>4. ASSUME NEW t \in Task, Ingest(t) PROVE TypeOK' /\ RoomsKnown'
    <3>1. /\ sync' \in [Task -> Loop]
          /\ \A u \in Task : sync'[u].at = sync[u].at /\ sync'[u].room = sync[u].room
      <4>1. PICK x \in sync[t].todo : sync' = [sync EXCEPT ![t].todo = @ \ {x}]
        BY <2>4 DEF Ingest
      <4>2. sync \in [Task -> Loop] /\ sync[t] \in Loop
        BY DEF IInv
      <4>3. [sync[t] EXCEPT !.todo = @ \ {x}] \in Loop
        BY <4>2 DEF Loop
      <4> QED
        BY <4>1, <4>2, <4>3 DEF Loop
    <3> QED
      BY <2>1, <2>4, <3>1 DEF Ingest, IInv
  <2> QED
    BY <1>3, <2>2, <2>3, <2>4
<1>4. CASE Drop
  BY <1>4 DEF Drop, IInv
<1>5. ASSUME NEW t \in Task, CatchUp(t), ~ Ingest(t) PROVE TypeOK' /\ RoomsKnown'
  <2>1. CASE Open(t)
    <3>1. {[id |-> m, room |-> roomOf[m], ts |-> at[m]] : m \in unseen} \subseteq Event
      BY DEF Event, IInv
    <3>2. [Asleep EXCEPT !.at = "load", !.room = here] \in Loop /\ here \in Room
      BY <2>1 DEF Asleep, Loop, IInv, Open
    <3>3. inbox' \subseteq Event
      BY <2>1, <3>1 DEF Open, IInv
    <3>4. /\ sync' \in [Task -> Loop]
          /\ \A u \in Task : sync'[u].at # "idle" => sync'[u].room \in Room
      BY <2>1, <3>2 DEF Open, IInv, Asleep
    <3> QED
      BY <2>1, <3>3, <3>4 DEF Open, IInv
  <2>2. CASE LoadLocal(t)
    <3>1. PICK newest \in {0} \cup {x.ts : x \in InRoom(Landed, sync[t].room)} :
            sync' = [sync EXCEPT ![t].at = "fetch", ![t].since = newest]
      BY <2>2 DEF LoadLocal
    <3>2. Landed \subseteq Record
      BY DEF Landed, Written, Latest, IInv
    <3>3. newest \in Nat
      BY <3>1, <3>2 DEF InRoom, Record
    <3>4. /\ sync' \in [Task -> Loop]
          /\ \A u \in Task : sync'[u].at # "idle" => sync'[u].room \in Room
      <4>1. sync \in [Task -> Loop] /\ sync[t] \in Loop /\ sync[t].at = "load"
        BY <2>2 DEF LoadLocal, IInv
      <4>2. [sync[t] EXCEPT !.at = "fetch", !.since = newest] \in Loop
        BY <3>3, <4>1 DEF Loop
      <4> QED
        BY <3>1, <4>1, <4>2 DEF IInv
    <3> QED
      BY <2>2, <3>4 DEF LoadLocal, IInv
  <2>3. CASE Fetch(t)
    <3> DEFINE newer == {x \in RowsOf(sync[t].room) : x.ts > sync[t].since}
    <3>1. newer \subseteq Record
      <4>1. sync[t].room \in Room /\ kept \in [Msg -> Nat]
        BY <2>3 DEF Fetch, IInv
      <4>2. RowsOf(sync[t].room) \subseteq Record
        BY <4>1 DEF RowsOf, Record
      <4> QED
        BY <4>2
    <3>2. sync' \in {[sync EXCEPT ![t].at = "ingest", ![t].todo = newer, ![t].rows = newer],
                     [sync EXCEPT ![t] = Asleep]}
      BY <2>3 DEF Fetch
    <3> HIDE DEF newer
    <3>3. /\ sync' \in [Task -> Loop]
          /\ \A u \in Task : sync'[u].at # "idle" => sync'[u].room \in Room
      <4>1. sync \in [Task -> Loop] /\ sync[t] \in Loop /\ sync[t].at = "fetch"
        BY <2>3 DEF Fetch, IInv
      <4>2. [sync[t] EXCEPT !.at = "ingest", !.todo = newer, !.rows = newer] \in Loop
        BY <3>1, <4>1 DEF Loop
      <4>3. Asleep.at = "idle"
        BY DEF Asleep
      <4>4. CASE sync' = [sync EXCEPT ![t].at = "ingest", ![t].todo = newer, ![t].rows = newer]
        BY <4>1, <4>2, <4>4 DEF IInv
      <4>5. CASE sync' = [sync EXCEPT ![t] = Asleep]
        BY <4>1, <4>3, <4>5, <1>0 DEF IInv
      <4> QED
        BY <3>2, <4>4, <4>5
    <3> QED
      BY <2>3, <3>3 DEF Fetch, IInv
  <2>4. CASE Finish(t)
    <3>1. /\ sync' \in [Task -> Loop]
          /\ \A u \in Task : sync'[u].at # "idle" => sync'[u].room \in Room
      BY <2>4, <1>0 DEF Finish, IInv, Asleep
    <3> QED
      BY <2>4, <3>1 DEF Finish, IInv
  <2> QED
    BY <1>5, <2>1, <2>2, <2>3, <2>4 DEF CatchUp
<1>6. CASE \E r \in Room : Enter(r)
  BY <1>6 DEF Enter, IInv
<1>7. CASE ReadHistory
  BY <1>7 DEF ReadHistory, IInv, Landed, Written, Latest, InRoom
<1>8. CASE Merge
  BY <1>8 DEF Merge, IInv, InRoom
<1>9. CASE WriteLands
  <2>1. Head(puts) \in Record /\ Tail(puts) \in Seq(Record)
    BY <1>9 DEF WriteLands, IInv
  <2> QED
    BY <1>9, <2>1 DEF WriteLands, IInv, Put
<1>10. CASE Close
  <2>1. sync' \in [Task -> Loop] /\ \A u \in Task : sync'[u].at = "idle"
    BY <1>10, <1>0 DEF Close, Asleep
  <2>2. puts' \in Seq(Record)
    BY <1>10 DEF Close
  <2> QED
    BY <1>10, <2>1, <2>2 DEF Close, IInv
<1>11. CASE Tick
  BY <1>11 DEF Tick, IInv
<1>12. CASE UNCHANGED vars
  BY <1>12 DEF vars, IInv
<1> QED
  BY <1>2, <1>3, <1>4, <1>5, <1>6, <1>7, <1>8, <1>9, <1>10, <1>11, <1>12 DEF Next

(* What the answer of the outbox makes of the loops.                        *)
LEMMA FetchSets ==
    ASSUME TypeOK, NEW t \in Task, Fetch(t), NEW u \in Task
    PROVE  /\ sync'[u].todo \subseteq RowsOf(sync[t].room) \cup sync[u].todo
           /\ sync'[u].at = "ingest" =>
                sync'[u] = sync[u] \/ sync'[u].rows = sync'[u].todo
<1> DEFINE newer == {x \in RowsOf(sync[t].room) : x.ts > sync[t].since}
<1>1. sync' \in {[sync EXCEPT ![t].at = "ingest", ![t].todo = newer, ![t].rows = newer],
                 [sync EXCEPT ![t] = Asleep]}
  BY DEF Fetch
<1>2. sync \in [Task -> Loop] /\ sync[t] \in Loop /\ newer \subseteq RowsOf(sync[t].room)
  BY DEF TypeOK
<1> HIDE DEF newer
<1>3. CASE u # t
  BY <1>1, <1>2, <1>3
<1>4. CASE u = t /\ sync'[t] = Asleep
  BY <1>4 DEF Asleep
<1>5. CASE u = t /\ sync'[t] = [sync[t] EXCEPT !.at = "ingest", !.todo = newer, !.rows = newer]
  BY <1>2, <1>5 DEF Loop
<1> QED
  BY <1>1, <1>2, <1>3, <1>4, <1>5

LEMMA TruthKept == IInv /\ [Next]_vars => Truthful'
<1> SUFFICES ASSUME IInv, [Next]_vars PROVE Truthful'
  OBVIOUS
<1> USE DEF relay, page, stream, local
<1>1. /\ \A x \in screen \cup disk \cup history \cup inbox \cup Queued : Placed(x)'
      /\ \A t \in Task : \A x \in sync[t].todo : Placed(x)'
  <2>1. Queued \subseteq Record
    BY DEF Queued, IInv, TypeOK
  <2>2. \A x \in screen \cup disk \cup history \cup inbox \cup Queued :
          x.id \in Msg /\ Placed(x)
    BY <2>1 DEF IInv, TypeOK, Truthful, Record, Event
  <2>3. \A t \in Task : \A x \in sync[t].todo : x.id \in Msg /\ Placed(x)
    BY DEF IInv, TypeOK, Truthful, Loop, Record
  <2> QED
    BY <2>2, <2>3, PlacedStays DEF IInv
(* What each step adds is placed already.                                   *)
<1>2. ASSUME NEW m \in Msg, NEW r \in Room, Publish(m, r)
      PROVE  \A x : x = EventOf(m) => Placed(x)'
  BY <1>2 DEF Publish, EventOf, Placed, IInv, TypeOK
<1>3. ASSUME NEW m \in Msg, Relay(m) PROVE Truthful'
  <2>1. \/ \E r \in Room : Publish(m, r)
        \/ UNCHANGED <<inbox, page, sync, local>>
    BY <1>3 DEF Relay, TheyPost, Send, Store, Expire, IInv, RoomsKnown
  <2> QED
    BY <2>1, <1>1, <1>2 DEF Publish, Truthful, Queued
<1>4. CASE Sent \/ (\E e \in inbox : Handle(e)) \/ (\E t \in Task : Ingest(t))
  <2>1. PICK w : Adds(w)
    BY <1>4, AddingSteps DEF IInv
  <2>2. UNCHANGED <<page, disk, stage, roomOf>> /\ inbox' \subseteq inbox
    BY <1>4, AddingSteps DEF IInv, Sent, Handle, Ingest
  <2>5. \A t \in Task : sync'[t].todo \subseteq sync[t].todo
    <3>1. CASE \E t \in Task : Ingest(t)
      BY <3>1 DEF Ingest, IInv, TypeOK, Loop
    <3> QED
      BY <1>4, <3>1 DEF Sent, Handle
  <2>3. Queued' \subseteq Queued \cup {w}
    BY <2>1, <2>2, AddingKeeps
  <2>4. \A x : Placed(x) <=> Placed(x)'
    BY <2>2 DEF Placed
  <2> QED
    BY <1>1, <2>1, <2>2, <2>3, <2>4, <2>5 DEF Truthful, Adds
<1>5. CASE Drop \/ Tick \/ UNCHANGED vars
  BY <1>1, <1>5 DEF Drop, Tick, vars, Truthful, Queued
<1>6. ASSUME NEW t \in Task, CatchUp(t), ~ Ingest(t) PROVE Truthful'
  <2>1. CASE Open(t)
    <3>1. \A m \in unseen : Placed([id |-> m, room |-> roomOf[m], ts |-> at[m]])
      BY DEF IInv, RoomsKnown, Placed
    <3>2. \A x \in inbox' : Placed(x)'
      BY <2>1, <3>1, <1>1 DEF Open, Placed
    <3>3. \A u \in Task : \A x \in sync'[u].todo : Placed(x)'
      BY <2>1, <1>1 DEF Open, Asleep, IInv, TypeOK
    <3> QED
      BY <2>1, <3>2, <3>3, <1>1 DEF Open, Truthful, Queued
  <2>2. CASE LoadLocal(t)
    <3>1. \A u \in Task : sync'[u].todo = sync[u].todo
      BY <2>2 DEF LoadLocal, IInv, TypeOK, Loop
    <3> QED
      BY <2>2, <3>1, <1>1 DEF LoadLocal, Truthful, Queued
  <2>3. CASE Fetch(t)
    <3>1. \A x \in RowsOf(sync[t].room) : Placed(x)
      BY DEF RowsOf, Placed
    <3>2. \A u \in Task : sync'[u].todo \subseteq RowsOf(sync[t].room) \cup sync[u].todo
      BY <2>3, FetchSets DEF IInv
    <3>3. \A x : Placed(x) => Placed(x)'
      BY <2>3 DEF Fetch, Placed
    <3> QED
      BY <2>3, <3>1, <3>2, <3>3, <1>1 DEF Fetch, Truthful, Queued
  <2>4. CASE Finish(t)
    <3>1. \A u \in Task : sync'[u].todo \subseteq sync[u].todo
      BY <2>4 DEF Finish, Asleep, IInv, TypeOK
    <3> QED
      BY <2>4, <3>1, <1>1 DEF Finish, Truthful, Queued
  <2> QED
    BY <1>6, <2>1, <2>2, <2>3, <2>4 DEF CatchUp
<1>7. CASE \E r \in Room : Enter(r)
  BY <1>1, <1>7 DEF Enter, Truthful, Queued
<1>8. CASE ReadHistory
  <2>1. \A x \in Landed : Placed(x)'
    BY <1>1 DEF Landed, Written, Latest, Queued
  <2> QED
    BY <1>1, <1>8, <2>1 DEF ReadHistory, Truthful, InRoom, Queued
<1>9. CASE Merge
  BY <1>1, <1>9 DEF Merge, Truthful, InRoom, Queued
<1>10. CASE WriteLands
  <2>1. /\ puts \in Seq(Record) /\ puts # <<>>
        /\ puts' = Tail(puts) /\ disk' = Put(disk, Head(puts))
    BY <1>10 DEF WriteLands, IInv, TypeOK
  <2>2. Head(puts) \in Queued /\ Queued' \subseteq Queued
    <3>1. /\ 1 \in DOMAIN puts /\ Head(puts) = puts[1]
          /\ \A i \in DOMAIN puts' : i + 1 \in DOMAIN puts /\ puts'[i] = puts[i + 1]
      BY <2>1
    <3> QED
      BY <3>1 DEF Queued
  <2> QED
    BY <1>1, <1>10, <2>1, <2>2 DEF WriteLands, Truthful, Put
<1>11. CASE Close
  BY <1>1, <1>11 DEF Close, Truthful, Asleep, Queued
<1> QED
  BY <1>3, <1>4, <1>5, <1>6, <1>7, <1>8, <1>9, <1>10, <1>11 DEF Next

(* The steps that leave the list and the rows as they are, and the page     *)
(* where it is.                                                             *)
LEMMA OtherSteps ==
    ASSUME (\E m \in Msg : Relay(m)) \/ Drop \/ Tick \/ UNCHANGED vars
             \/ \E t \in Task : CatchUp(t) /\ ~ Ingest(t)
    PROVE  UNCHANGED <<page, local>>
BY DEF Relay, TheyPost, Send, Publish, Store, Expire, Drop, Tick, vars, CatchUp, Open,
       LoadLocal,
       Fetch, Finish

LEMMA SavedKept == IInv /\ [Next]_vars => ShownIsSaved' /\ ReadOrShown'
<1> SUFFICES ASSUME IInv, [Next]_vars PROVE ShownIsSaved' /\ ReadOrShown'
  OBVIOUS
<1> USE DEF page, local
<1>1. CASE UNCHANGED <<page, local>>
  <2>1. Landed' = Landed
    BY <1>1 DEF Landed
  <2> QED
    BY <1>1, <2>1 DEF IInv, ShownIsSaved, ReadOrShown, SavedIsShown
<1>2. CASE Sent \/ (\E e \in inbox : Handle(e)) \/ (\E t \in Task : Ingest(t))
  BY <1>2, AddingSteps, AddingKeeps DEF IInv
<1>3. CASE \E r \in Room : Enter(r)
  BY <1>3 DEF Enter, ShownIsSaved, ReadOrShown, SavedIsShown, IdsOf
<1>4. CASE ReadHistory
  <2>1. Landed' = Landed /\ screen' = screen /\ here' = here /\ phase' = "merge"
    BY <1>4 DEF ReadHistory, Landed
  <2>2. history' = InRoom(Landed, here)
    BY <1>4 DEF ReadHistory
  <2> QED
    BY <2>1, <2>2 DEF IInv, ShownIsSaved, ReadOrShown, SavedIsShown, IdsOf, InRoom
<1>5. CASE Merge
  <2>1. Landed' = Landed /\ here' = here /\ phase' = "ready" /\ phase = "merge" /\ history' = {}
    BY <1>5 DEF Merge, Landed
  <2>2. screen' = history \cup {x \in InRoom(screen, here) : x.id \notin IdsOf(history)}
    BY <1>5 DEF Merge
  <2>3. IdsOf(screen') \subseteq IdsOf(history) \cup IdsOf(screen)
    BY <2>2 DEF IdsOf, InRoom
  <2>4. IdsOf(history) \cup IdsOf(InRoom(screen, here)) \subseteq IdsOf(screen')
    BY <2>2 DEF IdsOf, InRoom
  <2>5. IdsOf(history') = {}
    BY <2>1 DEF IdsOf
  <2> QED
    BY <2>1, <2>3, <2>4, <2>5 DEF IInv, ShownIsSaved, ReadOrShown, SavedIsShown
<1>6. CASE WriteLands
  <2>1. Landed' = Landed
    BY <1>6, WrittenTail DEF WriteLands, Landed, IInv, TypeOK
  <2> QED
    BY <1>6, <2>1 DEF WriteLands, IInv, ShownIsSaved, ReadOrShown, SavedIsShown
<1>7. CASE Close
  BY <1>7 DEF Close, ShownIsSaved, ReadOrShown, SavedIsShown, IdsOf
<1> QED
  BY <1>1, <1>2, <1>3, <1>4, <1>5, <1>6, <1>7, OtherSteps DEF Next

(* What is saved stays saved while the app is open.                         *)
LEMMA SavedStays ==
    ASSUME IInv, [Next]_vars, ~ Close
    PROVE  IdsOf(Landed) \subseteq IdsOf(Landed')
<1>1. CASE UNCHANGED local
  BY <1>1 DEF local, Landed
<1>2. CASE Sent \/ (\E e \in inbox : Handle(e)) \/ (\E t \in Task : Ingest(t))
  BY <1>2, AddingSteps, AddingKeeps DEF IInv
<1>3. CASE UNCHANGED <<puts, disk>>
  BY <1>3 DEF Landed
<1>4. CASE WriteLands
  BY <1>4, WrittenTail DEF WriteLands, Landed, IInv, TypeOK
<1> QED
  BY <1>1, <1>2, <1>3, <1>4, OtherSteps DEF Next, Enter, ReadHistory, Merge, local

LEMMA AnsweredKept == IInv /\ [Next]_vars => AnsweredIsHeld'
<1> SUFFICES ASSUME IInv, [Next]_vars PROVE AnsweredIsHeld'
  OBVIOUS
<1>1. CASE Close
  BY <1>1 DEF Close, AnsweredIsHeld, Asleep
<1>2. ASSUME NEW t \in Task, Fetch(t), ~ Close PROVE AnsweredIsHeld'
  <2>1. \A u \in Task :
          sync'[u].at = "ingest" => sync'[u] = sync[u] \/ sync'[u].rows = sync'[u].todo
    BY <1>2, FetchSets DEF IInv
  <2> QED
    BY <1>2, <2>1, SavedStays DEF AnsweredIsHeld, IInv
<1>3. ASSUME NEW t \in Task, Ingest(t), ~ Close PROVE AnsweredIsHeld'
  <2>1. PICK x \in sync[t].todo :
          /\ IF x.what = "text" THEN ShowText(x) ELSE ShowTombstone(x)
          /\ sync' = [sync EXCEPT ![t].todo = @ \ {x}]
    BY <1>3 DEF Ingest
  <2>2. x \in Record /\ Placed(x) /\ disk' = disk /\ UNCHANGED page
    BY <1>3 DEF Ingest, IInv, TypeOK, Loop, Truthful
  <2>3. x.id \in IdsOf(Landed')
    <3>1. x.id \in IdsOf(screen')
      <4>1. CASE x.what = "text"
        <5>1. CASE x.id \notin IdsOf(screen) /\ screen' = screen \cup {x}
          BY <5>1 DEF IdsOf
        <5>2. ASSUME NEW y \in screen, y.id = x.id,
                     screen' = (screen \ {y}) \cup {[y EXCEPT !.ts = x.ts]}
              PROVE  x.id \in IdsOf(screen')
          <6>1. [y EXCEPT !.ts = x.ts].id = x.id
            BY <5>2 DEF IInv, TypeOK, Record
          <6> QED
            BY <5>2, <6>1 DEF IdsOf
        <5> QED
          BY <2>1, <4>1, <5>1, <5>2 DEF ShowText
      <4>2. CASE x.what # "text"
        BY <2>1, <4>2 DEF ShowTombstone, IdsOf
      <4> QED
        BY <4>1, <4>2
    <3>2. ShownIsSaved'
      BY SavedKept
    <3> QED
      BY <3>1, <3>2 DEF ShownIsSaved
  <2>4. \A u \in Task : /\ sync'[u].at = sync[u].at /\ sync'[u].rows = sync[u].rows
                        /\ sync[u].todo \subseteq sync'[u].todo \cup {x}
    BY <2>1 DEF IInv, TypeOK, Loop
  <2> QED
    BY <1>3, <2>3, <2>4, SavedStays DEF AnsweredIsHeld, IInv, IdsOf
<1>4. ASSUME ~ Close, \A u \in Task : sync'[u].at = "ingest" => sync'[u] = sync[u]
      PROVE  AnsweredIsHeld'
  BY <1>4, SavedStays DEF AnsweredIsHeld, IInv
<1>5. ASSUME NEW t \in Task, Open(t) \/ LoadLocal(t) \/ Finish(t)
      PROVE  \A u \in Task : sync'[u].at = "ingest" => sync'[u] = sync[u]
  <2>1. sync \in [Task -> Loop] /\ sync[t] \in Loop
    BY DEF IInv, TypeOK
  <2>2. Asleep.at = "idle" /\ [Asleep EXCEPT !.at = "load", !.room = here].at = "load"
    BY DEF Asleep
  <2>3. CASE Open(t)
    BY <2>1, <2>2, <2>3 DEF Open
  <2>4. CASE LoadLocal(t)
    <3>1. PICK n : sync' = [sync EXCEPT ![t].at = "fetch", ![t].since = n]
      BY <2>4 DEF LoadLocal
    <3>2. [sync[t] EXCEPT !.at = "fetch", !.since = n].at = "fetch"
      BY <2>1 DEF Loop
    <3> QED
      BY <2>1, <3>1, <3>2
  <2>5. CASE Finish(t)
    BY <2>1, <2>2, <2>5 DEF Finish
  <2> QED
    BY <1>5, <2>3, <2>4, <2>5
<1> QED
  BY <1>1, <1>2, <1>3, <1>4, <1>5
     DEF Next, vars, Relay, TheyPost, Send, Publish, Store, Expire, Sent,
     Handle, Drop, CatchUp, Enter, ReadHistory, Merge, WriteLands, Tick
-----------------------------------------------------------------------------
(* The strengthened invariant holds in every reachable state.               *)
THEOREM InvariantHolds == Spec => []IInv
<1>1. IInv /\ [Next]_vars => IInv'
  BY TypeKept, TruthKept, SavedKept, AnsweredKept DEF IInv
<1> QED
  BY <1>1, InitIInv, PTL DEF Spec

(* Once a room is open everything saved of it is on screen (init's merge of *)
(* the rows read with what arrived meanwhile, RoomController.tsx).          *)
THEOREM SavedStaysShown == Spec => []SavedIsShown
<1>1. IInv => SavedIsShown
  BY DEF IInv, ReadOrShown
<1> QED
  BY <1>1, InvariantHolds, PTL

(* A catch-up that ends has saved every row it was answered with            *)
(* (runCatchUp's loop over the rows of GET /outbox).                        *)
THEOREM AnsweredRowsAreKept == Spec => AnsweredIsKept
<1>1. ASSUME IInv, NEW t \in Task, Finish(t)
      PROVE  IdsOf(sync[t].rows) \subseteq IdsOf(Landed)
  BY <1>1 DEF IInv, AnsweredIsHeld, Finish, IdsOf
<1>2. IInv => \A t \in Task : Finish(t) => IdsOf(sync[t].rows) \subseteq IdsOf(Landed)
  BY <1>1
<1> QED
  BY <1>2, InvariantHolds, PTL DEF AnsweredIsKept

(* A text on screen is never replaced by the marker of its expiry while the *)
(* room stays open (ingestTombstone's early return).                        *)
THEOREM ShownTextsStay == Spec => ShownTextStays
<1> DEFINE Stays == here' = here /\ phase = "ready" =>
                      \A x \in InRoom(screen, here) : x.what = "text" =>
                          \E y \in screen' : y.id = x.id /\ y.what = "text"
<1>1. IInv /\ [Next]_vars => Stays
  <2> SUFFICES ASSUME IInv, [Next]_vars, here' = here, phase = "ready",
                      NEW x \in screen, x.what = "text"
               PROVE  \E y \in screen' : y.id = x.id /\ y.what = "text"
    BY DEF InRoom
  <2>1. CASE UNCHANGED screen
    BY <2>1
  <2>2. CASE Sent \/ (\E e \in inbox : Handle(e)) \/ (\E t \in Task : Ingest(t))
    BY <2>2, AddingSteps DEF IInv, Adds
  <2> QED
    BY <2>1, <2>2, OtherSteps DEF Next, Enter, ReadHistory, Merge, WriteLands, Close, local
<1> QED
  BY <1>1, InvariantHolds, PTL DEF Spec, ShownTextStays
=============================================================================
