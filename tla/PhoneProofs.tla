---------------------------- MODULE PhoneProofs -----------------------------
(***************************************************************************)
(* Theorems about the phone, for any rooms, texts, messages and bounds:    *)
(* the lock of the app, the answers to blocks, what the composer sends,    *)
(* the window of messages, and what is kept of a room.                     *)
(*                                                                         *)
(* Each part has an inductive invariant of its own, kept by the part's     *)
(* steps; as no step is of two parts, together they are one of the sum.    *)
(***************************************************************************)
EXTENDS MCPhone, TLAPS, FiniteSetTheorems, SequenceTheorems

-----------------------------------------------------------------------------
(* The lock.  A page that is open was marked by whoever set the marker, so  *)
(* one that went to the background is locked; and only the lock, or a PIN   *)
(* under way when it fell, changes whether the session is unlocked.         *)
LockType ==
    /\ now \in 0..MaxTime /\ intent \in 0..MaxTime \cup {None}
    /\ page \in {"none", "open", "locked"} /\ op \in {None, "unlock", "save"}

LockFlags ==
    /\ enabled \in BOOLEAN /\ pin \in BOOLEAN /\ passkey \in BOOLEAN /\ session \in BOOLEAN
    /\ visible \in BOOLEAN /\ leaving \in BOOLEAN /\ marked \in BOOLEAN /\ away \in BOOLEAN
    /\ rearmed \in BOOLEAN

Locking ==
    /\ intent # None => marked
    /\ away => page = "locked" /\ ~session /\ L!Armed /\ op # "save"
    /\ page = "open" /\ L!Armed => session \/ rearmed

LockInv == LockType /\ LockFlags /\ Locking

LEMMA LocksBegin ==
    ASSUME L!AgeAssumption, L!Init
    PROVE  LockInv
<1> USE DEF L!Init
<1>1. LockType
  BY DEF LockType, L!AgeAssumption
<1>2. LockFlags /\ Locking
  BY DEF LockFlags, Locking, L!Armed
<1> QED
  BY <1>1, <1>2 DEF LockInv

LEMMA LockTypeKept ==
    ASSUME L!AgeAssumption, LockType, L!Next
    PROVE  LockType'
<1> USE DEF LockType, L!Mount, L!config, L!AgeAssumption
<1>1. CASE L!Launch \/ L!Kill
  BY <1>1 DEF L!Launch, L!Kill
<1>2. CASE L!Hide \/ L!Return
  BY <1>2 DEF L!Hide, L!Return
<1>3. CASE L!Unload
  BY <1>3 DEF L!Unload
<1>4. CASE L!TryUnlock \/ L!Toggle \/ L!BeginSave \/ L!ChangePasskey
  BY <1>4 DEF L!TryUnlock, L!Toggle, L!BeginSave, L!ChangePasskey
<1>5. CASE L!Tick
  BY <1>5 DEF L!Tick
<1>6. ASSUME NEW b \in BOOLEAN, L!Click(b) \/ L!Unlock(b) \/ L!Save(b)
      PROVE  LockType'
  BY <1>6 DEF L!Click, L!Unlock, L!Save
<1> QED
  BY <1>1, <1>2, <1>3, <1>4, <1>5, <1>6 DEF L!Next

LEMMA LockFlagsKept ==
    ASSUME LockFlags, L!Next
    PROVE  LockFlags'
<1> USE DEF LockFlags, L!Mount, L!config
<1>1. CASE L!Launch \/ L!Kill
  BY <1>1, Zenon DEF L!Launch, L!Kill
<1>2. CASE L!Hide
  BY <1>2, Zenon DEF L!Hide, L!Lock
<1>3. CASE L!Return \/ L!TryUnlock \/ L!BeginSave \/ L!ChangePasskey \/ L!Tick
  BY <1>3, Zenon DEF L!Return, L!TryUnlock, L!BeginSave, L!ChangePasskey, L!Tick
<1>4. CASE L!Unload
  BY <1>4, Zenon DEF L!Unload, L!Lock
<1>5. CASE L!Toggle
  BY <1>5, Zenon DEF L!Toggle
<1>6. ASSUME NEW b \in BOOLEAN, L!Click(b)
      PROVE  LockFlags'
  BY <1>6, Zenon DEF L!Click
<1>7. ASSUME NEW b \in BOOLEAN, L!Unlock(b)
      PROVE  LockFlags'
  BY <1>7, Zenon DEF L!Unlock
<1>8. ASSUME NEW b \in BOOLEAN, L!Save(b)
      PROVE  LockFlags'
  BY <1>8, Zenon DEF L!Save
<1> QED
  BY <1>1, <1>2, <1>3, <1>4, <1>5, <1>6, <1>7, <1>8 DEF L!Next

LEMMA LockingKept ==
    ASSUME L!AgeAssumption, LockInv, L!Next
    PROVE  Locking'
<1>a. LockType /\ LockFlags /\ Locking /\ None # "save" /\ None # "unlock" /\ None \notin Nat
  BY DEF LockInv, L!AgeAssumption
<1> USE DEF Locking, L!Mount, L!config, L!Armed
<1>1. CASE L!Launch
  BY <1>a, <1>1 DEF L!Launch
<1>2. CASE L!Kill
  BY <1>a, <1>2 DEF L!Kill
<1>3. CASE L!Hide
  <2>1. /\ page # "none" /\ UNCHANGED <<enabled, pin, intent, op, marked, rearmed>>
        /\ IF L!MustLock THEN page' = "locked" /\ session' = FALSE
           ELSE UNCHANGED <<page, session>>
    BY <1>3 DEF L!Hide, L!Lock
  <2>2. away' => away \/ (L!Armed /\ op = None /\ ~(L!Fresh /\ marked) /\ ~L!Overtaken)
    BY <1>3, Zenon DEF L!Hide
  <2>3. ASSUME away'
        PROVE  page' = "locked" /\ ~session' /\ L!Armed' /\ op' # "save"
    <3>1. CASE away
      BY <1>a, <2>1, <3>1 DEF L!MustLock
    <3>2. CASE L!Armed /\ op = None /\ ~(L!Fresh /\ marked) /\ ~L!Overtaken
      <4>1. ~L!Fresh
        BY <1>a, <3>2 DEF L!Fresh
      <4> QED
        BY <1>a, <2>1, <3>2, <4>1 DEF L!MustLock, L!Overtaken, LockType
    <3> QED
      BY <2>2, <2>3, <3>1, <3>2
  <2>4. page' = "open" /\ L!Armed' => session' \/ rearmed'
    BY <1>a, <2>1
  <2> QED
    BY <1>a, <2>1, <2>3, <2>4
<1>4. CASE L!Return \/ L!Tick \/ L!TryUnlock \/ L!BeginSave \/ L!ChangePasskey
  <2>1. /\ UNCHANGED <<enabled, pin, session, intent, page, marked, away, rearmed>>
        /\ away' => op' # "save"
    BY <1>a, <1>4 DEF L!Return, L!Tick, L!TryUnlock, L!BeginSave, L!ChangePasskey
  <2> QED
    BY <1>a, <2>1
<1>5. CASE L!Unload
  <2>1. /\ page' = IF L!Armed /\ ~session' THEN "locked" ELSE "open"
        /\ intent' = None /\ op' = None
        /\ session' = FALSE \/ session' = session
        /\ UNCHANGED <<enabled, pin, away, rearmed>>
    BY <1>5 DEF L!Unload, L!Lock
  <2> QED
    BY <1>a, <2>1
<1>6. CASE L!Toggle
  <2>1. /\ page = "open" /\ enabled' = ~enabled
        /\ UNCHANGED <<pin, session, intent, page, op, marked, away>>
    BY <1>6 DEF L!Toggle
  <2>2. rearmed' <=> (rearmed \/ (~enabled /\ pin))
    BY <1>6, Zenon DEF L!Toggle
  <2>3. enabled' <=> ~enabled
    BY <2>1, Zenon
  <2> HIDE DEF L!Toggle
  <2> QED
    BY <1>a, <2>1, <2>2, <2>3, Zenon
<1>7. ASSUME NEW b \in BOOLEAN, L!Click(b)
      PROVE  Locking'
  BY <1>a, <1>7 DEF L!Click
<1>8. ASSUME NEW b \in BOOLEAN, L!Unlock(b)
      PROVE  Locking'
  BY <1>a, <1>8 DEF L!Unlock
<1>9. ASSUME NEW b \in BOOLEAN, L!Save(b)
      PROVE  Locking'
  BY <1>a, <1>9 DEF L!Save
<1> QED
  BY <1>1, <1>2, <1>3, <1>4, <1>5, <1>6, <1>7, <1>8, <1>9 DEF L!Next

LEMMA LocksKept ==
    ASSUME L!AgeAssumption, LockInv, L!Next
    PROVE  LockInv'
BY LockTypeKept, LockFlagsKept, LockingKept DEF LockInv
-----------------------------------------------------------------------------
(* The answers to blocks: what parsing, redaction and an echo make of them. *)
LEMMA BatchesAre ==
    ASSUME MaxBatch \in Nat, NEW S, NEW s
    PROVE  s \in B!Batches(S) <=> s \in Seq(S) /\ Len(s) <= MaxBatch
<1>1. ASSUME NEW n \in 0..MaxBatch, s \in [1..n -> S]
      PROVE  s \in Seq(S) /\ Len(s) <= MaxBatch
  <2>1. s \in Seq(S)
    BY <1>1, SeqDef
  <2>2. Len(s) = n
    BY <1>1, <2>1
  <2> QED
    BY <2>1, <2>2
<1>2. ASSUME s \in Seq(S), Len(s) <= MaxBatch
      PROVE  s \in [1..Len(s) -> S] /\ Len(s) \in 0..MaxBatch
  BY <1>2
<1> QED
  BY <1>1, <1>2 DEF B!Batches

LEMMA KeptIsNotNone ==
    ASSUME B!ValueAssumption
    PROVE  /\ MaxBatch \in Nat \ {0} /\ B!Given \subseteq B!Kept
           /\ None \notin B!Kept /\ None \notin B!Envelope /\ None \notin B!Message
BY DEF B!ValueAssumption, B!Given, B!Kept

LEMMA ParsedIsSaid ==
    ASSUME B!ValueAssumption, NEW e \in B!Envelope, NEW clock \in {"phone", "relay"}
    PROVE  /\ B!Record(e, clock) \in B!Message
           /\ B!Shown(B!Record(e, clock)) = B!Shown(e)
<1>a. MaxBatch \in Nat \ {0} /\ None \notin B!Kept /\ B!Given \subseteq B!Kept
  BY KeptIsNotNone
<1>1. /\ e.one \in B!Kept \cup {None}
      /\ e.all \in Seq(B!Kept) /\ Len(e.all) <= MaxBatch
  <2>1. e.all \in Seq(B!Given) /\ Len(e.all) <= MaxBatch
    BY <1>a, BatchesAre DEF B!Envelope
  <2>2. \A i \in DOMAIN e.all : e.all[i] \in B!Kept
    BY <1>a, <2>1
  <2>3. e.all \in Seq(B!Kept)
    BY <2>1, <2>2
  <2> QED
    BY <1>a, <2>1, <2>3 DEF B!Envelope
<1> DEFINE one == IF e.one = None /\ Len(e.all) = 1 THEN e.all[1] ELSE e.one
           lst == IF e.all = <<>> /\ e.one # None THEN <<e.one>> ELSE e.all
<1>2. one \in B!Kept \cup {None}
  BY <1>1
<1>3. lst \in Seq(B!Kept) /\ Len(lst) <= MaxBatch
  BY <1>a, <1>1
<1>4. /\ B!Record(e, clock) = [one |-> one, all |-> lst, clock |-> clock]
  BY DEF B!Record, B!Parsed
<1>5. lst \in B!Batches(B!Kept)
  BY <1>a, <1>3, BatchesAre
<1>6. B!Record(e, clock) \in B!Message
  BY <1>2, <1>4, <1>5 DEF B!Message
<1>7. B!Shown(B!Record(e, clock)) = B!Shown(e)
  <2>1. CASE e.all # <<>>
    BY <1>4, <2>1 DEF B!Shown
  <2>2. CASE e.all = <<>> /\ e.one # None
    <3>1. lst = <<e.one>> /\ lst # <<>>
      BY <2>2
    <3> QED
      BY <1>4, <2>2, <3>1 DEF B!Shown
  <2>3. CASE e.all = <<>> /\ e.one = None
    <3>1. one = None /\ lst = <<>>
      BY <1>1, <2>3
    <3> QED
      BY <1>4, <2>3, <3>1 DEF B!Shown
  <2> QED
    BY <2>1, <2>2, <2>3
<1> QED
  BY <1>6, <1>7

LEMMA RedactedIsMasked ==
    ASSUME B!ValueAssumption, NEW m \in B!Message
    PROVE  /\ B!Redacted(m) \in B!Message /\ B!Shown(B!Redacted(m)) = B!Shown(m)
           /\ B!Redacted(m).one # None => B!Masked(B!Redacted(m).one)
           /\ \A i \in DOMAIN B!Redacted(m).all : B!Masked(B!Redacted(m).all[i])
<1>a. MaxBatch \in Nat /\ None \notin B!Kept
  BY KeptIsNotNone
<1>1. ASSUME NEW r \in B!Kept
      PROVE  B!Scrub(r) \in B!Kept /\ B!Masked(B!Scrub(r)) /\ B!Line(B!Scrub(r)) = B!Line(r)
  BY <1>1 DEF B!Kept, B!Scrub, B!Masked, B!Line
<1>2. m.one \in B!Kept \cup {None} /\ m.all \in Seq(B!Kept) /\ Len(m.all) <= MaxBatch
  BY <1>a, BatchesAre DEF B!Message
<1> DEFINE one == IF m.one = None THEN None ELSE B!Scrub(m.one)
           lst == [i \in DOMAIN m.all |-> B!Scrub(m.all[i])]
<1>3. one \in B!Kept \cup {None} /\ (one # None => B!Masked(one)) /\ (one = None <=> m.one = None)
  BY <1>a, <1>1, <1>2
<1>4. /\ lst \in Seq(B!Kept) /\ Len(lst) = Len(m.all) /\ DOMAIN lst = DOMAIN m.all
      /\ \A i \in DOMAIN lst : B!Masked(lst[i]) /\ B!Line(lst[i]) = B!Line(m.all[i])
  <2>1. \A i \in DOMAIN m.all : m.all[i] \in B!Kept
    BY <1>2
  <2>2. DOMAIN m.all = 1..Len(m.all) /\ Len(m.all) \in Nat
    BY <1>2
  <2>3. \A i \in 1..Len(m.all) : B!Scrub(m.all[i]) \in B!Kept
    BY <1>1, <2>1, <2>2
  <2>4. lst \in [1..Len(m.all) -> B!Kept]
    BY <2>2, <2>3
  <2>5. lst \in Seq(B!Kept)
    BY <2>2, <2>4, SeqDef
  <2>6. Len(lst) = Len(m.all)
    BY <2>2, <2>4, <2>5
  <2> QED
    BY <1>1, <2>1, <2>2, <2>5, <2>6
<1>5. m = [one |-> m.one, all |-> m.all, clock |-> m.clock] /\ m.clock \in {"phone", "relay"}
  BY DEF B!Message
<1>6. B!Redacted(m) = [one |-> one, all |-> lst, clock |-> m.clock]
  <2>1. B!Redacted(m) = [m EXCEPT !.one = one, !.all = lst]
    BY DEF B!Redacted
  <2> HIDE DEF lst, one
  <2> QED
    BY <1>5, <2>1
<1>7. B!Redacted(m) \in B!Message
  <2>1. lst \in B!Batches(B!Kept)
    BY <1>a, <1>2, <1>4, BatchesAre
  <2> HIDE DEF lst, one
  <2> QED
    BY <1>3, <1>5, <1>6, <2>1 DEF B!Message
<1>8. B!Shown(B!Redacted(m)) = B!Shown(m)
  <2>1. B!Redacted(m).one = one /\ B!Redacted(m).all = lst
    BY <1>6
  <2>2. CASE m.all # <<>>
    <3>1. lst # <<>>
      BY <1>2, <1>4, <2>2
    <3>2. B!Shown(m) = [i \in DOMAIN m.all |-> B!Line(m.all[i])]
      BY <2>2 DEF B!Shown
    <3>3. B!Shown(B!Redacted(m)) = [i \in DOMAIN lst |-> B!Line(lst[i])]
      BY <2>1, <3>1 DEF B!Shown
    <3> HIDE DEF lst, one
    <3> QED
      BY <1>4, <3>2, <3>3
  <2>3. CASE m.all = <<>> /\ m.one # None
    <3>1. lst = <<>> /\ one # None /\ one = B!Scrub(m.one)
      BY <1>2, <1>3, <1>4, <2>3
    <3>2. B!Shown(m) = [i \in {1} |-> B!Line(m.one)]
      BY <2>3 DEF B!Shown
    <3>3. B!Shown(B!Redacted(m)) = [i \in {1} |-> B!Line(one)]
      <4> HIDE DEF lst, one
      <4> QED
        BY <2>1, <3>1 DEF B!Shown
    <3>4. B!Line(one) = B!Line(m.one)
      BY <1>1, <1>2, <2>3, <3>1
    <3> QED
      BY <3>2, <3>3, <3>4
  <2>4. CASE m.all = <<>> /\ m.one = None
    <3>1. lst = <<>> /\ one = None
      BY <1>2, <1>4, <2>4
    <3> HIDE DEF lst, one
    <3> QED
      BY <2>1, <2>4, <3>1 DEF B!Shown
  <2> QED
    BY <2>2, <2>3, <2>4
<1>9. B!Redacted(m).one = one /\ B!Redacted(m).all = lst
  BY <1>6
<1> HIDE DEF lst, one
<1> QED
  BY <1>3, <1>4, <1>7, <1>8, <1>9

LEMMA EchoChangesNothing ==
    ASSUME NEW m \in B!Message, NEW n \in B!Message
    PROVE  B!MergeEcho(m, n) \in B!Message /\ B!Shown(B!MergeEcho(m, n)) = B!Shown(m)
<1>1. B!MergeEcho(m, n) = [m EXCEPT !.clock = n.clock]
  BY DEF B!MergeEcho
<1>2. B!MergeEcho(m, n).one = m.one /\ B!MergeEcho(m, n).all = m.all
  BY <1>1 DEF B!Message
<1>3. B!MergeEcho(m, n) \in B!Message
  BY <1>1 DEF B!Message
<1> QED
  BY <1>2, <1>3 DEF B!Shown

PostsAreOnWire == \A id \in replying : wire[id] # None

BlockInv == B!TypeOK /\ B!DiskIsMasked /\ B!ShownIsSaid /\ PostsAreOnWire

LEMMA BlocksBegin ==
    ASSUME B!ValueAssumption, B!Init
    PROVE  BlockInv
BY DEF B!Init, BlockInv, PostsAreOnWire, B!TypeOK, B!DiskIsMasked, B!ShownIsSaid

(* Of one message changed in the history, in what is shown, or both.        *)
LEMMA BlockChanges ==
    ASSUME B!ValueAssumption, BlockInv, NEW id \in Knock, UNCHANGED wire, wire[id] # None,
           replying' \subseteq Knock, \A i \in replying' : wire[i] # None,
           NEW m \in B!Message, B!Shown(m) = B!Shown(wire[id]),
           B!Save(id, m),
           memory' = memory \/
             \E n \in B!Message : /\ memory' = [memory EXCEPT ![id] = n]
                                  /\ B!Shown(n) = B!Shown(wire[id])
    PROVE  BlockInv'
<1>a. /\ wire \in [Knock -> B!Envelope \cup {None}]
      /\ memory \in [Knock -> B!Message \cup {None}] /\ disk \in [Knock -> B!Message \cup {None}]
      /\ B!DiskIsMasked /\ B!ShownIsSaid /\ PostsAreOnWire
  BY DEF BlockInv, B!TypeOK
<1>1. /\ B!Redacted(m) \in B!Message /\ B!Shown(B!Redacted(m)) = B!Shown(m)
      /\ B!Redacted(m).one # None => B!Masked(B!Redacted(m).one)
      /\ \A i \in DOMAIN B!Redacted(m).all : B!Masked(B!Redacted(m).all[i])
  BY RedactedIsMasked
<1>2. disk' = [disk EXCEPT ![id] = B!Redacted(m)]
  BY DEF B!Save
<1>3. B!TypeOK'
  BY <1>a, <1>1, <1>2 DEF B!TypeOK
<1>4. disk'[id] = B!Redacted(m) /\ \A j \in Knock \ {id} : disk'[j] = disk[j]
  BY <1>a, <1>2
<1>5. /\ memory'[id] = memory[id] \/ (memory'[id] # None => B!Shown(memory'[id]) = B!Shown(wire[id]))
      /\ \A j \in Knock \ {id} : memory'[j] = memory[j]
  BY <1>a
<1>6. B!DiskIsMasked'
  BY <1>a, <1>1, <1>4 DEF B!DiskIsMasked
<1>7. B!ShownIsSaid'
  BY <1>a, <1>1, <1>4, <1>5 DEF B!ShownIsSaid
<1> QED
  BY <1>3, <1>6, <1>7 DEF BlockInv, PostsAreOnWire


LEMMA BlocksKept ==
    ASSUME B!ValueAssumption, BlockInv, B!Next
    PROVE  BlockInv'
<1>a. /\ wire \in [Knock -> B!Envelope \cup {None}] /\ replying \subseteq Knock
      /\ memory \in [Knock -> B!Message \cup {None}] /\ disk \in [Knock -> B!Message \cup {None}]
      /\ B!DiskIsMasked /\ B!ShownIsSaid /\ PostsAreOnWire
  BY DEF BlockInv, B!TypeOK
<1>b. MaxBatch \in Nat \ {0} /\ B!Given \subseteq B!Kept
      /\ None \notin B!Kept /\ None \notin B!Envelope /\ None \notin B!Message
  BY KeptIsNotNone
<1>1. ASSUME NEW id \in Knock, wire[id] = None, NEW e \in B!Envelope,
             wire' = [wire EXCEPT ![id] = e], replying' \subseteq replying \cup {id},
             UNCHANGED <<memory, disk>>
      PROVE  BlockInv'
  <2>1. memory[id] = None /\ disk[id] = None
    BY <1>a, <1>1 DEF B!ShownIsSaid
  <2>2. B!TypeOK'
    BY <1>a, <1>1 DEF B!TypeOK
  <2>3. B!DiskIsMasked'
    BY <1>a, <1>1 DEF B!DiskIsMasked
  <2>4. \A j \in Knock \ {id} : wire'[j] = wire[j]
    BY <1>a, <1>1
  <2>5. B!ShownIsSaid'
    BY <1>a, <1>1, <2>1, <2>4 DEF B!ShownIsSaid
  <2>6. PostsAreOnWire'
    BY <1>a, <1>b, <1>1, <2>4 DEF PostsAreOnWire
  <2> QED
    BY <2>2, <2>3, <2>5, <2>6 DEF BlockInv
<1>c. ASSUME NEW batch \in B!Batches(B!Given), Len(batch) = 1
      PROVE  batch[1] \in B!Given
  <2>1. batch \in Seq(B!Given)
    BY <1>b, BatchesAre
  <2> QED
    BY <1>c, <2>1
<1>2. ASSUME NEW id \in Knock, NEW batch \in B!Batches(B!Given), B!Post(id, batch)
      PROVE  BlockInv'
  <2> DEFINE e == [one |-> IF Len(batch) = 1 THEN batch[1] ELSE None, all |-> batch]
  <2>1. e \in B!Envelope
    BY <1>c DEF B!Envelope
  <2>2. wire[id] = None /\ wire' = [wire EXCEPT ![id] = e] /\ replying' = replying \cup {id}
        /\ UNCHANGED <<memory, disk>>
    BY <1>2 DEF B!Post
  <2> HIDE DEF e
  <2> QED
    BY <1>a, <1>1, <2>1, <2>2
<1>3. ASSUME NEW id \in Knock, NEW batch \in B!Batches(B!Given), NEW one \in BOOLEAN,
             NEW lst \in BOOLEAN, B!Peer(id, batch, one, lst)
      PROVE  BlockInv'
  <2> DEFINE e == [one |-> IF one /\ Len(batch) = 1 THEN batch[1] ELSE None,
                   all |-> IF lst THEN batch ELSE <<>>]
  <2>1. <<>> \in B!Batches(B!Given)
    <3>1. <<>> \in Seq(B!Given) /\ Len(<<>>) = 0
      BY EmptySeq
    <3>2. 0 <= MaxBatch
      BY <1>b
    <3>3. Len(<<>>) <= MaxBatch
      BY <3>1, <3>2
    <3> QED
      BY <1>b, <3>1, <3>3, BatchesAre, Zenon
  <2>2. e \in B!Envelope
    BY <1>c, <2>1 DEF B!Envelope
  <2>3. wire[id] = None /\ wire' = [wire EXCEPT ![id] = e]
        /\ UNCHANGED <<replying, memory, disk>>
    BY <1>3 DEF B!Peer
  <2> HIDE DEF e
  <2> QED
    BY <1>a, <1>1, <2>2, <2>3
<1>4. ASSUME NEW id \in Knock, NEW ok \in BOOLEAN, B!Posted(id, ok)
      PROVE  BlockInv'
  <2>1. CASE ~ok
    <3>1. UNCHANGED <<wire, memory, disk>> /\ replying' \subseteq replying
      BY <1>a, <1>4, <2>1 DEF B!Posted
    <3> QED
      BY <1>a, <3>1 DEF BlockInv, PostsAreOnWire, B!TypeOK, B!DiskIsMasked, B!ShownIsSaid
  <2>2. CASE ok /\ wire[id] # None
    <3> DEFINE r == B!Record(wire[id], "phone")
               m == B!Redacted(r)
    <3>1. r \in B!Message /\ B!Shown(r) = B!Shown(wire[id])
      BY <1>a, <2>2, ParsedIsSaid
    <3>2. m \in B!Message /\ B!Shown(m) = B!Shown(wire[id])
      BY <3>1, RedactedIsMasked
    <3>3. /\ UNCHANGED wire /\ replying' = replying \ {id} /\ B!Save(id, m)
          /\ memory' = [memory EXCEPT ![id] = IF memory[id] = None THEN m ELSE memory[id]]
      BY <1>4, <2>2 DEF B!Posted
    <3> HIDE DEF r, m
    <3>4. \/ memory' = memory
          \/ memory' = [memory EXCEPT ![id] = m]
      BY <1>a, <3>3
    <3> QED
      BY <1>a, <2>2, <3>2, <3>3, <3>4, BlockChanges DEF PostsAreOnWire
  <2> QED
    BY <1>a, <1>4, <2>1, <2>2 DEF B!Posted, PostsAreOnWire
<1>5. ASSUME NEW id \in Knock, B!Ingest(id)
      PROVE  BlockInv'
  <2> DEFINE m == B!Record(wire[id], "relay")
             merged == IF memory[id] = None THEN m ELSE B!MergeEcho(memory[id], m)
  <2>1. wire[id] # None /\ memory' = [memory EXCEPT ![id] = merged] /\ B!Save(id, merged)
        /\ UNCHANGED <<wire, replying>>
    BY <1>5 DEF B!Ingest
  <2>2. m \in B!Message /\ B!Shown(m) = B!Shown(wire[id])
    BY <1>a, <2>1, ParsedIsSaid
  <2> HIDE DEF m
  <2>3. merged \in B!Message /\ B!Shown(merged) = B!Shown(wire[id])
    BY <1>a, <2>2, EchoChangesNothing DEF B!ShownIsSaid
  <2> HIDE DEF merged
  <2> QED
    BY <1>a, <2>1, <2>3, BlockChanges DEF PostsAreOnWire
<1>6. CASE B!Reload
  <2>1. memory' = disk /\ replying' = {} /\ UNCHANGED <<wire, disk>>
    BY <1>6 DEF B!Reload
  <2> QED
    BY <1>a, <2>1 DEF BlockInv, PostsAreOnWire, B!TypeOK, B!DiskIsMasked,
                       B!ShownIsSaid
<1>7. CASE B!Merge
  <2>1. memory' = [id \in Knock |-> IF disk[id] # None THEN disk[id] ELSE memory[id]]
        /\ UNCHANGED <<wire, replying, disk>>
    BY <1>7 DEF B!Merge
  <2>2. B!TypeOK'
    BY <1>a, <2>1 DEF B!TypeOK
  <2>3. B!DiskIsMasked'
    BY <1>a, <2>1 DEF B!DiskIsMasked
  <2>4. B!ShownIsSaid'
    BY <1>a, <2>1 DEF B!ShownIsSaid
  <2> QED
    BY <1>a, <2>1, <2>2, <2>3, <2>4 DEF BlockInv, PostsAreOnWire
<1>8. ASSUME NEW id \in Knock, B!Delete(id)
      PROVE  BlockInv'
  <2>1. memory' = [memory EXCEPT ![id] = None] /\ disk' = [disk EXCEPT ![id] = None]
        /\ UNCHANGED <<wire, replying>>
    BY <1>8 DEF B!Delete
  <2>2. B!TypeOK'
    BY <1>a, <2>1 DEF B!TypeOK
  <2>3. \A j \in Knock : /\ memory'[j] = memory[j] \/ memory'[j] = None
                         /\ disk'[j] = disk[j] \/ disk'[j] = None
    BY <1>a, <2>1
  <2>4. B!DiskIsMasked' /\ B!ShownIsSaid'
    BY <1>a, <2>1, <2>3 DEF B!DiskIsMasked, B!ShownIsSaid
  <2> QED
    BY <1>a, <2>1, <2>2, <2>4 DEF BlockInv, PostsAreOnWire
<1> QED
  BY <1>2, <1>3, <1>4, <1>5, <1>6, <1>7, <1>8 DEF B!Next
-----------------------------------------------------------------------------
(* The composer.  One send is under way at most, and what it carries was    *)
(* typed before what is being typed; a text the relay has taken, in a send  *)
(* that was answered, is neither drafted nor on its way in that form again, *)
(* nor, from a batch, waiting for the next one.                             *)
Says(m, t) == \E r \in P!ToSet(m.replies) : r.text = t
Taken(i, t, b) == i \in DOMAIN accepted /\ accepted[i].batch = b /\ Says(accepted[i], t)
Flying(t, b) == \E i \in DOMAIN flight : flight[i].batch = b /\ Says(flight[i], t)
Waiting(t) == \E i \in DOMAIN queue : queue[i].text = t

OneSend == Len(flight) <= 1

PointersAreLocal ==
    /\ replyTo \in {None, in}
    /\ \A i \in DOMAIN flight : ~flight[i].batch =>
           \A r \in P!ToSet(flight[i].replies) : r.to \in {None, flight[i].room}
    /\ \A i \in DOMAIN accepted : ~accepted[i].batch =>
           \A r \in P!ToSet(accepted[i].replies) : r.to \in {None, accepted[i].room}

TakenOnce ==
    \A t \in Token \ unanswered, b \in BOOLEAN, i, j \in DOMAIN accepted :
        Taken(i, t, b) /\ Taken(j, t, b) => i = j

TakenIsGone ==
    \A t \in Token \ unanswered, b \in BOOLEAN, i \in DOMAIN accepted :
        Taken(i, t, b) => t # draft /\ ~Flying(t, b)

BatchIsGone ==
    \A t \in Token \ unanswered, i \in DOMAIN accepted : Taken(i, t, TRUE) => ~Waiting(t)

DraftIsNew == \A t \in Token : Waiting(t) \/ Flying(t, TRUE) => t # draft

ComposerInv ==
    P!TypeOK /\ OneSend /\ PointersAreLocal /\ TakenOnce /\ TakenIsGone /\ BatchIsGone
    /\ DraftIsNew

LEMMA Removing ==
    ASSUME NEW S, NEW s \in Seq(S), NEW i \in DOMAIN s
    PROVE  /\ P!RemoveAt(s, i) \in Seq(S) /\ Len(P!RemoveAt(s, i)) = Len(s) - 1
           /\ DOMAIN P!RemoveAt(s, i) = 1..(Len(s) - 1)
           /\ \A j \in 1..(Len(s) - 1) :
                  P!RemoveAt(s, i)[j] = IF j < i THEN s[j] ELSE s[j + 1]
<1> DEFINE a == SubSeq(s, 1, i - 1)
           b == SubSeq(s, i + 1, Len(s))
<1>0. ASSUME NEW m \in Int, NEW n \in Int, \A k \in m..n : s[k] \in S
      PROVE  /\ SubSeq(s, m, n) \in Seq(S)
             /\ Len(SubSeq(s, m, n)) = IF m <= n THEN n - m + 1 ELSE 0
             /\ \A j \in 1..(n - m + 1) : SubSeq(s, m, n)[j] = s[m + j - 1]
  BY <1>0, SubSeqProperties
<1>1. Len(s) \in Nat /\ i \in 1..Len(s) /\ DOMAIN s = 1..Len(s)
  OBVIOUS
<1>2. /\ a \in Seq(S) /\ Len(a) = i - 1 /\ DOMAIN a = 1..(i - 1)
      /\ \A j \in 1..(i - 1) : a[j] = s[j]
  <2>1. 1 \in Int /\ i - 1 \in Int /\ \A k \in 1..(i - 1) : s[k] \in S
    BY <1>1
  <2>2. /\ a \in Seq(S)
        /\ Len(a) = IF 1 <= i - 1 THEN (i - 1) - 1 + 1 ELSE 0
        /\ \A j \in 1..((i - 1) - 1 + 1) : a[j] = s[1 + j - 1]
    BY <1>0, <2>1
  <2>3. (i - 1) - 1 + 1 = i - 1 /\ \A j \in 1..(i - 1) : 1 + j - 1 = j
    BY <1>1
  <2> HIDE DEF a
  <2>4. Len(a) = i - 1
    BY ONLY <1>1, <2>2
  <2> QED
    BY <2>2, <2>3, <2>4
<1>3. /\ b \in Seq(S) /\ Len(b) = Len(s) - i /\ DOMAIN b = 1..(Len(s) - i)
      /\ \A j \in 1..(Len(s) - i) : b[j] = s[i + j]
  <2>1. i + 1 \in Int /\ Len(s) \in Int /\ \A k \in (i + 1)..Len(s) : s[k] \in S
    BY <1>1
  <2>2. /\ b \in Seq(S)
        /\ Len(b) = IF i + 1 <= Len(s) THEN Len(s) - (i + 1) + 1 ELSE 0
        /\ \A j \in 1..(Len(s) - (i + 1) + 1) : b[j] = s[(i + 1) + j - 1]
    BY <1>0, <2>1
  <2>3. /\ Len(s) - (i + 1) + 1 = Len(s) - i
        /\ \A j \in 1..(Len(s) - i) : (i + 1) + j - 1 = i + j
    BY <1>1
  <2> HIDE DEF b
  <2>4. Len(b) = Len(s) - i
    BY ONLY <1>1, <2>2
  <2> QED
    BY <2>2, <2>3, <2>4
<1>4. P!RemoveAt(s, i) = a \o b
  BY DEF P!RemoveAt
<1> HIDE DEF a, b
<1>5. /\ a \o b \in Seq(S) /\ Len(a \o b) = Len(a) + Len(b)
      /\ \A j \in 1..(Len(a) + Len(b)) :
             (a \o b)[j] = IF j <= Len(a) THEN a[j] ELSE b[j - Len(a)]
  BY <1>2, <1>3, ConcatProperties, Zenon
<1>6. Len(a \o b) = Len(s) - 1 /\ DOMAIN (a \o b) = 1..(Len(s) - 1)
  <2>1. PICK c : c = a \o b
    OBVIOUS
  <2>2. c \in Seq(S) /\ Len(c) = (i - 1) + (Len(s) - i)
    BY <1>2, <1>3, <1>5, <2>1
  <2>3. Len(c) = Len(s) - 1 /\ DOMAIN c = 1..Len(c)
    BY <1>1, <2>2
  <2> QED
    BY <2>1, <2>3
<1>7. ASSUME NEW j \in 1..(Len(s) - 1)
      PROVE  (a \o b)[j] = IF j < i THEN s[j] ELSE s[j + 1]
  <2>1. CASE j <= i - 1
    <3>1. j \in 1..(i - 1) /\ j <= Len(a) /\ j \in 1..(Len(a) + Len(b)) /\ j < i
      BY <1>1, <1>2, <1>3, <2>1
    <3> QED
      BY <1>2, <1>5, <3>1
  <2>2. CASE j > i - 1
    <3>1. /\ j \in 1..(Len(a) + Len(b)) /\ ~(j <= Len(a)) /\ j - Len(a) \in 1..(Len(s) - i)
          /\ i + (j - Len(a)) = j + 1 /\ ~(j < i)
      BY <1>1, <1>2, <1>3, <2>2
    <3> QED
      BY <1>3, <1>5, <3>1
  <2> QED
    <3>1. j <= i - 1 \/ j > i - 1
      BY <1>1, <1>7
    <3> QED
      BY <2>1, <2>2, <3>1, Zenon
<1> QED
  BY <1>4, <1>5, <1>6, <1>7

LEMMA Appending ==
    ASSUME NEW S, NEW s \in Seq(S), NEW x \in S
    PROVE  /\ Append(s, x) \in Seq(S) /\ DOMAIN Append(s, x) = 1..(Len(s) + 1)
           /\ DOMAIN s = 1..Len(s) /\ Len(s) \in Nat
           /\ Len(Append(s, x)) = Len(s) + 1 /\ Append(s, x)[Len(s) + 1] = x
           /\ \A j \in 1..Len(s) : Append(s, x)[j] = s[j]
OBVIOUS

LEMMA WritingBegins ==
    ASSUME P!BoundsAssumption, P!Init
    PROVE  ComposerInv
<1> USE DEF P!Init
<1>1. P!TypeOK
  <2>1. switches \in 0..MaxSwitch /\ unanswered \subseteq Token /\ in \in Place
    BY DEF P!BoundsAssumption
  <2>2. open \in BOOLEAN /\ draft \in Token \cup {None} /\ replyTo \in Place \cup {None}
    BY Zenon
  <2>3. queue \in Seq(P!Reply) /\ accepted \in Seq(P!Message) /\ flight \in Seq(P!Message)
    BY EmptySeq
  <2> HIDE DEF P!Init
  <2> QED
    BY <2>1, <2>2, <2>3, Zenon DEF P!TypeOK
<1>2. OneSend /\ PointersAreLocal
  BY DEF OneSend, PointersAreLocal
<1>3. TakenOnce /\ TakenIsGone /\ BatchIsGone /\ DraftIsNew
  BY DEF TakenOnce, TakenIsGone, BatchIsGone, DraftIsNew, Waiting, Flying
<1> QED
  BY <1>1, <1>2, <1>3 DEF ComposerInv

(* A text that may be typed is in no draft, queue, send or message.         *)
LEMMA NewIsNowhere ==
    ASSUME P!TypeOK, NEW t \in Token, t \notin P!Typed
    PROVE  /\ t # draft /\ ~Waiting(t) /\ t \notin unanswered
           /\ \A i \in DOMAIN accepted : ~Says(accepted[i], t)
           /\ \A i \in DOMAIN flight : ~Says(flight[i], t)
<1> DEFINE every == accepted \o flight
<1>a. accepted \in Seq(P!Message) /\ flight \in Seq(P!Message)
  BY DEF P!TypeOK
<1>1. /\ every \in Seq(P!Message) /\ Len(every) = Len(accepted) + Len(flight)
      /\ \A j \in 1..(Len(accepted) + Len(flight)) :
             every[j] = IF j <= Len(accepted) THEN accepted[j] ELSE flight[j - Len(accepted)]
  BY <1>a, ConcatProperties, Zenon
<1> HIDE DEF every
<1>2. /\ t # draft /\ t \notin unanswered /\ ~Waiting(t)
      /\ \A m \in P!ToSet(every) : ~Says(m, t)
  BY DEF P!Typed, Waiting, Says, every
<1>3. \A j \in 1..(Len(accepted) + Len(flight)) : every[j] \in P!ToSet(every)
  <2>1. DOMAIN every = 1..(Len(accepted) + Len(flight))
    BY <1>1
  <2> QED
    BY <2>1 DEF P!ToSet
<1>4. ASSUME NEW i \in DOMAIN accepted
      PROVE  ~Says(accepted[i], t)
  <2>1. i \in 1..(Len(accepted) + Len(flight)) /\ i <= Len(accepted)
    BY <1>a
  <2> QED
    BY <1>1, <1>2, <1>3, <2>1
<1>5. ASSUME NEW i \in DOMAIN flight
      PROVE  ~Says(flight[i], t)
  <2>1. /\ Len(accepted) + i \in 1..(Len(accepted) + Len(flight))
        /\ ~(Len(accepted) + i <= Len(accepted)) /\ Len(accepted) + i - Len(accepted) = i
    BY <1>a
  <2> QED
    BY <1>1, <1>2, <1>3, <2>1
<1> QED
  BY <1>2, <1>4, <1>5

LEMMA ComposerTypeKept ==
    ASSUME P!NoneAssumption, P!BoundsAssumption, P!TypeOK, P!Next
    PROVE  P!TypeOK'
<1>a. /\ in \in Place /\ open \in BOOLEAN
      /\ draft \in Token \cup {None} /\ replyTo \in Place \cup {None}
      /\ queue \in Seq(P!Reply) /\ accepted \in Seq(P!Message) /\ flight \in Seq(P!Message)
      /\ unanswered \subseteq Token /\ switches \in 0..MaxSwitch /\ MaxSwitch \in Nat
  BY DEF P!TypeOK, P!BoundsAssumption
<1>b. ASSUME /\ in' \in Place /\ open' \in BOOLEAN
             /\ draft' \in Token \cup {None} /\ replyTo' \in Place \cup {None}
             /\ queue' \in Seq(P!Reply) /\ accepted' \in Seq(P!Message)
             /\ flight' \in Seq(P!Message)
             /\ unanswered' \subseteq Token /\ switches' \in 0..MaxSwitch
      PROVE  P!TypeOK'
  BY <1>b, Zenon DEF P!TypeOK
<1>1. ASSUME NEW to \in Place \cup {None}, P!OpenComposer(to)
      PROVE  P!TypeOK'
  BY <1>a, <1>b, <1>1, Zenon DEF P!OpenComposer
<1>2. ASSUME NEW t \in Token, P!Type(t)
      PROVE  P!TypeOK'
  BY <1>a, <1>b, <1>2, Zenon DEF P!Type
<1>3. CASE P!CloseComposer
  BY <1>a, <1>b, <1>3, Zenon DEF P!CloseComposer
<1>4. CASE P!QueueReply
  <2>1. [text |-> draft, to |-> replyTo] \in P!Reply
    BY <1>a, <1>4 DEF P!QueueReply, P!Reply
  <2>2. Append(queue, [text |-> draft, to |-> replyTo]) \in Seq(P!Reply)
    BY <1>a, <2>1, Appending, Zenon
  <2> QED
    BY <1>a, <1>b, <1>4, <2>2, Zenon DEF P!QueueReply
<1>c. ASSUME NEW m \in P!Message, flight' = Append(flight, m),
             UNCHANGED <<in, P!composer, queue, accepted, unanswered, switches>>
      PROVE  P!TypeOK'
  <2>1. Append(flight, m) \in Seq(P!Message)
    BY <1>a, Appending, Zenon
  <2> QED
    BY <1>a, <1>b, <1>c, <2>1, Zenon DEF P!composer
<1>5. CASE P!SendText
  <2> DEFINE r == [text |-> draft, to |-> replyTo]
             m == [room |-> in, batch |-> FALSE, replies |-> <<r>>]
  <2>1. r \in P!Reply
    BY <1>a, <1>5 DEF P!SendText, P!Reply
  <2> HIDE DEF r
  <2>2. <<r>> \in Seq(P!Reply)
    BY <2>1
  <2>3. m \in P!Message
    BY <1>a, <2>2, Zenon DEF P!Message
  <2>4. flight' = Append(flight, m)
        /\ UNCHANGED <<in, P!composer, queue, accepted, unanswered, switches>>
    BY <1>5, Zenon DEF P!SendText, r
  <2> QED
    BY <1>c, <2>3, <2>4, Zenon
<1>6. CASE P!DispatchBatch
  <2> DEFINE m == [room |-> in, batch |-> TRUE, replies |-> queue]
  <2>1. m \in P!Message
    BY <1>a, Zenon DEF P!Message
  <2>2. flight' = Append(flight, m)
        /\ UNCHANGED <<in, P!composer, queue, accepted, unanswered, switches>>
    BY <1>6, Zenon DEF P!DispatchBatch
  <2> QED
    BY <1>c, <2>1, <2>2, Zenon
<1>7. CASE P!ClearBatch
  <2>1. <<>> \in Seq(P!Reply)
    BY EmptySeq
  <2> QED
    BY <1>a, <1>b, <1>7, <2>1, Zenon DEF P!ClearBatch, P!composer
<1>8. ASSUME NEW i \in DOMAIN queue, P!RemoveQueuedReply(i)
      PROVE  P!TypeOK'
  <2>1. P!RemoveAt(queue, i) \in Seq(P!Reply)
    BY <1>a, Removing, Zenon
  <2> QED
    BY <1>a, <1>b, <1>8, <2>1, Zenon DEF P!RemoveQueuedReply, P!composer
<1>d. ASSUME NEW i \in DOMAIN flight
      PROVE  /\ P!RemoveAt(flight, i) \in Seq(P!Message)
             /\ Append(accepted, flight[i]) \in Seq(P!Message)
             /\ {r.text : r \in P!ToSet(flight[i].replies)} \subseteq Token
  <2>1. flight[i] \in P!Message
    BY <1>a, ElementOfSeq
  <2>2. P!ToSet(flight[i].replies) \subseteq P!Reply
    BY <2>1 DEF P!Message, P!ToSet
  <2>3. \A r \in P!Reply : r.text \in Token
    BY DEF P!Reply
  <2> QED
    BY <1>a, <2>1, <2>2, <2>3, Removing, Appending, Zenon
<1>9. ASSUME NEW i \in DOMAIN flight, P!SendSucceeds(i)
      PROVE  P!TypeOK'
  <2>1. <<>> \in Seq(P!Reply)
    BY EmptySeq
  <2>2. /\ in' = in /\ unanswered' = unanswered /\ switches' = switches
        /\ accepted' = Append(accepted, flight[i]) /\ flight' = P!RemoveAt(flight, i)
        /\ queue' = <<>> \/ queue' = queue
        /\ draft' = None \/ draft' = draft
        /\ replyTo' = None \/ replyTo' = replyTo
    BY <1>9, Zenon DEF P!SendSucceeds, P!composer
  <2>3. open' = FALSE \/ open' = open
    BY <1>9, Zenon DEF P!SendSucceeds, P!composer
  <2> QED
    BY <1>a, <1>b, <1>d, <2>1, <2>2, <2>3, Zenon
<1>10. ASSUME NEW i \in DOMAIN flight, P!SendIsRefused(i)
       PROVE  P!TypeOK'
  BY <1>a, <1>b, <1>d, <1>10, Zenon DEF P!SendIsRefused, P!composer
<1>11. ASSUME NEW i \in DOMAIN flight, P!SendIsUnanswered(i)
       PROVE  P!TypeOK'
  <2>1. unanswered' = unanswered \cup {r.text : r \in P!ToSet(flight[i].replies)}
    BY <1>11, Zenon DEF P!SendIsUnanswered
  <2>2. unanswered' \subseteq Token
    BY <1>a, <1>d, <2>1
  <2> QED
    BY <1>a, <1>b, <1>d, <1>11, <2>2, Zenon DEF P!SendIsUnanswered, P!composer
<1>12. ASSUME NEW r \in Place, P!EnterRoom(r)
       PROVE  P!TypeOK'
  <2>1. switches' \in 0..MaxSwitch
    BY <1>a, <1>12 DEF P!EnterRoom
  <2> QED
    BY <1>a, <1>b, <1>12, <2>1, Zenon DEF P!EnterRoom
<1> QED
  BY <1>1, <1>2, <1>3, <1>4, <1>5, <1>6, <1>7, <1>8, <1>9, <1>10, <1>11, <1>12 DEF P!Next

(* At most one send is under way, so none is left when it is answered.      *)
LEMMA OnlyOneFlies ==
    ASSUME P!TypeOK, OneSend, NEW i \in DOMAIN flight
    PROVE  /\ flight[i] \in P!Message /\ P!RemoveAt(flight, i) \in Seq(P!Message)
           /\ DOMAIN P!RemoveAt(flight, i) = {} /\ Len(P!RemoveAt(flight, i)) = 0
<1>a. flight \in Seq(P!Message) /\ Len(flight) <= 1
  BY DEF P!TypeOK, OneSend
<1>1. flight[i] \in P!Message
  BY <1>a, ElementOfSeq
<1>2. PICK s : s = P!RemoveAt(flight, i)
  OBVIOUS
<1>3. s \in Seq(P!Message) /\ Len(s) = Len(flight) - 1
  BY <1>a, <1>2, Removing, Zenon
<1>4. Len(flight) = 1
  BY <1>a
<1>5. Len(s) = 0
  BY <1>3, <1>4
<1>6. DOMAIN s = {}
  BY <1>3, <1>5
<1> QED
  BY <1>1, <1>2, <1>3, <1>5, <1>6

(* Nothing that is taken says what is typed, waits or flies anew.           *)
LEMMA PointersKept ==
    ASSUME ComposerInv, P!Next
    PROVE  OneSend' /\ PointersAreLocal'
<1>a. /\ P!TypeOK /\ OneSend /\ PointersAreLocal
      /\ accepted \in Seq(P!Message) /\ flight \in Seq(P!Message) /\ Len(flight) <= 1
  BY DEF ComposerInv, P!TypeOK, OneSend
<1> DEFINE Local(m) == ~m.batch => \A r \in P!ToSet(m.replies) : r.to \in {None, m.room}
<1>b. /\ replyTo \in {None, in}
      /\ \A i \in DOMAIN flight : Local(flight[i])
      /\ \A i \in DOMAIN accepted : Local(accepted[i])
  BY <1>a, Zenon DEF PointersAreLocal
<1>c. ASSUME /\ replyTo' \in {None, in'}
             /\ \A i \in DOMAIN flight' : Local(flight'[i])
             /\ \A i \in DOMAIN accepted' : Local(accepted'[i])
      PROVE  PointersAreLocal'
  BY <1>c, Zenon DEF PointersAreLocal
<1> HIDE DEF Local
<1>1. ASSUME UNCHANGED <<flight, accepted>>, replyTo' \in {None, in'}
      PROVE  OneSend' /\ PointersAreLocal'
  BY <1>1, <1>a, <1>b, <1>c DEF OneSend
<1>2. ASSUME UNCHANGED <<in, replyTo, accepted>>, flight = <<>>,
             NEW m, Local(m), flight' = Append(flight, m)
      PROVE  OneSend' /\ PointersAreLocal'
  <2>1. flight' = <<m>> /\ DOMAIN flight' = {1} /\ flight'[1] = m /\ Len(flight') = 1
    BY <1>2
  <2> QED
    BY <1>2, <1>b, <1>c, <2>1 DEF OneSend
<1>3. ASSUME NEW i \in DOMAIN flight, flight' = P!RemoveAt(flight, i),
             replyTo' \in {None, in'},
             accepted' = accepted \/ accepted' = Append(accepted, flight[i])
      PROVE  OneSend' /\ PointersAreLocal'
  <2>1. DOMAIN flight' = {} /\ Len(flight') = 0 /\ flight[i] \in P!Message
    BY <1>3, <1>a, OnlyOneFlies
  <2>2. ASSUME NEW j \in DOMAIN accepted'
        PROVE  Local(accepted'[j])
    <3>1. CASE accepted' = accepted
      BY <1>b, <3>1
    <3>2. CASE accepted' = Append(accepted, flight[i])
      <4>1. accepted'[j] = flight[i] \/ (j \in DOMAIN accepted /\ accepted'[j] = accepted[j])
        BY <1>a, <2>1, <3>2, Appending
      <4> QED
        BY <1>b, <4>1
    <3> QED
      BY <1>3, <3>1, <3>2
  <2> QED
    BY <1>3, <1>c, <2>1, <2>2 DEF OneSend
<1>4. ASSUME NEW to \in Place \cup {None}, P!OpenComposer(to)
      PROVE  OneSend' /\ PointersAreLocal'
  BY <1>4, <1>1 DEF P!OpenComposer
<1>5. ASSUME NEW t \in Token, P!Type(t)
      PROVE  OneSend' /\ PointersAreLocal'
  BY <1>5, <1>1, <1>b DEF P!Type
<1>6. CASE P!CloseComposer \/ P!QueueReply
  BY <1>6, <1>1 DEF P!CloseComposer, P!QueueReply
<1>7. CASE P!ClearBatch
  BY <1>7, <1>1, <1>b DEF P!ClearBatch, P!composer
<1>8. ASSUME NEW i \in DOMAIN queue, P!RemoveQueuedReply(i)
      PROVE  OneSend' /\ PointersAreLocal'
  BY <1>8, <1>1, <1>b DEF P!RemoveQueuedReply, P!composer
<1>9. ASSUME NEW r \in Place, P!EnterRoom(r)
      PROVE  OneSend' /\ PointersAreLocal'
  BY <1>9, <1>1 DEF P!EnterRoom
<1>10. CASE P!SendText
  <2> DEFINE r == [text |-> draft, to |-> replyTo]
             m == [room |-> in, batch |-> FALSE, replies |-> <<r>>]
  <2>1. flight = <<>> /\ flight' = Append(flight, m) /\ UNCHANGED <<in, replyTo, accepted>>
    BY <1>10, Zenon DEF P!SendText, P!MaySend, P!composer
  <2>2. P!ToSet(<<r>>) = {r}
    BY DEF P!ToSet
  <2>3. m.replies = <<r>> /\ m.room = in /\ r.to = replyTo
    OBVIOUS
  <2>4. \A q \in P!ToSet(m.replies) : q.to \in {None, m.room}
    BY <1>b, <2>2, <2>3
  <2>5. Local(m)
    BY <2>4, Zenon DEF Local
  <2> HIDE DEF m
  <2> QED
    BY <1>2, <2>1, <2>5
<1>11. CASE P!DispatchBatch
  <2> DEFINE m == [room |-> in, batch |-> TRUE, replies |-> queue]
  <2>1. flight = <<>> /\ flight' = Append(flight, m) /\ UNCHANGED <<in, replyTo, accepted>>
    BY <1>11, Zenon DEF P!DispatchBatch, P!MaySend, P!composer
  <2>2. Local(m)
    BY Zenon DEF Local
  <2> HIDE DEF m
  <2> QED
    BY <1>2, <2>1, <2>2
<1>12. ASSUME NEW i \in DOMAIN flight,
              P!SendSucceeds(i) \/ P!SendIsRefused(i) \/ P!SendIsUnanswered(i)
       PROVE  OneSend' /\ PointersAreLocal'
  <2>1. /\ flight' = P!RemoveAt(flight, i) /\ in' = in
        /\ accepted' = accepted \/ accepted' = Append(accepted, flight[i])
        /\ replyTo' = None \/ replyTo' = replyTo
    BY <1>12, Zenon DEF P!SendSucceeds, P!SendIsRefused, P!SendIsUnanswered, P!composer
  <2> QED
    BY <1>b, <1>3, <2>1
<1> QED
  BY <1>4, <1>5, <1>6, <1>7, <1>8, <1>9, <1>10, <1>11, <1>12 DEF P!Next

(* What is taken once is taken once: the drafts and replies of a send are   *)
(* forgotten as it is answered, and nothing typed anew was typed before.    *)
LEMMA TakingKept ==
    ASSUME P!NoneAssumption, ComposerInv, P!Next
    PROVE  TakenOnce' /\ TakenIsGone' /\ BatchIsGone' /\ DraftIsNew'
<1>a. /\ P!TypeOK /\ OneSend /\ TakenOnce /\ TakenIsGone /\ BatchIsGone /\ DraftIsNew
      /\ accepted \in Seq(P!Message) /\ flight \in Seq(P!Message) /\ queue \in Seq(P!Reply)
      /\ draft \in Token \cup {None} /\ None \notin Token
  BY DEF ComposerInv, P!TypeOK, P!NoneAssumption
<1> USE DEF TakenOnce, TakenIsGone, BatchIsGone, DraftIsNew
(* The relay took nothing, and nothing is typed, waits or flies that did    *)
(* not before, but for drafts that wait or fly and what waits that flies.   *)
<1>1. ASSUME UNCHANGED <<accepted, unanswered>>,
             \A t \in Token, b \in BOOLEAN :
                 Flying(t, b)' => Flying(t, b) \/ (b = TRUE /\ Waiting(t)) \/ (b = FALSE /\ t = draft),
             \A t \in Token : Waiting(t)' => Waiting(t) \/ (t = draft /\ draft' = None),
             draft' = draft \/ draft' = None
      PROVE  TakenOnce' /\ TakenIsGone' /\ BatchIsGone' /\ DraftIsNew'
  <2>1. \A i, t, b : Taken(i, t, b)' <=> Taken(i, t, b)
    BY <1>1, Zenon DEF Taken, Says
  <2>2. TakenOnce'
    BY <1>a, <1>1, <2>1, Zenon
  <2>3. TakenIsGone'
    BY <1>a, <1>1, <2>1
  <2>4. BatchIsGone'
    BY <1>a, <1>1, <2>1
  <2>5. DraftIsNew'
    BY <1>a, <1>1
  <2> QED
    BY <2>2, <2>3, <2>4, <2>5
(* The answer to a send that says what is forgotten now, or is lost.        *)
<1>2. ASSUME NEW i \in DOMAIN flight, accepted' = Append(accepted, flight[i]),
             unanswered \subseteq unanswered', \A t \in Token, b \in BOOLEAN : ~Flying(t, b)',
             \A t \in Token : Waiting(t)' => Waiting(t), draft' = draft \/ draft' = None,
             \A t \in Token \ unanswered' : Says(flight[i], t) =>
                 t # draft' /\ (flight[i].batch = TRUE => ~Waiting(t)')
      PROVE  TakenOnce' /\ TakenIsGone' /\ BatchIsGone' /\ DraftIsNew'
  <2> DEFINE n == Len(accepted) + 1
  <2>1. /\ flight[i] \in P!Message /\ DOMAIN accepted' = 1..n /\ DOMAIN accepted = 1..(n - 1)
        /\ accepted'[n] = flight[i] /\ \A j \in 1..(n - 1) : accepted'[j] = accepted[j]
        /\ n \in Nat /\ n >= 1
    <3>1. flight[i] \in P!Message
      BY <1>a, OnlyOneFlies
    <3>2. Len(accepted) \in Nat
      BY <1>a
    <3> QED
      BY <1>a, <1>2, <3>1, <3>2, Appending
  <2> HIDE DEF n
  <2>2. ASSUME NEW j \in DOMAIN accepted', NEW t \in Token, NEW b \in BOOLEAN, Taken(j, t, b)'
        PROVE  \/ j # n /\ j \in DOMAIN accepted /\ Taken(j, t, b)
               \/ j = n /\ flight[i].batch = b /\ Says(flight[i], t) /\ Flying(t, b)
    <3>1. CASE j = n
      <4>1. flight[i].batch = b /\ Says(flight[i], t)
        BY <2>1, <2>2, <3>1 DEF Taken, Says
      <4> QED
        BY <3>1, <4>1 DEF Flying
    <3>2. CASE j # n
      <4>1. j \in 1..(n - 1)
        BY <2>1, <3>2
      <4> QED
        BY <2>1, <2>2, <3>2, <4>1 DEF Taken, Says
    <3> QED
      BY <3>1, <3>2
  <2>3. ASSUME NEW t \in Token \ unanswered', NEW b \in BOOLEAN,
               NEW j \in DOMAIN accepted', NEW k \in DOMAIN accepted',
               Taken(j, t, b)', Taken(k, t, b)'
        PROVE  j = k
    <3>1. t \in Token \ unanswered
      BY <1>2
    <3>2. ~(Flying(t, b) /\ \E l \in DOMAIN accepted : Taken(l, t, b))
      BY <1>a, <3>1
    <3> QED
      BY <1>a, <2>2, <2>3, <3>1, <3>2
  <2>4. ASSUME NEW t \in Token \ unanswered', NEW b \in BOOLEAN,
               NEW j \in DOMAIN accepted', Taken(j, t, b)'
        PROVE  t # draft' /\ ~Flying(t, b)' /\ (b = TRUE => ~Waiting(t)')
    <3>1. t \in Token \ unanswered
      BY <1>2
    <3>2. CASE j \in DOMAIN accepted /\ Taken(j, t, b)
      <4>1. t # draft /\ (b = TRUE => ~Waiting(t))
        BY <1>a, <3>1, <3>2
      <4> QED
        BY <1>a, <1>2, <4>1
    <3>3. CASE flight[i].batch = b /\ Says(flight[i], t)
      BY <1>2, <3>3
    <3> QED
      BY <2>2, <2>4, <3>2, <3>3
  <2>5. DraftIsNew'
    BY <1>a, <1>2
  <2>6. TakenOnce'
    BY <2>3, Zenon
  <2>7. TakenIsGone' /\ BatchIsGone'
    BY <2>4
  <2> QED
    BY <2>5, <2>6, <2>7
<1>b. ASSUME NEW t \in Token, NEW b \in BOOLEAN
      PROVE  /\ UNCHANGED flight => (Flying(t, b)' <=> Flying(t, b))
             /\ UNCHANGED queue => (Waiting(t)' <=> Waiting(t))
  BY Zenon DEF Flying, Waiting, Says
<1>3. ASSUME UNCHANGED <<flight, queue, draft, accepted, unanswered>>
      PROVE  TakenOnce' /\ TakenIsGone' /\ BatchIsGone' /\ DraftIsNew'
  BY <1>1, <1>3, <1>b, Zenon
<1>4. ASSUME NEW to \in Place \cup {None}, P!OpenComposer(to)
      PROVE  TakenOnce' /\ TakenIsGone' /\ BatchIsGone' /\ DraftIsNew'
  BY <1>3, <1>4, Zenon DEF P!OpenComposer
<1>5. CASE P!CloseComposer
  BY <1>3, <1>5, Zenon DEF P!CloseComposer
<1>6. ASSUME NEW r \in Place, P!EnterRoom(r)
      PROVE  TakenOnce' /\ TakenIsGone' /\ BatchIsGone' /\ DraftIsNew'
  BY <1>3, <1>6, Zenon DEF P!EnterRoom
<1>7. ASSUME NEW t \in Token, P!Type(t)
      PROVE  TakenOnce' /\ TakenIsGone' /\ BatchIsGone' /\ DraftIsNew'
  <2>1. /\ ~Waiting(t) /\ \A j \in DOMAIN accepted : ~Says(accepted[j], t)
        /\ \A j \in DOMAIN flight : ~Says(flight[j], t)
    BY <1>a, <1>7, NewIsNowhere DEF P!Type
  <2>2. draft' = t /\ UNCHANGED <<queue, flight, accepted, unanswered>>
    BY <1>7, Zenon DEF P!Type
  <2>3. \A j, u, b : Taken(j, u, b)' <=> Taken(j, u, b)
    BY <2>2, Zenon DEF Taken, Says
  <2>4. \A j, b : ~Taken(j, t, b) /\ ~Flying(t, b)
    BY <2>1, Zenon DEF Taken, Flying
  <2>5. TakenOnce'
    BY <1>a, <2>2, <2>3, Zenon
  <2>6. TakenIsGone'
    BY <1>a, <1>b, <2>2, <2>3, <2>4
  <2>7. BatchIsGone'
    BY <1>a, <1>b, <2>2, <2>3
  <2>8. DraftIsNew'
    BY <1>a, <1>b, <2>1, <2>2, <2>4
  <2> QED
    BY <2>5, <2>6, <2>7, <2>8
<1>8. CASE P!QueueReply
  <2> DEFINE r == [text |-> draft, to |-> replyTo]
  <2>1. r.text = draft /\ r \in P!Reply
    BY <1>a, <1>8 DEF P!QueueReply, P!Reply, P!TypeOK
  <2>2. queue' = Append(queue, r) /\ draft' = None /\ UNCHANGED <<flight, accepted, unanswered>>
    BY <1>8, Zenon DEF P!QueueReply
  <2> HIDE DEF r
  <2>3. ASSUME NEW j \in DOMAIN queue'
        PROVE  queue'[j].text = draft \/ (j \in DOMAIN queue /\ queue'[j] = queue[j])
    BY <1>a, <2>1, <2>2, Appending
  <2>4. \A t \in Token : Waiting(t)' => Waiting(t) \/ (t = draft /\ draft' = None)
    BY <2>2, <2>3 DEF Waiting
  <2> QED
    BY <1>1, <1>b, <2>2, <2>4, Zenon
<1>c. ASSUME NEW m, flight = <<>>, flight' = Append(flight, m),
             UNCHANGED <<queue, draft, accepted, unanswered>>,
             \A t \in Token : Says(m, t) =>
                 (m.batch = TRUE /\ Waiting(t)) \/ (m.batch = FALSE /\ t = draft)
      PROVE  TakenOnce' /\ TakenIsGone' /\ BatchIsGone' /\ DraftIsNew'
  <2>1. DOMAIN flight' = {1} /\ flight'[1] = m
    BY <1>c
  <2>2. \A t \in Token, b \in BOOLEAN : Flying(t, b)' => Says(m, t) /\ m.batch = b
    BY <2>1 DEF Flying, Says
  <2>3. \A t \in Token, b \in BOOLEAN :
            Flying(t, b)' => (b = TRUE /\ Waiting(t)) \/ (b = FALSE /\ t = draft)
    BY <1>c, <2>2
  <2> QED
    BY <1>1, <1>b, <1>c, <2>3, Zenon
<1>9. CASE P!SendText
  <2> DEFINE r == [text |-> draft, to |-> replyTo]
             m == [room |-> in, batch |-> FALSE, replies |-> <<r>>]
  <2>1. /\ flight = <<>> /\ flight' = Append(flight, m)
        /\ UNCHANGED <<queue, draft, accepted, unanswered>>
    BY <1>9, Zenon DEF P!SendText, P!MaySend, P!composer
  <2>2. P!ToSet(<<r>>) = {r}
    BY DEF P!ToSet
  <2>3. m.replies = <<r>> /\ r.text = draft
    OBVIOUS
  <2>4. m.batch = FALSE
    BY Zenon
  <2> HIDE DEF m, r
  <2>5. \A t \in Token : Says(m, t) => t = draft
    BY <2>2, <2>3 DEF Says
  <2> QED
    BY <1>c, <2>1, <2>4, <2>5, Zenon
<1>10. CASE P!DispatchBatch
  <2> DEFINE m == [room |-> in, batch |-> TRUE, replies |-> queue]
  <2>1. /\ flight = <<>> /\ flight' = Append(flight, m)
        /\ UNCHANGED <<queue, draft, accepted, unanswered>>
    BY <1>10, Zenon DEF P!DispatchBatch, P!MaySend, P!composer
  <2>2. m.replies = queue
    OBVIOUS
  <2>3. m.batch = TRUE
    BY Zenon
  <2> HIDE DEF m
  <2>4. \A t \in Token : Says(m, t) => Waiting(t)
    BY <2>2 DEF Says, Waiting, P!ToSet
  <2> QED
    BY <1>c, <2>1, <2>3, <2>4, Zenon
<1>11. CASE P!ClearBatch
  <2>1. queue' = <<>> /\ UNCHANGED <<flight, draft, accepted, unanswered>>
    BY <1>11, Zenon DEF P!ClearBatch, P!composer
  <2>2. \A t \in Token : ~Waiting(t)'
    BY <2>1 DEF Waiting
  <2> QED
    BY <1>1, <1>b, <2>1, <2>2, Zenon
<1>12. ASSUME NEW i \in DOMAIN queue, P!RemoveQueuedReply(i)
       PROVE  TakenOnce' /\ TakenIsGone' /\ BatchIsGone' /\ DraftIsNew'
  <2>1. queue' = P!RemoveAt(queue, i) /\ UNCHANGED <<flight, draft, accepted, unanswered>>
    BY <1>12, Zenon DEF P!RemoveQueuedReply, P!composer
  <2>2. \A j \in DOMAIN queue' : \E k \in DOMAIN queue : queue'[j] = queue[k]
    <3>1. /\ DOMAIN queue' = 1..(Len(queue) - 1) /\ DOMAIN queue = 1..Len(queue)
          /\ \A j \in 1..(Len(queue) - 1) :
                 queue'[j] = IF j < i THEN queue[j] ELSE queue[j + 1]
      BY <1>a, <2>1, Removing
    <3>2. \A j \in 1..(Len(queue) - 1) : j \in 1..Len(queue) /\ j + 1 \in 1..Len(queue)
      BY <1>a
    <3> QED
      BY <3>1, <3>2
  <2>3. \A t \in Token : Waiting(t)' => Waiting(t)
    BY <2>2 DEF Waiting
  <2> QED
    BY <1>1, <1>b, <2>1, <2>3, Zenon
<1>d. ASSUME NEW i \in DOMAIN flight, flight' = P!RemoveAt(flight, i)
      PROVE  \A t \in Token, b \in BOOLEAN : ~Flying(t, b)'
  <2>1. DOMAIN flight' = {}
    BY <1>a, <1>d, OnlyOneFlies
  <2> QED
    BY <2>1 DEF Flying
<1>13. ASSUME NEW i \in DOMAIN flight, P!SendSucceeds(i)
       PROVE  TakenOnce' /\ TakenIsGone' /\ BatchIsGone' /\ DraftIsNew'
  <2>1. /\ accepted' = Append(accepted, flight[i]) /\ unanswered' = unanswered
        /\ flight' = P!RemoveAt(flight, i)
    BY <1>13, Zenon DEF P!SendSucceeds
  <2>2. flight[i].batch = TRUE => queue' = <<>> /\ draft' = draft
    BY <1>13, Zenon DEF P!SendSucceeds, P!composer
  <2>3. flight[i].batch = FALSE => draft' = None /\ queue' = queue
    BY <1>13, Zenon DEF P!SendSucceeds, P!composer
  <2>4. flight[i].batch \in BOOLEAN
    BY <1>a, OnlyOneFlies DEF P!Message
  <2>5. CASE flight[i].batch = TRUE
    <3>1. \A t \in Token : ~Waiting(t)'
      BY <2>2, <2>5 DEF Waiting
    <3>2. \A t \in Token : Says(flight[i], t) => t # draft
      BY <1>a, <2>5 DEF Flying
    <3> QED
      BY <1>2, <1>d, <2>1, <2>2, <2>5, <3>1, <3>2, Zenon
  <2>6. CASE flight[i].batch = FALSE
    BY <1>2, <1>a, <1>b, <1>d, <2>1, <2>3, <2>6
  <2> QED
    BY <2>4, <2>5, <2>6
<1>14. ASSUME NEW i \in DOMAIN flight, P!SendIsRefused(i)
       PROVE  TakenOnce' /\ TakenIsGone' /\ BatchIsGone' /\ DraftIsNew'
  <2>1. flight' = P!RemoveAt(flight, i) /\ UNCHANGED <<queue, draft, accepted, unanswered>>
    BY <1>14, Zenon DEF P!SendIsRefused, P!composer
  <2> QED
    BY <1>1, <1>b, <1>d, <2>1, Zenon
<1>15. ASSUME NEW i \in DOMAIN flight, P!SendIsUnanswered(i)
       PROVE  TakenOnce' /\ TakenIsGone' /\ BatchIsGone' /\ DraftIsNew'
  <2>1. /\ accepted' = Append(accepted, flight[i]) /\ flight' = P!RemoveAt(flight, i)
        /\ unanswered' = unanswered \cup {r.text : r \in P!ToSet(flight[i].replies)}
        /\ UNCHANGED <<queue, draft>>
    BY <1>15, Zenon DEF P!SendIsUnanswered, P!composer
  <2>2. \A t \in Token \ unanswered' : ~Says(flight[i], t)
    BY <2>1 DEF Says
  <2> QED
    BY <1>2, <1>b, <1>d, <2>1, <2>2, Zenon
<1> QED
  BY <1>4, <1>5, <1>6, <1>7, <1>8, <1>9, <1>10, <1>11, <1>12, <1>13, <1>14, <1>15 DEF P!Next

LEMMA WritingKept ==
    ASSUME P!NoneAssumption, P!BoundsAssumption, ComposerInv, P!Next
    PROVE  ComposerInv'
<1>1. P!TypeOK'
  BY ComposerTypeKept DEF ComposerInv
<1> QED
  BY <1>1, PointersKept, TakingKept, Zenon DEF ComposerInv

(* So of an answered text no two messages of a kind carry it.               *)
LEMMA ComposerIsSound ==
    ASSUME ComposerInv
    PROVE  P!OncePerDraft /\ P!PointerIsLocal
<1>1. P!PointerIsLocal
  BY Zenon DEF ComposerInv, PointersAreLocal, P!PointerIsLocal, P!ToSet
<1>2. ASSUME NEW t \in Token \ unanswered, NEW b \in BOOLEAN
      PROVE  P!Cardinality(P!Carrying(t, b)) <= 1
  <2>1. \A i, j \in P!Carrying(t, b) : i = j
    BY <1>2, Zenon DEF P!Carrying, ComposerInv, TakenOnce, Taken, Says
  <2>2. P!Carrying(t, b) = {} \/ \E i : P!Carrying(t, b) = {i}
    BY <2>1
  <2>3. Cardinality(P!Carrying(t, b)) \in {0, 1}
    BY <2>2, FS_EmptySet, FS_Singleton
  <2>4. P!Cardinality(P!Carrying(t, b)) = Cardinality(P!Carrying(t, b))
    BY DEF P!Cardinality, Cardinality
  <2> QED
    BY <2>3, <2>4
<1> QED
  BY <1>1, <1>2, Zenon DEF P!OncePerDraft
-----------------------------------------------------------------------------
(* The window.  The messages of the list are distinct, so behind a new top  *)
(* the old one is found where it is; and a window over a list that was seen *)
(* ends below its first message.                                            *)
Distinct(s) == \A i, j \in DOMAIN s : s[i] = s[j] => i = j

Listed == Distinct(items) /\ \A i \in DOMAIN items : items[i] <= born

EndsBelow ==
    /\ items # <<>> /\ seen # <<>> => end >= 1
    /\ start > 0 => end >= 1

WindowInv == W!TypeOK /\ Listed /\ EndsBelow

LEMMA LowIs ==
    ASSUME NEW a \in Nat, NEW b \in Nat
    PROVE  W!Low(a, b) \in Nat /\ W!Low(a, b) = IF a < b THEN a ELSE b
BY DEF W!Low

LEMMA Removed ==
    ASSUME NEW s \in Seq(1..MaxItem), NEW i \in DOMAIN s, Distinct(s)
    PROVE  /\ W!RemoveAt(s, i) \in Seq(1..MaxItem) /\ Distinct(W!RemoveAt(s, i))
           /\ \A j \in DOMAIN W!RemoveAt(s, i) : \E k \in DOMAIN s : W!RemoveAt(s, i)[j] = s[k]
<1>1. PICK r : r = W!RemoveAt(s, i)
  OBVIOUS
<1>2. r = P!RemoveAt(s, i)
  BY <1>1 DEF W!RemoveAt, P!RemoveAt
<1>3. /\ r \in Seq(1..MaxItem) /\ DOMAIN r = 1..(Len(s) - 1)
      /\ \A j \in 1..(Len(s) - 1) : r[j] = IF j < i THEN s[j] ELSE s[j + 1]
  BY <1>2, Removing
<1>4. /\ DOMAIN s = 1..Len(s) /\ Len(s) \in Nat /\ i \in 1..Len(s)
      /\ \A j \in 1..(Len(s) - 1) : j \in 1..Len(s) /\ j + 1 \in 1..Len(s)
  OBVIOUS
<1>5. ASSUME NEW j \in DOMAIN r
      PROVE  \E k \in DOMAIN s : r[j] = s[k]
  BY <1>3, <1>4
<1>6. ASSUME NEW j \in DOMAIN r, NEW k \in DOMAIN r, r[j] = r[k]
      PROVE  j = k
  <2> DEFINE f(l) == IF l < i THEN l ELSE l + 1
  <2>1. f(j) \in DOMAIN s /\ f(k) \in DOMAIN s /\ r[j] = s[f(j)] /\ r[k] = s[f(k)]
    BY <1>3, <1>4
  <2>2. f(j) = f(k)
    BY <1>6, <2>1, Zenon DEF Distinct
  <2> QED
    BY <1>3, <1>4, <2>2
<1> QED
  BY <1>1, <1>3, <1>5, <1>6, Zenon DEF Distinct

(* Newer messages go in front of the list.                                  *)
LEMMA Arrived ==
    ASSUME NEW s \in Seq(1..MaxItem), Distinct(s), NEW b \in Nat, NEW n \in Nat,
           MaxItem \in Nat, b + n <= MaxItem, \A i \in DOMAIN s : s[i] <= b
    PROVE  LET new == [i \in 1..n |-> b + n + 1 - i] IN
           /\ new \in Seq(1..MaxItem) /\ Distinct(new)
           /\ \A i \in DOMAIN new : new[i] <= b + n
           /\ new \o s \in Seq(1..MaxItem) /\ Distinct(new \o s)
           /\ \A i \in DOMAIN (new \o s) : (new \o s)[i] <= b + n
<1> DEFINE new == [i \in 1..n |-> b + n + 1 - i]
<1>1. /\ DOMAIN new = 1..n
      /\ \A i \in 1..n : new[i] = b + n + 1 - i /\ new[i] \in (b + 1)..(b + n)
  OBVIOUS
<1>2. new \in Seq(1..MaxItem) /\ Len(new) = n
  <2>1. new \in [1..n -> 1..MaxItem]
    OBVIOUS
  <2>2. new \in Seq(1..MaxItem)
    BY <2>1, SeqDef
  <2> QED
    BY <2>1, <2>2
<1> HIDE DEF new
<1>3. PICK c : c = new \o s
  OBVIOUS
<1>4. /\ c \in Seq(1..MaxItem) /\ Len(c) = n + Len(s) /\ Len(s) \in Nat
      /\ \A i \in 1..(n + Len(s)) : c[i] = IF i <= n THEN new[i] ELSE s[i - n]
  <2>1. /\ new \o s \in Seq(1..MaxItem) /\ Len(new \o s) = Len(new) + Len(s)
        /\ \A i \in 1..(Len(new) + Len(s)) :
               (new \o s)[i] = IF i <= Len(new) THEN new[i] ELSE s[i - Len(new)]
    BY <1>2, ConcatProperties, Zenon
  <2> QED
    BY <1>2, <1>3, <2>1
<1>5. DOMAIN c = 1..(n + Len(s)) /\ DOMAIN s = 1..Len(s)
  BY <1>4
<1>6. \A i \in 1..(n + Len(s)) : ~(i <= n) => i - n \in 1..Len(s) /\ s[i - n] \in 1..b
  <2>1. ASSUME NEW i \in 1..(n + Len(s)), ~(i <= n)
        PROVE  i - n \in 1..Len(s) /\ s[i - n] \in 1..b
    <3>1. i - n \in 1..Len(s)
      BY <1>4, <2>1
    <3>2. s[i - n] \in 1..MaxItem /\ s[i - n] <= b
      BY <1>5, <3>1
    <3> QED
      BY <3>1, <3>2
  <2> QED
    BY <2>1
<1>7. Distinct(new) /\ \A i \in DOMAIN new : new[i] <= b + n
  BY <1>1 DEF Distinct
<1>8. ASSUME NEW i \in DOMAIN c
      PROVE  c[i] <= b + n
  <2>1. CASE i <= n
    BY <1>1, <1>4, <1>5, <2>1
  <2>2. CASE ~(i <= n)
    <3>1. c[i] \in 1..b
      BY <1>4, <1>5, <1>6, <2>2
    <3> QED
      BY <3>1
  <2> QED
    BY <2>1, <2>2
<1>9. ASSUME NEW i \in DOMAIN c, NEW j \in DOMAIN c, c[i] = c[j]
      PROVE  i = j
  <2>1. /\ i \in 1..(n + Len(s)) /\ j \in 1..(n + Len(s)) /\ i \in Int /\ j \in Int
    BY <1>4, <1>5
  <2>2. CASE i <= n /\ j <= n
    BY <1>1, <1>4, <1>9, <2>1, <2>2
  <2>3. CASE ~(i <= n) /\ ~(j <= n)
    <3>1. i - n \in DOMAIN s /\ j - n \in DOMAIN s /\ s[i - n] = s[j - n]
      BY <1>4, <1>5, <1>6, <1>9, <2>1, <2>3
    <3>2. i - n = j - n
      BY <3>1 DEF Distinct
    <3> QED
      BY <2>1, <3>2
  <2>4. CASE i <= n /\ ~(j <= n)
    <3>1. c[i] \in (b + 1)..(b + n) /\ c[j] \in 1..b
      <4>0. i \in 1..n
        BY <2>1, <2>4
      <4>1. c[i] = new[i]
        BY <1>4, <2>1, <2>4
      <4>2. c[j] = s[j - n]
        BY <1>4, <2>1, <2>4
      <4>3. new[i] \in (b + 1)..(b + n)
        BY <1>1, <4>0
      <4>4. s[j - n] \in 1..b
        BY <1>6, <2>1, <2>4
      <4> QED
        BY <4>1, <4>2, <4>3, <4>4
    <3> QED
      BY <1>9, <3>1
  <2>5. CASE ~(i <= n) /\ j <= n
    <3>1. c[j] \in (b + 1)..(b + n) /\ c[i] \in 1..b
      <4>1. j \in 1..n /\ c[j] = new[j]
        BY <1>4, <2>1, <2>5
      <4>2. c[i] = s[i - n]
        BY <1>4, <2>1, <2>5
      <4> QED
        BY <1>1, <1>6, <2>1, <2>5, <4>1, <4>2
    <3> QED
      BY <1>9, <3>1
  <2> QED
    BY <2>2, <2>3, <2>4, <2>5
<1> QED
  BY <1>2, <1>3, <1>4, <1>7, <1>8, <1>9, Zenon DEF Distinct, new

(* A message among the others.                                              *)
LEMMA Inserting ==
    ASSUME NEW S, NEW s \in Seq(S), NEW k \in 2..(Len(s) + 1), NEW e \in S
    PROVE  /\ W!InsertAt(s, k, e) \in Seq(S)
           /\ DOMAIN W!InsertAt(s, k, e) = 1..(Len(s) + 1)
           /\ \A j \in 1..(Len(s) + 1) :
                  W!InsertAt(s, k, e)[j] =
                      IF j < k THEN s[j] ELSE IF j = k THEN e ELSE s[j - 1]
<1> DEFINE l == SubSeq(s, 1, k - 1)
           h == SubSeq(s, k, Len(s))
<1>0. ASSUME NEW m \in Int, NEW n \in Int, \A i \in m..n : s[i] \in S
      PROVE  /\ SubSeq(s, m, n) \in Seq(S)
             /\ Len(SubSeq(s, m, n)) = IF m <= n THEN n - m + 1 ELSE 0
             /\ \A j \in 1..(n - m + 1) : SubSeq(s, m, n)[j] = s[m + j - 1]
  BY <1>0, SubSeqProperties
<1>1. Len(s) \in Nat /\ k \in 2..(Len(s) + 1) /\ DOMAIN s = 1..Len(s)
  OBVIOUS
<1>2. l \in Seq(S) /\ Len(l) = k - 1 /\ \A j \in 1..(k - 1) : l[j] = s[j]
  <2>1. 1 \in Int /\ k - 1 \in Int /\ \A i \in 1..(k - 1) : s[i] \in S
    BY <1>1
  <2>2. /\ l \in Seq(S)
        /\ Len(l) = IF 1 <= k - 1 THEN (k - 1) - 1 + 1 ELSE 0
        /\ \A j \in 1..((k - 1) - 1 + 1) : l[j] = s[1 + j - 1]
    BY <1>0, <2>1
  <2>3. (k - 1) - 1 + 1 = k - 1 /\ 1 <= k - 1 /\ \A j \in 1..(k - 1) : 1 + j - 1 = j
    BY <1>1
  <2> HIDE DEF l
  <2> QED
    BY <2>2, <2>3
<1>3. /\ h \in Seq(S) /\ Len(h) = Len(s) + 1 - k
      /\ \A j \in 1..(Len(s) + 1 - k) : h[j] = s[k + j - 1]
  <2>1. k \in Int /\ Len(s) \in Int /\ \A i \in k..Len(s) : s[i] \in S
    BY <1>1
  <2>2. /\ h \in Seq(S)
        /\ Len(h) = IF k <= Len(s) THEN Len(s) - k + 1 ELSE 0
        /\ \A j \in 1..(Len(s) - k + 1) : h[j] = s[k + j - 1]
    BY <1>0, <2>1
  <2>3. /\ Len(s) - k + 1 = Len(s) + 1 - k
        /\ k <= Len(s) \/ Len(s) + 1 - k = 0
    BY <1>1
  <2> HIDE DEF h
  <2> QED
    BY <2>2, <2>3
<1>4. W!InsertAt(s, k, e) = (l \o <<e>>) \o h
  BY DEF W!InsertAt
<1> HIDE DEF l, h
<1>6. PICK p : p = l \o <<e>>
  OBVIOUS
<1>7. /\ p \in Seq(S) /\ Len(p) = k
      /\ \A j \in 1..k : p[j] = IF j < k THEN s[j] ELSE e
  <2>1. <<e>> \in Seq(S) /\ Len(<<e>>) = 1 /\ <<e>>[1] = e
    OBVIOUS
  <2>2. /\ l \o <<e>> \in Seq(S) /\ Len(l \o <<e>>) = Len(l) + Len(<<e>>)
        /\ \A j \in 1..(Len(l) + Len(<<e>>)) :
               (l \o <<e>>)[j] = IF j <= Len(l) THEN l[j] ELSE <<e>>[j - Len(l)]
    BY <1>2, <2>1, ConcatProperties, Zenon
  <2>3. /\ k - 1 + 1 = k
        /\ \A j \in 1..k : IF j < k THEN j <= k - 1 /\ j \in 1..(k - 1)
                           ELSE ~(j <= k - 1) /\ j - (k - 1) = 1
    BY <1>1
  <2> QED
    BY <1>2, <1>6, <2>1, <2>2, <2>3
<1>8. PICK c : c = p \o h
  OBVIOUS
<1>9. /\ c \in Seq(S) /\ DOMAIN c = 1..(Len(s) + 1)
      /\ \A j \in 1..(Len(s) + 1) :
             c[j] = IF j < k THEN s[j] ELSE IF j = k THEN e ELSE s[j - 1]
  <2>1. /\ p \o h \in Seq(S) /\ Len(p \o h) = Len(p) + Len(h)
        /\ \A j \in 1..(Len(p) + Len(h)) :
               (p \o h)[j] = IF j <= Len(p) THEN p[j] ELSE h[j - Len(p)]
    BY <1>3, <1>7, ConcatProperties, Zenon
  <2>2. Len(p) = k /\ Len(p) + Len(h) = Len(s) + 1
    BY <1>1, <1>3, <1>7
  <2>3. c \in Seq(S) /\ Len(c) = Len(s) + 1
    BY <1>8, <2>1, <2>2
  <2>4. \A j \in 1..(Len(s) + 1) : c[j] = IF j <= k THEN p[j] ELSE h[j - k]
    BY <1>8, <2>1, <2>2
  <2>5. DOMAIN c = 1..(Len(s) + 1)
    BY <1>1, <2>3
  <2>6. ASSUME NEW j \in 1..(Len(s) + 1)
        PROVE  c[j] = IF j < k THEN s[j] ELSE IF j = k THEN e ELSE s[j - 1]
    <3>1. CASE j <= k
      <4>1. c[j] = p[j] /\ j \in 1..k
        BY <1>1, <2>4, <3>1
      <4> QED
        BY <1>1, <1>7, <4>1
    <3>2. CASE ~(j <= k)
      <4>1. c[j] = h[j - k] /\ j - k \in 1..(Len(s) + 1 - k) /\ k + (j - k) - 1 = j - 1
        <5>1. j - k \in 1..(Len(s) + 1 - k) /\ k + (j - k) - 1 = j - 1
          BY <1>1, <3>2
        <5> QED
          BY <2>4, <3>2, <5>1
      <4>2. h[j - k] = s[k + (j - k) - 1]
        BY <1>3, <4>1
      <4>3. ~(j < k) /\ j # k
        BY <1>1, <3>2
      <4> QED
        BY <4>1, <4>2, <4>3
    <3> QED
      BY <3>1, <3>2
  <2> QED
    BY <2>3, <2>5, <2>6
<1> QED
  BY <1>4, <1>6, <1>8, <1>9

LEMMA Inserted ==
    ASSUME NEW s \in Seq(1..MaxItem), Distinct(s), NEW k \in 2..(Len(s) + 1), NEW b \in Nat,
           b + 1 \in 1..MaxItem, \A i \in DOMAIN s : s[i] <= b
    PROVE  /\ W!InsertAt(s, k, b + 1) \in Seq(1..MaxItem)
           /\ Distinct(W!InsertAt(s, k, b + 1))
           /\ \A i \in DOMAIN W!InsertAt(s, k, b + 1) : W!InsertAt(s, k, b + 1)[i] <= b + 1
<1> DEFINE e == b + 1
           S == 1..MaxItem
<1>1. Len(s) \in Nat /\ k \in 2..(Len(s) + 1) /\ DOMAIN s = 1..Len(s)
  OBVIOUS
<1>2. \A i \in 1..Len(s) : s[i] \in S /\ s[i] \in Nat /\ s[i] <= b
  <2>1. \A i \in 1..Len(s) : s[i] \in S
    BY ElementOfSeq
  <2> QED
    BY <1>1, <2>1
<1>3. e \in S /\ e \in Nat /\ s \in Seq(S)
  OBVIOUS
<1> HIDE DEF S
<1>4. PICK c : c = W!InsertAt(s, k, e)
  OBVIOUS
<1>5. /\ c \in Seq(S) /\ DOMAIN c = 1..(Len(s) + 1)
      /\ \A j \in 1..(Len(s) + 1) :
             c[j] = IF j < k THEN s[j] ELSE IF j = k THEN e ELSE s[j - 1]
  <2> HIDE DEF e
  <2>1. W!InsertAt(s, k, e) \in Seq(S)
    BY <1>1, <1>3, Inserting
  <2>2. DOMAIN W!InsertAt(s, k, e) = 1..(Len(s) + 1)
    BY <1>1, <1>3, Inserting
  <2>3. \A j \in 1..(Len(s) + 1) :
          W!InsertAt(s, k, e)[j] = IF j < k THEN s[j] ELSE IF j = k THEN e ELSE s[j - 1]
    BY ONLY <1>1, <1>3, Inserting
  <2> QED
    BY <1>4, <2>1, <2>2, <2>3
<1>6. \A j \in 1..(Len(s) + 1) :
          /\ j < k => j \in 1..Len(s)
          /\ ~(j < k) /\ j # k => j - 1 \in 1..Len(s)
  BY <1>1
<1>7. ASSUME NEW j \in DOMAIN c
      PROVE  c[j] <= e /\ (c[j] = e <=> j = k)
  <2>1. j \in 1..(Len(s) + 1)
    BY <1>5
  <2>2. CASE j < k
    <3>1. c[j] \in Nat /\ c[j] <= b
      BY <1>2, <1>5, <1>6, <2>1, <2>2
    <3> QED
      BY <1>1, <2>2, <3>1
  <2>3. CASE j = k
    BY <1>1, <1>5, <2>1, <2>3
  <2>4. CASE ~(j < k) /\ j # k
    <3>1. c[j] = s[j - 1] /\ j - 1 \in 1..Len(s)
      BY <1>5, <1>6, <2>1, <2>4
    <3>2. c[j] \in Nat /\ c[j] <= b
      BY <1>2, <3>1
    <3> QED
      BY <2>4, <3>2
  <2> QED
    BY <2>2, <2>3, <2>4
<1>8. ASSUME NEW j \in DOMAIN c, NEW i \in DOMAIN c, c[j] = c[i]
      PROVE  j = i
  <2> DEFINE f(x) == IF x < k THEN x ELSE x - 1
  <2>1. CASE c[j] = e
    BY <1>7, <1>8, <2>1
  <2>2. CASE c[j] # e
    <3>1. j # k /\ i # k
      BY <1>7, <1>8, <2>2
    <3>2. f(j) \in DOMAIN s /\ f(i) \in DOMAIN s /\ c[j] = s[f(j)] /\ c[i] = s[f(i)]
      BY <1>1, <1>5, <1>6, <3>1
    <3>3. f(j) = f(i)
      BY <1>8, <3>2, Zenon DEF Distinct
    <3> QED
      BY <1>1, <1>5, <3>1, <3>3
  <2> QED
    BY <2>1, <2>2
<1> QED
  BY <1>4, <1>5, <1>7, <1>8, Zenon DEF Distinct, S, e

LEMMA WindowsBegin ==
    ASSUME W!SizeAssumption, W!Init
    PROVE  WindowInv
<1> USE DEF W!Init
<1>1. W!TypeOK
  <2>1. items \in Seq(1..MaxItem) /\ seen \in Seq(1..MaxItem)
    BY EmptySeq
  <2>2. /\ start \in Nat /\ end \in Nat /\ born \in 0..MaxItem
        /\ held \in [start : Nat, end : Nat, len : Nat] /\ fired \subseteq {"older", "newer"}
    BY DEF W!SizeAssumption
  <2> QED
    BY <2>1, <2>2, Zenon DEF W!TypeOK
<1>2. Listed /\ EndsBelow
  BY DEF Listed, EndsBelow, Distinct
<1> QED
  BY <1>1, <1>2 DEF WindowInv

(* The bounds after the list was seen.                                      *)
LEMMA SeenAnew ==
    ASSUME W!SizeAssumption, WindowInv, W!Window
    PROVE  /\ start' \in Nat /\ end' \in Nat
           /\ items # <<>> => end' >= 1
           /\ start' > 0 => end' >= 1
           /\ start = 0 => start' = 0
<1>a. /\ start \in Nat /\ end \in Nat /\ items \in Seq(1..MaxItem) /\ seen \in Seq(1..MaxItem)
      /\ InitialTail \in Nat \ {0} /\ EndsBelow
  BY DEF WindowInv, W!TypeOK, W!SizeAssumption
<1>b. Len(items) \in Nat /\ (items # <<>> => Len(items) >= 1)
  BY <1>a
<1>1. ASSUME W!Pinned
      PROVE  /\ start' = 0 /\ end' \in Nat /\ (items # <<>> => end' >= 1)
  <2>1. W!Low(InitialTail, Len(items)) =
            IF InitialTail < Len(items) THEN InitialTail ELSE Len(items)
    BY DEF W!Low
  <2> QED
    BY <1>a, <1>b, <1>1, <2>1 DEF W!Pinned
<1>2. CASE items = seen
  BY <1>a, <1>2 DEF W!Window, EndsBelow
<1>3. CASE items # seen /\ W!PrevTop = 0
  <2>1. W!Pinned
    BY <1>3 DEF W!Window
  <2> QED
    BY <1>1, <2>1
<1>4. CASE items # seen /\ W!PrevTop # 0 /\ items # <<>> /\ Head(items) = W!PrevTop
  <2>1. end' = W!Low(end, Len(items)) /\ start' = start
    BY <1>4 DEF W!Window
  <2>2. seen # <<>>
    BY <1>4 DEF W!PrevTop
  <2>3. end >= 1
    BY <1>a, <1>4, <2>2 DEF EndsBelow
  <2> QED
    BY <1>a, <1>b, <1>4, <2>1, <2>3, LowIs
<1>5. CASE /\ items # seen /\ W!PrevTop # 0 /\ ~(items # <<>> /\ Head(items) = W!PrevTop)
           /\ W!Above > 0
  <2>1. W!Shifts(W!Above)
    BY <1>5 DEF W!Window
  <2>2. W!Above \in Nat /\ W!Above >= 1 /\ items # <<>>
    <3>1. CASE \E i \in DOMAIN items : items[i] = W!PrevTop
      <4>1. (CHOOSE i \in DOMAIN items : items[i] = W!PrevTop) \in DOMAIN items
        BY <3>1
      <4> QED
        BY <1>a, <1>5, <3>1, <4>1 DEF W!Above
    <3>2. CASE ~\E i \in DOMAIN items : items[i] = W!PrevTop
      BY <1>5, <3>2 DEF W!Above
    <3> QED
      BY <3>1, <3>2
  <2>3. end' = W!Low(end + W!Above, Len(items))
        /\ start' = IF start > 0 THEN start + W!Above ELSE 0
    BY <2>1 DEF W!Shifts
  <2>4. W!Low(end + W!Above, Len(items)) =
            IF end + W!Above < Len(items) THEN end + W!Above ELSE Len(items)
    BY DEF W!Low
  <2>5. Len(items) >= 1
    BY <1>b, <2>2
  <2>6. end' \in Nat /\ end' >= 1
    BY ONLY <1>a, <1>b, <2>2, <2>3, <2>4, <2>5
  <2> QED
    BY <1>a, <2>2, <2>3, <2>6
<1>6. CASE /\ items # seen /\ W!PrevTop # 0 /\ ~(items # <<>> /\ Head(items) = W!PrevTop)
           /\ ~(W!Above > 0)
  <2>1. W!Pinned
    BY <1>6 DEF W!Window
  <2> QED
    BY <1>1, <2>1
<1> QED
  BY <1>2, <1>3, <1>4, <1>5, <1>6

LEMMA WindowsKept ==
    ASSUME W!SizeAssumption, WindowInv, W!Next
    PROVE  WindowInv'
<1>a. /\ items \in Seq(1..MaxItem) /\ seen \in Seq(1..MaxItem)
      /\ start \in Nat /\ end \in Nat /\ born \in 0..MaxItem
      /\ held \in [start : Nat, end : Nat, len : Nat] /\ fired \subseteq {"older", "newer"}
      /\ Distinct(items) /\ (\A i \in DOMAIN items : items[i] <= born) /\ EndsBelow
  BY DEF WindowInv, W!TypeOK, Listed
<1>b. /\ PageSize \in Nat \ {0} /\ Cap \in Nat \ {0} /\ InitialTail \in Nat \ {0}
      /\ MaxItem \in Nat \ {0} /\ PageSize <= Cap
  BY DEF W!SizeAssumption
<1>c. ASSUME items = seen, UNCHANGED <<start, end, seen, held, fired>>,
             items' \in Seq(1..MaxItem), Distinct(items'), born' \in 0..MaxItem,
             \A i \in DOMAIN items' : items'[i] <= born'
      PROVE  WindowInv'
  <2>1. W!TypeOK'
    BY <1>a, <1>c DEF W!TypeOK
  <2>2. EndsBelow'
    BY <1>a, <1>c DEF EndsBelow
  <2>3. Listed'
    BY <1>c, Zenon DEF Listed, Distinct
  <2> QED
    BY <2>1, <2>2, <2>3 DEF WindowInv
<1>d. ASSUME UNCHANGED <<items, born>>, start' \in Nat, end' \in Nat,
             seen' = seen \/ seen' = items,
             held' \in [start : Nat, end : Nat, len : Nat], fired' \subseteq {"older", "newer"},
             items # <<>> /\ seen' # <<>> => end' >= 1, start' > 0 => end' >= 1
      PROVE  WindowInv'
  <2>1. W!TypeOK'
    BY <1>a, <1>d DEF W!TypeOK
  <2>2. EndsBelow'
    BY <1>d DEF EndsBelow
  <2>3. Listed'
    BY <1>a, <1>d, Zenon DEF Listed, Distinct
  <2> QED
    BY <2>1, <2>2, <2>3 DEF WindowInv
<1>e. ASSUME NEW n \in 1..2, born + n <= MaxItem
      PROVE  LET new == [i \in 1..n |-> born + n + 1 - i] IN
             /\ new \in Seq(1..MaxItem) /\ Distinct(new)
             /\ \A i \in DOMAIN new : new[i] <= born + n
             /\ new \o items \in Seq(1..MaxItem) /\ Distinct(new \o items)
             /\ \A i \in DOMAIN (new \o items) : (new \o items)[i] <= born + n
  <2>1. n \in Nat /\ born \in Nat /\ MaxItem \in Nat
    BY <1>a, <1>b
  <2> QED
    BY <1>a, <1>e, <2>1, Arrived, Zenon
<1>1. ASSUME NEW n \in 1..2, W!Arrive(n)
      PROVE  WindowInv'
  <2> DEFINE new == [i \in 1..n |-> born + n + 1 - i]
  <2>1. /\ born + n <= MaxItem /\ born' = born + n /\ items = seen /\ items' = new \o items
        /\ UNCHANGED <<start, end, seen, held, fired>>
    BY <1>1 DEF W!Arrive, W!Change
  <2>2. /\ new \o items \in Seq(1..MaxItem) /\ Distinct(new \o items)
        /\ \A i \in DOMAIN (new \o items) : (new \o items)[i] <= born + n
    BY <1>e, <2>1, Zenon
  <2>3. born' \in 0..MaxItem
    BY <1>a, <1>b, <2>1
  <2> HIDE DEF new
  <2>4. Distinct(items') /\ items' \in Seq(1..MaxItem)
        /\ \A i \in DOMAIN items' : items'[i] <= born'
    BY <2>1, <2>2 DEF Distinct
  <2> QED
    BY <1>c, <2>1, <2>3, <2>4
<1>2. ASSUME NEW n \in 1..2, W!OpenRoom(n)
      PROVE  WindowInv'
  <2> DEFINE new == [i \in 1..n |-> born + n + 1 - i]
  <2>1. /\ born + n <= MaxItem /\ born' = born + n /\ items = seen /\ items' = new
        /\ UNCHANGED <<start, end, seen, held, fired>>
    BY <1>2 DEF W!OpenRoom, W!Change
  <2>2. /\ new \in Seq(1..MaxItem) /\ Distinct(new)
        /\ \A i \in DOMAIN new : new[i] <= born + n
    BY <1>e, <2>1, Zenon
  <2>3. born' \in 0..MaxItem
    BY <1>a, <1>b, <2>1
  <2> HIDE DEF new
  <2>4. Distinct(items') /\ items' \in Seq(1..MaxItem)
        /\ \A i \in DOMAIN items' : items'[i] <= born'
    BY <2>1, <2>2 DEF Distinct
  <2> QED
    BY <1>c, <2>1, <2>3, <2>4
<1>3. ASSUME NEW i, W!Backfill(i)
      PROVE  WindowInv'
  <2>1. /\ i \in 1..Len(items) /\ born < MaxItem /\ born' = born + 1 /\ items = seen
        /\ items' = W!InsertAt(items, i + 1, born + 1)
        /\ UNCHANGED <<start, end, seen, held, fired>>
    BY <1>3 DEF W!Backfill, W!Change
  <2>2. i + 1 \in 2..(Len(items) + 1) /\ born \in Nat /\ born + 1 \in 1..MaxItem
    BY <1>a, <1>b, <2>1
  <2>3. PICK k : k = i + 1
    OBVIOUS
  <2>4. /\ W!InsertAt(items, k, born + 1) \in Seq(1..MaxItem)
        /\ Distinct(W!InsertAt(items, k, born + 1))
        /\ \A j \in DOMAIN W!InsertAt(items, k, born + 1) :
               W!InsertAt(items, k, born + 1)[j] <= born + 1
    <3>1. k \in 2..(Len(items) + 1)
      BY <2>2, <2>3
    <3> QED
      BY <1>a, <2>2, <3>1, Inserted, Zenon
  <2>5. /\ items' \in Seq(1..MaxItem) /\ Distinct(items')
        /\ \A j \in DOMAIN items' : items'[j] <= born'
    BY <2>1, <2>3, <2>4 DEF Distinct
  <2>6. born' \in 0..MaxItem
    BY <1>a, <1>b, <2>1
  <2> QED
    BY <1>c, <2>1, <2>5, <2>6
<1>4. ASSUME NEW i, W!Delete(i)
      PROVE  WindowInv'
  <2>1. /\ i \in DOMAIN items /\ born' = born /\ items = seen
        /\ items' = W!RemoveAt(items, i)
        /\ UNCHANGED <<start, end, seen, held, fired>>
    BY <1>4 DEF W!Delete, W!Change
  <2>2. /\ W!RemoveAt(items, i) \in Seq(1..MaxItem) /\ Distinct(W!RemoveAt(items, i))
        /\ \A j \in DOMAIN W!RemoveAt(items, i) :
               \E k \in DOMAIN items : W!RemoveAt(items, i)[j] = items[k]
    BY <1>a, <2>1, Removed, Zenon
  <2>3. /\ items' \in Seq(1..MaxItem) /\ Distinct(items')
        /\ \A j \in DOMAIN items' : \E k \in DOMAIN items : items'[j] = items[k]
    BY <2>1, <2>2 DEF Distinct
  <2>4. \A j \in DOMAIN items' : items'[j] <= born'
    BY <1>a, <2>1, <2>3
  <2> QED
    BY <1>a, <1>c, <2>1, <2>3, <2>4
<1>5. CASE W!Effects
  <2>1. /\ W!Window /\ seen' = items /\ fired' = {} /\ UNCHANGED <<items, born>>
        /\ held' = [start |-> start, end |-> end, len |-> Len(items)]
    BY <1>5 DEF W!Effects
  <2>2. /\ start' \in Nat /\ end' \in Nat /\ (items # <<>> => end' >= 1)
        /\ start' > 0 => end' >= 1
    BY <2>1, SeenAnew
  <2>3. held' \in [start : Nat, end : Nat, len : Nat]
    BY <1>a, <2>1
  <2> QED
    BY <1>d, <2>1, <2>2, <2>3
<1>6. CASE W!ExpandToOlder
  <2>1. /\ held.end < held.len /\ UNCHANGED <<items, seen, held, born>>
        /\ fired' = fired \cup {"older"}
        /\ end' = W!Low(held.len, held.end + PageSize)
        /\ start' = held.start + PageSize \/ start' = start
    BY <1>6 DEF W!ExpandToOlder
  <2>2. W!Low(held.len, held.end + PageSize) =
            IF held.len < held.end + PageSize THEN held.len ELSE held.end + PageSize
    BY DEF W!Low
  <2>3. held.start \in Nat /\ held.end \in Nat /\ held.len \in Nat
    BY <1>a
  <2>4. start' \in Nat /\ end' \in Nat /\ end' >= 1
    BY <1>a, <1>b, <2>1, <2>2, <2>3
  <2> QED
    BY <1>a, <1>d, <2>1, <2>4
<1>7. CASE W!ExpandToNewer
  <2> DEFINE s == IF held.start > PageSize THEN held.start - PageSize ELSE 0
  <2>1. /\ start > 0 /\ UNCHANGED <<items, seen, held, born>>
        /\ fired' = fired \cup {"newer"}
        /\ start' = s
        /\ \/ held.end > s /\ held.end - s > Cap /\ end' = held.end - PageSize
           \/ end' = end
    BY <1>7 DEF W!ExpandToNewer
  <2>2. held.start \in Nat /\ held.end \in Nat /\ held.len \in Nat
    BY <1>a
  <2>3. s \in Nat
    BY <1>b, <2>2
  <2>4. end >= 1
    BY <1>a, <2>1 DEF EndsBelow
  <2> HIDE DEF s
  <2>5. end' \in Nat /\ end' >= 1
    BY <1>a, <1>b, <2>1, <2>2, <2>3, <2>4
  <2> QED
    BY <1>a, <1>d, <2>1, <2>3, <2>5
<1>8. CASE W!JumpToLatest
  <2>1. /\ start' = 0 /\ end' = W!Low(InitialTail, Len(items))
        /\ UNCHANGED <<items, seen, held, fired, born>>
    BY <1>8 DEF W!JumpToLatest, W!Pinned
  <2>2. W!Low(InitialTail, Len(items)) =
            IF InitialTail < Len(items) THEN InitialTail ELSE Len(items)
    BY DEF W!Low
  <2>3. Len(items) \in Nat /\ (items # <<>> => Len(items) >= 1)
    BY <1>a
  <2>4. end' \in Nat /\ (items # <<>> => end' >= 1)
    BY <1>b, <2>1, <2>2, <2>3
  <2> QED
    BY <1>a, <1>d, <2>1, <2>4
<1> QED
  BY <1>1, <1>2, <1>3, <1>4, <1>5, <1>6, <1>7, <1>8 DEF W!Next

(* What is rendered of a list and of its suffix, when the bounds differ by  *)
(* what the suffix lacks.                                                   *)
LEMMA SlicesAgree ==
    ASSUME NEW S, NEW s \in Seq(S), NEW t \in Seq(S), Len(s) <= Len(t),
           \A k \in 1..Len(s) : t[(Len(t) - Len(s)) + k] = s[k],
           NEW a \in Nat, NEW b \in Nat, NEW c, NEW d,
           c = a + (Len(t) - Len(s)), d = W!Low(b + (Len(t) - Len(s)), Len(t))
    PROVE  W!Slice(t, c, d) = W!Slice(s, a, b)
<1>1. Len(s) \in Nat /\ Len(t) \in Nat /\ DOMAIN s = 1..Len(s) /\ DOMAIN t = 1..Len(t)
  OBVIOUS
<1>k. Len(t) - Len(s) \in Nat
  BY <1>1
<1>n. PICK n \in Nat : n = Len(t) - Len(s)
  BY <1>k
<1>m. /\ Len(t) = Len(s) + n /\ \A k \in 1..Len(s) : t[n + k] = s[k]
      /\ c = a + n /\ d = W!Low(b + n, Len(t))
  BY <1>1, <1>n
<1> DEFINE y == IF b < Len(s) THEN b ELSE Len(s)
           z == y + n
           u == SubSeq(s, a + 1, y)
           v == SubSeq(t, a + n + 1, z)
<1>2. W!Slice(s, a, b) = u
  BY DEF W!Slice, W!Low
<1>3. W!Low(b + n, Len(t)) = z /\ W!Low(z, Len(t)) = z
  BY <1>1, <1>m DEF W!Low
<1>4. y \in Nat /\ z \in Nat /\ y <= Len(s) /\ z <= Len(t) /\ z = y + n
  BY <1>1, <1>m
<1> HIDE DEF y, z
<1>5. W!Slice(t, c, d) = v
  BY <1>3, <1>m DEF W!Slice
<1>0. ASSUME NEW q \in Seq(S), NEW i \in Int, NEW j \in Int, \A k \in i..j : q[k] \in S
      PROVE  /\ SubSeq(q, i, j) \in Seq(S)
             /\ Len(SubSeq(q, i, j)) = IF i <= j THEN j - i + 1 ELSE 0
             /\ \A k \in 1..(j - i + 1) : SubSeq(q, i, j)[k] = q[i + k - 1]
  BY <1>0, SubSeqProperties
<1>6. /\ u \in Seq(S) /\ Len(u) = IF a + 1 <= y THEN y - (a + 1) + 1 ELSE 0
      /\ \A k \in 1..(y - (a + 1) + 1) : u[k] = s[(a + 1) + k - 1]
  <2>1. a + 1 \in Int /\ y \in Int /\ \A k \in (a + 1)..y : s[k] \in S
    BY <1>1, <1>4
  <2> QED
    BY <1>0, <2>1
<1>7. /\ v \in Seq(S) /\ Len(v) = IF a + n + 1 <= z THEN z - (a + n + 1) + 1 ELSE 0
      /\ \A k \in 1..(z - (a + n + 1) + 1) : v[k] = t[(a + n + 1) + k - 1]
  <2>1. a + n + 1 \in Int /\ z \in Int /\ \A k \in (a + n + 1)..z : t[k] \in S
    BY <1>1, <1>4
  <2> QED
    BY <1>0, <2>1
<1> HIDE DEF u, v
<1>8. Len(u) = Len(v)
  <2>1. /\ a + n + 1 <= z <=> a + 1 <= y
        /\ z - (a + n + 1) + 1 = y - (a + 1) + 1
    BY <1>4
  <2> QED
    BY <1>6, <1>7, <2>1
<1>9. ASSUME NEW k \in 1..Len(u)
      PROVE  u[k] = v[k]
  <2>1. a + 1 <= y /\ k \in 1..(y - (a + 1) + 1)
    BY <1>4, <1>6
  <2>2. k \in 1..(z - (a + n + 1) + 1)
    BY <1>4, <2>1
  <2>3. (a + n + 1) + k - 1 = n + ((a + 1) + k - 1) /\ (a + 1) + k - 1 \in 1..Len(s)
    BY <1>1, <1>4, <2>1
  <2> QED
    BY <1>6, <1>7, <1>m, <2>1, <2>2, <2>3
<1>10. u = v
  BY <1>6, <1>7, <1>8, <1>9, SeqEqual
<1> QED
  BY <1>2, <1>5, <1>10

(* The list that was seen ends the list that is: it lies n further down.    *)
LEMMA SuffixIs ==
    ASSUME NEW S, NEW s \in Seq(S), NEW t \in Seq(S), W!IsSuffix(s, t)
    PROVE  /\ Len(s) <= Len(t) /\ Len(s) \in Nat /\ Len(t) \in Nat
           /\ \A k \in 1..Len(s) : t[(Len(t) - Len(s)) + k] = s[k]
<1> DEFINE rs == [i \in 1..Len(s) |-> s[(Len(s) - i) + 1]]
           rt == [i \in 1..Len(t) |-> t[(Len(t) - i) + 1]]
<1>1. Len(s) \in Nat /\ Len(t) \in Nat /\ DOMAIN s = 1..Len(s) /\ DOMAIN t = 1..Len(t)
  OBVIOUS
<1>2. rs \in Seq(S) /\ Len(rs) = Len(s) /\ \A i \in 1..Len(s) : rs[i] = s[(Len(s) - i) + 1]
  <2>1. \A i \in 1..Len(s) : (Len(s) - i) + 1 \in 1..Len(s)
    BY <1>1
  <2>2. rs \in [1..Len(s) -> S]
    BY <1>1, <2>1
  <2>3. rs \in Seq(S)
    BY <1>1, <2>2, SeqDef
  <2> QED
    BY <1>1, <2>2, <2>3
<1>3. rt \in Seq(S) /\ Len(rt) = Len(t) /\ \A i \in 1..Len(t) : rt[i] = t[(Len(t) - i) + 1]
  <2>1. \A i \in 1..Len(t) : (Len(t) - i) + 1 \in 1..Len(t)
    BY <1>1
  <2>2. rt \in [1..Len(t) -> S]
    BY <1>1, <2>1
  <2>3. rt \in Seq(S)
    BY <1>1, <2>2, SeqDef
  <2> QED
    BY <1>1, <2>2, <2>3
<1>4. W!Reverse(s) = rs /\ W!Reverse(t) = rt
  BY DEF W!Reverse
<1> HIDE DEF rs, rt
<1>5. Len(rs) <= Len(rt) /\ SubSeq(rs, 1, Len(rs)) = SubSeq(rt, 1, Len(rs))
  BY <1>4 DEF W!IsSuffix, W!IsPrefix
<1>6. \A i \in 1..Len(s) : rs[i] = rt[i]
  <2>1. ASSUME NEW q \in Seq(S), NEW n \in 0..Len(q), NEW i \in 1..n
        PROVE  SubSeq(q, 1, n)[i] = q[i]
    <3>1. 1 \in Int /\ n \in Int /\ \A k \in 1..n : q[k] \in S
      BY <2>1
    <3>2. \A k \in 1..(n - 1 + 1) : SubSeq(q, 1, n)[k] = q[1 + k - 1]
      BY ONLY <3>1, SubSeqProperties
    <3>3. i \in 1..(n - 1 + 1) /\ 1 + i - 1 = i
      BY <2>1
    <3> QED
      BY <3>2, <3>3
  <2>2. Len(s) \in 0..Len(rs) /\ Len(s) \in 0..Len(rt) /\ Len(rs) = Len(s)
    BY <1>1, <1>2, <1>3, <1>5
  <2> QED
    BY <1>2, <1>3, <1>5, <2>1, <2>2
<1>7. Len(s) <= Len(t)
  BY <1>2, <1>3, <1>5
<1>8. ASSUME NEW k \in 1..Len(s)
      PROVE  t[(Len(t) - Len(s)) + k] = s[k]
  <2> DEFINE i == (Len(s) - k) + 1
  <2>1. /\ i \in 1..Len(s) /\ i \in 1..Len(t) /\ (Len(s) - i) + 1 = k
        /\ (Len(t) - i) + 1 = (Len(t) - Len(s)) + k
    BY <1>1, <1>7
  <2> HIDE DEF i
  <2> QED
    BY <1>2, <1>3, <1>6, <2>1
<1> QED
  BY <1>1, <1>7, <1>8

LEMMA ReaderStays ==
    ASSUME W!SizeAssumption, WindowInv, W!Effects, start > 0, seen # <<>>,
           W!IsSuffix(seen, items)
    PROVE  W!Slice(items, start', end') = W!Slice(seen, start, end)
<1>0. PICK S : S = 1..MaxItem
  OBVIOUS
<1>a. /\ items \in Seq(S) /\ seen \in Seq(S) /\ \A x \in S : x \in Int /\ x >= 1
      /\ start \in Nat /\ end \in Nat /\ Distinct(items) /\ W!Window
  BY <1>0 DEF WindowInv, W!TypeOK, Listed, W!Effects, W!SizeAssumption
<1> DEFINE n == Len(items) - Len(seen)
<1>1. /\ Len(seen) <= Len(items) /\ Len(seen) \in Nat /\ Len(items) \in Nat
      /\ \A k \in 1..Len(seen) : items[n + k] = seen[k]
  BY <1>a, SuffixIs, Zenon
<1>2. n \in Nat /\ Len(items) = Len(seen) + n /\ Len(seen) >= 1
  BY <1>a, <1>1
<1>3. CASE items = seen
  BY <1>3, <1>a DEF W!Window
<1>4. CASE items # seen
  <2>1. n > 0
    <3>1. CASE n = 0
      <4>1. \A k \in 1..Len(seen) : n + k = k
        BY <3>1
      <4>2. Len(items) = Len(seen) /\ \A k \in 1..Len(seen) : items[k] = seen[k]
        BY <1>1, <1>2, <3>1, <4>1
      <4>3. items = seen
        <5> HIDE DEF n
        <5> QED
          BY <1>a, <4>2, SeqEqual
      <4> QED
        BY <1>4, <4>3
    <3> QED
      BY <1>2, <3>1
  <2> HIDE DEF n
  <2>2. /\ Head(seen) = seen[1] /\ seen[1] = items[n + 1] /\ n + 1 \in DOMAIN items
        /\ Head(items) = items[1] /\ 1 \in DOMAIN items /\ items # <<>>
        /\ seen[1] \in S
    <3>1. n + 1 \in 1..Len(items) /\ 1 \in 1..Len(seen) /\ 1 \in 1..Len(items)
      BY <1>1, <1>2, <2>1
    <3>2. DOMAIN items = 1..Len(items) /\ DOMAIN seen = 1..Len(seen)
      BY <1>a
    <3>3. Head(seen) = seen[1] /\ seen[1] \in S
      BY <1>a, <3>1, <3>2
    <3>4. Head(items) = items[1] /\ items # <<>>
      BY <1>a, <3>1, <3>2
    <3>5. seen[1] = items[n + 1]
      BY <1>1, <3>1
    <3> QED
      BY <3>1, <3>2, <3>3, <3>4, <3>5
  <2>3. W!PrevTop = items[n + 1] /\ W!PrevTop # 0 /\ Head(items) # W!PrevTop
    <3>1. W!PrevTop = seen[1]
      BY <2>2 DEF W!PrevTop
    <3>2. seen[1] # 0
      BY <1>a, <2>2
    <3>3. items[1] # items[n + 1]
      <4>1. n + 1 # 1
        BY <1>2, <2>1
      <4> QED
        BY <1>a, <2>2, <4>1, Zenon DEF Distinct
    <3> QED
      BY <2>2, <3>1, <3>2, <3>3
  <2>4. W!Above = n
    <3>1. \A i \in DOMAIN items : items[i] = W!PrevTop <=> i = n + 1
      BY <1>a, <2>2, <2>3 DEF Distinct
    <3>2. (CHOOSE i \in DOMAIN items : items[i] = W!PrevTop) = n + 1
      BY <2>2, <3>1
    <3> QED
      BY <1>2, <2>2, <3>1, <3>2 DEF W!Above
  <2>5. W!Shifts(n)
    <3>1. W!Above > 0
      BY <2>1, <2>4
    <3>2. W!Shifts(W!Above)
      BY <1>a, <1>4, <2>3, <3>1, Zenon DEF W!Window
    <3> QED
      BY <2>4, <3>2
  <2>6. start' = start + n /\ end' = W!Low(end + n, Len(items))
    BY <2>5 DEF W!Shifts
  <2>7. W!Slice(items, start', end') = W!Slice(seen, start, end)
    <3>1. /\ Len(seen) <= Len(items)
          /\ \A k \in 1..Len(seen) : items[(Len(items) - Len(seen)) + k] = seen[k]
      BY <1>1 DEF n
    <3>2. /\ start' = start + (Len(items) - Len(seen))
          /\ end' = W!Low(end + (Len(items) - Len(seen)), Len(items))
      BY <2>6 DEF n
    <3>3. ASSUME NEW c, NEW d, c = start + (Len(items) - Len(seen)),
                 d = W!Low(end + (Len(items) - Len(seen)), Len(items))
          PROVE  W!Slice(items, c, d) = W!Slice(seen, start, end)
      BY ONLY <1>a, <3>1, <3>3, SlicesAgree
    <3> QED
      BY <3>2, <3>3, Zenon
  <2> QED
    BY <2>7
<1> QED
  BY <1>3, <1>4

LEMMA NewestStays ==
    ASSUME W!SizeAssumption, WindowInv, W!Effects, start = 0, items # <<>>, seen # <<>>
    PROVE  start' = 0 /\ end' > 0
BY SeenAnew DEF W!Effects

LEMMA WindowIsNotBlank ==
    ASSUME WindowInv
    PROVE  W!NeverBlank
<1> SUFFICES ASSUME ~W!Due, items # <<>>, ~(start > 0)
             PROVE  W!Slice(items, start, end) # <<>>
  BY DEF W!NeverBlank
<1>0. PICK S : S = 1..MaxItem
  OBVIOUS
<1>1. /\ items \in Seq(S) /\ start = 0 /\ end \in Nat /\ end >= 1
  BY <1>0 DEF WindowInv, W!TypeOK, EndsBelow, W!Due
<1>2. Len(items) \in Nat /\ Len(items) >= 1
  BY <1>1
<1> DEFINE y == IF end < Len(items) THEN end ELSE Len(items)
<1>3. W!Slice(items, start, end) = SubSeq(items, start + 1, y)
  BY DEF W!Slice, W!Low
<1>4. y \in Nat /\ 1 <= y /\ y <= Len(items)
  BY <1>1, <1>2
<1> HIDE DEF y
<1>5. Len(SubSeq(items, 1, y)) = y
  <2>1. 1 \in Int /\ y \in Int /\ \A k \in 1..y : items[k] \in S
    BY <1>1, <1>2, <1>4
  <2>2. Len(SubSeq(items, 1, y)) = IF 1 <= y THEN y - 1 + 1 ELSE 0
    BY <2>1, SubSeqProperties
  <2> QED
    BY <1>4, <2>2
<1>6. start + 1 = 1
  BY <1>1
<1>7. Len(<<>>) = 0
  BY EmptySeq
<1> QED
  BY <1>3, <1>4, <1>5, <1>6, <1>7
-----------------------------------------------------------------------------
(* The rooms on the phone.  Of a room that was cleared at most messages are *)
(* left, which an erasure under way will find; a room has the kind it was   *)
(* made with; and a handler that will end a screen is, unless rooms were    *)
(* swapped, of the room it shows, whose page was loaded and whose lobby, if *)
(* it is still in one, leads nowhere.                                       *)
Wiping == {"unregister", "clear", "erase"}

Cleared ==
    \A r \in wiped :
        /\ card[r] = None /\ kept[r] \subseteq {"created", "messages"}
        /\ "messages" \in kept[r] => \E o \in ops : o.room = r /\ o.do = "erase"

Kinds ==
    \A r \in C!Channel : card[r] # None =>
        /\ card[r].kind = "agent" => r # Control
        /\ card[r].kind = "control" => r = Control

MembersExist == member \subseteq exists

LoadsHere ==
    \A r \in C!Channel : C!Loading(r) \in ops => r = at /\ (~mixed => screen = "INIT")

WaysOut ==
    \A o \in ops :
        /\ o.do \in {"disband", "leave"} => o.to \in C!Dead
        /\ o.do \in Wiping /\ o.to = "INIT" => at = None

Ends ==
    ~mixed => \A o \in ops : o.to \in C!Dead =>
        /\ o.room = at /\ C!Loading(at) \notin ops
        /\ screen \in {"LOBBY", "INIT"} => at \notin exists
        /\ o.do \in Wiping => at \notin member

ChannelInv ==
    /\ C!TypeOK /\ Cleared /\ Kinds
    /\ MembersExist /\ LoadsHere /\ WaysOut /\ Ends /\ C!DeadScreenIsDead

(* What an entry of the list is: its kind is that of its room, or none yet. *)
Entry(r, c) ==
    /\ c \in C!Card
    /\ c.kind = "agent" => r # Control
    /\ c.kind = "control" => r = Control

(* What one write of an entry may not undo.                                 *)
Lasts(c, d) ==
    /\ c.nick = "mine" => d.nick = "mine"
    /\ c.kind # "chat" => d.kind = c.kind
    /\ c.parent # None => d.parent = c.parent
    /\ c.auto = "topic" => d.auto = "topic"

LEMMA SharpenIs ==
  ASSUME C!DistinctAssumption, NEW c \in C!Card, NEW k \in {"chat", "control", "agent"},
         NEW p \in {None, Control}
  PROVE  /\ C!Sharpen(c, k, p) \in C!Card
         /\ C!Sharpen(c, k, p).kind = (IF k = "chat" THEN c.kind ELSE k)
         /\ C!Sharpen(c, k, p).nick = c.nick
         /\ C!Sharpen(c, k, p).auto = c.auto
         /\ C!Sharpen(c, k, p).parent = (IF c.parent = None THEN p ELSE c.parent)
BY DEF C!Sharpen, C!Card

LEMMA FreshIs ==
  /\ C!Fresh \in C!Card /\ C!Fresh.kind = "chat" /\ C!Fresh.nick = None
  /\ C!Fresh.auto = None /\ C!Fresh.parent = None
BY DEF C!Fresh, C!Card

LEMMA UpsertedLasts ==
  ASSUME C!DistinctAssumption, card \in [C!Channel -> C!Card \cup {None}], Kinds,
         NEW r \in C!Channel, NEW k \in {"chat", "agent"}, NEW p \in {None, Control},
         k = "agent" => r \in Spawned
  PROVE  /\ Entry(r, C!Upserted(r, k, p))
         /\ card[r] # None => Lasts(card[r], C!Upserted(r, k, p))
<1>1. PICK c : c = IF card[r] = None THEN C!Fresh ELSE card[r]
  OBVIOUS
<1>2. c \in C!Card
  BY <1>1, FreshIs
<1>3. Entry(r, c)
  BY <1>1, <1>2, FreshIs DEF Entry, Kinds
<1>4. PICK s : s = C!Sharpen(c, k, p)
  OBVIOUS
<1>5. /\ s \in C!Card /\ s.kind = (IF k = "chat" THEN c.kind ELSE k) /\ s.nick = c.nick
      /\ s.auto = c.auto /\ s.parent = (IF c.parent = None THEN p ELSE c.parent)
  BY <1>2, <1>4, SharpenIs
<1>6. C!Upserted(r, k, p) = s
  BY <1>1, <1>4 DEF C!Upserted
<1>7. k = "agent" => r # Control
  BY DEF C!DistinctAssumption
<1>8. c.kind \in {"chat", "control", "agent"}
  BY <1>2 DEF C!Card
<1>9. Entry(r, s)
  BY <1>3, <1>5, <1>7 DEF Entry
<1>10. Lasts(c, s)
  BY <1>3, <1>5, <1>7, <1>8 DEF Entry, Lasts
<1> QED
  BY <1>1, <1>6, <1>9, <1>10

LEMMA StampedLasts ==
  ASSUME C!DistinctAssumption, NEW r \in C!Channel, NEW c, Entry(r, c)
  PROVE  Entry(r, C!Stamped(r, c)) /\ Lasts(c, C!Stamped(r, c))
<1>1. PICK k : k = IF r = Control THEN "control" ELSE "chat"
  OBVIOUS
<1>2. PICK s : s = C!Sharpen(c, k, None)
  OBVIOUS
<1>3. c \in C!Card /\ k \in {"chat", "control", "agent"}
  BY <1>1 DEF Entry
<1>4. /\ s \in C!Card /\ s.kind = (IF k = "chat" THEN c.kind ELSE k) /\ s.nick = c.nick
      /\ s.auto = c.auto /\ s.parent = (IF c.parent = None THEN None ELSE c.parent)
  BY <1>2, <1>3, SharpenIs
<1>5. PICK n : n = IF r = Control /\ s.nick = None THEN "host" ELSE s.nick
  OBVIOUS
<1>6. PICK a : a = IF r \in Spawned /\ c.kind = "agent" THEN "topic" ELSE s.auto
  OBVIOUS
<1>7. C!Stamped(r, c) = [s EXCEPT !.nick = n, !.auto = a]
  BY <1>1, <1>2, <1>4, <1>5, <1>6 DEF C!Stamped, C!Card
<1>8. n \in {None, "mine", "host"} /\ a \in {None, "spawn", "topic"}
  BY <1>4, <1>5, <1>6 DEF C!Card
<1>9. PICK d : d = C!Stamped(r, c)
  OBVIOUS
<1>10. /\ d \in C!Card /\ d.kind = s.kind /\ d.parent = s.parent /\ d.nick = n /\ d.auto = a
  BY <1>4, <1>7, <1>8, <1>9 DEF C!Card
<1>11. Entry(r, d)
  BY <1>1, <1>4, <1>10 DEF Entry
<1>12. "mine" # None
  BY DEF C!DistinctAssumption
<1>13. c.kind \in {"chat", "control", "agent"}
  BY <1>3 DEF C!Card
<1>14. Lasts(c, d)
  BY <1>1, <1>4, <1>5, <1>6, <1>10, <1>12, <1>13 DEF Entry, Lasts
<1> QED
  BY <1>9, <1>11, <1>14

(* A write touches one room, and takes it out of the wiped ones.            *)
LEMMA WritesOne ==
  ASSUME C!TypeOK, NEW r \in C!Channel, NEW a \in SUBSET C!Artifact,
         NEW c \in C!Card \cup {None}, C!Write(r, a, c)
  PROVE  /\ kept' \in [C!Channel -> SUBSET C!Artifact]
         /\ card' \in [C!Channel -> C!Card \cup {None}]
         /\ wiped' \subseteq wiped
         /\ \A q \in C!Channel : q # r => kept'[q] = kept[q] /\ card'[q] = card[q]
         /\ card'[r] = c
         /\ \A q \in wiped' : kept'[q] = kept[q] /\ card'[q] = card[q]
<1>1. /\ kept' = [kept EXCEPT ![r] = @ \cup a]
      /\ card' = [card EXCEPT ![r] = c]
      /\ wiped' = IF <<kept', card'>> = <<kept, card>> THEN wiped ELSE wiped \ {r}
  BY DEF C!Write, C!Put
<1>2. /\ kept \in [C!Channel -> SUBSET C!Artifact] /\ card \in [C!Channel -> C!Card \cup {None}]
      /\ wiped \subseteq C!Channel
  BY DEF C!TypeOK
<1>3. kept' \in [C!Channel -> SUBSET C!Artifact] /\ card' \in [C!Channel -> C!Card \cup {None}]
  <2>1. kept[r] \cup a \in SUBSET C!Artifact
    BY <1>2
  <2> QED
    BY <1>1, <1>2, <2>1
<1>4. \A q \in C!Channel : q # r => kept'[q] = kept[q] /\ card'[q] = card[q]
  BY <1>1, <1>2
<1>5. card'[r] = c
  BY <1>1, <1>2
<1>6. wiped' \subseteq wiped
  BY <1>1
<1>7. ASSUME NEW q \in wiped' PROVE kept'[q] = kept[q] /\ card'[q] = card[q]
  <2>1. CASE <<kept', card'>> = <<kept, card>>
    BY <2>1
  <2>2. CASE <<kept', card'>> # <<kept, card>>
    BY <1>1, <1>2, <1>4, <1>7, <2>2
  <2> QED
    BY <2>1, <2>2
<1> QED
  BY <1>3, <1>4, <1>5, <1>6, <1>7

(* Entering a room is a write that always counts.                           *)
LEMMA EntersOne ==
  ASSUME C!TypeOK, NEW r \in C!Channel, NEW a \in SUBSET C!Artifact,
         NEW c \in C!Card \cup {None}, C!Enters(r, a, c)
  PROVE  /\ kept' \in [C!Channel -> SUBSET C!Artifact]
         /\ card' \in [C!Channel -> C!Card \cup {None}]
         /\ wiped' \subseteq wiped
         /\ \A q \in C!Channel : q # r => kept'[q] = kept[q] /\ card'[q] = card[q]
         /\ card'[r] = c
         /\ \A q \in wiped' : kept'[q] = kept[q] /\ card'[q] = card[q]
<1>1. /\ kept' = [kept EXCEPT ![r] = @ \cup a]
      /\ card' = [card EXCEPT ![r] = c]
      /\ wiped' = wiped \ {r}
  BY DEF C!Enters, C!Put
<1>2. /\ kept \in [C!Channel -> SUBSET C!Artifact] /\ card \in [C!Channel -> C!Card \cup {None}]
      /\ wiped \subseteq C!Channel
  BY DEF C!TypeOK
<1>3. kept' \in [C!Channel -> SUBSET C!Artifact] /\ card' \in [C!Channel -> C!Card \cup {None}]
  <2>1. kept[r] \cup a \in SUBSET C!Artifact
    BY <1>2
  <2> QED
    BY <1>1, <1>2, <2>1
<1>4. \A q \in C!Channel : q # r => kept'[q] = kept[q] /\ card'[q] = card[q]
  BY <1>1, <1>2
<1>5. card'[r] = c
  BY <1>1, <1>2
<1> QED
  BY <1>1, <1>2, <1>3, <1>4, <1>5

(* What every step keeps of the entries in the list.                        *)
ListLasts ==
    \A r \in C!Channel : card'[r] # None =>
        /\ Entry(r, card'[r])
        /\ card[r] # None => Lasts(card[r], card'[r]) \/ C!Rename(r, None)

LEMMA OneEntry ==
  ASSUME Kinds, card \in [C!Channel -> C!Card \cup {None}], NEW r \in C!Channel,
         \A q \in C!Channel : q # r => card'[q] = card[q],
         card'[r] # None => Entry(r, card'[r])
                            /\ (card[r] # None => Lasts(card[r], card'[r]) \/ C!Rename(r, None))
  PROVE  ListLasts
BY DEF ListLasts, Lasts, Entry, Kinds

LEMMA SameEntry ==
  ASSUME Kinds, card \in [C!Channel -> C!Card \cup {None}], NEW r \in C!Channel,
         \A q \in C!Channel : q # r => card'[q] = card[q],
         card'[r] = card[r]
  PROVE  ListLasts
BY DEF ListLasts, Lasts, Entry, Kinds

LEMMA SameList ==
  ASSUME Kinds, card \in [C!Channel -> C!Card \cup {None}], UNCHANGED card
  PROVE  ListLasts
BY DEF ListLasts, Lasts, Entry, Kinds

(* The effect of a step on the rooms it touches.                            *)
LEMMA ListKept ==
  ASSUME C!DistinctAssumption, C!TypeOK, Kinds, C!Next
  PROVE  card' \in [C!Channel -> C!Card \cup {None}] /\ ListLasts
<1>0. /\ card \in [C!Channel -> C!Card \cup {None}] /\ kept \in [C!Channel -> SUBSET C!Artifact]
      /\ wiped \subseteq C!Channel /\ at \in C!Channel \cup {None}
      /\ ops \subseteq C!Op /\ None \notin C!Channel
  BY DEF C!TypeOK, C!DistinctAssumption
<1> DEFINE Goal == card' \in [C!Channel -> C!Card \cup {None}] /\ ListLasts
<1>a. \A o \in ops : o.room \in C!Channel
  BY <1>0 DEF C!Op
<1>b. {} \in SUBSET C!Artifact /\ {"prefs"} \in SUBSET C!Artifact
      /\ {"token", "prefs"} \in SUBSET C!Artifact /\ {"messages"} \in SUBSET C!Artifact
      /\ {"push"} \in SUBSET C!Artifact /\ {"token", "created"} \in SUBSET C!Artifact
  BY DEF C!Artifact, C!Local
<1>c. ASSUME UNCHANGED card PROVE Goal
  BY <1>0, <1>c, SameList
<1>d. ASSUME NEW r \in C!Channel, NEW a \in SUBSET C!Artifact,
             C!Write(r, a, card[r]) \/ C!Enters(r, a, card[r])
      PROVE  Goal
  <2>1. card[r] \in C!Card \cup {None}
    BY <1>0
  <2>2. /\ card' \in [C!Channel -> C!Card \cup {None}] /\ card'[r] = card[r]
        /\ \A q \in C!Channel : q # r => card'[q] = card[q]
    BY <1>d, <2>1, WritesOne, EntersOne
  <2> QED
    BY <1>0, <2>2, SameEntry
<1>e. ASSUME NEW r \in C!Channel, NEW c, Entry(r, c),
             card' = [card EXCEPT ![r] = c],
             card[r] # None => Lasts(card[r], c) \/ C!Rename(r, None)
      PROVE  Goal
  <2>1. /\ card' \in [C!Channel -> C!Card \cup {None}] /\ card'[r] = c
        /\ \A q \in C!Channel : q # r => card'[q] = card[q]
    BY <1>0, <1>e DEF Entry
  <2> QED
    BY <1>0, <1>e, <2>1, OneEntry
<1> HIDE DEF Goal
<1>1. ASSUME NEW r \in C!Channel, C!SwapTo(r) PROVE Goal
  BY <1>1, <1>b, <1>d DEF C!SwapTo
<1>2. ASSUME NEW r \in C!Channel, C!Open(r) PROVE Goal
  BY <1>2, <1>c DEF C!Open
<1>3. ASSUME NEW r \in C!Channel, C!Create(r) PROVE Goal
  <2>1. card' = [card EXCEPT ![r] = C!Upserted(r, "chat", None)]
    BY <1>3 DEF C!Create, C!Enters, C!Put
  <2>2. /\ Entry(r, C!Upserted(r, "chat", None))
        /\ card[r] # None => Lasts(card[r], C!Upserted(r, "chat", None))
    BY <1>0, UpsertedLasts
  <2> QED
    BY <1>e, <2>1, <2>2
<1>4. ASSUME NEW r \in C!Channel, C!JoinAction(r) PROVE Goal
  <2>1. PICK c : c = C!Upserted(r, "agent", Control)
    OBVIOUS
  <2>2. PICK d : d = [c EXCEPT !.auto = IF @ = None THEN "spawn" ELSE @]
    OBVIOUS
  <2>3. card' = [card EXCEPT ![r] = d]
    BY <1>4, <2>1, <2>2 DEF C!JoinAction, C!Enters, C!Put
  <2>4. r \in Spawned
    BY <1>4 DEF C!JoinAction
  <2>5. Entry(r, c) /\ (card[r] # None => Lasts(card[r], c))
    BY <1>0, <2>1, <2>4, UpsertedLasts
  <2>6. /\ d \in C!Card /\ d.kind = c.kind /\ d.nick = c.nick /\ d.parent = c.parent
        /\ d.auto = IF c.auto = None THEN "spawn" ELSE c.auto
    BY <2>2, <2>5 DEF Entry, C!Card
  <2>7. None # "topic"
    BY DEF C!DistinctAssumption
  <2>8. Entry(r, d) /\ (card[r] # None => Lasts(card[r], d))
    BY <2>5, <2>6, <2>7 DEF Entry, Lasts
  <2> QED
    BY <1>e, <2>3, <2>8
<1>5. ASSUME NEW r \in C!Channel, C!InitEnds(r) PROVE Goal
  <2>1. \/ UNCHANGED card
        \/ card' = [card EXCEPT ![r] = C!Upserted(r, "chat", None)]
    BY <1>5 DEF C!InitEnds, C!phone
  <2>2. /\ Entry(r, C!Upserted(r, "chat", None))
        /\ card[r] # None => Lasts(card[r], C!Upserted(r, "chat", None))
    BY <1>0, UpsertedLasts
  <2> QED
    BY <1>c, <1>e, <2>1, <2>2
<1>6. ASSUME NEW r \in C!Channel, C!Forget(r) PROVE Goal
  BY <1>6, <1>c DEF C!Forget, C!phone
<1>7. ASSUME NEW r \in C!Channel, NEW heard \in BOOLEAN, C!OthersDisband(r, heard) PROVE Goal
  BY <1>7, <1>c DEF C!OthersDisband, C!phone
<1>8. ASSUME NEW r \in C!Channel, NEW nick \in {None, "mine"}, C!Rename(r, nick) PROVE Goal
  <2>1. card' = [card EXCEPT ![r] = [card[r] EXCEPT !.nick = nick]] /\ card[r] # None
    BY <1>8 DEF C!Rename
  <2>2. PICK d : d = [card[r] EXCEPT !.nick = nick]
    OBVIOUS
  <2>3. card[r] \in C!Card /\ Entry(r, card[r])
    BY <1>0, <2>1 DEF Kinds, Entry
  <2>4. /\ d \in C!Card /\ d.kind = card[r].kind /\ d.nick = nick
        /\ d.parent = card[r].parent /\ d.auto = card[r].auto
    BY <2>2, <2>3 DEF C!Card
  <2>5. Entry(r, d) /\ (nick = "mine" => Lasts(card[r], d))
    BY <2>3, <2>4 DEF Entry, Lasts
  <2> QED
    BY <1>8, <1>e, <2>1, <2>2, <2>5
<1>9. ASSUME C!GoToRooms PROVE Goal
  BY <1>9, <1>c DEF C!GoToRooms
<1>10. ASSUME C!Admit PROVE Goal
  <2>1. at \in C!Channel
    BY <1>10, <1>0 DEF C!Admit, C!TypeOK
  <2> QED
    BY <1>10, <1>b, <1>d, <2>1 DEF C!Admit
<1>11. ASSUME C!Send PROVE Goal
  <2>1. at \in C!Channel
    BY <1>11, <1>0 DEF C!Send, C!In
  <2>2. card' = [card EXCEPT ![at] = C!Upserted(at, "chat", None)]
    BY <1>11 DEF C!Send, C!Write, C!Put
  <2>3. /\ Entry(at, C!Upserted(at, "chat", None))
        /\ card[at] # None => Lasts(card[at], C!Upserted(at, "chat", None))
    BY <1>0, <2>1, UpsertedLasts
  <2> QED
    BY <1>e, <2>1, <2>2, <2>3
<1>12. ASSUME C!SetPreference PROVE Goal
  <2>1. at \in C!Channel
    BY <1>12, <1>0 DEF C!SetPreference, C!In
  <2> QED
    BY <1>12, <1>b, <1>d, <2>1 DEF C!SetPreference
<1>13. ASSUME NEW do \in {"ingest", "knock", "enable"}, C!Hear(do) PROVE Goal
  BY <1>13, <1>c DEF C!Hear, C!phone
<1>14. ASSUME NEW do \in {"disband", "leave"}, NEW to \in C!Dead, C!WalkOut(do, to) PROVE Goal
  BY <1>14, <1>c DEF C!WalkOut, C!phone
<1>15. ASSUME NEW o \in ops, C!HandlerEnds(o) PROVE Goal
  <2>0. o.room \in C!Channel /\ card[o.room] \in C!Card \cup {None}
    BY <1>0, <1>a
  <2>1. CASE o.do = "ingest"
    <3>1. PICK c : c = IF card[o.room] = None THEN None ELSE C!Stamped(o.room, card[o.room])
      OBVIOUS
    <3>2. card' = [card EXCEPT ![o.room] = c] /\ C!Write(o.room, {"messages"}, c)
      BY <1>15, <2>1, <3>1 DEF C!HandlerEnds, C!Write, C!Put
    <3>3. CASE card[o.room] = None
      BY <1>b, <1>d, <2>0, <3>1, <3>2, <3>3
    <3>4. CASE card[o.room] # None
      <4>1. Entry(o.room, card[o.room])
        BY <2>0, <3>4 DEF Entry, Kinds
      <4>2. Entry(o.room, c) /\ Lasts(card[o.room], c)
        BY <2>0, <3>1, <3>4, <4>1, StampedLasts
      <4> QED
        BY <1>e, <2>0, <3>2, <4>2
    <3> QED
      BY <3>3, <3>4
  <2>2. CASE o.do # "ingest"
    <3>1. \/ UNCHANGED card
          \/ C!Write(o.room, {"messages"}, card[o.room])
          \/ C!Write(o.room, {"prefs"}, card[o.room])
          \/ C!Write(o.room, {"push"}, card[o.room])
      BY <1>15, <2>2 DEF C!HandlerEnds, C!phone
    <3> QED
      BY <1>b, <1>c, <1>d, <2>0, <3>1
  <2> QED
    BY <2>1, <2>2
<1>16. ASSUME NEW o \in ops, C!OutAnswered(o) PROVE Goal
  BY <1>16, <1>c DEF C!OutAnswered, C!phone
<1>17. ASSUME NEW o \in ops, C!OutRefused(o) PROVE Goal
  BY <1>17, <1>c DEF C!OutRefused, C!phone
<1>18. ASSUME NEW o \in ops, C!Unregistered(o) PROVE Goal
  BY <1>18, <1>c DEF C!Unregistered
<1>19. ASSUME NEW o \in ops, C!Clear(o) PROVE Goal
  <2>1. card' = [card EXCEPT ![o.room] = None] /\ o.room \in C!Channel
    BY <1>19, <1>a DEF C!Clear
  <2>2. /\ card' \in [C!Channel -> C!Card \cup {None}] /\ card'[o.room] = None
        /\ \A q \in C!Channel : q # o.room => card'[q] = card[q]
    BY <1>0, <2>1
  <2>3. ListLasts
    BY <1>0, <2>1, <2>2, OneEntry
  <2> QED
    BY <2>2, <2>3 DEF Goal
<1>20. ASSUME NEW o \in ops, C!Erase(o) PROVE Goal
  BY <1>20, <1>c DEF C!Erase
<1> QED
  BY <1>1, <1>2, <1>3, <1>4, <1>5, <1>6, <1>7, <1>8, <1>9, <1>10, <1>11, <1>12, <1>13, <1>14,
     <1>15, <1>16, <1>17, <1>18, <1>19, <1>20 DEF C!Next, Goal

(* A step that takes no room for wiped, adds nothing to one that is, and    *)
(* ends no erasure it needs, keeps the rooms cleared.                       *)
Spares ==
    /\ wiped' \subseteq wiped
    /\ \A r \in wiped' :
         /\ card'[r] = None \/ card'[r] = card[r]
         /\ kept'[r] \subseteq kept[r]
         /\ "messages" \in kept'[r] =>
              \A o \in ops : o.room = r /\ o.do = "erase" => o \in ops'

LEMMA SparedIsCleared ==
  ASSUME Cleared, Spares
  PROVE  Cleared'
<1> SUFFICES ASSUME NEW r \in wiped'
             PROVE  /\ card'[r] = None /\ kept'[r] \subseteq {"created", "messages"}
                    /\ "messages" \in kept'[r] =>
                         \E o \in ops' : o.room = r /\ o.do = "erase"
  BY DEF Cleared
<1> QED
  BY DEF Cleared, Spares

(* What is kept of a room, and which are wiped, after any step.             *)
KeptType ==
    /\ kept \in [C!Channel -> SUBSET C!Artifact]
    /\ wiped \subseteq C!Channel

LEMMA ClearedKept ==
  ASSUME C!DistinctAssumption, C!TypeOK, Cleared, Kinds, C!Next
  PROVE  KeptType' /\ Cleared'
<1>0. /\ card \in [C!Channel -> C!Card \cup {None}] /\ kept \in [C!Channel -> SUBSET C!Artifact]
      /\ wiped \subseteq C!Channel /\ at \in C!Channel \cup {None}
      /\ ops \subseteq C!Op /\ None \notin C!Channel
  BY DEF C!TypeOK, C!DistinctAssumption
<1>z. \A r \in wiped : kept[r] \subseteq {"created", "messages"} /\ card[r] = None
                       /\ r \in C!Channel
  BY <1>0 DEF Cleared
<1> DEFINE Goal == KeptType' /\ Cleared'
           StillErasing == \A o \in ops : o.do = "erase" => o \in ops'
<1>a. \A o \in ops : o.room \in C!Channel /\ o \in C!Op
  BY <1>0 DEF C!Op
<1>b. {} \in SUBSET C!Artifact /\ {"prefs"} \in SUBSET C!Artifact
      /\ {"token", "prefs"} \in SUBSET C!Artifact /\ {"messages"} \in SUBSET C!Artifact
      /\ {"push"} \in SUBSET C!Artifact /\ {"token", "created"} \in SUBSET C!Artifact
  BY DEF C!Artifact, C!Local
<1>c. ASSUME UNCHANGED <<kept, card, wiped>>, StillErasing PROVE Goal
  <2>1. Spares
    BY <1>c DEF Spares
  <2> QED
    BY <1>0, <1>c, <2>1, SparedIsCleared DEF KeptType
<1>d. ASSUME NEW r \in C!Channel, NEW a \in SUBSET C!Artifact, NEW c \in C!Card \cup {None},
             C!Write(r, a, c) \/ C!Enters(r, a, c), StillErasing
      PROVE  Goal
  <2>1. /\ kept' \in [C!Channel -> SUBSET C!Artifact] /\ wiped' \subseteq wiped
        /\ \A q \in wiped' : kept'[q] = kept[q] /\ card'[q] = card[q]
    BY <1>d, WritesOne, EntersOne
  <2>2. Spares
    BY <1>d, <2>1 DEF Spares
  <2> QED
    BY <1>0, <2>1, <2>2, SparedIsCleared DEF KeptType
<1>e. \A o \in ops : C!Ended(o) /\ o.do # "erase" => StillErasing
  BY DEF C!Ended
<1>f. \A o \in ops : \A do : C!Becomes(o, do) /\ o.do # "erase" => StillErasing
  BY DEF C!Becomes
<1>g. \A do, r, to : C!Begin(do, r, to) => StillErasing
  BY DEF C!Begin
<1>h. \A r \in C!Channel \cup {None} : C!Loading(r).do # "erase"
  BY DEF C!Loading
<1> HIDE DEF Goal, StillErasing
<1>1. ASSUME NEW r \in C!Channel, C!SwapTo(r) PROVE Goal
  <2>1. C!Enters(r, {}, card[r]) /\ ops' = (ops \ {C!Loading(at)}) \cup {C!Loading(r)}
    BY <1>1 DEF C!SwapTo
  <2>2. StillErasing
    BY <1>0, <1>h, <2>1 DEF StillErasing
  <2> QED
    BY <1>0, <1>b, <1>d, <2>1, <2>2
<1>2. ASSUME NEW r \in C!Channel, C!Open(r) PROVE Goal
  <2>1. wiped' = (wiped \ C!HalfWiped) \ {r} /\ UNCHANGED <<kept, card>>
    BY <1>2 DEF C!Open
  <2>2. ASSUME NEW q \in wiped' PROVE "messages" \notin kept[q]
    BY <1>0, <2>1, <2>2 DEF C!HalfWiped, Cleared
  <2>3. Spares
    BY <2>1, <2>2 DEF Spares
  <2> QED
    BY <1>0, <2>1, <2>3, SparedIsCleared DEF Goal, KeptType
<1>3. ASSUME NEW r \in C!Channel, C!Create(r) PROVE Goal
  <2>1. C!Enters(r, {"token", "created"}, C!Upserted(r, "chat", None)) /\ ops = {}
    BY <1>3 DEF C!Create
  <2>2. C!Upserted(r, "chat", None) \in C!Card
    BY <1>0, UpsertedLasts DEF Entry
  <2>3. StillErasing
    BY <2>1 DEF StillErasing
  <2> QED
    BY <1>b, <1>d, <2>1, <2>2, <2>3
<1>4. ASSUME NEW r \in C!Channel, C!JoinAction(r) PROVE Goal
  <2>1. PICK c : c = C!Upserted(r, "agent", Control)
    OBVIOUS
  <2>2. PICK d : d = [c EXCEPT !.auto = IF @ = None THEN "spawn" ELSE @]
    OBVIOUS
  <2>3. C!Enters(r, {"prefs"}, d) /\ ops' = (ops \ {C!Loading(at)}) \cup {C!Loading(r)}
    BY <1>4, <2>1, <2>2 DEF C!JoinAction
  <2>4. r \in Spawned
    BY <1>4 DEF C!JoinAction
  <2>5. c \in C!Card
    BY <1>0, <2>1, <2>4, UpsertedLasts DEF Entry
  <2>6. d \in C!Card
    BY <2>2, <2>5 DEF C!Card
  <2>7. StillErasing
    BY <1>0, <1>h, <2>3 DEF StillErasing
  <2> QED
    BY <1>b, <1>d, <2>3, <2>6, <2>7
<1>5. ASSUME NEW r \in C!Channel, C!InitEnds(r) PROVE Goal
  <2>1. CASE r \notin exists
    <3>1. UNCHANGED <<kept, card, wiped>>
      BY <1>5, <2>1 DEF C!InitEnds, C!phone
    <3>2. C!Begins(C!Loading(r), C!WipeStart(r), "DESTROYED")
      BY <1>5, <2>1 DEF C!InitEnds
    <3>3. StillErasing
      BY <1>h, <3>2 DEF StillErasing, C!Begins
    <3> QED
      BY <1>c, <3>1, <3>3
  <2>2. CASE r \in exists
    <3>1. /\ card' = [card EXCEPT ![r] = C!Upserted(r, "chat", None)]
          /\ wiped' = wiped \ {r}
          /\ UNCHANGED kept \/ kept' = [kept EXCEPT ![r] = @ \ {"token"}]
          /\ C!Ended(C!Loading(r)) /\ C!Loading(r) \in ops
      BY <1>5, <2>2 DEF C!InitEnds
    <3>2. StillErasing
      BY <1>e, <1>h, <3>1
    <3>3. kept' \in [C!Channel -> SUBSET C!Artifact]
      BY <1>0, <3>1
    <3>4. \A q \in wiped' : kept'[q] = kept[q] /\ card'[q] = card[q]
      BY <1>0, <3>1
    <3>5. Spares
      BY <3>1, <3>2, <3>4 DEF Spares, StillErasing
    <3> QED
      BY <1>0, <3>1, <3>3, <3>5, SparedIsCleared DEF Goal, KeptType
  <2> QED
    BY <2>1, <2>2
<1>6. ASSUME NEW r \in C!Channel, C!Forget(r) PROVE Goal
  <2>1. StillErasing
    BY <1>6, <1>g DEF C!Forget
  <2> QED
    BY <1>6, <1>c, <2>1 DEF C!Forget, C!phone
<1>7. ASSUME NEW r \in C!Channel, NEW heard \in BOOLEAN, C!OthersDisband(r, heard) PROVE Goal
  <2>1. C!Begin(C!WipeStart(r), r, "DESTROYED") \/ UNCHANGED ops
    BY <1>7 DEF C!OthersDisband
  <2>2. StillErasing
    BY <1>g, <2>1 DEF StillErasing
  <2> QED
    BY <1>7, <1>c, <2>2 DEF C!OthersDisband, C!phone
<1>8. ASSUME NEW r \in C!Channel, NEW nick \in {None, "mine"}, C!Rename(r, nick) PROVE Goal
  <2>1. /\ card' = [card EXCEPT ![r] = [card[r] EXCEPT !.nick = nick]] /\ card[r] # None
        /\ UNCHANGED <<kept, wiped, ops>>
    BY <1>8 DEF C!Rename
  <2>2. r \notin wiped
    BY <2>1 DEF Cleared
  <2>3. \A q \in wiped : card'[q] = card[q]
    BY <1>0, <2>1, <2>2
  <2>4. Spares
    BY <2>1, <2>3 DEF Spares
  <2> QED
    BY <1>0, <2>1, <2>4, SparedIsCleared DEF Goal, KeptType
<1>9. ASSUME C!GoToRooms PROVE Goal
  <2>1. wiped' = wiped \ C!HalfWiped /\ UNCHANGED <<kept, card>>
    BY <1>9 DEF C!GoToRooms
  <2>2. ASSUME NEW q \in wiped' PROVE "messages" \notin kept[q]
    BY <1>0, <2>1, <2>2 DEF C!HalfWiped, Cleared
  <2>3. Spares
    BY <2>1, <2>2 DEF Spares
  <2> QED
    BY <1>0, <2>1, <2>3, SparedIsCleared DEF Goal, KeptType
<1>10. ASSUME C!Admit PROVE Goal
  <2>1. at \in C!Channel
    BY <1>10, <1>0 DEF C!Admit, C!TypeOK
  <2>2. C!Write(at, {"token", "prefs"}, card[at]) /\ StillErasing
    BY <1>10 DEF C!Admit, StillErasing
  <2> QED
    BY <1>0, <1>b, <1>d, <2>1, <2>2
<1>11. ASSUME C!Send PROVE Goal
  <2>1. at \in C!Channel
    BY <1>11, <1>0 DEF C!Send, C!In
  <2>2. C!Write(at, {}, C!Upserted(at, "chat", None)) /\ C!Begin("send", at, "INIT")
    BY <1>11 DEF C!Send
  <2>3. C!Upserted(at, "chat", None) \in C!Card
    BY <1>0, <2>1, UpsertedLasts DEF Entry
  <2> QED
    BY <1>b, <1>d, <1>g, <2>1, <2>2, <2>3
<1>12. ASSUME C!SetPreference PROVE Goal
  <2>1. at \in C!Channel
    BY <1>12, <1>0 DEF C!SetPreference, C!In
  <2>2. C!Write(at, {"prefs"}, card[at]) /\ StillErasing
    BY <1>12 DEF C!SetPreference, StillErasing
  <2> QED
    BY <1>0, <1>b, <1>d, <2>1, <2>2
<1>13. ASSUME NEW do \in {"ingest", "knock", "enable"}, C!Hear(do) PROVE Goal
  <2>1. StillErasing
    BY <1>13, <1>g DEF C!Hear
  <2> QED
    BY <1>13, <1>c, <2>1 DEF C!Hear, C!phone
<1>14. ASSUME NEW do \in {"disband", "leave"}, NEW to \in C!Dead, C!WalkOut(do, to) PROVE Goal
  <2>1. StillErasing
    BY <1>14, <1>g DEF C!WalkOut
  <2> QED
    BY <1>14, <1>c, <2>1 DEF C!WalkOut, C!phone
<1>15. ASSUME NEW o \in ops, C!HandlerEnds(o) PROVE Goal
  <2>0. o.room \in C!Channel /\ card[o.room] \in C!Card \cup {None}
    BY <1>0, <1>a
  <2>1. o.do \in {"ingest", "knock", "send", "enable"} /\ C!Ended(o)
    BY <1>15 DEF C!HandlerEnds
  <2>2. StillErasing
    BY <1>e, <2>1
  <2>3. CASE o.do = "ingest"
    <3>1. PICK c : c = IF card[o.room] = None THEN None ELSE C!Stamped(o.room, card[o.room])
      OBVIOUS
    <3>2. C!Write(o.room, {"messages"}, c)
      BY <1>15, <2>3, <3>1 DEF C!HandlerEnds
    <3>3. c \in C!Card \cup {None}
      <4>1. CASE card[o.room] # None
        <5>1. Entry(o.room, card[o.room])
          BY <2>0, <4>1 DEF Entry, Kinds
        <5> QED
          BY <2>0, <3>1, <4>1, <5>1, StampedLasts DEF Entry
      <4> QED
        BY <3>1, <4>1
    <3> QED
      BY <1>b, <1>d, <2>0, <2>2, <3>2, <3>3
  <2>4. CASE o.do # "ingest"
    <3>1. \/ UNCHANGED <<kept, card, wiped>>
          \/ C!Write(o.room, {"messages"}, card[o.room])
          \/ C!Write(o.room, {"prefs"}, card[o.room])
          \/ C!Write(o.room, {"push"}, card[o.room])
      BY <1>15, <2>4 DEF C!HandlerEnds, C!phone
    <3> QED
      BY <1>b, <1>c, <1>d, <2>0, <2>2, <3>1
  <2> QED
    BY <2>3, <2>4
<1>16. ASSUME NEW o \in ops, C!OutAnswered(o) PROVE Goal
  <2>1. StillErasing
    BY <1>16, <1>f DEF C!OutAnswered
  <2> QED
    BY <1>16, <1>c, <2>1 DEF C!OutAnswered, C!phone
<1>17. ASSUME NEW o \in ops, C!OutRefused(o) PROVE Goal
  <2>1. StillErasing
    BY <1>17, <1>e DEF C!OutRefused
  <2> QED
    BY <1>17, <1>c, <2>1 DEF C!OutRefused, C!phone
<1>18. ASSUME NEW o \in ops, C!Unregistered(o) PROVE Goal
  <2>1. /\ kept' = [kept EXCEPT ![o.room] = @ \ {"push"}] /\ UNCHANGED <<card, wiped>>
        /\ o.room \in C!Channel
    BY <1>18, <1>a DEF C!Unregistered
  <2>2. StillErasing
    BY <1>18, <1>f DEF C!Unregistered
  <2>3. kept' \in [C!Channel -> SUBSET C!Artifact] /\ \A q \in wiped : kept'[q] \subseteq kept[q]
    BY <1>0, <2>1
  <2>4. Spares
    BY <2>1, <2>2, <2>3 DEF Spares, StillErasing
  <2> QED
    BY <1>0, <2>1, <2>3, <2>4, SparedIsCleared DEF Goal, KeptType
<1>19. ASSUME NEW o \in ops, C!Clear(o) PROVE Goal
  <2>1. /\ kept' = [kept EXCEPT ![o.room] = @ \ C!Local]
        /\ card' = [card EXCEPT ![o.room] = None]
        /\ wiped' = wiped \cup {o.room}
        /\ o.do = "clear" /\ C!Becomes(o, "erase")
        /\ o.room \in C!Channel /\ o \in C!Op
    BY <1>19, <1>a DEF C!Clear, C!Clears
  <2>2. StillErasing
    BY <1>f, <2>1
  <2>3. kept' \in [C!Channel -> SUBSET C!Artifact] /\ wiped' \subseteq C!Channel
    BY <1>0, <2>1
  <2>4. ASSUME NEW r \in wiped'
        PROVE  /\ card'[r] = None /\ kept'[r] \subseteq {"created", "messages"}
               /\ "messages" \in kept'[r] => \E e \in ops' : e.room = r /\ e.do = "erase"
    <3>1. CASE r = o.room
      <4>1. card'[r] = None /\ kept'[r] = kept[r] \ C!Local /\ kept[r] \subseteq C!Artifact
        BY <1>0, <2>1, <3>1
      <4>2. kept'[r] \subseteq {"created", "messages"}
        BY <4>1 DEF C!Artifact
      <4>3. [o EXCEPT !.do = "erase"] \in ops'
        BY <2>1 DEF C!Becomes
      <4>4. [o EXCEPT !.do = "erase"].room = r /\ [o EXCEPT !.do = "erase"].do = "erase"
        BY <2>1, <3>1 DEF C!Op
      <4> QED
        BY <4>1, <4>2, <4>3, <4>4
    <3>2. CASE r # o.room
      <4>1. r \in wiped /\ card'[r] = card[r] /\ kept'[r] = kept[r]
        BY <1>0, <2>1, <2>3, <3>2
      <4> QED
        BY <2>2, <4>1 DEF Cleared, StillErasing
    <3> QED
      BY <3>1, <3>2
  <2>5. Cleared'
    BY <2>4 DEF Cleared
  <2> QED
    BY <2>3, <2>5 DEF Goal, KeptType
<1>20. ASSUME NEW o \in ops, C!Erase(o) PROVE Goal
  <2>1. /\ kept' = [kept EXCEPT ![o.room] = @ \ {"messages"}] /\ UNCHANGED <<card, wiped>>
        /\ ops' = ops \ {o} /\ o.room \in C!Channel
    BY <1>20, <1>a DEF C!Erase, C!Ended
  <2>2. /\ kept' \in [C!Channel -> SUBSET C!Artifact]
        /\ kept'[o.room] = kept[o.room] \ {"messages"}
        /\ \A q \in C!Channel : q # o.room => kept'[q] = kept[q]
    BY <1>0, <2>1
  <2>3. ASSUME NEW r \in wiped'
        PROVE  /\ card'[r] = None \/ card'[r] = card[r]
               /\ kept'[r] \subseteq kept[r]
               /\ "messages" \in kept'[r] =>
                    \A e \in ops : e.room = r /\ e.do = "erase" => e \in ops'
    BY <1>0, <2>1, <2>2
  <2>4. Spares
    BY <2>1, <2>3 DEF Spares
  <2> QED
    BY <1>0, <2>1, <2>2, <2>4, SparedIsCleared DEF Goal, KeptType
<1> QED
  BY <1>1, <1>2, <1>3, <1>4, <1>5, <1>6, <1>7, <1>8, <1>9, <1>10, <1>11, <1>12, <1>13, <1>14,
     <1>15, <1>16, <1>17, <1>18, <1>19, <1>20 DEF C!Next, Goal

(* The page and the handlers under way.                                     *)
PageType ==
    /\ exists \subseteq C!Channel /\ member \subseteq C!Channel
    /\ at \in C!Channel \cup {None}
    /\ screen \in {"INIT", "LOBBY", "PARTICIPANT"} \cup C!Dead
    /\ ops \subseteq C!Op /\ mixed \in BOOLEAN

Pages == MembersExist /\ LoadsHere /\ WaysOut /\ Ends /\ C!DeadScreenIsDead

LEMMA LoadingIs ==
  ASSUME NEW r
  PROVE  /\ C!Loading(r).do = "init" /\ C!Loading(r).room = r /\ C!Loading(r).to = "INIT"
         /\ r \in C!Channel => C!Loading(r) \in C!Op
BY DEF C!Loading, C!Op

LEMMA OpIs ==
  ASSUME NEW r \in C!Channel, NEW do \in {"init", "ingest", "knock", "send", "enable", "disband",
             "leave", "unregister", "clear", "erase"}, NEW to \in C!Dead \cup {"INIT"}
  PROVE  [do |-> do, room |-> r, to |-> to] \in C!Op
BY DEF C!Op

LEMMA OpBecomes ==
  ASSUME NEW o \in C!Op, NEW do \in Wiping
  PROVE  /\ [o EXCEPT !.do = do] \in C!Op
         /\ [o EXCEPT !.do = do].do = do
         /\ [o EXCEPT !.do = do].room = o.room
         /\ [o EXCEPT !.do = do].to = o.to
BY DEF C!Op, Wiping

LEMMA WipesStart ==
  ASSUME NEW r
  PROVE  C!WipeStart(r) \in Wiping
BY DEF C!WipeStart, Wiping

(* A handler of the room on the screen begins or ends, or /rooms begins to  *)
(* forget a room.                                                           *)
LEMMA HandlersCome ==
  ASSUME C!DistinctAssumption, PageType, Pages, NEW n \in C!Op,
         UNCHANGED <<exists, member, at, screen, mixed>>, ops' \subseteq ops \cup {n},
         n.do # "init",
         n.to = "INIT", n.do \in Wiping => at = None,
         n.do \notin {"disband", "leave"}
  PROVE  PageType' /\ Pages'
<1>1. PageType'
  BY DEF PageType
<1>2. MembersExist' /\ LoadsHere' /\ C!DeadScreenIsDead'
  BY LoadingIs DEF PageType, Pages, MembersExist, LoadsHere, C!DeadScreenIsDead
<1>3. WaysOut'
  BY DEF Pages, WaysOut
<1>4. Ends'
  BY LoadingIs DEF PageType, Pages, Ends, C!Dead
<1> QED
  BY <1>1, <1>2, <1>3, <1>4 DEF Pages

LEMMA HandlersGo ==
  ASSUME C!DistinctAssumption, PageType, Pages,
         UNCHANGED <<exists, member, at, screen, mixed>>, ops' \subseteq ops
  PROVE  PageType' /\ Pages'
BY DEF PageType, Pages, MembersExist, LoadsHere, WaysOut, Ends, C!DeadScreenIsDead

(* A wipe goes on.                                                          *)
LEMMA WipesGoOn ==
  ASSUME C!DistinctAssumption, PageType, Pages, NEW o \in ops, NEW do \in Wiping,
         o.do \in Wiping,
         UNCHANGED <<exists, member, at, screen, mixed>>, C!Becomes(o, do)
  PROVE  PageType' /\ Pages'
<1>1. PICK n : n = [o EXCEPT !.do = do]
  OBVIOUS
<1>2. n \in C!Op /\ n.do \in Wiping /\ n.room = o.room /\ n.to = o.to
  BY <1>1, OpBecomes DEF PageType
<1>3. ops' = (ops \ {o}) \cup {n}
  BY <1>1 DEF C!Becomes
<1>4. PageType'
  BY <1>2, <1>3 DEF PageType
<1>5. MembersExist' /\ C!DeadScreenIsDead'
  BY DEF Pages, PageType, MembersExist, C!DeadScreenIsDead
<1>6. \A r : C!Loading(r) \in ops' => C!Loading(r) \in ops
  BY <1>2, <1>3, LoadingIs DEF Wiping
<1>7. LoadsHere'
  BY <1>6 DEF Pages, PageType, LoadsHere
<1>8. WaysOut'
  BY <1>2, <1>3 DEF Pages, WaysOut, Wiping
<1>9. Ends'
  BY <1>2, <1>3, <1>6 DEF Pages, PageType, Ends
<1> QED
  BY <1>4, <1>5, <1>7, <1>8, <1>9 DEF Pages

LEMMA PagesKept ==
  ASSUME C!DistinctAssumption, C!TypeOK, Pages, C!Next
  PROVE  PageType' /\ Pages'
<1>0. /\ PageType /\ None \notin C!Channel
      /\ exists \subseteq C!Channel /\ member \subseteq C!Channel /\ member \subseteq exists
      /\ at \in C!Channel \cup {None} /\ ops \subseteq C!Op
      /\ screen \in {"INIT", "LOBBY", "PARTICIPANT"} \cup C!Dead
  BY DEF C!TypeOK, PageType, Pages, MembersExist, C!DistinctAssumption
<1>z. mixed \in BOOLEAN
  BY <1>0, Zenon DEF PageType
<1>a. \A o \in ops : o \in C!Op /\ o.room \in C!Channel /\ o.to \in C!Dead \cup {"INIT"}
  BY <1>0 DEF C!Op
<1> DEFINE Goal == PageType' /\ Pages'
<1>b. ASSUME C!DistinctAssumption, UNCHANGED <<exists, member, at, screen, mixed>>,
             ops' \subseteq ops
      PROVE  Goal
  BY <1>0, <1>b, HandlersGo
<1>c. ASSUME NEW do, NEW r \in C!Channel, C!Begin(do, r, "INIT"),
             do \in {"ingest", "knock", "send", "enable"} \/ (do \in Wiping /\ at = None),
             UNCHANGED <<exists, member, at, screen, mixed>>
      PROVE  Goal
  <2>1. PICK n : n = [do |-> do, room |-> r, to |-> "INIT"]
    OBVIOUS
  <2>2. /\ n \in C!Op /\ n.to = "INIT" /\ n.do \notin {"init", "disband", "leave"}
        /\ n.do \in Wiping => at = None
    BY <1>c, <2>1 DEF C!Op, Wiping
  <2>3. ops' \subseteq ops \cup {n}
    BY <1>c, <2>1 DEF C!Begin
  <2> QED
    BY <1>0, <1>c, <2>2, <2>3, HandlersCome
<1> HIDE DEF Goal
(* A page is loaded over nothing that ends a screen.                        *)
<1>d. ASSUME NEW r \in C!Channel, at' = r, screen' = "INIT",
             exists' = exists, member' = member, mixed' \in BOOLEAN,
             \A o \in ops' : o \in ops \/ o = C!Loading(r),
             \A q \in C!Channel : C!Loading(q) \in ops' => q = r,
             \A o \in ops' : o.do \in Wiping => o.to # "INIT",
             ~mixed' => \A o \in ops' : o.to \notin C!Dead
      PROVE  Goal
  <2>1. PageType'
    BY <1>0, <1>d, LoadingIs DEF PageType
  <2>2. MembersExist' /\ C!DeadScreenIsDead'
    BY <1>0, <1>d DEF MembersExist, C!DeadScreenIsDead, C!Dead
  <2>3. LoadsHere'
    BY <1>d DEF LoadsHere
  <2>4. WaysOut'
    BY <1>d, LoadingIs DEF Pages, WaysOut, Wiping
  <2>5. Ends'
    BY <1>d DEF Ends
  <2> QED
    BY <2>1, <2>2, <2>3, <2>4, <2>5 DEF Goal, Pages
<1>1. ASSUME NEW r \in C!Channel, C!SwapTo(r) \/ C!JoinAction(r) PROVE Goal
  <2>1. /\ at # None /\ at' = r /\ screen' = "INIT"
        /\ ops' = (ops \ {C!Loading(at)}) \cup {C!Loading(r)}
        /\ exists' = exists /\ member' = member
    BY <1>1, <1>0 DEF C!SwapTo, C!JoinAction, C!DistinctAssumption, C!Channel
  <2>2. mixed' = (mixed \/ \E o \in ops : o.to \in C!Dead)
    BY <1>1, Zenon DEF C!SwapTo, C!JoinAction
  <2>3. mixed' \in BOOLEAN
    BY <2>2, Zenon
  <2>4. ~mixed' => \A o \in ops : o.to \notin C!Dead
    BY <2>2, Zenon
  <2>5. \A q \in C!Channel : C!Loading(q) \in ops' => q = r
    <3>1. ASSUME NEW q \in C!Channel, C!Loading(q) \in ops', q # r PROVE FALSE
      <4>1. C!Loading(q) # C!Loading(r)
        BY <3>1, LoadingIs
      <4>2. C!Loading(q) \in ops /\ C!Loading(q) # C!Loading(at)
        BY <2>1, <3>1, <4>1
      <4> QED
        BY <4>2 DEF Pages, LoadsHere
    <3> QED
      BY <3>1
  <2>6. \A o \in ops' : o.do \in Wiping => o.to # "INIT"
    BY <2>1, LoadingIs DEF Pages, WaysOut, Wiping
  <2>7. ~mixed' => \A o \in ops' : o.to \notin C!Dead
    BY <2>1, <2>4, LoadingIs DEF C!Dead
  <2> QED
    BY <1>d, <2>1, <2>3, <2>5, <2>6, <2>7
<1>2. ASSUME NEW r \in C!Channel, C!Open(r) PROVE Goal
  <2>1. /\ at' = r /\ screen' = "INIT" /\ ops' = {C!Loading(r)}
        /\ exists' = exists /\ member' = member
    BY <1>2 DEF C!Open
  <2>2. mixed' \in BOOLEAN
    BY <1>2, <1>z, Zenon DEF C!Open
  <2>3. \A q \in C!Channel : C!Loading(q) \in ops' => q = r
    BY <2>1, LoadingIs
  <2>4. \A o \in ops' : o.do \notin Wiping /\ o.to \notin C!Dead
    BY <2>1, LoadingIs DEF Wiping, C!Dead
  <2> QED
    BY <1>d, <2>1, <2>2, <2>3, <2>4
<1>3. ASSUME NEW r \in C!Channel, C!Create(r) PROVE Goal
  <2>1. /\ at' = r /\ screen' = "INIT" /\ ops' = {C!Loading(r)}
        /\ exists' = exists \cup {r} /\ member' = member \cup {r} /\ mixed' = mixed
    BY <1>3 DEF C!Create
  <2>2. \A q : C!Loading(q) \in ops' => q = r
    BY <2>1, LoadingIs
  <2>3. \A o \in ops' : o.do = "init" /\ o.to = "INIT" /\ o \in C!Op
    BY <2>1, LoadingIs
  <2>4. PageType'
    BY <1>0, <2>1, <2>3 DEF PageType
  <2>5. MembersExist' /\ C!DeadScreenIsDead'
    BY <1>0, <2>1 DEF MembersExist, C!DeadScreenIsDead, C!Dead
  <2>6. LoadsHere' /\ WaysOut' /\ Ends'
    BY <2>1, <2>2, <2>3 DEF LoadsHere, WaysOut, Ends, Wiping, C!Dead
  <2> QED
    BY <2>4, <2>5, <2>6 DEF Goal, Pages
<1>4. ASSUME C!GoToRooms PROVE Goal
  <2>1. /\ at' = None /\ screen' = "INIT" /\ ops' = {} /\ mixed' = FALSE
        /\ exists' = exists /\ member' = member
    BY <1>4 DEF C!GoToRooms
  <2>2. PageType'
    BY <1>0, <2>1 DEF PageType
  <2> QED
    BY <1>0, <2>1, <2>2
       DEF Goal, Pages, MembersExist, LoadsHere, WaysOut, Ends, C!DeadScreenIsDead, C!Dead
<1>5. ASSUME NEW r \in C!Channel, C!InitEnds(r) PROVE Goal
  <2>0. /\ C!Loading(r) \in ops /\ at = r
        /\ exists' = exists /\ member' = member /\ mixed' = mixed /\ at' = at
    BY <1>5 DEF C!InitEnds, C!page
  <2>a. ~mixed => screen = "INIT" /\ \A o \in ops : o.to \notin C!Dead
    BY <2>0 DEF Pages, LoadsHere, Ends
  <2>1. CASE r \notin exists
    <3>1. PICK n : n = [do |-> C!WipeStart(r), room |-> r, to |-> "DESTROYED"]
      OBVIOUS
    <3>2. screen' = screen /\ ops' = (ops \ {C!Loading(r)}) \cup {n}
      BY <1>5, <2>1, <3>1, LoadingIs DEF C!InitEnds, C!page, C!Begins
    <3>3. n \in C!Op /\ n.do \in Wiping /\ n.room = r /\ n.to = "DESTROYED"
      BY <3>1, WipesStart DEF C!Op, C!Dead, Wiping
    <3>4. PageType'
      BY <1>0, <2>0, <3>2, <3>3 DEF PageType
    <3>5. MembersExist' /\ C!DeadScreenIsDead'
      BY <1>0, <2>0, <3>2 DEF Pages, MembersExist, C!DeadScreenIsDead
    <3>6. \A q \in C!Channel : C!Loading(q) \notin ops'
      BY <2>0, <3>2, <3>3, LoadingIs DEF Pages, LoadsHere, Wiping
    <3>7. LoadsHere' /\ WaysOut'
      BY <2>0, <3>2, <3>3, <3>6 DEF Pages, LoadsHere, WaysOut, Wiping
    <3>8. Ends'
      BY <1>0, <2>0, <2>1, <2>a, <3>2, <3>3, <3>6 DEF Ends
    <3> QED
      BY <3>4, <3>5, <3>7, <3>8 DEF Goal, Pages
  <2>2. CASE r \in exists
    <3>1. screen' \in {"PARTICIPANT", "LOBBY"} /\ ops' = ops \ {C!Loading(r)}
      BY <1>5, <2>2 DEF C!InitEnds, C!Ended
    <3>2. PageType'
      BY <1>0, <2>0, <3>1 DEF PageType
    <3>3. MembersExist' /\ C!DeadScreenIsDead'
      BY <1>0, <2>0, <3>1 DEF Pages, MembersExist, C!DeadScreenIsDead, C!Dead
    <3>4. \A q \in C!Channel : C!Loading(q) \notin ops'
      BY <2>0, <3>1 DEF Pages, LoadsHere
    <3>5. LoadsHere' /\ WaysOut' /\ Ends'
      BY <2>0, <2>a, <3>1, <3>4 DEF Pages, LoadsHere, WaysOut, Ends
    <3> QED
      BY <3>2, <3>3, <3>5 DEF Goal, Pages
  <2> QED
    BY <2>1, <2>2
<1>6. ASSUME NEW r \in C!Channel, C!Forget(r) PROVE Goal
  <2>1. /\ at = None /\ C!Begin(C!WipeStart(r), r, "INIT")
        /\ UNCHANGED <<exists, member, at, screen, mixed>>
    BY <1>6 DEF C!Forget, C!page
  <2> QED
    BY <1>c, <2>1, WipesStart
<1>7. ASSUME NEW r \in C!Channel, NEW heard \in BOOLEAN, C!OthersDisband(r, heard) PROVE Goal
  <2>0. /\ exists' = exists \ {r} /\ member' = member \ {r}
        /\ UNCHANGED <<at, screen, mixed>>
    BY <1>7 DEF C!OthersDisband, C!page
  <2>1. CASE ops' = ops
    <3>1. PageType'
      BY <1>0, <2>0, <2>1 DEF PageType
    <3> QED
      BY <1>0, <2>0, <2>1, <3>1
         DEF Goal, Pages, MembersExist, LoadsHere, WaysOut, Ends, C!DeadScreenIsDead
  <2>2. CASE at = r /\ screen \in {"LOBBY", "PARTICIPANT"}
             /\ C!Begin(C!WipeStart(r), r, "DESTROYED")
    <3>1. PICK n : n = [do |-> C!WipeStart(r), room |-> r, to |-> "DESTROYED"]
      OBVIOUS
    <3>2. ops' = ops \cup {n}
      BY <2>2, <3>1 DEF C!Begin
    <3>3. n \in C!Op /\ n.do \in Wiping /\ n.room = r /\ n.to = "DESTROYED"
      BY <3>1, WipesStart DEF C!Op, C!Dead, Wiping
    <3>4. PageType'
      BY <1>0, <2>0, <3>2, <3>3 DEF PageType
    <3>5. MembersExist' /\ C!DeadScreenIsDead'
      BY <1>0, <2>0 DEF Pages, MembersExist, C!DeadScreenIsDead
    <3>6. \A q : C!Loading(q) \in ops' => C!Loading(q) \in ops
      BY <3>2, <3>3, LoadingIs DEF Wiping
    <3>7. LoadsHere' /\ WaysOut'
      BY <2>0, <3>2, <3>3, <3>6 DEF Pages, LoadsHere, WaysOut, Wiping
    <3>8. ~mixed => C!Loading(r) \notin ops
      BY <2>2 DEF Pages, LoadsHere
    <3>9. Ends'
      BY <1>0, <2>0, <2>2, <3>2, <3>3, <3>6, <3>8 DEF Pages, Ends
    <3> QED
      BY <3>4, <3>5, <3>7, <3>9 DEF Goal, Pages
  <2> QED
    BY <1>7, <2>1, <2>2 DEF C!OthersDisband
<1>8. ASSUME NEW r \in C!Channel, NEW nick \in {None, "mine"}, C!Rename(r, nick) PROVE Goal
  BY <1>8, <1>b DEF C!Rename, C!page
<1>9. ASSUME C!Admit PROVE Goal
  <2>1. /\ screen = "LOBBY" /\ at \in exists /\ screen' = "PARTICIPANT"
        /\ member' = member \cup {at} /\ UNCHANGED <<exists, at, ops, mixed>>
    BY <1>9 DEF C!Admit
  <2>2. PageType'
    BY <1>0, <2>1 DEF PageType
  <2>3. MembersExist' /\ C!DeadScreenIsDead' /\ WaysOut'
    BY <1>0, <2>1 DEF Pages, MembersExist, WaysOut, C!DeadScreenIsDead, C!Dead
  <2>4. ~mixed => \A o \in ops : o.to \notin C!Dead
    BY <2>1 DEF Pages, Ends
  <2>5. LoadsHere' /\ Ends'
    BY <2>1, <2>4 DEF Pages, LoadsHere, Ends
  <2> QED
    BY <2>2, <2>3, <2>5 DEF Goal, Pages
<1>10. ASSUME C!Send PROVE Goal
  <2>1. /\ at \in C!Channel /\ C!Begin("send", at, "INIT")
        /\ UNCHANGED <<exists, member, at, screen, mixed>>
    BY <1>0, <1>10 DEF C!Send, C!In, C!page
  <2> QED
    BY <1>c, <2>1
<1>11. ASSUME C!SetPreference PROVE Goal
  BY <1>11, <1>b DEF C!SetPreference, C!page
<1>12. ASSUME NEW do \in {"ingest", "knock", "enable"}, C!Hear(do) PROVE Goal
  <2>1. /\ at \in C!Channel /\ C!Begin(do, at, "INIT")
        /\ UNCHANGED <<exists, member, at, screen, mixed>>
    BY <1>0, <1>12 DEF C!Hear, C!In, C!page
  <2> QED
    BY <1>c, <2>1
<1>13. ASSUME NEW do \in {"disband", "leave"}, NEW to \in C!Dead, C!WalkOut(do, to) PROVE Goal
  <2>1. /\ at \in C!Channel /\ screen = "PARTICIPANT" /\ C!Begin(do, at, to)
        /\ UNCHANGED <<exists, member, at, screen, mixed>>
    BY <1>0, <1>13 DEF C!WalkOut, C!In, C!page
  <2>2. PICK n : n = [do |-> do, room |-> at, to |-> to]
    OBVIOUS
  <2>3. /\ n \in C!Op /\ n.do \in {"disband", "leave"} /\ n.room = at /\ n.to \in C!Dead
    BY <2>1, <2>2 DEF C!Op
  <2>4. ops' = ops \cup {n}
    BY <2>1, <2>2 DEF C!Begin
  <2>5. PageType'
    BY <1>0, <2>1, <2>3, <2>4 DEF PageType
  <2>6. MembersExist' /\ C!DeadScreenIsDead'
    BY <2>1 DEF Pages, MembersExist, C!DeadScreenIsDead
  <2>7. \A q : C!Loading(q) \in ops' => C!Loading(q) \in ops
    BY <2>3, <2>4, LoadingIs
  <2>8. LoadsHere' /\ WaysOut'
    BY <2>1, <2>3, <2>4, <2>7 DEF Pages, LoadsHere, WaysOut, Wiping
  <2>9. ~mixed => C!Loading(at) \notin ops
    BY <2>1 DEF Pages, LoadsHere
  <2>10. Ends'
    BY <2>1, <2>3, <2>4, <2>7, <2>9 DEF Pages, Ends, Wiping
  <2> QED
    BY <2>5, <2>6, <2>8, <2>10 DEF Goal, Pages
<1>14. ASSUME NEW o \in ops, C!HandlerEnds(o) \/ C!OutRefused(o) PROVE Goal
  <2>1. ops' = ops \ {o} /\ UNCHANGED <<exists, member, at, screen, mixed>>
    BY <1>14 DEF C!HandlerEnds, C!OutRefused, C!page, C!Ended
  <2> QED
    BY <1>b, <2>1
<1>15. ASSUME NEW o \in ops, C!OutAnswered(o) PROVE Goal
  <2>1. /\ o.do \in {"disband", "leave"} /\ exists' \in {exists, exists \ {o.room}}
        /\ o.do = "leave" => exists' = exists
        /\ member' = member \ {o.room} /\ C!Becomes(o, C!WipeStart(o.room))
        /\ UNCHANGED <<at, screen, mixed>>
    BY <1>15 DEF C!OutAnswered, C!page
  <2>2. PICK n : n = [o EXCEPT !.do = C!WipeStart(o.room)]
    OBVIOUS
  <2>3. n \in C!Op /\ n.do \in Wiping /\ n.room = o.room /\ n.to = o.to /\ o.to \in C!Dead
    BY <1>a, <2>1, <2>2, OpBecomes, WipesStart DEF Pages, WaysOut
  <2>4. ops' = (ops \ {o}) \cup {n}
    BY <2>1, <2>2 DEF C!Becomes
  <2>5. PageType'
    BY <1>0, <2>1, <2>3, <2>4 DEF PageType
  <2>6. exists' \subseteq exists /\ member' \subseteq member
    BY <2>1
  <2>7. MembersExist' /\ C!DeadScreenIsDead'
    BY <1>0, <2>1, <2>6 DEF Pages, MembersExist, C!DeadScreenIsDead
  <2>8. \A q : C!Loading(q) \in ops' => C!Loading(q) \in ops
    BY <2>3, <2>4, LoadingIs DEF Wiping
  <2>9. LoadsHere' /\ WaysOut'
    BY <2>1, <2>3, <2>4, <2>8 DEF Pages, LoadsHere, WaysOut, Wiping, C!Dead
  <2>10. Ends'
    BY <2>1, <2>3, <2>4, <2>6, <2>8 DEF Pages, Ends
  <2> QED
    BY <2>5, <2>7, <2>9, <2>10 DEF Goal, Pages
<1>16. ASSUME NEW o \in ops, C!Unregistered(o) PROVE Goal
  <2>1. /\ o.do \in Wiping /\ "clear" \in Wiping /\ C!Becomes(o, "clear")
        /\ UNCHANGED <<exists, member, at, screen, mixed>>
    BY <1>16 DEF C!Unregistered, C!page, Wiping
  <2> QED
    BY <1>0, <2>1, WipesGoOn DEF Goal
<1>17. ASSUME NEW o \in ops, C!Clear(o) PROVE Goal
  <2>1. /\ o.do \in Wiping /\ "erase" \in Wiping /\ C!Becomes(o, "erase")
        /\ UNCHANGED <<exists, member, at, screen, mixed>>
    BY <1>17 DEF C!Clear, C!page, Wiping
  <2> QED
    BY <1>0, <2>1, WipesGoOn DEF Goal
<1>18. ASSUME NEW o \in ops, C!Erase(o) PROVE Goal
  <2>1. /\ o.do = "erase" /\ ops' = ops \ {o} /\ UNCHANGED <<exists, member, at, mixed>>
        /\ screen' = IF at # None THEN o.to ELSE screen
    BY <1>18 DEF C!Erase, C!Ended
  <2>2. PageType'
    BY <1>0, <1>a, <2>1 DEF PageType
  <2>3. MembersExist' /\ WaysOut'
    BY <2>1 DEF Pages, MembersExist, WaysOut
  <2>4. at # None => o.to \in C!Dead /\ screen' \in C!Dead
    BY <1>a, <2>1 DEF Pages, WaysOut, Wiping
  <2>5. at # None /\ ~mixed => o.room = at /\ C!Loading(at) \notin ops /\ at \notin member
    BY <2>1, <2>4 DEF Pages, Ends, Wiping
  <2>6. C!DeadScreenIsDead'
    BY <2>1, <2>5 DEF Pages, C!DeadScreenIsDead
  <2>7. LoadsHere'
    BY <1>0, <2>1, <2>5 DEF Pages, LoadsHere
  <2>8. Ends'
    BY <2>1, <2>4, <2>5 DEF Pages, Ends, C!Dead
  <2> QED
    BY <2>2, <2>3, <2>6, <2>7, <2>8 DEF Goal, Pages
<1> QED
  BY <1>1, <1>2, <1>3, <1>4, <1>5, <1>6, <1>7, <1>8, <1>9, <1>10, <1>11, <1>12, <1>13, <1>14,
     <1>15, <1>16, <1>17, <1>18 DEF C!Next, Goal

(* The rooms of a phone, at first and after every step.                     *)
LEMMA ChannelsBegin ==
  ASSUME C!DistinctAssumption, C!Init
  PROVE  ChannelInv
<1>1. PageType /\ MembersExist
  <2>1. /\ exists = C!Channel \ Chat /\ member = {Control} /\ at = None /\ ops = {}
        /\ screen = "INIT" /\ Control \in C!Channel \ Chat
    BY DEF C!Init, C!DistinctAssumption, C!Channel
  <2>2. mixed \in BOOLEAN
    BY Zenon DEF C!Init
  <2> QED
    BY <2>1, <2>2 DEF PageType, MembersExist
<1>2. /\ kept \in [C!Channel -> SUBSET C!Artifact] /\ wiped \subseteq C!Channel
      /\ card \in [C!Channel -> C!Card \cup {None}]
  BY FreshIs DEF C!Init, C!Artifact, C!Local
<1>3. C!TypeOK
  BY <1>1, <1>2 DEF C!TypeOK, PageType
<1>4. Cleared
  BY DEF C!Init, Cleared
<1>5. Kinds
  BY FreshIs DEF C!Init, Kinds
<1>6. LoadsHere /\ WaysOut /\ Ends /\ C!DeadScreenIsDead
  BY DEF C!Init, LoadsHere, WaysOut, Ends, C!DeadScreenIsDead, C!Dead
<1> QED
  BY <1>1, <1>3, <1>4, <1>5, <1>6 DEF ChannelInv

LEMMA ChannelsKept ==
  ASSUME C!DistinctAssumption, ChannelInv, C!Next
  PROVE  ChannelInv'
<1>0. C!TypeOK /\ Cleared /\ Kinds /\ Pages
  BY DEF ChannelInv, Pages
<1>1. card' \in [C!Channel -> C!Card \cup {None}] /\ ListLasts
  BY <1>0, ListKept
<1>2. KeptType' /\ Cleared'
  BY <1>0, ClearedKept
<1>3. PageType' /\ Pages'
  BY <1>0, PagesKept
<1>4. C!TypeOK'
  BY <1>1, <1>2, <1>3 DEF C!TypeOK, KeptType, PageType
<1>5. Kinds'
  BY <1>1 DEF Kinds, ListLasts, Entry
<1> QED
  BY <1>2, <1>3, <1>4, <1>5 DEF ChannelInv, Pages

(* No step takes a name, a kind, a daemon or a title from a room.           *)
LEMMA IdentityStays ==
  ASSUME C!DistinctAssumption, ChannelInv, C!Next, NEW r \in C!Channel,
         card[r] # None, card'[r] # None
  PROVE  /\ card[r].nick = "mine" =>
                card'[r].nick = "mine" \/ \E n \in {None} : C!Rename(r, n)
         /\ card[r].kind # "chat" => card'[r].kind = card[r].kind
         /\ card[r].parent # None => card'[r].parent = card[r].parent
         /\ card[r].auto = "topic" => card'[r].auto = "topic"
<1>0. C!TypeOK /\ Kinds
  BY DEF ChannelInv
<1>1. Lasts(card[r], card'[r]) \/ C!Rename(r, None)
  BY <1>0, ListKept DEF ListLasts
<1>2. CASE Lasts(card[r], card'[r])
  BY <1>2 DEF Lasts
<1>3. CASE C!Rename(r, None)
  <2>1. card[r] \in C!Card
    BY <1>0 DEF C!TypeOK
  <2>2. card'[r] = [card[r] EXCEPT !.nick = None]
    BY <1>0, <1>3 DEF C!Rename, C!TypeOK
  <2>3. /\ card'[r].kind = card[r].kind /\ card'[r].parent = card[r].parent
        /\ card'[r].auto = card[r].auto
    BY <2>1, <2>2 DEF C!Card
  <2> QED
    BY <1>3, <2>3
<1> QED
  BY <1>1, <1>2, <1>3

LEMMA WipedIsGone == Cleared => C!WipeIsComplete
BY DEF Cleared, C!WipeIsComplete
-----------------------------------------------------------------------------
(* Joining.  A page shows a room once one was entered, and a knock that can *)
(* be answered, was answered or is the page's own has a room.               *)
Opened ==
    /\ want.room = live.room
    /\ want.room = None =>
         /\ want = live /\ want.state = "closed" /\ want.token = None
         /\ unwraps = {} /\ pings = {}

Asked ==
    /\ \A k \in Knock : due[k] > 0 \/ eph = k => roomOf[k] \in Room
    /\ \A t \in Token :
         row[t] # "none" => answers[t] \in Knock /\ roomOf[answers[t]] \in Room
    /\ \A t \in wrapping : row[t] # "none"

(* A token that is known for a room was issued for it and posted; and what  *)
(* the phone is using is its stored one, unless it is burned.               *)
Held(t, r) == row[t] # "none" /\ t \notin wrapping /\ RoomOfToken(t) = r
Used(t, r) == Held(t, r) /\ (row[t] = "gone" \/ stored[r] = t)

StoredAreHeld == \A r \in Room : stored[r] # None => Held(stored[r], r)

ActiveIsStored == \A t \in Token : row[t] = "active" => stored[RoomOfToken(t)] = t

PingsAreTrue ==
    \A p \in pings :
        /\ Used(p.token, p.room)
        /\ p.tag # None \/ tag = p.token => p.tag = p.token
        /\ p.answer = "ok" => row[p.token] = "active"
        /\ p.answer = "refused" => row[p.token] = "gone"

(* A token event the page works on is the only one, for the room and the    *)
(* lobby that are shown; nothing knows of its token before it is adopted.   *)
UnwrapsAreOne ==
    /\ \A u, v \in unwraps : u = v
    /\ \A u \in unwraps :
         /\ u.room = want.room /\ Held(u.token, u.room)
         /\ want.state = "lobby" /\ live.state = "lobby"
         /\ u.at = "unwrap" =>
              /\ want.token = None /\ stored[u.room] = None
              /\ row[u.token] # "active" /\ \A p \in pings : p.token # u.token
         /\ u.at = "hash" => want.token = u.token /\ tag = u.token

(* The page has the token it has stored; its tag is that token's, and a     *)
(* running ping effect has it.                                              *)
PageHasStored ==
    /\ want.token # None => stored[want.room] = want.token
    /\ want.state = "in" => want.token # None
    /\ want.state = "lobby" /\ want.token = None => stored[want.room] = None
    /\ live.token # None => Used(live.token, live.room)
    /\ live.state = "lobby" => want.state \in {"lobby", "in"}
    /\ tag # None =>
         /\ want.token = tag
         /\ want.state = "in" \/ live.state = "lobby"
         /\ live.state = "in" => live.token = tag

LobbyIsOpen == lobby => live.state = "lobby"

(* init's ping is alone, tries the stored token, and no tag is about.       *)
InitIsAlone ==
    /\ \A p, q \in OfInit : p = q
    /\ \A p \in OfInit :
         /\ p.room = want.room /\ stored[p.room] = p.token /\ p.tag = None /\ tag = None
         /\ want.state \in {"init", "in"} /\ live.state \in {"init", "in"}

(* A ping the effect waits for is of the page the effect was started with,  *)
(* and one that bears the tag of a page that is in and did not start there. *)
Own == {p \in pings : p.mine /\ ~p.init}
OwnAreLive ==
    \A p \in Own :
        /\ live.state = "in" /\ p.room = live.room /\ p.token = live.token
        /\ p.tag # None => want.state = "in" /\ stored[p.room] = p.token /\ OfInit = {}

Seated ==
    want.state = "in" =>
        row[want.token] = "active" \/ tag = want.token \/ OfInit # {} \/ error

Seats ==
    /\ StoredAreHeld /\ ActiveIsStored /\ PingsAreTrue /\ UnwrapsAreOne /\ PageHasStored
    /\ LobbyIsOpen /\ InitIsAlone /\ OwnAreLive /\ Seated

JoinInv == TypeOK /\ Opened /\ Asked /\ (~crossed => Seats)

LEMMA AbortIs ==
  ASSUME NEW S, S \subseteq Ping
  PROVE  /\ Abort(S) \subseteq Ping
         /\ \A q \in Abort(S) :
              ~q.mine /\ \E p \in S : /\ q.token = p.token /\ q.room = p.room /\ q.tag = p.tag
                                      /\ q.answer = "none" /\ p.answer = "none"
<1>1. ASSUME NEW q \in Abort(S)
      PROVE  /\ q \in Ping /\ ~q.mine
             /\ \E p \in S : /\ q.token = p.token /\ q.room = p.room /\ q.tag = p.tag
                             /\ q.answer = "none" /\ p.answer = "none"
  <2>1. PICK p \in S : p.answer = "none" /\ q = [p EXCEPT !.mine = FALSE]
    BY <1>1 DEF Abort
  <2>2. p \in Ping
    BY <2>1
  <2>3. /\ q \in Ping /\ q.token = p.token /\ q.room = p.room /\ q.tag = p.tag
        /\ q.answer = p.answer
    BY <2>1, <2>2 DEF Ping
  <2>4. ~q.mine
    BY <2>1, <2>2 DEF Ping
  <2> QED
    BY <2>1, <2>3, <2>4
<1> QED
  BY <1>1

LEMMA NewPing ==
  ASSUME NEW t \in Token, NEW r \in Room, NEW g \in Token \cup {None}, NEW i \in BOOLEAN
  PROVE  [token |-> t, room |-> r, tag |-> g, init |-> i, mine |-> TRUE, answer |-> "none"]
           \in Ping
BY DEF Ping

LEMMA AnsweredPing ==
  ASSUME NEW p \in Ping, NEW a \in {"ok", "refused"}
  PROVE  /\ [p EXCEPT !.answer = a] \in Ping
         /\ [p EXCEPT !.answer = a].answer = a
         /\ [p EXCEPT !.answer = a].token = p.token
         /\ [p EXCEPT !.answer = a].room = p.room
         /\ [p EXCEPT !.answer = a].tag = p.tag
         /\ [p EXCEPT !.answer = a].mine <=> p.mine
         /\ [p EXCEPT !.answer = a].init <=> p.init
BY DEF Ping

(* The types of what is not a flag.                                         *)
JoinType ==
    /\ row \in [Token -> {"none", "pending", "active", "gone"}]
    /\ answers \in [Token -> Knock \cup {None}]
    /\ due \in [Knock -> Nat] /\ wrapping \subseteq Token
    /\ roomOf \in [Knock -> Room \cup {None}]
    /\ want \in Page /\ live \in Page
    /\ stored \in [Room -> Token \cup {None}]
    /\ eph \in Knock \cup {None} /\ tag \in Token \cup {None}
    /\ posting \subseteq Knock /\ tries \in 0 .. MaxTry
    /\ jwt \in Room \cup {None}
    /\ unwraps \subseteq [token : Token, room : Room, at : {"unwrap", "hash"}]
    /\ pings \subseteq Ping
    /\ lost \in Nat /\ enters \in Nat

JoinFlags == sent \in BOOLEAN /\ lobby \in BOOLEAN /\ error \in BOOLEAN /\ crossed \in BOOLEAN

LEMMA JoinTypes == TypeOK <=> JoinType /\ JoinFlags
BY Zenon DEF TypeOK, JoinType, JoinFlags

LEMMA JoinFlagsKept ==
  ASSUME JoinFlags, Next
  PROVE  JoinFlags'
<1>0. ASSUME sent' \in BOOLEAN, lobby' \in BOOLEAN, error' \in BOOLEAN, crossed' \in BOOLEAN
      PROVE  JoinFlags'
  BY <1>0, Zenon DEF JoinFlags
<1>a. sent \in BOOLEAN /\ lobby \in BOOLEAN /\ error \in BOOLEAN /\ crossed \in BOOLEAN
  BY Zenon DEF JoinFlags
<1>1. ASSUME NEW t \in Token, NEW k \in Knock, Approve(t, k) PROVE JoinFlags'
  BY <1>0, <1>1, <1>a, Zenon DEF Approve, knocking
<1>2. ASSUME NEW t \in Token, PostToken(t) PROVE JoinFlags'
  <2>1. crossed' = crossed \/ crossed' = (crossed \/ unwraps # {} \/ want.token # None)
    BY <1>2, Zenon DEF PostToken
  <2>2. crossed' \in BOOLEAN
    BY <1>a, <2>1, Zenon
  <2>3. sent' = sent /\ lobby' = lobby /\ error' = error
    BY <1>2, Zenon DEF PostToken, knocking
  <2> QED
    BY <1>0, <1>a, <2>2, <2>3, Zenon
<1>3. ASSUME NEW t \in Token, Forsake(t) PROVE JoinFlags'
  BY <1>0, <1>3, <1>a, Zenon DEF Forsake, knocking
<1>4. ASSUME NEW t \in Token, Prune(t) PROVE JoinFlags'
  BY <1>0, <1>4, <1>a, Zenon DEF Prune, knocking
<1>5. ASSUME NEW r \in Room, Switch(r) PROVE JoinFlags'
  BY <1>0, <1>5, <1>a, Zenon DEF Switch, Enter
<1>6. ASSUME NEW r \in Room, Load(r) PROVE JoinFlags'
  BY <1>0, <1>6, <1>a, Zenon DEF Load, Enter
<1>7. ASSUME NEW k \in Knock, SendKnock(k) PROVE JoinFlags'
  BY <1>0, <1>7, <1>a, Zenon DEF SendKnock
<1>8. ASSUME NEW k \in Knock, KnockAnswered(k) PROVE JoinFlags'
  BY <1>0, <1>8, <1>a, Zenon DEF KnockAnswered
<1>9. ASSUME NEW k \in Knock, KnockFailed(k) PROVE JoinFlags'
  BY <1>0, <1>9, <1>a, Zenon DEF KnockFailed
<1>10. ASSUME Render PROVE JoinFlags'
  BY <1>0, <1>10, <1>a, Zenon DEF Render
<1>11. ASSUME OpenLobby PROVE JoinFlags'
  BY <1>0, <1>11, <1>a, Zenon DEF OpenLobby, knocking
<1>12. ASSUME CloseLobby PROVE JoinFlags'
  BY <1>0, <1>12, <1>a, Zenon DEF CloseLobby, knocking
<1>13. ASSUME Retry PROVE JoinFlags'
  BY <1>0, <1>13, <1>a, Zenon DEF Retry
<1>14. ASSUME Tick PROVE JoinFlags'
  BY <1>0, <1>14, <1>a, Zenon DEF Tick, knocking
<1>15. ASSUME NEW u \in unwraps, Adopt(u) PROVE JoinFlags'
  BY <1>0, <1>15, <1>a, Zenon DEF Adopt
<1>16. ASSUME NEW u \in unwraps, Admit(u) PROVE JoinFlags'
  BY <1>0, <1>16, <1>a, Zenon DEF Admit
<1>17. ASSUME NEW p \in pings, Presence(p) PROVE JoinFlags'
  BY <1>0, <1>17, <1>a, Zenon DEF Presence, knocking
<1>18. ASSUME NEW p \in pings, Recognized(p) PROVE JoinFlags'
  BY <1>0, <1>18, <1>a, Zenon DEF Recognized, knocking
<1>19. ASSUME NEW p \in pings, Unrecognized(p) PROVE JoinFlags'
  BY <1>0, <1>19, <1>a, Zenon DEF Unrecognized, knocking
<1>20. ASSUME NEW p \in pings, Confirmed(p) PROVE JoinFlags'
  BY <1>0, <1>20, <1>a, Zenon DEF Confirmed, knocking
<1>21. ASSUME NEW p \in pings, Wipe(p) PROVE JoinFlags'
  BY <1>0, <1>21, <1>a, Zenon DEF Wipe
<1>22. ASSUME NEW p \in pings, Lose(p) PROVE JoinFlags'
  BY <1>0, <1>22, <1>a, Zenon DEF Lose, knocking
<1> QED
  BY <1>1, <1>2, <1>3, <1>4, <1>5, <1>6, <1>7, <1>8, <1>9, <1>10, <1>11, <1>12, <1>13, <1>14,
     <1>15, <1>16, <1>17, <1>18, <1>19, <1>20, <1>21, <1>22
     DEF Next, Approver, Asking, Answered

(* Types, and the rooms of pages and knocks, after every step.              *)
JoinShape == JoinType /\ Opened /\ Asked

LEMMA ShapeKept ==
  ASSUME NoneAssumption, BoundsAssumption, JoinShape, Next
  PROVE  JoinShape'
<1>0. /\ row \in [Token -> {"none", "pending", "active", "gone"}]
      /\ answers \in [Token -> Knock \cup {None}]
      /\ due \in [Knock -> Nat] /\ wrapping \subseteq Token
      /\ roomOf \in [Knock -> Room \cup {None}]
      /\ want \in Page /\ live \in Page
      /\ stored \in [Room -> Token \cup {None}]
      /\ eph \in Knock \cup {None} /\ tag \in Token \cup {None}
      /\ posting \subseteq Knock /\ tries \in 0 .. MaxTry
      /\ jwt \in Room \cup {None}
      /\ unwraps \subseteq [token : Token, room : Room, at : {"unwrap", "hash"}]
      /\ pings \subseteq Ping
      /\ lost \in Nat /\ enters \in Nat
      /\ None \notin Token /\ None \notin Knock /\ None \notin Room
      /\ {Members, MaxTry} \subseteq Nat
  BY DEF JoinShape, JoinType, NoneAssumption, BoundsAssumption
<1>r. /\ want.room = live.room /\ want.room \in Room \cup {None}
      /\ want.token \in Token \cup {None} /\ live.token \in Token \cup {None}
      /\ want.room = None =>
           want = live /\ want.state = "closed" /\ want.token = None /\ unwraps = {} /\ pings = {}
  BY <1>0 DEF JoinShape, Opened, Page
<1>s. /\ \A k \in Knock : due[k] > 0 \/ eph = k => roomOf[k] \in Room
      /\ \A t \in Token :
           row[t] # "none" => answers[t] \in Knock /\ roomOf[answers[t]] \in Room
      /\ \A t \in wrapping : row[t] # "none"
  BY DEF JoinShape, Asked
<1>p. \A p \in pings : p.token \in Token /\ p.room \in Room /\ p.tag \in Token \cup {None}
  BY <1>0 DEF Ping
<1> DEFINE Goal == JoinShape'
(* The page and its pings alone are touched.                                *)
<1>a. ASSUME UNCHANGED <<row, answers, due, wrapping, roomOf>>,
             want' \in Page, live' \in Page, want'.room = live'.room,
             want'.room # None \/ (want.room = None /\ UNCHANGED <<want, live, unwraps, pings>>),
             stored' \in [Room -> Token \cup {None}],
             eph' \in {eph, None}, tag' \in Token \cup {None},
             posting' \subseteq posting, tries' \in 0 .. MaxTry, jwt' \in Room \cup {None},
             unwraps' \subseteq [token : Token, room : Room, at : {"unwrap", "hash"}],
             pings' \subseteq Ping, lost' \in Nat, enters' \in Nat
      PROVE  Goal
  <2>1. JoinType'
    BY <1>0, <1>a DEF JoinType
  <2>2. Opened'
    BY <1>a, <1>r DEF Opened
  <2>3. Asked'
    BY <1>0, <1>a, <1>s DEF Asked
  <2> QED
    BY <2>1, <2>2, <2>3 DEF JoinShape
(* Nothing of the page but its knocks is touched.                           *)
<1>b. ASSUME UNCHANGED <<want, live, stored, tag, pings, lost, enters>>,
             row' \in [Token -> {"none", "pending", "active", "gone"}],
             answers' \in [Token -> Knock \cup {None}],
             due' \in [Knock -> Nat], wrapping' \subseteq Token,
             roomOf' \in [Knock -> Room \cup {None}], eph' \in Knock \cup {None},
             posting' \subseteq Knock, tries' \in 0 .. MaxTry, jwt' \in Room \cup {None},
             unwraps' \subseteq [token : Token, room : Room, at : {"unwrap", "hash"}],
             unwraps' = unwraps \/ want.room # None, Asked'
      PROVE  Goal
  <2>1. JoinType'
    BY <1>0, <1>b DEF JoinType
  <2>2. Opened'
    BY <1>b, <1>r DEF Opened
  <2> QED
    BY <1>b, <2>1, <2>2 DEF JoinShape
<1> HIDE DEF Goal
<1>1. ASSUME NEW t \in Token, NEW k \in Knock, Approve(t, k) PROVE Goal
  <2>1. /\ row[t] = "none" /\ due[k] > 0
        /\ row' = [row EXCEPT ![t] = "pending"] /\ answers' = [answers EXCEPT ![t] = k]
        /\ due' = [due EXCEPT ![k] = due[k] - 1] /\ wrapping' = wrapping \cup {t}
        /\ UNCHANGED <<roomOf, eph, posting, tries, jwt, want, live, stored, tag, unwraps, pings,
                       lost, enters>>
    BY <1>1 DEF Approve, knocking, bounds
  <2>2. /\ row' \in [Token -> {"none", "pending", "active", "gone"}]
        /\ answers' \in [Token -> Knock \cup {None}]
        /\ wrapping' \subseteq Token
    BY <1>0, <2>1
  <2>3. due' \in [Knock -> Nat] /\ \A i \in Knock : due'[i] > 0 => due[i] > 0
    BY <1>0, <2>1
  <2>4. Asked'
    <3>1. \A i \in Knock : due'[i] > 0 \/ eph' = i => roomOf'[i] \in Room
      BY <1>s, <2>1, <2>3
    <3>2. \A i \in Token : row'[i] # "none" => answers'[i] \in Knock /\ roomOf'[answers'[i]] \in Room
      BY <1>0, <1>s, <2>1
    <3>3. \A i \in wrapping' : row'[i] # "none"
      BY <1>0, <1>s, <2>1
    <3> QED
      BY <3>1, <3>2, <3>3 DEF Asked
  <2> QED
    BY <1>0, <1>b, <2>1, <2>2, <2>3, <2>4
<1>2. ASSUME NEW t \in Token, PostToken(t) PROVE Goal
  <2>1. /\ wrapping' = wrapping \ {t} /\ t \in wrapping
        /\ UNCHANGED <<row, answers, due, roomOf, eph, posting, tries, jwt, want, live, stored,
                       tag, pings, lost, enters>>
        /\ \/ unwraps' = unwraps
           \/ RoomOfToken(t) = live.room
              /\ unwraps' = unwraps \cup {[token |-> t, room |-> live.room, at |-> "unwrap"]}
    BY <1>2 DEF PostToken, knocking, bounds, Heeds
  <2>2. RoomOfToken(t) \in Room
    BY <1>s, <2>1 DEF RoomOfToken
  <2>3. /\ unwraps' \subseteq [token : Token, room : Room, at : {"unwrap", "hash"}]
        /\ unwraps' = unwraps \/ want.room # None
    BY <1>0, <1>r, <2>1, <2>2
  <2>4. Asked'
    BY <1>s, <2>1 DEF Asked
  <2> QED
    BY <1>0, <1>b, <2>1, <2>3, <2>4
<1>3. ASSUME NEW t \in Token, Forsake(t) PROVE Goal
  <2>1. /\ wrapping' = wrapping \ {t}
        /\ UNCHANGED <<row, answers, due, roomOf, eph, posting, tries, jwt, want, live, stored,
                       tag, pings, lost, enters, unwraps>>
    BY <1>3 DEF Forsake, knocking, bounds
  <2>2. Asked'
    BY <1>s, <2>1 DEF Asked
  <2> QED
    BY <1>0, <1>b, <2>1, <2>2
<1>4. ASSUME NEW t \in Token, Prune(t) PROVE Goal
  <2>1. /\ row' = [row EXCEPT ![t] = "gone"] /\ row[t] = "pending"
        /\ UNCHANGED <<answers, due, wrapping, roomOf, eph, posting, tries, jwt, want, live,
                       stored, tag, pings, lost, enters, unwraps>>
    BY <1>4 DEF Prune, knocking, bounds
  <2>2. /\ row' \in [Token -> {"none", "pending", "active", "gone"}]
        /\ \A i \in Token : row'[i] # "none" <=> row[i] # "none"
    BY <1>0, <2>1
  <2>3. Asked'
    BY <1>0, <1>s, <2>1, <2>2 DEF Asked
  <2> QED
    BY <1>0, <1>b, <2>1, <2>2, <2>3
<1>5. ASSUME NEW r \in Room, Switch(r) \/ Load(r) PROVE Goal
  <2>1. PICK entry : /\ entry \in Page /\ entry.room = r /\ Enter(r, entry)
                     /\ entry.state = "in" => stored[r] # None
    <3>1. CASE Switch(r)
      <4>1. [room |-> r, state |-> IF stored[r] = None THEN "lobby" ELSE "init",
             token |-> None] \in Page
        BY DEF Page
      <4> QED
        BY <3>1, <4>1 DEF Switch
    <3>2. CASE Load(r)
      <4>1. [room |-> r, state |-> IF stored[r] = None THEN "lobby" ELSE "in",
             token |-> stored[r]] \in Page
        BY <1>0 DEF Page
      <4> QED
        BY <3>2, <4>1 DEF Load
    <3> QED
      BY <1>5, <3>1, <3>2
  <2>2. posting' \subseteq posting /\ unwraps' \subseteq unwraps
    BY <1>5 DEF Switch, Load
  <2>3. /\ want' = entry /\ live' = entry /\ enters' = enters + 1
        /\ pings' = Abort(pings)
            \cup (IF stored[r] = None THEN {} ELSE {PingOf(r, stored[r], TRUE)})
            \cup (IF entry.state # "in" THEN {} ELSE {PingOf(r, stored[r], FALSE)})
        /\ eph' = None /\ tag' = None /\ jwt' = None /\ tries' = 0
        /\ UNCHANGED <<row, answers, due, wrapping, roomOf, stored, lost>>
    BY <2>1 DEF Enter, relay
  <2>4. stored[r] # None =>
          \A i \in BOOLEAN : PingOf(r, stored[r], i) \in Ping
    BY <1>0, NewPing DEF PingOf
  <2>5. pings' \subseteq Ping
    BY <1>0, <2>1, <2>3, <2>4, AbortIs
  <2>6. /\ tries' \in 0 .. MaxTry /\ enters' \in Nat
    BY <1>0, <2>3
  <2> QED
    BY <1>0, <1>a, <2>1, <2>2, <2>3, <2>5, <2>6
<1>6. ASSUME NEW k \in Knock, SendKnock(k) PROVE Goal
  <2>1. /\ live.state = "lobby" /\ roomOf[k] = None
        /\ roomOf' = [roomOf EXCEPT ![k] = live.room]
        /\ eph' = k /\ posting' = posting \cup {k}
        /\ due' = [due EXCEPT ![k] = Members]
        /\ UNCHANGED <<row, answers, wrapping, want, live, stored, tries, jwt, tag, unwraps,
                       pings, lost, enters>>
    BY <1>6 DEF SendKnock, bounds
  <2>2. live.room \in Room
    BY <1>r, <2>1
  <2>3. /\ roomOf' \in [Knock -> Room \cup {None}] /\ due' \in [Knock -> Nat]
        /\ posting' \subseteq Knock
    BY <1>0, <2>1, <2>2
  <2>4. \A i \in Knock : roomOf'[i] = (IF i = k THEN live.room ELSE roomOf[i])
                         /\ (i # k => due'[i] = due[i])
    BY <1>0, <2>1
  <2>5. Asked'
    <3>1. \A i \in Knock : due'[i] > 0 \/ eph' = i => roomOf'[i] \in Room
      BY <1>s, <2>1, <2>2, <2>4
    <3>2. \A i \in Token : row'[i] # "none" => answers'[i] \in Knock /\ roomOf'[answers'[i]] \in Room
      BY <1>0, <1>s, <2>1, <2>2, <2>4
    <3> QED
      BY <1>s, <2>1, <3>1, <3>2 DEF Asked
  <2> QED
    BY <1>0, <1>b, <2>1, <2>3, <2>5
<1>7. ASSUME NEW k \in Knock, KnockAnswered(k) PROVE Goal
  <2>1. /\ posting' = posting \ {k} /\ jwt' = roomOf[k]
        /\ tries' \in {tries, 0}
        /\ UNCHANGED <<row, answers, due, wrapping, roomOf, eph, want, live, stored, tag,
                       unwraps, pings, lost, enters>>
    BY <1>7 DEF KnockAnswered, relay, bounds
  <2>2. jwt' \in Room \cup {None} /\ tries' \in 0 .. MaxTry
    BY <1>0, <2>1
  <2> QED
    BY <1>0, <1>a, <1>r, <2>1, <2>2
<1>8. ASSUME NEW k \in Knock, KnockFailed(k) PROVE Goal
  <2>1. /\ posting' = posting \ {k} /\ eph' = None /\ lost' = lost + 1
        /\ UNCHANGED <<row, answers, due, wrapping, roomOf, tries, jwt, want, live, stored, tag,
                       unwraps, pings, enters>>
    BY <1>8 DEF KnockFailed, relay
  <2>2. lost' \in Nat
    BY <1>0, <2>1
  <2> QED
    BY <1>0, <1>a, <1>r, <2>1, <2>2
<1>9. ASSUME Render PROVE Goal
  <2>1. /\ want # live /\ live' = want /\ want' = want /\ tries' = 0
        /\ pings' = (IF live.state = "in" THEN OfInit \cup Abort(pings \ OfInit) ELSE pings) \cup
                (IF want.state = "in" /\ want.token # None
                 THEN {[token |-> want.token, room |-> want.room, tag |-> tag,
                        init |-> FALSE, mine |-> TRUE, answer |-> "none"]}
                 ELSE {})
        /\ UNCHANGED <<row, answers, due, wrapping, roomOf, eph, posting, jwt, stored, tag,
                       unwraps, lost, enters>>
    BY <1>9 DEF Render, relay, bounds
  <2>2. OfInit \subseteq Ping
    BY <1>0 DEF OfInit
  <2>3. Abort(pings \ OfInit) \subseteq Ping
    BY <1>0, AbortIs
  <2>4. want.state = "in" /\ want.token # None =>
          [token |-> want.token, room |-> want.room, tag |-> tag,
           init |-> FALSE, mine |-> TRUE, answer |-> "none"] \in Ping
    BY <1>0, <1>r, NewPing
  <2>5. pings' \subseteq Ping
    BY <1>0, <2>1, <2>2, <2>3, <2>4
  <2>6. want.room # None
    BY <1>r, <2>1
  <2>7. tries' \in 0 .. MaxTry
    BY <1>0, <2>1
  <2> QED
    BY <1>0, <1>a, <1>r, <2>1, <2>5, <2>6, <2>7
<1>10. ASSUME OpenLobby \/ CloseLobby PROVE Goal
  <2>1. /\ lost' \in {lost, lost + 1}
        /\ UNCHANGED <<row, answers, due, wrapping, roomOf, eph, posting, tries, jwt, want, live,
                       stored, tag, unwraps, pings, enters>>
    BY <1>10 DEF OpenLobby, CloseLobby, relay, knocking, bounds
  <2>2. lost' \in Nat
    BY <1>0, <2>1
  <2> QED
    BY <1>0, <1>a, <1>r, <2>1, <2>2
<1>11. ASSUME Retry PROVE Goal
  <2>1. /\ eph # None /\ tries < MaxTry /\ tries' = tries + 1
        /\ due' = [due EXCEPT ![eph] = due[eph] + Members]
        /\ UNCHANGED <<row, answers, wrapping, roomOf, eph, posting, jwt, want, live, stored,
                       tag, unwraps, pings, lost, enters>>
    BY <1>11 DEF Retry, bounds
  <2>2. tries' \in 0 .. MaxTry
    BY <1>0, <2>1
  <2>3. due' \in [Knock -> Nat] /\ \A i \in Knock : i # eph => due'[i] = due[i]
    BY <1>0, <2>1
  <2>4. Asked'
    BY <1>0, <1>s, <2>1, <2>3 DEF Asked
  <2> QED
    BY <1>0, <1>b, <2>1, <2>2, <2>3, <2>4
<1>12. ASSUME Tick PROVE Goal
  <2>1. /\ live.state = "in" /\ live.token # None
        /\ pings' = pings \cup {[token |-> live.token, room |-> live.room, tag |-> tag,
                                 init |-> FALSE, mine |-> TRUE, answer |-> "none"]}
        /\ UNCHANGED <<row, answers, due, wrapping, roomOf, eph, posting, tries, jwt, want, live,
                       stored, tag, unwraps, lost, enters>>
    BY <1>12 DEF Tick, relay, knocking, bounds
  <2>2. live.room \in Room /\ want.room # None
    BY <1>r, <2>1
  <2>3. [token |-> live.token, room |-> live.room, tag |-> tag,
         init |-> FALSE, mine |-> TRUE, answer |-> "none"] \in Ping
    BY <1>0, <1>r, <2>1, <2>2, NewPing
  <2>4. pings' \subseteq Ping
    BY <1>0, <2>1, <2>3
  <2> QED
    BY <1>0, <1>a, <1>r, <2>1, <2>2, <2>4
<1>13. ASSUME NEW u \in unwraps, Adopt(u) \/ Admit(u) PROVE Goal
  <2>1. /\ u.token \in Token /\ u.room \in Room
        /\ [u EXCEPT !.at = "hash"] \in [token : Token, room : Room, at : {"unwrap", "hash"}]
    BY <1>0
  <2>2. want.room # None
    BY <1>r, <1>13
  <2>3. CASE Adopt(u)
    <3>1. /\ unwraps' = (unwraps \ {u}) \cup {[u EXCEPT !.at = "hash"]}
          /\ eph' = None /\ tag' = u.token
          /\ stored' = [stored EXCEPT ![u.room] = u.token]
          /\ want' = [want EXCEPT !.token = u.token]
          /\ UNCHANGED <<row, answers, due, wrapping, roomOf, posting, tries, jwt, live, pings,
                         lost, enters>>
      BY <2>3 DEF Adopt, relay, bounds
    <3>2. want' \in Page /\ want'.room = want.room
      BY <1>0, <2>1, <3>1 DEF Page
    <3>3. /\ stored' \in [Room -> Token \cup {None}]
          /\ unwraps' \subseteq [token : Token, room : Room, at : {"unwrap", "hash"}]
      BY <1>0, <2>1, <3>1
    <3> QED
      BY <1>0, <1>a, <1>r, <2>1, <2>2, <3>1, <3>2, <3>3
  <2>4. CASE Admit(u)
    <3>1. /\ unwraps' = unwraps \ {u} /\ jwt' = None
          /\ want' = [want EXCEPT !.state = "in"]
          /\ UNCHANGED <<row, answers, due, wrapping, roomOf, eph, posting, tries, live, stored,
                         tag, pings, lost, enters>>
      BY <2>4 DEF Admit, relay, bounds
    <3>2. want' \in Page /\ want'.room = want.room
      BY <1>0, <3>1 DEF Page
    <3> QED
      BY <1>0, <1>a, <1>r, <2>2, <3>1, <3>2
  <2> QED
    BY <1>13, <2>3, <2>4
<1>14. ASSUME NEW p \in pings, Presence(p) PROVE Goal
  <2>1. /\ \E s \in {"none", "pending", "active", "gone"} :
             /\ row' = [row EXCEPT ![p.token] = s]
             /\ s # "none" <=> row[p.token] # "none"
        /\ \E a \in {"ok", "refused"} :
             pings' = (pings \ {p}) \cup (IF p.mine THEN {[p EXCEPT !.answer = a]} ELSE {})
        /\ UNCHANGED <<answers, due, wrapping, roomOf, eph, posting, tries, jwt, want, live,
                       stored, tag, unwraps, lost, enters>>
    <3>1. row[p.token] \in {"none", "pending", "active", "gone"}
      BY <1>0, <1>p
    <3>2. PICK s : s = IF row[p.token] = "pending" /\ RoomOfToken(p.token) = p.room
                       THEN (IF Verdict(p) = "ok" THEN "active" ELSE "gone") ELSE row[p.token]
      OBVIOUS
    <3>3. row' = [row EXCEPT ![p.token] = s]
      BY <1>14, <3>2 DEF Presence
    <3>4. s \in {"none", "pending", "active", "gone"} /\ (s # "none" <=> row[p.token] # "none")
      BY <3>1, <3>2
    <3>5. Verdict(p) \in {"ok", "refused"}
      BY DEF Verdict
    <3>6. pings' = (pings \ {p}) \cup (IF p.mine THEN {[p EXCEPT !.answer = Verdict(p)]} ELSE {})
      BY <1>14, Zenon DEF Presence
    <3>7. UNCHANGED <<answers, due, wrapping, roomOf, eph, posting, tries, jwt, want, live,
                      stored, tag, unwraps, lost, enters>>
      BY <1>14 DEF Presence, knocking, bounds
    <3> QED
      BY <3>3, <3>4, <3>5, <3>6, <3>7
  <2>2. PICK s \in {"none", "pending", "active", "gone"} :
             /\ row' = [row EXCEPT ![p.token] = s]
             /\ s # "none" <=> row[p.token] # "none"
    BY <2>1
  <2>3. /\ row' \in [Token -> {"none", "pending", "active", "gone"}]
        /\ \A i \in Token : row'[i] # "none" <=> row[i] # "none"
    BY <1>0, <1>p, <2>2
  <2>4. Asked'
    BY <1>0, <1>s, <2>1, <2>3 DEF Asked
  <2>5. pings' \subseteq Ping
    <3>1. PICK a \in {"ok", "refused"} :
             pings' = (pings \ {p}) \cup (IF p.mine THEN {[p EXCEPT !.answer = a]} ELSE {})
      BY <2>1
    <3>2. [p EXCEPT !.answer = a] \in Ping
      BY <1>0, AnsweredPing
    <3> QED
      BY <1>0, <3>1, <3>2
  <2>6. JoinType'
    BY <1>0, <2>1, <2>3, <2>5 DEF JoinType
  <2>7. Opened'
    BY <1>14, <1>r, <2>1 DEF Opened
  <2> QED
    BY <2>4, <2>6, <2>7 DEF JoinShape, Goal
<1>15. ASSUME NEW p \in pings, Answered(p) \/ Lose(p) PROVE Goal
  <2>0. want.room # None /\ p \in Ping
    BY <1>0, <1>r, <1>15
  <2>1. /\ want' \in {want, [want EXCEPT !.state = "in", !.token = p.token],
                      [want EXCEPT !.state = "lobby", !.token = None],
                      [want EXCEPT !.state = "destroyed", !.token = None]}
        /\ stored' \in {stored, [stored EXCEPT ![p.room] = None]}
        /\ pings' = pings \ {p} \/ pings' = OfInit \cup Abort(pings \ OfInit)
        /\ tag' \in {tag, None} /\ jwt' \in {jwt, None}
        /\ lost' \in {lost, lost + 1}
        /\ UNCHANGED <<row, answers, due, wrapping, roomOf, eph, posting, tries, live,
                       unwraps, enters>>
    BY <1>15 DEF Answered, Recognized, Unrecognized, Confirmed, Wipe, Lose, relay, knocking,
                 bounds
  <2>2. want' \in Page /\ want'.room = want.room
    BY <1>0, <1>p, <2>1 DEF Page
  <2>3. stored' \in [Room -> Token \cup {None}] /\ lost' \in Nat
    BY <1>0, <1>p, <2>1
  <2>4. OfInit \subseteq Ping /\ Abort(pings \ OfInit) \subseteq Ping
    BY <1>0, AbortIs DEF OfInit
  <2>5. pings' \subseteq Ping
    BY <1>0, <2>1, <2>4
  <2> QED
    BY <1>0, <1>a, <1>r, <2>0, <2>1, <2>2, <2>3, <2>5
<1> QED
  BY <1>1, <1>2, <1>3, <1>4, <1>5, <1>6, <1>7, <1>8, <1>9, <1>10, <1>11, <1>12, <1>13, <1>14,
     <1>15 DEF Next, Approver, Asking, Goal

(* The relay goes on without the page: rows are made and pruned, members    *)
(* wrap tokens or give up, the page knocks and its lobby opens and closes.  *)
RelayAlone ==
    \A t \in Token :
        /\ row[t] \in {"active", "gone"} => row'[t] = row[t]
        /\ row[t] = "pending" => row'[t] \in {"pending", "gone"}
        /\ row[t] = "none" => row'[t] \in {"none", "pending"}
        /\ row[t] # "none" =>
             roomOf'[answers'[t]] = roomOf[answers[t]] /\ (t \in wrapping' => t \in wrapping)

LEMMA HeldStays ==
  ASSUME JoinShape, RelayAlone, NEW t \in Token, NEW r, Held(t, r)
  PROVE  Held(t, r)'
<1>1. row[t] \in {"none", "pending", "active", "gone"}
  BY DEF JoinShape, JoinType
<1> QED
  BY <1>1 DEF Held, RelayAlone, RoomOfToken

LEMMA SeatsStill ==
  ASSUME NoneAssumption, JoinShape, Seats, RelayAlone,
         UNCHANGED <<want, live, stored, tag, unwraps, pings>>, error' <=> error,
         lobby' => lobby \/ live.state = "lobby"
  PROVE  Seats'
<1>0. /\ row \in [Token -> {"none", "pending", "active", "gone"}]
      /\ want \in Page /\ live \in Page
      /\ stored \in [Room -> Token \cup {None}]
      /\ unwraps \subseteq [token : Token, room : Room, at : {"unwrap", "hash"}]
      /\ pings \subseteq Ping /\ None \notin Token /\ want.room = live.room
      /\ want.token \in Token \cup {None} /\ live.token \in Token \cup {None}
      /\ \A p \in pings : p.token \in Token
  BY DEF JoinShape, JoinType, NoneAssumption, Opened, Page, Ping
<1>1. StoredAreHeld'
  <2> SUFFICES ASSUME NEW r \in Room, stored[r] # None PROVE Held(stored[r], r)'
    BY DEF StoredAreHeld
  <2> QED
    BY <1>0, HeldStays DEF Seats, StoredAreHeld
<1>2. ActiveIsStored'
  BY <1>0 DEF Seats, ActiveIsStored, RelayAlone, RoomOfToken
<1>3. PingsAreTrue'
  <2> SUFFICES ASSUME NEW p \in pings
               PROVE  /\ Used(p.token, p.room)'
                      /\ p.tag # None \/ tag = p.token => p.tag = p.token
                      /\ p.answer = "ok" => row'[p.token] = "active"
                      /\ p.answer = "refused" => row'[p.token] = "gone"
    BY DEF PingsAreTrue
  <2>1. Used(p.token, p.room) /\ p.token \in Token
    BY <1>0 DEF Seats, PingsAreTrue
  <2>2. Used(p.token, p.room)'
    BY <2>1, HeldStays DEF Used, RelayAlone
  <2> QED
    BY <2>1, <2>2 DEF Seats, PingsAreTrue, RelayAlone
<1>4. UnwrapsAreOne'
  <2>1. ASSUME NEW u \in unwraps
        PROVE  /\ u.room = want.room /\ Held(u.token, u.room)'
               /\ want.state = "lobby" /\ live.state = "lobby"
               /\ u.at = "unwrap" =>
                    /\ want.token = None /\ stored[u.room] = None
                    /\ row'[u.token] # "active" /\ \A p \in pings : p.token # u.token
               /\ u.at = "hash" => want.token = u.token /\ tag = u.token
    <3>1. u.token \in Token /\ Held(u.token, u.room) /\ row[u.token] # "none"
      BY <1>0 DEF Seats, UnwrapsAreOne, Held
    <3>2. Held(u.token, u.room)'
      BY <3>1, HeldStays
    <3>3. row[u.token] # "active" => row'[u.token] # "active"
      BY <1>0, <3>1 DEF RelayAlone
    <3> QED
      BY <3>2, <3>3 DEF Seats, UnwrapsAreOne
  <2> QED
    BY <2>1 DEF Seats, UnwrapsAreOne
<1>5. PageHasStored'
  <2>1. live.token # None => Used(live.token, live.room)'
    BY <1>0, HeldStays DEF Seats, PageHasStored, Used, RelayAlone
  <2> QED
    BY <2>1 DEF Seats, PageHasStored
<1>6. LobbyIsOpen'
  BY DEF Seats, LobbyIsOpen
<1>7. OfInit' = OfInit /\ Own' = Own
  BY DEF OfInit, Own
<1>8. InitIsAlone' /\ OwnAreLive'
  BY <1>7 DEF Seats, InitIsAlone, OwnAreLive
<1>9. Seated'
  BY <1>0, <1>7 DEF Seats, Seated, RelayAlone, PageHasStored
<1> QED
  BY <1>1, <1>2, <1>3, <1>4, <1>5, <1>6, <1>8, <1>9 DEF Seats

(* What is used of the shapes of things below.                              *)
LEMMA ShapeGives ==
  ASSUME NoneAssumption, JoinShape
  PROVE  /\ row \in [Token -> {"none", "pending", "active", "gone"}]
         /\ want \in Page /\ live \in Page
         /\ stored \in [Room -> Token \cup {None}]
         /\ unwraps \subseteq [token : Token, room : Room, at : {"unwrap", "hash"}]
         /\ pings \subseteq Ping /\ None \notin Token /\ None \notin Room
         /\ want.room = live.room /\ want.room \in Room \cup {None}
         /\ want.token \in Token \cup {None} /\ live.token \in Token \cup {None}
         /\ tag \in Token \cup {None} /\ wrapping \subseteq Token
         /\ (pings # {} \/ unwraps # {} \/ want.state # "closed") => want.room \in Room
         /\ \A p \in pings : p.token \in Token /\ p.room \in Room /\ p.tag \in Token \cup {None}
BY DEF JoinShape, JoinType, NoneAssumption, Opened, Page, Ping

(* A ping is served: what it bears is what the relay makes of its token.    *)
LEMMA SeatsServed ==
  ASSUME NoneAssumption, JoinShape, Seats, NEW p \in pings, Presence(p)
  PROVE  Seats' /\ (row[p.token] = "pending" /\ row'[p.token] = "gone" => tag # p.token)
<1>0. /\ row \in [Token -> {"none", "pending", "active", "gone"}]
      /\ stored \in [Room -> Token \cup {None}] /\ None \notin Token
      /\ pings \subseteq Ping /\ p \in Ping /\ p.token \in Token
      /\ want.token \in Token \cup {None} /\ live.token \in Token \cup {None}
      /\ unwraps \subseteq [token : Token, room : Room, at : {"unwrap", "hash"}]
      /\ \A q \in pings : q.token \in Token
  BY ShapeGives
<1>1. /\ Used(p.token, p.room) /\ RoomOfToken(p.token) = p.room
      /\ p.tag # None \/ tag = p.token => p.tag = p.token
      /\ row[p.token] \in {"pending", "active", "gone"}
  BY <1>0 DEF Seats, PingsAreTrue, Used, Held
<1>2. PICK v : v = Verdict(p)
  OBVIOUS
<1>3. /\ v = "ok" \/ v = "refused"
      /\ v = "ok" <=> row[p.token] = "active" \/ (row[p.token] = "pending" /\ p.tag = p.token)
  BY <1>1, <1>2 DEF Verdict
<1>4. PICK s : s = IF v = "ok" THEN "active" ELSE "gone"
  OBVIOUS
<1>5. row' = [row EXCEPT ![p.token] = s]
  <2>1. row' = [row EXCEPT ![p.token] =
                  IF row[p.token] = "pending" /\ RoomOfToken(p.token) = p.room
                  THEN (IF Verdict(p) = "ok" THEN "active" ELSE "gone") ELSE row[p.token]]
    BY DEF Presence
  <2> QED
    BY <1>1, <1>2, <1>3, <1>4, <2>1
<1>6. /\ UNCHANGED <<answers, wrapping, roomOf, want, live, stored, tag, unwraps>>
      /\ error' = error /\ lobby' = lobby
  BY DEF Presence, knocking
<1>7. /\ \A t \in Token : t # p.token => row'[t] = row[t]
      /\ row'[p.token] = s
  BY <1>0, <1>5
<1>8. /\ \A t \in Token : row[t] = "active" => row'[t] = "active"
      /\ \A t \in Token : row[t] = "gone" => row'[t] = "gone"
  BY <1>0, <1>1, <1>3, <1>4, <1>7
<1>9. \A t \in Token : \A r : (Held(t, r) => Held(t, r)') /\ (Used(t, r) => Used(t, r)')
  BY <1>0, <1>1, <1>3, <1>4, <1>6, <1>7, <1>8 DEF Held, Used, RoomOfToken
<1>10. PICK a : a = [p EXCEPT !.answer = v]
  OBVIOUS
<1>11. /\ a.answer = v /\ a.token = p.token /\ a.room = p.room /\ a.tag = p.tag
       /\ a.mine <=> p.mine
       /\ a.init <=> p.init
  BY <1>0, <1>3, <1>10, AnsweredPing
<1>12. /\ pings' = (pings \ {p}) \cup (IF p.mine THEN {a} ELSE {})
  BY <1>2, <1>10, Zenon DEF Presence
<1>13. /\ \A q \in pings' : q = a \/ q \in pings
       /\ \A q \in pings' : q # a => q \in pings \ {p}
       /\ p.mine => a \in pings'
       /\ \A q \in pings : q # p => q \in pings'
  BY <1>12
<1>14. StoredAreHeld'
  BY <1>0, <1>6, <1>9 DEF Seats, StoredAreHeld
<1>15. ActiveIsStored'
  <2> SUFFICES ASSUME NEW t \in Token, row'[t] = "active" PROVE stored[RoomOfToken(t)'] = t
    BY <1>6 DEF ActiveIsStored
  <2>1. RoomOfToken(t)' = RoomOfToken(t)
    BY <1>6 DEF RoomOfToken
  <2>2. row[t] = "active" \/ (t = p.token /\ row[t] # "gone")
    BY <1>1, <1>3, <1>4, <1>7
  <2> QED
    BY <1>1, <2>1, <2>2 DEF Seats, ActiveIsStored, Used
<1>16. PingsAreTrue'
  <2> SUFFICES ASSUME NEW q \in pings'
               PROVE  /\ Used(q.token, q.room)'
                      /\ q.tag # None \/ tag = q.token => q.tag = q.token
                      /\ q.answer = "ok" => row'[q.token] = "active"
                      /\ q.answer = "refused" => row'[q.token] = "gone"
    BY <1>6 DEF PingsAreTrue
  <2>1. CASE q \in pings
    BY <1>0, <1>8, <1>9, <2>1 DEF Seats, PingsAreTrue
  <2>2. CASE q = a
    BY <1>0, <1>1, <1>3, <1>4, <1>7, <1>9, <1>11, <2>2
  <2> QED
    BY <1>13, <2>1, <2>2
<1>17. UnwrapsAreOne'
  <2>1. ASSUME NEW u \in unwraps
        PROVE  /\ Held(u.token, u.room)'
               /\ u.at = "unwrap" =>
                    row'[u.token] # "active" /\ \A q \in pings' : q.token # u.token
    <3>1. u.token \in Token /\ Held(u.token, u.room)
      BY <1>0 DEF Seats, UnwrapsAreOne
    <3>2. u.at = "unwrap" => row[u.token] # "active" /\ \A q \in pings : q.token # u.token
      BY DEF Seats, UnwrapsAreOne
    <3>3. u.at = "unwrap" => row'[u.token] # "active" /\ \A q \in pings' : q.token # u.token
      BY <1>7, <1>11, <1>13, <3>1, <3>2
    <3> QED
      BY <1>9, <3>1, <3>3
  <2> QED
    BY <1>6, <2>1 DEF Seats, UnwrapsAreOne
<1>18. PageHasStored' /\ LobbyIsOpen'
  BY <1>0, <1>6, <1>9 DEF Seats, PageHasStored, LobbyIsOpen
<1>19. /\ \A q \in OfInit' : q \in OfInit \ {p} \/ (q = a /\ p \in OfInit)
       /\ \A q \in Own' : q \in Own \/ (q = a /\ p \in Own)
       /\ p \in OfInit => a \in OfInit'
       /\ \A q \in OfInit : q # p => q \in OfInit'
  BY <1>11, <1>13 DEF OfInit, Own
<1>20. OfInit' = {} <=> OfInit = {}
  BY <1>19
<1>21. InitIsAlone'
  <2>1. \A q \in OfInit' : \E o \in OfInit :
           q.room = o.room /\ q.token = o.token /\ q.tag = o.tag
    BY <1>11, <1>19
  <2>2. \A q, o \in OfInit' : q = o
    BY <1>19 DEF Seats, InitIsAlone
  <2> QED
    BY <1>6, <2>1, <2>2 DEF Seats, InitIsAlone
<1>22. OwnAreLive'
  <2>1. \A q \in Own' : \E o \in Own :
           q.room = o.room /\ q.token = o.token /\ q.tag = o.tag
    BY <1>11, <1>19
  <2> QED
    BY <1>6, <1>20, <2>1 DEF Seats, OwnAreLive
<1>23. Seated'
  BY <1>0, <1>6, <1>8, <1>20 DEF Seats, Seated, PageHasStored
<1>24. row[p.token] = "pending" /\ row'[p.token] = "gone" => tag # p.token
  BY <1>1, <1>3, <1>4, <1>7
<1> QED
  BY <1>14, <1>15, <1>16, <1>17, <1>18, <1>21, <1>22, <1>23, <1>24 DEF Seats

(* While the relay and its tokens are as they were, so is what is held.     *)
LEMMA HeldSame ==
  ASSUME UNCHANGED <<row, answers, wrapping, roomOf>>
  PROVE  /\ \A t \in Token : \A r : Held(t, r)' <=> Held(t, r)
         /\ \A t \in Token : RoomOfToken(t)' = RoomOfToken(t)
         /\ UNCHANGED stored => \A t \in Token : \A r : Used(t, r)' <=> Used(t, r)
BY DEF Held, Used, RoomOfToken

(* A room is entered: all that was under way is no longer the page's, and   *)
(* what is new tries the token that is stored.                              *)
LEMMA SeatsEntered ==
  ASSUME NoneAssumption, JoinShape, Seats, NEW r \in Room, NEW entry, Enter(r, entry),
         entry.room = r, unwraps' = {},
         \/ entry.state = "lobby" /\ entry.token = None /\ stored[r] = None
         \/ entry.state = "init" /\ entry.token = None /\ stored[r] # None
         \/ entry.state = "in" /\ entry.token = stored[r] /\ stored[r] # None
  PROVE  Seats'
<1>0. /\ row \in [Token -> {"none", "pending", "active", "gone"}]
      /\ stored \in [Room -> Token \cup {None}] /\ None \notin Token
      /\ pings \subseteq Ping
      /\ \A p \in pings : p.token \in Token
  BY ShapeGives
<1>1. /\ want' = entry /\ live' = entry /\ tag' = None
      /\ UNCHANGED <<row, answers, wrapping, roomOf, stored>>
      /\ pings' = Abort(pings)
          \cup (IF stored[r] = None THEN {} ELSE {PingOf(r, stored[r], TRUE)})
          \cup (IF entry.state # "in" THEN {} ELSE {PingOf(r, stored[r], FALSE)})
  BY DEF Enter, relay
<1>2. ~lobby'
  BY Zenon DEF Enter
<1>3. PICK i : i = PingOf(r, stored[r], TRUE)
  OBVIOUS
<1>4. PICK j : j = PingOf(r, stored[r], FALSE)
  OBVIOUS
<1>5. /\ i.token = stored[r] /\ i.room = r /\ i.tag = None /\ i.answer = "none"
      /\ j.token = stored[r] /\ j.room = r /\ j.tag = None /\ j.answer = "none"
  BY <1>3, <1>4 DEF PingOf
<1>6. i.mine /\ i.init /\ j.mine /\ ~j.init
  BY <1>3, <1>4 DEF PingOf
<1>7. \A p \in pings' : \/ p \in Abort(pings)
                        \/ p = i /\ stored[r] # None
                        \/ p = j /\ entry.state = "in" /\ stored[r] # None
  BY <1>1, <1>3, <1>4
<1>8. \A p \in Abort(pings) :
        ~p.mine /\ \E q \in pings : /\ p.token = q.token /\ p.room = q.room /\ p.tag = q.tag
                                    /\ p.answer = "none" /\ q.answer = "none"
  BY <1>0, AbortIs
<1>9. stored[r] # None => i \in pings'
  BY <1>1, <1>3
<1>10. \A p \in OfInit' : p = i /\ stored[r] # None
  BY <1>6, <1>7, <1>8 DEF OfInit
<1>11. stored[r] # None => OfInit' # {}
  BY <1>6, <1>9 DEF OfInit
<1>12. \A p \in Own' : p = j /\ entry.state = "in"
  BY <1>6, <1>7, <1>8 DEF Own
<1>13. StoredAreHeld' /\ ActiveIsStored'
  BY <1>0, <1>1, HeldSame DEF Seats, StoredAreHeld, ActiveIsStored
<1>14. PingsAreTrue'
  <2> SUFFICES ASSUME NEW p \in pings'
               PROVE  /\ Used(p.token, p.room)'
                      /\ p.tag # None \/ tag' = p.token => p.tag = p.token
                      /\ p.answer = "ok" => row'[p.token] = "active"
                      /\ p.answer = "refused" => row'[p.token] = "gone"
    BY DEF PingsAreTrue
  <2>1. CASE p \in Abort(pings)
    <3>1. PICK q \in pings : /\ p.token = q.token /\ p.room = q.room /\ p.tag = q.tag
                             /\ p.answer = "none"
      BY <1>8, <2>1
    <3>2. /\ Used(q.token, q.room) /\ q.token \in Token
          /\ q.tag # None => q.tag = q.token
      BY <1>0 DEF Seats, PingsAreTrue
    <3> QED
      BY <1>0, <1>1, <3>1, <3>2, HeldSame
  <2>2. CASE (p = i \/ p = j) /\ stored[r] # None
    <3>1. stored[r] \in Token /\ Held(stored[r], r)
      BY <1>0, <2>2 DEF Seats, StoredAreHeld
    <3>2. Used(stored[r], r)'
      BY <1>1, <3>1, HeldSame DEF Used
    <3> QED
      BY <1>0, <1>1, <1>5, <2>2, <3>1, <3>2
  <2> QED
    BY <1>7, <2>1, <2>2
<1>15. UnwrapsAreOne'
  BY DEF UnwrapsAreOne
<1>16. PageHasStored'
  <2>1. entry.token # None => Used(entry.token, r)'
    <3>1. ASSUME entry.token # None PROVE Used(entry.token, r)'
      <4>1. entry.token = stored[r] /\ stored[r] \in Token /\ Held(stored[r], r)
        BY <1>0, <3>1 DEF Seats, StoredAreHeld
      <4> QED
        BY <1>1, <4>1, HeldSame DEF Used
    <3> QED
      BY <3>1
  <2> QED
    BY <1>1, <2>1 DEF PageHasStored
<1>17. LobbyIsOpen'
  BY <1>2 DEF LobbyIsOpen
<1>18. InitIsAlone'
  BY <1>1, <1>5, <1>10 DEF InitIsAlone
<1>19. OwnAreLive'
  BY <1>1, <1>5, <1>12 DEF OwnAreLive
<1>20. Seated'
  BY <1>1, <1>11 DEF Seated
<1> QED
  BY <1>13, <1>14, <1>15, <1>16, <1>17, <1>18, <1>19, <1>20 DEF Seats

(* React renders what was set.                                              *)
LEMMA SeatsRendered ==
  ASSUME NoneAssumption, JoinShape, Seats, Render
  PROVE  Seats'
<1>0. /\ row \in [Token -> {"none", "pending", "active", "gone"}]
      /\ stored \in [Room -> Token \cup {None}] /\ None \notin Token
      /\ pings \subseteq Ping /\ want.room = live.room
      /\ want.token \in Token \cup {None} /\ tag \in Token \cup {None}
      /\ want.state # "closed" => want.room \in Room
      /\ unwraps \subseteq [token : Token, room : Room, at : {"unwrap", "hash"}]
      /\ \A p \in pings : p.token \in Token
  BY ShapeGives
<1>1. /\ live' = want
      /\ UNCHANGED <<row, answers, wrapping, roomOf, want, stored, tag, unwraps>>
      /\ error' = error
      /\ pings' = (IF live.state = "in" THEN OfInit \cup Abort(pings \ OfInit) ELSE pings) \cup
                  (IF want.state = "in" /\ want.token # None
                   THEN {[token |-> want.token, room |-> want.room, tag |-> tag,
                          init |-> FALSE, mine |-> TRUE, answer |-> "none"]}
                   ELSE {})
  BY DEF Render, relay
<1>2. ~lobby'
  BY Zenon DEF Render
<1>3. PICK n : n = [token |-> want.token, room |-> want.room, tag |-> tag,
                    init |-> FALSE, mine |-> TRUE, answer |-> "none"]
  OBVIOUS
<1>4. /\ n.token = want.token /\ n.room = want.room /\ n.tag = tag /\ n.answer = "none"
      /\ n.mine /\ ~n.init
  BY <1>3
<1>5. PICK A : A = Abort(pings \ OfInit)
  OBVIOUS
<1>6. \A p \in A :
        ~p.mine /\ \E q \in pings : /\ p.token = q.token /\ p.room = q.room /\ p.tag = q.tag
                                    /\ p.answer = "none" /\ q.answer = "none"
  BY <1>0, <1>5, AbortIs
<1>7. \A p \in pings' : \/ p \in OfInit
                        \/ p \in A
                        \/ p \in pings /\ live.state # "in"
                        \/ p = n /\ want.state = "in" /\ want.token # None
  BY <1>1, <1>3, <1>5
<1>8. OfInit \subseteq pings'
  BY <1>1 DEF OfInit
<1>9. OfInit' = OfInit
  <2>1. ASSUME NEW p \in OfInit' PROVE p \in OfInit
    BY <1>4, <1>6, <1>7, <2>1 DEF OfInit
  <2>2. ASSUME NEW p \in OfInit PROVE p \in OfInit'
    BY <1>8, <2>2 DEF OfInit
  <2> QED
    BY <2>1, <2>2
<1>10. \A p \in Own' : p = n /\ want.state = "in" /\ want.token # None
  <2> SUFFICES ASSUME NEW p \in Own' PROVE p = n /\ want.state = "in" /\ want.token # None
    OBVIOUS
  <2>1. p \in pings' /\ p.mine /\ ~p.init
    BY DEF Own
  <2>2. p \notin OfInit /\ p \notin A
    BY <1>6, <2>1 DEF OfInit
  <2>3. ~(p \in pings /\ live.state # "in")
    BY <2>1 DEF Own, Seats, OwnAreLive
  <2> QED
    BY <1>7, <2>1, <2>2, <2>3
<1>11. StoredAreHeld' /\ ActiveIsStored'
  BY <1>0, <1>1, HeldSame DEF Seats, StoredAreHeld, ActiveIsStored
<1>w. want.token # None => Used(want.token, want.room) /\ want.room \in Room
  <2>1. ASSUME want.token # None PROVE Used(want.token, want.room) /\ want.room \in Room
    <3>1. stored[want.room] = want.token
      BY <2>1 DEF Seats, PageHasStored
    <3>2. want.room \in Room
      BY <1>0, <2>1, ShapeGives DEF JoinShape, Opened
    <3> QED
      BY <1>0, <2>1, <3>1, <3>2 DEF Seats, StoredAreHeld, Used
  <2> QED
    BY <2>1
<1>12. PingsAreTrue'
  <2> SUFFICES ASSUME NEW p \in pings'
               PROVE  /\ Used(p.token, p.room)
                      /\ p.tag # None \/ tag = p.token => p.tag = p.token
                      /\ p.answer = "ok" => row[p.token] = "active"
                      /\ p.answer = "refused" => row[p.token] = "gone"
    BY <1>1 DEF PingsAreTrue, Used, Held, RoomOfToken
  <2>1. CASE p \in pings
    BY <2>1 DEF Seats, PingsAreTrue
  <2>2. CASE p \in A
    <3>1. PICK q \in pings : /\ p.token = q.token /\ p.room = q.room /\ p.tag = q.tag
                             /\ p.answer = "none"
      BY <1>6, <2>2
    <3> QED
      BY <3>1 DEF Seats, PingsAreTrue
  <2>3. CASE p = n /\ want.token # None
    <3>1. tag # None => want.token = tag
      BY DEF Seats, PageHasStored
    <3> QED
      BY <1>0, <1>4, <1>w, <2>3, <3>1
  <2> QED
    BY <1>7, <2>1, <2>2, <2>3 DEF OfInit
<1>13. UnwrapsAreOne'
  <2>1. ASSUME NEW u \in unwraps
        PROVE  /\ u.room = want.room /\ Held(u.token, u.room)
               /\ want.state = "lobby"
               /\ u.at = "unwrap" =>
                    /\ want.token = None /\ stored[u.room] = None
                    /\ row[u.token] # "active" /\ \A p \in pings' : p.token # u.token
               /\ u.at = "hash" => want.token = u.token /\ tag = u.token
    <3>1. /\ u.room = want.room /\ Held(u.token, u.room) /\ want.state = "lobby"
          /\ u.at = "unwrap" =>
               /\ want.token = None /\ stored[u.room] = None
               /\ row[u.token] # "active" /\ \A p \in pings : p.token # u.token
          /\ u.at = "hash" => want.token = u.token /\ tag = u.token
      BY DEF Seats, UnwrapsAreOne
    <3>2. \A p \in pings' : \E q \in pings : p.token = q.token
      BY <1>6, <1>7, <3>1 DEF OfInit
    <3> QED
      BY <3>1, <3>2
  <2> QED
    BY <1>0, <1>1, <2>1, HeldSame DEF Seats, UnwrapsAreOne
<1>14. PageHasStored'
  <2>1. want.token # None => Used(want.token, want.room)'
    BY <1>0, <1>1, <1>w, HeldSame
  <2> QED
    BY <1>1, <2>1 DEF Seats, PageHasStored
<1>15. LobbyIsOpen'
  BY <1>2 DEF LobbyIsOpen
<1>16. InitIsAlone'
  BY <1>1, <1>9 DEF Seats, InitIsAlone
<1>17. OwnAreLive'
  <2>1. tag # None => /\ want.token = tag /\ stored[want.room] = want.token /\ OfInit = {}
    BY <1>0 DEF Seats, PageHasStored, InitIsAlone
  <2> QED
    BY <1>1, <1>4, <1>9, <1>10, <2>1 DEF OwnAreLive
<1>18. Seated'
  BY <1>1, <1>9 DEF Seats, Seated
<1> QED
  BY <1>11, <1>12, <1>13, <1>14, <1>15, <1>16, <1>17, <1>18 DEF Seats

(* The page takes a token of its knock in hand.                             *)
LEMMA SeatsPosted ==
  ASSUME NoneAssumption, JoinShape, Seats, NEW t \in Token, PostToken(t), Heeds(t),
         unwraps = {}, want.token = None
  PROVE  Seats'
<1>0. /\ row \in [Token -> {"none", "pending", "active", "gone"}]
      /\ stored \in [Room -> Token \cup {None}] /\ None \notin Token
      /\ pings \subseteq Ping /\ want.room = live.room
      /\ live.token \in Token \cup {None}
      /\ \A p \in pings : p.token \in Token
  BY ShapeGives
<1>1. /\ t \in wrapping /\ wrapping' = wrapping \ {t}
      /\ unwraps' = {[token |-> t, room |-> live.room, at |-> "unwrap"]}
      /\ UNCHANGED <<row, answers, roomOf, want, live, stored, tag, pings>>
      /\ error' = error /\ lobby' = lobby
  BY DEF PostToken, knocking
<1>2. PICK u : u = [token |-> t, room |-> live.room, at |-> "unwrap"]
  OBVIOUS
<1>3. u.token = t /\ u.room = live.room /\ u.at = "unwrap" /\ unwraps' = {u}
  BY <1>1, <1>2
<1>4. live.state = "lobby"
  BY DEF Heeds, Seats, LobbyIsOpen
<1>5. want.state = "lobby" /\ stored[want.room] = None
  BY <1>4 DEF Seats, PageHasStored
<1>6. RoomOfToken(t) = live.room /\ row[t] # "none"
  BY <1>1 DEF Heeds, JoinShape, Asked
<1>7. RelayAlone
  BY <1>0, <1>1 DEF RelayAlone
<1>8. live.room \in Room
  BY <1>6 DEF JoinShape, Asked, RoomOfToken
<1>9. \A i \in Token : \A r : Held(i, r) => i # t /\ Held(i, r)'
  BY <1>1, <1>7, HeldStays DEF Held
<1>10. \A i \in Token : \A r : Used(i, r) => i # t /\ Used(i, r)'
  BY <1>1, <1>9 DEF Used
<1>11. row[t] # "active"
  <2>1. ASSUME row[t] = "active" PROVE FALSE
    <3>1. stored[live.room] = t
      BY <1>6, <2>1 DEF Seats, ActiveIsStored
    <3> QED
      BY <1>0, <1>5, <3>1
  <2> QED
    BY <2>1
<1>12. \A p \in pings : p.token # t
  BY <1>0, <1>10 DEF Seats, PingsAreTrue
<1>13. Held(t, live.room)'
  BY <1>1, <1>6 DEF Held, RoomOfToken
<1>14. UnwrapsAreOne'
  BY <1>0, <1>1, <1>3, <1>4, <1>5, <1>11, <1>12, <1>13 DEF UnwrapsAreOne
<1>15. StoredAreHeld' /\ ActiveIsStored' /\ PingsAreTrue'
  BY <1>0, <1>1, <1>9, <1>10
     DEF Seats, StoredAreHeld, ActiveIsStored, PingsAreTrue, RoomOfToken
<1>16. PageHasStored' /\ LobbyIsOpen'
  BY <1>0, <1>1, <1>10 DEF Seats, PageHasStored, LobbyIsOpen
<1>17. OfInit' = OfInit /\ Own' = Own
  BY <1>1 DEF OfInit, Own
<1>18. InitIsAlone' /\ OwnAreLive' /\ Seated'
  BY <1>1, <1>17 DEF Seats, InitIsAlone, OwnAreLive, Seated
<1> QED
  BY <1>14, <1>15, <1>16, <1>18 DEF Seats

(* The token is adopted: stored, set, and its tag kept.                     *)
LEMMA SeatsAdopted ==
  ASSUME NoneAssumption, JoinShape, Seats, NEW u \in unwraps, Adopt(u)
  PROVE  Seats'
<1>0. /\ row \in [Token -> {"none", "pending", "active", "gone"}]
      /\ stored \in [Room -> Token \cup {None}] /\ None \notin Token
      /\ pings \subseteq Ping /\ want.room = live.room /\ want \in Page
      /\ live.token \in Token \cup {None}
      /\ u.token \in Token /\ u.room \in Room
      /\ u \in [token : Token, room : Room, at : {"unwrap", "hash"}]
      /\ \A p \in pings : p.token \in Token /\ p.room \in Room
  BY ShapeGives
<1>1. /\ u.at = "unwrap" /\ unwraps' = (unwraps \ {u}) \cup {[u EXCEPT !.at = "hash"]}
      /\ tag' = u.token
      /\ stored' = [stored EXCEPT ![u.room] = u.token]
      /\ want' = [want EXCEPT !.token = u.token]
      /\ UNCHANGED <<row, answers, wrapping, roomOf, live, pings>>
      /\ error' = error /\ lobby' = lobby
  BY DEF Adopt, relay
<1>2. PICK v : v = [u EXCEPT !.at = "hash"]
  OBVIOUS
<1>3. /\ v.token = u.token /\ v.room = u.room /\ v.at = "hash" /\ unwraps' = {v}
  <2>1. unwraps = {u}
    BY DEF Seats, UnwrapsAreOne
  <2> QED
    BY <1>0, <1>1, <1>2, <2>1
<1>4. /\ u.room = want.room /\ Held(u.token, u.room)
      /\ want.state = "lobby" /\ live.state = "lobby"
      /\ want.token = None /\ stored[u.room] = None
      /\ row[u.token] # "active" /\ \A p \in pings : p.token # u.token
  BY <1>1 DEF Seats, UnwrapsAreOne
<1>5. want'.room = want.room /\ want'.state = "lobby" /\ want'.token = u.token
  BY <1>0, <1>1, <1>4 DEF Page
<1>6. stored'[u.room] = u.token /\ \A r \in Room : r # u.room => stored'[r] = stored[r]
  BY <1>0, <1>1
<1>7. \A t \in Token, r \in Room : Used(t, r) => Used(t, r)'
  BY <1>0, <1>1, <1>4, <1>6, HeldSame DEF Used
<1>8. StoredAreHeld'
  BY <1>0, <1>1, <1>4, <1>6, HeldSame DEF Seats, StoredAreHeld
<1>9. ActiveIsStored'
  <2> SUFFICES ASSUME NEW t \in Token, row[t] = "active" PROVE stored'[RoomOfToken(t)] = t
    BY <1>1, HeldSame DEF ActiveIsStored
  <2>1. stored[RoomOfToken(t)] = t /\ RoomOfToken(t) \in Room
    BY DEF Seats, ActiveIsStored, JoinShape, Asked, RoomOfToken
  <2> QED
    BY <1>0, <1>4, <1>6, <2>1
<1>10. PingsAreTrue'
  BY <1>0, <1>1, <1>4, <1>7 DEF Seats, PingsAreTrue
<1>11. UnwrapsAreOne'
  BY <1>0, <1>1, <1>3, <1>4, <1>5, HeldSame DEF UnwrapsAreOne
<1>12. PageHasStored'
  <2>1. live.token # None => Used(live.token, live.room)'
    <3> SUFFICES ASSUME live.token # None PROVE Used(live.token, live.room)'
      OBVIOUS
    <3>1. PICK t \in Token, r \in Room : t = live.token /\ r = live.room
      BY <1>0, <1>4
    <3>2. Used(t, r)
      BY <3>1 DEF Seats, PageHasStored
    <3>3. Used(t, r)'
      BY <1>7, <3>2
    <3> QED
      BY <1>1, <3>1, <3>3 DEF Used, Held, RoomOfToken
  <2> QED
    BY <1>0, <1>1, <1>4, <1>5, <1>6, <2>1 DEF PageHasStored
<1>13. LobbyIsOpen'
  BY <1>1 DEF Seats, LobbyIsOpen
<1>14. OfInit' = OfInit /\ Own' = Own /\ OfInit = {} /\ Own = {}
  <2>1. OfInit' = OfInit /\ Own' = Own
    BY <1>1 DEF OfInit, Own
  <2>2. OfInit = {} /\ Own = {}
    BY <1>4 DEF Seats, InitIsAlone, OwnAreLive
  <2> QED
    BY <2>1, <2>2
<1>15. InitIsAlone' /\ OwnAreLive' /\ Seated'
  BY <1>5, <1>14 DEF InitIsAlone, OwnAreLive, Seated
<1> QED
  BY <1>8, <1>9, <1>10, <1>11, <1>12, <1>13, <1>15 DEF Seats

(* And the page is in.                                                      *)
LEMMA SeatsAdmitted ==
  ASSUME NoneAssumption, JoinShape, Seats, NEW u \in unwraps, Admit(u)
  PROVE  Seats'
<1>0. /\ None \notin Token /\ want \in Page /\ want.room = live.room
      /\ live.token \in Token \cup {None}
      /\ u.token \in Token /\ u.room \in Room
  BY ShapeGives
<1>1. /\ u.at = "hash" /\ unwraps' = unwraps \ {u}
      /\ want' = [want EXCEPT !.state = "in"]
      /\ UNCHANGED <<row, answers, wrapping, roomOf, live, stored, tag, pings>>
      /\ error' = error /\ lobby' = lobby
  BY DEF Admit, relay
<1>2. unwraps' = {}
  BY <1>1 DEF Seats, UnwrapsAreOne
<1>3. /\ u.room = want.room /\ Held(u.token, u.room)
      /\ want.state = "lobby" /\ live.state = "lobby" /\ want.token = u.token /\ tag = u.token
  BY <1>1 DEF Seats, UnwrapsAreOne
<1>4. want'.room = want.room /\ want'.state = "in" /\ want'.token = u.token
  BY <1>0, <1>1, <1>3 DEF Page
<1>5. StoredAreHeld' /\ ActiveIsStored' /\ PingsAreTrue'
  BY <1>1 DEF Seats, StoredAreHeld, ActiveIsStored, PingsAreTrue, Held, Used, RoomOfToken
<1>6. UnwrapsAreOne'
  BY <1>2 DEF UnwrapsAreOne
<1>7. PageHasStored' /\ LobbyIsOpen'
  <2>1. live.token # None => Used(live.token, live.room)'
    BY <1>0, <1>1 DEF Seats, PageHasStored, Used, Held, RoomOfToken
  <2> QED
    BY <1>0, <1>1, <1>3, <1>4, <2>1 DEF Seats, PageHasStored, LobbyIsOpen
<1>8. OfInit' = OfInit /\ Own' = Own /\ OfInit = {} /\ Own = {}
  <2>1. OfInit' = OfInit /\ Own' = Own
    BY <1>1 DEF OfInit, Own
  <2>2. OfInit = {} /\ Own = {}
    BY <1>3 DEF Seats, InitIsAlone, OwnAreLive
  <2> QED
    BY <2>1, <2>2
<1>9. InitIsAlone' /\ OwnAreLive' /\ Seated'
  BY <1>1, <1>3, <1>4, <1>8 DEF InitIsAlone, OwnAreLive, Seated
<1> QED
  BY <1>5, <1>6, <1>7, <1>9 DEF Seats

(* A page that is in pings again.                                           *)
LEMMA SeatsTicked ==
  ASSUME NoneAssumption, JoinShape, Seats, Tick
  PROVE  Seats'
<1>0. /\ None \notin Token /\ want.room = live.room
      /\ live.token \in Token \cup {None}
  BY ShapeGives
<1>1. /\ live.state = "in" /\ live.token # None
      /\ pings' = pings \cup {[token |-> live.token, room |-> live.room, tag |-> tag,
                               init |-> FALSE, mine |-> TRUE, answer |-> "none"]}
      /\ UNCHANGED <<row, answers, wrapping, roomOf, want, live, stored, tag, unwraps>>
      /\ error' = error /\ lobby' = lobby
  BY DEF Tick, relay, knocking
<1>2. PICK n : n = [token |-> live.token, room |-> live.room, tag |-> tag,
                    init |-> FALSE, mine |-> TRUE, answer |-> "none"]
  OBVIOUS
<1>3. /\ n.token = live.token /\ n.room = live.room /\ n.tag = tag /\ n.answer = "none"
      /\ n.mine /\ ~n.init
  BY <1>2
<1>4. pings' = pings \cup {n}
  BY <1>1, <1>2
<1>5. OfInit' = OfInit /\ \A p \in Own' : p \in Own \/ p = n
  BY <1>3, <1>4 DEF OfInit, Own
<1>6. Used(live.token, live.room)
  BY <1>1 DEF Seats, PageHasStored
<1>7. tag # None => /\ tag = live.token /\ want.state = "in" /\ want.token = tag
                    /\ stored[want.room] = tag
  BY <1>0, <1>1 DEF Seats, PageHasStored
<1>8. StoredAreHeld' /\ ActiveIsStored'
  BY <1>1 DEF Seats, StoredAreHeld, ActiveIsStored, Held, RoomOfToken
<1>9. PingsAreTrue'
  <2> SUFFICES ASSUME NEW p \in pings'
               PROVE  /\ Used(p.token, p.room)
                      /\ p.tag # None \/ tag = p.token => p.tag = p.token
                      /\ p.answer = "ok" => row[p.token] = "active"
                      /\ p.answer = "refused" => row[p.token] = "gone"
    BY <1>1 DEF PingsAreTrue, Used, Held, RoomOfToken
  <2>1. CASE p \in pings
    BY <2>1 DEF Seats, PingsAreTrue
  <2>2. CASE p = n
    BY <1>3, <1>6, <1>7, <2>2
  <2> QED
    BY <1>4, <2>1, <2>2
<1>10. unwraps = {} /\ unwraps' = {}
  BY <1>1 DEF Seats, UnwrapsAreOne
<1>11. UnwrapsAreOne'
  BY <1>10 DEF UnwrapsAreOne
<1>12. PageHasStored' /\ LobbyIsOpen'
  BY <1>1 DEF Seats, PageHasStored, LobbyIsOpen, Used, Held, RoomOfToken
<1>13. InitIsAlone'
  BY <1>1, <1>5 DEF Seats, InitIsAlone
<1>14. OwnAreLive'
  <2>1. tag # None => OfInit = {}
    BY DEF Seats, InitIsAlone
  <2> QED
    BY <1>0, <1>1, <1>3, <1>5, <1>7, <2>1 DEF Seats, OwnAreLive
<1>15. Seated'
  BY <1>1, <1>5 DEF Seats, Seated
<1> QED
  BY <1>8, <1>9, <1>11, <1>12, <1>13, <1>14, <1>15 DEF Seats

(* init hears of its token, and the page is in, or back in the lobby.       *)
LEMMA SeatsRecognized ==
  ASSUME NoneAssumption, JoinShape, Seats, NEW p \in pings, Recognized(p)
  PROVE  Seats'
<1>0. /\ None \notin Token /\ want.room = live.room /\ want \in Page
      /\ live.token \in Token \cup {None} /\ p.token \in Token
  BY ShapeGives
<1>1. /\ p.answer = "ok" /\ pings' = pings \ {p}
      /\ want' = [want EXCEPT !.state = "in", !.token = p.token]
      /\ UNCHANGED <<row, answers, wrapping, roomOf, live, stored, tag, unwraps>>
      /\ error' = error /\ lobby' = lobby
  BY DEF Recognized, relay, knocking
<1>2. p \in OfInit
  BY DEF Recognized, OfInit
<1>3. /\ p.room = want.room /\ stored[p.room] = p.token /\ tag = None
      /\ want.state \in {"init", "in"} /\ live.state \in {"init", "in"}
  BY <1>2 DEF Seats, InitIsAlone
<1>4. row[p.token] = "active"
  BY <1>1 DEF Seats, PingsAreTrue
<1>5. want'.room = want.room /\ want'.state = "in" /\ want'.token = p.token
  BY <1>0, <1>1 DEF Page
<1>6. unwraps' = {}
  BY <1>1, <1>3 DEF Seats, UnwrapsAreOne
<1>7. OfInit' \subseteq OfInit /\ Own' \subseteq Own
  BY <1>1 DEF OfInit, Own
<1>8. StoredAreHeld' /\ ActiveIsStored'
  BY <1>1 DEF Seats, StoredAreHeld, ActiveIsStored, Held, RoomOfToken
<1>9. PingsAreTrue'
  BY <1>1 DEF Seats, PingsAreTrue, Used, Held, RoomOfToken
<1>10. UnwrapsAreOne'
  BY <1>6 DEF UnwrapsAreOne
<1>11. live.token # None => Used(live.token, live.room)'
  BY <1>1 DEF Seats, PageHasStored, Used, Held, RoomOfToken
<1>12. PageHasStored' /\ LobbyIsOpen'
  BY <1>0, <1>1, <1>3, <1>5, <1>11 DEF Seats, PageHasStored, LobbyIsOpen
<1>13. OfInit' = {}
  BY <1>1, <1>2, <1>7 DEF Seats, InitIsAlone, OfInit
<1>14. OwnAreLive'
  BY <1>1, <1>5, <1>7, <1>13 DEF Seats, OwnAreLive
<1>15. InitIsAlone' /\ Seated'
  BY <1>1, <1>4, <1>5, <1>13 DEF InitIsAlone, Seated
<1> QED
  BY <1>8, <1>9, <1>10, <1>12, <1>14, <1>15 DEF Seats

LEMMA SeatsUnrecognized ==
  ASSUME NoneAssumption, JoinShape, Seats, NEW p \in pings, Unrecognized(p)
  PROVE  Seats'
<1>0. /\ None \notin Token /\ want.room = live.room /\ want \in Page
      /\ live.token \in Token \cup {None} /\ p.token \in Token /\ p.room \in Room
      /\ stored \in [Room -> Token \cup {None}]
      /\ \A q \in pings : q.token \in Token /\ q.room \in Room
  BY ShapeGives
<1>1. /\ p.answer = "refused" /\ pings' = pings \ {p}
      /\ stored' = [stored EXCEPT ![p.room] = None]
      /\ want' = [want EXCEPT !.state = "lobby", !.token = None]
      /\ UNCHANGED <<row, answers, wrapping, roomOf, live, tag, unwraps>>
      /\ error' = error /\ lobby' = lobby
  BY DEF Unrecognized, relay, knocking
<1>2. p \in OfInit
  BY DEF Unrecognized, OfInit
<1>3. /\ p.room = want.room /\ stored[p.room] = p.token /\ tag = None
      /\ want.state \in {"init", "in"} /\ live.state \in {"init", "in"}
  BY <1>2 DEF Seats, InitIsAlone
<1>4. row[p.token] = "gone"
  BY <1>1 DEF Seats, PingsAreTrue
<1>5. want'.room = want.room /\ want'.state = "lobby" /\ want'.token = None
  BY <1>0, <1>1 DEF Page
<1>6. stored'[p.room] = None /\ \A r \in Room : r # p.room => stored'[r] = stored[r]
  BY <1>0, <1>1
<1>7. unwraps' = {}
  BY <1>1, <1>3 DEF Seats, UnwrapsAreOne
<1>8. OfInit' \subseteq OfInit /\ Own' \subseteq Own
  BY <1>1 DEF OfInit, Own
<1>9. \A t \in Token, r \in Room : Used(t, r) => Used(t, r)'
  BY <1>0, <1>1, <1>3, <1>4, <1>6, HeldSame DEF Used
<1>10. StoredAreHeld'
  BY <1>0, <1>1, <1>6, HeldSame DEF Seats, StoredAreHeld
<1>11. ActiveIsStored'
  <2> SUFFICES ASSUME NEW t \in Token, row[t] = "active" PROVE stored'[RoomOfToken(t)] = t
    BY <1>1, HeldSame DEF ActiveIsStored
  <2>1. stored[RoomOfToken(t)] = t /\ RoomOfToken(t) \in Room
    BY DEF Seats, ActiveIsStored, JoinShape, Asked, RoomOfToken
  <2> QED
    BY <1>0, <1>3, <1>4, <1>6, <2>1
<1>12. PingsAreTrue'
  BY <1>0, <1>1, <1>9 DEF Seats, PingsAreTrue
<1>13. UnwrapsAreOne'
  BY <1>7 DEF UnwrapsAreOne
<1>14. live.room \in Room
  BY <1>0, <1>3
<1>15. live.token # None => Used(live.token, live.room)'
  <2> SUFFICES ASSUME live.token # None PROVE Used(live.token, live.room)'
    OBVIOUS
  <2>1. PICK t \in Token, r \in Room : t = live.token /\ r = live.room
    BY <1>0, <1>14
  <2>2. Used(t, r)
    BY <2>1 DEF Seats, PageHasStored
  <2>3. Used(t, r)'
    BY <1>9, <2>2
  <2> QED
    BY <1>1, <2>1, <2>3 DEF Used, Held, RoomOfToken
<1>16. PageHasStored' /\ LobbyIsOpen'
  BY <1>0, <1>1, <1>3, <1>5, <1>6, <1>15 DEF Seats, PageHasStored, LobbyIsOpen
<1>17. OfInit' = {}
  BY <1>1, <1>2, <1>8 DEF Seats, InitIsAlone, OfInit
<1>18. OwnAreLive'
  BY <1>1, <1>2, <1>8, <1>17 DEF Seats, OwnAreLive
<1>19. InitIsAlone' /\ Seated'
  BY <1>5, <1>17 DEF InitIsAlone, Seated
<1> QED
  BY <1>10, <1>11, <1>12, <1>13, <1>16, <1>18, <1>19 DEF Seats

(* A ping of the page is answered: the claim is confirmed, or nothing new.  *)
LEMMA SeatsConfirmed ==
  ASSUME NoneAssumption, JoinShape, Seats, NEW p \in pings, Confirmed(p)
  PROVE  Seats'
<1>0. /\ None \notin Token /\ want.room = live.room
      /\ want.token \in Token \cup {None}
      /\ live.token \in Token \cup {None} /\ p.token \in Token
      /\ \A q \in pings : q.token \in Token
  BY ShapeGives
<1>1. /\ pings' = pings \ {p}
      /\ p.tag # None => p.answer = "ok"
      /\ tag' = IF p.tag # None THEN None ELSE tag
      /\ UNCHANGED <<row, answers, wrapping, roomOf, want, live, stored, unwraps>>
      /\ error' = error /\ lobby' = lobby
  BY DEF Confirmed, relay, knocking
<1>2. p \in Own /\ p \notin OfInit
  BY DEF Confirmed, Own, OfInit
<1>3. /\ live.state = "in" /\ p.room = live.room /\ p.token = live.token
      /\ p.tag # None => want.state = "in" /\ stored[p.room] = p.token /\ OfInit = {}
  BY <1>2 DEF Seats, OwnAreLive
<1>4. OfInit' = OfInit /\ Own' \subseteq Own
  BY <1>1, <1>2 DEF OfInit, Own
<1>5. p.tag # None => row[want.token] = "active"
  <2>1. ASSUME p.tag # None PROVE row[want.token] = "active"
    <3>1. row[p.token] = "active"
      BY <1>1, <2>1 DEF Seats, PingsAreTrue
    <3>2. want.token = p.token
      BY <1>0, <1>3, <2>1 DEF Seats, PageHasStored
    <3> QED
      BY <3>1, <3>2
  <2> QED
    BY <2>1
<1>6. unwraps' = {}
  BY <1>1, <1>3 DEF Seats, UnwrapsAreOne
<1>7. StoredAreHeld' /\ ActiveIsStored'
  BY <1>1 DEF Seats, StoredAreHeld, ActiveIsStored, Held, RoomOfToken
<1>8. PingsAreTrue'
  BY <1>0, <1>1 DEF Seats, PingsAreTrue, Used, Held, RoomOfToken
<1>9. UnwrapsAreOne'
  BY <1>6 DEF UnwrapsAreOne
<1>10. PageHasStored' /\ LobbyIsOpen'
  BY <1>1 DEF Seats, PageHasStored, LobbyIsOpen, Used, Held, RoomOfToken
<1>11. InitIsAlone'
  BY <1>1, <1>4 DEF Seats, InitIsAlone
<1>12. OwnAreLive'
  BY <1>1, <1>4 DEF Seats, OwnAreLive
<1>13. Seated'
  BY <1>0, <1>1, <1>4, <1>5 DEF Seats, Seated
<1> QED
  BY <1>7, <1>8, <1>9, <1>10, <1>11, <1>12, <1>13 DEF Seats

(* A claim is refused: its token is gone, and so is what the phone had.     *)
LEMMA SeatsWiped ==
  ASSUME NoneAssumption, JoinShape, Seats, NEW p \in pings, Wipe(p)
  PROVE  Seats' /\ stored[want.room] \in Token /\ row[stored[want.room]] = "gone"
<1>0. /\ None \notin Token /\ want.room = live.room /\ want \in Page
      /\ live.token \in Token \cup {None} /\ p.token \in Token /\ p.room \in Room
      /\ stored \in [Room -> Token \cup {None}] /\ pings \subseteq Ping
      /\ \A q \in pings : q.token \in Token /\ q.room \in Room
  BY ShapeGives
<1>1. /\ p.answer = "refused" /\ p.tag # None
      /\ pings' = OfInit \cup Abort(pings \ OfInit)
      /\ tag' = None
      /\ stored' = [stored EXCEPT ![p.room] = None]
      /\ want' = [want EXCEPT !.state = "destroyed", !.token = None]
      /\ UNCHANGED <<row, answers, wrapping, roomOf, live, unwraps>>
      /\ error' = error /\ lobby' = lobby
  BY DEF Wipe, relay
<1>2. p \in Own
  BY DEF Wipe, Own
<1>3. /\ live.state = "in" /\ p.room = live.room /\ p.token = live.token
      /\ stored[p.room] = p.token /\ OfInit = {}
  BY <1>1, <1>2 DEF Seats, OwnAreLive
<1>4. row[p.token] = "gone"
  BY <1>1 DEF Seats, PingsAreTrue
<1>5. want'.room = want.room /\ want'.state = "destroyed" /\ want'.token = None
  BY <1>0, <1>1 DEF Page
<1>6. stored'[p.room] = None /\ \A r \in Room : r # p.room => stored'[r] = stored[r]
  BY <1>0, <1>1
<1>7. unwraps' = {}
  BY <1>1, <1>3 DEF Seats, UnwrapsAreOne
<1>8. PICK A : A = Abort(pings \ OfInit)
  OBVIOUS
<1>9. \A q \in A :
        ~q.mine /\ \E o \in pings : /\ q.token = o.token /\ q.room = o.room /\ q.tag = o.tag
                                    /\ q.answer = "none" /\ o.answer = "none"
  BY <1>0, <1>8, AbortIs
<1>10. pings' = A
  BY <1>1, <1>3, <1>8
<1>11. OfInit' = {} /\ Own' = {}
  BY <1>9, <1>10 DEF OfInit, Own
<1>12. \A t \in Token, r \in Room : Used(t, r) => Used(t, r)'
  BY <1>0, <1>1, <1>3, <1>4, <1>6, HeldSame DEF Used
<1>13. StoredAreHeld'
  BY <1>0, <1>1, <1>6, HeldSame DEF Seats, StoredAreHeld
<1>14. ActiveIsStored'
  <2> SUFFICES ASSUME NEW t \in Token, row[t] = "active" PROVE stored'[RoomOfToken(t)] = t
    BY <1>1, HeldSame DEF ActiveIsStored
  <2>1. stored[RoomOfToken(t)] = t /\ RoomOfToken(t) \in Room
    BY DEF Seats, ActiveIsStored, JoinShape, Asked, RoomOfToken
  <2> QED
    BY <1>0, <1>3, <1>4, <1>6, <2>1
<1>15. PingsAreTrue'
  <2> SUFFICES ASSUME NEW q \in A
               PROVE  /\ Used(q.token, q.room)'
                      /\ q.tag # None => q.tag = q.token
                      /\ q.answer = "none" /\ q.token \in Token
    BY <1>0, <1>1, <1>10 DEF PingsAreTrue
  <2>1. PICK o \in pings : /\ q.token = o.token /\ q.room = o.room /\ q.tag = o.tag
                           /\ q.answer = "none"
    BY <1>9
  <2>2. /\ Used(o.token, o.room) /\ o.token \in Token /\ o.room \in Room
        /\ o.tag # None => o.tag = o.token
    BY <1>0 DEF Seats, PingsAreTrue
  <2> QED
    BY <1>12, <2>1, <2>2
<1>16. UnwrapsAreOne'
  BY <1>7 DEF UnwrapsAreOne
<1>17. live.token # None => Used(live.token, live.room)'
  <2> SUFFICES ASSUME live.token # None PROVE Used(live.token, live.room)'
    OBVIOUS
  <2>1. PICK t \in Token, r \in Room : t = live.token /\ r = live.room
    BY <1>0, <1>3
  <2>2. Used(t, r)
    BY <2>1 DEF Seats, PageHasStored
  <2>3. Used(t, r)'
    BY <1>12, <2>2
  <2> QED
    BY <1>1, <2>1, <2>3 DEF Used, Held, RoomOfToken
<1>18. PageHasStored' /\ LobbyIsOpen'
  BY <1>0, <1>1, <1>3, <1>5, <1>17 DEF Seats, PageHasStored, LobbyIsOpen
<1>19. InitIsAlone' /\ OwnAreLive' /\ Seated'
  BY <1>5, <1>11 DEF InitIsAlone, OwnAreLive, Seated
<1> QED
  BY <1>0, <1>3, <1>4, <1>13, <1>14, <1>15, <1>16, <1>18, <1>19 DEF Seats

(* A ping gets no answer.                                                   *)
LEMMA SeatsLost ==
  ASSUME NoneAssumption, JoinShape, Seats, NEW p \in pings, Lose(p)
  PROVE  Seats'
<1>1. /\ pings' = pings \ {p}
      /\ UNCHANGED <<row, answers, wrapping, roomOf, want, live, stored, tag, unwraps>>
      /\ lobby' = lobby
  BY DEF Lose, relay, knocking
<1>2. error \/ (p.init /\ p.mine) => error'
  BY Zenon DEF Lose
<1>3. OfInit' = OfInit \ {p} /\ Own' \subseteq Own
  BY <1>1 DEF OfInit, Own
<1>4. p \in OfInit => error'
  BY <1>2 DEF OfInit
<1>5. StoredAreHeld' /\ ActiveIsStored'
  BY <1>1 DEF Seats, StoredAreHeld, ActiveIsStored, Held, RoomOfToken
<1>6. PingsAreTrue'
  BY <1>1 DEF Seats, PingsAreTrue, Used, Held, RoomOfToken
<1>7. UnwrapsAreOne'
  BY <1>1 DEF Seats, UnwrapsAreOne, Held, RoomOfToken
<1>8. PageHasStored' /\ LobbyIsOpen'
  BY <1>1 DEF Seats, PageHasStored, LobbyIsOpen, Used, Held, RoomOfToken
<1>9. InitIsAlone' /\ OwnAreLive'
  BY <1>1, <1>3 DEF Seats, InitIsAlone, OwnAreLive
<1>10. Seated'
  <2> SUFFICES ASSUME want.state = "in"
               PROVE  row[want.token] = "active" \/ tag = want.token \/ OfInit' # {} \/ error'
    BY <1>1 DEF Seated
  <2>1. row[want.token] = "active" \/ tag = want.token \/ OfInit # {} \/ error
    BY DEF Seats, Seated
  <2> QED
    BY <1>2, <1>3, <1>4, <2>1
<1> QED
  BY <1>5, <1>6, <1>7, <1>8, <1>9, <1>10 DEF Seats

(* Every step keeps the seats while no two unwraps meet.                    *)
LEMMA SeatsKept ==
  ASSUME NoneAssumption, JoinShape, Seats, Next, ~crossed'
  PROVE  Seats'
<1>0. /\ row \in [Token -> {"none", "pending", "active", "gone"}]
      /\ answers \in [Token -> Knock \cup {None}] /\ roomOf \in [Knock -> Room \cup {None}]
      /\ stored \in [Room -> Token \cup {None}] /\ None \notin Room
      /\ live.room \in Room \cup {None}
      /\ \A t \in Token :
           row[t] # "none" => answers[t] \in Knock /\ roomOf[answers[t]] \in Room
  BY ShapeGives DEF JoinShape, JoinType, Asked
(* The relay works, or the page knocks.                                     *)
<1>a. ASSUME UNCHANGED <<row, answers, roomOf>>, wrapping' \subseteq wrapping PROVE RelayAlone
  BY <1>0, <1>a DEF RelayAlone
<1>1. ASSUME NEW t \in Token, NEW k \in Knock, Approve(t, k) PROVE Seats'
  <2>1. /\ row[t] = "none" /\ row' = [row EXCEPT ![t] = "pending"]
        /\ answers' = [answers EXCEPT ![t] = k] /\ wrapping' = wrapping \cup {t}
        /\ UNCHANGED <<roomOf, want, live, stored, tag, unwraps, pings>>
    BY <1>1 DEF Approve, knocking
  <2>2. error' <=> error
    BY <1>1, Zenon DEF Approve
  <2>3. lobby' => lobby
    BY <1>1, Zenon DEF Approve
  <2>4. RelayAlone
    BY <1>0, <2>1 DEF RelayAlone
  <2> QED
    BY <2>1, <2>2, <2>3, <2>4, SeatsStill
<1>2. ASSUME NEW t \in Token, PostToken(t) PROVE Seats'
  <2>1. CASE Heeds(t)
    <3>1. crossed' = (crossed \/ unwraps # {} \/ want.token # None)
      BY <1>2, <2>1, Zenon DEF PostToken
    <3>2. ~(unwraps # {}) /\ ~(want.token # None)
      BY <3>1, Zenon
    <3>3. unwraps = {} /\ want.token = None
      BY <3>2
    <3> QED
      BY <1>2, <2>1, <3>3, SeatsPosted
  <2>2. CASE ~Heeds(t)
    <3>1. UNCHANGED <<row, answers, roomOf, want, live, stored, tag, unwraps, pings>>
          /\ wrapping' = wrapping \ {t}
      BY <1>2, <2>2 DEF PostToken, knocking
    <3>2. error' <=> error
      BY <1>2, Zenon DEF PostToken
    <3>3. lobby' => lobby
      BY <1>2, Zenon DEF PostToken
    <3> QED
      BY <1>a, <3>1, <3>2, <3>3, SeatsStill
  <2> QED
    BY <2>1, <2>2
<1>3. ASSUME NEW t \in Token, Forsake(t) PROVE Seats'
  <2>1. UNCHANGED <<row, answers, roomOf, want, live, stored, tag, unwraps, pings>>
        /\ wrapping' = wrapping \ {t}
    BY <1>3 DEF Forsake, knocking
  <2>2. error' <=> error
    BY <1>3, Zenon DEF Forsake
  <2>3. lobby' => lobby
    BY <1>3, Zenon DEF Forsake
  <2> QED
    BY <1>a, <2>1, <2>2, <2>3, SeatsStill
<1>4. ASSUME NEW t \in Token, Prune(t) PROVE Seats'
  <2>1. /\ row[t] = "pending" /\ row' = [row EXCEPT ![t] = "gone"]
        /\ UNCHANGED <<answers, wrapping, roomOf, want, live, stored, tag, unwraps, pings>>
    BY <1>4 DEF Prune, knocking
  <2>2. error' <=> error
    BY <1>4, Zenon DEF Prune
  <2>3. lobby' => lobby
    BY <1>4, Zenon DEF Prune
  <2>4. RelayAlone
    BY <1>0, <2>1 DEF RelayAlone
  <2> QED
    BY <2>1, <2>2, <2>3, <2>4, SeatsStill
<1>5. ASSUME NEW r \in Room, Switch(r) PROVE Seats'
  <2>1. PICK entry : entry = [room |-> r, state |-> IF stored[r] = None THEN "lobby" ELSE "init",
                             token |-> None]
    OBVIOUS
  <2>2. Enter(r, entry) /\ unwraps' = unwraps
    BY <1>5, <2>1 DEF Switch
  <2>3. crossed' = (crossed \/ unwraps # {})
    BY <1>5, Zenon DEF Switch
  <2>4. ~(unwraps # {})
    BY <2>3, Zenon
  <2>5. /\ entry.room = r
        /\ \/ entry.state = "lobby" /\ entry.token = None /\ stored[r] = None
           \/ entry.state = "init" /\ entry.token = None /\ stored[r] # None
    BY <2>1
  <2>6. unwraps' = {}
    BY <2>2, <2>4
  <2> QED
    BY <2>2, <2>5, <2>6, SeatsEntered
<1>6. ASSUME NEW r \in Room, Load(r) PROVE Seats'
  <2>1. PICK entry : entry = [room |-> r, state |-> IF stored[r] = None THEN "lobby" ELSE "in",
                             token |-> stored[r]]
    OBVIOUS
  <2>2. Enter(r, entry) /\ unwraps' = {}
    BY <1>6, <2>1 DEF Load
  <2>3. /\ entry.room = r
        /\ \/ entry.state = "lobby" /\ entry.token = None /\ stored[r] = None
           \/ entry.state = "in" /\ entry.token = stored[r] /\ stored[r] # None
    BY <2>1
  <2> QED
    BY <2>2, <2>3, SeatsEntered
<1>7. ASSUME NEW k \in Knock, SendKnock(k) PROVE Seats'
  <2>1. /\ roomOf[k] = None /\ roomOf' = [roomOf EXCEPT ![k] = live.room]
        /\ UNCHANGED <<row, answers, wrapping, want, live, stored, tag, unwraps, pings>>
    BY <1>7 DEF SendKnock
  <2>2. error' <=> error
    BY <1>7, Zenon DEF SendKnock
  <2>3. lobby' => lobby
    BY <1>7, Zenon DEF SendKnock
  <2>4. \A t \in Token : row[t] # "none" => roomOf'[answers[t]] = roomOf[answers[t]]
    BY <1>0, <2>1
  <2>5. RelayAlone
    BY <1>0, <2>1, <2>4 DEF RelayAlone
  <2> QED
    BY <2>1, <2>2, <2>3, <2>5, SeatsStill
<1>8. ASSUME NEW k \in Knock, KnockAnswered(k) \/ KnockFailed(k) PROVE Seats'
  <2>1. UNCHANGED <<row, answers, wrapping, roomOf, want, live, stored, tag, unwraps, pings>>
    BY <1>8 DEF KnockAnswered, KnockFailed, relay
  <2>2. error' <=> error
    <3>1. ASSUME KnockAnswered(k) PROVE error' <=> error
      BY <3>1, Zenon DEF KnockAnswered
    <3>2. ASSUME KnockFailed(k) PROVE error' <=> error
      BY <3>2, Zenon DEF KnockFailed
    <3> QED
      BY <1>8, <3>1, <3>2
  <2>3. lobby' => lobby
    BY <1>8, Zenon DEF KnockAnswered, KnockFailed
  <2> QED
    BY <1>a, <2>1, <2>2, <2>3, SeatsStill
<1>9. ASSUME OpenLobby \/ CloseLobby \/ Retry PROVE Seats'
  <2>1. UNCHANGED <<row, answers, wrapping, roomOf, want, live, stored, tag, unwraps, pings>>
    BY <1>9 DEF OpenLobby, CloseLobby, Retry, relay, knocking
  <2>2. error' <=> error
    <3>1. ASSUME OpenLobby PROVE error' <=> error
      BY <3>1, Zenon DEF OpenLobby
    <3>2. ASSUME CloseLobby PROVE error' <=> error
      BY <3>2, Zenon DEF CloseLobby
    <3>3. ASSUME Retry PROVE error' <=> error
      BY <3>3, Zenon DEF Retry
    <3> QED
      BY <1>9, <3>1, <3>2, <3>3
  <2>3. lobby' => lobby \/ live.state = "lobby"
    BY <1>9, Zenon DEF OpenLobby, CloseLobby, Retry
  <2> QED
    BY <1>a, <2>1, <2>2, <2>3, SeatsStill
<1>10. ASSUME Render PROVE Seats'
  BY <1>10, SeatsRendered
<1>11. ASSUME Tick PROVE Seats'
  BY <1>11, SeatsTicked
<1>12. ASSUME NEW u \in unwraps, Adopt(u) \/ Admit(u) PROVE Seats'
  BY <1>12, SeatsAdopted, SeatsAdmitted
<1>13. ASSUME NEW p \in pings, Presence(p) PROVE Seats'
  BY <1>13, SeatsServed
<1>14. ASSUME NEW p \in pings, Answered(p) PROVE Seats'
  BY <1>14, SeatsRecognized, SeatsUnrecognized, SeatsConfirmed, SeatsWiped DEF Answered
<1>15. ASSUME NEW p \in pings, Lose(p) PROVE Seats'
  BY <1>15, SeatsLost
<1> QED
  BY <1>1, <1>2, <1>3, <1>4, <1>5, <1>6, <1>7, <1>8, <1>9, <1>10, <1>11, <1>12, <1>13, <1>14,
     <1>15 DEF Next, Approver, Asking

(* Once crossed, always crossed.                                            *)
LEMMA CrossedStays ==
  ASSUME Next, ~crossed'
  PROVE  ~crossed
<1>1. ASSUME NEW t \in Token, Approver(t) \/ Prune(t) PROVE ~crossed
  BY <1>1, Zenon DEF Approver, Approve, PostToken, Forsake, Prune
<1>2. ASSUME NEW r \in Room, Switch(r) \/ Load(r) PROVE ~crossed
  BY <1>2, Zenon DEF Switch, Load
<1>3. ASSUME NEW k \in Knock, Asking(k) PROVE ~crossed
  BY <1>3, Zenon DEF Asking, SendKnock, KnockAnswered, KnockFailed
<1>4. ASSUME Render \/ OpenLobby \/ CloseLobby \/ Retry \/ Tick PROVE ~crossed
  BY <1>4, Zenon DEF Render, OpenLobby, CloseLobby, Retry, Tick
<1>5. ASSUME NEW u \in unwraps, Adopt(u) \/ Admit(u) PROVE ~crossed
  BY <1>5, Zenon DEF Adopt, Admit
<1>6. ASSUME NEW p \in pings, Presence(p) \/ Lose(p) PROVE ~crossed
  BY <1>6, Zenon DEF Presence, Lose
<1>7. ASSUME NEW p \in pings, Answered(p) PROVE ~crossed
  BY <1>7, Zenon DEF Answered, Recognized, Unrecognized, Confirmed, Wipe
<1> QED
  BY <1>1, <1>2, <1>3, <1>4, <1>5, <1>6, <1>7, Zenon DEF Next

LEMMA JoinBegins ==
  ASSUME NoneAssumption, BoundsAssumption, Init
  PROVE  JoinInv
<1>1. /\ row = [t \in Token |-> "none"] /\ answers = [t \in Token |-> None]
      /\ due = [k \in Knock |-> 0] /\ wrapping = {}
      /\ roomOf = [k \in Knock |-> None]
      /\ want = Closed /\ live = Closed
      /\ stored = [r \in Room |-> None]
      /\ eph = None /\ tag = None
      /\ posting = {} /\ tries = 0 /\ jwt = None
      /\ unwraps = {} /\ pings = {} /\ lost = 0 /\ enters = 0
  BY DEF Init
<1>2. JoinFlags
  BY Zenon DEF Init, JoinFlags
<1>3. ~lobby
  BY Zenon DEF Init
<1>4. Closed \in Page /\ Closed.room = None /\ Closed.state = "closed" /\ Closed.token = None
  BY DEF Closed, Page
<1>5. JoinType
  <2>1. MaxTry \in Nat
    BY DEF BoundsAssumption
  <2> QED
    BY <1>1, <1>4, <2>1 DEF JoinType
<1>6. Opened /\ Asked
  BY <1>1, <1>4 DEF Opened, Asked, NoneAssumption
<1>7. OfInit = {} /\ Own = {}
  BY <1>1 DEF OfInit, Own
<1>8. StoredAreHeld /\ ActiveIsStored /\ PingsAreTrue /\ UnwrapsAreOne
  BY <1>1 DEF StoredAreHeld, ActiveIsStored, PingsAreTrue, UnwrapsAreOne
<1>9. PageHasStored /\ InitIsAlone /\ OwnAreLive /\ Seated
  BY <1>1, <1>4, <1>7 DEF PageHasStored, InitIsAlone, OwnAreLive, Seated
<1>10. LobbyIsOpen
  BY <1>3 DEF LobbyIsOpen
<1> QED
  BY <1>2, <1>5, <1>6, <1>8, <1>9, <1>10, JoinTypes DEF JoinInv, Seats

LEMMA JoinKept ==
  ASSUME NoneAssumption, BoundsAssumption, JoinInv, Next
  PROVE  JoinInv'
<1>1. JoinShape /\ JoinFlags
  BY JoinTypes DEF JoinInv, JoinShape
<1>2. JoinShape'
  BY <1>1, ShapeKept
<1>3. JoinFlags'
  BY <1>1, JoinFlagsKept
<1>4. TypeOK'
  BY <1>2, <1>3, Zenon DEF TypeOK, JoinType, JoinFlags, JoinShape
<1>5. ~crossed' => Seats'
  BY <1>1, CrossedStays, SeatsKept DEF JoinInv
<1> QED
  BY <1>2, <1>4, <1>5, Zenon DEF JoinInv, JoinShape

(* A page that is in has its seat or the means to it, and no room has two.  *)
LEMMA SeatsAreSeats ==
  ASSUME NoneAssumption, JoinInv
  PROVE  NoZombie /\ OneSeat
<1>1. JoinShape
  BY JoinTypes DEF JoinInv, JoinShape
<1>2. NoZombie
  <2> SUFFICES ASSUME live.state = "in", want = live, ~crossed
               PROVE  /\ live.token \in Token
                      /\ \/ row[live.token] = "active" \/ tag = live.token
                         \/ OfInit # {} \/ error
    BY DEF NoZombie
  <2>1. PageHasStored /\ Seated
    BY DEF JoinInv, Seats
  <2>2. want.token \in Token
    BY <1>1, <2>1, ShapeGives DEF PageHasStored
  <2> QED
    BY <2>1, <2>2 DEF Seated
<1>3. OneSeat
  <2> SUFFICES ASSUME ~crossed, NEW r \in Room
               PROVE  Cardinality({t \in Token : row[t] = "active" /\ RoomOfToken(t) = r}) <= 1
    BY DEF OneSeat
  <2>1. PICK S : S = {t \in Token : row[t] = "active" /\ RoomOfToken(t) = r}
    OBVIOUS
  <2>2. ActiveIsStored
    BY DEF JoinInv, Seats
  <2>3. S \subseteq {stored[r]}
    BY <2>1, <2>2 DEF ActiveIsStored
  <2>4. S = {} \/ S = {stored[r]}
    BY <2>3
  <2>5. Cardinality(S) = 0 \/ Cardinality(S) = 1
    BY <2>4, FS_EmptySet, FS_Singleton
  <2> QED
    BY <2>1, <2>5
<1> QED
  BY <1>2, <1>3

(* Only a refused claim wipes.                                              *)
LEMMA WipesDestroy ==
  ASSUME NoneAssumption, JoinShape, Next, want'.state = "destroyed", want.state # "destroyed"
  PROVE  \E p \in pings : Wipe(p)
<1>0. want \in Page
  BY ShapeGives
<1>1. ASSUME NEW t \in Token, Approver(t) \/ Prune(t) PROVE FALSE
  BY <1>1 DEF Approver, Approve, PostToken, Forsake, Prune
<1>2. ASSUME NEW r \in Room, Switch(r) \/ Load(r) PROVE FALSE
  <2>1. PICK s : /\ s # "destroyed"
                 /\ \E t : want' = [room |-> r, state |-> s, token |-> t]
    <3>1. PICK a, b : /\ a = IF stored[r] = None THEN "lobby" ELSE "init"
                      /\ b = IF stored[r] = None THEN "lobby" ELSE "in"
      OBVIOUS
    <3>2. \/ want' = [room |-> r, state |-> a, token |-> None]
          \/ want' = [room |-> r, state |-> b, token |-> stored[r]]
      BY <1>2, <3>1 DEF Switch, Load, Enter
    <3> QED
      BY <3>1, <3>2
  <2> QED
    BY <2>1
<1>3. ASSUME NEW k \in Knock, Asking(k) PROVE FALSE
  BY <1>3 DEF Asking, SendKnock, KnockAnswered, KnockFailed
<1>4. ASSUME Render \/ OpenLobby \/ CloseLobby \/ Retry \/ Tick PROVE FALSE
  BY <1>4 DEF Render, OpenLobby, CloseLobby, Retry, Tick
<1>5. ASSUME NEW u \in unwraps, Adopt(u) \/ Admit(u) PROVE FALSE
  BY <1>0, <1>5 DEF Adopt, Admit, Page
<1>6. ASSUME NEW p \in pings, Presence(p) \/ Lose(p) PROVE FALSE
  BY <1>6 DEF Presence, Lose
<1>7. ASSUME NEW p \in pings, Recognized(p) \/ Unrecognized(p) \/ Confirmed(p) PROVE FALSE
  BY <1>0, <1>7 DEF Recognized, Unrecognized, Confirmed, Page
<1> QED
  BY <1>1, <1>2, <1>3, <1>4, <1>5, <1>6, <1>7 DEF Next, Answered

(* A part that is not at work keeps its invariant.                          *)
LEMMA SeatsSame ==
  ASSUME Seats, UNCHANGED joining
  PROVE  Seats'
<1>1. /\ StoredAreHeld' = StoredAreHeld /\ ActiveIsStored' = ActiveIsStored
      /\ LobbyIsOpen' = LobbyIsOpen
  BY DEF joining, StoredAreHeld, ActiveIsStored, LobbyIsOpen, Held, RoomOfToken
<1>2. PingsAreTrue' = PingsAreTrue
  BY DEF joining, PingsAreTrue, Used, Held, RoomOfToken
<1>3. UnwrapsAreOne' = UnwrapsAreOne
  BY DEF joining, UnwrapsAreOne, Held, RoomOfToken
<1>4. PageHasStored' = PageHasStored
  BY DEF joining, PageHasStored, Used, Held, RoomOfToken
<1>5. InitIsAlone' = InitIsAlone
  BY DEF joining, InitIsAlone, OfInit
<1>6. OwnAreLive' = OwnAreLive
  BY DEF joining, OwnAreLive, Own, OfInit
<1>7. Seated' = Seated
  <2>1. OfInit' = OfInit /\ want' = want /\ row' = row /\ tag' = tag /\ (error' <=> error)
    BY DEF joining, OfInit
  <2> QED
    BY <2>1, Zenon DEF Seated
<1> QED
  BY <1>1, <1>2, <1>3, <1>4, <1>5, <1>6, <1>7 DEF Seats

LEMMA JoinStill ==
  ASSUME JoinInv, UNCHANGED joining
  PROVE  JoinInv'
<1>1. TypeOK'
  <2>1. JoinType' /\ JoinFlags'
    <3>1. JoinType /\ JoinFlags
      BY JoinTypes DEF JoinInv
    <3>2. JoinType'
      BY <3>1 DEF JoinType, joining
    <3>3. JoinFlags'
      BY <3>1, Zenon DEF JoinFlags, joining
    <3> QED
      BY <3>2, <3>3
  <2> QED
    BY <2>1, Zenon DEF TypeOK, JoinType, JoinFlags
<1>2. Opened' /\ Asked'
  BY DEF JoinInv, Opened, Asked, joining
<1>3. crossed' <=> crossed
  BY Zenon DEF joining
<1> QED
  BY <1>1, <1>2, <1>3, SeatsSame DEF JoinInv

LEMMA ChannelsStill ==
  ASSUME ChannelInv, UNCHANGED channels
  PROVE  ChannelInv'
<1>1. C!TypeOK'
  BY Zenon DEF ChannelInv, C!TypeOK, channels
<1>2. Cleared' /\ Kinds' /\ MembersExist' /\ WaysOut'
  BY DEF ChannelInv, Cleared, Kinds, MembersExist, WaysOut, channels
<1>3. mixed' <=> mixed
  BY Zenon DEF channels
<1>4. LoadsHere' /\ Ends' /\ C!DeadScreenIsDead'
  BY <1>3 DEF ChannelInv, LoadsHere, Ends, C!DeadScreenIsDead, channels
<1> QED
  BY <1>1, <1>2, <1>4 DEF ChannelInv

LEMMA WritingStill ==
  ASSUME ComposerInv, UNCHANGED composer
  PROVE  ComposerInv'
<1>1. P!TypeOK'
  BY Zenon DEF ComposerInv, P!TypeOK, composer
<1>2. OneSend' /\ PointersAreLocal'
  BY DEF ComposerInv, OneSend, PointersAreLocal, composer
<1>3. TakenOnce' /\ TakenIsGone' /\ BatchIsGone' /\ DraftIsNew'
  BY DEF ComposerInv, TakenOnce, TakenIsGone, BatchIsGone, DraftIsNew, Taken, Flying, Waiting,
         Says, composer
<1> QED
  BY <1>1, <1>2, <1>3 DEF ComposerInv

LEMMA LocksStill ==
  ASSUME LockInv, UNCHANGED lock
  PROVE  LockInv'
<1>1. LockType'
  BY DEF LockInv, LockType, lock
<1>2. LockFlags'
  BY Zenon DEF LockInv, LockFlags, lock
<1>3. Locking'
  BY Zenon DEF LockInv, Locking, L!Armed, lock
<1> QED
  BY <1>1, <1>2, <1>3 DEF LockInv

LEMMA WindowsStill ==
  ASSUME WindowInv, UNCHANGED window
  PROVE  WindowInv'
BY DEF WindowInv, window, W!TypeOK, Listed, Distinct, EndsBelow

LEMMA BlocksStill ==
  ASSUME BlockInv, UNCHANGED blocks
  PROVE  BlockInv'
BY DEF BlockInv, blocks, B!TypeOK, B!DiskIsMasked, B!ShownIsSaid, PostsAreOnWire

-----------------------------------------------------------------------------
(* The sum.                                                                 *)
PhoneInv == JoinInv /\ ChannelInv /\ ComposerInv /\ LockInv /\ WindowInv /\ BlockInv

LEMMA PhoneBegins ==
  ASSUME PhoneInit
  PROVE  PhoneInv
<1>1. /\ Init /\ C!Init /\ P!Init /\ L!Init /\ W!Init /\ B!Init
      /\ C!DistinctAssumption /\ P!BoundsAssumption /\ L!AgeAssumption
      /\ W!SizeAssumption /\ B!ValueAssumption
  BY PartsAssumption DEF PhoneInit, PartsAssumption
<1> QED
  BY <1>1, NoneAssumption, BoundsAssumption, JoinBegins, ChannelsBegin, WritingBegins,
     LocksBegin, WindowsBegin, BlocksBegin
     DEF PhoneInv

LEMMA PhoneKept ==
  ASSUME PhoneInv, [PhoneNext]_all
  PROVE  PhoneInv'
<1>1. /\ JoinInv /\ ChannelInv /\ ComposerInv /\ LockInv /\ WindowInv /\ BlockInv
  BY DEF PhoneInv
<1>2. /\ C!DistinctAssumption /\ P!NoneAssumption /\ P!BoundsAssumption /\ L!AgeAssumption
      /\ W!SizeAssumption /\ B!ValueAssumption
  BY PartsAssumption DEF PartsAssumption
<1>3. CASE UNCHANGED all
  BY <1>1, <1>3, JoinStill, ChannelsStill, WritingStill, LocksStill, WindowsStill, BlocksStill
     DEF all, PhoneInv
<1>4. CASE Joins(Next)
  BY <1>1, <1>4, NoneAssumption, BoundsAssumption, JoinKept, ChannelsStill, WritingStill,
     LocksStill, WindowsStill, BlocksStill
     DEF Joins, PhoneInv
<1>5. CASE Keeps(C!Next)
  BY <1>1, <1>2, <1>5, JoinStill, ChannelsKept, WritingStill, LocksStill, WindowsStill,
     BlocksStill
     DEF Keeps, PhoneInv
<1>6. CASE Writes(P!Next)
  BY <1>1, <1>2, <1>6, JoinStill, ChannelsStill, WritingKept, LocksStill, WindowsStill,
     BlocksStill
     DEF Writes, PhoneInv
<1>7. CASE Locks(L!Next)
  BY <1>1, <1>2, <1>7, JoinStill, ChannelsStill, WritingStill, LocksKept, WindowsStill,
     BlocksStill
     DEF Locks, PhoneInv
<1>8. CASE Scrolls(W!Next)
  BY <1>1, <1>2, <1>8, JoinStill, ChannelsStill, WritingStill, LocksStill, WindowsKept,
     BlocksStill
     DEF Scrolls, PhoneInv
<1>9. CASE Replies(B!Next)
  BY <1>1, <1>2, <1>9, JoinStill, ChannelsStill, WritingStill, LocksStill, WindowsStill,
     BlocksKept
     DEF Replies, PhoneInv
<1> QED
  BY <1>3, <1>4, <1>5, <1>6, <1>7, <1>8, <1>9 DEF PhoneNext

LEMMA SpecSteps == PhoneSpec => PhoneInit /\ [][PhoneNext]_all
BY PTL DEF PhoneSpec

(* The invariants of the parts hold throughout.                             *)
THEOREM InvariantHolds == PhoneSpec => []PhoneInv
<1>1. PhoneInit /\ [][PhoneNext]_all => []PhoneInv
  BY PhoneBegins, PhoneKept, PTL
<1> QED
  BY <1>1, SpecSteps, PTL

(* Every part's variables keep their types, whatever the bounds.            *)
THEOREM TypesHold == PhoneSpec => []AllTypesOK
<1>1. PhoneInv => AllTypesOK
  <2> SUFFICES ASSUME PhoneInv PROVE AllTypesOK
    OBVIOUS
  <2>1. TypeOK /\ C!TypeOK /\ P!TypeOK /\ W!TypeOK /\ B!TypeOK
    BY DEF PhoneInv, JoinInv, ChannelInv, ComposerInv, WindowInv, BlockInv
  <2>2. LockType /\ LockFlags
    BY DEF PhoneInv, LockInv
  <2>3. L!TypeOK
    BY <2>2, Zenon DEF LockType, LockFlags, L!TypeOK
  <2> QED
    BY <2>1, <2>3 DEF AllTypesOK
<1> QED
  BY <1>1, InvariantHolds, PTL

(* However sends fail and cross, what is typed once arrives once as a plain *)
(* message and once in a batch, unless the answer to a send was lost; a     *)
(* plain message points into its own room, and the history keeps what was   *)
(* answered to a block but for the secrets.                                 *)
THEOREM DraftsSound == PhoneSpec => []DraftsAreSound
<1>1. PhoneInv => DraftsAreSound
  BY ComposerIsSound DEF PhoneInv, BlockInv, DraftsAreSound
<1> QED
  BY <1>1, InvariantHolds, PTL

(* However page loads, hides, proofs and changes of the configuration       *)
(* cross, an armed app that was in the background is locked, but for a page *)
(* that its own fresh marker or unlock under way keeps open; and an open    *)
(* page is in an unlocked session, unless the lock was armed again with an  *)
(* earlier PIN.                                                             *)
THEOREM LockAlwaysHolds == PhoneSpec => []LockHolds
<1>1. PhoneInv => LockHolds
  <2> SUFFICES ASSUME Locking PROVE LockHolds
    BY DEF PhoneInv, LockInv
  <2>1. L!AwayIsLocked
    BY Zenon DEF Locking, L!AwayIsLocked
  <2>2. L!OpenIsRemembered
    BY Zenon DEF Locking, L!OpenIsRemembered
  <2> QED
    BY <2>1, <2>2 DEF LockHolds
<1> QED
  BY <1>1, InvariantHolds, PTL

(* Whatever comes while the window is paged and trimmed, the list is not    *)
(* blank, a reader keeps his place, and one at the end sees what is new.    *)
THEOREM WindowStaysAlways == PhoneSpec => WindowStays
<1>1. PhoneInv => W!NeverBlank
  BY WindowIsNotBlank DEF PhoneInv
<1>2. W!SizeAssumption
  BY PartsAssumption DEF PartsAssumption
<1>3. PhoneInv /\ [PhoneNext]_all =>
        [W!Effects /\ start > 0 /\ seen # <<>> /\ W!IsSuffix(seen, items) =>
           W!Slice(items, start', end') = W!Slice(seen, start, end)]_W!vars
  BY <1>2, ReaderStays DEF PhoneInv
<1>4. PhoneInv /\ [PhoneNext]_all =>
        [W!Effects /\ start = 0 /\ items # <<>> /\ seen # <<>> => start' = 0 /\ end' > 0]_W!vars
  BY <1>2, NewestStays DEF PhoneInv
<1>5. PhoneSpec => W!ReadingStays
  BY <1>3, InvariantHolds, SpecSteps, PTL DEF W!ReadingStays
<1>6. PhoneSpec => W!NewestIsShown
  BY <1>4, InvariantHolds, SpecSteps, PTL DEF W!NewestIsShown
<1> QED
  BY <1>1, <1>5, <1>6, InvariantHolds, PTL DEF WindowStays

(* However screens, loads and ways out of rooms cross, of a room that is    *)
(* wiped nothing stays, and while one is listed nobody but the user touches *)
(* the name he gave it, nor does it lose its kind or its daemon.            *)
THEOREM RoomsStay == PhoneSpec => RoomsAreKept
<1>1. PhoneInv => C!WipeIsComplete /\ C!DeadScreenIsDead
  BY WipedIsGone DEF PhoneInv, ChannelInv
<1>2. [PhoneNext]_all => [C!Next]_C!vars
  BY DEF PhoneNext, all, channels, C!vars, C!phone, C!page, Joins, Keeps, Writes, Locks,
         Scrolls, Replies
<1>3. C!DistinctAssumption
  BY PartsAssumption DEF PartsAssumption
<1>4. PhoneInv /\ [PhoneNext]_all =>
        [\A r \in C!Channel : card[r] # None /\ card'[r] # None =>
          /\ card[r].nick = "mine" =>
                card'[r].nick = "mine" \/ \E n \in {None} : C!Rename(r, n)
          /\ card[r].kind # "chat" => card'[r].kind = card[r].kind
          /\ card[r].parent # None => card'[r].parent = card[r].parent
          /\ card[r].auto = "topic" => card'[r].auto = "topic"]_C!vars
  <2> SUFFICES ASSUME ChannelInv, C!Next,
                      NEW r \in C!Channel, card[r] # None, card'[r] # None
               PROVE  /\ card[r].nick = "mine" =>
                            card'[r].nick = "mine" \/ \E n \in {None} : C!Rename(r, n)
                      /\ card[r].kind # "chat" => card'[r].kind = card[r].kind
                      /\ card[r].parent # None => card'[r].parent = card[r].parent
                      /\ card[r].auto = "topic" => card'[r].auto = "topic"
    BY <1>2 DEF PhoneInv
  <2> QED
    BY <1>3, IdentityStays
<1>5. PhoneSpec => C!IdentityLasts
  BY <1>4, InvariantHolds, SpecSteps, PTL DEF C!IdentityLasts
<1> QED
  BY <1>1, <1>5, InvariantHolds, PTL DEF RoomsAreKept

(* However the phone is opened, closed and moved between rooms while        *)
(* tokens, pings and prunings cross, a page that is in has a seat or the    *)
(* means to it, it has one seat in a room, and what it knows of a room is   *)
(* wiped, and a token burned, only for cause: until two unwraps meet, or a  *)
(* room is left during one.                                                 *)
THEOREM SeatsHold == PhoneSpec => SeatIsSound
<1>1. PhoneInv => NoZombie /\ OneSeat
  BY NoneAssumption, SeatsAreSeats DEF PhoneInv
<1>2. [PhoneNext]_all => [Next]_vars
  BY DEF PhoneNext, all, joining, vars, relay, knocking, bounds, Joins, Keeps, Writes, Locks,
         Scrolls, Replies
<1>3. ASSUME PhoneInv, Next, ~crossed
      PROVE  /\ want'.state = "destroyed" /\ want.state # "destroyed" =>
                   stored[want.room] \in Token /\ row[stored[want.room]] = "gone"
             /\ \A p \in pings :
                   Presence(p) /\ row[p.token] = "pending" /\ row'[p.token] = "gone" =>
                       tag # p.token
  <2>1. JoinShape /\ Seats
    BY <1>3, JoinTypes DEF PhoneInv, JoinInv, JoinShape
  <2>2. ASSUME want'.state = "destroyed", want.state # "destroyed"
        PROVE  stored[want.room] \in Token /\ row[stored[want.room]] = "gone"
    BY <1>3, <2>1, <2>2, NoneAssumption, WipesDestroy, SeatsWiped
  <2>3. ASSUME NEW p \in pings, Presence(p), row[p.token] = "pending", row'[p.token] = "gone"
        PROVE  tag # p.token
    BY <2>1, <2>3, NoneAssumption, SeatsServed
  <2> QED
    BY <2>2, <2>3
<1>4. PhoneInv /\ [PhoneNext]_all =>
        [~crossed =>
           /\ want'.state = "destroyed" /\ want.state # "destroyed" =>
                 stored[want.room] \in Token /\ row[stored[want.room]] = "gone"
           /\ \A p \in pings :
                 Presence(p) /\ row[p.token] = "pending" /\ row'[p.token] = "gone" =>
                     tag # p.token]_vars
  BY <1>2, <1>3
<1>5. PhoneSpec => LostForCause
  BY <1>4, InvariantHolds, SpecSteps, PTL DEF LostForCause
<1> QED
  BY <1>1, <1>5, InvariantHolds, PTL DEF SeatIsSound
=============================================================================
