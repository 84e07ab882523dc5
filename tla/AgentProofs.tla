---------------------------- MODULE AgentProofs ----------------------------
(***************************************************************************)
(* Theorems about what carries one agent's work, for any messages, phones, *)
(* bounds and outputs: the daemon's turns, the runner that reads the       *)
(* agent, wrap, a subscription and the parser of an answer.                *)
(*                                                                         *)
(* Each part has an inductive invariant of its own, kept by the part's     *)
(* steps; as no step is of two parts, together they are one of the sum.    *)
(*                                                                         *)
(* The heart of the first is the replay ledger.  What is on the disk is    *)
(* never longer than Cap, so a daemon that restores from it drops nothing  *)
(* that is still young; and every list on its way to the disk is covered   *)
(* by all the later ones, so no late write takes an entry back.            *)
(***************************************************************************)
EXTENDS MCAgent, TLAPS, Integers, FiniteSetTheorems, FunctionTheorems,
        SequenceTheorems, WellFoundedInduction

-----------------------------------------------------------------------------
(* hisohiso wrap: what is understood is taken or waits, in that order; all  *)
(* of it has passed the ledger; and nothing waits unless a turn runs.       *)
WrapType ==
    /\ phase \in {"pairing", "chat", "dead"}
    /\ knocks \in [Phone -> {"out", "approving", "wrapping", "in", "failed"}]
    /\ opening \subseteq Text /\ taking \subseteq Text
    /\ left \in 0 .. MaxChunk /\ notices \in Nat
    /\ heard \in Seq(Text) /\ taken \in Seq(Text)
    /\ waiting \in Seq(Text) /\ wturn \in Seq(Text)

WrapFlags == room \in BOOLEAN /\ stopping \in BOOLEAN /\ busy \in BOOLEAN

WrapLoop ==
    /\ W!TakenOnce /\ W!NothingWaitsIdle
    /\ busy <=> wturn # <<>>
    /\ \A i \in DOMAIN heard : heard[i] \in taking \ opening
    /\ opening \subseteq taking

WrapInv == WrapType /\ WrapFlags /\ WrapLoop

(* It holds at the start ...                                                *)
LEMMA WrapBegins ==
    ASSUME W!ChunkAssumption, W!Init
    PROVE  WrapInv
<1>1. WrapType
  BY DEF W!Init, WrapType, W!ChunkAssumption
<1>2. WrapFlags
  BY DEF W!Init, WrapFlags
<1>3. WrapLoop
  BY DEF W!Init, WrapLoop, W!TakenOnce, W!NothingWaitsIdle
<1> QED
  BY <1>1, <1>2, <1>3 DEF WrapInv

(* What leaves the loop's variables alone leaves its invariant.             *)
LEMMA WrapLoopAlone ==
    ASSUME WrapLoop, UNCHANGED <<taking, opening, busy, wturn, waiting, heard, taken>>
    PROVE  WrapLoop'
BY DEF WrapLoop, W!TakenOnce, W!NothingWaitsIdle

(* ... and every step of wrap keeps it.                                     *)
LEMMA WrapKept ==
    ASSUME W!ChunkAssumption, WrapInv, W!Next
    PROVE  WrapInv'
<1>a. MaxChunk \in Nat \ {0}
  BY DEF W!ChunkAssumption
<1>b. WrapType /\ WrapFlags /\ WrapLoop
  BY DEF WrapInv
<1>1. ASSUME NEW p \in Phone, W!PairWith(p)
      PROVE  WrapInv'
  <2> USE <1>1 DEF W!PairWith, W!Knock, W!Approved, W!Wrapped, W!KnockFails, W!loop
  <2>1. WrapType'
    BY <1>b DEF WrapType, WrapFlags
  <2>2. WrapFlags'
    BY <1>b DEF WrapFlags
  <2>3. UNCHANGED <<taking, opening, busy, wturn, waiting, heard, taken>>
    OBVIOUS
  <2>4. WrapLoop'
    BY <1>b, <2>3, WrapLoopAlone
  <2> QED
    BY <2>1, <2>2, <2>4 DEF WrapInv
<1>2. ASSUME NEW m \in Text, W!Deliver(m) \/ W!Undecryptable(m)
      PROVE  WrapInv'
  <2> USE <1>2 DEF W!Deliver, W!Undecryptable
  <2>1. WrapType'
    BY <1>b DEF WrapType, WrapFlags
  <2>2. WrapFlags'
    BY <1>b DEF WrapFlags
  <2>3. UNCHANGED <<busy, wturn, waiting, heard, taken>>
    OBVIOUS
  <2>4. \A i \in DOMAIN heard' : heard'[i] \in taking' \ opening'
    BY <1>b, <2>3 DEF WrapType, WrapLoop
  <2>5. opening' \subseteq taking'
    BY <1>b DEF WrapLoop
  <2>6. WrapLoop'
    BY <1>b, <2>3, <2>4, <2>5 DEF WrapLoop, W!TakenOnce, W!NothingWaitsIdle
  <2> QED
    BY <2>1, <2>2, <2>6 DEF WrapInv
<1>3. ASSUME NEW m \in Text, W!Decrypted(m)
      PROVE  WrapInv'
  <2>1. /\ UNCHANGED <<phase, knocks, room, stopping, taking>> /\ m \in opening
        /\ opening' = opening \ {m} /\ heard' = Append(heard, m)
    BY <1>3 DEF W!Decrypted
  <2>2. \/ /\ busy /\ waiting' = Append(waiting, m) /\ notices' = notices + 1
           /\ UNCHANGED <<busy, wturn, left, taken>>
        \/ /\ ~busy /\ busy' = TRUE /\ wturn' = <<m>> /\ left' = 0 /\ taken' = taken \o <<m>>
           /\ UNCHANGED <<waiting, notices>>
    BY <1>3 DEF W!Decrypted, W!Run
  <2>3. /\ Len(heard) \in Nat /\ DOMAIN heard = 1..Len(heard) /\ Len(heard') = Len(heard) + 1
        /\ \A i \in 1..Len(heard) : heard'[i] = heard[i] /\ heard[i] # m
        /\ heard'[Len(heard) + 1] = m /\ DOMAIN heard' = 1..(Len(heard) + 1)
    BY <1>b, <2>1 DEF WrapType, WrapLoop
  <2>4. \A i, j \in DOMAIN heard' : heard'[i] = heard'[j] => i = j
    BY <1>b, <2>3 DEF WrapLoop, W!TakenOnce
  <2>5. /\ \A i \in DOMAIN heard' : heard'[i] \in taking' \ opening'
        /\ opening' \subseteq taking'
    BY <1>b, <2>1, <2>3 DEF WrapType, WrapLoop
  <2>6. CASE busy
    <3>1. /\ waiting' = Append(waiting, m) /\ notices' = notices + 1
          /\ UNCHANGED <<busy, wturn, left, taken>>
      BY <2>2, <2>6
    <3>2. WrapType'
      BY <1>b, <2>1, <3>1 DEF WrapType
    <3>3. taken' \o waiting' = heard'
      <4>1. waiting' = waiting \o <<m>> /\ heard' = heard \o <<m>>
        BY <1>b, <2>1, <3>1, AppendIsConcat DEF WrapType
      <4>2. taken \o (waiting \o <<m>>) = (taken \o waiting) \o <<m>>
        BY <1>b, <2>1, ConcatAssociative DEF WrapType
      <4> QED
        BY <1>b, <3>1, <4>1, <4>2 DEF WrapLoop, W!TakenOnce
    <3>4. WrapLoop'
      BY <1>b, <2>4, <2>5, <2>6, <3>1, <3>3 DEF WrapLoop, W!TakenOnce, W!NothingWaitsIdle
    <3> QED
      BY <1>b, <2>1, <3>1, <3>2, <3>4 DEF WrapInv, WrapFlags
  <2>7. CASE ~busy
    <3>1. /\ busy' = TRUE /\ wturn' = <<m>> /\ left' = 0 /\ taken' = taken \o <<m>>
          /\ UNCHANGED <<waiting, notices>>
      BY <2>2, <2>7
    <3>2. WrapType'
      BY <1>a, <1>b, <2>1, <3>1 DEF WrapType
    <3>3. waiting = <<>> /\ wturn' # <<>>
      BY <1>b, <2>7, <3>1 DEF WrapLoop, W!NothingWaitsIdle
    <3>4. taken' \o waiting' = heard'
      BY <1>b, <2>1, <3>1, <3>3 DEF WrapType, WrapLoop, W!TakenOnce
    <3>5. WrapLoop'
      BY <2>4, <2>5, <3>1, <3>3, <3>4 DEF WrapLoop, W!TakenOnce, W!NothingWaitsIdle
    <3> QED
      BY <1>b, <2>1, <3>1, <3>2, <3>5 DEF WrapInv, WrapFlags
  <2> QED
    BY <2>6, <2>7
<1>4. CASE W!AckSent \/ W!AgentEnds \/ W!Posted
  <2> USE <1>4 DEF W!AckSent, W!AgentEnds, W!Posted
  <2>1. WrapType'
    BY <1>a, <1>b DEF WrapType, WrapFlags
  <2>2. WrapFlags'
    BY <1>b DEF WrapFlags
  <2>3. UNCHANGED <<taking, opening, busy, wturn, waiting, heard, taken>>
    OBVIOUS
  <2>4. WrapLoop'
    BY <1>b, <2>3, WrapLoopAlone
  <2> QED
    BY <2>1, <2>2, <2>4 DEF WrapInv
<1>5. CASE W!TurnEnds
  <2> USE <1>5 DEF W!TurnEnds, W!Run
  <2>1. WrapType'
    <3>1. CASE waiting # <<>>
      <4>1. /\ UNCHANGED <<phase, knocks, opening, taking, notices, heard>>
            /\ left' = 0 /\ waiting' = <<>> /\ wturn' = waiting /\ taken' = taken \o waiting
        BY <3>1
      <4> QED
        BY <1>a, <1>b, <4>1 DEF WrapType
    <3>2. CASE waiting = <<>>
      BY <1>a, <1>b, <3>2 DEF WrapType
    <3> QED
      BY <3>1, <3>2
  <2>2. WrapFlags'
    BY <1>b DEF WrapFlags
  <2>3. WrapLoop'
    <3>1. CASE waiting # <<>>
      <4>1. waiting' = <<>> /\ wturn' = waiting /\ taken' = taken \o waiting /\ busy'
        BY <3>1
      <4>2. taken' \o waiting' = taken \o waiting
        BY <1>b, <4>1 DEF WrapType
      <4> QED
        BY <1>b, <3>1, <4>1, <4>2 DEF WrapLoop, W!TakenOnce, W!NothingWaitsIdle
    <3>2. CASE waiting = <<>>
      BY <1>b, <3>2 DEF WrapType, WrapFlags, WrapLoop, W!TakenOnce, W!NothingWaitsIdle
    <3> QED
      BY <3>1, <3>2
  <2> QED
    BY <2>1, <2>2, <2>3 DEF WrapInv
<1>6. CASE W!PostFails \/ W!End
  <2> USE <1>6 DEF W!PostFails, W!End, W!Interrupt, W!Disbanded, W!Exit, W!PhoneDisbands,
                   W!Destroyed, W!loop
  <2>1. WrapType'
    BY <1>b DEF WrapType, WrapFlags
  <2>2. WrapFlags'
    BY <1>b DEF WrapFlags
  <2>3. UNCHANGED <<taking, opening, busy, wturn, waiting, heard, taken>>
    OBVIOUS
  <2>4. WrapLoop'
    BY <1>b, <2>3, WrapLoopAlone
  <2> QED
    BY <2>1, <2>2, <2>4 DEF WrapInv
<1> QED
  BY <1>1, <1>2, <1>3, <1>4, <1>5, <1>6 DEF W!Next, W!Inbound, W!Turn
-----------------------------------------------------------------------------
(* A subscription: the flags are Booleans, and one that listens no more has *)
(* a reason.                                                                *)
StreamType ==
    /\ es \in {"connecting", "open", "closed"}
    /\ lost \in {"no", "jwt", "floor", "status"}
    /\ since \in 0 .. MaxSince /\ faults \in 0 .. MaxFault

StreamFlags ==
    /\ silent \in BOOLEAN /\ jwt \in BOOLEAN /\ refreshing \in BOOLEAN
    /\ closed \in BOOLEAN /\ net \in BOOLEAN /\ member \in BOOLEAN

StreamInv == StreamType /\ StreamFlags /\ D!DeafForCause

LEMMA StreamBegins ==
    ASSUME D!BoundsAssumption, D!Init
    PROVE  StreamInv
<1>1. StreamType
  BY DEF D!Init, D!BoundsAssumption, StreamType
<1>2. StreamFlags /\ D!DeafForCause
  BY DEF D!Init, StreamFlags, D!DeafForCause
<1> QED
  BY <1>1, <1>2 DEF StreamInv

LEMMA StreamKept ==
    ASSUME D!BoundsAssumption, StreamInv, D!Next
    PROVE  StreamInv'
<1>a. MaxSince \in Nat /\ MaxFault \in Nat
  BY DEF D!BoundsAssumption
<1>b. StreamType /\ StreamFlags /\ D!DeafForCause
  BY DEF StreamInv
<1> USE DEF D!world
<1>1. CASE D!Stream
  <2> USE <1>1 DEF D!Stream, D!Connected, D!Unauthorized, D!Refreshed, D!RefreshFails, D!Stall,
                   D!Close
  <2>1. StreamType'
    BY <1>a, <1>b DEF StreamType, D!Fault
  <2>2. StreamFlags'
    BY <1>b DEF StreamFlags
  <2>3. D!DeafForCause'
    BY <1>b DEF D!DeafForCause
  <2> QED
    BY <2>1, <2>2, <2>3 DEF StreamInv
<1>2. CASE D!World
  <2> USE <1>2 DEF D!World, D!Drop, D!BadGateway, D!Silence, D!NetDown, D!NetUp, D!Expire,
                   D!Removed, D!Tick
  <2>1. StreamType'
    BY <1>a, <1>b DEF StreamType, D!Fault
  <2>2. StreamFlags'
    BY <1>b DEF StreamFlags
  <2>3. D!DeafForCause'
    BY <1>b DEF D!DeafForCause
  <2> QED
    BY <2>1, <2>2, <2>3 DEF StreamInv
<1> QED
  BY <1>1, <1>2 DEF D!Next
-----------------------------------------------------------------------------
(* A set of naturals has a smallest element.                                *)
LEMMA MinExists ==
    ASSUME NEW X \in SUBSET Nat, X # {}
    PROVE  \E x \in X : \A y \in X : x <= y
<1> DEFINE Less == OpToRel(<, Nat)
<1>1. IsWellFoundedOn(Less, Nat)
  BY NatLessThanWellFounded
<1>2. ASSUME NEW x \in Nat, NEW y \in Nat, y < x
      PROVE  <<y, x>> \in Less
  BY <1>2 DEF OpToRel
<1> HIDE DEF Less
<1>3. PICK x \in X : \A y \in X : <<y, x>> \notin Less
  BY <1>1, WFMin
<1>4. \A y \in X : ~(y < x)
  BY <1>2, <1>3
<1> QED
  BY <1>3, <1>4

(* A set of naturals has a largest element if it is bounded.                *)
LEMMA MaxExists ==
    ASSUME NEW n \in Nat, NEW X \in SUBSET (0..n), X # {}
    PROVE  \E x \in X : \A y \in X : x >= y
<1> DEFINE T == {n - i : i \in X}
<1>1. \A i \in X : i \in Nat /\ i <= n /\ n - i \in T
  OBVIOUS
<1>2. T \in SUBSET Nat /\ \A t \in T : \E x \in X : t = n - x
  BY <1>1
<1> HIDE DEF T
<1>3. PICK t \in T : \A u \in T : t <= u
  BY <1>1, <1>2, MinExists
<1>4. PICK x \in X : t = n - x
  BY <1>2, <1>3
<1>5. ASSUME NEW y \in X
      PROVE  x >= y
  BY <1>1, <1>3, <1>4
<1> QED
  BY <1>5

(* So Max and Min are what they say.                                        *)
LEMMA MaxIs ==
    ASSUME NEW n \in Nat, NEW X \in SUBSET (0..n), X # {}
    PROVE  O!Max(X) \in X /\ \A y \in X : O!Max(X) >= y
BY MaxExists DEF O!Max

LEMMA MinIs ==
    ASSUME NEW X \in SUBSET Nat, X # {}
    PROVE  O!Min(X) \in X /\ \A y \in X : O!Min(X) <= y
BY MinExists DEF O!Min

-----------------------------------------------------------------------------
(* The scan of an output: outside a string and with no brace open wherever  *)
(* what it has gone over leaves the rest readable, it has missed no         *)
(* envelope that is.                                                        *)
OutputType ==
    /\ out \in Seq(O!Prose \cup O!Envelope \cup O!Cut) /\ out # <<>>
    /\ \A i \in 1..(Len(out) - 1) : out[i] \notin O!Cut
    /\ next \in 1..(Len(out) + 1) /\ depth \in 0..(next - 1)
    /\ envelopes \subseteq {i \in 1..(next - 1) : out[i] \in O!Envelope}

ScanFollows ==
    /\ O!Readable(next) => ~inString /\ depth = 0
    /\ next > 1 /\ out[next - 1] = "open" /\ O!Readable(next - 1) => ~inString /\ depth = 1
    /\ \A i \in 1..(next - 1) :
          out[i] \in O!Envelope /\ O!Readable(i) => i \in envelopes

ResultFollows ==
    /\ result # None => next = Len(out) + 1
    /\ O!AnswerIsFinal /\ O!NeverRaw
    /\ result \in [at : DOMAIN out, blocks : BOOLEAN, title : DOMAIN out \cup {None}]
                    \cup {Raw, None}

OutputInv == OutputType /\ inString \in BOOLEAN /\ ScanFollows /\ ResultFollows

LEMMA OutputBegins ==
    ASSUME O!RawAssumption, O!Init
    PROVE  OutputInv
<1>1. /\ out # <<>> /\ \A i \in 1..(Len(out) - 1) : out[i] \notin O!Cut
      /\ out \in O!SeqOf(O!Prose \cup O!Envelope \cup O!Cut, MaxPieces)
  <2>1. out \in O!Outputs
    BY DEF O!Init
  <2> QED
    BY <2>1 DEF O!Outputs
<1>2. out \in Seq(O!Prose \cup O!Envelope \cup O!Cut)
  <2>1. PICK n \in 0..MaxPieces : out \in [1..n -> O!Prose \cup O!Envelope \cup O!Cut]
    BY <1>1 DEF O!SeqOf
  <2> QED
    BY <2>1 DEF O!RawAssumption
<1>3. next = 1 /\ depth = 0 /\ inString = FALSE /\ envelopes = {} /\ result = None
  BY DEF O!Init
<1>4. Len(out) \in Nat
  BY <1>2
<1>5. OutputType
  BY <1>1, <1>2, <1>3, <1>4 DEF OutputType
<1>6. ScanFollows
  BY <1>3 DEF ScanFollows
<1>7. ResultFollows
  BY <1>3 DEF ResultFollows, O!AnswerIsFinal, O!NeverRaw, O!RawAssumption
<1> QED
  BY <1>3, <1>5, <1>6, <1>7 DEF OutputInv

(* How far one may read.                                                    *)
LEMMA ReadableStep ==
    ASSUME OutputType, next <= Len(out), O!Readable(next + 1)
    PROVE  /\ out[next] # "quote" /\ out[next] # "open"
           /\ \/ O!Readable(next)
              \/ /\ next > 1 /\ out[next - 1] = "open" /\ out[next] = "close"
                 /\ O!Readable(next - 1)
<1>1. next \in Nat \ {0}
  BY DEF OutputType
<1>2. \A k \in 1..next :
        out[k] # "quote" /\ (out[k] = "open" => k + 1 < next + 1 /\ out[k + 1] = "close")
  BY <1>1 DEF O!Readable
<1>3. out[next] # "quote" /\ out[next] # "open"
  BY <1>1, <1>2
<1>4. CASE next > 1 /\ out[next - 1] = "open"
  <2>1. out[next] = "close"
    BY <1>1, <1>2, <1>4
  <2>2. ASSUME NEW k \in 1..(next - 2), out[k] = "open"
        PROVE  k + 1 < next - 1 /\ out[k + 1] = "close"
    BY <1>1, <1>2, <1>4, <2>2
  <2> QED
    BY <1>1, <1>2, <1>3, <1>4, <2>1, <2>2 DEF O!Readable
<1>5. CASE ~(next > 1 /\ out[next - 1] = "open")
  <2>1. ASSUME NEW k \in 1..(next - 1), out[k] = "open"
        PROVE  k + 1 < next /\ out[k + 1] = "close"
    BY <1>1, <1>2, <1>5, <2>1
  <2> QED
    BY <1>1, <1>2, <1>3, <2>1 DEF O!Readable
<1> QED
  BY <1>4, <1>5

LEMMA OutputKept ==
    ASSUME O!RawAssumption, OutputInv, O!Next
    PROVE  OutputInv'
<1>a. OutputType /\ inString \in BOOLEAN /\ ScanFollows /\ ResultFollows
  BY DEF OutputInv
<1>b. Len(out) \in Nat \ {0} /\ DOMAIN out = 1..Len(out) /\ next \in Nat \ {0} /\ depth \in Nat
  BY <1>a DEF OutputType
<1>1. CASE O!Scan
  <2>1. /\ result = None /\ next <= Len(out) /\ next' = next + 1 /\ UNCHANGED <<out, result>>
        /\ inString' = IF out[next] = "quote" THEN ~inString ELSE inString
    BY <1>1 DEF O!Scan, O!Piece
  <2>2. /\ inString \/ out[next] \notin {"open", "close"} => depth' = depth
        /\ ~inString /\ out[next] = "open" => depth' = depth + 1
        /\ ~inString /\ out[next] = "close" => depth' = IF depth > 0 THEN depth - 1 ELSE depth
    <3>1. depth' = IF inString THEN depth
                   ELSE CASE out[next] = "open" -> depth + 1
                          [] out[next] = "close" /\ depth > 0 -> depth - 1
                          [] OTHER -> depth
      BY <1>1 DEF O!Scan, O!Piece
    <3> QED
      BY <1>a, <3>1
  <2>3. /\ ~inString /\ depth = 0 /\ out[next] \in O!Envelope
              => envelopes' = envelopes \cup {next}
        /\ \/ envelopes' = envelopes
           \/ out[next] \in O!Envelope /\ envelopes' = envelopes \cup {next}
    <3>1. envelopes' = IF ~inString /\ depth = 0 /\ out[next] \in O!Envelope
                       THEN envelopes \cup {next} ELSE envelopes
      BY <1>1 DEF O!Scan, O!Piece
    <3> QED
      BY <3>1
  <2>4. OutputType'
    <3>1. depth' \in 0..next
      BY <1>a, <1>b, <2>2 DEF OutputType
    <3>2. envelopes' \subseteq {i \in 1..next : out[i] \in O!Envelope}
      <4>1. envelopes \subseteq {i \in 1..next : out[i] \in O!Envelope} /\ next \in 1..next
        BY <1>a, <1>b DEF OutputType
      <4> QED
        BY <2>3, <4>1
    <3>3. next' \in 1..(Len(out) + 1) /\ next' - 1 = next
      BY <1>b, <2>1
    <3> QED
      BY <1>a, <2>1, <3>1, <3>2, <3>3 DEF OutputType
  <2>5. inString' \in BOOLEAN
    BY <1>a, <2>1
  <2>6. ASSUME O!Readable(next + 1)
        PROVE  ~inString' /\ depth' = 0
    <3>1. CASE O!Readable(next)
      BY <1>a, <1>b, <2>1, <2>2, <2>6, <3>1, ReadableStep DEF ScanFollows
    <3>2. CASE next > 1 /\ out[next - 1] = "open" /\ out[next] = "close" /\ O!Readable(next - 1)
      BY <1>a, <1>b, <2>1, <2>2, <3>2 DEF ScanFollows
    <3> QED
      BY <1>a, <2>1, <2>6, <3>1, <3>2, ReadableStep
  <2>7. ASSUME out[next] = "open", O!Readable(next)
        PROVE  ~inString' /\ depth' = 1
    BY <1>a, <2>1, <2>2, <2>7 DEF ScanFollows
  <2>8. ASSUME NEW i \in 1..next, out[i] \in O!Envelope, O!Readable(i)
        PROVE  i \in envelopes'
    <3>1. CASE i = next
      BY <1>a, <2>3, <2>8, <3>1 DEF ScanFollows
    <3>2. CASE i # next
      BY <1>a, <1>b, <2>3, <2>8, <3>2 DEF ScanFollows
    <3> QED
      BY <3>1, <3>2
  <2>9. ScanFollows'
    BY <1>b, <2>1, <2>6, <2>7, <2>8 DEF ScanFollows, O!Readable, O!Envelope
  <2>10. ResultFollows'
    BY <1>a, <1>b, <2>1 DEF ResultFollows, O!AnswerIsFinal, O!NeverRaw, O!RawAssumption
  <2> QED
    BY <2>4, <2>5, <2>9, <2>10 DEF OutputInv
<1>2. CASE O!Answer
  <2>1. /\ result = None /\ next > Len(out) /\ envelopes # {}
        /\ UNCHANGED <<out, next, depth, inString, envelopes>>
        /\ result' = [at |-> O!Chosen, blocks |-> O!HasBlocks(out[O!Chosen]), title |-> O!Title]
    BY <1>2 DEF O!Answer
  <2>2. next = Len(out) + 1 /\ envelopes \subseteq O!At(O!Envelope)
    <3>1. next = Len(out) + 1
      BY <1>a, <1>b, <2>1 DEF OutputType
    <3> QED
      BY <1>a, <1>b, <3>1 DEF OutputType, O!At
  <2> DEFINE rich == {i \in envelopes : O!HasBlocks(out[i])}
             titled == {i \in envelopes : O!HasTitle(out[i])}
  <2>3. /\ envelopes \in SUBSET (0..Len(out))
        /\ rich \in SUBSET envelopes /\ titled \in SUBSET envelopes
    BY <1>b, <2>2 DEF O!At
  <2>4. O!Chosen \in envelopes /\ (rich # {} => O!Chosen \in rich)
    <3>1. CASE rich # {}
      <4>1. O!Max(rich) \in rich
        BY <1>b, <2>3, <3>1, MaxIs
      <4> QED
        BY <3>1, <4>1 DEF O!Chosen
    <3>2. CASE rich = {}
      <4>1. O!Max(envelopes) \in envelopes
        BY <1>b, <2>1, <2>3, MaxIs
      <4> QED
        BY <3>2, <4>1 DEF O!Chosen
    <3> QED
      BY <3>1, <3>2
  <2>5. O!Title \in DOMAIN out \cup {None}
    <3>1. titled # {} => O!Max(titled) \in titled
      BY <1>b, <2>3, MaxIs
    <3> QED
      BY <1>b, <2>2, <2>3, <2>4, <3>1 DEF O!Title, O!At
  <2>6. /\ result' \in [at : DOMAIN out, blocks : BOOLEAN, title : DOMAIN out \cup {None}]
        /\ result' # Raw
    <3>1. O!Chosen \in DOMAIN out /\ O!HasBlocks(out[O!Chosen]) \in BOOLEAN
      BY <2>2, <2>4 DEF O!At, O!HasBlocks
    <3>2. result' \in [at : DOMAIN out, blocks : BOOLEAN, title : DOMAIN out \cup {None}]
      BY <2>1, <2>5, <3>1
    <3> QED
      BY <1>b, <3>2 DEF O!RawAssumption
  <2>7. ASSUME O!At(O!Envelope) # {}, \A i \in O!At(O!Envelope) : O!Readable(i)
        PROVE  LET answer == O!Max(IF O!Rich # {} THEN O!Rich ELSE O!At(O!Envelope))
               IN result' = [at |-> answer, blocks |-> O!Rich # {},
                             title |-> IF answer \in O!Titled THEN answer
                                       ELSE IF O!Titled # {} THEN O!Max(O!Titled) ELSE None]
    <3>1. envelopes = O!At(O!Envelope)
      BY <1>a, <1>b, <2>2, <2>7 DEF ScanFollows, O!At
    <3>2. rich = O!Rich /\ titled = O!Titled
      BY <3>1 DEF O!Rich, O!Titled
    <3>3. O!Chosen = O!Max(IF O!Rich # {} THEN O!Rich ELSE O!At(O!Envelope))
      BY <3>1, <3>2 DEF O!Chosen
    <3>4. O!HasBlocks(out[O!Chosen]) = (rich # {})
      <4>1. rich # {} => O!HasBlocks(out[O!Chosen])
        BY <2>4
      <4>2. rich = {} => ~O!HasBlocks(out[O!Chosen])
        BY <2>4
      <4>3. O!HasBlocks(out[O!Chosen]) <=> rich # {}
        BY <4>1, <4>2
      <4> QED
        BY <4>3 DEF O!HasBlocks
    <3>5. O!Title = IF O!Chosen \in titled THEN O!Chosen
                    ELSE IF titled # {} THEN O!Max(titled) ELSE None
      BY <2>4 DEF O!Title
    <3> QED
      BY <2>1, <3>2, <3>3, <3>4, <3>5
  <2>8. ResultFollows'
    <3>1. O!AnswerIsFinal'
      BY <2>1, <2>7 DEF O!AnswerIsFinal, O!At, O!Rich, O!Titled, O!Readable
    <3>2. O!NeverRaw'
      BY <2>6 DEF O!NeverRaw
    <3> QED
      BY <2>1, <2>2, <2>6, <3>1, <3>2 DEF ResultFollows
  <2>9. OutputType' /\ ScanFollows' /\ inString' \in BOOLEAN
    BY <1>a, <2>1 DEF OutputType, ScanFollows, O!Readable
  <2> QED
    BY <2>8, <2>9 DEF OutputInv
<1>3. CASE O!Salvage
  <2>1. /\ result = None /\ next > Len(out) /\ envelopes = {}
        /\ UNCHANGED <<out, next, depth, inString, envelopes>>
        /\ result' = IF O!Begins = {} THEN Raw
                     ELSE IF out[O!First] = "cutInText" THEN Raw
                     ELSE [at |-> O!First, blocks |-> O!HasBlocks(out[O!First]), title |-> None]
    BY <1>3 DEF O!Salvage
  <2>2. next = Len(out) + 1
    BY <1>a, <1>b, <2>1 DEF OutputType
  <2>3. \A i \in O!At(O!Envelope) : ~O!Readable(i)
    BY <1>a, <1>b, <2>1, <2>2 DEF ScanFollows, O!At
  <2>4. ASSUME O!Begins # {}
        PROVE  O!First \in O!Begins /\ \A i \in O!Begins : O!First <= i
    <3>1. O!Begins \in SUBSET Nat
      BY <1>b DEF O!Begins
    <3> QED
      BY <2>4, <3>1, MinIs DEF O!First
  <2>5. ASSUME NEW i \in O!At(O!TextFirst \cup (O!CutTextFirst \ {"cutInText"}))
        PROVE  out[O!First] # "cutInText" /\ O!Begins # {}
    <3>1. i \in O!Begins
      BY <2>5 DEF O!At, O!Begins
    <3>2. i \in 1..Len(out) /\ O!First <= i
      BY <1>b, <2>4, <3>1 DEF O!Begins
    <3>3. O!First \in 1..Len(out)
      BY <1>b, <2>4, <3>1 DEF O!Begins
    <3>4. ASSUME out[O!First] = "cutInText"
          PROVE  FALSE
      <4>1. O!First = Len(out)
        <5>1. out[O!First] \in O!Cut
          BY <3>4 DEF O!Cut, O!CutTextFirst
        <5>2. \A k \in 1..(Len(out) - 1) : out[k] \notin O!Cut
          BY <1>a DEF OutputType
        <5>3. O!First \notin 1..(Len(out) - 1)
          BY <5>1, <5>2
        <5>4. Len(out) \in Nat
          BY <1>b
        <5> QED
          BY <3>3, <5>3, <5>4
      <4> QED
        BY <1>b, <2>5, <3>2, <3>4, <4>1 DEF O!At, O!TextFirst
    <3> QED
      BY <3>1, <3>4
  <2>6. \/ result' = Raw /\ O!At(O!TextFirst \cup (O!CutTextFirst \ {"cutInText"})) = {}
        \/ result' \in [at : DOMAIN out, blocks : BOOLEAN, title : DOMAIN out \cup {None}]
    <3>1. CASE result' = Raw
      <4>1. ASSUME NEW i \in O!At(O!TextFirst \cup (O!CutTextFirst \ {"cutInText"}))
            PROVE  FALSE
        <5>1. out[O!First] # "cutInText" /\ O!Begins # {}
          BY <2>5, <4>1
        <5>2. O!First \in Nat /\ O!HasBlocks(out[O!First]) \in BOOLEAN
          BY <1>b, <2>4, <5>1 DEF O!Begins, O!HasBlocks
        <5>3. result' \in [at : Nat, blocks : BOOLEAN, title : Nat \cup {None}]
          BY <2>1, <5>1, <5>2
        <5> QED
          BY <3>1, <5>3 DEF O!RawAssumption
      <4> QED
        BY <3>1, <4>1
    <3>2. CASE result' # Raw
      <4>1. O!Begins # {} /\ O!First \in DOMAIN out /\ O!HasBlocks(out[O!First]) \in BOOLEAN
        BY <2>1, <2>4, <3>2 DEF O!Begins, O!HasBlocks
      <4> QED
        BY <2>1, <3>2, <4>1
    <3> QED
      BY <3>1, <3>2
  <2>7. ResultFollows'
    <3>1. O!AnswerIsFinal'
      BY <2>1, <2>3 DEF O!AnswerIsFinal, O!At, O!Readable
    <3>2. O!NeverRaw'
      BY <2>1, <2>3, <2>6 DEF O!NeverRaw, O!At, O!Readable, O!RawAssumption
    <3> QED
      BY <2>1, <2>2, <2>6, <3>1, <3>2 DEF ResultFollows
  <2>8. OutputType' /\ ScanFollows' /\ inString' \in BOOLEAN
    BY <1>a, <2>1 DEF OutputType, ScanFollows, O!Readable
  <2> QED
    BY <2>7, <2>8 DEF OutputInv
<1> QED
  BY <1>1, <1>2, <1>3 DEF O!Next
-----------------------------------------------------------------------------
(* The runner of a turn: the results it has read and those in the pipe are  *)
(* the ones the process wrote.                                              *)
Results(q) == {i \in DOMAIN q : q[i] = "result"}

RunnerInv ==
    /\ streaming \in BOOLEAN
    /\ pipe \in Seq(S!Line) /\ wrote \in Nat /\ got \in Nat
    /\ sturn = "reply" /\ streaming => pipe = <<>>
    /\ IsFiniteSet(Results(pipe)) /\ wrote = got + Cardinality(Results(pipe))

(* A line more in the pipe ...                                             *)
LEMMA ResultAppended ==
    ASSUME NEW q \in Seq(S!Line), NEW line \in S!Line,
           IsFiniteSet(Results(q))
    PROVE  /\ IsFiniteSet(Results(Append(q, line)))
           /\ Cardinality(Results(Append(q, line)))
                = IF line = "result" THEN Cardinality(Results(q)) + 1
                  ELSE Cardinality(Results(q))
<1>1. Len(q) + 1 \notin Results(q)
  BY DEF Results
<1>2. Results(Append(q, line))
        = IF line = "result" THEN Results(q) \cup {Len(q) + 1} ELSE Results(q)
  BY DEF Results
<1>3. /\ IsFiniteSet(Results(q) \cup {Len(q) + 1})
      /\ Cardinality(Results(q) \cup {Len(q) + 1}) = Cardinality(Results(q)) + 1
  BY <1>1, FS_AddElement
<1> QED
  BY <1>2, <1>3

(* ... and a line less.                                                    *)
LEMMA ResultRead ==
    ASSUME NEW q \in Seq(S!Line), q # <<>>, IsFiniteSet(Results(q))
    PROVE  /\ IsFiniteSet(Results(Tail(q)))
           /\ Cardinality(Results(q))
                = IF Head(q) = "result" THEN Cardinality(Results(Tail(q))) + 1
                  ELSE Cardinality(Results(Tail(q)))
<1> DEFINE Later == Results(q) \ {1}
           f == [i \in Later |-> i - 1]
<1>1. /\ Len(q) \in Nat \ {0} /\ DOMAIN q = 1..Len(q) /\ Head(q) = q[1]
      /\ DOMAIN Tail(q) = 1..(Len(q) - 1) /\ \A i \in DOMAIN Tail(q) : Tail(q)[i] = q[i + 1]
  OBVIOUS
<1>2. \A i \in Later : i \in 2..Len(q) /\ i - 1 \in Results(Tail(q))
  BY <1>1 DEF Results
<1>3. \A i \in Results(Tail(q)) : i \in Nat /\ i + 1 \in Later
  BY <1>1 DEF Results
<1>4. f \in Bijection(Later, Results(Tail(q)))
  <2> HIDE DEF Later
  <2>1. f \in [Later -> Results(Tail(q))]
    BY <1>2
  <2>2. \A a, b \in Later : f[a] = f[b] => a = b
    BY <1>2
  <2>3. \A t \in Results(Tail(q)) : \E s \in Later : f[s] = t
    BY <1>3
  <2> QED
    BY <2>1, <2>2, <2>3, Fun_IsBij
<1>5. /\ IsFiniteSet(Later)
      /\ Cardinality(Later) = IF 1 \in Results(q) THEN Cardinality(Results(q)) - 1
                              ELSE Cardinality(Results(q))
  BY FS_RemoveElement
<1>6. /\ IsFiniteSet(Results(Tail(q)))
      /\ Cardinality(Results(Tail(q))) = Cardinality(Later)
  <2> HIDE DEF Later, f
  <2> QED
    BY <1>4, <1>5, FS_Bijection DEF ExistsBijection
<1>7. 1 \in Results(q) <=> Head(q) = "result"
  BY <1>1 DEF Results
<1>8. Cardinality(Results(q)) \in Nat
  BY FS_CardinalityType
<1> QED
  BY <1>5, <1>6, <1>7, <1>8

LEMMA RunnerBegins ==
    ASSUME S!Init
    PROVE  RunnerInv
<1>1. streaming \in BOOLEAN
  BY DEF S!Init
<1>2. pipe = <<>> /\ wrote = 0 /\ got = 0
  BY DEF S!Init
<1>3. Results(pipe) = {}
  BY <1>2 DEF Results
<1>4. IsFiniteSet(Results(pipe)) /\ wrote = got + Cardinality(Results(pipe))
  BY <1>2, <1>3, FS_EmptySet
<1>5. pipe \in Seq(S!Line) /\ wrote \in Nat /\ got \in Nat
  BY <1>2
<1> QED
  BY <1>1, <1>2, <1>4, <1>5 DEF RunnerInv

LEMMA RunnerKept ==
    ASSUME RunnerInv, S!Next
    PROVE  RunnerInv'
<1> USE DEF S!process
<1>a. Cardinality(Results(pipe)) \in Nat
  BY FS_CardinalityType DEF RunnerInv
<1>1. CASE UNCHANGED S!process
  BY <1>1 DEF RunnerInv
<1>2. ASSUME pipe' = <<>>, wrote' = 0, got' = 0, UNCHANGED streaming
      PROVE  RunnerInv'
  <2>1. Results(pipe') = {}
    BY <1>2 DEF Results
  <2>2. IsFiniteSet(Results(pipe')) /\ wrote' = got' + Cardinality(Results(pipe'))
    BY <1>2, <2>1, FS_EmptySet
  <2>3. pipe' \in Seq(S!Line) /\ wrote' \in Nat /\ got' \in Nat
    BY <1>2
  <2>4. streaming' \in BOOLEAN
    BY <1>2 DEF RunnerInv
  <2> QED
    BY <1>2, <2>2, <2>3, <2>4 DEF RunnerInv
<1>3. ASSUME NEW line \in S!Line, S!Write(line)
      PROVE  RunnerInv'
  <2>1. /\ sturn' = "run" /\ pipe' = Append(pipe, line) /\ UNCHANGED <<streaming, got>>
        /\ wrote' = IF line = "result" THEN wrote + 1 ELSE wrote
    BY <1>3 DEF S!Write
  <2> QED
    BY <1>a, <2>1, ResultAppended DEF RunnerInv
<1>4. CASE S!Read
  <2>1. /\ sturn \in {"run", "exited"} /\ pipe # <<>> /\ pipe' = Tail(pipe)
        /\ got' = IF Head(pipe) = "result" THEN got + 1 ELSE got
        /\ UNCHANGED <<streaming, sturn, wrote>>
    BY <1>4 DEF S!Read
  <2>2. Cardinality(Results(pipe')) \in Nat
    BY <2>1, ResultRead, FS_CardinalityType DEF RunnerInv
  <2> QED
    BY <1>a, <2>1, <2>2, ResultRead DEF RunnerInv
<1>5. CASE S!ProcessExits \/ S!Finish \/ S!Reply
  <2>1. /\ UNCHANGED <<streaming, pipe, wrote, got>>
        /\ sturn' = "reply" /\ streaming => pipe = <<>>
    BY <1>5 DEF S!ProcessExits, S!Finish, S!Reply
  <2> QED
    BY <2>1 DEF RunnerInv
<1>6. CASE S!Begin \/ S!Restart
  BY <1>2, <1>6 DEF S!Begin, S!Restart
<1>7. CASE S!Quieten \/ S!Heartbeat
  BY <1>1, <1>7 DEF S!Quieten, S!Heartbeat
<1>8. CASE S!Apply \/ S!Reconcile \/ S!Age \/ S!Stale \/ S!Remount
  BY <1>1, <1>8 DEF S!Apply, S!ApplyStatus, S!ApplyReply, S!Reconcile, S!Age, S!Stale, S!Remount
<1>9. CASE \E p \in posts : S!Publish(p)
  BY <1>1, <1>9 DEF S!Publish
<1> QED
  BY <1>3, <1>4, <1>5, <1>6, <1>7, <1>8, <1>9 DEF S!Next

LEMMA AnswerRead ==
    ASSUME RunnerInv
    PROVE  S!AnswerIsRead
<1>1. ASSUME sturn = "reply", streaming
      PROVE  got = wrote
  <2>1. Results(pipe) = {}
    BY <1>1 DEF RunnerInv, Results
  <2> QED
    BY <2>1, FS_EmptySet DEF RunnerInv
<1> QED
  BY <1>1 DEF S!AnswerIsRead
-----------------------------------------------------------------------------
(* The daemon's turns.  What is parsed, queued or given has passed the      *)
(* ledger, and is in one of the three places.                               *)
TurnsType ==
    /\ seen \subseteq Entry /\ IsFiniteSet(seen) /\ parsing \subseteq Msg
    /\ pending \in Seq(Msg) /\ turn \in Seq(Msg) /\ started \in Seq(Msg)
    /\ acks \in Nat /\ now \in Nat /\ crashes \in Nat /\ unsent \in Nat
    /\ writes \in Seq(Record) /\ disk \in Record

TurnsFlags == up \in BOOLEAN /\ open \in BOOLEAN

GivenOnce ==
    /\ IsInjective(started) /\ IsInjective(pending)
    /\ ToSet(started) \cap ToSet(pending) = {}
    /\ parsing \cap (ToSet(started) \cup ToSet(pending)) = {}
    /\ parsing \cup ToSet(started) \cup ToSet(pending) \subseteq Ids(seen)

DownIsEmpty ==
    ~up => /\ parsing = {} /\ pending = <<>> /\ turn = <<>> /\ started = <<>>
           /\ writes = <<>> /\ acks = 0

(* A list covers an earlier one if it has dropped from it only what is too  *)
(* old, or older than Cap of its own.                                       *)
Old(e) == e.at + Ttl < now
Covers(K, L) ==
    K # NoRecord /\ L # NoRecord =>
        \A e \in K : e \in L \/ Old(e) \/ Cardinality({f \in L : f.at >= e.at}) >= Cap

(* What is on the disk or on its way there is at most Cap long, comes from  *)
(* the ledger in memory, and is covered by all that is written later.       *)
Small(K) == K # NoRecord => IsFiniteSet(K) /\ Cardinality(K) <= Cap
LedgerFollows ==
    /\ Small(disk) /\ \A i \in DOMAIN writes : Small(writes[i])
    /\ \A i \in DOMAIN writes : writes[i] # NoRecord => writes[i] \subseteq seen
    /\ up /\ disk # NoRecord => \A e \in disk : e \in seen \/ Old(e)
    /\ \A i \in DOMAIN writes : Covers(disk, writes[i])
    /\ \A i, j \in DOMAIN writes : i < j => Covers(writes[i], writes[j])

TurnsInv == TurnsType /\ TurnsFlags /\ GivenOnce /\ DownIsEmpty /\ LedgerFollows

(* What pruneSeenMsgIds keeps.                                              *)
LEMMA PrunedKeeps ==
    ASSUME now \in Nat, NEW L \in SUBSET Entry, IsFiniteSet(L), NEW K \in Pruned(L)
    PROVE  /\ K \in SUBSET L /\ IsFiniteSet(K) /\ Cardinality(K) <= Cap
           /\ \A e \in L :
                e \in K \/ Old(e) \/ Cardinality({f \in K : f.at >= e.at}) >= Cap
<1> DEFINE young == {e \in L : e.at + Ttl >= now}
<1>1. Cap \in Nat \ {0} /\ Ttl \in Nat
  BY BoundsAssumption
<1>2. IsFiniteSet(young) /\ Cardinality(young) \in Nat
  BY FS_Subset, FS_CardinalityType
<1>3. \A e \in L : e \notin young => Old(e)
  BY <1>1 DEF Entry, Old
<1>4. CASE Cardinality(young) <= Cap
  <2>1. K = young
    BY <1>4 DEF Pruned
  <2> QED
    BY <1>2, <1>3, <1>4, <2>1
<1>5. CASE ~(Cardinality(young) <= Cap)
  <2>1. /\ K \in SUBSET young /\ Cardinality(K) = Cap
        /\ \A e \in K, f \in young \ K : f.at <= e.at
    BY <1>5 DEF Pruned
  <2>2. IsFiniteSet(K)
    BY <1>2, <2>1, FS_Subset
  <2>3. ASSUME NEW e \in young \ K
        PROVE  {f \in K : f.at >= e.at} = K
    <3>1. \A f \in K : f.at >= e.at
      BY <2>1 DEF Entry
    <3> QED
      BY <3>1
  <2>4. ASSUME NEW e \in L
        PROVE  e \in K \/ Old(e) \/ Cardinality({f \in K : f.at >= e.at}) >= Cap
    <3>1. CASE e \in young \ K
      BY <1>1, <2>1, <2>3, <3>1
    <3>2. CASE e \notin young
      BY <1>3, <3>2
    <3> QED
      BY <3>1, <3>2
  <2> QED
    BY <1>1, <2>1, <2>2, <2>4
<1> QED
  BY <1>4, <1>5

LEMMA TurnsBegin ==
    ASSUME Init
    PROVE  TurnsInv
<1>1. TurnsType
  BY FS_EmptySet DEF Init, TurnsType, Record
<1>2. TurnsFlags
  BY DEF Init, TurnsFlags
<1>3. GivenOnce /\ DownIsEmpty
  BY DEF Init, GivenOnce, IsInjective, ToSet, DownIsEmpty
<1>4. LedgerFollows
  BY FS_EmptySet, BoundsAssumption DEF Init, LedgerFollows, Small, Covers
<1> QED
  BY <1>1, <1>2, <1>3, <1>4 DEF TurnsInv

(* A snapshot of the ledger goes behind the others.                         *)
LEMMA SnapshotFollows ==
    ASSUME TurnsInv, up, NEW s, writes' = Append(writes, s), UNCHANGED <<up, disk, now>>,
           seen \subseteq seen', seen' \subseteq Entry, IsFiniteSet(seen'),
           s = NoRecord \/ s \in Pruned(seen')
    PROVE  s \in Record /\ writes' \in Seq(Record) /\ LedgerFollows'
<1>1. /\ now \in Nat /\ writes \in Seq(Record) /\ disk \in Record /\ LedgerFollows
  BY DEF TurnsInv, TurnsType
<1>2. ASSUME s # NoRecord
      PROVE  /\ s \in SUBSET seen' /\ Small(s)
             /\ \A e \in seen' :
                  e \in s \/ Old(e) \/ Cardinality({f \in s : f.at >= e.at}) >= Cap
  BY <1>1, <1>2, PrunedKeeps DEF Small
<1>3. s \in Record
  BY <1>2 DEF Record
<1>4. /\ writes' \in Seq(Record) /\ DOMAIN writes' = 1..(Len(writes) + 1)
      /\ DOMAIN writes = 1..Len(writes) /\ Len(writes) \in Nat
      /\ \A i \in DOMAIN writes : writes'[i] = writes[i]
      /\ writes'[Len(writes) + 1] = s
  BY <1>1, <1>3
<1>5. \A K, L : (Covers(K, L) <=> Covers(K, L)') /\ (Small(K) <=> Small(K)')
  BY DEF Covers, Small, Old
<1>6. Covers(disk, s) /\ \A i \in DOMAIN writes : Covers(writes[i], s)
  BY <1>1, <1>2 DEF LedgerFollows, Covers
<1>7. Small(disk)' /\ \A i \in DOMAIN writes' : Small(writes'[i])
  BY <1>1, <1>2, <1>4 DEF LedgerFollows, Small
<1>8. \A i \in DOMAIN writes' : writes'[i] # NoRecord => writes'[i] \subseteq seen'
  BY <1>1, <1>2, <1>4 DEF LedgerFollows
<1>9. \A e \in disk' : disk' # NoRecord => e \in seen' \/ Old(e)'
  BY <1>1 DEF LedgerFollows, Old
<1>10. \A i \in DOMAIN writes' : Covers(disk, writes'[i])
  BY <1>1, <1>4, <1>6 DEF LedgerFollows
<1>11. \A i, j \in DOMAIN writes' : i < j => Covers(writes'[i], writes'[j])
  BY <1>1, <1>4, <1>6 DEF LedgerFollows
<1> QED
  BY <1>3, <1>4, <1>5, <1>7, <1>8, <1>9, <1>10, <1>11 DEF LedgerFollows, Covers, Small, Old

(* What leaves the ledger and what is written of it alone leaves their      *)
(* invariant, as time goes by.                                              *)
LEMMA LedgerAlone ==
    ASSUME TurnsInv, UNCHANGED <<up, seen, writes, disk>>, now' \in {now, now + 1}
    PROVE  LedgerFollows'
<1>1. /\ now \in Nat /\ writes \in Seq(Record) /\ disk \in Record /\ LedgerFollows
      /\ seen \subseteq Entry
  BY DEF TurnsInv, TurnsType
<1>2. \A e \in Entry : Old(e) => Old(e)'
  BY <1>1, BoundsAssumption DEF Old, Entry
<1>3. \A K \in Record : \A L : Covers(K, L) => Covers(K, L)'
  BY <1>2 DEF Covers, Record
<1>4. \A i \in DOMAIN writes : writes[i] \in Record
  BY <1>1
<1>5. \A K : Small(K) <=> Small(K)'
  BY DEF Small
<1>6. up /\ disk # NoRecord => \A e \in disk : e \in seen \/ Old(e)'
  BY <1>1, <1>2 DEF LedgerFollows, Record
<1>7. \A i \in DOMAIN writes : Covers(disk, writes[i])'
  BY <1>1, <1>3 DEF LedgerFollows, Covers
<1>8. ASSUME NEW i \in DOMAIN writes, NEW j \in DOMAIN writes, i < j
      PROVE  Covers(writes[i], writes[j])'
  <2>1. PICK K, L : K = writes[i] /\ L = writes[j]
    OBVIOUS
  <2>2. K \in Record /\ Covers(K, L)
    BY <1>1, <1>4, <1>8, <2>1 DEF LedgerFollows
  <2>3. Covers(K, L)'
    BY <1>3, <2>2
  <2> QED
    BY <2>1, <2>3 DEF Covers, Old
<1> QED
  BY <1>1, <1>5, <1>6, <1>7, <1>8 DEF LedgerFollows, Covers, Small, Old

(* What only takes messages out of their parsing leaves them given once.    *)
LEMMA GivenAlone ==
    ASSUME GivenOnce, UNCHANGED <<started, pending>>, parsing' \subseteq parsing,
           seen \subseteq seen'
    PROVE  GivenOnce'
BY DEF GivenOnce, Ids

(* One new element more, and a sequence still has none twice.               *)
LEMMA Appended ==
    ASSUME NEW q \in Seq(Msg), NEW m \in Msg, IsInjective(q), m \notin ToSet(q)
    PROVE  IsInjective(Append(q, m)) /\ ToSet(Append(q, m)) = ToSet(q) \cup {m}
<1>1. /\ DOMAIN q = 1..Len(q) /\ Len(q) \in Nat /\ DOMAIN Append(q, m) = 1..(Len(q) + 1)
      /\ Append(q, m)[Len(q) + 1] = m /\ \A i \in 1..Len(q) : Append(q, m)[i] = q[i]
  OBVIOUS
<1>2. IsInjective(Append(q, m))
  BY <1>1 DEF IsInjective, ToSet
<1>3. ToSet(Append(q, m)) = ToSet(q) \cup {m}
  BY <1>1 DEF ToSet
<1> QED
  BY <1>2, <1>3

(* Nor have two sequences behind one another that share none.               *)
LEMMA Joined ==
    ASSUME NEW q \in Seq(Msg), NEW r \in Seq(Msg), IsInjective(q), IsInjective(r),
           ToSet(q) \cap ToSet(r) = {}
    PROVE  /\ q \o r \in Seq(Msg) /\ IsInjective(q \o r)
           /\ ToSet(q \o r) = ToSet(q) \cup ToSet(r)
<1>1. /\ Len(q) \in Nat /\ Len(r) \in Nat /\ DOMAIN q = 1..Len(q) /\ DOMAIN r = 1..Len(r)
      /\ q \o r \in Seq(Msg) /\ DOMAIN (q \o r) = 1..(Len(q) + Len(r))
      /\ \A i \in 1..Len(q) : (q \o r)[i] = q[i]
      /\ \A i \in (Len(q) + 1)..(Len(q) + Len(r)) :
            i - Len(q) \in DOMAIN r /\ (q \o r)[i] = r[i - Len(q)]
  OBVIOUS
<1>2. \A i \in 1..Len(q), j \in (Len(q) + 1)..(Len(q) + Len(r)) : (q \o r)[i] # (q \o r)[j]
  BY <1>1 DEF ToSet
<1>3. ASSUME NEW i \in 1..(Len(q) + Len(r)), NEW j \in 1..(Len(q) + Len(r)),
             (q \o r)[i] = (q \o r)[j]
      PROVE  i = j
  <2>1. CASE i <= Len(q) /\ j <= Len(q)
    BY <1>1, <1>3, <2>1 DEF IsInjective
  <2>2. CASE i > Len(q) /\ j > Len(q)
    <3>1. /\ i - Len(q) \in DOMAIN r /\ j - Len(q) \in DOMAIN r
          /\ r[i - Len(q)] = r[j - Len(q)]
      BY <1>1, <1>3, <2>2
    <3>2. i - Len(q) = j - Len(q)
      BY <3>1 DEF IsInjective
    <3> QED
      BY <1>1, <3>2
  <2> QED
    BY <1>1, <1>2, <1>3, <2>1, <2>2
<1>4. ToSet(q \o r) = ToSet(q) \cup ToSet(r)
  <2>1. \A i \in DOMAIN r : Len(q) + i \in DOMAIN (q \o r) /\ (q \o r)[Len(q) + i] = r[i]
    BY <1>1
  <2>2. ToSet(q) \cup ToSet(r) \subseteq ToSet(q \o r)
    <3>1. \A i \in DOMAIN q : i \in DOMAIN (q \o r) /\ (q \o r)[i] = q[i]
      BY <1>1
    <3> QED
      BY <2>1, <3>1 DEF ToSet
  <2>3. ToSet(q \o r) \subseteq ToSet(q) \cup ToSet(r)
    <3>1. ASSUME NEW k \in DOMAIN (q \o r)
          PROVE  (q \o r)[k] \in ToSet(q) \cup ToSet(r)
      <4>1. k \in 1..(Len(q) + Len(r))
        BY <1>1
      <4>2. CASE k <= Len(q)
        BY <1>1, <4>1, <4>2 DEF ToSet
      <4>3. CASE k > Len(q)
        <5>1. k \in (Len(q) + 1)..(Len(q) + Len(r))
          BY <1>1, <4>1, <4>3
        <5> QED
          BY <1>1, <5>1 DEF ToSet
      <4> QED
        BY <1>1, <4>1, <4>2, <4>3
    <3> QED
      BY <3>1 DEF ToSet
  <2> QED
    BY <2>2, <2>3
<1> QED
  BY <1>1, <1>3, <1>4 DEF IsInjective

LEMMA TurnsKept ==
    ASSUME TurnsInv, Next
    PROVE  TurnsInv'
<1> USE DEF outside, memory
<1>a. TurnsType /\ TurnsFlags /\ GivenOnce /\ DownIsEmpty /\ LedgerFollows
  BY DEF TurnsInv
<1>1. ASSUME NEW m \in Msg, Deliver(m)
      PROVE  TurnsInv'
  <2>1. /\ up /\ m \notin Ids(seen) /\ seen' = seen \cup {[id |-> m, at |-> now]}
        /\ parsing' = parsing \cup {m}
        /\ UNCHANGED <<up, open, pending, turn, acks, disk, now, crashes, unsent, started>>
    BY <1>1 DEF Deliver
  <2>2. /\ seen' \subseteq Entry /\ IsFiniteSet(seen')
        /\ Ids(seen') = Ids(seen) \cup {m}
    <3>1. [id |-> m, at |-> now] \in Entry
      BY <1>a DEF TurnsType, Entry
    <3>2. IsFiniteSet(seen')
      BY <1>a, <2>1, FS_AddElement DEF TurnsType
    <3> QED
      BY <1>a, <2>1, <3>1, <3>2 DEF TurnsType, Ids
  <2>3. PICK s \in Pruned(seen') : writes' = Append(writes, s)
    BY <1>1 DEF Deliver, Persist
  <2>4. writes' \in Seq(Record) /\ LedgerFollows'
    BY <2>1, <2>2, <2>3, SnapshotFollows
  <2>5. TurnsType' /\ TurnsFlags'
    BY <1>a, <2>1, <2>2, <2>4 DEF TurnsType, TurnsFlags
  <2>6. GivenOnce' /\ DownIsEmpty'
    BY <1>a, <2>1, <2>2 DEF GivenOnce, DownIsEmpty
  <2> QED
    BY <2>4, <2>5, <2>6 DEF TurnsInv
<1>2. ASSUME NEW m \in Msg, Discard(m)
      PROVE  TurnsInv'
  <2>1. /\ parsing' = parsing \ {m}
        /\ UNCHANGED <<up, open, seen, pending, turn, acks, writes, disk, now, crashes, unsent,
                       started>>
    BY <1>2 DEF Discard
  <2>2. TurnsType' /\ TurnsFlags' /\ DownIsEmpty'
    BY <1>a, <2>1 DEF TurnsType, TurnsFlags, DownIsEmpty
  <2>3. GivenOnce'
    BY <1>a, <2>1, GivenAlone
  <2>4. LedgerFollows'
    BY <2>1, LedgerAlone
  <2> QED
    BY <2>2, <2>3, <2>4 DEF TurnsInv
<1>3. ASSUME NEW m \in Msg, Enqueue(m)
      PROVE  TurnsInv'
  <2>1. /\ m \in parsing /\ parsing' = parsing \ {m} /\ pending' = Append(pending, m)
        /\ acks' = acks + 1
        /\ UNCHANGED <<up, open, seen, turn, writes, disk, now, crashes, unsent, started>>
    BY <1>3 DEF Enqueue
  <2>2. up
    BY <1>a, <2>1 DEF DownIsEmpty
  <2>3. TurnsType' /\ TurnsFlags' /\ DownIsEmpty'
    BY <1>a, <2>1, <2>2 DEF TurnsType, TurnsFlags, DownIsEmpty
  <2>4. m \notin ToSet(pending) /\ m \notin ToSet(started) /\ m \in Ids(seen)
    BY <1>a, <2>1 DEF GivenOnce
  <2>5. IsInjective(pending') /\ ToSet(pending') = ToSet(pending) \cup {m}
    BY <1>a, <2>1, <2>4, Appended DEF TurnsType, GivenOnce
  <2>6. GivenOnce'
    BY <1>a, <2>1, <2>4, <2>5 DEF GivenOnce
  <2>7. LedgerFollows'
    BY <2>1, LedgerAlone
  <2> QED
    BY <2>3, <2>6, <2>7 DEF TurnsInv
<1>4. ASSUME NEW m \in Msg, StartTurn(m)
      PROVE  TurnsInv'
  <2>1. /\ m \in parsing /\ parsing' = parsing \ {m} /\ turn' = <<m>>
        /\ started' = Append(started, m)
        /\ UNCHANGED <<up, open, seen, pending, acks, writes, disk, now, crashes, unsent>>
    BY <1>4 DEF StartTurn
  <2>2. up
    BY <1>a, <2>1 DEF DownIsEmpty
  <2>3. TurnsType' /\ TurnsFlags' /\ DownIsEmpty'
    BY <1>a, <2>1, <2>2 DEF TurnsType, TurnsFlags, DownIsEmpty
  <2>4. m \notin ToSet(pending) /\ m \notin ToSet(started) /\ m \in Ids(seen)
    BY <1>a, <2>1 DEF GivenOnce
  <2>5. IsInjective(started') /\ ToSet(started') = ToSet(started) \cup {m}
    BY <1>a, <2>1, <2>4, Appended DEF TurnsType, GivenOnce
  <2>6. GivenOnce'
    BY <1>a, <2>1, <2>4, <2>5 DEF GivenOnce
  <2>7. LedgerFollows'
    BY <2>1, LedgerAlone
  <2> QED
    BY <2>3, <2>6, <2>7 DEF TurnsInv
<1>5. CASE EndTurn
  <2>1. /\ turn # <<>> /\ turn' = pending /\ started' = started \o pending /\ pending' = <<>>
        /\ UNCHANGED <<up, open, seen, parsing, acks, disk, now, crashes, unsent>>
    BY <1>5 DEF EndTurn, running
  <2>2. up
    BY <1>a, <2>1 DEF DownIsEmpty
  <2>3. writes' \in Seq(Record) /\ LedgerFollows'
    <3>1. CASE UNCHANGED writes
      BY <1>a, <2>1, <3>1, LedgerAlone DEF TurnsType
    <3>2. CASE Persist(seen, open)
      <4>1. PICK s \in IF open THEN Pruned(seen) ELSE {NoRecord} : writes' = Append(writes, s)
        BY <3>2 DEF Persist
      <4>2. s = NoRecord \/ s \in Pruned(seen)
        BY <4>1
      <4>3. Pruned(seen)' = Pruned(seen)
        BY <2>1 DEF Pruned
      <4> QED
        BY <1>a, <2>1, <2>2, <4>1, <4>2, <4>3, SnapshotFollows DEF TurnsType
    <3> QED
      BY <1>5, <3>1, <3>2 DEF EndTurn
  <2>4. /\ started' \in Seq(Msg) /\ IsInjective(started')
        /\ ToSet(started') = ToSet(started) \cup ToSet(pending)
    BY <1>a, <2>1, Joined DEF TurnsType, GivenOnce
  <2>5. TurnsType' /\ TurnsFlags' /\ DownIsEmpty'
    BY <1>a, <2>1, <2>2, <2>3, <2>4 DEF TurnsType, TurnsFlags, DownIsEmpty
  <2>6. IsInjective(pending') /\ ToSet(pending') = {}
    BY <2>1 DEF IsInjective, ToSet
  <2>7. GivenOnce'
    BY <1>a, <2>1, <2>4, <2>6 DEF GivenOnce
  <2> QED
    BY <2>3, <2>5, <2>7 DEF TurnsInv
<1>6. CASE AckSent
  <2>1. /\ acks > 0 /\ acks' = acks - 1
        /\ UNCHANGED <<up, open, seen, parsing, pending, turn, writes, disk, now, crashes,
                       unsent, started>>
    BY <1>6 DEF AckSent
  <2>2. TurnsType' /\ TurnsFlags' /\ DownIsEmpty'
    BY <1>a, <2>1 DEF TurnsType, TurnsFlags, DownIsEmpty
  <2> QED
    BY <1>a, <2>1, <2>2, GivenAlone, LedgerAlone DEF TurnsInv
<1>7. CASE WriteLands
  <2>1. /\ writes # <<>> /\ disk' = Head(writes) /\ writes' = Tail(writes)
        /\ UNCHANGED <<up, open, seen, parsing, pending, turn, acks, started, now, crashes,
                       unsent>>
    BY <1>7 DEF WriteLands
  <2>2. up
    BY <1>a, <2>1 DEF DownIsEmpty
  <2>3. /\ disk' = writes[1] /\ writes' \in Seq(Record) /\ writes[1] \in Record
        /\ Len(writes) \in Nat \ {0} /\ DOMAIN writes = 1..Len(writes)
        /\ DOMAIN writes' = 1..(Len(writes) - 1)
        /\ \A i \in DOMAIN writes' : writes'[i] = writes[i + 1]
    BY <1>a, <2>1 DEF TurnsType
  <2>4. TurnsType' /\ TurnsFlags' /\ DownIsEmpty'
    BY <1>a, <2>1, <2>2, <2>3 DEF TurnsType, TurnsFlags, DownIsEmpty
  <2>5. \A i \in DOMAIN writes' : i + 1 \in DOMAIN writes /\ 1 < i + 1
    BY <2>3
  <2>6. 1 \in DOMAIN writes
    BY <2>3
  <2>7. \A K, L : (Covers(K, L) <=> Covers(K, L)') /\ (Small(K) <=> Small(K)')
    BY <2>1 DEF Covers, Small, Old
  <2>8. Small(disk') /\ \A i \in DOMAIN writes' : Small(writes'[i])
    BY <1>a, <2>3, <2>5, <2>6 DEF LedgerFollows
  <2>9. \A i \in DOMAIN writes' : writes'[i] # NoRecord => writes'[i] \subseteq seen'
    BY <1>a, <2>1, <2>3, <2>5 DEF LedgerFollows
  <2>10. disk' # NoRecord => \A e \in disk' : e \in seen'
    BY <1>a, <2>1, <2>3, <2>6 DEF LedgerFollows
  <2>11. \A i \in DOMAIN writes' : Covers(disk', writes'[i])
    BY <1>a, <2>3, <2>5, <2>6 DEF LedgerFollows
  <2>12. \A i, j \in DOMAIN writes' : i < j => Covers(writes'[i], writes'[j])
    BY <1>a, <2>3, <2>5 DEF LedgerFollows
  <2>13. LedgerFollows'
    BY <2>7, <2>8, <2>9, <2>10, <2>11, <2>12 DEF LedgerFollows, Covers, Small, Old
  <2> QED
    BY <1>a, <2>1, <2>4, <2>13, GivenAlone DEF TurnsInv
<1>8. CASE Close
  <2>1. /\ up /\ open' = FALSE
        /\ UNCHANGED <<up, seen, parsing, pending, turn, acks, started, disk, now, crashes,
                       unsent>>
    BY <1>8 DEF Close
  <2>2. writes' = Append(writes, NoRecord)
    BY <1>8 DEF Close, Persist
  <2>3. writes' \in Seq(Record) /\ LedgerFollows'
    BY <1>a, <2>1, <2>2, SnapshotFollows DEF TurnsType
  <2>4. TurnsType' /\ TurnsFlags' /\ DownIsEmpty'
    BY <1>a, <2>1, <2>3 DEF TurnsType, TurnsFlags, DownIsEmpty
  <2> QED
    BY <1>a, <2>1, <2>3, <2>4, GivenAlone DEF TurnsInv
<1>9. CASE Crash \/ AckFails
  <2>1. /\ up' = FALSE /\ open' = FALSE /\ Forget /\ UNCHANGED <<disk, now>>
        /\ crashes' \in {crashes, crashes + 1} /\ unsent' \in {unsent, unsent + 1}
    BY <1>9 DEF Crash, AckFails
  <2>2. TurnsType'
    BY <1>a, <2>1, FS_EmptySet DEF TurnsType, Forget
  <2>3. TurnsFlags' /\ DownIsEmpty'
    BY <2>1 DEF TurnsFlags, DownIsEmpty, Forget
  <2>4. GivenOnce'
    BY <2>1 DEF GivenOnce, Forget, IsInjective, ToSet
  <2>5. LedgerFollows'
    BY <1>a, <2>1 DEF LedgerFollows, Forget, Small
  <2> QED
    BY <2>2, <2>3, <2>4, <2>5 DEF TurnsInv
<1>10. CASE Restart
  <2>1. /\ ~up /\ up' = TRUE
        /\ UNCHANGED <<disk, parsing, pending, turn, acks, now, crashes, unsent, started>>
    BY <1>10 DEF Restart
  <2>2. open' \in BOOLEAN
    BY <1>10 DEF Restart
  <2>3. parsing = {} /\ pending = <<>> /\ started = <<>> /\ writes = <<>>
    BY <1>a, <2>1 DEF DownIsEmpty
  <2>4. /\ seen' \subseteq Entry /\ IsFiniteSet(seen')
        /\ disk # NoRecord => \A e \in disk : e \in seen' \/ Old(e)
    <3>1. CASE disk = NoRecord
      <4>1. seen' = {}
        BY <1>10, <3>1 DEF Restart
      <4> QED
        BY <3>1, <4>1, FS_EmptySet
    <3>2. CASE disk # NoRecord
      <4>1. disk \in SUBSET Entry /\ IsFiniteSet(disk) /\ Cardinality(disk) <= Cap
        BY <1>a, <3>2 DEF TurnsType, Record, LedgerFollows, Small
      <4>2. seen' \in Pruned(disk)
        BY <1>10, <3>2 DEF Restart
      <4>3. seen' = {e \in disk : e.at + Ttl >= now}
        <5> DEFINE young == {e \in disk : e.at + Ttl >= now}
        <5>1. IsFiniteSet(young) /\ Cardinality(young) <= Cardinality(disk)
          BY <4>1, FS_Subset
        <5>2. Cardinality(young) \in Nat /\ Cardinality(disk) \in Nat /\ Cap \in Nat
          BY <4>1, <5>1, FS_CardinalityType, BoundsAssumption
        <5>3. Cardinality(young) <= Cap
          BY <4>1, <5>1, <5>2
        <5> QED
          BY <4>2, <5>3 DEF Pruned
      <4>4. IsFiniteSet(seen')
        BY <4>1, <4>3, FS_Subset
      <4>5. \A e \in disk : e.at + Ttl >= now \/ Old(e)
        BY <1>a, <4>1, BoundsAssumption DEF Old, Entry, TurnsType
      <4> QED
        BY <4>1, <4>3, <4>4, <4>5
    <3> QED
      BY <3>1, <3>2
  <2>5. PICK s : writes' = <<s>> /\ (s = NoRecord \/ s \in Pruned(seen'))
    <3>1. PICK s \in IF open' THEN Pruned(seen') ELSE {NoRecord} : writes' = Append(writes, s)
      BY <1>10 DEF Restart, Persist
    <3>2. s = NoRecord \/ s \in Pruned(seen')
      BY <3>1
    <3> QED
      BY <2>3, <3>1, <3>2
  <2>6. writes' \in Seq(Record) /\ LedgerFollows'
    <3>1. now \in Nat /\ seen' \in SUBSET Entry /\ disk \in Record
      BY <1>a, <2>4 DEF TurnsType
    <3>2. Pruned(seen') = Pruned(seen)'
      BY <2>1 DEF Pruned
    <3>3. s # NoRecord => /\ s \in SUBSET seen' /\ Small(s)
                          /\ \A e \in seen' : \/ e \in s \/ Old(e)
                                              \/ Cardinality({f \in s : f.at >= e.at}) >= Cap
      BY <2>4, <2>5, <3>1, PrunedKeeps DEF Small
    <3>4. s \in Record
      BY <3>1, <3>3 DEF Record
    <3>5. writes' \in Seq(Record) /\ DOMAIN writes' = {1} /\ writes'[1] = s
      BY <2>5, <3>4
    <3>6. Covers(disk, s)
      BY <2>4, <3>1, <3>3 DEF Covers
    <3>7. \A K, L : (Covers(K, L) <=> Covers(K, L)') /\ (Small(K) <=> Small(K)')
      BY <2>1 DEF Covers, Small, Old
    <3>8. Small(disk') /\ Small(writes'[1]) /\ Covers(disk', writes'[1])
      BY <1>a, <2>1, <3>3, <3>5, <3>6 DEF LedgerFollows, Small
    <3>9. disk' # NoRecord => \A e \in disk' : e \in seen' \/ Old(e)
      BY <2>1, <2>4
    <3> QED
      BY <2>1, <3>3, <3>5, <3>7, <3>8, <3>9 DEF LedgerFollows, Covers, Small, Old
  <2>7. TurnsType' /\ TurnsFlags' /\ DownIsEmpty'
    BY <1>a, <2>1, <2>2, <2>4, <2>6 DEF TurnsType, TurnsFlags, DownIsEmpty
  <2>8. GivenOnce'
    BY <2>1, <2>3 DEF GivenOnce, IsInjective, ToSet
  <2> QED
    BY <2>6, <2>7, <2>8 DEF TurnsInv
<1>11. CASE Tick
  <2>1. /\ now' = now + 1
        /\ UNCHANGED <<up, open, seen, parsing, pending, turn, acks, started, writes, disk,
                       crashes, unsent>>
    BY <1>11 DEF Tick
  <2>2. TurnsType' /\ TurnsFlags' /\ DownIsEmpty'
    BY <1>a, <2>1 DEF TurnsType, TurnsFlags, DownIsEmpty
  <2> QED
    BY <1>a, <2>1, <2>2, GivenAlone, LedgerAlone DEF TurnsInv
<1> QED
  BY <1>1, <1>2, <1>3, <1>4, <1>5, <1>6, <1>7, <1>8, <1>9, <1>10, <1>11 DEF Next, Inbound
-----------------------------------------------------------------------------
(* No step of the daemon accepts an id that the disk still vouches for.     *)
LEMMA NoReplay ==
    ASSUME TurnsInv, Next
    PROVE  \A m \in parsing' \ parsing :
              disk = NoRecord \/ \A e \in disk : e.id = m => e.at + Ttl < now
<1>1. ASSUME NEW m \in Msg, Deliver(m), disk # NoRecord
      PROVE  \A e \in disk : e.id = m => e.at + Ttl < now
  <2>1. up /\ m \notin Ids(seen)
    BY <1>1 DEF Deliver
  <2> QED
    BY <1>1, <2>1 DEF TurnsInv, LedgerFollows, Old, Ids
<1>2. ASSUME NEW m \in Msg, Deliver(m)
      PROVE  parsing' = parsing \cup {m}
  BY <1>2 DEF Deliver
<1>3. ASSUME NEW m \in Msg, Discard(m) \/ Enqueue(m) \/ StartTurn(m)
      PROVE  parsing' \subseteq parsing
  BY <1>3 DEF Discard, Enqueue, StartTurn
<1>4. ASSUME EndTurn \/ AckSent \/ WriteLands \/ Close \/ Crash \/ AckFails \/ Restart \/ Tick
      PROVE  parsing' \subseteq parsing
  BY <1>4 DEF EndTurn, AckSent, WriteLands, Close, Crash, AckFails, Restart, Tick, Forget,
              memory
<1> QED
  BY <1>1, <1>2, <1>3, <1>4 DEF Next, Inbound

(* What a step leaves on the disk covers what was there.                    *)
LEMMA NoRegress ==
    ASSUME TurnsInv, Next, disk # NoRecord, disk' # NoRecord
    PROVE  \A e \in disk : \/ e \in disk'
                           \/ e.at + Ttl < now
                           \/ Cardinality({f \in disk' : f.at >= e.at}) >= Cap
<1>1. CASE WriteLands
  <2>1. writes \in Seq(Record) /\ writes # <<>> /\ disk' = Head(writes)
    BY <1>1 DEF WriteLands, TurnsInv, TurnsType
  <2>2. 1 \in DOMAIN writes /\ disk' = writes[1]
    BY <2>1
  <2> QED
    BY <2>2 DEF TurnsInv, LedgerFollows, Covers, Old
<1>2. CASE UNCHANGED disk
  BY <1>2
<1>3. ASSUME NEW m \in Msg, Deliver(m) \/ Discard(m) \/ Enqueue(m) \/ StartTurn(m)
      PROVE  UNCHANGED disk
  BY <1>3 DEF Deliver, Discard, Enqueue, StartTurn
<1>4. CASE EndTurn \/ AckSent \/ Close \/ Crash \/ AckFails \/ Restart \/ Tick
  BY <1>2, <1>4 DEF EndTurn, AckSent, Close, Crash, AckFails, Restart, Tick
<1> QED
  BY <1>1, <1>2, <1>3, <1>4 DEF Next, Inbound
-----------------------------------------------------------------------------
(* The five parts side by side.                                             *)
AgentInv == TurnsInv /\ RunnerInv /\ WrapInv /\ StreamInv /\ OutputInv

LEMMA AgentBegins == AgentInit => AgentInv
<1> SUFFICES ASSUME AgentInit PROVE AgentInv
  OBVIOUS
<1>1. Init /\ S!Init /\ W!Init /\ D!Init /\ O!Init
  BY DEF AgentInit
<1>2. W!ChunkAssumption /\ D!BoundsAssumption /\ O!RawAssumption
  BY PartsAssumption DEF PartsAssumption
<1> QED
  BY <1>1, <1>2, TurnsBegin, RunnerBegins, WrapBegins, StreamBegins, OutputBegins DEF AgentInv

LEMMA TurnsStill == TurnsInv /\ UNCHANGED vars => TurnsInv'
BY DEF vars, outside, TurnsInv, TurnsType, TurnsFlags, GivenOnce, Ids, DownIsEmpty,
       LedgerFollows, Small, Covers, Old

LEMMA RunnerStill == RunnerInv /\ UNCHANGED status => RunnerInv'
BY DEF status, RunnerInv

LEMMA WrapStill == WrapInv /\ UNCHANGED wrap => WrapInv'
BY DEF wrap, WrapInv, WrapType, WrapFlags, WrapLoop, W!TakenOnce, W!NothingWaitsIdle

LEMMA StreamStill == StreamInv /\ UNCHANGED stream => StreamInv'
BY DEF stream, StreamInv, StreamType, StreamFlags, D!DeafForCause

LEMMA OutputStill == OutputInv /\ UNCHANGED output => OutputInv'
<1> SUFFICES ASSUME OutputInv, UNCHANGED output PROVE OutputInv'
  OBVIOUS
<1>1. UNCHANGED <<O!AnswerIsFinal, O!NeverRaw>>
  BY DEF output, O!AnswerIsFinal, O!NeverRaw, O!At, O!Rich, O!Titled, O!Readable
<1>2. O!AnswerIsFinal' /\ O!NeverRaw'
  BY <1>1 DEF OutputInv, ResultFollows
<1> QED
  BY <1>2 DEF output, OutputInv, OutputType, ScanFollows, ResultFollows, O!Readable

(* A step of one part keeps its invariant, and leaves the others alone.     *)
LEMMA AgentKept == AgentInv /\ [AgentNext]_all => AgentInv'
<1> SUFFICES ASSUME AgentInv, [AgentNext]_all PROVE AgentInv'
  OBVIOUS
<1>1. TurnsInv /\ RunnerInv /\ WrapInv /\ StreamInv /\ OutputInv
  BY DEF AgentInv
<1>2. W!ChunkAssumption /\ D!BoundsAssumption /\ O!RawAssumption
  BY PartsAssumption DEF PartsAssumption
<1>3. CASE UNCHANGED all
  BY <1>1, <1>3, TurnsStill, RunnerStill, WrapStill, StreamStill, OutputStill DEF all, AgentInv
<1>4. CASE Turns(Next)
  BY <1>1, <1>4, TurnsKept, RunnerStill, WrapStill, StreamStill, OutputStill DEF Turns, AgentInv
<1>5. CASE Status(S!Next /\ Brief)
  BY <1>1, <1>5, TurnsStill, RunnerKept, WrapStill, StreamStill, OutputStill
     DEF Status, AgentInv
<1>6. CASE Wrapped(W!Next)
  BY <1>1, <1>2, <1>6, TurnsStill, RunnerStill, WrapKept, StreamStill, OutputStill
     DEF Wrapped, AgentInv
<1>7. CASE Streams(D!Next)
  BY <1>1, <1>2, <1>7, TurnsStill, RunnerStill, WrapStill, StreamKept, OutputStill
     DEF Streams, AgentInv
<1>8. CASE Parsed(O!Next)
  BY <1>1, <1>2, <1>8, TurnsStill, RunnerStill, WrapStill, StreamStill, OutputKept
     DEF Parsed, AgentInv
<1> QED
  BY <1>3, <1>4, <1>5, <1>6, <1>7, <1>8 DEF AgentNext

LEMMA SpecSteps == AgentSpec => AgentInit /\ [][AgentNext]_all
BY PTL DEF AgentSpec

(* The invariants of the parts hold throughout.                             *)
THEOREM InvariantHolds == AgentSpec => []AgentInv
<1>1. AgentInit /\ [][AgentNext]_all => []AgentInv
  BY AgentBegins, AgentKept, PTL
<1> QED
  BY <1>1, SpecSteps, PTL

(* Every part's variables keep their types, whatever the bounds.            *)
THEOREM TypesHold == AgentSpec => []AllTypesOK
<1>1. AgentInv => AllTypesOK
  <2> SUFFICES ASSUME AgentInv PROVE AllTypesOK
    OBVIOUS
  <2>1. TypeOK
    <3>1. /\ seen \subseteq Entry /\ parsing \subseteq Msg /\ pending \in Seq(Msg)
          /\ turn \in Seq(Msg) /\ acks \in Nat /\ now \in Nat /\ crashes \in Nat
          /\ unsent \in Nat /\ started \in Seq(Msg) /\ writes \in Seq(Record) /\ disk \in Record
      BY DEF AgentInv, TurnsInv, TurnsType
    <3>2. \A i \in DOMAIN writes : writes[i] = NoRecord \/ writes[i] \subseteq Entry
      BY <3>1 DEF Record
    <3>3. up \in BOOLEAN /\ open \in BOOLEAN
      BY DEF AgentInv, TurnsInv, TurnsFlags
    <3> QED
      BY <3>1, <3>2, <3>3 DEF TypeOK, Record
  <2>2. W!TypeOK
    BY DEF AgentInv, WrapInv, WrapType, WrapFlags, W!TypeOK
  <2>3. D!TypeOK
    BY DEF AgentInv, StreamInv, StreamType, StreamFlags, D!TypeOK
  <2>4. O!TypeOK
    <3>1. OutputType /\ inString \in BOOLEAN /\ ResultFollows
      BY DEF AgentInv, OutputInv
    <3>2. next \in 1..(Len(out) + 1) /\ depth \in 0..Len(out)
      BY <3>1 DEF OutputType
    <3>3. \A i \in envelopes : i \in DOMAIN out /\ out[i] \in O!Envelope
      BY <3>1 DEF OutputType
    <3> QED
      BY <3>1, <3>2, <3>3 DEF O!TypeOK, ResultFollows
  <2> QED
    BY <2>1, <2>2, <2>3, <2>4 DEF AllTypesOK
<1> QED
  BY <1>1, InvariantHolds, PTL

(* A streaming agent's whole output is read before the reply goes out; of   *)
(* any readable output the final answer is shown, with its blocks; and an   *)
(* output that has a whole text in it never goes out raw.                   *)
THEOREM RepliesAreWhole == AgentSpec => []ReplyIsWhole
<1>1. AgentInv => ReplyIsWhole
  BY AnswerRead DEF AgentInv, OutputInv, ResultFollows, ReplyIsWhole
<1> QED
  BY <1>1, InvariantHolds, PTL

(* However the relay repeats its messages and wherever the daemon dies, no  *)
(* message is given to the agent twice by one life, none whose id is on the *)
(* disk by a later one while the entry lives, no late write takes an entry  *)
(* back, and wrap gives its agent every message once and in order.          *)
THEOREM MessagesRunOnce == AgentSpec => RunOnce
<1>1. AgentInv => NoTurnTwice /\ W!TakenOnce
  BY DEF AgentInv, TurnsInv, GivenOnce, NoTurnTwice, WrapInv, WrapLoop
<1>2. [AgentNext]_all => [Next]_vars
  BY DEF AgentNext, all, Turns, Status, Wrapped, Streams, Parsed
<1>3. AgentInv /\ [AgentNext]_all =>
        [\A m \in parsing' \ parsing :
            disk = NoRecord \/ \A e \in disk : e.id = m => e.at + Ttl < now]_vars
  BY <1>2, NoReplay DEF AgentInv
<1>4. AgentInv /\ [AgentNext]_all =>
        [disk # NoRecord /\ disk' # NoRecord =>
            \A e \in disk : \/ e \in disk'
                            \/ e.at + Ttl < now
                            \/ Cardinality({f \in disk' : f.at >= e.at}) >= Cap]_vars
  BY <1>2, NoRegress DEF AgentInv
<1>5. AgentSpec => []NoTurnTwice /\ []W!TakenOnce
  BY <1>1, InvariantHolds, PTL
<1>6. AgentSpec => PersistedIsNotReplayed
  BY <1>3, InvariantHolds, SpecSteps, PTL DEF PersistedIsNotReplayed
<1>7. AgentSpec => LedgerNeverRegresses
  BY <1>4, InvariantHolds, SpecSteps, PTL DEF LedgerNeverRegresses
<1> QED
  BY <1>5, <1>6, <1>7 DEF RunOnce

(* A subscription that listens no more has been closed by its owner, is     *)
(* fetching a JWT, or was refused one or answered an error.                 *)
THEOREM StreamsDeafForCause == AgentSpec => []D!DeafForCause
<1>1. AgentInv => D!DeafForCause
  BY DEF AgentInv, StreamInv
<1> QED
  BY <1>1, InvariantHolds, PTL

(* While wrap runs, nothing waits in its queue without a turn that will     *)
(* drain it.                                                                *)
THEOREM NothingWaitsIdle == AgentSpec => []W!NothingWaitsIdle
<1>1. AgentInv => W!NothingWaitsIdle
  BY DEF AgentInv, WrapInv, WrapLoop
<1> QED
  BY <1>1, InvariantHolds, PTL
=============================================================================
