----------------------------- MODULE HostProofs -----------------------------
(***************************************************************************)
(* Theorems about the daemon's host, for any processes, runs of the        *)
(* updater, devices, rooms, agents and files: which daemon answers, what   *)
(* an update installs, whom a room lets in, what a tap does, and what the  *)
(* sync of the skills keeps track of.                                      *)
(*                                                                         *)
(* Each part has an inductive invariant of its own, kept by the part's     *)
(* steps; as no step is of two parts, together they are one of the sum.    *)
(***************************************************************************)
EXTENDS MCHost, TLAPS, FiniteSetTheorems, SequenceTheorems

-----------------------------------------------------------------------------
(* The updater: until two runs meet in the shared file, only one is there,  *)
(* and what waits to be renamed is what it verified.                        *)
UpdateType ==
    /\ run \in [U!Run -> {"idle", "write", "written", "verify", "wait", "swap", "drop",
                          "exit", "bounce", "done"}]
    /\ tmp \in U!Binary \cup {None}
    /\ binary \in U!Binary

StagedIsVerified ==
    ~overlap =>
       /\ \A u, v \in U!Staging : u = v
       /\ \A u \in U!Run : run[u] \in {"wait", "swap"} => tmp # None /\ tmp.whole /\ tmp.good
       /\ binary.whole /\ binary.good

(* Only a tick waits and exits; and a turn that a tick is about to end, or  *)
(* ended, began after it had looked.                                        *)
TurnsAreLate ==
    /\ \A u \in U!Run : run[u] \in {"wait", "exit"} => u \in Timer
    /\ turns /\ (\E u \in Timer : run[u] \in {"swap", "exit"}) => cutoff \in {"late", "asked"}
    /\ turns /\ gone => cutoff \in {"late", "asked"}

UpdateInv == UpdateType /\ StagedIsVerified /\ TurnsAreLate

(* It holds at the start ...                                                *)
LEMMA UpdatesBegin ==
    ASSUME U!RunsAssumption, U!Init
    PROVE  UpdateInv
<1> USE DEF U!RunsAssumption, U!Init, U!Installed
<1>1. UpdateType
  BY DEF UpdateType, U!Binary
<1>2. StagedIsVerified
  BY DEF StagedIsVerified, U!Staging
<1>3. TurnsAreLate
  BY DEF TurnsAreLate, U!Run
<1> QED
  BY <1>1, <1>2, <1>3 DEF UpdateInv

(* A step of one run that ends up elsewhere.                                *)
LEMMA RunMoves ==
    ASSUME UpdateType, NEW u \in U!Run, NEW next, U!Go(u, next)
    PROVE  /\ run'[u] = next
           /\ \A v \in U!Run \ {u} : run'[v] = run[v]
           /\ DOMAIN run' = U!Run
BY DEF UpdateType, U!Go

(* ... and every step keeps it.                                             *)
LEMMA UpdatesKept ==
    ASSUME U!RunsAssumption, UpdateInv, U!Next
    PROVE  UpdateInv'
<1>a. UpdateType /\ StagedIsVerified /\ TurnsAreLate
  BY DEF UpdateInv
<1>1. UpdateType'
  <2>1. ASSUME NEW u \in U!Run,
               \/ U!Begin(u) \/ U!Write(u) \/ U!Written(u) \/ U!Verify(u) \/ U!WaitIdle(u)
               \/ U!Drop(u) \/ U!Swap(u) \/ U!Exit(u) \/ U!Bounce(u)
        PROVE  UpdateType'
    <3> USE <1>a DEF UpdateType, U!Go, U!Binary
    <3>1. CASE U!Begin(u)
      BY <3>1 DEF U!Begin
    <3>2. CASE U!Write(u)
      <4>1. CASE UNCHANGED tmp /\ U!Go(u, "done")
        BY <3>2, <4>1 DEF U!Write
      <4>2. CASE \E good \in BOOLEAN : tmp' = [by |-> u, whole |-> FALSE, good |-> good]
        <5>1. PICK good \in BOOLEAN : tmp' = [by |-> u, whole |-> FALSE, good |-> good]
          BY <4>2
        <5>2. tmp' \in [by : U!Run \cup {None}, whole : BOOLEAN, good : BOOLEAN]
          BY ONLY <5>1, u \in U!Run
        <5> QED
          BY <3>2, <5>2 DEF U!Write
      <4> QED
        BY <3>2, <4>1, <4>2 DEF U!Write
    <3>3. CASE U!Written(u)
      BY <3>3 DEF U!Written
    <3>4. CASE U!Verify(u)
      BY <3>4 DEF U!Verify
    <3>5. CASE U!WaitIdle(u)
      BY <3>5 DEF U!WaitIdle
    <3>6. CASE U!Drop(u)
      BY <3>6 DEF U!Drop
    <3>7. CASE U!Swap(u)
      BY <3>7 DEF U!Swap
    <3>8. CASE U!Exit(u) \/ U!Bounce(u)
      BY <3>8 DEF U!Exit, U!Bounce
    <3> QED
      BY <2>1, <3>1, <3>2, <3>3, <3>4, <3>5, <3>6, <3>7, <3>8
  <2>2. CASE U!TurnBegins \/ U!TurnEnds
    BY <1>a, <2>2 DEF U!TurnBegins, U!TurnEnds, UpdateType
  <2> QED
    BY <2>1, <2>2 DEF U!Next
<1>2. StagedIsVerified'
  <2>1. ASSUME NEW u \in U!Run, ~overlap', U!Touch(u), UNCHANGED binary,
               \E next \in {"write", "written", "done"} : U!Go(u, next)
        PROVE  StagedIsVerified'
    <3>1. ~overlap /\ U!Staging \subseteq {u}
      BY <2>1 DEF U!Touch
    <3>2. \A v \in U!Run \ {u} : run'[v] = run[v] /\ v \notin U!Staging
      BY <1>a, <2>1, <3>1, RunMoves
    <3>3. run'[u] \notin {"wait", "swap"}
      BY <1>a, <2>1, RunMoves
    <3>4. U!Staging' \subseteq {u}
      BY <3>2 DEF U!Staging
    <3>5. \A v \in U!Run : run'[v] \notin {"wait", "swap"}
      BY <3>2, <3>3 DEF U!Staging
    <3> QED
      BY <1>a, <2>1, <3>1, <3>4, <3>5 DEF StagedIsVerified
  <2>2. ASSUME NEW u \in U!Run, UNCHANGED <<tmp, binary, overlap>>, NEW next, U!Go(u, next),
               u \in U!Staging \/ next \notin {"write", "written", "verify", "wait", "swap", "drop"},
               next \in {"wait", "swap"} =>
                  run[u] \in {"wait", "swap"} \/ (tmp # None /\ tmp.whole /\ tmp.good)
        PROVE  StagedIsVerified'
    <3>1. U!Staging' \subseteq U!Staging
      BY <1>a, <2>2, RunMoves DEF U!Staging
    <3>2. ASSUME NEW v \in U!Run, run'[v] \in {"wait", "swap"}, ~overlap
          PROVE  tmp # None /\ tmp.whole /\ tmp.good
      BY <1>a, <2>2, <3>2, RunMoves DEF StagedIsVerified
    <3> QED
      BY <1>a, <2>2, <3>1, <3>2 DEF StagedIsVerified
  <2>3. ASSUME NEW u \in U!Run, U!Written(u)
        PROVE  StagedIsVerified'
    <3>1. u \in U!Staging /\ U!Go(u, "verify") /\ UNCHANGED <<binary, overlap>>
      BY <2>3 DEF U!Written, U!Staging
    <3>2. U!Staging' \subseteq U!Staging
      BY <1>a, <3>1, RunMoves DEF U!Staging
    <3>3. ASSUME NEW v \in U!Run, run'[v] \in {"wait", "swap"}, ~overlap
          PROVE  FALSE
      BY <1>a, <3>1, <3>3, RunMoves DEF StagedIsVerified, U!Staging
    <3> QED
      BY <1>a, <3>1, <3>2, <3>3 DEF StagedIsVerified
  <2>4. ASSUME NEW u \in U!Run, U!Swap(u), tmp # None
        PROVE  StagedIsVerified'
    <3>1. /\ u \in U!Staging /\ run[u] = "swap" /\ binary' = tmp /\ UNCHANGED overlap
          /\ \E next \in {"exit", "bounce"} : U!Go(u, next)
      BY <2>4 DEF U!Swap, U!Staging
    <3>2. U!Staging' \subseteq U!Staging \ {u}
      BY <1>a, <3>1, RunMoves DEF U!Staging
    <3>3. ASSUME NEW v \in U!Run, run'[v] \in {"wait", "swap"}, ~overlap
          PROVE  FALSE
      BY <1>a, <3>1, <3>2, <3>3, RunMoves DEF StagedIsVerified, U!Staging
    <3> QED
      BY <1>a, <3>1, <3>2, <3>3 DEF StagedIsVerified
  <2>5. ASSUME NEW u \in U!Run, U!Begin(u) \/ U!Write(u) \/ U!Drop(u)
        PROVE  StagedIsVerified'
    <3>1. CASE overlap'
      BY <3>1 DEF StagedIsVerified
    <3>2. CASE U!Go(u, "done") /\ UNCHANGED <<tmp, binary, overlap>>
      BY <2>2, <3>2
    <3> QED
      BY <2>1, <2>5, <3>1, <3>2 DEF U!Begin, U!Write, U!Drop
  <2>6. ASSUME NEW u \in U!Run, U!Verify(u) \/ U!WaitIdle(u)
        PROVE  StagedIsVerified'
    <3>1. u \in U!Staging /\ UNCHANGED <<tmp, binary, overlap>>
      BY <2>6 DEF U!Verify, U!WaitIdle, U!Staging
    <3>2. CASE U!Verify(u)
      <4> DEFINE next == IF tmp = None THEN "done"
                         ELSE IF ~(tmp.whole /\ tmp.good) THEN "drop"
                         ELSE IF u \in Timer THEN "wait" ELSE "swap"
      <4>1. U!Go(u, next)
        BY <3>2 DEF U!Verify
      <4> QED
        BY <2>2, <3>1, <4>1
    <3>3. CASE U!WaitIdle(u)
      BY <2>2, <3>1, <3>3 DEF U!WaitIdle
    <3> QED
      BY <2>6, <3>2, <3>3
  <2>7. ASSUME NEW u \in U!Run, U!Exit(u) \/ U!Bounce(u) \/ (U!Swap(u) /\ tmp = None)
        PROVE  StagedIsVerified'
    <3>1. U!Go(u, "done") /\ UNCHANGED <<tmp, binary, overlap>>
      BY <2>7 DEF U!Exit, U!Bounce, U!Swap
    <3> QED
      BY <2>2, <3>1
  <2>8. CASE U!TurnBegins \/ U!TurnEnds
    BY <1>a, <2>8 DEF U!TurnBegins, U!TurnEnds, StagedIsVerified, U!Staging
  <2> QED
    BY <2>3, <2>4, <2>5, <2>6, <2>7, <2>8 DEF U!Next
<1>3. TurnsAreLate'
  <2>t. \A u \in Timer : u \in U!Run /\ u \notin Command
    BY DEF U!Run, U!RunsAssumption
  <2>1. ASSUME NEW u \in U!Run, UNCHANGED <<turns, cutoff>>, NEW next, U!Go(u, next),
               next \in {"wait", "exit"} => u \in Timer,
               turns /\ u \in Timer /\ next \in {"swap", "exit"} => run[u] = "swap",
               turns /\ gone' => gone \/ run[u] = "exit"
        PROVE  TurnsAreLate'
    <3>1. run'[u] = next /\ \A v \in U!Run \ {u} : run'[v] = run[v]
      BY <1>a, <2>1, RunMoves
    <3>2. \A v \in U!Run : run'[v] \in {"wait", "exit"} => v \in Timer
      BY <1>a, <2>1, <3>1 DEF TurnsAreLate
    <3>3. ASSUME NEW v \in Timer, turns, run'[v] \in {"swap", "exit"}
          PROVE  cutoff \in {"late", "asked"}
      BY <1>a, <2>1, <2>t, <3>1, <3>3 DEF TurnsAreLate
    <3>4. turns /\ gone' => cutoff \in {"late", "asked"}
      BY <1>a, <2>1, <2>t DEF TurnsAreLate
    <3> QED
      BY <2>1, <3>2, <3>3, <3>4 DEF TurnsAreLate
  <2>2. ASSUME NEW u \in U!Run, U!Begin(u) \/ U!Write(u) \/ U!Drop(u) \/ U!Written(u)
        PROVE  TurnsAreLate'
    BY <2>1, <2>2 DEF U!Begin, U!Write, U!Drop, U!Written
  <2>3. ASSUME NEW u \in U!Run, U!Verify(u)
        PROVE  TurnsAreLate'
    <3> DEFINE next == IF tmp = None THEN "done"
                       ELSE IF ~(tmp.whole /\ tmp.good) THEN "drop"
                       ELSE IF u \in Timer THEN "wait" ELSE "swap"
    <3>1. U!Go(u, next) /\ UNCHANGED <<turns, cutoff, gone>>
      BY <2>3 DEF U!Verify
    <3> QED
      BY <2>1, <3>1
  <2>4. ASSUME NEW u \in U!Run, U!WaitIdle(u)
        PROVE  TurnsAreLate'
    <3> DEFINE next == IF turns THEN "drop" ELSE "swap"
    <3>1. U!Go(u, next) /\ UNCHANGED <<turns, cutoff, gone>>
      BY <2>4 DEF U!WaitIdle
    <3> QED
      BY <2>1, <3>1
  <2>5. ASSUME NEW u \in U!Run, U!Swap(u)
        PROVE  TurnsAreLate'
    <3> DEFINE next == IF tmp = None THEN "done" ELSE IF u \in Timer THEN "exit" ELSE "bounce"
    <3>1. run[u] = "swap" /\ U!Go(u, next) /\ UNCHANGED <<turns, cutoff, gone>>
      BY <2>5 DEF U!Swap
    <3> QED
      BY <2>1, <3>1
  <2>6. ASSUME NEW u \in U!Run, U!Exit(u)
        PROVE  TurnsAreLate'
    BY <2>1, <2>6 DEF U!Exit
  <2>7. ASSUME NEW u \in U!Run, U!Bounce(u)
        PROVE  TurnsAreLate'
    <3>1. run' = [run EXCEPT ![u] = "done"] /\ UNCHANGED turns
      BY <2>7 DEF U!Bounce, U!Go
    <3>2. cutoff' = IF gone THEN cutoff ELSE "asked"
      BY <2>7 DEF U!Bounce
    <3> QED
      BY <1>a, <2>t, <3>1, <3>2 DEF TurnsAreLate, UpdateType
  <2>8. CASE U!TurnBegins
    BY <1>a, <2>8 DEF U!TurnBegins, TurnsAreLate
  <2>9. CASE U!TurnEnds
    BY <1>a, <2>9 DEF U!TurnEnds, TurnsAreLate
  <2> QED
    BY <2>2, <2>3, <2>4, <2>5, <2>6, <2>7, <2>8, <2>9 DEF U!Next
<1> QED
  BY <1>1, <1>2, <1>3 DEF UpdateInv
-----------------------------------------------------------------------------
(* Admissions: who was sent a pass as the first was; a knock is parked      *)
(* once, and the question about it is open.                                 *)
FirstIsIn ==
    /\ BoundDeviceIsIn /\ BindingLasts
    /\ \A c \in Call : calls[c].at = "ok" /\ calls[c].why = "first" =>
         "first" \in sent[calls[c].key]

OneButton ==
    /\ \A p, q \in parked : p.key = q.key => p = q
    /\ \A p \in parked : yes[p.key] < asked[p.key]
    /\ OneTapOneAdmission

AdmissionInv == TypeOK /\ FirstIsIn /\ OneButton

LEMMA AdmissionsBegin == Init => AdmissionInv
<1> SUFFICES ASSUME Init PROVE AdmissionInv
  OBVIOUS
<1> USE DEF Init, Idle
<1>1. TypeOK
  BY BoundsAssumption DEF TypeOK
<1>2. FirstIsIn
  BY DEF FirstIsIn, BoundDeviceIsIn, BindingLasts
<1>3. OneButton
  BY DEF OneButton, OneTapOneAdmission
<1> QED
  BY <1>1, <1>2, <1>3 DEF AdmissionInv

(* What the steps of a knock, an approval and the rest leave alone.         *)
LEMMA CallBegins ==
    ASSUME TypeOK, FirstIsIn, NEW k \in Key, NEW why \in Whys, Begin(k, why),
           why = "again" => bound,
           UNCHANGED <<bound, boundKey, record, sent>>
    PROVE  /\ calls' \in [Call -> Calls \cup {Idle}]
           /\ FirstIsIn'
<1>1. PICK c \in Call :
        calls' = [calls EXCEPT ![c] = [at |-> "mint", key |-> k, why |-> why]]
  BY DEF Begin
<1>2. calls' \in [Call -> Calls \cup {Idle}]
  BY <1>1 DEF TypeOK, Calls
<1>3. FirstIsIn'
  BY <1>1 DEF FirstIsIn, BoundDeviceIsIn, BindingLasts, TypeOK
<1> QED
  BY <1>2, <1>3

LEMMA AdmissionsKept ==
    ASSUME AdmissionInv, Next
    PROVE  AdmissionInv'
<1>a. TypeOK /\ FirstIsIn /\ OneButton
  BY DEF AdmissionInv
<1>1. ASSUME NEW k \in Key, Knock(k)
      PROVE  AdmissionInv'
  <2>1. TypeOK'
    BY <1>1, <1>a DEF Knock, ghosts, TypeOK
  <2>2. FirstIsIn'
    BY <1>1, <1>a DEF Knock, ghosts, FirstIsIn, BoundDeviceIsIn, BindingLasts
  <2>3. OneButton'
    BY <1>1, <1>a DEF Knock, ghosts, OneButton, OneTapOneAdmission
  <2> QED
    BY <2>1, <2>2, <2>3 DEF AdmissionInv
<1>2. ASSUME NEW k \in Key, AdmitFirst(k) \/ AdmitAgain(k)
      PROVE  AdmissionInv'
  <2>1. PICK why \in Whys : Begin(k, why) /\ (why = "again" => bound)
    BY <1>2 DEF AdmitFirst, AdmitAgain, Whys
  <2>2. /\ UNCHANGED <<bound, boundKey, parked, saves, record, now, knocks, crashes, ghosts>>
        /\ parsing[k] > 0 /\ parsing' = [parsing EXCEPT ![k] = @ - 1]
    BY <1>2 DEF AdmitFirst, AdmitAgain
  <2>3. calls' \in [Call -> Calls \cup {Idle}] /\ FirstIsIn'
    BY <1>a, <2>1, <2>2, CallBegins DEF ghosts
  <2>4. parsing' \in [Key -> Nat]
    BY <1>a, <2>2 DEF TypeOK
  <2>5. TypeOK'
    BY <1>a, <2>2, <2>3, <2>4 DEF TypeOK, ghosts
  <2>6. OneButton'
    BY <1>a, <2>2 DEF ghosts, OneButton, OneTapOneAdmission
  <2> QED
    BY <2>3, <2>5, <2>6 DEF AdmissionInv
<1>3. ASSUME NEW k \in Key, Park(k)
      PROVE  AdmissionInv'
  <2>t. KnockTtl \in Nat /\ now \in Nat /\ asked \in [Key -> Nat] /\ yes \in [Key -> Nat]
    BY <1>a, BoundsAssumption DEF TypeOK
  <2>1. /\ parked' = {p \in parked : p.key # k /\ now <= p.expires}
                       \cup {[key |-> k, expires |-> now + KnockTtl]}
        /\ asked' = [asked EXCEPT ![k] = @ + 1]
        /\ parsing[k] > 0 /\ parsing' = [parsing EXCEPT ![k] = @ - 1]
        /\ UNCHANGED <<bound, boundKey, calls, saves, record, now, knocks, crashes,
                       yes, minted, sent>>
    BY <1>3 DEF Park
  <2>2. parked' \subseteq [key : Key, expires : Nat]
    BY <1>a, <2>1, <2>t DEF TypeOK
  <2>3. asked' \in [Key -> Nat] /\ parsing' \in [Key -> Nat]
    BY <1>a, <2>1, <2>t DEF TypeOK
  <2>4. TypeOK'
    BY <1>a, <2>1, <2>2, <2>3 DEF TypeOK
  <2>5. FirstIsIn'
    BY <1>a, <2>1 DEF FirstIsIn, BoundDeviceIsIn, BindingLasts
  <2>6. asked'[k] = asked[k] + 1 /\ \A j \in Key \ {k} : asked'[j] = asked[j]
    BY <2>1, <2>t
  <2>7. \A j \in Key : yes'[j] <= asked'[j]
    BY <1>a, <2>1, <2>6, <2>t DEF OneButton, OneTapOneAdmission
  <2>8. ASSUME NEW p \in parked'
        PROVE  yes'[p.key] < asked'[p.key]
    <3>1. CASE p.key = k
      BY <1>a, <2>1, <2>6, <2>t, <3>1 DEF OneButton, OneTapOneAdmission
    <3>2. CASE p.key # k
      BY <1>a, <2>1, <2>2, <2>6, <3>2 DEF OneButton
    <3> QED
      BY <3>1, <3>2
  <2>9. \A p, q \in parked' : p.key = q.key => p = q
    BY <1>a, <2>1 DEF OneButton
  <2> QED
    BY <2>4, <2>5, <2>7, <2>8, <2>9 DEF AdmissionInv, OneButton, OneTapOneAdmission
<1>4. ASSUME NEW k \in Key, NEW approve \in BOOLEAN, Resolve(k, approve)
      PROVE  AdmissionInv'
  <2>1. PICK p \in parked :
          /\ p.key = k /\ parked' = parked \ {p}
          /\ IF approve /\ now <= p.expires
             THEN Begin(k, "confirmed") /\ yes' = [yes EXCEPT ![k] = @ + 1]
             ELSE UNCHANGED <<calls, yes>>
          /\ UNCHANGED <<bound, boundKey, parsing, saves, record, now, knocks,
                         crashes, asked, minted, sent>>
    BY <1>4 DEF Resolve
  <2>t. asked \in [Key -> Nat] /\ yes \in [Key -> Nat]
    BY <1>a DEF TypeOK
  <2>2. calls' \in [Call -> Calls \cup {Idle}] /\ FirstIsIn'
    <3>1. CASE Begin(k, "confirmed")
      BY <1>a, <2>1, <3>1, CallBegins DEF Whys
    <3>2. CASE UNCHANGED calls
      BY <1>a, <2>1, <3>2 DEF FirstIsIn, BoundDeviceIsIn, BindingLasts, TypeOK
    <3> QED
      BY <2>1, <3>1, <3>2
  <2>3. yes' = [yes EXCEPT ![k] = @ + 1] \/ yes' = yes
    BY <2>1
  <2>4. yes' \in [Key -> Nat] /\ yes'[k] <= yes[k] + 1 /\ \A j \in Key \ {k} : yes'[j] = yes[j]
    BY <2>3, <2>t
  <2>5. TypeOK'
    BY <1>a, <2>1, <2>2, <2>4 DEF TypeOK
  <2>6. yes[k] < asked[k]
    BY <1>a, <2>1 DEF OneButton
  <2>7. \A j \in Key : yes'[j] <= asked'[j]
    BY <1>a, <2>1, <2>4, <2>6, <2>t DEF OneButton, OneTapOneAdmission
  <2>8. ASSUME NEW q \in parked'
        PROVE  yes'[q.key] < asked'[q.key]
    <3>1. q \in parked /\ q.key # k /\ q.key \in Key
      BY <1>a, <2>1 DEF OneButton, TypeOK
    <3> QED
      BY <1>a, <2>1, <2>4, <3>1 DEF OneButton
  <2>9. \A q, r \in parked' : q.key = r.key => q = r
    BY <1>a, <2>1 DEF OneButton
  <2> QED
    BY <2>2, <2>5, <2>7, <2>8, <2>9 DEF AdmissionInv, OneButton, OneTapOneAdmission
<1>5. ASSUME NEW c \in Call, Mint(c)
      PROVE  AdmissionInv'
  <2>1. PICK at \in {"wrap", "failed"} : calls' = [calls EXCEPT ![c].at = at]
    BY <1>5 DEF Mint
  <2>2. calls[c] \in Calls
    BY <1>a, <1>5 DEF Mint, TypeOK, Idle
  <2>3. minted' \subseteq Key
    BY <1>a, <1>5, <2>2 DEF Mint, TypeOK, Calls
  <2>4. calls' \in [Call -> Calls \cup {Idle}]
    BY <1>a, <2>1, <2>2 DEF TypeOK, Calls
  <2>5. UNCHANGED <<bound, boundKey, parsing, parked, saves, record, now, knocks,
                    crashes, asked, yes, sent>>
    BY <1>5 DEF Mint
  <2>6. TypeOK'
    BY <1>a, <2>3, <2>4, <2>5 DEF TypeOK
  <2>7. \A d \in Call : calls'[d].why = calls[d].why /\ (calls'[d].at = "ok" => d # c)
                        /\ (d # c => calls'[d] = calls[d])
    BY <1>a, <2>1, <2>2 DEF TypeOK, Calls
  <2>8. FirstIsIn'
    BY <1>a, <2>5, <2>7 DEF FirstIsIn, BoundDeviceIsIn, BindingLasts
  <2>9. OneButton'
    BY <1>a, <2>5 DEF OneButton, OneTapOneAdmission
  <2> QED
    BY <2>6, <2>8, <2>9 DEF AdmissionInv
<1>6. ASSUME NEW c \in Call, Wrap(c)
      PROVE  AdmissionInv'
  <2> DEFINE k == calls[c].key
             delivered == [sent EXCEPT ![k] = @ \cup {calls[c].why}]
  <2>1. PICK at \in {"ok", "failed"} :
          /\ calls' = [calls EXCEPT ![c].at = at]
          /\ sent' \in {sent, delivered} /\ (at = "ok" => sent' = delivered)
    BY <1>6 DEF Wrap
  <2>2. calls[c] \in Calls
    BY <1>a, <1>6 DEF Wrap, TypeOK, Idle
  <2>3. calls' \in [Call -> Calls \cup {Idle}]
    BY <1>a, <2>1, <2>2 DEF TypeOK, Calls
  <2>4. UNCHANGED <<bound, boundKey, parsing, parked, saves, record, now, knocks,
                    crashes, asked, yes, minted>>
    BY <1>6 DEF Wrap
  <2>5. sent' \in [Key -> SUBSET Whys] /\ \A j \in Key : sent[j] \subseteq sent'[j]
    BY <1>a, <2>1, <2>2 DEF TypeOK, Calls
  <2>6. TypeOK'
    BY <1>a, <2>3, <2>4, <2>5 DEF TypeOK
  <2>7. \A d \in Call : /\ calls'[d].why = calls[d].why /\ calls'[d].key = calls[d].key
                        /\ d # c => calls'[d] = calls[d]
    BY <1>a, <2>1, <2>2 DEF TypeOK, Calls
  <2>8. calls'[c].at = "ok" /\ calls'[c].why = "first" => "first" \in sent'[k]
    <3>1. calls'[c].at = at /\ k \in Key
      BY <1>a, <2>1, <2>2 DEF TypeOK, Calls
    <3> QED
      BY <1>a, <2>1, <2>7, <3>1 DEF TypeOK
  <2>9. BoundDeviceIsIn' /\ BindingLasts'
    BY <1>a, <2>4, <2>5, <2>7 DEF FirstIsIn, BoundDeviceIsIn, BindingLasts, TypeOK
  <2>10. ASSUME NEW d \in Call, d # c, calls'[d].at = "ok", calls'[d].why = "first"
         PROVE  "first" \in sent'[calls'[d].key]
    <3>1. calls'[d] = calls[d] /\ calls[d] \in Calls
      BY <1>a, <2>7, <2>10 DEF TypeOK, Idle
    <3> QED
      BY <1>a, <2>5, <2>10, <3>1 DEF FirstIsIn, Calls
  <2>11. FirstIsIn'
    BY <2>7, <2>8, <2>9, <2>10 DEF FirstIsIn
  <2>12. OneButton'
    BY <1>a, <2>4 DEF OneButton, OneTapOneAdmission
  <2> QED
    BY <2>6, <2>11, <2>12 DEF AdmissionInv
<1>7. ASSUME NEW c \in Call, Return(c)
      PROVE  AdmissionInv'
  <2>1. /\ calls' = [calls EXCEPT ![c] = Idle]
        /\ UNCHANGED <<parsing, parked, record, now, knocks, crashes, ghosts>>
    BY <1>7 DEF Return
  <2>2. calls[c] \in Calls
    BY <1>a, <1>7 DEF Return, TypeOK, Idle
  <2>3. calls' \in [Call -> Calls \cup {Idle}]
    BY <1>a, <2>1 DEF TypeOK
  <2>4. \/ /\ bound' = TRUE /\ boundKey' = calls[c].key /\ saves' = TRUE
           /\ "first" \in sent[calls[c].key]
        \/ UNCHANGED <<bound, boundKey, saves>>
    BY <1>a, <1>7 DEF Return, FirstIsIn
  <2>5. boundKey' \in Key \cup {NoKey} /\ bound' \in BOOLEAN /\ saves' \in BOOLEAN
    BY <1>a, <2>2, <2>4 DEF TypeOK, Calls
  <2>6. TypeOK'
    BY <1>a, <2>1, <2>3, <2>5 DEF TypeOK, ghosts
  <2>7. \A d \in Call : calls'[d] \in {Idle, calls[d]}
    BY <1>a, <2>1 DEF TypeOK
  <2>8. BoundDeviceIsIn' /\ (record # NoKey => bound')
    <3>1. calls[c].key # NoKey
      BY <2>2, NoKeyAssumption DEF Calls
    <3> QED
      BY <1>a, <2>1, <2>4, <3>1 DEF FirstIsIn, BoundDeviceIsIn, BindingLasts, ghosts
  <2>9. BindingLasts'
    BY <1>a, <2>1, <2>4, <2>7, <2>8 DEF FirstIsIn, BindingLasts, Idle
  <2>10. FirstIsIn'
    BY <1>a, <2>1, <2>7, <2>8, <2>9 DEF FirstIsIn, Idle, ghosts
  <2>11. OneButton'
    BY <1>a, <2>1 DEF OneButton, OneTapOneAdmission, ghosts
  <2> QED
    BY <2>6, <2>10, <2>11 DEF AdmissionInv
<1>8. CASE Save
  <2>1. TypeOK'
    BY <1>8, <1>a DEF Save, ghosts, TypeOK
  <2>2. FirstIsIn'
    BY <1>8, <1>a DEF Save, ghosts, FirstIsIn, BoundDeviceIsIn, BindingLasts
  <2>3. OneButton'
    BY <1>8, <1>a DEF Save, ghosts, OneButton, OneTapOneAdmission
  <2> QED
    BY <2>1, <2>2, <2>3 DEF AdmissionInv
<1>9. CASE Restart
  <2>0. bound' \in BOOLEAN
    <3>1. bound' = (record # NoKey)
      BY <1>9 DEF Restart
    <3> QED
      BY ONLY <3>1, Zenon
  <2>1. TypeOK'
    <3>1. /\ boundKey' = record /\ parsing' = [k \in Key |-> 0]
          /\ calls' = [c \in Call |-> Idle] /\ parked' = {} /\ saves' = FALSE
          /\ crashes' = crashes + 1 /\ UNCHANGED <<record, now, knocks, ghosts>>
      BY <1>9 DEF Restart
    <3>2. /\ boundKey' \in Key \cup {NoKey} /\ parsing' \in [Key -> Nat]
          /\ calls' \in [Call -> Calls \cup {Idle}]
          /\ parked' \subseteq [key : Key, expires : Nat]
      BY <1>a, <3>1 DEF TypeOK
    <3>3. /\ record' \in Key \cup {NoKey} /\ now' \in Nat /\ knocks' \in Nat /\ crashes' \in Nat
          /\ asked' \in [Key -> Nat] /\ yes' \in [Key -> Nat]
          /\ minted' \subseteq Key /\ sent' \in [Key -> SUBSET Whys]
      BY <1>a, <3>1 DEF TypeOK, ghosts
    <3>4. saves' \in BOOLEAN
      BY <3>1
    <3> QED
      BY <2>0, <3>2, <3>3, <3>4 DEF TypeOK
  <2>2. FirstIsIn'
    BY <1>9, <1>a DEF Restart, ghosts, FirstIsIn, BoundDeviceIsIn, BindingLasts, Idle
  <2>3. OneButton'
    BY <1>9, <1>a DEF Restart, ghosts, OneButton, OneTapOneAdmission
  <2> QED
    BY <2>1, <2>2, <2>3 DEF AdmissionInv
<1>10. CASE Tick
  <2>1. TypeOK'
    BY <1>10, <1>a DEF Tick, daemon, ghosts, TypeOK
  <2>2. FirstIsIn'
    BY <1>10, <1>a DEF Tick, daemon, ghosts, FirstIsIn, BoundDeviceIsIn, BindingLasts
  <2>3. OneButton'
    BY <1>10, <1>a DEF Tick, daemon, ghosts, OneButton, OneTapOneAdmission
  <2> QED
    BY <2>1, <2>2, <2>3 DEF AdmissionInv
<1> QED
  BY <1>1, <1>2, <1>3, <1>4, <1>5, <1>6, <1>7, <1>8, <1>9, <1>10
     DEF Next, Judge, Approval
-----------------------------------------------------------------------------
(* The daemons: while no socket was lost, whoever serves or is about to     *)
(* owns the path, so that no two do.                                        *)
Holding == {"pid", "serve", "leaving", "handover", "closing"}

SocketIsHeld ==
    ~lockless => \A p \in Process : proc[p] \in Holding => path = p /\ p \in listening

SocketInv == D!TypeOK /\ SocketIsHeld

LEMMA SocketsBegin ==
    ASSUME D!NoneAssumption, D!Init
    PROVE  SocketInv
BY DEF D!NoneAssumption, D!Init, SocketInv, D!TypeOK, D!Phases, SocketIsHeld, Holding

(* A process that moves while the socket stays as it is.                    *)
LEMMA SocketStays ==
    ASSUME SocketInv, NEW p \in Process, NEW next \in D!Phases, D!Go(p, next),
           next \in Holding => proc[p] \in Holding,
           UNCHANGED <<path, listening, lockless>>
    PROVE  SocketIsHeld'
BY DEF SocketInv, D!TypeOK, D!Go, SocketIsHeld

(* A process that ends, or closes its own socket.                           *)
LEMMA SocketEnds ==
    ASSUME SocketInv, NEW p \in Process, NEW next \in D!Phases \ Holding, D!Go(p, next),
           listening' = listening \ {p}, UNCHANGED <<path, lockless>>
    PROVE  SocketIsHeld'
BY DEF SocketInv, D!TypeOK, D!Go, SocketIsHeld

(* The path is unlinked.                                                    *)
LEMMA SocketUnlinked ==
    ASSUME D!NoneAssumption, SocketInv,
           NEW p \in Process, NEW next \in D!Phases \ Holding, D!Go(p, next),
           path' = None, lockless' = (lockless \/ D!SocketLive), UNCHANGED listening
    PROVE  SocketIsHeld'
<1>1. CASE lockless'
  BY <1>1 DEF SocketIsHeld
<1>2. CASE ~lockless'
  <2>1. ~lockless /\ ~(path # None /\ path \in listening)
    BY <1>2 DEF D!SocketLive
  <2>2. \A q \in Process : proc[q] \notin Holding
    BY <2>1 DEF SocketInv, SocketIsHeld, D!NoneAssumption
  <2> QED
    BY <2>2 DEF SocketInv, D!TypeOK, D!Go, SocketIsHeld
<1> QED
  BY <1>1, <1>2

(* What one process does in a step, by what becomes of the socket.          *)
Quiet(p) ==
    \/ D!Start(p) \/ D!Tidy(p) \/ D!Probe(p) \/ D!Wait(p) \/ D!Setup(p) \/ D!BindProbe(p)
    \/ D!WritePid(p) \/ D!Signal(p) \/ D!ReExec(p) \/ D!Teardown(p) \/ D!RemovePid(p)
Ending(p) == D!UpdateService(p) \/ D!Exit(p) \/ D!Crash(p) \/ D!ForceStop(p)

LEMMA SocketSteps ==
    ASSUME D!Next
    PROVE  \/ \E p \in Process :
                \/ Quiet(p) \/ Ending(p) \/ D!Check(p) \/ D!Unlink(p) \/ D!Listen(p)
                \/ D!ListenFails(p) \/ D!Close(p) \/ D!CloseUnlink(p)
                \/ \E child \in Process : D!Respawn(p, child) \/ D!Update(p, child)
           \/ D!Status
BY DEF D!Next, D!Run, Quiet, Ending

LEMMA QuietStep ==
    ASSUME SocketInv, NEW p \in Process, Quiet(p)
    PROVE  /\ SocketInv'
           /\ \E next \in D!Phases : D!Go(p, next)
           /\ UNCHANGED path
<1>1. PICK next \in D!Phases :
        /\ D!Go(p, next)
        /\ next \in Holding => proc[p] \in Holding
  BY Zenon DEF Quiet, D!Start, D!Tidy, D!Probe, D!Wait, D!Setup, D!BindProbe, D!WritePid, D!Signal,
         D!ReExec, D!Teardown, D!RemovePid, D!Phases, Holding
<1>2. UNCHANGED <<path, listening, lockless>>
  BY DEF Quiet, D!Start, D!Tidy, D!Probe, D!Wait, D!Setup, D!BindProbe, D!WritePid, D!Signal,
         D!ReExec, D!Teardown, D!RemovePid, D!files, D!manager
<1>3. /\ handoff' \in {handoff, handoff \ {p}, handoff \cup {p}}
      /\ pidfile' \in {pidfile, None, p} /\ main' \in {main, p}
      /\ serviced' \in {serviced, serviced \cup {p}}
  BY DEF Quiet, D!Start, D!Tidy, D!Probe, D!Wait, D!Setup, D!BindProbe, D!WritePid, D!Signal,
         D!ReExec, D!Teardown, D!RemovePid, D!files, D!manager
<1>4. proc' \in [Process -> D!Phases]
  BY <1>1 DEF SocketInv, D!TypeOK, D!Go
<1>5. D!TypeOK'
  BY <1>2, <1>3, <1>4 DEF SocketInv, D!TypeOK
<1> QED
  BY <1>1, <1>2, <1>5, SocketStays DEF SocketInv

LEMMA EndingStep ==
    ASSUME SocketInv, NEW p \in Process, Ending(p) \/ (D!Ends(p) /\ D!Check(p))
    PROVE  SocketInv' /\ D!Go(p, "dead") /\ UNCHANGED path
<1>1. /\ D!Go(p, "dead") /\ listening' = listening \ {p}
      /\ UNCHANGED <<path, lockless, handoff, main, serviced>> /\ pidfile' \in {pidfile, None}
  BY DEF Ending, D!UpdateService, D!Exit, D!Crash, D!ForceStop, D!Check, D!Ends, D!files, D!manager
<1>2. D!TypeOK'
  BY <1>1 DEF SocketInv, D!TypeOK, D!Go, D!Phases
<1>3. "dead" \in D!Phases \ Holding
  BY DEF D!Phases, Holding
<1> QED
  BY <1>1, <1>2, <1>3, SocketEnds DEF SocketInv

(* Every step of a process keeps the invariant.                             *)
LEMMA SocketsKept ==
    ASSUME D!NoneAssumption, SocketInv, D!Next
    PROVE  SocketInv'
<1>a. D!TypeOK /\ SocketIsHeld /\ None \notin Process
  BY DEF SocketInv, D!NoneAssumption
<1>1. ASSUME NEW p \in Process, D!Check(p)
      PROVE  SocketInv'
  <2>1. CASE D!Ends(p)
    BY <1>1, <2>1, EndingStep
  <2>2. CASE ~D!Ends(p)
    <3>1. PICK next \in {"probe", "tidy"} : D!Go(p, next)
      BY <1>1, <2>2 DEF D!Check
    <3>2. UNCHANGED <<handoff, listening, path, pidfile, main, serviced, lockless>>
      BY <1>1, <2>2 DEF D!Check, D!files, D!manager
    <3>3. next \in D!Phases \ Holding
      BY <3>1 DEF D!Phases, Holding
    <3>4. D!TypeOK'
      BY <1>a, <3>1, <3>2, <3>3 DEF D!TypeOK, D!Go
    <3> QED
      BY <3>1, <3>2, <3>3, <3>4, SocketStays DEF SocketInv
  <2> QED
    BY <2>1, <2>2
<1>2. ASSUME NEW p \in Process, D!Unlink(p)
      PROVE  SocketInv'
  <2>1. /\ D!Go(p, "listen") /\ path' = None /\ lockless' = (lockless \/ D!SocketLive)
        /\ UNCHANGED <<handoff, listening, pidfile, main, serviced>>
    BY <1>2 DEF D!Unlink, D!manager
  <2>2. "listen" \in D!Phases \ Holding
    BY DEF D!Phases, Holding
  <2>3. D!TypeOK'
    BY <1>a, <2>1, <2>2 DEF D!TypeOK, D!Go
  <2> QED
    BY <2>1, <2>2, <2>3, SocketUnlinked DEF SocketInv
<1>3. ASSUME NEW p \in Process, D!Listen(p)
      PROVE  SocketInv'
  <2>1. UNCHANGED <<handoff, pidfile, main, serviced, lockless>>
    BY <1>3 DEF D!Listen, D!manager
  <2>2. CASE path = None
    <3>1. path' = p /\ listening' = listening \cup {p} /\ D!Go(p, "pid")
      BY <1>3, <2>2 DEF D!Listen
    <3>2. D!TypeOK'
      BY <1>a, <2>1, <3>1 DEF D!TypeOK, D!Go, D!Phases
    <3>3. ~lockless => \A q \in Process : proc[q] \notin Holding
      BY <1>a, <2>2 DEF SocketIsHeld
    <3>4. SocketIsHeld'
      BY <1>a, <2>1, <3>1, <3>3 DEF SocketIsHeld, D!TypeOK, D!Go
    <3> QED
      BY <3>2, <3>4 DEF SocketInv
  <2>3. CASE path # None
    <3>1. D!Go(p, "dead") /\ UNCHANGED <<path, listening>>
      BY <1>3, <2>3 DEF D!Listen
    <3>2. "dead" \in D!Phases \ Holding
      BY DEF D!Phases, Holding
    <3>3. D!TypeOK'
      BY <1>a, <2>1, <3>1, <3>2 DEF D!TypeOK, D!Go
    <3> QED
      BY <2>1, <3>1, <3>2, <3>3, SocketStays DEF SocketInv
  <2> QED
    BY <2>2, <2>3
<1>4. ASSUME NEW p \in Process, D!ListenFails(p)
      PROVE  SocketInv'
  <2>1. D!TypeOK'
    BY <1>a, <1>4 DEF D!ListenFails, D!TypeOK, D!Go, D!Phases, D!files, D!manager
  <2> QED
    BY <1>4, <2>1 DEF D!ListenFails, SocketInv, SocketIsHeld
<1>5. ASSUME NEW p \in Process, D!Close(p)
      PROVE  SocketInv'
  <2>1. UNCHANGED <<handoff, pidfile, main, serviced, lockless>>
    BY <1>5 DEF D!Close, D!manager
  <2>2. CASE path = p
    <3>1. listening' = listening \ {p} /\ path' = None /\ D!Go(p, "unlinking")
      BY <1>5, <2>2 DEF D!Close
    <3>2. D!TypeOK'
      BY <1>a, <2>1, <3>1 DEF D!TypeOK, D!Go, D!Phases
    <3>3. SocketIsHeld'
      BY <1>a, <2>1, <2>2, <3>1 DEF SocketIsHeld, D!TypeOK, D!Go, Holding
    <3> QED
      BY <3>2, <3>3 DEF SocketInv
  <2>3. CASE path # p
    <3>1. PICK next \in {"respawning", "unpid"} : D!Go(p, next)
      BY <1>5, <2>3 DEF D!Close, D!AfterClose
    <3>2. UNCHANGED <<path, listening>>
      BY <1>5, <2>3 DEF D!Close
    <3>3. next \in D!Phases \ Holding
      BY <3>1 DEF D!Phases, Holding
    <3>4. D!TypeOK'
      BY <1>a, <2>1, <3>1, <3>2, <3>3 DEF D!TypeOK, D!Go
    <3> QED
      BY <2>1, <3>1, <3>2, <3>3, <3>4, SocketStays DEF SocketInv
  <2> QED
    BY <2>2, <2>3
<1>6. ASSUME NEW p \in Process, D!CloseUnlink(p)
      PROVE  SocketInv'
  <2>1. PICK next \in {"respawning", "unpid"} : D!Go(p, next)
    BY <1>6 DEF D!CloseUnlink, D!AfterClose
  <2>2. /\ path' = None /\ lockless' = (lockless \/ D!SocketLive)
        /\ UNCHANGED <<handoff, listening, pidfile, main, serviced>>
    BY <1>6 DEF D!CloseUnlink, D!manager
  <2>3. next \in D!Phases \ Holding
    BY <2>1 DEF D!Phases, Holding
  <2>4. D!TypeOK'
    BY <1>a, <2>1, <2>2, <2>3 DEF D!TypeOK, D!Go
  <2> QED
    BY <2>1, <2>2, <2>3, <2>4, SocketUnlinked DEF SocketInv
<1>7. ASSUME NEW p \in Process, NEW child \in Process, D!Respawn(p, child) \/ D!Update(p, child)
      PROVE  SocketInv'
  <2>1. PICK next \in {"exiting", "handover"} :
          /\ proc' = [proc EXCEPT ![p] = next, ![child] = "check"]
          /\ next = "handover" => proc[p] = "serve"
    BY <1>7 DEF D!Respawn, D!Update, D!Spawn
  <2>2. /\ handoff' = (handoff \ {p}) \cup {child}
        /\ serviced' \in {serviced, serviced \cup {child}}
        /\ UNCHANGED <<listening, path, pidfile, main, lockless>>
    BY <1>7 DEF D!Respawn, D!Update, D!Spawn, D!files
  <2>3. D!TypeOK'
    BY <1>a, <2>1, <2>2 DEF D!TypeOK, D!Phases
  <2>4. SocketIsHeld'
    BY <1>a, <2>1, <2>2 DEF SocketIsHeld, D!TypeOK, Holding
  <2> QED
    BY <2>3, <2>4 DEF SocketInv
<1>8. CASE D!Status
  <2>1. pidfile' = None /\ UNCHANGED <<proc, handoff, listening, path, main, serviced, lockless>>
    BY <1>8 DEF D!Status, D!manager
  <2> QED
    BY <1>a, <2>1 DEF SocketInv, D!TypeOK, SocketIsHeld
<1> QED
  BY <1>1, <1>2, <1>3, <1>4, <1>5, <1>6, <1>7, <1>8, SocketSteps, QuietStep, EndingStep

(* At most one answers ...                                                  *)
LEMMA OwnerAnswers == SocketInv => D!OneAnswers
<1> SUFFICES ASSUME SocketInv, ~lockless
             PROVE  D!Cardinality(D!Answering) <= 1
  BY DEF D!OneAnswers
<1>1. \A p \in D!Answering : p = path
  BY DEF SocketInv, SocketIsHeld, D!Answering, Holding
<1>2. D!Answering = {} \/ D!Answering = {path}
  BY <1>1
<1>3. Cardinality({}) = 0 /\ Cardinality({path}) = 1
  BY FS_EmptySet, FS_Singleton
<1>4. D!Cardinality(D!Answering) = Cardinality(D!Answering)
  BY DEF D!Cardinality, Cardinality
<1> QED
  BY <1>2, <1>3, <1>4

(* ... and who closes leaves another's socket where it is.                  *)
LEMMA CloseSpares ==
    ASSUME SocketInv, [D!Next]_D!vars, NEW p \in Process, NEW q \in Process,
           proc[p] = "closing", proc'[p] # "closing", path = q, q # p
    PROVE  path' = q
<1>a. D!TypeOK
  BY DEF SocketInv
<1>1. CASE UNCHANGED D!vars
  BY <1>1 DEF D!vars
<1>2. ASSUME NEW r \in Process, Quiet(r) \/ Ending(r) \/ D!Close(r)
      PROVE  path' = q
  <2>1. CASE Quiet(r) \/ Ending(r)
    BY <2>1, QuietStep, EndingStep
  <2>2. CASE D!Close(r)
    <3>1. r = p
      BY <1>a, <2>2 DEF D!Close, D!Go, D!TypeOK
    <3> QED
      BY <2>2, <3>1 DEF D!Close
  <2> QED
    BY <1>2, <2>1, <2>2
<1>3. ASSUME NEW r \in Process,
             D!Check(r) \/ D!Unlink(r) \/ D!Listen(r) \/ D!ListenFails(r) \/ D!CloseUnlink(r)
      PROVE  FALSE
  <2>1. proc[r] # "closing" /\ \E next \in D!Phases : D!Go(r, next)
    BY <1>3 DEF D!Check, D!Unlink, D!Listen, D!ListenFails, D!CloseUnlink, D!Ends,
                D!AfterClose, D!Phases
  <2> QED
    BY <1>a, <2>1 DEF D!TypeOK, D!Go
<1>4. ASSUME NEW r \in Process, NEW child \in Process, D!Respawn(r, child) \/ D!Update(r, child)
      PROVE  path' = q
  BY <1>4 DEF D!Respawn, D!Update, D!Spawn, D!files
<1>5. CASE D!Status
  BY <1>5 DEF D!Status
<1> QED
  BY <1>1, <1>2, <1>3, <1>4, <1>5, SocketSteps
-----------------------------------------------------------------------------
(* The taps: an answer that says yes comes from a hold that went to its     *)
(* end, wherever it has got to ...                                          *)
Confirmed(t) == \A i \in DOMAIN t : t[i].act = "yes" => t[i].of \in held

YesIsHeld ==
    /\ \A i \in DOMAIN pending : pending[i].act # "yes"
    /\ \A t \in taps : Confirmed(t)
    /\ \A j \in jobs : Confirmed(j.left)

(* ... and a dialog in which no two holds met is locked by its one answer.  *)
HoldsAreSingle ==
    \A a \in Agent : a \notin loose =>
        /\ ~dialog[a].stray /\ answers[a] <= 1
        /\ dialog[a].locked => ~dialog[a].live
        /\ ~dialog[a].locked => answers[a] = 0

TapInv == T!TypeOK /\ YesIsHeld /\ HoldsAreSingle

LEMMA TapsBegin ==
    ASSUME T!Init
    PROVE  TapInv
<1> USE DEF T!Init
<1>1. T!TypeOK
  <2>1. posted \subseteq T!Block
    BY DEF T!Menu, T!Block, T!Of
  <2>2. dialog \in [Agent -> [live : BOOLEAN, stray : BOOLEAN, locked : BOOLEAN]]
    OBVIOUS
  <2>3. agents \in [Agent -> {"unborn", "up", "stopped", "gone"}]
        /\ scheds \in [Schedule -> {"unborn", "on", "off", "removed"}]
    OBVIOUS
  <2>4. pending \in Seq(T!Response)
    BY EmptySeq
  <2> QED
    BY <2>1, <2>2, <2>3, <2>4 DEF T!TypeOK
<1>2. YesIsHeld
  BY DEF YesIsHeld
<1>3. HoldsAreSingle
  BY DEF HoldsAreSingle
<1> QED
  BY <1>1, <1>2, <1>3 DEF TapInv

(* What a row of buttons sends is a response, and never a yes.              *)
LEMMA OptionsAreTame ==
    ASSUME NEW b \in T!Block, NEW r \in T!Options(b)
    PROVE  r \in T!Response /\ r.act # "yes"
<1>1. b.of \in T!Of /\ Agent \subseteq T!Of /\ "all" \in T!Of
  BY DEF T!Block, T!Of
<1>2. CASE b.kind = "menu"
  BY <1>1, <1>2 DEF T!Options, T!Response, T!Acts
<1>3. CASE b.kind = "agent"
  BY <1>1, <1>3 DEF T!Options, T!Response, T!Acts
<1>4. CASE b.kind = "schedule"
  BY <1>1, <1>4 DEF T!Options, T!Response, T!Acts
<1>5. CASE b.kind \notin {"menu", "agent", "schedule"}
  BY <1>5 DEF T!Options
<1> QED
  BY <1>2, <1>3, <1>4, <1>5

(* What the answer to a response shows are blocks.                          *)
LEMMA ShownAreBlocks ==
    ASSUME T!TypeOK, NEW r \in T!Response
    PROVE  T!Shown(r) \subseteq T!Block
<1>1. \A a \in Agent : T!Confirm(a) \in T!Block /\ T!AgentRow(a) \in T!Block
  BY DEF T!Confirm, T!AgentRow, T!Block, T!Of
<1>2. ASSUME NEW s \in Schedule
      PROVE  T!ScheduleRow(s) \in T!Block
  <2>1. (scheds[s] = "on") \in BOOLEAN
    BY Zenon
  <2> QED
    BY <2>1 DEF T!ScheduleRow, T!Block, T!Of
<1>3. CASE r.act = "kill"
  <2>1. \A x \in {r.of} : agents[x] = "up" => T!Confirm(x) \in T!Block
    BY <1>1 DEF T!Confirm, T!Block, T!Response
  <2> QED
    BY <1>3, <2>1 DEF T!Shown
<1>4. CASE r.act = "list"
  BY <1>1, <1>4 DEF T!Shown
<1>5. CASE r.act \in {"schedules", "pause", "resume", "del"}
  BY <1>2, <1>5 DEF T!Shown
<1>6. CASE r.act \notin {"kill", "list", "schedules", "pause", "resume", "del"}
  BY <1>6 DEF T!Shown
<1> QED
  BY <1>3, <1>4, <1>5, <1>6

(* The selections are responses still, whatever is tapped.                  *)
LEMMA SelectionsStay ==
    ASSUME TapInv, NEW b \in posted, NEW r \in T!Options(b), T!Select(b, r)
    PROVE  pending' \in Seq(T!Response) /\ \A i \in DOMAIN pending' : pending'[i].act # "yes"
<1>a. pending \in Seq(T!Response) /\ \A i \in DOMAIN pending : pending[i].act # "yes"
  BY DEF TapInv, T!TypeOK, YesIsHeld
<1>b. r \in T!Response /\ r.act # "yes"
  BY OptionsAreTame DEF TapInv, T!TypeOK
<1>1. CASE pending' = Append(pending, r)
  BY <1>1, <1>a, <1>b
<1>2. ASSUME NEW i \in DOMAIN pending, pending' = [pending EXCEPT ![i] = r]
      PROVE  pending' \in Seq(T!Response) /\ \A k \in DOMAIN pending' : pending'[k].act # "yes"
  <2>1. i \in 1..Len(pending) /\ DOMAIN pending' = DOMAIN pending
    BY <1>2, <1>a
  <2>2. pending' \in Seq(T!Response)
    BY <1>2, <1>a, <1>b, <2>1, ExceptSeq
  <2> QED
    BY <1>2, <1>a, <1>b, <2>1, <2>2
<1>3. ASSUME NEW i \in DOMAIN pending, pending' = T!Without(pending, i)
      PROVE  pending' \in Seq(T!Response) /\ \A k \in DOMAIN pending' : pending'[k].act # "yes"
  <2> DEFINE n == Len(pending) - 1
  <2>1. n \in Nat /\ i \in 1..Len(pending)
    BY <1>3, <1>a
  <2>2. \A k \in 1..n : /\ k \in DOMAIN pending /\ k + 1 \in DOMAIN pending
    BY <1>a, <2>1
  <2>3. pending' = [k \in 1..n |-> IF k < i THEN pending[k] ELSE pending[k + 1]]
    BY <1>3 DEF T!Without
  <2>4. \A k \in 1..n : pending'[k] \in T!Response /\ pending'[k].act # "yes"
    BY <1>a, <2>2, <2>3
  <2>5. pending' \in [1..n -> T!Response]
    BY <2>3, <2>4
  <2>6. pending' \in Seq(T!Response)
    BY <2>1, <2>5, SeqDef
  <2> QED
    BY <2>3, <2>4, <2>6
<1> QED
  BY <1>1, <1>2, <1>3 DEF T!Select
(* What is sent is one response more; a handler's batch is a rest of it.    *)
LEMMA SentIsTyped ==
    ASSUME T!TypeOK, NEW t \in Seq(T!Response) \ {<<>>}, T!Answer(t)
    PROVE  taps' \subseteq Seq(T!Response) \ {<<>>}
BY DEF T!TypeOK, T!Answer

LEMMA SaidIsTyped ==
    ASSUME T!TypeOK, NEW a \in Agent, NEW what \in {"yes", "no"}, T!Say(a, what)
    PROVE  /\ taps' = taps \cup {<<[act |-> what, of |-> a]>>}
           /\ taps' \subseteq Seq(T!Response) \ {<<>>}
           /\ answers' \in [Agent -> 0..2]
           /\ answers[a] = 0 => answers'[a] = 1
           /\ \A b \in Agent \ {a} : answers'[b] = answers[b]
<1> DEFINE r == [act |-> what, of |-> a]
<1>1. r \in T!Response
  BY DEF T!Response, T!Acts, T!Of
<1>2. <<r>> \in Seq(T!Response) /\ <<r>> # <<>>
  BY <1>1
<1>3. taps' = taps \cup {<<r>>} /\ answers' = [answers EXCEPT ![a] = IF @ < 2 THEN @ + 1 ELSE @]
  BY DEF T!Say, T!Answer
<1>4. answers \in [Agent -> 0..2] /\ taps \subseteq Seq(T!Response) \ {<<>>}
  BY DEF T!TypeOK
<1>5. /\ answers' \in [Agent -> 0..2] /\ (answers[a] = 0 => answers'[a] = 1)
      /\ \A b \in Agent \ {a} : answers'[b] = answers[b]
  BY ONLY <1>3, <1>4, a \in Agent
<1> QED
  BY <1>2, <1>3, <1>4, <1>5

(* The phone's part of a step: what it sends is confirmed.                  *)
LEMMA PhoneKeeps ==
    ASSUME YesIsHeld, held \subseteq held', UNCHANGED jobs,
           \A i \in DOMAIN pending' : pending'[i].act # "yes",
           \A t \in taps' \ taps : Confirmed(t)'
    PROVE  YesIsHeld'
BY DEF YesIsHeld, Confirmed

(* What leaves a dialog alone leaves its holds single.                      *)
LEMMA DialogsStay ==
    ASSUME HoldsAreSingle, NEW a \in Agent, loose \subseteq loose',
           \A b \in Agent \ {a} : dialog'[b] = dialog[b] /\ answers'[b] = answers[b],
           a \notin loose' =>
              /\ ~dialog'[a].stray /\ answers'[a] <= 1
              /\ dialog'[a].locked => ~dialog'[a].live
              /\ ~dialog'[a].locked => answers'[a] = 0
    PROVE  HoldsAreSingle'
BY DEF HoldsAreSingle

LEMMA TapsKept ==
    ASSUME TapInv, T!Next
    PROVE  TapInv'
<1>a. T!TypeOK /\ YesIsHeld /\ HoldsAreSingle
  BY DEF TapInv
<1>t. /\ agents \in [Agent -> {"unborn", "up", "stopped", "gone"}]
      /\ scheds \in [Schedule -> {"unborn", "on", "off", "removed"}]
      /\ posted \subseteq T!Block /\ pending \in Seq(T!Response)
      /\ dialog \in [Agent -> [live : BOOLEAN, stray : BOOLEAN, locked : BOOLEAN]]
      /\ taps \subseteq Seq(T!Response) \ {<<>>}
      /\ jobs \subseteq [left : Seq(T!Response) \ {<<>>}, posting : BOOLEAN]
      /\ held \subseteq Agent /\ loose \subseteq Agent /\ answers \in [Agent -> 0..2]
  BY <1>a DEF T!TypeOK
<1> USE DEF T!phone, T!ghosts
<1>1. ASSUME NEW b \in posted, NEW r \in T!Options(b), T!Select(b, r)
      PROVE  TapInv'
  <2>1. pending' \in Seq(T!Response) /\ \A i \in DOMAIN pending' : pending'[i].act # "yes"
    BY <1>1, SelectionsStay
  <2>2. UNCHANGED <<agents, scheds, posted, dialog, taps, jobs, held, loose, answers>>
    BY <1>1 DEF T!Select
  <2>3. T!TypeOK'
    BY <1>t, <2>1, <2>2 DEF T!TypeOK
  <2>4. YesIsHeld'
    BY <1>a, <2>1, <2>2, PhoneKeeps
  <2>5. HoldsAreSingle'
    BY <1>a, <2>2 DEF HoldsAreSingle
  <2> QED
    BY <2>3, <2>4, <2>5 DEF TapInv
<1>2. CASE T!Send
  <2>1. /\ pending # <<>> /\ T!Answer(pending) /\ pending' = <<>>
        /\ UNCHANGED <<agents, scheds, posted, dialog, jobs, held, loose, answers>>
    BY <1>2 DEF T!Send
  <2>2. taps' \subseteq Seq(T!Response) \ {<<>>} /\ taps' = taps \cup {pending}
    BY <1>a, <1>t, <2>1, SentIsTyped DEF T!Answer
  <2>3. T!TypeOK'
    BY <1>t, <2>1, <2>2 DEF T!TypeOK
  <2>4. YesIsHeld'
    BY <1>a, <2>1, <2>2 DEF YesIsHeld, Confirmed
  <2>5. HoldsAreSingle'
    BY <1>a, <2>1 DEF HoldsAreSingle
  <2> QED
    BY <2>3, <2>4, <2>5 DEF TapInv
<1>3. ASSUME NEW a \in Agent, T!Type(a)
      PROVE  TapInv'
  <2> DEFINE t == <<[act |-> "kill", of |-> a]>>
  <2>1. /\ T!Answer(t)
        /\ UNCHANGED <<agents, scheds, posted, pending, dialog, jobs, held, loose, answers>>
    BY <1>3 DEF T!Type
  <2>2. [act |-> "kill", of |-> a] \in T!Response
    BY DEF T!Response, T!Acts, T!Of
  <2>3. t \in Seq(T!Response) \ {<<>>} /\ \A i \in DOMAIN t : t[i].act # "yes"
    BY <2>2
  <2>4. taps' \subseteq Seq(T!Response) \ {<<>>} /\ taps' = taps \cup {t}
    BY <1>a, <2>1, <2>3, SentIsTyped DEF T!Answer
  <2>5. T!TypeOK'
    BY <1>t, <2>1, <2>4 DEF T!TypeOK
  <2>6. YesIsHeld'
    BY <1>a, <2>1, <2>3, <2>4 DEF YesIsHeld, Confirmed
  <2>7. HoldsAreSingle'
    BY <1>a, <2>1 DEF HoldsAreSingle
  <2> QED
    BY <2>5, <2>6, <2>7 DEF TapInv
<1>4. CASE T!Unmount
  <2>1. /\ pending' = <<>>
        /\ dialog' = [a \in Agent |->
               [live |-> FALSE, stray |-> dialog[a].live \/ dialog[a].stray, locked |-> FALSE]]
        /\ loose' = loose \cup {a \in Agent : dialog[a].live}
        /\ answers' = [a \in Agent |-> 0]
        /\ UNCHANGED <<agents, scheds, posted, taps, jobs, held>>
    BY <1>4 DEF T!Unmount
  <2>2. dialog' \in [Agent -> [live : BOOLEAN, stray : BOOLEAN, locked : BOOLEAN]]
    <3>1. \A a \in Agent : (dialog[a].live \/ dialog[a].stray) \in BOOLEAN
      BY Zenon
    <3> QED
      BY <2>1, <3>1
  <2>3. T!TypeOK'
    BY <1>t, <2>1, <2>2 DEF T!TypeOK
  <2>4. YesIsHeld'
    BY <1>a, <2>1, PhoneKeeps
  <2>5. ASSUME NEW a \in Agent, a \notin loose'
        PROVE  /\ ~dialog'[a].stray /\ answers'[a] = 0
               /\ ~dialog'[a].live /\ ~dialog'[a].locked
    <3>1. a \notin loose /\ ~dialog[a].live
      BY <2>1, <2>5
    <3>2. ~dialog[a].stray
      BY <1>a, <3>1 DEF HoldsAreSingle
    <3>3. /\ dialog'[a].stray = (dialog[a].live \/ dialog[a].stray)
          /\ dialog'[a].live = FALSE /\ dialog'[a].locked = FALSE /\ answers'[a] = 0
      BY ONLY <2>1, a \in Agent
    <3> QED
      BY ONLY <3>1, <3>2, <3>3, Zenon
  <2>6. HoldsAreSingle'
    BY <2>5 DEF HoldsAreSingle
  <2> QED
    BY <2>3, <2>4, <2>6 DEF TapInv
<1>5. ASSUME NEW a \in Agent, T!StartHold(a)
      PROVE  TapInv'
  <2>1. /\ ~dialog[a].locked
        /\ dialog' = [dialog EXCEPT ![a].live = TRUE, ![a].stray = @ \/ dialog[a].live]
        /\ loose' = IF dialog[a].live THEN loose \cup {a} ELSE loose
        /\ UNCHANGED <<agents, scheds, posted, pending, taps, jobs, held, answers>>
    BY <1>5 DEF T!StartHold
  <2>2. dialog' \in [Agent -> [live : BOOLEAN, stray : BOOLEAN, locked : BOOLEAN]]
    BY <1>t, <2>1
  <2>3. T!TypeOK'
    BY <1>t, <2>1, <2>2 DEF T!TypeOK
  <2>4. YesIsHeld'
    BY <1>a, <2>1 DEF YesIsHeld, Confirmed
  <2>5. /\ dialog'[a].stray <=> (dialog[a].stray \/ dialog[a].live)
        /\ dialog'[a].locked = dialog[a].locked
        /\ \A b \in Agent \ {a} : dialog'[b] = dialog[b] /\ answers'[b] = answers[b]
    BY <1>t, <2>1
  <2>6. a \notin loose' =>
              /\ ~dialog'[a].stray /\ answers'[a] <= 1
              /\ dialog'[a].locked => ~dialog'[a].live
              /\ ~dialog'[a].locked => answers'[a] = 0
    BY <1>a, <2>1, <2>5 DEF HoldsAreSingle
  <2>7. HoldsAreSingle'
    BY <1>a, <2>1, <2>5, <2>6, DialogsStay
  <2> QED
    BY <2>3, <2>4, <2>7 DEF TapInv
<1>6. ASSUME NEW a \in Agent, T!EndHold(a)
      PROVE  TapInv'
  <2>1. /\ dialog' = [dialog EXCEPT ![a].live = FALSE]
        /\ UNCHANGED <<agents, scheds, posted, pending, taps, jobs, held, loose, answers>>
    BY <1>6 DEF T!EndHold
  <2>2. dialog' \in [Agent -> [live : BOOLEAN, stray : BOOLEAN, locked : BOOLEAN]]
    BY <1>t, <2>1
  <2>3. T!TypeOK'
    BY <1>t, <2>1, <2>2 DEF T!TypeOK
  <2>4. YesIsHeld'
    BY <1>a, <2>1 DEF YesIsHeld, Confirmed
  <2>5. HoldsAreSingle'
    BY <1>a, <1>t, <2>1 DEF HoldsAreSingle
  <2> QED
    BY <2>3, <2>4, <2>5 DEF TapInv
<1>7. ASSUME NEW a \in Agent, T!Held(a)
      PROVE  TapInv'
  <2>1. /\ dialog[a].live
        /\ dialog' = [dialog EXCEPT ![a].live = FALSE, ![a].locked = TRUE]
        /\ T!Say(a, "yes") /\ held' = held \cup {a}
        /\ UNCHANGED <<agents, scheds, posted, pending, jobs, loose>>
    BY <1>7 DEF T!Held
  <2>2. dialog' \in [Agent -> [live : BOOLEAN, stray : BOOLEAN, locked : BOOLEAN]]
    BY <1>t, <2>1
  <2>3. /\ taps' = taps \cup {<<[act |-> "yes", of |-> a]>>}
        /\ taps' \subseteq Seq(T!Response) \ {<<>>}
        /\ answers' \in [Agent -> 0..2]
        /\ answers[a] = 0 => answers'[a] = 1
        /\ \A b \in Agent \ {a} : answers'[b] = answers[b]
    BY <1>a, <2>1, SaidIsTyped
  <2>4. T!TypeOK'
    BY <1>t, <2>1, <2>2, <2>3 DEF T!TypeOK
  <2>5. YesIsHeld'
    BY <1>a, <2>1, <2>3 DEF YesIsHeld, Confirmed
  <2>6. a \notin loose' =>
              /\ ~dialog'[a].stray /\ answers'[a] <= 1
              /\ dialog'[a].locked => ~dialog'[a].live
              /\ ~dialog'[a].locked => answers'[a] = 0
    BY <1>a, <1>t, <2>1, <2>3 DEF HoldsAreSingle
  <2>7. HoldsAreSingle'
    BY <1>a, <1>t, <2>1, <2>3, <2>6, DialogsStay
  <2> QED
    BY <2>4, <2>5, <2>7 DEF TapInv
<1>8. ASSUME NEW a \in Agent, T!StrayFires(a)
      PROVE  TapInv'
  <2>1. /\ dialog[a].stray
        /\ \E stray, locked \in BOOLEAN, live \in {FALSE, dialog[a].live} :
             dialog' = [dialog EXCEPT ![a] = [live |-> live, stray |-> stray, locked |-> locked]]
        /\ T!Say(a, "yes") /\ held' = held \cup {a}
        /\ UNCHANGED <<agents, scheds, posted, pending, jobs, loose>>
    BY <1>8 DEF T!StrayFires
  <2>2. PICK x \in [live : BOOLEAN, stray : BOOLEAN, locked : BOOLEAN] :
          dialog' = [dialog EXCEPT ![a] = x]
    BY <1>t, <2>1
  <2>3. /\ taps' = taps \cup {<<[act |-> "yes", of |-> a]>>}
        /\ taps' \subseteq Seq(T!Response) \ {<<>>}
        /\ answers' \in [Agent -> 0..2]
        /\ \A b \in Agent \ {a} : answers'[b] = answers[b]
    BY <1>a, <2>1, SaidIsTyped
  <2>4. T!TypeOK'
    BY <1>t, <2>1, <2>2, <2>3 DEF T!TypeOK
  <2>5. YesIsHeld'
    BY <1>a, <2>1, <2>3 DEF YesIsHeld, Confirmed
  <2>6. a \in loose'
    BY <1>a, <2>1 DEF HoldsAreSingle
  <2>7. HoldsAreSingle'
    BY <1>a, <1>t, <2>1, <2>2, <2>3, <2>6, DialogsStay
  <2> QED
    BY <2>4, <2>5, <2>7 DEF TapInv
<1>9. ASSUME NEW a \in Agent, T!Cancel(a)
      PROVE  TapInv'
  <2>1. /\ ~dialog[a].locked
        /\ dialog' = [dialog EXCEPT ![a].locked = TRUE]
        /\ T!Say(a, "no")
        /\ loose' = IF dialog[a].live THEN loose \cup {a} ELSE loose
        /\ UNCHANGED <<agents, scheds, posted, pending, jobs, held>>
    BY <1>9 DEF T!Cancel
  <2>2. dialog' \in [Agent -> [live : BOOLEAN, stray : BOOLEAN, locked : BOOLEAN]]
    BY <1>t, <2>1
  <2>3. /\ taps' = taps \cup {<<[act |-> "no", of |-> a]>>}
        /\ taps' \subseteq Seq(T!Response) \ {<<>>}
        /\ answers' \in [Agent -> 0..2]
        /\ answers[a] = 0 => answers'[a] = 1
        /\ \A b \in Agent \ {a} : answers'[b] = answers[b]
    BY <1>a, <2>1, SaidIsTyped
  <2>4. T!TypeOK'
    BY <1>t, <2>1, <2>2, <2>3 DEF T!TypeOK
  <2>5. YesIsHeld'
    BY <1>a, <2>1, <2>3 DEF YesIsHeld, Confirmed
  <2>6. a \notin loose' =>
              /\ ~dialog'[a].stray /\ answers'[a] <= 1
              /\ dialog'[a].locked => ~dialog'[a].live
              /\ ~dialog'[a].locked => answers'[a] = 0
    BY <1>a, <1>t, <2>1, <2>3 DEF HoldsAreSingle
  <2>7. HoldsAreSingle'
    BY <1>a, <1>t, <2>1, <2>3, <2>6, DialogsStay
  <2> QED
    BY <2>4, <2>5, <2>7 DEF TapInv
<1>10. ASSUME NEW t \in taps, T!Deliver(t)
       PROVE  TapInv'
  <2>1. /\ jobs' = jobs \cup {[left |-> t, posting |-> FALSE]}
        /\ UNCHANGED <<agents, scheds, posted, pending, dialog, taps, held, loose, answers>>
    BY <1>10 DEF T!Deliver
  <2>2. [left |-> t, posting |-> FALSE] \in [left : Seq(T!Response) \ {<<>>}, posting : BOOLEAN]
    BY <1>t
  <2>3. T!TypeOK'
    BY <1>t, <2>1, <2>2 DEF T!TypeOK
  <2>4. YesIsHeld'
    BY <1>a, <2>1 DEF YesIsHeld, Confirmed
  <2>5. HoldsAreSingle'
    BY <1>a, <2>1 DEF HoldsAreSingle
  <2> QED
    BY <2>3, <2>4, <2>5 DEF TapInv
<1>11. ASSUME NEW j \in jobs, T!Act(j)
       PROVE  TapInv'
  <2> DEFINE r == Head(j.left)
  <2>1. /\ agents' = T!OnAgent(r) \/ UNCHANGED agents
        /\ scheds' = T!OnSchedule(r)
        /\ jobs' = (jobs \ {j}) \cup {[j EXCEPT !.posting = TRUE]}
        /\ UNCHANGED <<posted, pending, dialog, taps, held, loose, answers>>
    BY <1>11 DEF T!Act
  <2>2. agents' \in [Agent -> {"unborn", "up", "stopped", "gone"}]
    BY <1>t, <2>1 DEF T!OnAgent, T!Set
  <2>3. scheds' \in [Schedule -> {"unborn", "on", "off", "removed"}]
    BY <1>t, <2>1 DEF T!OnSchedule, T!Set
  <2>4. /\ [j EXCEPT !.posting = TRUE] \in [left : Seq(T!Response) \ {<<>>}, posting : BOOLEAN]
        /\ [j EXCEPT !.posting = TRUE].left = j.left
    BY <1>t
  <2>5. T!TypeOK'
    BY <1>t, <2>1, <2>2, <2>3, <2>4 DEF T!TypeOK
  <2>6. YesIsHeld'
    BY <1>a, <2>1, <2>4 DEF YesIsHeld, Confirmed
  <2>7. HoldsAreSingle'
    BY <1>a, <2>1 DEF HoldsAreSingle
  <2> QED
    BY <2>5, <2>6, <2>7 DEF TapInv
<1>12. ASSUME NEW j \in jobs, T!Post(j)
       PROVE  TapInv'
  <2> DEFINE rest == [left |-> Tail(j.left), posting |-> FALSE]
  <2>1. j.left \in Seq(T!Response) /\ j.left # <<>>
    BY <1>t
  <2>2. Head(j.left) \in T!Response /\ Tail(j.left) \in Seq(T!Response)
    BY <2>1
  <2>3. posted' \subseteq posted \cup T!Shown(Head(j.left))
    BY <1>12 DEF T!Post
  <2>4. posted' \subseteq T!Block
    BY <1>a, <1>t, <2>2, <2>3, ShownAreBlocks
  <2>5. /\ jobs' \subseteq jobs \cup {rest} /\ (rest \in jobs' \ jobs => rest.left # <<>>)
        /\ UNCHANGED <<agents, scheds, pending, dialog, taps, held, loose, answers>>
    BY <1>12 DEF T!Post
  <2>6. rest.left = Tail(j.left) /\ rest.posting = FALSE
    OBVIOUS
  <2>7. jobs' \subseteq [left : Seq(T!Response) \ {<<>>}, posting : BOOLEAN]
    <3>1. ASSUME rest.left # <<>>
          PROVE  rest \in [left : Seq(T!Response) \ {<<>>}, posting : BOOLEAN]
      BY <2>2, <2>6, <3>1
    <3>2. \A x \in jobs' : x \in jobs \/ (x = rest /\ rest.left # <<>>)
      BY ONLY <2>5, Zenon
    <3>3. jobs \subseteq [left : Seq(T!Response) \ {<<>>}, posting : BOOLEAN]
      BY <1>t
    <3> QED
      BY ONLY <3>1, <3>2, <3>3, Zenon
  <2>8. T!TypeOK'
    BY <1>t, <2>4, <2>5, <2>7 DEF T!TypeOK
  <2>9. Confirmed(Tail(j.left))
    <3>1. Confirmed(j.left)
      BY <1>a DEF YesIsHeld
    <3>2. \A i \in DOMAIN Tail(j.left) : i + 1 \in DOMAIN j.left /\ Tail(j.left)[i] = j.left[i + 1]
      BY <2>1, HeadTailProperties
    <3> QED
      BY <3>1, <3>2 DEF Confirmed
  <2>10. YesIsHeld'
    BY <1>a, <2>5, <2>6, <2>9 DEF YesIsHeld, Confirmed
  <2>11. HoldsAreSingle'
    BY <1>a, <2>5 DEF HoldsAreSingle
  <2> QED
    BY <2>8, <2>10, <2>11 DEF TapInv
<1>13. ASSUME \/ \E s \in Schedule : T!AddSchedule(s)
              \/ \E a \in Agent : T!RoomGone(a)
       PROVE  TapInv'
  <2>1. /\ agents' \in [Agent -> {"unborn", "up", "stopped", "gone"}]
        /\ scheds' \in [Schedule -> {"unborn", "on", "off", "removed"}]
        /\ UNCHANGED <<posted, pending, dialog, taps, jobs, held, loose, answers>>
    BY <1>t, <1>13 DEF T!AddSchedule, T!RoomGone
  <2>2. T!TypeOK'
    BY <1>t, <2>1 DEF T!TypeOK
  <2>3. YesIsHeld'
    BY <1>a, <2>1 DEF YesIsHeld, Confirmed
  <2>4. HoldsAreSingle'
    BY <1>a, <2>1 DEF HoldsAreSingle
  <2> QED
    BY <2>2, <2>3, <2>4 DEF TapInv
<1> QED
  BY <1>1, <1>2, <1>3, <1>4, <1>5, <1>6, <1>7, <1>8, <1>9, <1>10, <1>11, <1>12, <1>13 DEF T!Next

(* Only a confirmed response stops an agent.                                *)
LEMMA OnlyHoldsStop ==
    ASSUME TapInv, [T!Next]_T!vars, NEW a \in Agent,
           agents[a] # "stopped", agents'[a] = "stopped"
    PROVE  a \in held
<1>t. /\ agents \in [Agent -> {"unborn", "up", "stopped", "gone"}]
      /\ jobs \subseteq [left : Seq(T!Response) \ {<<>>}, posting : BOOLEAN]
  BY DEF TapInv, T!TypeOK
<1> USE DEF T!phone, T!ghosts
<1>1. ASSUME NEW j \in jobs, T!Act(j)
      PROVE  a \in held
  <2> DEFINE r == Head(j.left)
  <2>1. agents' = T!OnAgent(r)
    BY <1>1 DEF T!Act
  <2>2. r.act = "yes" /\ r.of = a
    BY <1>t, <2>1 DEF T!OnAgent, T!Set
  <2>3. j.left \in Seq(T!Response) /\ j.left # <<>> /\ Confirmed(j.left)
    BY <1>t DEF TapInv, YesIsHeld
  <2>4. 1 \in DOMAIN j.left /\ r = j.left[1]
    BY <2>3
  <2> QED
    BY <2>2, <2>3, <2>4 DEF Confirmed
<1>2. CASE UNCHANGED agents
  BY <1>2
<1>3. ASSUME NEW b \in Agent, T!RoomGone(b)
      PROVE  FALSE
  BY <1>t, <1>3 DEF T!RoomGone
<1>4. ASSUME \/ \E b \in posted : \E r \in T!Options(b) : T!Select(b, r)
             \/ T!Send \/ T!Unmount \/ UNCHANGED T!vars
             \/ \E t \in taps : T!Deliver(t)
             \/ \E j \in jobs : T!Post(j)
             \/ \E s \in Schedule : T!AddSchedule(s)
      PROVE  UNCHANGED agents
  BY <1>4 DEF T!Select, T!Send, T!Unmount, T!vars, T!Deliver, T!Post, T!AddSchedule
<1>5. ASSUME NEW b \in Agent, \/ T!Type(b) \/ T!StartHold(b) \/ T!EndHold(b) \/ T!Held(b)
                              \/ T!StrayFires(b) \/ T!Cancel(b)
      PROVE  UNCHANGED agents
  BY <1>5 DEF T!Type, T!StartHold, T!EndHold, T!Held, T!StrayFires, T!Cancel
<1> QED
  BY <1>1, <1>2, <1>3, <1>4, <1>5 DEF T!Next
-----------------------------------------------------------------------------
(* The skills: until runs cross or one is killed there is but one, and what *)
(* is on the disk of any version is bundled with the one that runs, or is   *)
(* in the manifest and still to be looked at.                               *)
SyncType ==
    /\ skills \in [File -> K!Version \cup {K!Edited, K!Torn, None}]
    /\ manifest \in {K!Tracks(v) : v \in K!Version} \cup {None}
    /\ sync \in [Call -> {"idle", "write", "prune", "remove", "done"}]
    /\ version \in [Call -> K!Version \cup {None}] /\ upTo \in K!Version
    /\ todo \in [Call -> SUBSET File] /\ doomed \in [Call -> File \cup {None}]
    /\ prev \in [Call -> {K!Tracks(v) : v \in K!Version} \cup {None}]
    /\ late \subseteq File
    /\ \A s \in Call : K!Busy(s) => version[s] \in K!Version

Known(f) == manifest # None /\ f \in DOMAIN manifest /\ manifest[f] = skills[f]

Looking ==
    \A s \in Call :
        /\ sync[s] = "write" => todo[s] \subseteq Bundle[version[s]]
        /\ sync[s] \in {"prune", "remove"} =>
              todo[s] = {} \/ (prev[s] # None /\ todo[s] \subseteq DOMAIN prev[s])
        /\ sync[s] = "remove" =>
              /\ doomed[s] \in File
              /\ skills[doomed[s]] = K!Edited => doomed[s] \in late

Clean ==
    /\ \A s, t \in Call : K!Busy(s) /\ K!Busy(t) => s = t
    /\ K!WrittenIsTracked
    /\ \A s \in Call, f \in File : skills[f] \in K!Version =>
         /\ sync[s] = "write" =>
              IF f \in Bundle[version[s]] \ todo[s] THEN skills[f] = version[s] ELSE Known(f)
         /\ sync[s] \in {"prune", "remove"} =>
              IF f \in Bundle[version[s]] THEN skills[f] = version[s]
              ELSE Known(f) /\ (f \in todo[s] \/ (sync[s] = "remove" /\ doomed[s] = f))
    /\ \A s \in Call : sync[s] \in {"prune", "remove"} => prev[s] = manifest

SyncInv == SyncType /\ Looking /\ (~rough => Clean)

LEMMA BundlesAre ==
    ASSUME K!BundleAssumption
    PROVE  /\ 1 \in K!Version /\ None \notin K!Version
           /\ K!Edited \notin K!Version /\ K!Torn \notin K!Version /\ None # K!Edited
           /\ \A v \in K!Version : Bundle[v] \subseteq File /\ K!Tracks(v) # None
           /\ \A v \in K!Version, w \in K!Version : w >= v => w \in K!Version
<1> DEFINE n == Cardinality(K!Version)
<1>1. n \in Nat \ {0} /\ K!Version = 1..n /\ None \notin Nat
  BY DEF K!BundleAssumption, K!Cardinality, Cardinality
<1>2. K!Edited = 0 /\ K!Torn = n + 1
  BY DEF K!Edited, K!Torn, K!Cardinality, Cardinality
<1>3. \A v \in K!Version : Bundle[v] \subseteq File /\ K!Tracks(v) # None
  BY DEF K!BundleAssumption
<1> HIDE DEF n
<1> QED
  BY ONLY <1>1, <1>2, <1>3

LEMMA SyncsBegin ==
    ASSUME K!BundleAssumption, K!Init
    PROVE  SyncInv
<1> USE DEF K!Init, K!Busy
<1>1. SyncType
  BY BundlesAre DEF SyncType
<1>2. Looking
  BY DEF Looking
<1>3. Clean
  BY BundlesAre DEF Clean, K!WrittenIsTracked
<1> QED
  BY <1>1, <1>2, <1>3 DEF SyncInv

(* A step of one run that ends up elsewhere.                                *)
LEMMA SyncMoves ==
    ASSUME SyncType, NEW s \in Call, NEW to, K!Go(s, to)
    PROVE  sync'[s] = to /\ \A o \in Call \ {s} : sync'[o] = sync[o]
BY DEF SyncType, K!Go

LEMMA SyncTypeKept ==
    ASSUME K!BundleAssumption, SyncType, Looking, K!Next
    PROVE  SyncType'
<1> DEFINE Manifest == {K!Tracks(v) : v \in K!Version} \cup {None}
<1>u. /\ \A v \in K!Version : Bundle[v] \subseteq File
      /\ \A m \in Manifest \ {None} : DOMAIN m \subseteq File
  BY BundlesAre DEF K!Tracks
<1> USE DEF SyncType, K!Go, K!Busy, K!ghosts, K!run
<1>1. ASSUME NEW s \in Call, K!Begin(s)
      PROVE  SyncType'
  BY <1>1, <1>u DEF K!Begin
<1>2. ASSUME NEW s \in Call, NEW f \in File, K!Write(s, f)
      PROVE  SyncType'
  BY <1>2 DEF K!Write
<1>3. ASSUME NEW s \in Call, K!ReadManifest(s)
      PROVE  SyncType'
  BY <1>3, <1>u DEF K!ReadManifest
<1>4. ASSUME NEW s \in Call, NEW f \in File, K!Examine(s, f)
      PROVE  SyncType'
  BY <1>4 DEF K!Examine
<1>5. ASSUME NEW s \in Call, K!Remove(s)
      PROVE  SyncType'
  BY <1>5 DEF K!Remove
<1>6. ASSUME NEW s \in Call, K!Track(s)
      PROVE  SyncType'
  BY <1>6 DEF K!Track
<1>7. ASSUME NEW s \in Call, K!Die(s)
      PROVE  SyncType'
  BY <1>7 DEF K!Die
<1>8. CASE K!Uninstall
  BY <1>8 DEF K!Uninstall
<1>9. ASSUME NEW f \in File, NEW to \in {K!Edited, None}, K!Edit(f, to)
      PROVE  SyncType'
  BY <1>9 DEF K!Edit
<1> QED
  BY <1>1, <1>2, <1>3, <1>4, <1>5, <1>6, <1>7, <1>8, <1>9 DEF K!Next

LEMMA LookingKept ==
    ASSUME K!BundleAssumption, SyncType, Looking, K!Next
    PROVE  Looking'
<1>b. /\ None # K!Edited /\ K!Edited \notin K!Version
      /\ \A v \in K!Version : K!Tracks(v) # None
      /\ \A v \in K!Version : DOMAIN K!Tracks(v) = Bundle[v]
                              /\ \A f \in Bundle[v] : K!Tracks(v)[f] = v
  BY BundlesAre DEF K!Tracks
<1> USE DEF SyncType, Looking, K!Go, K!ghosts, K!run
<1>1. ASSUME NEW s \in Call, K!Begin(s)
      PROVE  Looking'
  BY <1>1 DEF K!Begin
<1>2. ASSUME NEW s \in Call, NEW f \in File, K!Write(s, f)
      PROVE  Looking'
  <2>1. version[s] \in K!Version
    BY <1>2 DEF K!Write, K!Busy
  <2> QED
    BY <1>b, <1>2, <2>1 DEF K!Write
<1>3. ASSUME NEW s \in Call, K!ReadManifest(s)
      PROVE  Looking'
  BY <1>3 DEF K!ReadManifest
<1>4. ASSUME NEW s \in Call, NEW f \in File, K!Examine(s, f)
      PROVE  Looking'
  <2>1. CASE K!Prunable(s, f)
    <3>1. prev[s] # None /\ f \in DOMAIN prev[s] /\ skills[f] = prev[s][f]
      BY <1>4, <2>1 DEF K!Examine, K!Prunable
    <3>2. skills[f] # K!Edited
      BY <1>b, <3>1
    <3> QED
      BY <1>4, <2>1, <3>2 DEF K!Examine
  <2>2. CASE ~K!Prunable(s, f)
    BY <1>4, <2>2 DEF K!Examine
  <2> QED
    BY <2>1, <2>2
<1>5. ASSUME NEW s \in Call, K!Remove(s)
      PROVE  Looking'
  <2>1. \A g \in File : skills'[g] = K!Edited => skills[g] = K!Edited
    BY <1>b, <1>5 DEF K!Remove
  <2>2. /\ sync' = [sync EXCEPT ![s] = "prune"] /\ doomed' = [doomed EXCEPT ![s] = None]
        /\ UNCHANGED <<version, todo, prev, late>>
    BY <1>5 DEF K!Remove
  <2>3. sync[s] = "remove"
    BY <1>5 DEF K!Remove
  <2>4. ASSUME NEW o \in Call, sync'[o] = "remove"
        PROVE  doomed'[o] \in File /\ (skills'[doomed'[o]] = K!Edited => doomed'[o] \in late')
    BY <2>1, <2>2, <2>4
  <2>5. (prev[s] # None /\ todo[s] \subseteq DOMAIN prev[s]) \/ todo[s] = {}
    BY <2>3
  <2>6. ASSUME NEW o \in Call
        PROVE  /\ sync'[o] = "write" => todo'[o] \subseteq Bundle[version'[o]]
               /\ sync'[o] \in {"prune", "remove"} =>
                    todo'[o] = {} \/ (prev'[o] # None /\ todo'[o] \subseteq DOMAIN prev'[o])
    BY <2>2, <2>5
  <2> QED
    BY <2>4, <2>6
<1>6. ASSUME NEW s \in Call, K!Track(s)
      PROVE  Looking'
  BY <1>6 DEF K!Track
<1>7. ASSUME NEW s \in Call, K!Die(s)
      PROVE  Looking'
  <2>1. \A g \in File : skills'[g] = K!Edited => skills[g] = K!Edited
    <3>1. K!Torn # K!Edited
      BY BundlesAre, <1>b DEF K!Torn, K!Edited, K!BundleAssumption, K!Cardinality, Cardinality
    <3> QED
      BY <1>7, <3>1 DEF K!Die
  <2>2. /\ sync' = [sync EXCEPT ![s] = "done"] /\ doomed' = [doomed EXCEPT ![s] = None]
        /\ UNCHANGED <<version, todo, prev, late>>
    BY <1>7 DEF K!Die
  <2>3. ASSUME NEW o \in Call, sync'[o] = "remove"
        PROVE  doomed'[o] \in File /\ (skills'[doomed'[o]] = K!Edited => doomed'[o] \in late')
    BY <2>1, <2>2, <2>3
  <2> QED
    BY <2>2, <2>3
<1>8. CASE K!Uninstall
  BY <1>b, <1>8 DEF K!Uninstall
<1>9. ASSUME NEW f \in File, NEW to \in {K!Edited, None}, K!Edit(f, to)
      PROVE  Looking'
  BY <1>9 DEF K!Edit
<1> QED
  BY <1>1, <1>2, <1>3, <1>4, <1>5, <1>6, <1>7, <1>8, <1>9 DEF K!Next

(* Before runs cross, nobody is busy when one begins; so each step is read  *)
(* as what it does to the one that runs.                                    *)
OnDisk(s, f) ==
    /\ sync[s] = "write" =>
         IF f \in Bundle[version[s]] \ todo[s] THEN skills[f] = version[s] ELSE Known(f)
    /\ sync[s] \in {"prune", "remove"} =>
         IF f \in Bundle[version[s]] THEN skills[f] = version[s]
         ELSE Known(f) /\ (f \in todo[s] \/ (sync[s] = "remove" /\ doomed[s] = f))

LEMMA RunStaysAlone ==
    ASSUME SyncType, Clean, NEW s \in Call, K!Busy(s), NEW to, K!Go(s, to)
    PROVE  /\ \A o \in Call \ {s} : ~K!Busy(o) /\ ~K!Busy(o)' /\ sync'[o] = sync[o]
           /\ \A o, t \in Call : K!Busy(o)' /\ K!Busy(t)' => o = t
           /\ sync'[s] = to
<1>1. sync'[s] = to /\ \A o \in Call \ {s} : sync'[o] = sync[o]
  BY SyncMoves
<1>2. \A o \in Call \ {s} : ~K!Busy(o)
  BY DEF Clean
<1>3. \A o \in Call \ {s} : ~K!Busy(o)'
  BY <1>1, <1>2 DEF K!Busy
<1> QED
  BY <1>1, <1>2, <1>3

LEMMA CleanKept ==
    ASSUME K!BundleAssumption, SyncType, Looking, Clean, K!Next, ~rough'
    PROVE  Clean'
<1>b. /\ None \notin K!Version /\ K!Edited \notin K!Version
      /\ \A v \in K!Version : K!Tracks(v) # None
      /\ \A v \in K!Version : DOMAIN K!Tracks(v) = Bundle[v]
                              /\ \A f \in Bundle[v] : K!Tracks(v)[f] = v
  BY BundlesAre DEF K!Tracks
<1>c. \A s \in Call, f \in File : skills[f] \in K!Version => OnDisk(s, f)
  BY DEF Clean, OnDisk
<1>1. ASSUME NEW s \in Call, K!Begin(s)
      PROVE  Clean'
  <2>1. \A o \in Call : ~K!Busy(o)
    BY <1>1 DEF K!Begin
  <2>2. /\ sync' = [sync EXCEPT ![s] = "write"] /\ UNCHANGED <<skills, manifest, prev>>
        /\ version'[s] \in K!Version /\ todo'[s] = Bundle[version'[s]]
    BY <1>1 DEF K!Begin, K!Go, SyncType
  <2>3. /\ sync'[s] = "write"
        /\ \A o \in Call \ {s} : sync'[o] = sync[o] /\ sync'[o] \in {"idle", "done"}
    BY <2>1, <2>2 DEF SyncType, K!Busy
  <2>4. ~rough
    BY <1>1 DEF K!Begin
  <2>5. \A f \in File : skills[f] \in K!Version => Known(f)
    BY <2>1, <2>4 DEF Clean, K!WrittenIsTracked, Known
  <2>6. \A f \in File : skills'[f] \in K!Version => Known(f)'
    BY <2>2, <2>5 DEF Known
  <2>7. K!Busy(s)'
    BY <2>3 DEF K!Busy
  <2> QED
    BY <2>2, <2>3, <2>6, <2>7 DEF Clean, K!Busy, K!WrittenIsTracked
<1>2. ASSUME NEW s \in Call, K!Busy(s), NEW to \in {"write", "prune", "remove"}, K!Go(s, to),
             \A f \in File : skills'[f] \in K!Version => OnDisk(s, f)',
             to \in {"prune", "remove"} => prev'[s] = manifest'
      PROVE  Clean'
  <2>1. /\ \A o \in Call \ {s} : ~K!Busy(o)'
        /\ \A o, t \in Call : K!Busy(o)' /\ K!Busy(t)' => o = t
        /\ sync'[s] = to
    BY <1>2, RunStaysAlone
  <2>2. K!Busy(s)'
    BY <2>1 DEF K!Busy
  <2> QED
    BY <1>2, <2>1, <2>2 DEF Clean, OnDisk, K!Busy, K!WrittenIsTracked
<1>3. ASSUME NEW s \in Call, NEW f \in File, K!Write(s, f)
      PROVE  Clean'
  <2>1. /\ sync[s] = "write" /\ f \in todo[s]
        /\ skills' = [skills EXCEPT ![f] = version[s]]
        /\ todo' = [todo EXCEPT ![s] = @ \ {f}]
        /\ UNCHANGED <<manifest, sync, version, prev>>
    BY <1>3 DEF K!Write
  <2>2. K!Busy(s) /\ K!Go(s, "write") /\ f \in Bundle[version[s]] /\ version[s] \in K!Version
    BY <2>1 DEF K!Busy, K!Go, SyncType, Looking
  <2>3. /\ skills'[f] = version[s] /\ f \notin todo'[s]
        /\ \A g \in File \ {f} : skills'[g] = skills[g] /\ (g \in todo'[s] <=> g \in todo[s])
    BY <2>1 DEF SyncType
  <2>4. ASSUME NEW g \in File, skills'[g] \in K!Version
        PROVE  OnDisk(s, g)'
    BY <1>c, <2>1, <2>2, <2>3, <2>4 DEF OnDisk, Known
  <2> QED
    BY <1>2, <2>2, <2>4
<1>4. ASSUME NEW s \in Call, K!ReadManifest(s)
      PROVE  Clean'
  <2>1. /\ sync[s] = "write" /\ todo[s] = {} /\ K!Go(s, "prune")
        /\ prev' = [prev EXCEPT ![s] = manifest]
        /\ todo' = [todo EXCEPT ![s] = IF manifest = None THEN {} ELSE DOMAIN manifest]
        /\ UNCHANGED <<skills, manifest, version>>
    BY <1>4 DEF K!ReadManifest
  <2>2. /\ K!Busy(s) /\ sync'[s] = "prune" /\ prev'[s] = manifest
        /\ todo'[s] = IF manifest = None THEN {} ELSE DOMAIN manifest
    BY <2>1 DEF K!Busy, K!Go, SyncType
  <2>3. ASSUME NEW g \in File, skills'[g] \in K!Version
        PROVE  OnDisk(s, g)'
    BY <1>c, <2>1, <2>2, <2>3 DEF OnDisk, Known
  <2> QED
    BY <1>2, <2>1, <2>2, <2>3
<1>5. ASSUME NEW s \in Call, NEW f \in File, K!Examine(s, f)
      PROVE  Clean'
  <2>1. /\ sync[s] = "prune" /\ f \in todo[s] /\ todo' = [todo EXCEPT ![s] = @ \ {f}]
        /\ UNCHANGED <<skills, manifest, version, prev>>
    BY <1>5 DEF K!Examine
  <2>2. K!Busy(s) /\ prev[s] = manifest
    BY <2>1 DEF K!Busy, Clean
  <2>3. \A g \in File \ {f} : g \in todo'[s] <=> g \in todo[s]
    BY <2>1 DEF SyncType
  <2>4. CASE K!Prunable(s, f)
    <3>1. doomed' = [doomed EXCEPT ![s] = f] /\ K!Go(s, "remove") /\ f \notin Bundle[version[s]]
      BY <1>5, <2>4 DEF K!Examine, K!Prunable
    <3>2. sync'[s] = "remove" /\ doomed'[s] = f
      BY <3>1 DEF K!Go, SyncType
    <3>3. ASSUME NEW g \in File, skills'[g] \in K!Version
          PROVE  OnDisk(s, g)'
      BY <1>c, <2>1, <2>3, <3>1, <3>2, <3>3 DEF OnDisk, Known
    <3> QED
      BY <1>2, <2>1, <2>2, <3>1, <3>3
  <2>5. CASE ~K!Prunable(s, f)
    <3>1. UNCHANGED <<doomed, sync>> /\ K!Go(s, "prune")
      BY <1>5, <2>1, <2>5 DEF K!Examine, K!Go, SyncType
    <3>2. ASSUME NEW g \in File, skills'[g] \in K!Version
          PROVE  OnDisk(s, g)'
      BY <1>c, <2>1, <2>2, <2>3, <2>5, <3>1, <3>2 DEF OnDisk, Known, K!Prunable
    <3> QED
      BY <1>2, <2>1, <2>2, <3>1, <3>2
  <2> QED
    BY <2>4, <2>5
<1>6. ASSUME NEW s \in Call, K!Remove(s)
      PROVE  Clean'
  <2>1. /\ sync[s] = "remove" /\ K!Go(s, "prune")
        /\ skills' = [skills EXCEPT ![doomed[s]] = None]
        /\ UNCHANGED <<manifest, version, todo, prev>>
    BY <1>6 DEF K!Remove
  <2>2. K!Busy(s) /\ prev[s] = manifest /\ sync'[s] = "prune" /\ doomed[s] \in File
    BY <2>1 DEF K!Busy, Clean, K!Go, SyncType, Looking
  <2>3. ASSUME NEW g \in File, skills'[g] \in K!Version
        PROVE  skills'[g] = skills[g] /\ g # doomed[s]
    BY <1>b, <2>1, <2>2, <2>3 DEF SyncType
  <2>4. ASSUME NEW g \in File, skills'[g] \in K!Version
        PROVE  OnDisk(s, g)'
    BY <1>c, <2>1, <2>2, <2>3, <2>4 DEF OnDisk, Known
  <2> QED
    BY <1>2, <2>1, <2>2, <2>4
<1>7. ASSUME NEW s \in Call, K!Track(s)
      PROVE  Clean'
  <2>1. /\ sync[s] = "prune" /\ todo[s] = {} /\ K!Go(s, "done")
        /\ manifest' = IF K!Stale(s) THEN K!Tracks(version[s]) ELSE manifest
        /\ UNCHANGED <<skills, version, todo, prev>>
    BY <1>7 DEF K!Track
  <2>2. K!Busy(s) /\ prev[s] = manifest /\ version[s] \in K!Version
    BY <2>1 DEF K!Busy, Clean, SyncType
  <2>3. manifest' = K!Tracks(version[s])
    BY <2>1, <2>2 DEF K!Stale
  <2>4. \A f \in File : skills[f] \in K!Version =>
            f \in Bundle[version[s]] /\ skills[f] = version[s]
    BY <1>c, <2>1 DEF OnDisk
  <2>5. \A o \in Call : ~K!Busy(o)'
    BY <2>1, <2>2, RunStaysAlone DEF K!Busy
  <2>6. \A o \in Call : sync'[o] \in {"idle", "done"}
    BY <2>5 DEF K!Busy
  <2>7. K!WrittenIsTracked'
    BY <1>b, <2>1, <2>2, <2>3, <2>4 DEF K!WrittenIsTracked
  <2> QED
    BY <2>5, <2>6, <2>7 DEF Clean
<1>8. ASSUME NEW s \in Call, K!Die(s)
      PROVE  Clean'
  BY <1>8 DEF K!Die
<1>9. CASE K!Uninstall
  <2>1. /\ \A s \in Call : ~K!Busy(s)
        /\ \A f \in File : skills'[f] = None
        /\ UNCHANGED sync
    BY <1>9 DEF K!Uninstall, K!run
  <2> QED
    BY <1>b, <2>1 DEF Clean, K!Busy, K!WrittenIsTracked
<1>10. ASSUME NEW f \in File, NEW to \in {K!Edited, None}, K!Edit(f, to)
       PROVE  Clean'
  <2>1. /\ skills' = [skills EXCEPT ![f] = to] /\ to \notin K!Version
        /\ UNCHANGED <<manifest, sync, version, todo, prev, doomed, rough>>
    BY <1>b, <1>10 DEF K!Edit, K!run
  <2>2. \A g \in File : skills'[g] \in K!Version => skills'[g] = skills[g]
    BY <2>1 DEF SyncType
  <2>3. \A o \in Call : K!Busy(o)' <=> K!Busy(o)
    BY <2>1 DEF K!Busy
  <2>4. K!WrittenIsTracked'
    BY <2>1, <2>2, <2>3 DEF Clean, K!WrittenIsTracked
  <2>5. ASSUME NEW s \in Call, NEW g \in File, skills'[g] \in K!Version
        PROVE  OnDisk(s, g)'
    BY <1>c, <2>1, <2>2, <2>5 DEF OnDisk, Known
  <2>6. \A o, t \in Call : K!Busy(o)' /\ K!Busy(t)' => o = t
    BY <2>3 DEF Clean
  <2>7. \A s \in Call : sync'[s] \in {"prune", "remove"} => prev'[s] = manifest'
    BY <2>1 DEF Clean
  <2> QED
    BY <2>4, <2>5, <2>6, <2>7 DEF Clean, OnDisk
<1> QED
  BY <1>1, <1>3, <1>4, <1>5, <1>6, <1>7, <1>8, <1>9, <1>10 DEF K!Next

LEMMA SyncsKept ==
    ASSUME K!BundleAssumption, SyncInv, K!Next
    PROVE  SyncInv'
<1>1. rough => rough'
  BY DEF K!Next, K!Begin, K!ReadManifest, K!Remove, K!Track, K!Die, K!Write, K!Examine,
         K!Uninstall, K!Edit, K!ghosts
<1>2. ~rough' => Clean'
  BY <1>1, CleanKept DEF SyncInv
<1> QED
  BY <1>2, SyncTypeKept, LookingKept DEF SyncInv

(* What becomes of the operator's files.                                    *)
LEMMA SyncsSpare ==
    ASSUME K!BundleAssumption, SyncType, Looking, K!Next, NEW f \in File,
           skills[f] = K!Edited, skills'[f] # K!Edited
    PROVE  \/ \E s \in Call : \/ doomed[s] = f /\ f \in late
                              \/ sync[s] = "write" /\ f \in Bundle[version[s]]
           \/ K!Uninstall
           \/ K!Edit(f, None)
<1> USE DEF SyncType
<1>1. ASSUME NEW s \in Call, NEW g \in File, K!Write(s, g)
      PROVE  sync[s] = "write" /\ f \in Bundle[version[s]]
  BY <1>1 DEF K!Write, Looking
<1>2. ASSUME NEW s \in Call, K!Remove(s)
      PROVE  doomed[s] = f /\ f \in late
  BY <1>2 DEF K!Remove, Looking
<1>3. ASSUME NEW s \in Call, K!Die(s)
      PROVE  sync[s] = "write" /\ f \in Bundle[version[s]]
  BY <1>3 DEF K!Die, Looking
<1>4. ASSUME NEW g \in File, NEW to \in {K!Edited, None}, K!Edit(g, to)
      PROVE  K!Edit(f, None)
  BY <1>4 DEF K!Edit
<1>5. ASSUME NEW s \in Call,
             \/ K!Begin(s) \/ K!ReadManifest(s) \/ K!Track(s)
             \/ \E g \in File : K!Examine(s, g)
      PROVE  FALSE
  BY <1>5 DEF K!Begin, K!ReadManifest, K!Track, K!Examine
<1> QED
  BY <1>1, <1>2, <1>3, <1>4, <1>5 DEF K!Next
-----------------------------------------------------------------------------
(* The control room.  A room that is written is the current one, or gone;   *)
(* so are the rooms of the handlers that took their knock for the first.    *)
(* A text that is under way alone says what the state says, or one that     *)
(* will is to come; and what was taken to be bound was let in without a     *)
(* tap, in the state, in the file and in every text.                        *)
FileType == [room : created \cup {None}, bound : BOOLEAN, key : Key \cup {None}]
SaveType == [by : R!Saver, room : created, text : FileType \cup {None}, over : BOOLEAN]

ControlType ==
    /\ phase \in {"down", "load", "create", "pairing", "keep", "up", "clear", "exit"}
    /\ lives \in 0..MaxLife
    /\ room \in created \cup {None} /\ fresh \in created \cup {None}
    /\ obj \in [Room -> [bound : BOOLEAN, key : Key \cup {None}]]
    /\ alive \subseteq created /\ created \subseteq Room
    /\ saving \subseteq SaveType /\ file \in FileType
    /\ knocked \in [KnockId -> [dev : Key \cup {None}, room : created \cup {None}]]
    /\ \A k \in KnockId : knocked[k].room # None => knocked[k].dev \in Key
    /\ handler \in [KnockId -> {"none", "first", "again", "pairing", "tap"}]
    /\ open \subseteq KnockId /\ auto \subseteq Room \X Key
    /\ tapped \in [KnockId -> 0..1]

KnocksAreSent ==
    \A k \in KnockId : k \in open \/ handler[k] # "none" => knocked[k].room # None

TapsWait ==
    \A k \in KnockId :
        /\ k \in open => tapped[k] = 0
        /\ handler[k] = "tap" => tapped[k] = 0 /\ k \notin open

Current == IF phase = "up" THEN {room} ELSE IF phase = "keep" THEN {fresh} ELSE {}

HandlersAreCurrent ==
    \A k \in KnockId :
        /\ phase = "down" => handler[k] = "none"
        /\ handler[k] = "first" /\ knocked[k].room \in alive =>
             phase = "up" /\ knocked[k].room = room

SavesFollow ==
    /\ phase = "down" => saving = {}
    /\ \A s \in saving :
         /\ s.room \in alive => s.room \in Current
         /\ s.text # None => s.text.room = s.room
         /\ s.text # None /\ ~s.over =>
              \/ s.text = R!Saved(s.room)
              \/ \E t \in saving : t.room = s.room /\ t.text = None

FileFollows ==
    /\ phase = "up" /\ file.room \in alive => file.room = room
    /\ phase = "keep" /\ file.room \in alive /\ (\A s \in saving : s.by # "setup") =>
         file.room = fresh
    /\ phase \in {"keep", "up"} /\ ~mixed /\ file.room \in Current
         /\ (\A s \in saving : s.room # file.room) =>
              file = R!Saved(file.room)

OthersAreGone == HandlersAreCurrent /\ SavesFollow /\ FileFollows

IsIn(text) == text.bound => <<text.room, text.key>> \in auto /\ obj[text.room].bound

BoundIsIn ==
    /\ \A r \in Room : obj[r].bound => <<r, obj[r].key>> \in auto
    /\ IsIn(file) /\ \A s \in saving : s.text # None => IsIn(s.text)
    /\ \A k \in KnockId : handler[k] = "again" => <<knocked[k].room, knocked[k].dev>> \in auto
    /\ phase = "pairing" => fresh \in Room /\ ~obj[fresh].bound
    /\ phase \in {"keep", "up"} => Current \subseteq Room

ControlInv ==
    ControlType /\ KnocksAreSent /\ TapsWait /\ OthersAreGone /\ BoundIsIn

LEMMA ControlsBegin ==
    ASSUME R!BoundAssumption, R!Init
    PROVE  ControlInv
<1> USE DEF R!Init, R!Unbound, R!NoFile, R!BoundAssumption
<1>1. ControlType
  BY DEF ControlType, FileType, SaveType
<1>2. KnocksAreSent /\ TapsWait /\ OthersAreGone /\ BoundIsIn
  BY DEF KnocksAreSent, TapsWait, OthersAreGone, HandlersAreCurrent, SavesFollow,
         FileFollows, BoundIsIn, IsIn
<1> QED
  BY <1>1, <1>2 DEF ControlInv

(* A save that is asked for is one, and so is what fixing a text leaves.    *)
LEMMA SaveIsTyped ==
    ASSUME NEW by \in R!Saver, NEW r \in created
    PROVE  R!Save(by, r) \in SaveType /\ R!Save(by, r).text = None /\ R!Save(by, r).room = r
             /\ R!Save(by, r).by = by
BY DEF R!Save, SaveType

LEMMA SavedIsTyped ==
    ASSUME ControlType, NEW r \in created
    PROVE  R!Saved(r) \in FileType /\ R!Saved(r).room = r
             /\ R!Saved(r).bound = obj[r].bound /\ R!Saved(r).key = obj[r].key
BY DEF R!Saved, FileType, ControlType

(* Fixing the text of s: the saves without one stay, the others are written *)
(* over, and s has the text of the state.                                   *)
LEMMA TextIsFixed ==
    ASSUME ControlType, NEW s \in saving, R!FixText(s)
    PROVE  /\ saving' \subseteq SaveType
           /\ \A u \in saving' :
                \/ u \in saving /\ u.text = None
                \/ \E t \in saving : /\ t.text # None /\ u.over
                                     /\ u.room = t.room /\ u.by = t.by /\ u.text = t.text
                \/ /\ u.room = s.room /\ u.by = s.by /\ u.text = R!Saved(s.room)
           /\ \A t \in saving : \E u \in saving' : u.room = t.room /\ u.by = t.by
<1> DEFINE new == [s EXCEPT !.text = R!Saved(s.room), !.over = R!Fixed # {}]
           old(t) == [t EXCEPT !.over = TRUE]
<1>a. s \in SaveType /\ s.room \in created /\ saving \subseteq SaveType
  BY DEF ControlType, SaveType
<1>1. /\ new \in SaveType
      /\ new.room = s.room /\ new.by = s.by /\ new.text = R!Saved(s.room)
  <2>1. R!Saved(s.room) \in FileType /\ (R!Fixed # {}) \in BOOLEAN
    BY <1>a, SavedIsTyped
  <2> QED
    BY <1>a, <2>1 DEF SaveType
<1>2. ASSUME NEW t \in saving
      PROVE  old(t) \in SaveType /\ old(t).over /\ old(t).room = t.room
               /\ old(t).by = t.by /\ old(t).text = t.text
  BY <1>a DEF SaveType
<1>3. saving' = (saving \ (R!Fixed \cup {s})) \cup {old(t) : t \in R!Fixed} \cup {new}
  BY DEF R!FixText
<1>4. R!Fixed = {t \in saving : t.text # None}
  BY DEF R!Fixed
<1> HIDE DEF new, old
<1>5. \A u \in saving' : \/ u \in saving /\ u.text = None
                         \/ \E t \in saving : t.text # None /\ u = old(t)
                         \/ u = new
  BY <1>3, <1>4
<1>6. saving' \subseteq SaveType
  BY <1>a, <1>1, <1>2, <1>5
<1>7. \A t \in saving : \E u \in saving' : u.room = t.room /\ u.by = t.by
  <2> SUFFICES ASSUME NEW t \in saving
               PROVE  \E u \in saving' : u.room = t.room /\ u.by = t.by
    OBVIOUS
  <2>1. CASE t.text # None
    BY <1>2, <1>3, <1>4, <2>1
  <2>2. CASE t = s
    BY <1>1, <1>3, <2>2
  <2>3. CASE t.text = None /\ t # s
    BY <1>3, <1>4, <2>3
  <2> QED
    BY <2>1, <2>2, <2>3
<1> QED
  BY <1>1, <1>2, <1>5, <1>6, <1>7

(* Where no other text is under way, no save is written over.                *)
LEMMA TextAlone ==
    ASSUME ControlType, NEW s \in saving, R!FixText(s), NEW u \in saving', ~u.over
    PROVE  u.text = None \/ (u.room = s.room /\ u.text = R!Saved(s.room))
BY TextIsFixed

(* Unlinking the file may lose texts, and no other save.                    *)
LEMMA UnlinkLoses ==
    ASSUME R!Unlink
    PROVE  /\ file' = R!NoFile /\ mixed' = mixed /\ saving' \subseteq saving
           /\ \A t \in saving : t.text = None => t \in saving'
BY DEF R!Unlink, R!Fixed

(* The groups of variables that steps leave alone.                          *)
LEMMA ControlTypeKept ==
    ASSUME R!BoundAssumption, ControlType, TapsWait, BoundIsIn, R!Next
    PROVE  ControlType'
<1> USE DEF R!proc, R!disk, R!relay, R!phones, R!ghosts, R!Handle
<1>a. None \notin Room /\ None \notin Key /\ MaxLife \in Nat /\ R!NoFile \in FileType
  BY DEF R!BoundAssumption, R!NoFile, FileType
<1>b. ASSUME UNCHANGED created
      PROVE  FileType' = FileType /\ SaveType' = SaveType
  BY <1>b DEF FileType, SaveType
<1>1. CASE R!Boot \/ R!Serve \/ R!Destroyed
  BY <1>1, <1>a, <1>b DEF R!Boot, R!Serve, R!Destroyed, ControlType
<1>2. CASE R!RefreshJwt
  <2>1. room \in created /\ saving' = saving \cup {R!Save("jwt", room)}
    BY <1>2 DEF R!RefreshJwt, ControlType
  <2>2. saving' \subseteq SaveType
    <3>1. "jwt" \in R!Saver
      BY DEF R!Saver
    <3>2. R!Save("jwt", room) \in SaveType
      BY <2>1, <3>1, SaveIsTyped
    <3> QED
      BY <2>1, <3>2 DEF ControlType
  <2>3. UNCHANGED <<phase, lives, room, fresh, obj, alive, created, file, knocked, handler, open,
                    auto, tapped>>
    BY <1>2 DEF R!RefreshJwt
  <2> QED
    BY <1>b, <2>2, <2>3 DEF ControlType
<1>3. CASE R!Clear \/ R!Repair
  <2>1. saving' \subseteq SaveType /\ file' \in FileType
    BY <1>3, <1>a, UnlinkLoses DEF R!Clear, R!Repair, ControlType
  <2>2. /\ phase' \in {phase, "load"} /\ alive' \subseteq alive
        /\ UNCHANGED <<lives, room, fresh, obj, created, knocked, handler, open, auto, tapped>>
    BY <1>3 DEF R!Clear, R!Repair
  <2> QED
    BY <1>b, <2>1, <2>2 DEF ControlType
<1>4. CASE R!Load
  <2>1. UNCHANGED <<lives, room, file, alive, created, knocked, handler, open, auto, tapped>>
    BY <1>4 DEF R!Load
  <2>2. CASE phase' = "create" /\ UNCHANGED <<fresh, obj, saving>>
    BY <1>b, <2>1, <2>2 DEF ControlType
  <2>3. CASE /\ file.room \in alive
             /\ fresh' = file.room /\ phase' = "keep"
             /\ obj' = [obj EXCEPT ![file.room] = [bound |-> file.bound, key |-> file.key]]
             /\ \/ saving' = saving \cup {R!Save("setup", file.room)}
                \/ UNCHANGED saving
    <3>1. obj' \in [Room -> [bound : BOOLEAN, key : Key \cup {None}]]
      BY <2>3 DEF ControlType, FileType
    <3>2. file.room \in created
      BY <2>3 DEF ControlType
    <3>3. "setup" \in R!Saver
      BY DEF R!Saver
    <3>4. R!Save("setup", file.room) \in SaveType
      BY <3>2, <3>3, SaveIsTyped
    <3>5. saving' \subseteq SaveType /\ fresh' \in created
      BY <2>3, <3>2, <3>4 DEF ControlType
    <3> QED
      BY <1>b, <2>1, <2>3, <3>1, <3>5 DEF ControlType
  <2> QED
    BY <1>4, <2>2, <2>3 DEF R!Load
<1>5. CASE R!End
  <2>1. file' \in FileType
    <3>1. \A s \in R!Fixed : s.text \in FileType
      BY DEF R!Fixed, ControlType, SaveType
    <3> QED
      BY <1>5, <1>a, <3>1 DEF R!End, ControlType
  <2>2. /\ phase' = "down" /\ room' = None /\ fresh' = None /\ saving' = {} /\ open' = {}
        /\ handler' = [k \in KnockId |-> "none"]
        /\ UNCHANGED <<lives, obj, alive, created, knocked, auto, tapped>>
    BY <1>5 DEF R!End
  <2> QED
    BY <1>b, <2>1, <2>2 DEF ControlType
<1>6. ASSUME NEW r \in Room, R!Create(r)
      PROVE  ControlType'
  <2>1. /\ created' = created \cup {r} /\ alive' = alive \cup {r} /\ fresh' = r
        /\ obj' = [obj EXCEPT ![r] = [bound |-> FALSE, key |-> None]]
        /\ phase' \in {"keep", "pairing"}
        /\ saving' \subseteq saving \cup {R!Save("setup", r)}
        /\ UNCHANGED <<lives, room, file, knocked, handler, open, auto, tapped>>
    BY <1>6 DEF R!Create, R!Unbound
  <2>2. FileType \subseteq FileType'
    BY <2>1 DEF FileType
  <2>3. SaveType \subseteq SaveType'
    BY <2>1, <2>2 DEF SaveType
  <2>4. R!Save("setup", r) \in SaveType'
    BY <2>1 DEF R!Save, SaveType, R!Saver
  <2>5. saving' \subseteq SaveType' /\ file' \in FileType'
    BY <2>1, <2>2, <2>3, <2>4 DEF ControlType
  <2>6. obj' \in [Room -> [bound : BOOLEAN, key : Key \cup {None}]]
    BY <2>1 DEF ControlType
  <2>7. knocked' \in [KnockId -> [dev : Key \cup {None}, room : created' \cup {None}]]
    BY <2>1 DEF ControlType
  <2> QED
    BY <2>1, <2>5, <2>6, <2>7 DEF ControlType
<1>7. ASSUME NEW s \in saving, R!FixText(s) \/ R!SaveLands(s)
      PROVE  ControlType'
  <2>1. saving' \subseteq SaveType /\ file' \in FileType
    <3>1. CASE R!FixText(s)
      BY <3>1, TextIsFixed DEF R!FixText, ControlType
    <3>2. CASE R!SaveLands(s)
      <4>1. s.text \in FileType
        BY <3>2 DEF R!SaveLands, ControlType, SaveType
      <4> QED
        BY <1>a, <3>2, <4>1 DEF R!SaveLands, ControlType
    <3> QED
      BY <1>7, <3>1, <3>2
  <2>2. UNCHANGED <<phase, lives, room, fresh, obj, alive, created, knocked, handler, open,
                    auto, tapped>>
    BY <1>7 DEF R!FixText, R!SaveLands
  <2> QED
    BY <1>b, <2>1, <2>2 DEF ControlType
<1>8. ASSUME NEW r \in Room, R!Disband(r)
      PROVE  ControlType'
  BY <1>8, <1>b DEF R!Disband, ControlType
<1>9. ASSUME NEW k \in KnockId, NEW d \in Key, R!SendKnock(k, d)
      PROVE  ControlType'
  <2>1. PICK r \in alive : knocked' = [knocked EXCEPT ![k] = [dev |-> d, room |-> r]]
    BY <1>9 DEF R!SendKnock
  <2>2. /\ knocked' \in [KnockId -> [dev : Key \cup {None}, room : created \cup {None}]]
        /\ \A j \in KnockId : knocked'[j].room # None => knocked'[j].dev \in Key
    BY <2>1 DEF ControlType
  <2>3. UNCHANGED <<phase, lives, room, fresh, obj, saving, file, alive, created, handler, open,
                    auto, tapped>>
    BY <1>9 DEF R!SendKnock
  <2> QED
    BY <1>b, <2>2, <2>3 DEF ControlType
<1>10. ASSUME NEW k \in KnockId, R!OnKnock(k) \/ R!OnFirstKnock(k) \/ R!Resolve(k)
       PROVE  ControlType'
  <2>1. handler' \in [KnockId -> {"none", "first", "again", "pairing", "tap"}]
    BY <1>10 DEF R!OnKnock, R!OnFirstKnock, R!Resolve, ControlType
  <2>2. open' \subseteq KnockId
    BY <1>10 DEF R!OnKnock, R!OnFirstKnock, R!Resolve, R!Park, ControlType
  <2>3. tapped' \in [KnockId -> 0..1]
    BY <1>10 DEF R!OnKnock, R!OnFirstKnock, R!Resolve, ControlType
  <2>4. UNCHANGED <<phase, lives, room, fresh, obj, saving, file, alive, created, knocked, auto>>
    BY <1>10 DEF R!OnKnock, R!OnFirstKnock, R!Resolve
  <2> QED
    BY <1>b, <2>1, <2>2, <2>3, <2>4 DEF ControlType
<1>11. ASSUME NEW k \in KnockId, R!Approved(k) \/ R!ApproveFails(k)
       PROVE  ControlType'
  <2> DEFINE r == knocked[k].room
             d == knocked[k].dev
  <2>1. /\ handler[k] # "none" /\ handler' = [handler EXCEPT ![k] = "none"]
        /\ UNCHANGED <<lives, room, fresh, file, alive, created, knocked, open>>
    BY <1>11 DEF R!Approved, R!ApproveFails
  <2>2. handler' \in [KnockId -> {"none", "first", "again", "pairing", "tap"}]
    BY <2>1 DEF ControlType
  <2>3. tapped' \in [KnockId -> 0..1] /\ auto' \subseteq Room \X Key
    <3>1. CASE UNCHANGED <<tapped, auto>>
      BY <3>1 DEF ControlType
    <3>2. CASE r \in alive /\ R!LetIn(k)
      <4>1. <<r, d>> \in Room \X Key
        BY <1>a, <3>2 DEF ControlType
      <4>2. CASE handler[k] = "tap"
        BY <3>2, <4>2 DEF R!LetIn, TapsWait, ControlType
      <4>3. CASE handler[k] # "tap"
        BY <3>2, <4>1, <4>3 DEF R!LetIn, ControlType
      <4> QED
        BY <4>2, <4>3
    <3> QED
      BY <1>11, <3>1, <3>2 DEF R!Approved, R!ApproveFails
  <2>4. /\ phase' \in {phase, "keep", "exit"}
        /\ \/ UNCHANGED <<obj, saving>>
           \/ /\ r \in alive
              /\ R!Bind(k, k) \/ R!Bind(k, "setup")
    BY <1>11 DEF R!Approved, R!ApproveFails
  <2>5. obj' \in [Room -> [bound : BOOLEAN, key : Key \cup {None}]] /\ saving' \subseteq SaveType
    <3>1. CASE UNCHANGED <<obj, saving>>
      BY <3>1 DEF ControlType
    <3>2. CASE r \in alive /\ (R!Bind(k, k) \/ R!Bind(k, "setup"))
      <4>1. /\ r \in Room /\ r \in created /\ d \in Key
            /\ obj' = [obj EXCEPT ![r] = [bound |-> TRUE, key |-> d]]
            /\ \E by \in R!Saver : saving' = saving \cup {R!Save(by, r)}
        BY <1>a, <3>2 DEF R!Bind, ControlType, R!Saver
      <4>2. saving' \subseteq SaveType
        BY <4>1, SaveIsTyped DEF ControlType
      <4>3. obj' \in [Room -> [bound : BOOLEAN, key : Key \cup {None}]]
        BY <4>1 DEF ControlType
      <4> QED
        BY <4>2, <4>3
    <3> QED
      BY <2>4, <3>1, <3>2
  <2> HIDE DEF r, d
  <2> QED
    BY <1>b, <2>1, <2>2, <2>3, <2>4, <2>5 DEF ControlType
<1> QED
  BY <1>1, <1>2, <1>3, <1>4, <1>5, <1>6, <1>7, <1>8, <1>9, <1>10, <1>11 DEF R!Next

LEMMA TapsWaitKept ==
    ASSUME ControlType, TapsWait, R!Next
    PROVE  TapsWait'
<1> USE DEF ControlType, TapsWait, R!proc, R!disk, R!relay, R!phones, R!ghosts, R!Handle
<1>1. CASE R!Boot \/ R!Load \/ R!Serve \/ R!RefreshJwt \/ R!Destroyed \/ R!Clear \/ R!Repair
  <2>1. UNCHANGED <<handler, tapped>> /\ open' \subseteq open
    BY <1>1 DEF R!Boot, R!Load, R!Serve, R!RefreshJwt, R!Destroyed, R!Clear, R!Repair
  <2> QED
    BY <2>1
<1>2. CASE R!End
  BY <1>2 DEF R!End
<1>3. CASE \/ \E r \in Room : R!Create(r) \/ R!Disband(r)
           \/ \E s \in saving : R!FixText(s) \/ R!SaveLands(s)
  <2>1. UNCHANGED <<handler, tapped, open>>
    BY <1>3 DEF R!Create, R!SaveLands, R!FixText, R!Disband
  <2> QED
    BY <2>1
<1>4. ASSUME NEW k \in KnockId, NEW d \in Key, R!SendKnock(k, d)
      PROVE  TapsWait'
  BY <1>4 DEF R!SendKnock
<1>5. ASSUME NEW k \in KnockId, R!OnKnock(k)
      PROVE  TapsWait'
  <2>1. /\ handler[k] = "none" /\ open' \subseteq open \cup {k}
        /\ tapped' = IF k \in open' \ open THEN [tapped EXCEPT ![k] = 0] ELSE tapped
    BY <1>5 DEF R!OnKnock, R!Park
  <2>2. /\ \A j \in KnockId \ {k} : handler'[j] = handler[j]
        /\ handler'[k] # "tap"
    BY <1>5 DEF R!OnKnock
  <2> QED
    BY <2>1, <2>2
<1>6. ASSUME NEW k \in KnockId, R!OnFirstKnock(k)
      PROVE  TapsWait'
  <2>1. /\ UNCHANGED <<open, tapped>> /\ handler'[k] # "tap"
        /\ \A j \in KnockId \ {k} : handler'[j] = handler[j]
    BY <1>6 DEF R!OnFirstKnock
  <2> QED
    BY <2>1
<1>7. ASSUME NEW k \in KnockId, R!Approved(k) \/ R!ApproveFails(k)
      PROVE  TapsWait'
  <2>1. /\ UNCHANGED open /\ handler'[k] = "none" /\ handler[k] # "none"
        /\ \A j \in KnockId \ {k} : handler'[j] = handler[j] /\ tapped'[j] = tapped[j]
        /\ handler[k] # "tap" => tapped' = tapped
    BY <1>7 DEF R!Approved, R!ApproveFails, R!LetIn
  <2> QED
    BY <2>1
<1>8. ASSUME NEW k \in KnockId, R!Resolve(k)
      PROVE  TapsWait'
  <2>1. /\ k \in open /\ open' = open \ {k} /\ UNCHANGED tapped
        /\ \A j \in KnockId \ {k} : handler'[j] = handler[j]
    BY <1>8 DEF R!Resolve, R!Answerable
  <2> QED
    BY <2>1
<1> QED
  BY <1>1, <1>2, <1>3, <1>4, <1>5, <1>6, <1>7, <1>8 DEF R!Next

LEMMA KnocksStaySent ==
    ASSUME R!BoundAssumption, ControlType, KnocksAreSent, BoundIsIn, R!Next
    PROVE  KnocksAreSent'
<1>a. None \notin Room /\ alive \subseteq Room
  BY DEF R!BoundAssumption, ControlType
<1> USE DEF ControlType, KnocksAreSent, R!proc, R!disk, R!relay, R!phones, R!ghosts, R!Handle
<1>1. CASE R!Boot \/ R!Load \/ R!Serve \/ R!RefreshJwt \/ R!Destroyed \/ R!Clear \/ R!Repair
  <2>1. UNCHANGED <<handler, knocked>> /\ open' \subseteq open
    BY <1>1 DEF R!Boot, R!Load, R!Serve, R!RefreshJwt, R!Destroyed, R!Clear, R!Repair
  <2> QED
    BY <2>1
<1>2. CASE R!End
  BY <1>2 DEF R!End
<1>3. CASE \/ \E r \in Room : R!Create(r) \/ R!Disband(r)
           \/ \E s \in saving : R!FixText(s) \/ R!SaveLands(s)
  <2>1. UNCHANGED <<handler, knocked, open>>
    BY <1>3 DEF R!Create, R!SaveLands, R!FixText, R!Disband
  <2> QED
    BY <2>1
<1>4. ASSUME NEW k \in KnockId, NEW d \in Key, R!SendKnock(k, d)
      PROVE  KnocksAreSent'
  BY <1>4, <1>a DEF R!SendKnock
<1>5. ASSUME NEW k \in KnockId,
             R!OnKnock(k) \/ R!OnFirstKnock(k) \/ R!ApproveFails(k) \/ R!Resolve(k)
                \/ R!Approved(k)
      PROVE  KnocksAreSent'
  <2>1. /\ UNCHANGED knocked /\ open' \subseteq open \cup {k}
        /\ \A j \in KnockId \ {k} : handler'[j] = handler[j]
    BY <1>5 DEF R!OnKnock, R!OnFirstKnock, R!ApproveFails, R!Resolve, R!Approved, R!Park
  <2>2. knocked[k].room # None
    <3>1. CASE R!OnKnock(k)
      BY <3>1, <1>a DEF R!OnKnock, BoundIsIn, Current
    <3>2. CASE R!OnFirstKnock(k)
      BY <3>2, <1>a DEF R!OnFirstKnock, BoundIsIn
    <3>3. CASE R!ApproveFails(k) \/ R!Resolve(k) \/ R!Approved(k)
      BY <3>3 DEF R!ApproveFails, R!Resolve, R!Approved, R!Answerable
    <3> QED
      BY <1>5, <3>1, <3>2, <3>3
  <2> QED
    BY <2>1, <2>2
<1> QED
  BY <1>1, <1>2, <1>3, <1>4, <1>5 DEF R!Next

(* A handler that took its knock for the first works on the current room.   *)
LEMMA HandlersStayCurrent ==
    ASSUME R!BoundAssumption, ControlType, KnocksAreSent, HandlersAreCurrent, R!Next
    PROVE  HandlersAreCurrent'
<1> USE DEF R!proc, R!disk, R!relay, R!phones, R!ghosts, R!Handle, HandlersAreCurrent
<1>1. CASE R!Boot \/ R!Load \/ R!Serve \/ R!RefreshJwt \/ R!Destroyed \/ R!Clear \/ R!Repair
  <2>1. /\ UNCHANGED <<handler, knocked>> /\ alive' \subseteq alive /\ phase' # "down"
        /\ phase = "up" => (phase' = "up" /\ room' = room) \/ room \notin alive
    BY <1>1 DEF R!Boot, R!Load, R!Serve, R!RefreshJwt, R!Destroyed, R!Clear, R!Repair
  <2> QED
    BY <2>1
<1>2. CASE R!End
  BY <1>2 DEF R!End
<1>3. ASSUME NEW r \in Room, R!Create(r) \/ R!Disband(r)
      PROVE  HandlersAreCurrent'
  <2>1. CASE R!Create(r)
    <3>1. /\ phase = "create" /\ alive' = alive \cup {r} /\ r \notin created
          /\ phase' \in {"keep", "pairing"}
          /\ UNCHANGED <<knocked, handler>>
      BY <2>1 DEF R!Create
    <3>2. \A k \in KnockId : handler[k] # "none" => knocked[k].room \in created
      BY DEF KnocksAreSent, ControlType
    <3> QED
      BY <3>1, <3>2
  <2>2. CASE R!Disband(r)
    BY <2>2 DEF R!Disband
  <2> QED
    BY <1>3, <2>1, <2>2
<1>4. ASSUME NEW s \in saving, R!FixText(s) \/ R!SaveLands(s)
      PROVE  HandlersAreCurrent'
  <2>1. UNCHANGED <<phase, room, alive, knocked, handler>>
    BY <1>4 DEF R!FixText, R!SaveLands
  <2> QED
    BY <2>1
<1>5. ASSUME NEW k \in KnockId, NEW d \in Key, R!SendKnock(k, d)
      PROVE  HandlersAreCurrent'
  <2>1. /\ knocked[k].room = None
        /\ \A j \in KnockId \ {k} : knocked'[j] = knocked[j]
        /\ UNCHANGED <<phase, room, alive, handler>>
    BY <1>5 DEF R!SendKnock
  <2>2. handler[k] = "none"
    BY <2>1 DEF KnocksAreSent, ControlType
  <2> QED
    BY <2>1, <2>2
<1>6. ASSUME NEW k \in KnockId,
             R!OnKnock(k) \/ R!OnFirstKnock(k) \/ R!Resolve(k)
      PROVE  HandlersAreCurrent'
  <2>1. /\ UNCHANGED <<phase, room, alive, knocked>> /\ phase # "down"
        /\ \A j \in KnockId \ {k} : handler'[j] = handler[j]
        /\ handler'[k] = "first" =>
             handler[k] = "first" \/ (phase = "up" /\ knocked[k].room = room)
    BY <1>6 DEF R!OnKnock, R!OnFirstKnock, R!Resolve, R!Answerable, ControlType
  <2> QED
    BY <2>1
<1>7. ASSUME NEW k \in KnockId, R!Approved(k) \/ R!ApproveFails(k)
      PROVE  HandlersAreCurrent'
  <2>1. /\ UNCHANGED <<room, alive, knocked>>
        /\ handler[k] # "none" /\ handler' = [handler EXCEPT ![k] = "none"]
        /\ phase' = phase \/ (phase = "pairing" /\ phase' \in {"keep", "exit"})
    BY <1>7 DEF R!Approved, R!ApproveFails, R!Pairs
  <2>2. /\ \A j \in KnockId \ {k} : handler'[j] = handler[j]
        /\ handler'[k] = "none"
    BY <2>1 DEF ControlType
  <2> QED
    BY <2>1, <2>2
<1> QED
  BY <1>1, <1>2, <1>3, <1>4, <1>5, <1>6, <1>7 DEF R!Next

(* The saves and the file, where the room of a step's save is the current   *)
(* one ...                                                                  *)
LEMMA SaveIsAdded ==
    ASSUME ControlType, SavesFollow, NEW by \in R!Saver, NEW r \in created',
           saving' = saving \cup {R!Save(by, r)}, phase' # "down",
           alive' \subseteq alive \cup {r}, r \in Current', Current \subseteq Current',
           \A s \in saving : s.room \in created,
           \A q \in created : q # r => obj'[q] = obj[q]
    PROVE  SavesFollow'
<1>1. /\ R!Save(by, r).room = r /\ R!Save(by, r).text = None
  BY DEF R!Save
<1>2. ASSUME NEW s \in saving, s.room # r
      PROVE  R!Saved(s.room)' = R!Saved(s.room)
  BY <1>2 DEF R!Saved
<1>3. ASSUME NEW s \in saving'
      PROVE  /\ s.room \in alive' => s.room \in Current'
             /\ s.text # None => s.text.room = s.room
             /\ s.text # None /\ ~s.over =>
                  \/ s.text = R!Saved(s.room)'
                  \/ \E t \in saving' : t.room = s.room /\ t.text = None
  <2>1. CASE s = R!Save(by, r)
    BY <1>1, <2>1
  <2>2. CASE s \in saving
    BY <1>1, <1>2, <2>2 DEF SavesFollow
  <2> QED
    BY <1>3, <2>1, <2>2
<1> QED
  BY <1>3 DEF SavesFollow

(* ... and where no save is added and none without a text is lost.          *)
LEMMA SavesAreLeft ==
    ASSUME ControlType, SavesFollow, saving' \subseteq saving,
           \A t \in saving : t.text = None => t \in saving',
           phase' = "down" => saving' = {},
           \A s \in saving : s.room \in alive' => s.room \in alive /\ s.room \in Current',
           \A s \in saving : obj'[s.room] = obj[s.room]
    PROVE  SavesFollow'
<1>1. \A s \in saving : R!Saved(s.room)' = R!Saved(s.room)
  BY DEF R!Saved
<1> QED
  BY <1>1 DEF SavesFollow

LEMMA SavesStillFollow ==
    ASSUME R!BoundAssumption, ControlType, KnocksAreSent, HandlersAreCurrent, SavesFollow,
           BoundIsIn, R!Next
    PROVE  SavesFollow'
<1>a. /\ \A s \in saving : s.room \in created /\ s.room \in Room
      /\ created \subseteq Room /\ alive \subseteq created
      /\ "setup" \in R!Saver /\ "jwt" \in R!Saver /\ KnockId \subseteq R!Saver
  BY DEF ControlType, SaveType, R!Saver
<1>b. \A s \in saving : s.room \in alive => s.room \in Current
  BY DEF SavesFollow
<1> USE DEF R!proc, R!disk, R!relay, R!phones, R!ghosts, R!Handle
<1>1. CASE R!Boot \/ R!Destroyed
  <2>1. /\ UNCHANGED <<saving, obj, alive>> /\ phase' # "down"
        /\ (phase = "down" \/ (phase = "up" /\ room \notin alive))
    BY <1>1 DEF R!Boot, R!Destroyed
  <2>2. \A s \in saving : s.room \notin alive
    BY <1>b, <2>1 DEF SavesFollow, Current
  <2> QED
    BY <2>1, <2>2, SavesAreLeft
<1>2. CASE R!Serve
  <2>1. /\ UNCHANGED <<saving, obj, alive>> /\ phase = "keep" /\ phase' = "up" /\ room' = fresh
    BY <1>2 DEF R!Serve
  <2>2. Current' = Current
    BY <2>1 DEF Current
  <2> QED
    BY <1>b, <2>1, <2>2, SavesAreLeft
<1>3. CASE R!RefreshJwt
  <2>1. /\ UNCHANGED <<phase, room, fresh, obj, alive, created>> /\ phase = "up"
        /\ room \in alive /\ saving' = saving \cup {R!Save("jwt", room)}
    BY <1>3 DEF R!RefreshJwt
  <2>2. Current' = Current /\ room \in Current'
    BY <2>1 DEF Current
  <2> QED
    BY <1>a, <2>1, <2>2, SaveIsAdded
<1>4. CASE R!Clear \/ R!Repair
  <2>1. /\ R!Unlink /\ alive' \subseteq alive /\ UNCHANGED obj
        /\ phase # "down" /\ phase' # "down"
        /\ (phase = "clear" \/ UNCHANGED <<phase, room, fresh>>)
    BY <1>4 DEF R!Clear, R!Repair
  <2>2. \A s \in saving : s.room \in alive => s.room \in Current'
    BY <1>b, <2>1 DEF Current
  <2> QED
    BY <2>1, <2>2, UnlinkLoses, SavesAreLeft
<1>5. CASE R!Load
  <2>1. phase = "load" /\ UNCHANGED <<alive, created>> /\ phase' # "down"
    BY <1>5 DEF R!Load
  <2>2. \A s \in saving : s.room \notin alive
    BY <1>b, <2>1 DEF Current
  <2>3. CASE UNCHANGED <<obj, saving>>
    BY <2>1, <2>2, <2>3, SavesAreLeft
  <2>4. CASE /\ file.room \in alive
             /\ fresh' = file.room /\ phase' = "keep"
             /\ obj' = [obj EXCEPT ![file.room] = [bound |-> file.bound, key |-> file.key]]
             /\ \/ saving' = saving \cup {R!Save("setup", file.room)}
                \/ UNCHANGED saving
    <3>1. Current' = {file.room} /\ Current = {} /\ file.room \in created
      BY <1>a, <2>1, <2>4 DEF Current
    <3>2. \A q \in created : q # file.room => obj'[q] = obj[q]
      BY <1>a, <2>4 DEF ControlType
    <3>3. \A s \in saving : obj'[s.room] = obj[s.room]
      BY <1>a, <2>2, <2>4, <3>2
    <3>4. CASE UNCHANGED saving
      BY <2>1, <2>2, <3>3, <3>4, SavesAreLeft
    <3>5. CASE saving' = saving \cup {R!Save("setup", file.room)}
      BY <1>a, <2>1, <3>1, <3>2, <3>5, SaveIsAdded
    <3> QED
      BY <2>4, <3>4, <3>5
  <2> QED
    BY <1>5, <2>3, <2>4 DEF R!Load
<1>6. CASE R!End
  BY <1>6 DEF R!End, SavesFollow
<1>7. ASSUME NEW r \in Room, R!Create(r)
      PROVE  SavesFollow'
  <2>1. /\ phase = "create" /\ r \notin created /\ alive' = alive \cup {r} /\ fresh' = r
        /\ created' = created \cup {r}
        /\ obj' = [obj EXCEPT ![r] = R!Unbound]
        /\ \/ phase' = "keep" /\ saving' = saving \cup {R!Save("setup", r)}
           \/ phase' = "pairing" /\ UNCHANGED saving
    BY <1>7 DEF R!Create
  <2>2. \A s \in saving : s.room \notin alive'
    BY <1>a, <1>b, <2>1 DEF Current
  <2>3. \A q \in created : q # r => obj'[q] = obj[q]
    BY <1>a, <2>1 DEF ControlType
  <2>4. \A s \in saving : obj'[s.room] = obj[s.room]
    BY <1>a, <2>1, <2>3
  <2>5. CASE phase' = "keep" /\ saving' = saving \cup {R!Save("setup", r)}
    <3>1. Current' = {r} /\ Current = {} /\ r \in created' /\ alive' \subseteq alive \cup {r}
      BY <2>1, <2>5 DEF Current
    <3> QED
      BY <1>a, <2>3, <2>5, <3>1, SaveIsAdded
  <2>6. CASE phase' = "pairing" /\ UNCHANGED saving
    BY <2>2, <2>4, <2>6, SavesAreLeft
  <2> QED
    BY <2>1, <2>5, <2>6
<1>8. ASSUME NEW s \in saving, R!FixText(s)
      PROVE  SavesFollow'
  <2>1. UNCHANGED <<phase, room, fresh, obj, alive>> /\ phase # "down"
    BY <1>8 DEF R!FixText
  <2>2. Current' = Current /\ R!Saved(s.room)' = R!Saved(s.room) /\ R!Saved(s.room).room = s.room
    BY <2>1 DEF Current, R!Saved
  <2>3. ASSUME NEW u \in saving'
        PROVE  /\ u.room \in alive' => u.room \in Current'
               /\ u.text # None => u.text.room = u.room
               /\ u.text # None /\ ~u.over => u.text = R!Saved(u.room)'
    <3>1. CASE u \in saving /\ u.text = None
      BY <1>b, <2>1, <2>2, <3>1
    <3>2. CASE \E t \in saving : /\ t.text # None /\ u.over
                                 /\ u.room = t.room /\ u.by = t.by /\ u.text = t.text
      BY <1>b, <2>1, <2>2, <3>2 DEF SavesFollow
    <3>3. CASE u.room = s.room /\ u.by = s.by /\ u.text = R!Saved(s.room)
      BY <1>b, <2>1, <2>2, <3>3
    <3> QED
      BY <1>8, <3>1, <3>2, <3>3, TextIsFixed
  <2> QED
    BY <2>1, <2>3 DEF SavesFollow
<1>9. ASSUME NEW s \in saving, R!SaveLands(s)
      PROVE  SavesFollow'
  <2>1. /\ UNCHANGED <<phase, room, fresh, obj, alive>> /\ phase # "down"
        /\ saving' = saving \ {s} /\ s.text # None
    BY <1>9 DEF R!SaveLands
  <2>2. Current' = Current
    BY <2>1 DEF Current
  <2> QED
    BY <1>b, <2>1, <2>2, SavesAreLeft
<1>10. ASSUME NEW r \in Room, R!Disband(r)
       PROVE  SavesFollow'
  <2>1. alive' \subseteq alive /\ UNCHANGED <<phase, room, fresh, obj, saving>>
    BY <1>10 DEF R!Disband
  <2>2. Current' = Current
    BY <2>1 DEF Current
  <2> QED
    BY <1>b, <2>1, <2>2, SavesAreLeft DEF SavesFollow
<1>11. ASSUME UNCHANGED <<phase, room, fresh, obj, saving, alive>>
       PROVE  SavesFollow'
  <2>1. Current' = Current
    BY <1>11 DEF Current
  <2> QED
    BY <1>11, <1>b, <2>1, SavesAreLeft DEF SavesFollow
<1>12. ASSUME NEW k \in KnockId, NEW d \in Key, R!SendKnock(k, d)
       PROVE  SavesFollow'
  BY <1>11, <1>12 DEF R!SendKnock
<1>13. ASSUME NEW k \in KnockId, R!OnKnock(k) \/ R!OnFirstKnock(k) \/ R!Resolve(k)
       PROVE  SavesFollow'
  BY <1>11, <1>13 DEF R!OnKnock, R!OnFirstKnock, R!Resolve
<1>14. ASSUME NEW k \in KnockId, R!Approved(k) \/ R!ApproveFails(k)
       PROVE  SavesFollow'
  <2> DEFINE r == knocked[k].room
  <2>1. /\ handler[k] # "none" /\ UNCHANGED <<room, fresh, alive, created>>
    BY <1>14 DEF R!Approved, R!ApproveFails
  <2>2. phase # "down"
    BY <2>1 DEF HandlersAreCurrent
  <2>3. CASE UNCHANGED <<phase, obj, saving>>
    BY <1>11, <2>1, <2>3
  <2>4. CASE phase = "pairing" /\ phase' = "exit" /\ UNCHANGED <<obj, saving>>
    <3>1. \A s \in saving : s.room \notin alive
      BY <1>b, <2>4 DEF Current
    <3> QED
      BY <2>1, <2>4, <3>1, SavesAreLeft
  <2>5. ASSUME NEW by \in R!Saver, R!Bind(k, by), r \in alive, r \in Current',
               Current \subseteq Current', phase' # "down"
        PROVE  SavesFollow'
    <3>1. /\ saving' = saving \cup {R!Save(by, r)}
          /\ obj' = [obj EXCEPT ![r] = [bound |-> TRUE, key |-> knocked[k].dev]]
      BY <2>5 DEF R!Bind
    <3>2. \A q \in created : q # r => obj'[q] = obj[q]
      BY <1>a, <3>1 DEF ControlType
    <3>3. r \in created' /\ alive' \subseteq alive \cup {r}
      BY <1>a, <2>1, <2>5
    <3> HIDE DEF r
    <3> QED
      BY <1>a, <2>5, <3>1, <3>2, <3>3, SaveIsAdded
  <2>6. CASE handler[k] = "first" /\ R!Approved(k)
    <3>1. r \in alive /\ R!Bind(k, k) /\ UNCHANGED phase
      BY <2>6 DEF R!Approved, R!Pairs
    <3>2. phase = "up" /\ r = room
      BY <2>6, <3>1 DEF HandlersAreCurrent
    <3>3. Current' = Current /\ r \in Current'
      BY <2>1, <3>1, <3>2 DEF Current
    <3> QED
      BY <1>a, <2>2, <2>5, <3>1, <3>3
  <2>7. CASE R!Pairs(k) /\ R!Approved(k) /\ handler[k] # "first"
    <3>1. /\ r \in alive /\ R!Bind(k, "setup") /\ phase' = "keep"
          /\ phase = "pairing" /\ fresh = r
      BY <2>7 DEF R!Approved, R!Pairs
    <3>2. Current = {} /\ r \in Current'
      BY <2>1, <3>1 DEF Current
    <3> QED
      BY <1>a, <2>5, <3>1, <3>2
  <2> QED
    BY <1>14, <2>3, <2>4, <2>6, <2>7 DEF R!Approved, R!ApproveFails, R!Pairs
<1> QED
  BY <1>1, <1>2, <1>3, <1>4, <1>5, <1>6, <1>7, <1>8, <1>9, <1>10, <1>12, <1>13, <1>14
     DEF R!Next

(* What is done about the saves of other rooms, or to no room's state, does *)
(* not touch what the file says of the current one.                         *)
LEMMA FileIsLeft ==
    ASSUME FileFollows, UNCHANGED <<phase, room, fresh, file, mixed>>,
           file.room \in alive' => file.room \in alive,
           \A s \in saving : \E t \in saving' : t.room = s.room /\ t.by = s.by,
           \/ obj'[file.room] = obj[file.room]
           \/ \E s \in saving' : s.room = file.room
    PROVE  FileFollows'
<1>1. Current' = Current
  BY DEF Current
<1>2. (\A s \in saving' : s.by # "setup") => \A s \in saving : s.by # "setup"
  OBVIOUS
<1>3. (\A s \in saving' : s.room # file.room) => \A s \in saving : s.room # file.room
  OBVIOUS
<1>4. obj'[file.room] = obj[file.room] => R!Saved(file.room)' = R!Saved(file.room)
  BY DEF R!Saved
<1> QED
  BY <1>1, <1>2, <1>3, <1>4 DEF FileFollows

LEMMA FileStillFollows ==
    ASSUME R!BoundAssumption, ControlType, HandlersAreCurrent, SavesFollow,
           FileFollows, BoundIsIn, R!Next
    PROVE  FileFollows'
<1>a. /\ \A s \in saving : s.room \in created /\ s.room \in Room
      /\ created \subseteq Room /\ alive \subseteq created
      /\ None \notin created /\ file.room \in created \cup {None}
  BY DEF ControlType, SaveType, FileType, R!BoundAssumption
<1> USE DEF R!proc, R!disk, R!relay, R!phones, R!ghosts, R!Handle
<1>1. CASE R!Boot \/ R!Destroyed \/ R!End
  <2>1. phase' \notin {"keep", "up"}
    BY <1>1 DEF R!Boot, R!Destroyed, R!End
  <2> QED
    BY <2>1 DEF FileFollows
<1>2. CASE R!Serve
  <2>1. /\ UNCHANGED <<saving, obj, alive, file, mixed>> /\ room' = fresh
        /\ phase = "keep" /\ phase' = "up" /\ \A s \in saving : s.by # "setup"
    BY <1>2 DEF R!Serve
  <2>2. Current' = Current /\ R!Saved(file.room)' = R!Saved(file.room)
    BY <2>1 DEF Current, R!Saved
  <2> QED
    BY <2>1, <2>2 DEF FileFollows
<1>3. CASE R!RefreshJwt
  <2>1. /\ UNCHANGED <<phase, room, fresh, obj, alive, file, mixed>>
        /\ saving \subseteq saving'
    BY <1>3 DEF R!RefreshJwt
  <2> QED
    BY <2>1, FileIsLeft
<1>4. CASE R!Clear \/ R!Repair
  <2>1. file'.room = None /\ alive' \subseteq alive /\ room' = room /\ fresh' = fresh
    BY <1>4, UnlinkLoses DEF R!Clear, R!Repair, R!NoFile
  <2>2. phase' = "load" \/ phase' = phase
    BY <1>4 DEF R!Clear, R!Repair
  <2>3. CASE phase' \notin {"keep", "up"}
    BY <2>3 DEF FileFollows
  <2>4. CASE phase' = phase /\ phase \in {"keep", "up"}
    <3>1. Current' = Current /\ Current \subseteq Room
      BY <2>1, <2>4 DEF Current, BoundIsIn
    <3>2. file'.room \notin alive' /\ file'.room \notin Current'
      BY <1>a, <2>1, <3>1 DEF R!BoundAssumption
    <3> QED
      BY <3>2 DEF FileFollows
  <2> QED
    BY <2>2, <2>3, <2>4
<1>5. CASE R!Load
  <2>1. phase = "load" /\ UNCHANGED <<file, mixed, alive>>
    BY <1>5 DEF R!Load
  <2>2. CASE phase' = "create"
    BY <2>2 DEF FileFollows
  <2>3. CASE /\ file.room \in alive
             /\ fresh' = file.room /\ phase' = "keep"
             /\ obj' = [obj EXCEPT ![file.room] = [bound |-> file.bound, key |-> file.key]]
    <3>1. obj'[file.room] = [bound |-> file.bound, key |-> file.key]
      BY <1>a, <2>3 DEF ControlType
    <3>2. R!Saved(file.room)' = [room |-> file.room, bound |-> file.bound, key |-> file.key]
      BY <2>1, <3>1 DEF R!Saved
    <3>3. R!Saved(file.room)' = file
      BY <3>2 DEF ControlType, FileType
    <3> QED
      BY <2>1, <2>3, <3>3 DEF FileFollows
  <2> QED
    BY <1>5, <2>2, <2>3 DEF R!Load
<1>6. ASSUME NEW r \in Room, R!Create(r)
      PROVE  FileFollows'
  <2>1. /\ r \notin created /\ alive' = alive \cup {r} /\ fresh' = r
        /\ UNCHANGED <<file, mixed>>
        /\ \/ phase' = "keep" /\ saving' = saving \cup {R!Save("setup", r)}
           \/ phase' = "pairing"
    BY <1>6 DEF R!Create
  <2>2. CASE phase' = "pairing"
    BY <2>2 DEF FileFollows
  <2>3. CASE phase' = "keep" /\ saving' = saving \cup {R!Save("setup", r)}
    <3>1. Current' = {r} /\ file.room # r
      BY <1>a, <2>1, <2>3 DEF Current, R!BoundAssumption
    <3>2. \E s \in saving' : s.by = "setup"
      <4>1. R!Save("setup", r) \in saving'
        BY <2>3
      <4>2. R!Save("setup", r).by = "setup"
        BY DEF R!Save
      <4> QED
        BY <4>1, <4>2
    <3> QED
      BY <2>1, <2>3, <3>1, <3>2 DEF FileFollows
  <2> QED
    BY <2>1, <2>2, <2>3
<1>7. ASSUME NEW s \in saving, R!FixText(s)
      PROVE  FileFollows'
  <2>1. UNCHANGED <<phase, room, fresh, obj, alive, file, mixed>>
    BY <1>7 DEF R!FixText
  <2>2. \A t \in saving : \E u \in saving' : u.room = t.room /\ u.by = t.by
    BY <1>7, TextIsFixed
  <2> QED
    BY <2>1, <2>2, FileIsLeft
<1>8. ASSUME NEW s \in saving, R!SaveLands(s)
      PROVE  FileFollows'
  <2>1. /\ s.text # None /\ saving' = saving \ {s}
        /\ UNCHANGED <<phase, room, fresh, obj, alive>>
        /\ mixed' = s.over
        /\ file' = s.text \/ (s.over /\ file' = R!NoFile)
    BY <1>8 DEF R!SaveLands
  <2>2. /\ s.text.room = s.room /\ (s.room \in alive => s.room \in Current)
        /\ ~s.over => \/ s.text = R!Saved(s.room)
                      \/ \E t \in saving : t.room = s.room /\ t.text = None
    BY <2>1 DEF SavesFollow
  <2>3. Current' = Current /\ \A r : R!Saved(r)' = R!Saved(r)
    BY <2>1 DEF Current, R!Saved
  <2>4. file'.room = s.room \/ file'.room = None
    BY <2>1, <2>2 DEF R!NoFile
  <2>5. file'.room \in alive => file'.room \in Current
    BY <1>a, <2>2, <2>4
  <2>6. ~mixed' => ~s.over
    BY <2>1
  <2>7. ASSUME ~mixed', \A t \in saving' : t.room # file'.room
        PROVE  file' = R!Saved(file'.room)
    <3>1. file' = s.text /\ file'.room = s.room
      BY <2>1, <2>2, <2>6, <2>7
    <3>2. ~ \E t \in saving : t.room = s.room /\ t.text = None
      BY <2>1, <2>7, <3>1
    <3> QED
      BY <2>2, <2>6, <2>7, <3>1, <3>2
  <2> QED
    BY <2>1, <2>3, <2>5, <2>7 DEF FileFollows, Current
<1>9. ASSUME NEW r \in Room, R!Disband(r)
      PROVE  FileFollows'
  <2>1. alive' \subseteq alive /\ UNCHANGED <<phase, room, fresh, obj, saving, file, mixed>>
    BY <1>9 DEF R!Disband
  <2> QED
    BY <2>1, FileIsLeft
<1>10. ASSUME UNCHANGED <<phase, room, fresh, obj, saving, alive, file, mixed>>
       PROVE  FileFollows'
  BY <1>10, FileIsLeft
<1>11. ASSUME NEW k \in KnockId, NEW d \in Key, R!SendKnock(k, d)
       PROVE  FileFollows'
  BY <1>10, <1>11 DEF R!SendKnock
<1>12. ASSUME NEW k \in KnockId, R!OnKnock(k) \/ R!OnFirstKnock(k) \/ R!Resolve(k)
       PROVE  FileFollows'
  BY <1>10, <1>12 DEF R!OnKnock, R!OnFirstKnock, R!Resolve
<1>13. ASSUME NEW k \in KnockId, R!Approved(k) \/ R!ApproveFails(k)
       PROVE  FileFollows'
  <2> DEFINE r == knocked[k].room
  <2>1. /\ UNCHANGED <<room, fresh, alive, file, mixed>>
    BY <1>13 DEF R!Approved, R!ApproveFails
  <2>2. CASE UNCHANGED <<phase, obj, saving>>
    BY <1>10, <2>1, <2>2
  <2>3. CASE phase' = "exit"
    BY <2>3 DEF FileFollows
  <2>4. ASSUME NEW by \in R!Saver, R!Bind(k, by), r \in alive
        PROVE  /\ saving \subseteq saving' /\ R!Save(by, r) \in saving'
               /\ R!Save(by, r).room = r /\ R!Save(by, r).by = by
               /\ file.room # r => obj'[file.room] = obj[file.room]
    <3>1. /\ saving' = saving \cup {R!Save(by, r)}
          /\ obj' = [obj EXCEPT ![r] = [bound |-> TRUE, key |-> knocked[k].dev]]
      BY <2>4 DEF R!Bind
    <3>2. R!Save(by, r).room = r /\ R!Save(by, r).by = by
      BY DEF R!Save
    <3>3. file.room # r => obj'[file.room] = obj[file.room]
      BY <3>1 DEF ControlType
    <3> HIDE DEF r
    <3> QED
      BY <3>1, <3>2, <3>3
  <2>5. CASE handler[k] = "first" /\ R!Approved(k)
    <3>1. r \in alive /\ R!Bind(k, k) /\ UNCHANGED phase /\ k \in R!Saver
      BY <2>5 DEF R!Approved, R!Pairs, R!Saver
    <3>2. /\ saving \subseteq saving'
          /\ obj'[file.room] = obj[file.room] \/ \E s \in saving' : s.room = file.room
      BY <2>4, <3>1
    <3> QED
      BY <2>1, <3>1, <3>2, FileIsLeft
  <2>6. CASE R!Pairs(k) /\ R!Approved(k) /\ handler[k] # "first"
    <3>1. /\ r \in alive /\ R!Bind(k, "setup") /\ phase' = "keep" /\ "setup" \in R!Saver
          /\ phase = "pairing" /\ fresh = r
      BY <2>6 DEF R!Approved, R!Pairs, R!Saver
    <3>2. \E s \in saving' : s.by = "setup" /\ s.room = r
      BY <2>4, <3>1
    <3>3. Current' = {r}
      BY <2>1, <3>1 DEF Current
    <3> HIDE DEF r
    <3> QED
      BY <2>1, <3>1, <3>2, <3>3 DEF FileFollows
  <2> QED
    BY <1>13, <2>2, <2>3, <2>5, <2>6 DEF R!Approved, R!ApproveFails, R!Pairs
<1> QED
  BY <1>1, <1>2, <1>3, <1>4, <1>5, <1>6, <1>7, <1>8, <1>9, <1>11, <1>12, <1>13 DEF R!Next

LEMMA OthersStayGone ==
    ASSUME R!BoundAssumption, ControlType, KnocksAreSent, OthersAreGone, BoundIsIn, R!Next
    PROVE  OthersAreGone'
BY HandlersStayCurrent, SavesStillFollow, FileStillFollows DEF OthersAreGone

(* A text that stays, in the file or under way, is in; so is a new one.     *)
LEMMA TextsStayIn ==
    ASSUME BoundIsIn, auto \subseteq auto',
           file.bound => obj'[file.room].bound,
           \A s \in saving : s.text # None /\ s.text.bound => obj'[s.text.room].bound,
           \/ file' = file \/ ~file'.bound
           \/ \E s \in saving : s.text # None /\ file' = s.text,
           \A u \in saving' :
              \/ u.text = None
              \/ \E s \in saving : s.text # None /\ u.text = s.text
              \/ \E r \in Room : u.text = R!Saved(r) /\ UNCHANGED obj
    PROVE  /\ IsIn(file)'
           /\ \A u \in saving' : u.text # None => IsIn(u.text)'
<1>1. IsIn(file)'
  BY DEF BoundIsIn, IsIn
<1>2. ASSUME NEW u \in saving', u.text # None
      PROVE  IsIn(u.text)'
  <2>1. CASE \E s \in saving : s.text # None /\ u.text = s.text
    BY <2>1 DEF BoundIsIn, IsIn
  <2>2. CASE \E r \in Room : u.text = R!Saved(r) /\ UNCHANGED obj
    BY <2>2 DEF BoundIsIn, IsIn, R!Saved
  <2> QED
    BY <1>2, <2>1, <2>2
<1> QED
  BY <1>1, <1>2

LEMMA BoundStaysIn ==
    ASSUME R!BoundAssumption, ControlType, KnocksAreSent, OthersAreGone, BoundIsIn, R!Next
    PROVE  BoundIsIn'
<1> USE DEF R!proc, R!disk, R!relay, R!phones, R!ghosts, R!Handle
<1>a. /\ None \notin Room /\ alive \subseteq Room /\ alive \subseteq created
      /\ created \subseteq Room
      /\ \A s \in saving : s.room \in created
      /\ \A s \in saving : s.text # None =>
           s.text.room = s.room /\ (s.room \in alive => s.room \in Current)
  BY DEF R!BoundAssumption, ControlType, SaveType, OthersAreGone, SavesFollow
<1>b. /\ \A r \in Room : obj[r].bound => <<r, obj[r].key>> \in auto
      /\ \A k \in KnockId : handler[k] = "again" => <<knocked[k].room, knocked[k].dev>> \in auto
      /\ phase = "pairing" => fresh \in Room /\ ~obj[fresh].bound
      /\ phase \in {"keep", "up"} => Current \subseteq Room
      /\ file.bound => obj[file.room].bound /\ file.room \in Room
                         /\ <<file.room, file.key>> \in auto
      /\ \A s \in saving : s.text # None /\ s.text.bound => obj[s.text.room].bound
  <2>1. auto \subseteq Room \X Key
    BY DEF ControlType
  <2> QED
    BY <2>1 DEF BoundIsIn, IsIn
<1>1. ASSUME UNCHANGED <<obj, auto, knocked>>, saving' \subseteq saving,
             file' = file \/ ~file'.bound,
             \A k \in KnockId : handler'[k] = "again" => handler[k] = "again",
             phase' = "pairing" => phase = "pairing" /\ fresh' = fresh,
             phase' \in {"keep", "up"} => phase \in {"keep", "up"} /\ Current' = Current
      PROVE  BoundIsIn'
  <2>1. IsIn(file)' /\ \A u \in saving' : u.text # None => IsIn(u.text)'
    BY <1>b, <1>1, TextsStayIn
  <2> QED
    BY <1>b, <1>1, <2>1 DEF BoundIsIn
<1>2. CASE R!Boot \/ R!Destroyed
  <2>1. /\ UNCHANGED <<obj, auto, knocked, saving, file, handler>>
        /\ phase' \notin {"pairing", "keep", "up"}
    BY <1>2 DEF R!Boot, R!Destroyed
  <2> QED
    BY <1>1, <2>1
<1>3. CASE R!Serve
  <2>1. /\ UNCHANGED <<obj, auto, knocked, saving, file, handler>>
        /\ phase = "keep" /\ phase' = "up" /\ room' = fresh
    BY <1>3 DEF R!Serve
  <2>2. Current' = Current
    BY <2>1 DEF Current
  <2> QED
    BY <1>1, <2>1, <2>2
<1>4. CASE R!Clear \/ R!Repair
  <2>1. /\ R!Unlink /\ UNCHANGED <<obj, auto, knocked, handler, room, fresh>>
        /\ phase' = "load" \/ phase' = phase
    BY <1>4 DEF R!Clear, R!Repair
  <2>2. saving' \subseteq saving /\ ~file'.bound
    BY <2>1, UnlinkLoses DEF R!NoFile
  <2>3. phase' = phase => Current' = Current
    BY <2>1 DEF Current
  <2> QED
    BY <1>1, <2>1, <2>2, <2>3
<1>5. CASE R!RefreshJwt
  <2>1. /\ UNCHANGED <<phase, room, fresh, obj, file, knocked, handler, auto>>
        /\ saving' = saving \cup {R!Save("jwt", room)}
    BY <1>5 DEF R!RefreshJwt
  <2>2. R!Save("jwt", room).text = None
    BY DEF R!Save
  <2>3. IsIn(file)' /\ \A u \in saving' : u.text # None => IsIn(u.text)'
    BY <1>b, <2>1, <2>2, TextsStayIn
  <2>4. Current' = Current
    BY <2>1 DEF Current
  <2> QED
    BY <1>b, <2>1, <2>3, <2>4 DEF BoundIsIn
<1>6. CASE R!Load
  <2>1. phase = "load" /\ UNCHANGED <<room, file, knocked, handler, auto>>
    BY <1>6 DEF R!Load
  <2>2. CASE phase' = "create" /\ UNCHANGED <<fresh, obj, saving>>
    BY <1>1, <2>1, <2>2
  <2>3. CASE /\ file.room \in alive
             /\ fresh' = file.room /\ phase' = "keep"
             /\ obj' = [obj EXCEPT ![file.room] = [bound |-> file.bound, key |-> file.key]]
             /\ \/ saving' = saving \cup {R!Save("setup", file.room)}
                \/ UNCHANGED saving
    <3>1. /\ obj'[file.room].bound = file.bound /\ obj'[file.room].key = file.key
          /\ \A r \in Room \ {file.room} : obj'[r] = obj[r]
      BY <1>a, <2>3 DEF ControlType
    <3>2. Current = {} /\ Current' = {file.room} /\ file.room \in Room
      BY <1>a, <2>1, <2>3 DEF Current
    <3>3. \A s \in saving : s.text # None => s.text.room \in Room \ {file.room}
      BY <1>a, <2>3, <3>2
    <3>4. R!Save("setup", file.room).text = None
      BY DEF R!Save
    <3>5. IsIn(file)' /\ \A u \in saving' : u.text # None => IsIn(u.text)'
      BY <1>b, <2>1, <2>3, <3>1, <3>3, <3>4, TextsStayIn
    <3>6. \A r \in Room : obj'[r].bound => <<r, obj'[r].key>> \in auto
      BY <1>b, <3>1
    <3> QED
      BY <1>b, <2>1, <2>3, <3>2, <3>5, <3>6 DEF BoundIsIn
  <2> QED
    BY <1>6, <2>2, <2>3 DEF R!Load
<1>7. CASE R!End
  <2>1. /\ phase' = "down" /\ UNCHANGED <<obj, knocked, auto>> /\ saving' = {}
        /\ \A k \in KnockId : handler'[k] = "none"
    BY <1>7 DEF R!End
  <2>2. \/ file' = file \/ ~file'.bound
        \/ \E s \in saving : s.text # None /\ file' = s.text
    BY <1>7 DEF R!End, R!NoFile, R!Fixed
  <2>3. IsIn(file)'
    BY <1>b, <2>1, <2>2, TextsStayIn
  <2> QED
    BY <1>b, <2>1, <2>3 DEF BoundIsIn
<1>8. ASSUME NEW r \in Room, R!Create(r)
      PROVE  BoundIsIn'
  <2>1. /\ r \notin created /\ fresh' = r
        /\ obj' = [obj EXCEPT ![r] = [bound |-> FALSE, key |-> None]]
        /\ phase' \in {"keep", "pairing"}
        /\ saving' \subseteq saving \cup {R!Save("setup", r)}
        /\ UNCHANGED <<room, file, knocked, handler, auto>>
    BY <1>8 DEF R!Create, R!Unbound
  <2>2. /\ ~obj'[r].bound /\ \A q \in Room \ {r} : obj'[q] = obj[q]
    BY <2>1 DEF ControlType
  <2>3. file.bound => file.room \in Room \ {r}
    BY <1>a, <1>b, <2>1 DEF ControlType, FileType
  <2>4. \A s \in saving : s.text # None => s.text.room \in Room \ {r}
    BY <1>a, <2>1
  <2>5. R!Save("setup", r).text = None
    BY DEF R!Save
  <2>6. IsIn(file)' /\ \A u \in saving' : u.text # None => IsIn(u.text)'
    BY <1>b, <2>1, <2>2, <2>3, <2>4, <2>5, TextsStayIn
  <2>7. Current' \subseteq Room
    BY <2>1 DEF Current
  <2>8. \A q \in Room : obj'[q].bound => <<q, obj'[q].key>> \in auto'
    BY <1>b, <2>1, <2>2
  <2> QED
    BY <1>b, <2>1, <2>2, <2>6, <2>7, <2>8 DEF BoundIsIn
<1>9. ASSUME NEW s \in saving, R!FixText(s) \/ R!SaveLands(s)
      PROVE  BoundIsIn'
  <2>1. UNCHANGED <<phase, room, fresh, obj, knocked, handler, auto>>
    BY <1>9 DEF R!FixText, R!SaveLands
  <2>2. IsIn(file)' /\ \A u \in saving' : u.text # None => IsIn(u.text)'
    <3>1. CASE R!FixText(s)
      <4>1. s.room \in Room /\ file' = file
        BY <1>a, <3>1 DEF R!FixText
      <4>2. \A u \in saving' :
               \/ u.text = None
               \/ \E t \in saving : t.text # None /\ u.text = t.text
               \/ u.text = R!Saved(s.room)
        BY <3>1, TextIsFixed
      <4> QED
        BY <1>b, <2>1, <4>1, <4>2, TextsStayIn
    <3>2. CASE R!SaveLands(s)
      <4>1. saving' \subseteq saving /\ s.text # None /\ (file' = s.text \/ ~file'.bound)
        BY <3>2 DEF R!SaveLands, R!NoFile
      <4> QED
        BY <1>b, <2>1, <4>1, TextsStayIn
    <3> QED
      BY <1>9, <3>1, <3>2
  <2>3. Current' = Current
    BY <2>1 DEF Current
  <2> QED
    BY <1>b, <2>1, <2>2, <2>3 DEF BoundIsIn
<1>10. ASSUME NEW r \in Room, R!Disband(r)
       PROVE  BoundIsIn'
  <2>1. UNCHANGED <<phase, room, fresh, obj, saving, file, knocked, handler, auto>>
    BY <1>10 DEF R!Disband
  <2>2. Current' = Current
    BY <2>1 DEF Current
  <2> QED
    BY <1>1, <2>1, <2>2
<1>11. ASSUME NEW k \in KnockId, NEW d \in Key, R!SendKnock(k, d)
       PROVE  BoundIsIn'
  <2>1. /\ knocked[k].room = None
        /\ \A j \in KnockId \ {k} : knocked'[j] = knocked[j]
        /\ UNCHANGED <<phase, room, fresh, obj, saving, file, handler, auto>>
    BY <1>11 DEF R!SendKnock
  <2>2. handler[k] # "again"
    BY <2>1 DEF KnocksAreSent
  <2>3. IsIn(file)' /\ \A u \in saving' : u.text # None => IsIn(u.text)'
    BY <1>b, <2>1, TextsStayIn
  <2>4. Current' = Current
    BY <2>1 DEF Current
  <2> QED
    BY <1>b, <2>1, <2>2, <2>3, <2>4 DEF BoundIsIn
<1>12. ASSUME NEW k \in KnockId, R!OnKnock(k) \/ R!OnFirstKnock(k) \/ R!Resolve(k)
       PROVE  BoundIsIn'
  <2>1. /\ UNCHANGED <<phase, room, fresh, obj, saving, file, knocked, auto>>
        /\ \A j \in KnockId \ {k} : handler'[j] = handler[j]
    BY <1>12 DEF R!OnKnock, R!OnFirstKnock, R!Resolve, ControlType
  <2>2. handler'[k] = "again" =>
           \/ handler[k] = "again"
           \/ /\ phase = "up" /\ knocked[k].room = room
              /\ obj[room].bound /\ obj[room].key = knocked[k].dev
    BY <1>12 DEF R!OnKnock, R!OnFirstKnock, R!Resolve, ControlType
  <2>3. handler'[k] = "again" => <<knocked[k].room, knocked[k].dev>> \in auto
    BY <1>b, <2>2 DEF Current
  <2>4. IsIn(file)' /\ \A u \in saving' : u.text # None => IsIn(u.text)'
    BY <1>b, <2>1, TextsStayIn
  <2>5. Current' = Current
    BY <2>1 DEF Current
  <2> QED
    BY <1>b, <2>1, <2>3, <2>4, <2>5 DEF BoundIsIn
<1>13. ASSUME NEW k \in KnockId, R!Approved(k) \/ R!ApproveFails(k)
       PROVE  BoundIsIn'
  <2> DEFINE r == knocked[k].room
             d == knocked[k].dev
  <2>1. /\ handler[k] # "none" /\ handler' = [handler EXCEPT ![k] = "none"]
        /\ UNCHANGED <<room, fresh, file, alive, knocked>>
        /\ auto \subseteq auto'
    BY <1>13 DEF R!Approved, R!ApproveFails, R!LetIn
  <2>2. \A j \in KnockId : handler'[j] = "again" => handler[j] = "again"
    BY <2>1 DEF ControlType
  <2>3. CASE UNCHANGED <<obj, saving>> /\ phase' \in {phase, "exit"}
    <3>1. IsIn(file)' /\ \A u \in saving' : u.text # None => IsIn(u.text)'
      BY <1>b, <2>1, <2>3, TextsStayIn
    <3>2. phase' = phase => Current' = Current
      BY <2>1 DEF Current
    <3> HIDE DEF r, d
    <3> QED
      BY <1>b, <2>1, <2>2, <2>3, <3>1, <3>2 DEF BoundIsIn
  <2>4. ASSUME NEW by, R!Bind(k, by), r \in alive, <<r, d>> \in auto',
               \/ phase' = "keep" /\ fresh = r
               \/ phase' = "up" /\ phase = "up"
        PROVE  BoundIsIn'
    <3>1. /\ saving' = saving \cup {R!Save(by, r)} /\ r \in Room
          /\ obj' = [obj EXCEPT ![r] = [bound |-> TRUE, key |-> d]]
      BY <1>a, <2>4 DEF R!Bind
    <3>2. R!Save(by, r).text = None
      BY DEF R!Save
    <3> HIDE DEF r, d
    <3>3. /\ obj'[r].bound /\ obj'[r].key = d
          /\ \A q \in Room \ {r} : obj'[q] = obj[q]
      BY <3>1 DEF ControlType
    <3>4. \A s \in saving : s.text # None => s.text.room \in Room
      BY <1>a
    <3>5. IsIn(file)' /\ \A u \in saving' : u.text # None => IsIn(u.text)'
      BY <1>b, <2>1, <3>1, <3>2, <3>3, <3>4, TextsStayIn
    <3>6. \A q \in Room : obj'[q].bound => <<q, obj'[q].key>> \in auto'
      BY <1>b, <2>1, <2>4, <3>3
    <3>7. Current' \subseteq Room
      BY <1>b, <2>1, <2>4, <3>1 DEF Current
    <3> QED
      BY <1>b, <2>1, <2>2, <2>4, <3>5, <3>6, <3>7 DEF BoundIsIn
  <2>5. CASE handler[k] = "first" /\ R!Approved(k)
    <3>1. r \in alive /\ R!Bind(k, k) /\ phase' = phase /\ <<r, d>> \in auto'
      BY <2>5 DEF R!Approved, R!Pairs, R!LetIn
    <3>2. phase = "up"
      BY <2>5, <3>1 DEF OthersAreGone, HandlersAreCurrent
    <3> QED
      BY <2>4, <3>1, <3>2
  <2>6. CASE R!Pairs(k) /\ R!Approved(k)
    <3>1. handler[k] = "pairing" /\ fresh = r
      BY <2>6 DEF R!Pairs
    <3>2. /\ r \in alive /\ R!Bind(k, "setup") /\ phase' = "keep"
          /\ <<r, d>> \in auto'
      BY <2>6, <3>1 DEF R!Approved, R!LetIn
    <3> QED
      BY <2>4, <3>1, <3>2
  <2> QED
    BY <1>13, <2>3, <2>5, <2>6 DEF R!Approved, R!ApproveFails
<1> QED
  BY <1>2, <1>3, <1>4, <1>5, <1>6, <1>7, <1>8, <1>9, <1>10, <1>11, <1>12, <1>13 DEF R!Next

LEMMA ControlsKept ==
    ASSUME R!BoundAssumption, ControlInv, R!Next
    PROVE  ControlInv'
BY ControlTypeKept, KnocksStaySent, TapsWaitKept, OthersStayGone, BoundStaysIn DEF ControlInv

(* No knock is taken for the first once the file has the room's binding,    *)
(* and no device is let in unasked that was not, but by a handler that had. *)
LEMMA FirstIsFirst ==
    ASSUME R!BoundAssumption, ControlInv, R!Next, NEW k \in KnockId,
           knocked[k].room # None, file.room = knocked[k].room, file.bound
    PROVE  /\ handler'[k] \in R!First => handler[k] \in R!First
           /\ <<knocked[k].room, knocked[k].dev>> \in auto' \ auto =>
                \E i \in KnockId : knocked[i] = knocked[k] /\ handler[i] \in R!First
<1>a. ControlType /\ BoundIsIn /\ obj[file.room].bound
  BY DEF ControlInv, BoundIsIn, IsIn
<1> USE DEF R!proc, R!disk, R!relay, R!phones, R!ghosts, R!Handle, R!First
<1>1. CASE R!Boot \/ R!Load \/ R!Serve \/ R!RefreshJwt \/ R!Destroyed \/ R!Clear \/ R!Repair
  BY <1>1 DEF R!Boot, R!Load, R!Serve, R!RefreshJwt, R!Destroyed, R!Clear, R!Repair
<1>2. CASE R!End
  BY <1>2 DEF R!End
<1>3. CASE \/ \E r \in Room : R!Create(r) \/ R!Disband(r)
           \/ \E s \in saving : R!FixText(s) \/ R!SaveLands(s)
           \/ \E j \in KnockId, d \in Key : R!SendKnock(j, d)
  <2>1. UNCHANGED <<handler, auto>>
    BY <1>3 DEF R!Create, R!SaveLands, R!FixText, R!Disband, R!SendKnock
  <2> QED
    BY <2>1
<1>4. ASSUME NEW j \in KnockId, R!OnKnock(j) \/ R!OnFirstKnock(j) \/ R!Resolve(j)
      PROVE  UNCHANGED auto /\ (handler'[k] \in R!First => handler[k] \in R!First)
  <2>1. CASE R!OnKnock(j)
    BY <2>1, <1>a DEF R!OnKnock, ControlType
  <2>2. CASE R!OnFirstKnock(j)
    BY <2>2, <1>a DEF R!OnFirstKnock, ControlType, BoundIsIn
  <2>3. CASE R!Resolve(j)
    BY <2>3, <1>a DEF R!Resolve, ControlType
  <2> QED
    BY <1>4, <2>1, <2>2, <2>3
<1>5. ASSUME NEW j \in KnockId, R!Approved(j) \/ R!ApproveFails(j)
      PROVE  /\ handler'[k] \in R!First => handler[k] \in R!First
             /\ <<knocked[k].room, knocked[k].dev>> \in auto' \ auto =>
                  knocked[j] = knocked[k] /\ handler[j] \in R!First
  <2>1. /\ handler' = [handler EXCEPT ![j] = "none"] /\ handler[j] # "none"
        /\ \/ auto' = auto
           \/ /\ handler[j] # "tap"
              /\ auto' = auto \cup {<<knocked[j].room, knocked[j].dev>>}
    BY <1>5 DEF R!Approved, R!ApproveFails, R!LetIn
  <2>2. handler'[k] \in R!First => handler[k] \in R!First
    BY <1>a, <2>1 DEF ControlType
  <2>3. ASSUME <<knocked[k].room, knocked[k].dev>> \in auto' \ auto
        PROVE  knocked[j] = knocked[k] /\ handler[j] \in R!First
    <3>1. /\ handler[j] # "tap"
          /\ knocked[j].room = knocked[k].room /\ knocked[j].dev = knocked[k].dev
      BY <2>1, <2>3
    <3>2. handler[j] # "again"
      BY <1>a, <2>3, <3>1 DEF BoundIsIn
    <3>3. handler[j] \in {"none", "first", "again", "pairing", "tap"}
      BY <1>a DEF ControlType
    <3>4. knocked[j] = knocked[k]
      BY <1>a, <3>1 DEF ControlType
    <3> QED
      BY <2>1, <3>1, <3>2, <3>3, <3>4
  <2> QED
    BY <2>2, <2>3
<1> QED
  BY <1>1, <1>2, <1>3, <1>4, <1>5 DEF R!Next
-----------------------------------------------------------------------------
(* What is either true or false stays so.                                   *)
HostFlags ==
    /\ turns \in BOOLEAN /\ gone \in BOOLEAN /\ overlap \in BOOLEAN
    /\ cutoff \in {None, "early", "late", "asked"}
    /\ leaving \in BOOLEAN /\ mixed \in BOOLEAN /\ rough \in BOOLEAN

LEMMA UpdateFlagsKept ==
    ASSUME HostFlags, U!Next
    PROVE  /\ turns' \in BOOLEAN /\ gone' \in BOOLEAN /\ overlap' \in BOOLEAN
           /\ cutoff' \in {None, "early", "late", "asked"}
<1>a. turns \in BOOLEAN /\ gone \in BOOLEAN /\ overlap \in BOOLEAN
  BY DEF HostFlags
<1>b. cutoff \in {None, "early", "late", "asked"}
  BY DEF HostFlags
<1>1. ASSUME NEW u \in U!Run,
             \/ U!Begin(u) \/ U!Write(u) \/ U!Written(u) \/ U!Verify(u) \/ U!WaitIdle(u)
             \/ U!Drop(u) \/ U!Swap(u) \/ U!Exit(u) \/ U!Bounce(u)
      PROVE  /\ turns' = turns /\ (gone' = gone \/ gone' = TRUE)
             /\ overlap' = overlap \/ U!Touch(u)
             /\ cutoff' = cutoff \/ cutoff' = "asked"
  <2>1. CASE U!Begin(u)
    BY <2>1 DEF U!Begin
  <2>2. CASE U!Write(u)
    BY <2>2 DEF U!Write
  <2>3. CASE U!Written(u) \/ U!Verify(u) \/ U!WaitIdle(u)
    BY <2>3 DEF U!Written, U!Verify, U!WaitIdle
  <2>4. CASE U!Drop(u) \/ U!Swap(u) \/ U!Exit(u)
    BY <2>4 DEF U!Drop, U!Swap, U!Exit
  <2>5. CASE U!Bounce(u)
    BY <2>5 DEF U!Bounce
  <2> QED
    BY <1>1, <2>1, <2>2, <2>3, <2>4, <2>5
<1>2. ASSUME NEW u \in U!Run, U!Touch(u)
      PROVE  overlap' \in BOOLEAN
  BY <1>2, Zenon DEF U!Touch
<1>3. CASE U!TurnBegins \/ U!TurnEnds
  <2>1. /\ turns' \in BOOLEAN /\ UNCHANGED <<gone, overlap>>
        /\ cutoff' \in {cutoff, "late", "early"}
    BY <1>3 DEF U!TurnBegins, U!TurnEnds
  <2> QED
    BY ONLY <1>a, <1>b, <2>1
<1>4. CASE \E u \in U!Run :
             \/ U!Begin(u) \/ U!Write(u) \/ U!Written(u) \/ U!Verify(u) \/ U!WaitIdle(u)
             \/ U!Drop(u) \/ U!Swap(u) \/ U!Exit(u) \/ U!Bounce(u)
  <2>1. PICK u \in U!Run :
             \/ U!Begin(u) \/ U!Write(u) \/ U!Written(u) \/ U!Verify(u) \/ U!WaitIdle(u)
             \/ U!Drop(u) \/ U!Swap(u) \/ U!Exit(u) \/ U!Bounce(u)
    BY <1>4
  <2>2. /\ turns' = turns /\ (gone' = gone \/ gone' = TRUE)
        /\ overlap' = overlap \/ U!Touch(u)
        /\ cutoff' = cutoff \/ cutoff' = "asked"
    BY <1>1, <2>1
  <2>3. overlap' \in BOOLEAN
    BY <1>a, <1>2, <2>2, Zenon
  <2>4. turns' \in BOOLEAN /\ gone' \in BOOLEAN
    BY <1>a, <2>2, Zenon
  <2> QED
    BY <1>b, <2>2, <2>3, <2>4
<1> QED
  BY <1>3, <1>4 DEF U!Next

LEMMA ControlFlagsKept ==
    ASSUME leaving \in BOOLEAN, mixed \in BOOLEAN, ControlType, R!Next
    PROVE  leaving' \in BOOLEAN /\ mixed' \in BOOLEAN
<1>1. leaving' \in {leaving, TRUE, FALSE}
  BY DEF R!Next, R!Boot, R!Load, R!Create, R!Serve, R!FixText, R!SaveLands, R!RefreshJwt,
         R!Disband, R!Destroyed, R!Clear, R!SendKnock, R!OnKnock, R!OnFirstKnock, R!Approved,
         R!ApproveFails, R!Resolve, R!Repair, R!End, R!proc
<1>2. mixed' \in {mixed, FALSE} \/ \E s \in saving : mixed' = s.over
  BY DEF R!Next, R!Boot, R!Load, R!Create, R!Serve, R!FixText, R!SaveLands, R!RefreshJwt,
         R!Disband, R!Destroyed, R!Clear, R!SendKnock, R!OnKnock, R!OnFirstKnock, R!Approved,
         R!ApproveFails, R!Resolve, R!Repair, R!End, R!disk, R!Unlink
<1>3. \A s \in saving : s.over \in BOOLEAN
  BY DEF ControlType, SaveType
<1>4. leaving' \in BOOLEAN
  BY ONLY <1>1, leaving \in BOOLEAN
<1>5. mixed' \in BOOLEAN
  BY ONLY <1>2, <1>3, mixed \in BOOLEAN
<1> QED
  BY <1>4, <1>5

LEMMA RoughIsFlag ==
    ASSUME rough \in BOOLEAN, K!Next
    PROVE  rough' \in BOOLEAN
<1>1. \/ rough' = rough \/ rough' = TRUE
      \/ rough' = (rough \/ \E s \in Call : K!Busy(s))
  <2>1. CASE \E s \in Call :
               \/ K!Begin(s) \/ K!ReadManifest(s) \/ K!Remove(s) \/ K!Track(s) \/ K!Die(s)
               \/ \E f \in File : K!Write(s, f) \/ K!Examine(s, f)
    BY <2>1, Zenon DEF K!Begin, K!ReadManifest, K!Remove, K!Track, K!Die, K!Write, K!Examine,
                K!ghosts
  <2>2. CASE K!Uninstall
    BY <2>2, Zenon DEF K!Uninstall
  <2>3. CASE \E f \in File, to \in {K!Edited, None} : K!Edit(f, to)
    BY <2>3, Zenon DEF K!Edit
  <2> QED
    BY <2>1, <2>2, <2>3 DEF K!Next
<1> QED
  BY <1>1, Zenon
-----------------------------------------------------------------------------
(* The sum.                                                                 *)
HostInv ==
    /\ AdmissionInv /\ SocketInv /\ UpdateInv /\ ControlInv /\ TapInv /\ SyncInv
    /\ HostFlags

LEMMA HostBegins ==
    ASSUME HostInit
    PROVE  HostInv
<1>1. /\ Init /\ D!Init /\ U!Init /\ R!Init /\ T!Init /\ K!Init
      /\ D!NoneAssumption /\ U!RunsAssumption /\ R!BoundAssumption /\ K!BundleAssumption
  BY PartsAssumption DEF HostInit, PartsAssumption
<1>2. HostFlags
  BY <1>1 DEF U!Init, R!Init, K!Init, HostFlags
<1> QED
  BY <1>1, <1>2, AdmissionsBegin, SocketsBegin, UpdatesBegin, ControlsBegin, TapsBegin, SyncsBegin
     DEF HostInv

LEMMA AdmissionsStill == AdmissionInv /\ UNCHANGED admission => AdmissionInv'
BY DEF AdmissionInv, admission, TypeOK, FirstIsIn, BoundDeviceIsIn, BindingLasts, OneButton,
       OneTapOneAdmission

LEMMA SocketsStill == SocketInv /\ UNCHANGED socket => SocketInv'
BY SocketStays DEF SocketInv, socket, D!TypeOK, D!vars, SocketIsHeld

LEMMA UpdatesStill == UpdateInv /\ UNCHANGED update => UpdateInv'
BY DEF UpdateInv, update, UpdateType, StagedIsVerified, TurnsAreLate, U!Staging

LEMMA ControlsStill == ControlInv /\ UNCHANGED control => ControlInv'
<1> SUFFICES ASSUME ControlInv, UNCHANGED control PROVE ControlInv'
  OBVIOUS
<1> USE DEF control
<1>1. ControlType' /\ KnocksAreSent' /\ TapsWait'
  BY DEF ControlInv, ControlType, FileType, SaveType, KnocksAreSent, TapsWait
<1>2. HandlersAreCurrent' /\ SavesFollow' /\ FileFollows'
  BY DEF ControlInv, OthersAreGone, HandlersAreCurrent, SavesFollow, FileFollows, Current,
         R!Saved
<1>3. BoundIsIn'
  BY DEF ControlInv, BoundIsIn, IsIn, Current
<1> QED
  BY <1>1, <1>2, <1>3 DEF ControlInv, OthersAreGone

LEMMA TapsStill == TapInv /\ UNCHANGED menu => TapInv'
BY DEF TapInv, menu, T!TypeOK, YesIsHeld, Confirmed, HoldsAreSingle

LEMMA SyncsStill == SyncInv /\ UNCHANGED skill => SyncInv'
BY DEF SyncInv, skill, SyncType, Looking, Clean, K!Busy, K!WrittenIsTracked, Known

LEMMA HostKept ==
    ASSUME HostInv, [HostNext]_all
    PROVE  HostInv'
<1>1. /\ AdmissionInv /\ SocketInv /\ UpdateInv /\ ControlInv /\ TapInv /\ SyncInv /\ HostFlags
  BY DEF HostInv
<1>2. D!NoneAssumption /\ U!RunsAssumption /\ R!BoundAssumption /\ K!BundleAssumption
  BY PartsAssumption DEF PartsAssumption
<1>3. CASE UNCHANGED all
  <2>1. HostFlags'
    BY <1>1, <1>3 DEF all, update, control, skill, HostFlags
  <2> QED
    BY <1>1, <1>3, <2>1, AdmissionsStill, SocketsStill, UpdatesStill, ControlsStill, TapsStill,
       SyncsStill DEF all, HostInv
<1>4. CASE Admits(Next)
  <2>1. HostFlags'
    BY <1>1, <1>4 DEF Admits, update, control, skill, HostFlags
  <2> QED
    BY <1>1, <1>4, <2>1, AdmissionsKept, SocketsStill, UpdatesStill, ControlsStill, TapsStill,
       SyncsStill DEF Admits, HostInv
<1>5. CASE Hosts(D!Next)
  <2>1. HostFlags'
    BY <1>1, <1>5 DEF Hosts, update, control, skill, HostFlags
  <2> QED
    BY <1>1, <1>2, <1>5, <2>1, AdmissionsStill, SocketsKept, UpdatesStill, ControlsStill,
       TapsStill, SyncsStill DEF Hosts, HostInv
<1>6. CASE Updates(U!Next)
  <2>1. HostFlags'
    BY <1>1, <1>6, UpdateFlagsKept DEF Updates, control, skill, HostFlags
  <2> QED
    BY <1>1, <1>2, <1>6, <2>1, AdmissionsStill, SocketsStill, UpdatesKept, ControlsStill,
       TapsStill, SyncsStill DEF Updates, HostInv
<1>7. CASE Controls(R!Next)
  <2>1. HostFlags'
    BY <1>1, <1>7, ControlFlagsKept DEF Controls, ControlInv, update, skill, HostFlags
  <2> QED
    BY <1>1, <1>2, <1>7, <2>1, AdmissionsStill, SocketsStill, UpdatesStill, ControlsKept,
       TapsStill, SyncsStill DEF Controls, HostInv
<1>8. CASE Tapping(T!Next)
  <2>1. HostFlags'
    BY <1>1, <1>8 DEF Tapping, update, control, skill, HostFlags
  <2> QED
    BY <1>1, <1>8, <2>1, AdmissionsStill, SocketsStill, UpdatesStill, ControlsStill, TapsKept,
       SyncsStill DEF Tapping, HostInv
<1>9. CASE Syncs(K!Next)
  <2>1. HostFlags'
    BY <1>1, <1>9, RoughIsFlag DEF Syncs, update, control, HostFlags
  <2> QED
    BY <1>1, <1>2, <1>9, <2>1, AdmissionsStill, SocketsStill, UpdatesStill, ControlsStill,
       TapsStill, SyncsKept DEF Syncs, HostInv
<1> QED
  BY <1>3, <1>4, <1>5, <1>6, <1>7, <1>8, <1>9 DEF HostNext

LEMMA SpecSteps == HostSpec => HostInit /\ [][HostNext]_all
BY PTL DEF HostSpec

(* The invariants of the parts hold throughout.                             *)
THEOREM InvariantHolds == HostSpec => []HostInv
<1>1. HostInit /\ [][HostNext]_all => []HostInv
  BY HostBegins, HostKept, PTL
<1> QED
  BY <1>1, SpecSteps, PTL

(* Every part's variables keep their types, whatever the bounds.            *)
THEOREM TypesHold == HostSpec => []AllTypesOK
<1>1. HostInv => AllTypesOK
  <2> SUFFICES ASSUME HostInv PROVE AllTypesOK
    OBVIOUS
  <2>a. HostFlags
    BY DEF HostInv
  <2>1. TypeOK /\ D!TypeOK /\ T!TypeOK
    BY DEF HostInv, AdmissionInv, SocketInv, TapInv
  <2>2. U!TypeOK
    BY <2>a DEF HostInv, UpdateInv, UpdateType, HostFlags, U!TypeOK
  <2>3. R!TypeOK
    <3>1. ControlType
      BY DEF HostInv, ControlInv
    <3>2. leaving \in BOOLEAN /\ mixed \in BOOLEAN
      BY <2>a DEF HostFlags
    <3>3. {room, fresh} \subseteq Room \cup {None}
      BY <3>1 DEF ControlType
    <3>4. FileType \subseteq [room : Room \cup {None}, bound : BOOLEAN, key : Key \cup {None}]
      BY <3>1 DEF ControlType, FileType
    <3>5. {file} \cup {s.text : s \in R!Fixed} \subseteq FileType
      BY <3>1 DEF ControlType, SaveType, R!Fixed
    <3>6. \A s \in saving : s.by \in R!Saver /\ s.room \in Room
      BY <3>1 DEF ControlType, SaveType
    <3> QED
      BY <3>1, <3>2, <3>3, <3>4, <3>5, <3>6 DEF ControlType, R!TypeOK
  <2>4. K!TypeOK
    BY <2>a DEF HostInv, SyncInv, SyncType, HostFlags, K!TypeOK
  <2> QED
    BY <2>1, <2>2, <2>3, <2>4 DEF AllTypesOK
<1> QED
  BY <1>1, InvariantHolds, PTL

(* What is installed is whole and verified until two runs of the updater    *)
(* meet in its file, and the daemon is ended upon no turn it could see.     *)
THEOREM InstallsAreSafe == HostSpec => []UpdatesAreSafe
<1>1. HostInv => UpdatesAreSafe
  <2> SUFFICES ASSUME HostInv PROVE UpdatesAreSafe
    OBVIOUS
  <2>1. StagedIsVerified /\ TurnsAreLate /\ HostFlags
    BY DEF HostInv, UpdateInv
  <2>2. U!InstalledIsVerified
    BY <2>1 DEF StagedIsVerified, U!InstalledIsVerified
  <2>3. U!ExitSparesTurns
    BY <2>1 DEF TurnsAreLate, U!ExitSparesTurns
  <2> QED
    BY <2>2, <2>3 DEF UpdatesAreSafe
<1> QED
  BY <1>1, InvariantHolds, PTL

(* However starts, handovers, updates and crashes cross, one daemon answers *)
(* the phone until one has lost its socket to another's unlink; and one     *)
(* that closes leaves another's socket where it is.                         *)
THEOREM OneDaemonAnswers == HostSpec => SocketIsOwned
<1>1. HostInv => D!OneAnswers
  BY OwnerAnswers DEF HostInv
<1>2. [HostNext]_all => [D!Next]_D!vars
  BY DEF HostNext, all, socket, D!vars, D!files, D!manager, Admits, Hosts, Updates, Controls,
         Tapping, Syncs
<1>3. HostInv /\ [HostNext]_all =>
        [\A p, q \in Process :
           (proc[p] = "closing" /\ proc'[p] # "closing" /\ path = q /\ q \in listening /\ q # p)
              => (path' = q)]_D!vars
  BY <1>2, CloseSpares DEF HostInv
<1>4. HostSpec => D!CloseSparesOthers
  BY <1>3, InvariantHolds, SpecSteps, PTL DEF D!CloseSparesOthers
<1> QED
  BY <1>1, <1>4, InvariantHolds, PTL DEF SocketIsOwned

(* While the file remembers whom a control room is bound to, nobody is let  *)
(* in unasked but by a handler that had judged the room unbound; a parked   *)
(* device is let in once for each tap; and the file names the room that the *)
(* daemon serves, with its binding, but for a text that landed when another *)
(* was under way.                                                           *)
THEOREM AdmissionsEarned == HostSpec => AdmissionsAreEarned
<1>1. HostInv => BoundDeviceIsIn /\ BindingLasts /\ OneTapOneAdmission
  BY DEF HostInv, AdmissionInv, FirstIsIn, OneButton
<1>2. HostInv => R!OneAdmissionPerTap /\ R!FileNamesRoom
  <2> SUFFICES ASSUME HostInv PROVE R!OneAdmissionPerTap /\ R!FileNamesRoom
    OBVIOUS
  <2>1. ControlType /\ OthersAreGone
    BY DEF HostInv, ControlInv
  <2>2. R!OneAdmissionPerTap
    BY <2>1 DEF ControlType, R!OneAdmissionPerTap
  <2>3. R!FileNamesRoom
    <3> SUFFICES ASSUME phase = "up", saving = {}, ~mixed, file.room \in alive
                 PROVE  file = R!Saved(room)
      BY DEF R!FileNamesRoom
    <3>1. file.room = room /\ Current = {room}
      BY <2>1 DEF OthersAreGone, FileFollows, Current
    <3> QED
      BY <2>1, <3>1 DEF OthersAreGone, FileFollows
  <2> QED
    BY <2>2, <2>3
<1>3. [HostNext]_all => [R!Next]_R!vars
  BY DEF HostNext, all, control, R!vars, R!proc, R!disk, R!relay, R!phones, R!ghosts, Admits,
         Hosts, Updates, Controls, Tapping, Syncs
<1>4. R!BoundAssumption
  BY PartsAssumption DEF PartsAssumption
<1>5. HostInv /\ [HostNext]_all =>
        [\A k \in KnockId :
           LET r == knocked[k].room  d == knocked[k].dev IN
           r # None /\ file.room = r /\ file.bound =>
              /\ handler'[k] \in R!First => handler[k] \in R!First
              /\ <<r, d>> \in auto' \ auto =>
                   \E i \in KnockId : knocked[i] = knocked[k] /\ handler[i] \in R!First]_R!vars
  BY <1>3, <1>4, FirstIsFirst DEF HostInv
<1>6. HostSpec => R!BindingIsKept
  BY <1>5, InvariantHolds, SpecSteps, PTL DEF R!BindingIsKept
<1> QED
  BY <1>1, <1>2, <1>6, InvariantHolds, PTL DEF AdmissionsAreEarned

(* Whatever is tapped, held, cancelled, lost or repeated, an agent is       *)
(* stopped only by a hold on its own dialog that came to its end, and a     *)
(* dialog answers once unless two holds met in it.                          *)
THEOREM TapsMeanWhatTheySay == HostSpec => TapsAreSound
<1>1. HostInv => T!OneAnswer
  BY DEF HostInv, TapInv, HoldsAreSingle, T!OneAnswer
<1>2. [HostNext]_all => [T!Next]_T!vars
  BY DEF HostNext, all, menu, T!vars, T!phone, T!ghosts, Admits, Hosts, Updates, Controls,
         Tapping, Syncs
<1>3. HostInv /\ [HostNext]_all =>
        [\A a \in Agent : agents[a] # "stopped" /\ agents'[a] = "stopped" => a \in held]_T!vars
  BY <1>2, OnlyHoldsStop DEF HostInv
<1>4. HostSpec => T!StopsAreConfirmed
  BY <1>3, InvariantHolds, SpecSteps, PTL DEF T!StopsAreConfirmed
<1> QED
  BY <1>1, <1>4, InvariantHolds, PTL DEF TapsAreSound

(* Of any number of files and versions, what a sync wrote is in the         *)
(* manifest with its content until a run is killed or two cross; and a file *)
(* of the operator's goes only where the version bundles one of that name.  *)
THEOREM SkillsTracked == HostSpec => SkillsAreTracked
<1>1. HostInv => K!WrittenIsTracked
  BY DEF HostInv, SyncInv, Clean, K!WrittenIsTracked
<1>2. [HostNext]_all => [K!Next]_K!vars
  BY DEF HostNext, all, skill, K!vars, K!run, K!ghosts, Admits, Hosts, Updates, Controls,
         Tapping, Syncs
<1>3. K!BundleAssumption
  BY PartsAssumption DEF PartsAssumption
<1>4. HostInv /\ [HostNext]_all =>
        [\A f \in File : skills[f] = K!Edited /\ skills'[f] # K!Edited =>
           \/ \E s \in Call :
                (doomed[s] = f /\ f \in late) \/ (sync[s] = "write" /\ f \in Bundle[version[s]])
           \/ K!Uninstall \/ K!Edit(f, None)]_K!vars
  BY <1>2, <1>3, SyncsSpare DEF HostInv, SyncInv
<1>5. HostSpec => K!EditsLast
  BY <1>4, InvariantHolds, SpecSteps, PTL DEF K!EditsLast
<1> QED
  BY <1>1, <1>5, InvariantHolds, PTL DEF SkillsAreTracked
=============================================================================
