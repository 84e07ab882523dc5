-------------------------- MODULE MembershipProofs --------------------------
(***************************************************************************)
(* Theorems about Membership, for any requests and tokens and any lengths  *)
(* of the lifetimes and throttles.                                         *)
(*                                                                         *)
(* The argument.  An active row is an owner's: a creation mints its token  *)
(* owned, and the update of a claim activates only a row that is pending.  *)
(* So whoever passed an admission is an owner for good, even if its row    *)
(* goes while the request runs.  A row that is not active has never been   *)
(* touched.  A touch that finds the presence row fresh leaves its last_seen *)
(* less than Fresh behind; one that writes leaves its own reading of the   *)
(* clock, at most Wait behind any other; so what a wait for the lock does  *)
(* not use up of the lifetime is the bearer's.                             *)
(***************************************************************************)
EXTENDS Membership, TLAPS

(* The operations a request at a label may be, with a token where it has    *)
(* one.                                                                     *)
OpsAt(label) ==
    CASE label \in {"probe", "insertRoom"} -> {"create"}
      [] label = "mint" -> {"create", "approve"}
      [] label \in {"admitAny", "read", "claim"} -> {"presence"}
      [] label = "act" -> {"member"}
      [] label \in {"drop", "dropPresence"} -> {"leave"}
      [] label = "deleteRoom" -> {"disband"}
      [] label \in {"touch", "check", "upsert"} -> {"create", "approve", "member", "presence"}
      [] label = "admit" -> {"approve", "member", "leave", "disband"}
      [] OTHER -> AllOps \cup {"none"}

NeedsToken(r) ==
    \/ pc[r] \in {"admit", "admitAny", "read", "claim", "touch", "check", "upsert", "act",
                  "drop", "dropPresence", "deleteRoom", "reply"}
    \/ pc[r] = "mint" /\ job[r].op = "approve"

Carries ==
    /\ \A r \in Req : job[r].op \in OpsAt(pc[r])
    /\ \A r \in Req : NeedsToken(r) => token[r] \in Token /\ row[token[r]] # "unminted"
    /\ \A t \in known : row[t] # "unminted"

(* An active row is an owner's, and an owner's row is active or removed.    *)
OwnersAreActive ==
    \A t \in Token : /\ row[t] = "active" => t \in owned
                     /\ t \in owned => row[t] \in {"active", "removed"}

Touching(r) == pc[r] \in {"touch", "check", "upsert"}

(* A request past its admission bears an owner's token.                     *)
PastAdmission == \A r \in Req : ActsAsMember(r) \/ Touching(r) => token[r] \in owned

(* A claim under way read a pending row; a leave under way has removed its  *)
(* own.                                                                     *)
ClaimsPending ==
    \A r \in Req : /\ pc[r] = "claim" => read[r] = "pending"
                   /\ pc[r] = "dropPresence" => row[token[r]] = "removed"

(* A clock reading under way is at most Wait old, and none is ahead.        *)
StampsAreRecent ==
    /\ \A r \in Req : pc[r] \in {"check", "upsert"} => stamp[r] <= now /\ now <= stamp[r] + Wait
    /\ \A t \in Token : touched[t] <= now

(* A touch leaves last_seen less than Fresh, or at most Wait, behind, and   *)
(* only owners touch.                                                       *)
NearlySeen(t) ==
    touched[t] > 0 =>
        t \in owned /\ (touched[t] < seenAt[t] + Fresh \/ touched[t] <= seenAt[t] + Wait)
TouchIsFresh == \A t \in Token : NearlySeen(t)

IInv ==
    /\ TypeOK /\ Carries /\ OwnersAreActive /\ PastAdmission /\ ClaimsPending
    /\ StampsAreRecent /\ TouchIsFresh /\ NoGhosts /\ CountedWhilePinging
-----------------------------------------------------------------------------
LEMMA InitIInv == Init => IInv
<1> SUFFICES ASSUME Init PROVE IInv
  OBVIOUS
<1>1. TypeOK
  BY DEF Init, TypeOK, Rows, PCs
<1>2. Carries
  BY DEF Init, Carries, OpsAt, NeedsToken, NoJob, AllOps
<1>3. OwnersAreActive /\ PastAdmission /\ ClaimsPending
  BY DEF Init, OwnersAreActive, PastAdmission, ActsAsMember, Touching,
         ClaimsPending
<1>4. StampsAreRecent /\ TouchIsFresh /\ NoGhosts /\ CountedWhilePinging
  BY DEF Init, StampsAreRecent, TouchIsFresh, NearlySeen, NoGhosts, CountedWhilePinging, HasRow
<1> QED
  BY <1>1, <1>2, <1>3, <1>4 DEF IInv

(* The steps one by one.                                                    *)
LEMMA Steps ==
    ASSUME Next
    PROVE  \/ \E r \in Req : \E j \in Jobs, t \in Token \cup {NoToken} : Arrive(r, j, t)
           \/ \E r \in Req :
               \/ Admit(r) \/ Refuse(r) \/ Act(r)
               \/ ReadClock(r) \/ Check(r) \/ Upsert(r)
               \/ Probe(r) \/ InsertRoom(r) \/ Mint(r) \/ Reply(r)
               \/ AdmitAny(r) \/ ReadClaim(r) \/ Burn(r) \/ Activate(r)
               \/ Drop(r) \/ DropPresence(r) \/ DeleteRoom(r)
               \/ SweepPresence(r) \/ SweepPending(r) \/ Die(r)
           \/ Tick
BY DEF Next, Step, Claim, Sweep

LEMMA TypeKept == IInv /\ [Next]_vars => TypeOK'
<1> SUFFICES ASSUME IInv, [Next]_vars PROVE TypeOK'
  OBVIOUS
<1> USE DEF IInv, TypeOK, Go, PCs, Rows, rooms, participants, presence, sweeps, ghosts, mine
<1>1. ASSUME NEW r \in Req, NEW j \in Jobs, NEW t \in Token \cup {NoToken}, Arrive(r, j, t)
      PROVE  TypeOK'
  BY <1>1 DEF Arrive
<1>2. ASSUME NEW r \in Req, Admit(r) \/ Refuse(r) \/ Act(r) \/ Die(r) PROVE TypeOK'
  BY <1>2 DEF Admit, Refuse, Act, Die
<1>3. ASSUME NEW r \in Req, ReadClock(r) \/ Check(r) \/ Upsert(r) PROVE TypeOK'
  BY <1>3 DEF ReadClock, Check, Upsert, Touched, Carries, NeedsToken
<1>4. ASSUME NEW r \in Req, Probe(r) \/ InsertRoom(r) PROVE TypeOK'
  BY <1>4 DEF Probe, InsertRoom
<1>5. ASSUME NEW r \in Req, Mint(r) PROVE TypeOK'
  BY <1>5 DEF Mint
<1>6. ASSUME NEW r \in Req, Reply(r) PROVE TypeOK'
  BY <1>6 DEF Reply, Carries, NeedsToken
<1>7. ASSUME NEW r \in Req, AdmitAny(r) \/ ReadClaim(r) PROVE TypeOK'
  BY <1>7 DEF AdmitAny, ReadClaim, Carries, NeedsToken
<1>8. ASSUME NEW r \in Req, Burn(r) \/ Activate(r) PROVE TypeOK'
  BY <1>8 DEF Burn, Activate, Carries, NeedsToken
<1>9. ASSUME NEW r \in Req, Drop(r) \/ DropPresence(r) \/ DeleteRoom(r) PROVE TypeOK'
  BY <1>9 DEF Drop, DropPresence, DeleteRoom
<1>10. ASSUME NEW r \in Req, SweepPresence(r) \/ SweepPending(r) PROVE TypeOK'
  BY <1>10 DEF SweepPresence, SweepPending
<1>11. CASE Tick
  BY <1>11 DEF Tick
<1>12. CASE UNCHANGED vars
  BY <1>12 DEF vars
<1> QED
  BY <1>1, <1>2, <1>3, <1>4, <1>5, <1>6, <1>7, <1>8, <1>9, <1>10, <1>11, <1>12, Steps

(* What any step does to the participants rows and to the owners: a row is  *)
(* minted for a request that creates or approves, activated for a claim     *)
(* with the right tag, or removed; and owners stay owners.                  *)
LEMMA RowsMove ==
    ASSUME IInv, [Next]_vars, NEW t \in Token
    PROVE  /\ row[t] # "unminted" => row'[t] # "unminted"
           /\ row[t] = "removed" => row'[t] = "removed"
           /\ row[t] = "active" => row'[t] \in {"active", "removed"}
           /\ owned \subseteq owned'
           /\ row'[t] = "active" => row[t] = "active" \/ t \in owned'
           /\ t \in owned' => t \in owned \/ row'[t] \in {"active", "removed"}
<1> USE DEF IInv, TypeOK, rooms, participants, presence, sweeps, ghosts, mine, Rows
<1>1. ASSUME NEW r \in Req, Mint(r)
      PROVE  /\ row[t] # "unminted" => row'[t] = row[t]
             /\ owned \subseteq owned'
             /\ row'[t] = "active" => row[t] = "active" \/ t \in owned'
             /\ t \in owned' => t \in owned \/ row'[t] = "active"
  BY <1>1 DEF Mint
<1>2. ASSUME NEW r \in Req, Burn(r) \/ Drop(r)
      PROVE  owned' = owned /\ row'[t] \in {row[t], "removed"}
  BY <1>2 DEF Burn, Drop
<1>3. ASSUME NEW r \in Req, Activate(r)
      PROVE  /\ owned' = owned \cup {token[r]} /\ row[token[r]] # "unminted"
             /\ row'[t] = IF t = token[r] /\ row[t] = "pending" THEN "active" ELSE row[t]
  BY <1>3 DEF Activate, Carries, NeedsToken
<1>4. ASSUME NEW r \in Req, DeleteRoom(r) \/ SweepPending(r)
      PROVE  /\ owned' = owned /\ row'[t] \in {row[t], "removed"}
             /\ row[t] = "unminted" => row'[t] = row[t]
  BY <1>4 DEF DeleteRoom, SweepPending, HasRow, Overdue
<1>5. \/ UNCHANGED <<row, owned>>
      \/ \E r \in Req : \/ Mint(r) \/ Burn(r) \/ Drop(r) \/ Activate(r)
                        \/ DeleteRoom(r) \/ SweepPending(r)
  BY Steps DEF vars, Arrive, Admit, Refuse, Act, ReadClock, Check, Upsert, Touched, Probe,
               InsertRoom, Reply, AdmitAny, ReadClaim, DropPresence, SweepPresence, Die, Tick
<1>6. CASE UNCHANGED <<row, owned>>
  BY <1>6 DEF OwnersAreActive
<1>7. CASE \E r \in Req : Mint(r)
  BY <1>1, <1>7
<1>8. CASE \E r \in Req : Burn(r) \/ Drop(r) \/ DeleteRoom(r) \/ SweepPending(r)
  BY <1>2, <1>4, <1>8
<1>9. CASE \E r \in Req : Activate(r)
  BY <1>3, <1>9
<1> QED
  BY <1>5, <1>6, <1>7, <1>8, <1>9

LEMMA OwnersKept == IInv /\ [Next]_vars => OwnersAreActive'
<1> SUFFICES ASSUME IInv, [Next]_vars, NEW t \in Token
             PROVE  /\ row'[t] = "active" => t \in owned'
                    /\ t \in owned' => row'[t] \in {"active", "removed"}
  BY DEF OwnersAreActive
<1> QED
  BY RowsMove DEF IInv, OwnersAreActive

(* A request at work moves on its own.                                      *)
Alone(r) ==
    \A q \in Req \ {r} : /\ pc'[q] = pc[q] /\ job'[q] = job[q]
                        /\ token'[q] = token[q] /\ read'[q] = read[q]

LEMMA CarriesKept == IInv /\ [Next]_vars => Carries' /\ PastAdmission' /\ ClaimsPending'
<1> SUFFICES ASSUME IInv, [Next]_vars PROVE Carries' /\ PastAdmission' /\ ClaimsPending'
  OBVIOUS
<1> USE DEF rooms, participants, presence, sweeps, ghosts, mine
<1> DEFINE Good(r) ==
             /\ job[r].op \in OpsAt(pc[r])
             /\ NeedsToken(r) => token[r] \in Token /\ row[token[r]] # "unminted"
             /\ ActsAsMember(r) \/ Touching(r) => token[r] \in owned
             /\ pc[r] = "claim" => read[r] = "pending"
             /\ pc[r] = "dropPresence" => row[token[r]] = "removed"
<1>1. \A r \in Req : Good(r)
  BY DEF IInv, Carries, PastAdmission, ClaimsPending
<1>2. \A t \in Token : /\ row[t] # "unminted" => row'[t] # "unminted"
                       /\ row[t] = "removed" => row'[t] = "removed"
  BY RowsMove
<1>3. owned \subseteq owned'
  <2>1. \A t \in owned : t \in owned'
    BY RowsMove DEF IInv, TypeOK
  <2> QED
    BY <2>1
<1>4. ASSUME NEW r \in Req, pc'[r] = pc[r], job'[r] = job[r], token'[r] = token[r],
             read'[r] = read[r]
      PROVE  Good(r)'
  BY <1>1, <1>2, <1>3, <1>4 DEF NeedsToken, ActsAsMember, Touching
<1> HIDE DEF Good
<1>5. ASSUME NEW r \in Req, Good(r)', Alone(r), known' = known
      PROVE  Carries' /\ PastAdmission' /\ ClaimsPending'
  <2>1. \A q \in Req : Good(q)'
    BY <1>4, <1>5 DEF Alone
  <2>2. \A t \in known' : row'[t] # "unminted"
    BY <1>2, <1>5 DEF IInv, Carries, TypeOK
  <2> USE DEF Good
  <2> QED
    BY <2>1, <2>2 DEF Carries, PastAdmission, ClaimsPending
<1>6. ASSUME NEW r \in Req, NEW j \in Jobs, NEW t \in Token \cup {NoToken}, Arrive(r, j, t)
      PROVE  Good(r)' /\ Alone(r) /\ known' = known
  <2>1. /\ pc'[r] = CASE j.op = "create" -> "probe"
                     [] j.op = "look" -> "sweepPresence"
                     [] j.op = "presence" -> "admitAny"
                     [] OTHER -> "admit"
        /\ job'[r] = j /\ token'[r] = t /\ UNCHANGED <<row, known>>
        /\ j.op \notin {"create", "look"} => t \in known
    BY <1>6 DEF Arrive, Go, IInv, TypeOK
  <2>2. j.op \in AllOps
    BY OpsAssumption DEF Jobs, AllOps
  <2>3. t \in known => t \in Token /\ row[t] # "unminted"
    BY DEF IInv, TypeOK, Carries
  <2>4. Good(r)'
    BY <2>1, <2>2, <2>3 DEF Good, OpsAt, NeedsToken, ActsAsMember, Touching, AllOps
  <2>5. Alone(r)
    BY <1>6 DEF Arrive, Go, Alone, IInv, TypeOK
  <2> QED
    BY <2>1, <2>4, <2>5
<1> DEFINE Moved(r) ==
             /\ Alone(r) /\ known' = known
             /\ job'[r] = job[r] /\ token'[r] = token[r]
(* The steps after which the request bears the same token.                  *)
<1>7. ASSUME NEW r \in Req, Admit(r) \/ Refuse(r) \/ Act(r) \/ Die(r)
      PROVE  Good(r)' /\ Moved(r)
  <2>1. Moved(r) /\ UNCHANGED <<row, owned>>
    BY <1>7 DEF Admit, Refuse, Act, Die, Go, Alone, IInv, TypeOK
  <2>2. CASE Admit(r)
    <3>1. /\ pc[r] = "admit" /\ row[token[r]] = "active"
          /\ pc'[r] = CASE job[r].op = "approve" -> "touch"
                       [] job[r].op = "member" -> "act"
                       [] job[r].op = "leave" -> "drop"
                       [] OTHER -> "deleteRoom"
      BY <2>2 DEF Admit, Admitted, Go, IInv, TypeOK
    <3>2. token[r] \in Token /\ token[r] \in owned
      BY <1>1, <3>1 DEF Good, NeedsToken, IInv, OwnersAreActive
    <3> QED
      BY <1>1, <2>1, <3>1, <3>2 DEF Good, OpsAt, NeedsToken, ActsAsMember, Touching
  <2>3. CASE Act(r)
    <3>1. pc[r] = "act" /\ pc'[r] = "touch"
      BY <2>3 DEF Act, Go, IInv, TypeOK
    <3> QED
      BY <1>1, <2>1, <3>1 DEF Good, OpsAt, NeedsToken, ActsAsMember, Touching
  <2>4. CASE Refuse(r) \/ Die(r)
    <3>1. pc'[r] \in {"refused", "failed"}
      BY <2>4 DEF Refuse, Die, Go, IInv, TypeOK
    <3>2. job[r].op \in AllOps \cup {"none"}
      <4>1. job[r] \in Jobs \/ job[r] = NoJob
        BY DEF IInv, TypeOK
      <4>2. \A j \in Jobs : j.op \in Ops
        BY DEF Jobs
      <4> QED
        BY <4>1, <4>2, OpsAssumption DEF NoJob
    <3> QED
      BY <2>1, <3>1, <3>2 DEF Good, OpsAt, NeedsToken, ActsAsMember, Touching
  <2> QED
    BY <1>7, <2>1, <2>2, <2>3, <2>4
<1>8. ASSUME NEW r \in Req, ReadClock(r) \/ Check(r) \/ Upsert(r) PROVE Good(r)' /\ Moved(r)
  <2>1. Moved(r) /\ UNCHANGED <<row, owned>>
    BY <1>8 DEF ReadClock, Check, Upsert, Touched, Go, Alone, IInv, TypeOK
  <2>2. /\ Touching(r)
        /\ \/ pc'[r] \in {"check", "upsert", "failed"}
           \/ pc'[r] = CASE job[r].op = "approve" -> "mint"
                        [] job[r].op = "presence" -> "sweepPresence"
                        [] OTHER -> "reply"
    BY <1>8 DEF ReadClock, Check, Upsert, Touched, Touching, Go, IInv, TypeOK
  <2> QED
    BY <1>1, <2>1, <2>2 DEF Good, OpsAt, NeedsToken, ActsAsMember, Touching, AllOps
<1>9. ASSUME NEW r \in Req, Probe(r) \/ InsertRoom(r) PROVE Good(r)' /\ Moved(r)
  <2>1. Moved(r) /\ UNCHANGED <<row, owned>>
    BY <1>9 DEF Probe, InsertRoom, Go, Alone, IInv, TypeOK
  <2>2. /\ pc[r] \in {"probe", "insertRoom"}
        /\ pc'[r] \in {"sweepPresence", "insertRoom", "failed", "mint"}
    BY <1>9 DEF Probe, InsertRoom, Go, IInv, TypeOK
  <2> QED
    BY <1>1, <2>1, <2>2 DEF Good, OpsAt, NeedsToken, ActsAsMember, Touching, AllOps
<1>10. ASSUME NEW r \in Req, AdmitAny(r) \/ ReadClaim(r) PROVE Good(r)' /\ Moved(r)
  <2>1. Moved(r) /\ UNCHANGED <<row, owned>>
    BY <1>10 DEF AdmitAny, ReadClaim, Go, Alone, IInv, TypeOK
  <2>2. /\ pc[r] \in {"admitAny", "read"}
        /\ \/ pc'[r] \in {"read", "refused"}
           \/ pc'[r] = "claim" /\ read'[r] = "pending"
           \/ pc'[r] = "touch" /\ row[token[r]] = "active"
    BY <1>10 DEF AdmitAny, ReadClaim, Go, IInv, TypeOK
  <2>3. token[r] \in Token /\ (row[token[r]] = "active" => token[r] \in owned)
    BY <1>1, <2>2 DEF Good, NeedsToken, IInv, OwnersAreActive
  <2> QED
    BY <1>1, <2>1, <2>2, <2>3 DEF Good, OpsAt, NeedsToken, ActsAsMember, Touching, AllOps
<1>11. ASSUME NEW r \in Req, Burn(r) \/ Activate(r) PROVE Good(r)' /\ Moved(r)
  <2>1. Moved(r)
    BY <1>11 DEF Burn, Activate, Go, Alone, IInv, TypeOK
  <2>2. /\ pc[r] = "claim"
        /\ pc'[r] = "refused" \/ (pc'[r] = "touch" /\ token[r] \in owned')
    BY <1>11 DEF Burn, Activate, Go, IInv, TypeOK
  <2> QED
    BY <1>1, <1>2, <2>1, <2>2 DEF Good, OpsAt, NeedsToken, ActsAsMember, Touching, AllOps
<1>12. ASSUME NEW r \in Req, Drop(r) \/ DropPresence(r) \/ DeleteRoom(r)
       PROVE  Good(r)' /\ Moved(r)
  <2>1. Moved(r)
    BY <1>12 DEF Drop, DropPresence, DeleteRoom, Go, Alone, IInv, TypeOK
  <2>2. token[r] \in Token /\ token[r] \in owned
    BY <1>1, <1>12 DEF Good, NeedsToken, ActsAsMember, Drop, DropPresence, DeleteRoom
  <2>3. /\ pc[r] \in {"drop", "dropPresence", "deleteRoom"}
        /\ \/ pc'[r] = "done"
           \/ pc[r] = "drop" /\ pc'[r] = "dropPresence" /\ row'[token[r]] = "removed"
    BY <1>12, <2>2 DEF Drop, DropPresence, DeleteRoom, Go, IInv, TypeOK
  <2> QED
    BY <1>1, <1>2, <1>3, <2>1, <2>2, <2>3 DEF Good, OpsAt, NeedsToken, ActsAsMember, Touching, AllOps
<1>13. ASSUME NEW r \in Req, SweepPresence(r) \/ SweepPending(r) PROVE Good(r)' /\ Moved(r)
  <2>1. Moved(r)
    BY <1>13 DEF SweepPresence, SweepPending, Go, Alone, IInv, TypeOK
  <2>2. /\ pc[r] \in {"sweepPresence", "sweepPending"}
        /\ pc'[r] \in {"sweepPending", "done"}
    BY <1>13 DEF SweepPresence, SweepPending, Go, IInv, TypeOK
  <2> QED
    BY <1>1, <2>1, <2>2 DEF Good, OpsAt, NeedsToken, ActsAsMember, Touching, AllOps
(* The two that change the token, or what is known.                         *)
<1>14. ASSUME NEW r \in Req, Mint(r) PROVE Good(r)' /\ Alone(r) /\ known' = known
  <2>1. Alone(r) /\ known' = known /\ job' = job /\ pc[r] = "mint"
    BY <1>14 DEF Mint, Go, Alone, IInv, TypeOK
  <2>2. CASE pc'[r] = "failed"
    BY <1>1, <2>1, <2>2 DEF Good, OpsAt, NeedsToken, ActsAsMember, Touching, AllOps
  <2>3. ASSUME NEW t \in Token,
               row' = [row EXCEPT ![t] = IF job[r].op = "create" THEN "active" ELSE "pending"],
               token' = [token EXCEPT ![r] = t],
               owned' = IF job[r].op = "create" THEN owned \cup {t} ELSE owned,
               Go(r, IF job[r].op = "create" THEN "touch" ELSE "reply")
        PROVE  Good(r)'
    <3>1. /\ token'[r] = t /\ row'[t] # "unminted"
          /\ \/ job[r].op = "create" /\ pc'[r] = "touch" /\ t \in owned'
             \/ pc'[r] = "reply"
      BY <2>3 DEF Go, IInv, TypeOK
    <3> QED
      BY <1>1, <2>1, <3>1 DEF Good, OpsAt, NeedsToken, ActsAsMember, Touching, AllOps
  <2>4. pc'[r] = "failed" \/ Good(r)'
    BY <1>14, <2>3 DEF Mint, Go, IInv, TypeOK
  <2> QED
    BY <2>1, <2>2, <2>4
<1>15. ASSUME NEW r \in Req, Reply(r)
       PROVE  Carries' /\ PastAdmission' /\ ClaimsPending'
  <2>1. /\ Alone(r) /\ pc[r] = "reply" /\ pc'[r] = "done" /\ UNCHANGED <<row, owned, mine>>
        /\ known' = known \cup {token[r]}
    BY <1>15 DEF Reply, Go, Alone, IInv, TypeOK
  <2>2. Good(r)'
    BY <1>1, <2>1 DEF Good, OpsAt, NeedsToken, ActsAsMember, Touching, AllOps
  <2>3. \A q \in Req : Good(q)'
    BY <1>4, <2>1, <2>2 DEF Alone
  <2>4. \A t \in known' : row'[t] # "unminted"
    BY <1>1, <2>1 DEF IInv, Carries, Good, NeedsToken
  <2> USE DEF Good
  <2> QED
    BY <2>3, <2>4 DEF Carries, PastAdmission, ClaimsPending
<1>16. CASE Tick \/ UNCHANGED vars
  <2>1. UNCHANGED <<pc, mine, row, owned, known>>
    BY <1>16 DEF Tick, vars
  <2>2. \A q \in Req : Good(q)'
    BY <1>4, <2>1
  <2>3. \A t \in known' : row'[t] # "unminted"
    BY <2>1 DEF IInv, Carries
  <2> USE DEF Good
  <2> QED
    BY <2>2, <2>3 DEF Carries, PastAdmission, ClaimsPending
<1> QED
  BY <1>5, <1>6, <1>7, <1>8, <1>9, <1>10, <1>11, <1>12, <1>13, <1>14, <1>15, <1>16, Steps
-----------------------------------------------------------------------------
LEMMA GhostsKept == IInv /\ [Next]_vars => NoGhosts'
<1> SUFFICES ASSUME IInv, [Next]_vars PROVE NoGhosts'
  OBVIOUS
<1> USE DEF rooms, participants, presence, sweeps, ghosts, mine, NoGhosts, HasRow
<1>1. ASSUME NEW r \in Req, Upsert(r) PROVE NoGhosts'
  BY <1>1 DEF IInv, Upsert
<1>2. ASSUME NEW r \in Req, Mint(r) PROVE NoGhosts'
  BY <1>2 DEF IInv, TypeOK, Mint
<1>3. ASSUME NEW r \in Req, Burn(r) \/ Drop(r) \/ DropPresence(r) PROVE NoGhosts'
  BY <1>3 DEF IInv, TypeOK, Burn, Drop, DropPresence
<1>4. ASSUME NEW r \in Req, Activate(r) PROVE NoGhosts'
  BY <1>4 DEF IInv, TypeOK, Activate
<1>5. ASSUME NEW r \in Req, DeleteRoom(r) \/ SweepPresence(r) \/ SweepPending(r) PROVE NoGhosts'
  BY <1>5 DEF IInv, TypeOK, DeleteRoom, SweepPresence, SweepPending, Overdue
<1>6. ASSUME NEW r \in Req, InsertRoom(r) PROVE NoGhosts'
  BY <1>6 DEF IInv, TypeOK, InsertRoom
<1>7. CASE UNCHANGED <<room, row, present>>
  BY <1>7 DEF IInv
<1>8. \/ UNCHANGED <<room, row, present>>
      \/ \E r \in Req :
          \/ Upsert(r) \/ Mint(r) \/ Burn(r) \/ Drop(r) \/ DropPresence(r) \/ Activate(r)
          \/ DeleteRoom(r) \/ SweepPresence(r) \/ SweepPending(r) \/ InsertRoom(r)
  BY Steps DEF vars, Arrive, Admit, Refuse, Act, ReadClock, Check, Touched, Probe, Reply,
               AdmitAny, ReadClaim, Die, Tick
<1> QED
  BY <1>1, <1>2, <1>3, <1>4, <1>5, <1>6, <1>7, <1>8

(* A touch of t comes to its end: it found the row fresh, or wrote it.       *)
Ends(t) ==
    \E c \in Nat :
        /\ c <= now /\ now <= c + Wait
        /\ touched'[t] = IF c > touched[t] THEN c ELSE touched[t]
        /\ \/ seenAt'[t] = c
           \/ seenAt'[t] = seenAt[t] /\ c < seenAt[t] + Fresh

(* What any step does to a presence row whose bearer is a member: it stays, *)
(* is refreshed, or has expired.                                            *)
LEMMA PresenceMoves ==
    ASSUME IInv, [Next]_vars, NEW t \in Token
    PROVE  /\ now' \in {now, now + 1}
           /\ now' # now => UNCHANGED <<row, presence, touched>>
           /\ \/ UNCHANGED <<seenAt[t], touched[t]>>
              \/ t \in owned /\ t \in present' /\ Ends(t)
           /\ t \in present /\ t \notin present' =>
                row'[t] = "removed" \/ seenAt[t] + PresenceTtl < now
<1> USE DEF rooms, participants, presence, sweeps, ghosts, mine
<1>1. ASSUME NEW r \in Req, Check(r) \/ Upsert(r)
      PROVE  /\ now' = now
             /\ \/ UNCHANGED <<seenAt[t], touched[t]>>
                \/ t \in owned /\ t \in present' /\ Ends(t)
             /\ present \subseteq present'
  <2>1. /\ token[r] \in owned /\ stamp[r] \in Nat
        /\ stamp[r] <= now /\ now <= stamp[r] + Wait
    BY <1>1 DEF Check, Upsert, IInv, TypeOK, PastAdmission, Touching, StampsAreRecent
  <2>2. CASE token[r] # t
    BY <1>1, <2>2 DEF Check, Upsert, Touched, IInv, TypeOK
  <2>3. CASE Check(r) /\ token[r] = t
    BY <2>1, <2>3 DEF Check, IsFresh, Touched, Ends, IInv, TypeOK
  <2>4. CASE Upsert(r) /\ token[r] = t
    BY <2>1, <2>4 DEF Upsert, Touched, Ends, IInv, TypeOK
  <2>5. now' = now /\ present \subseteq present'
    BY <1>1 DEF Check, Upsert
  <2> QED
    BY <1>1, <2>2, <2>3, <2>4, <2>5
<1>2. ASSUME NEW r \in Req,
             \/ Burn(r) \/ Drop(r) \/ DropPresence(r) \/ DeleteRoom(r)
             \/ SweepPresence(r) \/ SweepPending(r)
      PROVE  /\ UNCHANGED <<now, seenAt, touched>> /\ present' \subseteq present
             /\ t \in present /\ t \notin present' =>
                  row'[t] = "removed" \/ seenAt[t] + PresenceTtl < now
  <2>1. HasRow(t) \/ t \notin present
    BY DEF IInv, NoGhosts
  <2>2. CASE Burn(r) \/ Drop(r)
    BY <2>2 DEF Burn, Drop, IInv, TypeOK
  <2>3. CASE DropPresence(r)
    BY <2>3 DEF DropPresence, IInv, ClaimsPending
  <2>4. CASE DeleteRoom(r)
    BY <2>1, <2>4 DEF DeleteRoom, IInv, TypeOK
  <2>5. CASE SweepPresence(r)
    BY <2>5, ClockAssumption DEF SweepPresence, IInv, TypeOK
  <2>6. CASE SweepPending(r)
    BY <2>6 DEF SweepPending, IInv, TypeOK
  <2> QED
    BY <1>2, <2>2, <2>3, <2>4, <2>5, <2>6
<1>3. CASE Tick
  BY <1>3 DEF Tick
<1>4. \/ UNCHANGED <<now, presence, touched>> \/ Tick
      \/ \E r \in Req :
          \/ Check(r) \/ Upsert(r) \/ Burn(r) \/ Drop(r) \/ DropPresence(r) \/ DeleteRoom(r)
          \/ SweepPresence(r) \/ SweepPending(r)
  BY Steps DEF vars, Arrive, Admit, Refuse, Act, ReadClock, Probe, InsertRoom, Mint, Reply, AdmitAny,
               ReadClaim, Activate, Die
<1> QED
  BY <1>1, <1>2, <1>3, <1>4

LEMMA StampsKept == IInv /\ [Next]_vars => StampsAreRecent'
<1> SUFFICES ASSUME IInv, [Next]_vars PROVE StampsAreRecent'
  OBVIOUS
<1> USE DEF rooms, participants, presence, sweeps, ghosts, mine
<1> DEFINE Recent(r) == pc[r] \in {"check", "upsert"} =>
                          stamp[r] <= now /\ now <= stamp[r] + Wait
<1>1. (\A r \in Req : Recent(r)) /\ \A t \in Token : touched[t] <= now
  BY DEF IInv, StampsAreRecent
<1>2. now \in Nat /\ Wait \in Nat
  BY ClockAssumption DEF IInv, TypeOK
<1>3. ASSUME NEW r \in Req, ReadClock(r) \/ Check(r) \/ Upsert(r)
      PROVE  (\A q \in Req : Recent(q)') /\ now' = now
  <2>1. now' = now /\ Recent(r)'
    BY <1>1, <1>2, <1>3 DEF ReadClock, Check, Upsert, Touched, Go, IInv, TypeOK
  <2>2. \A q \in Req \ {r} : pc'[q] = pc[q] /\ stamp'[q] = stamp[q]
    BY <1>3 DEF ReadClock, Check, Upsert, Touched, Go, IInv, TypeOK
  <2> QED
    BY <1>1, <2>1, <2>2
<1>4. CASE Tick
  BY <1>1, <1>2, <1>4 DEF Tick, StampsAreRecent, IInv, TypeOK
<1>5. ASSUME UNCHANGED <<now, stamp, touched>>,
             \A r \in Req : pc'[r] = pc[r] \/ pc'[r] \notin {"check", "upsert"}
      PROVE  StampsAreRecent'
  BY <1>1, <1>5 DEF StampsAreRecent
<1>6. ASSUME NEW r \in Req, NEW j \in Jobs, NEW t \in Token \cup {NoToken}, Arrive(r, j, t)
      PROVE  StampsAreRecent'
  <2>1. \A q \in Req : pc'[q] = pc[q] \/ pc'[q] \notin {"check", "upsert"}
    BY <1>6 DEF Arrive, Go, IInv, TypeOK
  <2> QED
    BY <1>5, <1>6, <2>1 DEF Arrive
<1>7. ASSUME NEW r \in Req,
             \/ Admit(r) \/ Refuse(r) \/ Act(r) \/ Probe(r) \/ InsertRoom(r) \/ Mint(r) \/ Reply(r)
             \/ AdmitAny(r) \/ ReadClaim(r) \/ Burn(r) \/ Activate(r)
             \/ Drop(r) \/ DropPresence(r) \/ DeleteRoom(r)
             \/ SweepPresence(r) \/ SweepPending(r) \/ Die(r)
      PROVE  StampsAreRecent'
  <2>1. UNCHANGED <<now, stamp, touched>>
    BY <1>7 DEF Admit, Refuse, Act, Probe, InsertRoom, Mint, Reply, AdmitAny, ReadClaim,
                Burn, Activate, Drop, DropPresence, DeleteRoom, SweepPresence, SweepPending, Die
  <2>2. \A q \in Req : pc'[q] = pc[q] \/ pc'[q] \notin {"check", "upsert"}
    BY <1>7 DEF Admit, Refuse, Act, Probe, InsertRoom, Mint, Reply, AdmitAny, ReadClaim,
                Burn, Activate, Drop, DropPresence, DeleteRoom, SweepPresence, SweepPending, Die,
                Go, IInv, TypeOK
  <2> QED
    BY <1>5, <2>1, <2>2
<1>8. CASE UNCHANGED vars
  BY <1>5, <1>8 DEF vars
<1>9. ASSUME NEW r \in Req, ReadClock(r) \/ Check(r) \/ Upsert(r),
             NEW t \in Token
      PROVE  touched'[t] <= now
  <2>1. stamp[r] \in Nat /\ (pc[r] \in {"check", "upsert"} => stamp[r] <= now)
    BY <1>1 DEF IInv, TypeOK
  <2> QED
    BY <1>1, <1>9, <2>1 DEF ReadClock, Check, Upsert, Touched, IInv, TypeOK
<1>10. ASSUME NEW r \in Req, ReadClock(r) \/ Check(r) \/ Upsert(r)
       PROVE  StampsAreRecent'
  BY <1>3, <1>9, <1>10 DEF StampsAreRecent
<1> QED
  BY <1>4, <1>6, <1>7, <1>8, <1>10, Steps

LEMMA PingsKept == IInv /\ [Next]_vars => TouchIsFresh' /\ CountedWhilePinging'
<1> SUFFICES ASSUME IInv, [Next]_vars, NEW t \in Token
             PROVE  /\ NearlySeen(t)'
                    /\ row'[t] = "active" /\ t \in owned' /\ touched'[t] > 0
                         /\ now' + Wait <= touched'[t] + PresenceTtl
                         /\ now' + Fresh <= touched'[t] + PresenceTtl + 1
                       => t \in present' /\ now' <= seenAt'[t] + PresenceTtl
  BY DEF TouchIsFresh, CountedWhilePinging
<1>1. /\ now \in Nat /\ seenAt[t] \in Nat /\ touched[t] \in Nat /\ touched[t] <= now
      /\ Fresh \in Nat \ {0} /\ PresenceTtl \in Nat /\ Wait \in Nat
  BY ClockAssumption DEF IInv, TypeOK, StampsAreRecent
<1>2. NearlySeen(t)
  BY DEF IInv, TouchIsFresh
<1>3. owned \subseteq owned'
  <2>1. \A u \in owned : u \in owned'
    BY RowsMove DEF IInv, TypeOK
  <2> QED
    BY <2>1
<1>4. NearlySeen(t)'
  <2>1. CASE UNCHANGED <<seenAt[t], touched[t]>>
    BY <1>2, <1>3, <2>1 DEF NearlySeen
  <2>2. CASE t \in owned /\ Ends(t)
    <3>1. PICK c \in Nat :
            /\ c <= now /\ now <= c + Wait
            /\ touched'[t] = IF c > touched[t] THEN c ELSE touched[t]
            /\ seenAt'[t] = c \/ (seenAt'[t] = seenAt[t] /\ c < seenAt[t] + Fresh)
      BY <2>2 DEF Ends
    <3> QED
      BY <1>1, <1>2, <1>3, <2>2, <3>1 DEF NearlySeen
  <2> QED
    BY <2>1, <2>2, PresenceMoves
<1>5. ASSUME row'[t] = "active", t \in owned', touched'[t] > 0,
             now' + Wait <= touched'[t] + PresenceTtl,
             now' + Fresh <= touched'[t] + PresenceTtl + 1
      PROVE  t \in present' /\ now' <= seenAt'[t] + PresenceTtl
  <2>1. now' <= seenAt'[t] + PresenceTtl
    <3>1. now' \in Nat /\ seenAt'[t] \in Nat /\ touched'[t] \in Nat
      BY TypeKept DEF TypeOK
    <3> QED
      BY <1>1, <1>4, <1>5, <3>1 DEF NearlySeen
  <2>2. t \in present'
    <3>1. CASE UNCHANGED <<seenAt[t], touched[t]>>
      <4>1. t \in owned /\ row[t] = "active"
        <5>1. t \in owned
          BY <1>2, <1>5, <3>1 DEF NearlySeen
        <5> QED
          BY <5>1, <1>5, RowsMove DEF IInv, OwnersAreActive
      <4>2. /\ now + Wait <= touched[t] + PresenceTtl
            /\ now + Fresh <= touched[t] + PresenceTtl + 1
        <5>1. now' \in {now, now + 1} /\ touched'[t] = touched[t]
          BY <3>1, PresenceMoves
        <5> QED
          BY <1>1, <1>5, <5>1
      <4>3. t \in present /\ now <= seenAt[t] + PresenceTtl
        BY <1>5, <3>1, <4>1, <4>2 DEF IInv, CountedWhilePinging
      <4>4. row'[t] # "removed" /\ ~ (seenAt[t] + PresenceTtl < now)
        BY <1>1, <1>5, <4>3
      <4> QED
        BY <4>3, <4>4, PresenceMoves
    <3> QED
      BY <3>1, PresenceMoves
  <2> QED
    BY <2>1, <2>2
<1> QED
  BY <1>4, <1>5
-----------------------------------------------------------------------------
(* The strengthened invariant holds in every reachable state.               *)
THEOREM InvariantHolds == Spec => []IInv
<1>1. IInv /\ [Next]_vars => IInv'
  BY TypeKept, CarriesKept, OwnersKept, GhostsKept, StampsKept, PingsKept DEF IInv
<1> QED
  BY <1>1, InitIInv, PTL DEF Spec

(* Every reachable state of the tables and of the handlers is well typed.   *)
THEOREM TypeCorrect == Spec => []TypeOK
<1>1. IInv => TypeOK
  BY DEF IInv
<1> QED
  BY <1>1, InvariantHolds, PTL

(* No handler of server/index.php acts for a token that was not minted with *)
(* the room or claimed with its tag, nobody without a row counts as         *)
(* present, and a member who pings is counted for PresenceTtl after it,     *)
(* less what a skipped write or a wait for the write lock may cost.         *)
THEOREM TablesStaySound == Spec => []TablesAreSound
<1>1. IInv => TablesAreSound
  BY DEF IInv, TablesAreSound, OnlyOwnersAct, PastAdmission
<1> QED
  BY <1>1, InvariantHolds, PTL

(* A token that was removed stays removed, whatever claim or touch of it is *)
(* under way, and a row goes only for a cause.                              *)
THEOREM TokensStaySound == Spec => TokensAreSound
<1> DEFINE Stays == \A t \in Token : row[t] = "removed" => row'[t] = "removed"
           Caused == \A t \in Token : HasRow(t) /\ row'[t] = "removed" =>
                       \/ Leaves(t) \/ Disbands \/ FailsClaim(t)
                       \/ row[t] = "pending" /\ joined[t] + PendingTtl < now
<1>1. IInv /\ [Next]_vars => Stays
  BY RowsMove
<1>2. IInv /\ [Next]_vars => Caused
  <2> SUFFICES ASSUME IInv, [Next]_vars, NEW t \in Token, HasRow(t), row'[t] = "removed"
               PROVE  \/ Leaves(t) \/ Disbands \/ FailsClaim(t)
                      \/ row[t] = "pending" /\ joined[t] + PendingTtl < now
    OBVIOUS
  <2> USE DEF rooms, participants, presence, sweeps, ghosts, mine, HasRow
  <2>1. ASSUME NEW r \in Req, Mint(r) \/ Activate(r) PROVE FALSE
    BY <2>1 DEF Mint, Activate, IInv, TypeOK
  <2>2. ASSUME NEW r \in Req, Burn(r) PROVE FailsClaim(t)
    <3>1. token[r] = t
      BY <2>2 DEF Burn, IInv, TypeOK
    <3>2. read[r] = "pending"
      BY <2>2 DEF Burn, IInv, ClaimsPending
    <3> QED
      BY <2>2, <3>1, <3>2 DEF FailsClaim
  <2>3. ASSUME NEW r \in Req, Drop(r) PROVE Leaves(t)
    BY <2>3 DEF Drop, Leaves, IInv, TypeOK
  <2>4. ASSUME NEW r \in Req, DeleteRoom(r) PROVE Disbands
    BY <2>4 DEF Disbands
  <2>5. ASSUME NEW r \in Req, SweepPending(r)
        PROVE  row[t] = "pending" /\ joined[t] + PendingTtl < now
    BY <2>5 DEF SweepPending, Overdue, IInv, TypeOK
  <2>6. \/ UNCHANGED row
        \/ \E r \in Req : \/ Mint(r) \/ Burn(r) \/ Drop(r) \/ Activate(r)
                          \/ DeleteRoom(r) \/ SweepPending(r)
    BY Steps DEF vars, Arrive, Admit, Refuse, Act, ReadClock, Check, Upsert, Touched, Probe,
                 InsertRoom, Reply, AdmitAny, ReadClaim, DropPresence, SweepPresence, Die, Tick
  <2> QED
    BY <2>1, <2>2, <2>3, <2>4, <2>5, <2>6
<1> HIDE DEF Stays, Caused
<1>3. Spec => [][Stays]_vars /\ [][Caused]_vars
  BY <1>1, <1>2, InvariantHolds, PTL DEF Spec
<1> QED
  BY <1>3 DEF TokensAreSound, RevokedIsRevoked, RemovedForCause, Stays, Caused
=============================================================================
