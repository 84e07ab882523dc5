-------------------------- MODULE SchedulerProofs ---------------------------
(***************************************************************************)
(* Theorems about Scheduler, for any schedules, any calendar and any       *)
(* number of lives.                                                        *)
(*                                                                         *)
(* The argument.  The scan of today and the next Week days always meets a  *)
(* fitting day, and its first one is the very next occurrence; so whatever *)
(* arms a timer puts it after now, on that occurrence, and the other steps *)
(* only let the clock come nearer to it.                                   *)
(***************************************************************************)
EXTENDS Scheduler, WellFoundedInduction, FiniteSetTheorems, TLAPS

(* A non-empty set of natural numbers has a least element.                  *)
LEMMA LeastElement ==
    ASSUME NEW T \in SUBSET Nat, T # {}
    PROVE  \E x \in T : \A y \in T : x <= y
<1> DEFINE Less == {ss \in Nat \X Nat : ss[1] < ss[2]}
<1>1. IsWellFoundedOn(Less, Nat)
  BY NatLessThanWellFounded, Zenon DEF OpToRel
<1>2. PICK x \in T : \A y \in T : <<y, x>> \notin Less
  BY <1>1, WFMin
<1>3. \A y \in T : x <= y
  <2> SUFFICES ASSUME NEW y \in T PROVE x <= y
    OBVIOUS
  <2>1. ~(y < x)
    BY <1>2
  <2> QED
    BY <2>1
<1> QED
  BY <1>3

(* Multiplying by the divisor keeps the order.                              *)
LEMMA TimesMonotone ==
    ASSUME NEW n \in Nat, NEW a \in Nat, NEW b \in Nat, a <= b
    PROVE  a * n <= b * n
OBVIOUS

(* Quotient and remainder are the ones a number was made of.                *)
LEMMA QuotientOf ==
    ASSUME NEW n \in Nat \ {0}, NEW q \in Nat, NEW r \in 0..(n - 1)
    PROVE  /\ q * n + r \in Nat
           /\ (q * n + r) \div n = q
           /\ (q * n + r) % n = r
<1> DEFINE x == q * n + r
<1>1. x \in Nat
  OBVIOUS
<1>2. PICK d \in Nat, m \in Nat :
          d = x \div n /\ m = x % n /\ x = d * n + m /\ m < n
  BY <1>1
<1>3. ~(d < q)
  <2> SUFFICES ASSUME d + 1 <= q PROVE FALSE
    OBVIOUS
  <2>1. (d + 1) * n <= q * n
    BY TimesMonotone
  <2> QED
    BY <2>1, <1>2
<1>4. ~(q < d)
  <2> SUFFICES ASSUME q + 1 <= d PROVE FALSE
    OBVIOUS
  <2>1. (q + 1) * n <= d * n
    BY TimesMonotone
  <2> QED
    BY <2>1, <1>2
<1> QED
  BY <1>1, <1>2, <1>3, <1>4

(* A number is made of its quotient and remainder.                          *)
LEMMA Divided ==
    ASSUME NEW n \in Nat \ {0}, NEW x \in Nat
    PROVE  /\ x \div n \in Nat /\ x % n \in 0..(n - 1)
           /\ x = ((x \div n) * n) + (x % n)
OBVIOUS

(* From any day on, each weekday comes within Week days.                    *)
LEMMA WeekdayComes ==
    ASSUME NEW q \in Nat, NEW d \in 0..(Week - 1)
    PROVE  \E i \in 1..Week : (q + i) % Week = d
<1>1. Week \in Nat \ {0}
  BY CalendarAssumption
<1> DEFINE k == q \div Week
           r == q % Week
<1>2. k \in Nat /\ r \in 0..(Week - 1) /\ q = k * Week + r
  BY <1>1, Divided
<1> HIDE DEF k, r
<1>3. CASE r < d
  <2>1. q + (d - r) = k * Week + d /\ d - r \in 1..Week
    BY <1>1, <1>2, <1>3
  <2>2. (k * Week + d) % Week = d
    BY <1>1, <1>2, QuotientOf
  <2> QED
    BY <2>1, <2>2
<1>4. CASE d <= r
  <2>1. q + (Week + d - r) = (k + 1) * Week + d /\ Week + d - r \in 1..Week
    BY <1>1, <1>2, <1>4
  <2>2. ((k + 1) * Week + d) % Week = d
    BY <1>1, <1>2, QuotientOf
  <2> QED
    BY <2>1, <2>2
<1> QED
  BY <1>1, <1>2, <1>3, <1>4

(* A candidate is the cron's hour of its day.                               *)
LEMMA CandidateIs ==
    ASSUME NEW c \in Cron, NEW t \in Nat, NEW i \in Nat
    PROVE  /\ Candidate(c, t, i) \in Nat
           /\ t \div Hours \in Nat
           /\ Candidate(c, t, i) % Hours = c.hour
           /\ DayOf(Candidate(c, t, i)) = (t \div Hours + i) % Week
<1>1. Hours \in Nat \ {0} /\ c.hour \in 0..(Hours - 1)
  BY CalendarAssumption DEF Cron
<1>2. t \div Hours \in Nat
  BY <1>1, Divided
<1>3. t \div Hours + i \in Nat
  BY <1>2
<1> QED
  BY <1>1, <1>2, <1>3, QuotientOf DEF Candidate, DayOf

(* computeNextRunAt returns the first occurrence after the given instant.   *)
LEMMA NextOccurrence ==
    ASSUME NEW c \in Cron, NEW t \in Nat
    PROVE  /\ ComputeNext(c, t) \in Nat /\ t < ComputeNext(c, t)
           /\ Occurs(c, ComputeNext(c, t))
           /\ \A u \in (t + 1)..(ComputeNext(c, t) - 1) : ~Occurs(c, u)
<1> DEFINE q == t \div Hours
           T == {i \in 0..(Week + 1) : Fits(c, t, i)}
<1>1. /\ Hours \in Nat \ {0} /\ Week \in Nat \ {0}
      /\ c.hour \in 0..(Hours - 1) /\ c.days \subseteq 0..(Week - 1) /\ c.days # {}
  BY CalendarAssumption DEF Cron
<1>2. q \in Nat /\ t % Hours \in 0..(Hours - 1) /\ t = (q * Hours) + (t % Hours)
  BY <1>1, Divided
<1>3. T # {}
  <2>1. PICK d \in c.days : d \in 0..(Week - 1)
    BY <1>1
  <2>2. PICK i \in 1..Week : (q + i) % Week = d
    BY <1>2, <2>1, WeekdayComes
  <2>3. i \in 0..(Week + 1) /\ i \in Nat
    BY <1>1, <2>2
  <2>4. DayOf(Candidate(c, t, i)) \in c.days
    BY <2>1, <2>2, <2>3, CandidateIs
  <2>5. (q + 1) * Hours <= (q + i) * Hours
    BY <1>1, <1>2, <2>2, TimesMonotone
  <2>6. Candidate(c, t, i) > t
    <3>1. t < (q + 1) * Hours
      BY <1>1, <1>2
    <3>2. (q + i) * Hours \in Nat /\ (q + 1) * Hours \in Nat
      BY <1>1, <1>2, <2>3
    <3> QED
      BY <1>1, <2>5, <3>1, <3>2 DEF Candidate
  <2> QED
    BY <2>3, <2>4, <2>6 DEF Fits
<1>4. T \subseteq Nat
  OBVIOUS
<1>5. PICK e \in T : \A y \in T : e <= y
  BY <1>3, <1>4, LeastElement
<1>6. FirstFit(c, t, e)
  <2>1. \A j \in 0..(e - 1) : j \in 0..(Week + 1) /\ ~(e <= j)
    BY <1>1, <1>5
  <2> QED
    BY <1>5, <2>1 DEF FirstFit
<1>7. PICK i \in 0..(Week + 1) : FirstFit(c, t, i) /\ ComputeNext(c, t) = Candidate(c, t, i)
  BY <1>5, <1>6 DEF ComputeNext
<1>8. i \in Nat /\ Candidate(c, t, i) \in Nat
  BY <1>1, <1>7, CandidateIs
<1>9. t < Candidate(c, t, i) /\ Occurs(c, Candidate(c, t, i))
  BY <1>7, <1>8, CandidateIs DEF FirstFit, Fits, Occurs
<1>10. ASSUME NEW u \in (t + 1)..(Candidate(c, t, i) - 1), Occurs(c, u)
       PROVE  FALSE
  <2> DEFINE p == u \div Hours
  <2>1. u \in Nat /\ t < u /\ u < Candidate(c, t, i)
    BY <1>8
  <2>2. p \in Nat /\ u = p * Hours + c.hour
    BY <1>1, <2>1, <1>10, Divided DEF Occurs
  <2> HIDE DEF p
  <2>3. q <= p
    <3> SUFFICES ASSUME p + 1 <= q PROVE FALSE
      BY <1>2, <2>2
    <3>1. (p + 1) * Hours <= q * Hours
      BY <1>1, <1>2, <2>2, TimesMonotone
    <3> QED
      BY <3>1, <1>1, <1>2, <2>1, <2>2
  <2>4. p < q + i
    <3> SUFFICES ASSUME q + i <= p PROVE FALSE
      BY <1>2, <1>8, <2>2
    <3>1. (q + i) * Hours <= p * Hours
      BY <1>1, <1>2, <1>8, <2>2, TimesMonotone
    <3> QED
      BY <3>1, <1>1, <1>2, <1>8, <2>1, <2>2 DEF Candidate
  <2>5. p - q \in 0..(i - 1) /\ q + (p - q) = p
    BY <1>2, <1>8, <2>2, <2>3, <2>4
  <2>6. Candidate(c, t, p - q) = u
    BY <2>2, <2>5 DEF Candidate
  <2>7. Fits(c, t, p - q)
    BY <2>1, <2>6, <1>10 DEF Fits, Occurs
  <2> QED
    BY <1>7, <2>5, <2>7 DEF FirstFit
<1> QED
  BY <1>7, <1>8, <1>9, <1>10
-----------------------------------------------------------------------------
(* What a timer's next instant is compared with: the last one served.       *)
ServedBefore ==
    \A s \in Sched : served[s] # NoTime =>
        served[s] <= now /\ (timer[s] # NoTime => served[s] < timer[s])

DownIsBlank == phase = "down" => ~asked /\ ~writing.saving

(* A list of saved schedules that says one thing of each.                   *)
Coherent(list) ==
    /\ \A x \in list : x.cron = cron[x.id]
    /\ \A x, y \in list : x.id = y.id => x = y

FileFollows ==
    /\ Coherent(disk) /\ Coherent(writing.list)
    /\ ~asked /\ writing.saving => writing.list = Snapshot
    /\ SavedFollows

IInv ==
    /\ TypeOK /\ IsFiniteSet(running)
    /\ EnabledIsArmed /\ PausedIsQuiet /\ ServedBefore
    /\ DownIsBlank /\ FileFollows

(* Every schedule that is armed now has its timer on its next occurrence.   *)
LEMMA ArmedNow ==
    ASSUME TypeOK, NEW s \in Sched
    PROVE  /\ ComputeNext(cron[s], now) \in Nat
           /\ ComputeNext(cron[s], now) # NoTime
           /\ now < ComputeNext(cron[s], now)
           /\ Occurs(cron[s], ComputeNext(cron[s], now))
           /\ \A u \in (now + 1)..(ComputeNext(cron[s], now) - 1) : ~Occurs(cron[s], u)
BY NextOccurrence, BoundsAssumption DEF TypeOK

(* The list that is saved is well typed and coherent.                       *)
LEMMA SnapshotIs ==
    ASSUME TypeOK
    PROVE  Snapshot \subseteq Saved /\ Coherent(Snapshot)
BY DEF TypeOK, Snapshot, Saved, Coherent

LEMMA InitIInv == Init => IInv
<1> SUFFICES ASSUME Init PROVE IInv
  OBVIOUS
<1>1. TypeOK /\ IsFiniteSet(running)
  <2>1. IsFiniteSet(running) /\ Cardinality(running) <= MaxConcurrent
    BY FS_EmptySet, BoundsAssumption DEF Init
  <2>2. cron \in [Sched -> Cron]
    BY CronsAssumption DEF Init
  <2>3. writing \in [saving : BOOLEAN, list : SUBSET Saved]
    BY DEF Init, Nothing
  <2> QED
    BY <2>1, <2>2, <2>3, BoundsAssumption DEF Init, TypeOK, Instant
<1>2. EnabledIsArmed /\ PausedIsQuiet /\ ServedBefore
  BY DEF Init, EnabledIsArmed, PausedIsQuiet, ServedBefore
<1>3. DownIsBlank /\ FileFollows
  BY DEF Init, DownIsBlank, FileFollows, SavedFollows, Coherent, Snapshot, Nothing
<1> QED
  BY <1>1, <1>2, <1>3 DEF IInv

(* Every step keeps the types, and the number of runs within bounds.        *)
LEMMA TypeStep == IInv /\ [Next]_vars => (TypeOK /\ IsFiniteSet(running))'
<1> SUFFICES ASSUME IInv, [Next]_vars PROVE (TypeOK /\ IsFiniteSet(running))'
  OBVIOUS
<1>1. TypeOK /\ IsFiniteSet(running)
  BY DEF IInv
<1>2. \A s \in Sched : ComputeNext(cron[s], now) \in Nat
  BY <1>1, ArmedNow
<1>11. ASSUME NEW s \in Sched, Add(s) PROVE (TypeOK /\ IsFiniteSet(running))'
  BY <1>1, <1>2, <1>11 DEF TypeOK, Instant, Add, Arm, Armed, Persist, outside
<1>12. ASSUME NEW s \in Sched, Pause(s) PROVE (TypeOK /\ IsFiniteSet(running))'
  BY <1>1, <1>12 DEF TypeOK, Instant, Pause, Persist, outside
<1>13. ASSUME NEW s \in Sched, Resume(s) PROVE (TypeOK /\ IsFiniteSet(running))'
  BY <1>1, <1>2, <1>13 DEF TypeOK, Instant, Resume, Arm, Armed, Persist, outside
<1>14. ASSUME NEW s \in Sched, Remove(s) PROVE (TypeOK /\ IsFiniteSet(running))'
  BY <1>1, <1>14 DEF TypeOK, Instant, Remove, Persist, outside
<1>15. ASSUME NEW s \in Sched, RunNow(s) PROVE (TypeOK /\ IsFiniteSet(running))'
  <2>1. s \notin running /\ Cardinality(running) < MaxConcurrent
    BY <1>15 DEF RunNow, MayRun, Fire
  <2>2. /\ IsFiniteSet(running \cup {s})
        /\ Cardinality(running \cup {s}) = Cardinality(running) + 1
    BY <1>1, <2>1, FS_AddElement
  <2>3. Cardinality(running) \in Nat
    BY <1>1, FS_CardinalityType
  <2>4. Cardinality(running') <= MaxConcurrent /\ IsFiniteSet(running')
    BY <2>1, <2>2, <2>3, <1>15, BoundsAssumption DEF RunNow, Fire
  <2> QED
    BY <1>1, <2>4, <1>15 DEF TypeOK, Instant, RunNow, file, outside, Fire
<1>16. ASSUME NEW s \in Sched, TimerFires(s) PROVE (TypeOK /\ IsFiniteSet(running))'
  <2>1. s \notin running /\ Cardinality(running) < MaxConcurrent
    BY <1>16 DEF TimerFires, MayRun, Fire
  <2>2. /\ IsFiniteSet(running \cup {s})
        /\ Cardinality(running \cup {s}) = Cardinality(running) + 1
    BY <1>1, <2>1, FS_AddElement
  <2>3. Cardinality(running) \in Nat
    BY <1>1, FS_CardinalityType
  <2>4. Cardinality(running') <= MaxConcurrent /\ IsFiniteSet(running')
    BY <2>1, <2>2, <2>3, <1>16, BoundsAssumption DEF TimerFires, Fire
  <2> QED
    BY <1>1, <2>4, <1>16 DEF TypeOK, Instant, TimerFires, file, outside, Due, Fire
<1>17. ASSUME NEW s \in Sched, TimerSkips(s) PROVE (TypeOK /\ IsFiniteSet(running))'
  BY <1>1, <1>2, <1>17 DEF TypeOK, Instant, TimerSkips, Arm, Armed, file, outside, Due
<1>18. ASSUME NEW s \in Sched, Settle(s) PROVE (TypeOK /\ IsFiniteSet(running))'
  <2>1. s \in running /\ running' = running \ {s}
    BY <1>18 DEF Settle, Fired
  <2>2. IsFiniteSet(running') /\ Cardinality(running') = Cardinality(running) - 1
    BY <1>1, <2>1, FS_RemoveElement
  <2>3. Cardinality(running) \in Nat /\ Cardinality(running) <= MaxConcurrent
    BY <1>1, FS_CardinalityType DEF TypeOK
  <2>4. Cardinality(running') <= MaxConcurrent
    BY <2>2, <2>3, BoundsAssumption
  <2> QED
    BY <1>1, <1>2, <2>2, <2>4, <1>18 DEF TypeOK, Instant, Settle, Arm, Armed, Persist, Fired
<1>19. CASE BeginWrite
  BY <1>1, <1>19, SnapshotIs DEF TypeOK, BeginWrite, memory
<1>20. CASE WriteLands
  BY <1>1, <1>20 DEF TypeOK, Instant, WriteLands, memory, Nothing
<1>21. CASE Stop
  BY <1>1, <1>21 DEF TypeOK, Instant, Stop, file
<1>22. CASE Exit
  <2>1. IsFiniteSet(running') /\ Cardinality(running') <= MaxConcurrent
    BY <1>22, FS_EmptySet, BoundsAssumption DEF Exit
  <2>2. writing' \in [saving : BOOLEAN, list : SUBSET Saved]
    BY <1>22 DEF Exit, Nothing
  <2> QED
    BY <1>1, <2>1, <2>2, <1>22, BoundsAssumption DEF TypeOK, Instant, Exit
<1>23. CASE Load
  <2>1. listed' \subseteq Sched /\ enabled' \in [Sched -> BOOLEAN]
    BY <1>1, <1>23 DEF TypeOK, Saved, Load
  <2>2. timer' \in [Sched -> Instant] /\ nextRunAt' = timer'
    BY <1>2, <1>23 DEF Instant, Load
  <2> QED
    BY <1>1, <2>1, <2>2, <1>23 DEF TypeOK, Load, file
<1>24. CASE Tick
  BY <1>1, <1>24 DEF TypeOK, Instant, Tick, memory, file
<1>25. CASE UNCHANGED vars
  BY <1>1, <1>25 DEF TypeOK, Instant, vars, memory, file
<1> QED
  BY <1>11, <1>12, <1>13, <1>14, <1>15, <1>16, <1>17, <1>18, <1>19, <1>20, <1>21, <1>22,
     <1>23, <1>24, <1>25
  DEF Next, Operate, Run

(* The timer of a schedule is set for its very next occurrence.             *)
OnTime(s) ==
    /\ timer[s] # NoTime /\ timer[s] = nextRunAt[s]
    /\ Occurs(cron[s], timer[s])
    /\ \A t \in (now + 1)..(timer[s] - 1) : ~Occurs(cron[s], t)

(* arm puts one schedule on time and touches no other.                      *)
LEMMA ArmSets ==
    ASSUME TypeOK, NEW s \in Sched, Arm(s), cron' = cron, now' = now
    PROVE  /\ OnTime(s)'
           /\ timer'[s] \in Nat /\ now < timer'[s]
           /\ \A x \in Sched \ {s} :
                  timer'[x] = timer[x] /\ nextRunAt'[x] = nextRunAt[x]
<1>1. timer'[s] = ComputeNext(cron[s], now) /\ nextRunAt'[s] = ComputeNext(cron[s], now)
  BY DEF TypeOK, Arm, Armed
<1>2. OnTime(s)' /\ timer'[s] \in Nat /\ now < timer'[s]
  BY <1>1, ArmedNow DEF OnTime
<1>3. \A x \in Sched \ {s} : timer'[x] = timer[x] /\ nextRunAt'[x] = nextRunAt[x]
  BY DEF TypeOK, Arm, Armed
<1> QED
  BY <1>2, <1>3

(* A schedule that is on time stays so while nobody touches its timer.      *)
LEMMA StaysOnTime ==
    ASSUME TypeOK, NEW s \in Sched, OnTime(s), cron' = cron, now' \in {now, now + 1},
           timer'[s] = timer[s], nextRunAt'[s] = nextRunAt[s]
    PROVE  OnTime(s)'
<1>1. now \in Nat /\ timer[s] \in Nat
  BY DEF TypeOK, OnTime, Instant
<1>2. (now' + 1)..(timer'[s] - 1) \subseteq (now + 1)..(timer[s] - 1)
  BY <1>1
<1> QED
  BY <1>2 DEF OnTime

(* Every step keeps enabled schedules on time, or in their timer's run.     *)
LEMMA ArmedStep == IInv /\ [Next]_vars => EnabledIsArmed'
<1> SUFFICES ASSUME IInv, [Next]_vars, phase' = "up",
                    NEW x \in listed', enabled'[x], x \notin byTimer'
             PROVE  OnTime(x)'
  BY DEF EnabledIsArmed, OnTime
<1>1. TypeOK /\ TypeOK'
  BY TypeStep DEF IInv
<1>2. x \in Sched
  BY <1>1 DEF TypeOK
<1>3. phase = "up" /\ x \in listed /\ enabled[x] /\ x \notin byTimer => OnTime(x)
  BY DEF IInv, EnabledIsArmed, OnTime
<1>11. ASSUME NEW s \in Sched, Add(s) PROVE OnTime(x)'
  <2>1. Arm(s) /\ cron' = cron /\ now' = now
    BY <1>11 DEF Add, Persist, outside
  <2>2. x = s \/ (phase = "up" /\ x \in listed /\ enabled[x] /\ x \notin byTimer)
    BY <1>1, <1>2, <1>11 DEF TypeOK, Add, Persist, outside
  <2> QED
    BY <1>1, <1>2, <1>3, <2>1, <2>2, ArmSets, StaysOnTime
<1>12. ASSUME NEW s \in Sched, Pause(s) PROVE OnTime(x)'
  <2>1. x # s
    BY <1>1, <1>2, <1>12 DEF TypeOK, Pause, Persist, outside
  <2> QED
    BY <1>1, <1>2, <1>3, <2>1, <1>12, StaysOnTime DEF TypeOK, Pause, Persist, outside
<1>13. ASSUME NEW s \in Sched, Resume(s) PROVE OnTime(x)'
  <2>1. Arm(s) /\ cron' = cron /\ now' = now
    BY <1>13 DEF Resume, Persist, outside
  <2>2. x = s \/ (phase = "up" /\ x \in listed /\ enabled[x] /\ x \notin byTimer)
    BY <1>1, <1>2, <1>13 DEF TypeOK, Resume, Persist, outside
  <2> QED
    BY <1>1, <1>2, <1>3, <2>1, <2>2, ArmSets, StaysOnTime
<1>14. ASSUME NEW s \in Sched, Remove(s) PROVE OnTime(x)'
  BY <1>1, <1>2, <1>3, <1>14, StaysOnTime DEF TypeOK, Remove, Persist, outside
<1>15. ASSUME NEW s \in Sched, RunNow(s) PROVE OnTime(x)'
  BY <1>1, <1>2, <1>3, <1>15, StaysOnTime DEF RunNow, file, outside, Fire
<1>16. ASSUME NEW s \in Sched, TimerFires(s) PROVE OnTime(x)'
  <2>1. x # s
    BY <1>1, <1>2, <1>16 DEF TypeOK, TimerFires, file, outside, Fire
  <2> QED
    BY <1>1, <1>2, <1>3, <2>1, <1>16, StaysOnTime DEF TypeOK, TimerFires, file, outside, Fire
<1>17. ASSUME NEW s \in Sched, TimerSkips(s) PROVE OnTime(x)'
  <2>1. Arm(s) /\ cron' = cron /\ now' = now
    BY <1>17 DEF TimerSkips, file, outside
  <2>2. x = s \/ (phase = "up" /\ x \in listed /\ enabled[x] /\ x \notin byTimer)
    BY <1>1, <1>2, <1>17 DEF TypeOK, TimerSkips, file, outside
  <2> QED
    BY <1>1, <1>2, <1>3, <2>1, <2>2, ArmSets, StaysOnTime
<1>18. ASSUME NEW s \in Sched, Settle(s) PROVE OnTime(x)'
  <2>1. cron' = cron /\ now' = now /\ phase = "up" /\ x \in listed /\ enabled[x]
    BY <1>18 DEF Settle, Fired
  <2>2. CASE s \in byTimer /\ enabled[s]
    <3>1. Arm(s)
      BY <1>18, <2>2 DEF Settle, Fired
    <3>2. x = s \/ x \notin byTimer
      BY <1>18 DEF Settle, Fired
    <3> QED
      BY <1>1, <1>2, <1>3, <2>1, <3>1, <3>2, ArmSets, StaysOnTime
  <2>3. CASE ~(s \in byTimer /\ enabled[s])
    <3>1. UNCHANGED <<timer, nextRunAt>> /\ x \notin byTimer
      BY <1>18, <2>1, <2>3 DEF Settle, Fired
    <3> QED
      BY <1>1, <1>2, <1>3, <2>1, <3>1, StaysOnTime
  <2> QED
    BY <2>2, <2>3
<1>19. CASE BeginWrite
  BY <1>1, <1>2, <1>3, <1>19, StaysOnTime DEF BeginWrite, memory
<1>20. CASE WriteLands
  BY <1>1, <1>2, <1>3, <1>20, StaysOnTime DEF WriteLands, memory
<1>21. CASE Stop
  BY <1>21 DEF Stop
<1>22. CASE Exit
  BY <1>22 DEF Exit
<1>23. CASE Load
  <2>1. timer'[x] = ComputeNext(cron[x], now) /\ nextRunAt'[x] = timer'[x]
    BY <1>2, <1>23 DEF Load
  <2>2. cron' = cron /\ now' = now
    BY <1>23 DEF Load
  <2> QED
    BY <1>1, <1>2, <2>1, <2>2, ArmedNow DEF OnTime
<1>24. CASE Tick
  BY <1>1, <1>2, <1>3, <1>24, StaysOnTime DEF Tick, memory
<1>25. CASE UNCHANGED vars
  BY <1>1, <1>2, <1>3, <1>25, StaysOnTime DEF vars, memory
<1> QED
  BY <1>11, <1>12, <1>13, <1>14, <1>15, <1>16, <1>17, <1>18, <1>19, <1>20, <1>21, <1>22,
     <1>23, <1>24, <1>25
  DEF Next, Operate, Run

(* What holds of a timer: only an enabled schedule has one, and it is later *)
(* than what was served.                                                    *)
Timely(s) ==
    /\ timer[s] # NoTime => enabled[s]
    /\ served[s] # NoTime =>
           served[s] <= now /\ (timer[s] # NoTime => served[s] < timer[s])

(* Every step keeps timers to enabled schedules and after what was served.  *)
LEMMA TimerStep == IInv /\ [Next]_vars => (PausedIsQuiet /\ ServedBefore)'
<1> SUFFICES ASSUME IInv, [Next]_vars, NEW x \in Sched PROVE Timely(x)'
  BY DEF PausedIsQuiet, ServedBefore, Timely
<1>1. TypeOK
  BY DEF IInv
<1>2. Timely(x)
  BY DEF IInv, PausedIsQuiet, ServedBefore, Timely
<1>3. x \in Sched
  OBVIOUS
<1>4. now \in Nat /\ served[x] \in Nat \cup {NoTime} /\ timer[x] \in Nat \cup {NoTime}
  BY <1>1 DEF TypeOK, Instant
<1>5. PausedIsQuiet
  BY DEF IInv
<1>11. ASSUME NEW s \in Sched, Add(s) PROVE Timely(x)'
  <2>1. Arm(s) /\ cron' = cron /\ now' = now /\ served' = served
    BY <1>11 DEF Add, Persist, outside
  <2>2. enabled'[s] /\ (x # s => enabled'[x] = enabled[x])
    BY <1>1, <1>2, <1>11 DEF TypeOK, Timely, Add, Persist, outside
  <2>3. timer'[s] \in Nat /\ now < timer'[s] /\ (x # s => timer'[x] = timer[x])
    BY <1>1, <1>3, <2>1, ArmSets
  <2> QED
    BY <1>2, <1>4, <2>1, <2>2, <2>3 DEF Timely
<1>12. ASSUME NEW s \in Sched, Pause(s) PROVE Timely(x)'
  BY <1>1, <1>2, <1>3, <1>12 DEF TypeOK, Timely, Pause, Persist, outside
<1>13. ASSUME NEW s \in Sched, Resume(s) PROVE Timely(x)'
  <2>1. Arm(s) /\ cron' = cron /\ now' = now /\ served' = served
    BY <1>13 DEF Resume, Persist, outside
  <2>2. enabled'[s] /\ (x # s => enabled'[x] = enabled[x])
    BY <1>1, <1>2, <1>13 DEF TypeOK, Timely, Resume, Persist, outside
  <2>3. timer'[s] \in Nat /\ now < timer'[s] /\ (x # s => timer'[x] = timer[x])
    BY <1>1, <1>3, <2>1, ArmSets
  <2> QED
    BY <1>2, <1>4, <2>1, <2>2, <2>3 DEF Timely
<1>14. ASSUME NEW s \in Sched, Remove(s) PROVE Timely(x)'
  BY <1>1, <1>2, <1>3, <1>14 DEF TypeOK, Timely, Remove, Persist, outside
<1>15. ASSUME NEW s \in Sched, RunNow(s) PROVE Timely(x)'
  BY <1>1, <1>2, <1>3, <1>15 DEF TypeOK, Timely, RunNow, file, outside, Fire
<1>16. ASSUME NEW s \in Sched, TimerFires(s) PROVE Timely(x)'
  <2>1. timer[s] # NoTime /\ timer[s] \in Nat /\ timer[s] <= now
    BY <1>1, <1>16 DEF TypeOK, Instant, TimerFires, Due, Fire
  <2> QED
    BY <1>1, <1>2, <2>1, <1>16 DEF TypeOK, Timely, TimerFires, outside, Fire
<1>17. ASSUME NEW s \in Sched, TimerSkips(s) PROVE Timely(x)'
  <2>1. Arm(s) /\ cron' = cron /\ now' = now /\ served' = served
    BY <1>17 DEF TimerSkips, file, outside
  <2>2. enabled'[s] /\ (x # s => enabled'[x] = enabled[x])
    BY <1>1, <1>5, <1>17 DEF TypeOK, PausedIsQuiet, TimerSkips, file, outside, Due
  <2>3. timer'[s] \in Nat /\ now < timer'[s] /\ (x # s => timer'[x] = timer[x])
    BY <1>1, <1>3, <2>1, ArmSets
  <2> QED
    BY <1>2, <1>4, <2>1, <2>2, <2>3 DEF Timely
<1>18. ASSUME NEW s \in Sched, Settle(s) PROVE Timely(x)'
  <2>1. cron' = cron /\ now' = now /\ served' = served /\ enabled' = enabled
    BY <1>18 DEF Settle, Fired
  <2>2. CASE s \in byTimer /\ enabled[s]
    <3>1. Arm(s)
      BY <1>18, <2>2 DEF Settle, Fired
    <3>2. timer'[s] \in Nat /\ now < timer'[s] /\ (x # s => timer'[x] = timer[x])
      BY <1>1, <1>3, <2>1, <3>1, ArmSets
    <3> QED
      BY <1>2, <1>4, <2>1, <2>2, <3>2 DEF Timely
  <2>3. CASE ~(s \in byTimer /\ enabled[s])
    <3>1. timer' = timer
      BY <1>18, <2>3 DEF Settle, Fired
    <3> QED
      BY <1>2, <2>1, <3>1 DEF Timely
  <2> QED
    BY <2>2, <2>3
<1>19. CASE BeginWrite
  BY <1>1, <1>2, <1>3, <1>19 DEF TypeOK, Timely, BeginWrite, memory
<1>20. CASE WriteLands
  BY <1>1, <1>2, <1>3, <1>20 DEF TypeOK, Timely, WriteLands, memory
<1>21. CASE Stop
  BY <1>1, <1>2, <1>3, <1>21 DEF TypeOK, Timely, Stop, file
<1>22. CASE Exit
  BY <1>1, <1>2, <1>3, <1>22 DEF TypeOK, Timely, Exit
<1>23. CASE Load
  <2>1. served' = served /\ now' = now
    BY <1>23 DEF Load
  <2>2. timer'[x] = IF enabled'[x] THEN ComputeNext(cron[x], now) ELSE NoTime
    BY <1>3, <1>23 DEF Load
  <2>3. ComputeNext(cron[x], now) \in Nat /\ now < ComputeNext(cron[x], now)
    BY <1>1, <1>3, ArmedNow
  <2> QED
    BY <1>2, <1>4, <2>1, <2>2, <2>3 DEF Timely
<1>24. CASE Tick
  BY <1>2, <1>4, <1>24 DEF Timely, Tick, memory
<1>25. CASE UNCHANGED vars
  BY <1>1, <1>2, <1>3, <1>25 DEF TypeOK, Timely, vars, memory, file
<1> QED
  BY <1>11, <1>12, <1>13, <1>14, <1>15, <1>16, <1>17, <1>18, <1>19, <1>20, <1>21, <1>22,
     <1>23, <1>24, <1>25
  DEF Next, Operate, Run

(* A change that asks for a save, and a step that leaves the list alone.    *)
LEMMA FileKept ==
    ASSUME IInv, cron' = cron, writing' = writing, disk' = disk, phase # "down",
           asked' = TRUE \/ (asked' = asked /\ listed' = listed /\ enabled' = enabled)
    PROVE  FileFollows'
<1>1. Coherent(disk)' /\ Coherent(writing.list)'
  BY DEF IInv, FileFollows, Coherent
<1>2. CASE asked' = TRUE
  BY <1>1, <1>2 DEF IInv, FileFollows, SavedFollows
<1>3. CASE asked' = asked /\ listed' = listed /\ enabled' = enabled
  <2>1. Snapshot' = Snapshot
    BY <1>3 DEF Snapshot
  <2> QED
    BY <1>1, <1>3, <2>1 DEF IInv, FileFollows, SavedFollows
<1> QED
  BY <1>2, <1>3 DEF IInv

(* Every step keeps the file, the list on its way to it, and the memory     *)
(* together.                                                                *)
LEMMA FileStep == IInv /\ [Next]_vars => (DownIsBlank /\ FileFollows)'
<1> SUFFICES ASSUME IInv, [Next]_vars PROVE (DownIsBlank /\ FileFollows)'
  OBVIOUS
<1>1. TypeOK /\ DownIsBlank /\ FileFollows
  BY DEF IInv
<1>11. ASSUME NEW s \in Sched, Add(s) PROVE (DownIsBlank /\ FileFollows)'
  BY <1>11, FileKept DEF DownIsBlank, Add, Persist, outside
<1>12. ASSUME NEW s \in Sched, Pause(s) PROVE (DownIsBlank /\ FileFollows)'
  BY <1>12, FileKept DEF DownIsBlank, Pause, Persist, outside
<1>13. ASSUME NEW s \in Sched, Resume(s) PROVE (DownIsBlank /\ FileFollows)'
  BY <1>13, FileKept DEF DownIsBlank, Resume, Persist, outside
<1>14. ASSUME NEW s \in Sched, Remove(s) PROVE (DownIsBlank /\ FileFollows)'
  BY <1>14, FileKept DEF DownIsBlank, Remove, Persist, outside
<1>15. ASSUME NEW s \in Sched, RunNow(s) PROVE (DownIsBlank /\ FileFollows)'
  BY <1>15, FileKept DEF DownIsBlank, RunNow, file, outside, Fire
<1>16. ASSUME NEW s \in Sched, TimerFires(s) PROVE (DownIsBlank /\ FileFollows)'
  BY <1>16, FileKept DEF DownIsBlank, TimerFires, file, outside, Due, Fire
<1>17. ASSUME NEW s \in Sched, TimerSkips(s) PROVE (DownIsBlank /\ FileFollows)'
  BY <1>17, FileKept DEF DownIsBlank, TimerSkips, file, outside, Due
<1>18. ASSUME NEW s \in Sched, Settle(s) PROVE (DownIsBlank /\ FileFollows)'
  BY <1>18, FileKept DEF DownIsBlank, Settle, Persist, Fired
<1>19. CASE BeginWrite
  <2>1. writing'.saving /\ writing'.list = Snapshot /\ disk' = disk /\ cron' = cron
    BY <1>19 DEF BeginWrite, memory
  <2>2. Snapshot' = Snapshot
    BY <1>19 DEF BeginWrite, memory, Snapshot
  <2>3. Coherent(disk)' /\ Coherent(writing.list)'
    BY <1>1, <2>1, SnapshotIs DEF FileFollows, Coherent
  <2> QED
    BY <2>1, <2>2, <2>3, <1>19 DEF BeginWrite, DownIsBlank, FileFollows, SavedFollows
<1>20. CASE WriteLands
  <2>1. disk' = writing.list /\ writing'.list = {} /\ ~writing'.saving /\ cron' = cron
    BY <1>20 DEF WriteLands, memory, Nothing
  <2>2. Snapshot' = Snapshot
    BY <1>20 DEF WriteLands, memory, Snapshot
  <2>3. Coherent(disk)' /\ Coherent(writing.list)'
    BY <1>1, <2>1 DEF FileFollows, Coherent
  <2> QED
    BY <1>1, <2>1, <2>2, <2>3, <1>20 DEF WriteLands, DownIsBlank, FileFollows, SavedFollows
<1>21. CASE Stop
  BY <1>21, FileKept DEF DownIsBlank, Stop, file
<1>22. CASE Exit
  <2>1. ~asked' /\ ~writing'.saving /\ writing'.list = {} /\ phase' = "down"
    BY <1>22 DEF Exit, Nothing
  <2>2. Coherent(disk)' /\ Coherent(writing.list)'
    BY <1>1, <2>1, <1>22 DEF Exit, FileFollows, Coherent
  <2> QED
    BY <2>1, <2>2 DEF DownIsBlank, FileFollows, SavedFollows
<1>23. CASE Load
  <2>1. ~asked' /\ ~writing'.saving /\ disk' = disk /\ writing' = writing /\ cron' = cron
    BY <1>1, <1>23 DEF Load, DownIsBlank, file
  <2>2. Coherent(disk)' /\ Coherent(writing.list)'
    BY <1>1, <2>1 DEF FileFollows, Coherent
  <2>3. ASSUME NEW x \in disk
        PROVE  /\ x.id \in listed'
               /\ x = [id |-> x.id, cron |-> cron[x.id], enabled |-> enabled'[x.id]]
    <3>1. x \in Saved /\ x.cron = cron[x.id]
      BY <1>1 DEF TypeOK, FileFollows, Coherent
    <3>2. enabled'[x.id] = x.enabled
      <4>1. enabled'[x.id] = \E y \in disk : y.id = x.id /\ y.enabled
        BY <3>1, <1>23 DEF Load, Saved
      <4>2. \A y \in disk : y.id = x.id => y = x
        BY <1>1 DEF FileFollows, Coherent
      <4>3. x.enabled \in BOOLEAN
        BY <3>1 DEF Saved
      <4> QED
        BY <4>1, <4>2, <4>3
    <3> QED
      BY <3>1, <3>2, <1>23 DEF Load, Saved
  <2>4. disk \subseteq Snapshot'
    BY <2>1, <2>3 DEF Snapshot
  <2>5. Snapshot' \subseteq disk
    <3> SUFFICES ASSUME NEW s \in listed'
                 PROVE  [id |-> s, cron |-> cron[s], enabled |-> enabled'[s]] \in disk
      BY <2>1 DEF Snapshot
    <3>1. PICK x \in disk : x.id = s
      BY <1>23 DEF Load
    <3> QED
      BY <2>3, <3>1
  <2> QED
    BY <2>1, <2>2, <2>4, <2>5, <1>23 DEF Load, DownIsBlank, FileFollows, SavedFollows
<1>24. CASE Tick
  BY <1>1, <1>24 DEF Tick, memory, file, DownIsBlank, FileFollows, SavedFollows, Coherent,
     Snapshot
<1>25. CASE UNCHANGED vars
  BY <1>1, <1>25 DEF vars, memory, file, DownIsBlank, FileFollows, SavedFollows, Coherent,
     Snapshot
<1> QED
  BY <1>11, <1>12, <1>13, <1>14, <1>15, <1>16, <1>17, <1>18, <1>19, <1>20, <1>21, <1>22,
     <1>23, <1>24, <1>25
  DEF Next, Operate, Run

(* The inductive invariant.                                                 *)
THEOREM InvariantHolds == Spec => []IInv
<1>1. Init => IInv
  BY InitIInv
<1>2. IInv /\ [Next]_vars => IInv'
  BY TypeStep, ArmedStep, TimerStep, FileStep DEF IInv
<1> QED
  BY <1>1, <1>2, PTL DEF Spec

(* The variables keep their types, and no more than MaxConcurrent runs are  *)
(* awaited at once, however many timers go off and runs are asked for.      *)
THEOREM TypeCorrect == Spec => []TypeOK
<1>1. IInv => TypeOK
  BY DEF IInv
<1> QED
  BY <1>1, InvariantHolds, PTL

(* In a daemon that is up, an enabled schedule always has its timer on its  *)
(* very next occurrence, for any cron, week and day length.                 *)
THEOREM EnabledStaysArmed == Spec => []EnabledIsArmed
<1>1. IInv => EnabledIsArmed
  BY DEF IInv
<1> QED
  BY <1>1, InvariantHolds, PTL

(* A paused schedule never has a timer.                                     *)
THEOREM PausedStaysQuiet == Spec => []PausedIsQuiet
<1>1. IInv => PausedIsQuiet
  BY DEF IInv
<1> QED
  BY <1>1, InvariantHolds, PTL

(* Once its writes have landed, schedules.json is the list in memory, in    *)
(* this life of the daemon and after every restart.                         *)
THEOREM FileIsTheList == Spec => []SavedFollows
<1>1. IInv => SavedFollows
  BY DEF IInv, FileFollows
<1> QED
  BY <1>1, InvariantHolds, PTL

(* A timer never starts a run for an instant that was served before.        *)
THEOREM ServedOnce == Spec => OncePerOccurrence
<1>1. IInv /\ [Next]_vars =>
          [\A s \in Sched : TimerFires(s) =>
               served[s] = NoTime \/ served[s] < timer[s]]_vars
  BY DEF IInv, ServedBefore, TimerFires, Due, Fire
<1> QED
  BY <1>1, InvariantHolds, PTL DEF Spec, OncePerOccurrence
=============================================================================
