----------------------------- MODULE Scheduler ------------------------------
(***************************************************************************)
(* The daemon's scheduler of recurring agent runs (cli/src/lib/            *)
(* scheduler.ts), what stops it (daemon-main.ts, shutdown) and its file    *)
(* (config.ts, saveSchedules).  A run ends, fails or is given up after its *)
(* timeout: the scheduler goes on in the same way.                         *)
(*                                                                         *)
(* One JavaScript thread: a step is what runs between two awaits.  Time is *)
(* counted in hours; a day has Hours of them, a week Week days.  A timer   *)
(* goes off at its instant or later, never before it.  Schedule ids are    *)
(* taken to be distinct.                                                   *)
(***************************************************************************)
EXTENDS Naturals, FiniteSets

CONSTANTS
    Sched,          \* schedules that may be added
    Crons,          \* what they may be added with
    Week, Hours,    \* days in a week, hours in a day
    MaxConcurrent,  \* maxConcurrent
    MaxTime,        \* bound on the clock
    MaxBoot,        \* bound on the daemon's lives
    NoTime          \* no such instant

ASSUME CalendarAssumption == Week \in Nat \ {0} /\ Hours \in Nat \ {0}
(* The cron forms that parseCron accepts; minutes are left out.              *)
Cron == [hour : 0..(Hours - 1), days : (SUBSET (0..(Week - 1))) \ {{}}]
ASSUME CronsAssumption == Crons \subseteq Cron
ASSUME BoundsAssumption ==
    /\ MaxConcurrent \in Nat \ {0} /\ MaxTime \in Nat
    /\ MaxBoot \in Nat /\ NoTime \notin Nat

VARIABLES
    phase,      \* the daemon: "up", "stopping" or "down"
    listed,     \* this.schedules
    cron,       \* what each schedule was added with
    enabled,
    nextRunAt,
    timer,      \* when the schedule's timer goes off
    running,    \* schedules whose fire is awaited
    byTimer,    \* those of them that a timer fired
    asked,      \* a save waits for its turn
    writing,    \* the list being written to schedules.json
    disk,       \* schedules.json
    now, boots,
    served      \* ghost: the last instant a timer started a run for

memory == <<listed, cron, enabled, nextRunAt, timer, running, byTimer>>
file == <<asked, writing, disk>>
vars == <<phase, memory, file, now, boots, served>>

Saved == [id : Sched, cron : Cron, enabled : BOOLEAN]
Nothing == [saving |-> FALSE, list |-> {}]

Init ==
    /\ phase = "up" /\ listed = {} /\ running = {} /\ byTimer = {}
    /\ cron \in [Sched -> Crons]
    /\ enabled = [s \in Sched |-> FALSE]
    /\ nextRunAt = [s \in Sched |-> NoTime] /\ timer = [s \in Sched |-> NoTime]
    /\ asked = FALSE /\ writing = Nothing /\ disk = {}
    /\ now = 0 /\ boots = 1 /\ served = [s \in Sched |-> NoTime]
-----------------------------------------------------------------------------
DayOf(t) == (t \div Hours) % Week

(* computeNextRunAt: the first of today and the next Week days, at the      *)
(* cron's hour, that is on one of its days and after the given instant.     *)
Candidate(c, from, i) == ((from \div Hours) + i) * Hours + c.hour

(* Mutant: today's instant counts although it has come.                     *)
FitsInclusive(c, from, i) ==
    Candidate(c, from, i) >= from /\ DayOf(Candidate(c, from, i)) \in c.days

Fits(c, from, i) ==
    Candidate(c, from, i) > from /\ DayOf(Candidate(c, from, i)) \in c.days
FirstFit(c, from, i) ==
    Fits(c, from, i) /\ \A j \in 0..(i - 1) : ~Fits(c, from, j)

(* Mutant: the scan stops a day early.                                      *)
ComputeNextShort(c, from) ==
    LET first == {i \in 0..(Week - 1) : FirstFit(c, from, i)}
    IN  IF first = {} THEN NoTime ELSE Candidate(c, from, CHOOSE i \in first : TRUE)

ComputeNext(c, from) ==
    LET first == {i \in 0..(Week + 1) : FirstFit(c, from, i)}
    IN  IF first = {} THEN NoTime ELSE Candidate(c, from, CHOOSE i \in first : TRUE)

(* arm: one timer per schedule, for its next instant.                       *)
Armed(timers, s) == [timers EXCEPT ![s] = ComputeNext(cron[s], now)]
Arm(s) ==
    /\ timer' = Armed(timer, s)
    /\ nextRunAt' = Armed(nextRunAt, s)

Persist == asked' = TRUE /\ UNCHANGED <<writing, disk>>
outside == <<phase, now, boots>>

Add(s) ==
    /\ phase # "down" /\ s \notin listed /\ timer[s] = NoTime /\ s \notin running
    /\ \A x \in disk : x.id # s
    /\ ~enabled[s]
    /\ listed' = listed \cup {s}
    /\ enabled' = [enabled EXCEPT ![s] = TRUE]
    /\ Arm(s) /\ Persist
    /\ UNCHANGED <<cron, running, byTimer, outside, served>>

(* Mutant: the change is not saved.                                         *)
PauseUnsaved(s) ==
    /\ phase # "down" /\ s \in listed /\ enabled[s]
    /\ enabled' = [enabled EXCEPT ![s] = FALSE]
    /\ nextRunAt' = [nextRunAt EXCEPT ![s] = NoTime]
    /\ timer' = [timer EXCEPT ![s] = NoTime]
    /\ UNCHANGED <<listed, cron, running, byTimer, file, outside, served>>

Pause(s) ==
    /\ phase # "down" /\ s \in listed /\ enabled[s]
    /\ enabled' = [enabled EXCEPT ![s] = FALSE]
    /\ nextRunAt' = [nextRunAt EXCEPT ![s] = NoTime]
    /\ timer' = [timer EXCEPT ![s] = NoTime]
    /\ Persist
    /\ UNCHANGED <<listed, cron, running, byTimer, outside, served>>

Resume(s) ==
    /\ phase # "down" /\ s \in listed /\ ~enabled[s]
    /\ enabled' = [enabled EXCEPT ![s] = TRUE]
    /\ Arm(s) /\ Persist
    /\ UNCHANGED <<listed, cron, running, byTimer, outside, served>>

(* remove: the record leaves the list; a run of it that is under way keeps  *)
(* the record, which is still enabled.                                      *)
Remove(s) ==
    /\ phase # "down" /\ s \in listed
    /\ listed' = listed \ {s}
    /\ timer' = [timer EXCEPT ![s] = NoTime]
    /\ Persist
    /\ UNCHANGED <<cron, enabled, nextRunAt, running, byTimer, outside, served>>
-----------------------------------------------------------------------------
(* Mutant: only the schedule's own run counts.                              *)
MayRunUncapped(s) == s \notin running

(* fireGuarded: no run while the last one goes on or MaxConcurrent do.      *)
MayRun(s) == s \notin running /\ Cardinality(running) < MaxConcurrent

(* runEphemeral: the agent runs for one prompt, in no room, until it ends   *)
(* or is given up after its timeout ...                                     *)
Fire(s) == running' = running \cup {s}

(* ... and the fire callback tells the control room how it went, which does *)
(* not matter to the scheduler.                                             *)
Fired(s) == running' = running \ {s}

Due(s) == phase # "down" /\ timer[s] # NoTime /\ timer[s] <= now

TimerFires(s) ==
    /\ Due(s) /\ MayRun(s)
    /\ Fire(s) /\ byTimer' = byTimer \cup {s}
    /\ timer' = [timer EXCEPT ![s] = NoTime]
    /\ served' = [served EXCEPT ![s] = timer[s]]
    /\ UNCHANGED <<listed, cron, enabled, nextRunAt, file, outside>>

(* Skipped: armed for the next instant at once.                             *)
TimerSkips(s) ==
    /\ Due(s) /\ ~MayRun(s)
    /\ Arm(s)
    /\ UNCHANGED <<listed, cron, enabled, running, byTimer, file, outside, served>>

RunNow(s) ==
    /\ phase # "down" /\ s \in listed /\ MayRun(s)
    /\ Fire(s)
    /\ UNCHANGED <<listed, cron, enabled, nextRunAt, timer, byTimer, file, outside, served>>

(* The awaited fire settles; the timer that fired it is set again, unless   *)
(* the schedule was paused meanwhile.                                       *)
Settle(s) ==
    /\ phase # "down" /\ s \in running
    /\ Fired(s) /\ byTimer' = byTimer \ {s}
    /\ IF s \in byTimer /\ enabled[s] THEN Arm(s) ELSE UNCHANGED <<timer, nextRunAt>>
    /\ Persist
    /\ UNCHANGED <<phase, listed, cron, enabled, now, boots, served>>

-----------------------------------------------------------------------------
(* saveSchedules: one write at a time, each of the list as it is when its   *)
(* turn comes (it is given the live list, not a copy).                      *)
Snapshot == {[id |-> s, cron |-> cron[s], enabled |-> enabled[s]] : s \in listed}

BeginWrite ==
    /\ phase # "down" /\ asked /\ ~writing.saving
    /\ writing' = [saving |-> TRUE, list |-> Snapshot]
    /\ asked' = FALSE
    /\ UNCHANGED <<phase, memory, disk, now, boots, served>>

WriteLands ==
    /\ phase # "down" /\ writing.saving
    /\ disk' = writing.list /\ writing' = Nothing
    /\ UNCHANGED <<phase, memory, asked, now, boots, served>>

(* shutdown: the timers are cleared; a run that settles before the process  *)
(* exits sets its own again.                                                *)
Stop ==
    /\ phase = "up"
    /\ phase' = "stopping"
    /\ timer' = [s \in Sched |-> NoTime]
    /\ UNCHANGED <<listed, cron, enabled, nextRunAt, running, byTimer,
                   file, now, boots, served>>

(* The process exits, after a stop or by a crash.                           *)
Exit ==
    /\ phase # "down"
    /\ phase' = "down"
    /\ listed' = {} /\ running' = {} /\ byTimer' = {}
    /\ enabled' = [s \in Sched |-> FALSE]
    /\ nextRunAt' = [s \in Sched |-> NoTime] /\ timer' = [s \in Sched |-> NoTime]
    /\ asked' = FALSE /\ writing' = Nothing
    /\ UNCHANGED <<cron, disk, now, boots, served>>

(* load: what was missed is skipped, the next instants are computed anew.   *)
Load ==
    /\ phase = "down" /\ boots < MaxBoot
    /\ phase' = "up" /\ boots' = boots + 1
    /\ listed' = {x.id : x \in disk}
    /\ enabled' = [s \in Sched |-> \E x \in disk : x.id = s /\ x.enabled]
    /\ timer' = [s \in Sched |->
                    IF enabled'[s] THEN ComputeNext(cron[s], now) ELSE NoTime]
    /\ nextRunAt' = timer'
    /\ UNCHANGED <<cron, running, byTimer, file, now, served>>

Tick ==
    /\ now < MaxTime
    /\ now' = now + 1
    /\ UNCHANGED <<phase, memory, file, boots, served>>

Operate(s) == Add(s) \/ Pause(s) \/ Resume(s) \/ Remove(s) \/ RunNow(s)
Run(s) == TimerFires(s) \/ TimerSkips(s) \/ Settle(s)
Next ==
    \/ \E s \in Sched : Operate(s) \/ Run(s)
    \/ BeginWrite \/ WriteLands \/ Stop \/ Exit \/ Load \/ Tick

Spec == Init /\ [][Next]_vars
-----------------------------------------------------------------------------
Instant == Nat \cup {NoTime}

(* The scheduler is well typed, a timer's run is one of the runs under way, *)
(* and never more than maxConcurrent of them go on (fireGuarded).           *)
TypeOK ==
    /\ phase \in {"up", "stopping", "down"}
    /\ listed \subseteq Sched /\ byTimer \subseteq running
    /\ running \subseteq Sched /\ Cardinality(running) <= MaxConcurrent
    /\ cron \in [Sched -> Cron] /\ enabled \in [Sched -> BOOLEAN]
    /\ nextRunAt \in [Sched -> Instant] /\ timer \in [Sched -> Instant]
    /\ asked \in BOOLEAN /\ now \in Nat /\ boots \in Nat
    /\ writing \in [saving : BOOLEAN, list : SUBSET Saved] /\ disk \subseteq Saved
    /\ served \in [Sched -> Instant]

Occurs(c, t) == t % Hours = c.hour /\ DayOf(t) \in c.days

(* Every enabled schedule has its timer set for its very next instant, or   *)
(* is being run by the timer that will be set again; nothing that pausing,  *)
(* resuming, skipping and settling do in between loses it.                  *)
EnabledIsArmed ==
    phase = "up" => \A s \in listed : enabled[s] /\ s \notin byTimer =>
        /\ timer[s] # NoTime /\ timer[s] = nextRunAt[s] /\ Occurs(cron[s], timer[s])
        /\ \A t \in (now + 1)..(timer[s] - 1) : ~Occurs(cron[s], t)

(* A paused schedule has no timer, even if it was paused, or paused and     *)
(* resumed, while the timer's run was under way.                            *)
PausedIsQuiet == \A s \in Sched : timer[s] # NoTime => enabled[s]

(* Once the writes have landed, schedules.json is the list.                 *)
SavedFollows ==
    phase # "down" /\ ~asked /\ ~writing.saving => disk = Snapshot

(* No instant of a schedule is served twice, by this daemon or the next.    *)
OncePerOccurrence ==
    [][\A s \in Sched : TimerFires(s) =>
          served[s] = NoTime \/ served[s] < timer[s]]_vars

=============================================================================
