-------------------------------- MODULE Taps --------------------------------
(***************************************************************************)
(* What the operator's taps do: the buttons and hold-to-confirm dialogs of *)
(* the phone (app/src/components/blocks) and the daemon's handling of the  *)
(* answers in the control room (cli/src/daemon/daemon-main.ts, ControlRoom *)
(* .handleControl), over the agents and schedules they act upon.           *)
(*                                                                         *)
(* A message once posted stays on the phone, and may be shown and answered *)
(* again at any time: the phone keeps what was answered only while the     *)
(* component is mounted.  The stream may lose, delay and repeat an answer, *)
(* and nothing on the daemon's side awaits the handler of the one before.  *)
(***************************************************************************)
EXTENDS Naturals, Sequences, FiniteSets

CONSTANTS
    Agent,      \* agent sessions, by their ids
    Schedule,   \* schedules, by their ids
    MaxBatch,   \* bound on the selections sent together
    MaxTap,     \* bound on the answers sent
    MaxJob      \* bound on the handlers at work

BoundsAssumption == {MaxBatch, MaxTap, MaxJob} \subseteq Nat \ {0}

VARIABLES
    agents,     \* each agent: "unborn", "up", "stopped" or "gone" (disbanded)
    scheds,     \* each schedule: "unborn", "on", "off" or "removed"
    posted,     \* the blocks the control room was ever sent
    pending,    \* selections of a mounted message that wait for Send
    dialog,     \* the hold-to-confirm dialog of each agent, as last mounted
    taps,       \* answers sent, each a sequence of responses
    jobs,       \* handlers at work: the responses left, and whether it posts
    held,       \* ghost: agents whose dialog saw a hold to its end
    loose,      \* ghost: agents whose dialog had two holds at once, was cancelled in a
                \* hold or left in one
    answers     \* ghost: how often each dialog has answered since it was mounted

phone == <<pending, dialog, taps>>
ghosts == <<held, loose, answers>>
vars == <<agents, scheds, posted, phone, jobs, ghosts>>

(* launcherBlock and helpButtonsBlock, agentRowBlock, scheduleRowBlock and  *)
(* killConfirmBlock.                                                        *)
Menu == [kind |-> "menu", of |-> "all", on |-> FALSE]
AgentRow(a) == [kind |-> "agent", of |-> a, on |-> TRUE]
ScheduleRow(s) == [kind |-> "schedule", of |-> s, on |-> scheds[s] = "on"]
Confirm(a) == [kind |-> "confirm", of |-> a, on |-> FALSE]

(* Agents and schedules of an earlier life; nothing tapped yet.             *)
Init ==
    /\ agents \in [Agent -> {"unborn", "up"}]
    /\ scheds \in [Schedule -> {"unborn", "on", "off"}]
    /\ posted = {Menu} /\ pending = <<>>
    /\ dialog = [a \in Agent |-> [live |-> FALSE, stray |-> FALSE, locked |-> FALSE]]
    /\ taps = {} /\ jobs = {}
    /\ held = {} /\ loose = {} /\ answers = [a \in Agent |-> 0]
-----------------------------------------------------------------------------
(* What the options of a row of buttons send.                               *)
Options(b) ==
    CASE b.kind = "menu" -> {[act |-> "spawn", of |-> a] : a \in Agent}
                              \cup {[act |-> "list", of |-> "all"],
                                    [act |-> "schedules", of |-> "all"]}
      [] b.kind = "agent" -> {[act |-> "join", of |-> b.of], [act |-> "kill", of |-> b.of]}
      [] b.kind = "schedule" -> {[act |-> IF b.on THEN "pause" ELSE "resume", of |-> b.of],
                                 [act |-> "run", of |-> b.of], [act |-> "del", of |-> b.of]}
      [] OTHER -> {}

(* The block_id of the row an option is on, without its prefix.             *)
Row(r) ==
    CASE r.act = "spawn" -> "launcher"
      [] r.act \in {"list", "schedules"} -> "help"
      [] OTHER -> r.of

Without(seq, i) == [j \in 1..(Len(seq) - 1) |-> IF j < i THEN seq[j] ELSE seq[j + 1]]

(* ButtonsBlock and handleSelect: the option waits for Send, in the place   *)
(* of the one tapped before on the same row (a Map keeps its order); tapped *)
(* again it is deselected.  A row that was sent is locked, but another      *)
(* message may show the same one.                                           *)
Select(b, r) ==
    LET rivals == {i \in DOMAIN pending : Row(pending[i]) = Row(r)} IN
    /\ b \in posted /\ r \in Options(b)
    /\ \/ rivals = {} /\ Len(pending) < MaxBatch /\ pending' = Append(pending, r)
       \/ \E i \in rivals :
            pending' = IF pending[i] = r THEN Without(pending, i)
                       ELSE [pending EXCEPT ![i] = r]
    /\ UNCHANGED <<agents, scheds, posted, dialog, taps, jobs, ghosts>>

Answer(batch) == Cardinality(taps) < MaxTap /\ taps' = taps \cup {batch}

(* submitAll and sendBlockResponses: one message for all of them.           *)
Send ==
    /\ pending # <<>>
    /\ Answer(pending) /\ pending' = <<>>
    /\ UNCHANGED <<agents, scheds, posted, dialog, jobs, ghosts>>

(* `kill <id>` typed as text; the other typed commands do what a tap does.  *)
Type(a) ==
    /\ Answer(<<[act |-> "kill", of |-> a]>>)
    /\ UNCHANGED <<agents, scheds, posted, pending, dialog, jobs, ghosts>>

(* Another room, another message, a reload.                                 *)
Unmount ==
    /\ pending' = <<>>
    /\ dialog' = [a \in Agent |->
           [live |-> FALSE, stray |-> dialog[a].live \/ dialog[a].stray, locked |-> FALSE]]
    /\ loose' = loose \cup {a \in Agent : dialog[a].live}
    /\ answers' = [a \in Agent |-> 0]
    /\ dialog' # dialog \/ pending # <<>>
    /\ UNCHANGED <<agents, scheds, posted, taps, jobs, held>>
-----------------------------------------------------------------------------
(* The dialog answers: at once, without waiting for Send.                   *)
Say(a, what) ==
    /\ Answer(<<[act |-> what, of |-> a]>>)
    /\ answers' = [answers EXCEPT ![a] = IF @ < 2 THEN @ + 1 ELSE @]

(* A finger or the mouse goes down: an interval begins.  A second finger    *)
(* starts another, and nothing leads to the first any more.                 *)
StartHold(a) ==
    /\ Confirm(a) \in posted /\ ~dialog[a].locked
    /\ dialog' = [dialog EXCEPT ![a].live = TRUE, ![a].stray = @ \/ dialog[a].live]
    /\ loose' = IF dialog[a].live THEN loose \cup {a} ELSE loose
    /\ UNCHANGED <<agents, scheds, posted, pending, taps, jobs, held, answers>>

EndHold(a) ==
    /\ dialog[a].live
    /\ dialog' = [dialog EXCEPT ![a].live = FALSE]
    /\ UNCHANGED <<agents, scheds, posted, pending, taps, jobs, ghosts>>

(* The interval has counted to a hundred.                                   *)
Held(a) ==
    /\ dialog[a].live
    /\ dialog' = [dialog EXCEPT ![a].live = FALSE, ![a].locked = TRUE]
    /\ Say(a, "yes") /\ held' = held \cup {a}
    /\ UNCHANGED <<agents, scheds, posted, pending, jobs, loose>>

(* So has one that was lost: it stops the interval it finds, itself only if *)
(* that is still its own, and else it answers again every 20 ms.            *)
StrayFires(a) ==
    /\ dialog[a].stray
    /\ \E stray, locked \in BOOLEAN, live \in {FALSE, dialog[a].live} :
         dialog' = [dialog EXCEPT ![a] = [live |-> live, stray |-> stray, locked |-> locked]]
    /\ dialog[a].locked => dialog'[a].locked
    /\ Say(a, "yes") /\ held' = held \cup {a}
    /\ UNCHANGED <<agents, scheds, posted, pending, jobs, loose>>

(* cancel, which leaves an interval running.                                *)
Cancel(a) ==
    /\ Confirm(a) \in posted /\ ~dialog[a].locked
    /\ dialog' = [dialog EXCEPT ![a].locked = TRUE]
    /\ Say(a, "no")
    /\ loose' = IF dialog[a].live THEN loose \cup {a} ELSE loose
    /\ UNCHANGED <<agents, scheds, posted, pending, jobs, held>>
-----------------------------------------------------------------------------
(* onChat: a handler of its own for every delivery.                         *)
Deliver(t) ==
    /\ t \in taps /\ Cardinality(jobs) < MaxJob
    /\ jobs' = jobs \cup {[left |-> t, posting |-> FALSE]}
    /\ UNCHANGED <<agents, scheds, posted, phone, ghosts>>

Set(f, x, from, to) == IF f[x] = from THEN [f EXCEPT ![x] = to] ELSE f

(* Mutant: a confirmation is a confirmation, whatever its value.            *)
OnAgentAnyway(r) ==
    CASE r.act \in {"yes", "no"} -> Set(agents, r.of, "up", "stopped")
      [] r.act = "spawn" -> Set(agents, r.of, "unborn", "up")
      [] OTHER -> agents

(* handleKillConfirmed and spawnAndAnnounce.  An id is given once.          *)
OnAgent(r) ==
    CASE r.act = "yes" -> Set(agents, r.of, "up", "stopped")
      [] r.act = "spawn" -> Set(agents, r.of, "unborn", "up")
      [] OTHER -> agents

OnSchedule(r) ==
    CASE r.act = "pause" -> Set(scheds, r.of, "on", "off")
      [] r.act = "resume" -> Set(scheds, r.of, "off", "on")
      [] r.act = "del" /\ scheds[r.of] # "unborn" -> [scheds EXCEPT ![r.of] = "removed"]
      [] OTHER -> scheds

(* handleControl up to its first reply.                                     *)
Act(j) ==
    /\ j \in jobs /\ ~j.posting
    /\ LET r == Head(j.left) IN
       /\ agents' = OnAgent(r) \/ (r.act = "spawn" /\ UNCHANGED agents)
       /\ scheds' = OnSchedule(r)
    /\ jobs' = (jobs \ {j}) \cup {[j EXCEPT !.posting = TRUE]}
    /\ UNCHANGED <<posted, phone, ghosts>>

(* What the answer to a response shows, as things are when it is made.      *)
Shown(r) ==
    CASE r.act = "kill" -> {Confirm(a) : a \in {x \in {r.of} : agents[x] = "up"}}
      [] r.act = "list" -> {AgentRow(a) : a \in {x \in Agent : agents[x] = "up"}}
      [] r.act \in {"schedules", "pause", "resume", "del"} ->
           {ScheduleRow(s) : s \in {x \in Schedule : scheds[x] \in {"on", "off"}}}
      [] OTHER -> {}

(* The reply; if it fails and the error's reply does too, what is left of   *)
(* the batch is dropped.                                                    *)
Post(j) ==
    LET left == Tail(j.left)
        Next(rest) == IF rest = <<>> THEN {} ELSE {[left |-> rest, posting |-> FALSE]}
    IN
    /\ j \in jobs /\ j.posting
    /\ \/ posted' = posted \cup Shown(Head(j.left)) /\ jobs' = (jobs \ {j}) \cup Next(left)
       \/ UNCHANGED posted /\ jobs' = (jobs \ {j}) \cup Next(left)
       \/ UNCHANGED posted /\ jobs' = jobs \ {j}
    /\ UNCHANGED <<agents, scheds, phone, ghosts>>

(* `schedule add`, from the room, the terminal or the phone's clock.        *)
AddSchedule(s) ==
    /\ scheds[s] = "unborn"
    /\ scheds' = [scheds EXCEPT ![s] = "on"]
    /\ UNCHANGED <<agents, posted, phone, jobs, ghosts>>

(* The agent's room is disbanded: by a destroy event, or found by a list.   *)
RoomGone(a) ==
    /\ agents[a] = "up"
    /\ agents' = [agents EXCEPT ![a] = "gone"]
    /\ UNCHANGED <<scheds, posted, phone, jobs, ghosts>>

Next ==
    \/ \E b \in posted : \E r \in Options(b) : Select(b, r)
    \/ Send \/ Unmount
    \/ \E a \in Agent :
         \/ Type(a) \/ RoomGone(a)
         \/ StartHold(a) \/ EndHold(a) \/ Held(a) \/ StrayFires(a) \/ Cancel(a)
    \/ \E t \in taps : Deliver(t)
    \/ \E j \in jobs : Act(j) \/ Post(j)
    \/ \E s \in Schedule : AddSchedule(s)

Spec == Init /\ [][Next]_vars
-----------------------------------------------------------------------------
Acts == {"spawn", "list", "schedules", "join", "kill", "pause", "resume", "run", "del",
         "yes", "no"}
Of == Agent \cup Schedule \cup {"all"}
Response == [act : Acts, of : Of]
Block == [kind : {"menu", "agent", "schedule", "confirm"}, of : Of, on : BOOLEAN]

(* What is sent, and what a handler has left of it, is never empty.         *)
TypeOK ==
    /\ agents \in [Agent -> {"unborn", "up", "stopped", "gone"}]
    /\ scheds \in [Schedule -> {"unborn", "on", "off", "removed"}]
    /\ posted \subseteq Block /\ pending \in Seq(Response)
    /\ dialog \in [Agent -> [live : BOOLEAN, stray : BOOLEAN, locked : BOOLEAN]]
    /\ taps \subseteq Seq(Response) \ {<<>>}
    /\ jobs \subseteq [left : Seq(Response) \ {<<>>}, posting : BOOLEAN]
    /\ held \subseteq Agent /\ loose \subseteq Agent /\ answers \in [Agent -> 0..2]

(* An agent is stopped only after a hold on its own dialog came to its end: *)
(* no Stop tap, no Cancel, no old or repeated answer about another does it. *)
StopsAreConfirmed ==
    [][\A a \in Agent : agents[a] # "stopped" /\ agents'[a] = "stopped" => a \in held]_vars

(* A mounted dialog answers once, unless two holds met, or one was going on *)
(* when it was cancelled or left.                                           *)
OneAnswer == \A a \in Agent : a \in loose \/ answers[a] <= 1

(* "Once selected locally, lock immediately."  (ConfirmDangerBlock.tsx:15)  *)
LockedOnceSelected == \A a \in Agent : answers[a] <= 1
=============================================================================
