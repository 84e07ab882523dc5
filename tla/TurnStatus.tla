----------------------------- MODULE TurnStatus -----------------------------
(***************************************************************************)
(* One agent's turns as the phone sees them: the agent's process and the   *)
(* runner that reads it (cli/src/lib/agent-process.ts, agent-stream.ts,    *)
(* turn-status.ts), the ephemeral statuses the daemon posts without        *)
(* waiting for one another (daemon/agent-manager.ts, onStatus), and the    *)
(* "working" bubble of the phone (app/src/pages/RoomController.tsx).       *)
(*                                                                         *)
(* A status is posted, published by the relay at a timestamp, and applied  *)
(* by the phone after an await of its own: posts overtake one another or   *)
(* get lost, and so may what is decrypted.                                 *)
(***************************************************************************)
EXTENDS Naturals, Sequences, FiniteSets

CONSTANTS
    None,       \* no bubble, no status applied
    MaxTurn,    \* bound on the turns
    MaxLife,    \* bound on the daemon's lives
    MaxLine,    \* bound on the lines the process writes in a turn
    MaxSeq,     \* bound on the statuses of one life
    MaxTs       \* bound on the relay's publications

BoundsAssumption == {MaxTurn, MaxLife, MaxLine, MaxSeq, MaxTs} \subseteq Nat

VARIABLES
    streaming,  \* whether the agent's profile streams (Claude, Codex) or is buffered
    turn,       \* "idle", "run", "exited" (the process has) or "reply"
    nth,        \* turns begun
    life,       \* lives of the daemon
    pipe,       \* lines the process wrote that nobody has read
    wrote,      \* results among the lines it wrote
    got,        \* results read
    tool,       \* currentTool: a tool is running
    last,       \* the kind of the last status emitted (lastKey)
    quiet,      \* how long the stream has been quiet: "no", "quiet" or "stuck"
    seq,        \* session.statusSeq
    posts,      \* POSTs under way
    ts,         \* the relay's clock, one tick for each publication
    inbox,      \* events the phone has received and not applied
    lastSeq,    \* statusSeqRef of this sender
    lastMsg,    \* lastInboundMsgTsRef of this sender
    bubble,     \* its entry in agentStatuses: whose turn, its ts, whether it is old
    ended       \* ghost: turns whose terminal status this mount has applied

process == <<streaming, turn, nth, pipe, wrote, got>>
runner == <<tool, last, quiet>>
phone == <<inbox, lastSeq, lastMsg, bubble, ended>>
vars == <<process, life, runner, seq, posts, ts, phone>>

Init ==
    /\ streaming \in BOOLEAN
    /\ turn = "idle" /\ nth = 0 /\ life = 1
    /\ pipe = <<>> /\ wrote = 0 /\ got = 0
    /\ tool = FALSE /\ last = "none" /\ quiet = "no"
    /\ seq = 0 /\ posts = {} /\ ts = 0
    /\ inbox = {} /\ lastSeq = None /\ lastMsg = 0 /\ bubble = None /\ ended = {}
-----------------------------------------------------------------------------
(* onStatus: the next number, and a POST that nobody waits for.  The phone  *)
(* tells only a terminal status from the others.                            *)
Terminal == {"done", "failed"}

Status(kind, t) ==
    /\ seq < MaxSeq
    /\ seq' = seq + 1
    /\ posts' = posts \cup {[what |-> "status", ends |-> kind \in Terminal, seq |-> seq + 1,
                            turn |-> t, ts |-> 0]}

(* emit: a status of the same kind is not repeated, unless the heartbeat    *)
(* forces it.                                                               *)
Emit(kind) ==
    /\ last' = kind
    /\ IF kind = last THEN UNCHANGED <<seq, posts>> ELSE Status(kind, nth)

(* runTurn: the process is spawned, the bubble announced.                   *)
Begin ==
    /\ turn = "idle" /\ nth < MaxTurn
    /\ turn' = "run" /\ nth' = nth + 1
    /\ pipe' = <<>> /\ wrote' = 0 /\ got' = 0
    /\ tool' = FALSE /\ quiet' = "no" /\ last' = "starting"
    /\ Status("starting", nth + 1)
    /\ UNCHANGED <<streaming, life, ts, phone>>

(* parseClaudeStreamLine, parseCodexStreamLine: what the runner makes of    *)
(* the parts of a provider's stream.  "text" stands for the end of a tool,  *)
(* too, and "note" for what is only a sign of life: a session, an error.    *)
ClaudeLine ==
    [init |-> "note", text |-> "text", thinking |-> "text",
     tool_use |-> "tool", tool_result |-> "text", result |-> "result"]
CodexLine ==
    [thread_started |-> "note", item_started |-> "tool", item_completed |-> "text",
     agent_message |-> "result", turn_failed |-> "note", error |-> "note"]

Line ==
    {ClaudeLine[part] : part \in DOMAIN ClaudeLine} \cup
    {CodexLine[part] : part \in DOMAIN CodexLine}

(* The process (external) writes a line.                                    *)
Write(line) ==
    /\ turn = "run" /\ Len(pipe) < MaxLine /\ wrote < MaxLine
    /\ pipe' = Append(pipe, line)
    /\ wrote' = IF line = "result" THEN wrote + 1 ELSE wrote
    /\ UNCHANGED <<streaming, turn, nth, got, life, runner, seq, posts, ts, phone>>

(* spawnAgent, runCommand: the 'exit' event, or the 'error' of a process    *)
(* that could not start; it may come before the last lines do.              *)
ProcessExits ==
    /\ turn = "run"
    /\ turn' = "exited"
    /\ UNCHANGED <<streaming, nth, pipe, wrote, got, life, runner, seq, posts, ts, phone>>

(* applyEvent, for a line of a streaming agent; runCommand's 'data' event   *)
(* just collects.                                                           *)
Read ==
    /\ turn \in {"run", "exited"} /\ pipe # <<>>
    /\ LET line == Head(pipe) IN
       /\ pipe' = Tail(pipe)
       /\ got' = IF line = "result" THEN got + 1 ELSE got
       /\ IF ~streaming THEN UNCHANGED <<runner, seq, posts>>
          ELSE /\ quiet' = "no"
               /\ CASE line = "text" -> tool' = FALSE /\ Emit("working")
                    [] line = "tool" -> tool' = TRUE /\ Emit("tool")
                    [] OTHER -> UNCHANGED <<tool, last, seq, posts>>
    /\ UNCHANGED <<streaming, turn, nth, wrote, life, ts, phone>>

(* Twenty and ninety seconds without a line (a buffered agent: of running). *)
Quieten ==
    /\ turn \in {"run", "exited"} /\ quiet # "stuck"
    /\ quiet' = IF quiet = "no" THEN "quiet" ELSE "stuck"
    /\ UNCHANGED <<process, life, tool, last, seq, posts, ts, phone>>

(* The heartbeat, every ten seconds.                                        *)
Heartbeat ==
    /\ turn \in {"run", "exited"}
    /\ LET kind == IF quiet = "stuck" THEN "stuck"
                   ELSE IF streaming /\ tool THEN "tool"
                   ELSE IF quiet = "quiet" THEN "quiet"
                   ELSE IF streaming THEN "none" ELSE "working"
       IN kind # "none" /\ last' = kind /\ Status(kind, nth)
    /\ UNCHANGED <<process, life, tool, quiet, ts, phone>>

(* runStreamingTurn waits for the exit and for the end of stdout;           *)
(* runCommand for the exit alone.  The terminal status goes first.          *)
Finish ==
    /\ turn = "exited" /\ (streaming => pipe = <<>>)
    /\ turn' = "reply"
    /\ \E kind \in Terminal : last' = kind /\ Status(kind, nth)
    /\ UNCHANGED <<streaming, nth, pipe, wrote, got, life, tool, quiet, ts, phone>>

(* sendAgentOutput: all chunks of the output do to a bubble what the first  *)
(* does.                                                                    *)
SendAgentOutput(t) ==
    posts' = posts \cup {[what |-> "chat", ends |-> TRUE, seq |-> 0, turn |-> t, ts |-> 0]}

(* The output is sent, and the turn is over; or it cannot be.               *)
Reply ==
    /\ turn = "reply"
    /\ turn' = "idle"
    /\ SendAgentOutput(nth)
    /\ UNCHANGED <<streaming, nth, pipe, wrote, got, life, runner, seq, ts, phone>>

(* A crash, a stop or an update, and the restored session of the next life: *)
(* same room, same token, and a counter that starts over.                   *)
Restart ==
    /\ life < MaxLife /\ life' = life + 1
    /\ turn' = "idle" /\ seq' = 0
    /\ pipe' = <<>> /\ wrote' = 0 /\ got' = 0
    /\ tool' = FALSE /\ last' = "none" /\ quiet' = "no"
    /\ UNCHANGED <<streaming, nth, posts, ts, phone>>
-----------------------------------------------------------------------------
(* The relay publishes a post, and the phone's stream brings it, or it is   *)
(* lost, or the phone was away.                                             *)
Publish(p) ==
    /\ posts' = posts \ {p}
    /\ \/ ts < MaxTs /\ ts' = ts + 1
          /\ inbox' = inbox \cup {[p EXCEPT !.ts = ts + 1]}
       \/ UNCHANGED <<ts, inbox>>
    /\ UNCHANGED <<process, life, runner, seq, lastSeq, lastMsg, bubble, ended>>

Fresh(e) == lastSeq = None \/ e.seq > lastSeq

(* The handler of a status event, decrypted.                                *)
ApplyStatus(e) ==
    /\ e.what = "status" /\ inbox' = inbox \ {e}
    /\ IF ~Fresh(e) THEN UNCHANGED <<lastSeq, bubble, ended>>
       ELSE /\ lastSeq' = e.seq
            /\ IF e.ends
               THEN bubble' = None /\ ended' = ended \cup {e.turn}
               ELSE /\ bubble' = [turn |-> e.turn, ts |-> e.ts, old |-> FALSE]
                    /\ UNCHANGED ended
    /\ UNCHANGED <<process, life, runner, seq, posts, ts, lastMsg>>

(* An inbound message at or after the status replaces the bubble.           *)
ApplyReply(e) ==
    /\ e.what = "chat" /\ inbox' = inbox \ {e}
    /\ lastMsg' = IF e.ts > lastMsg THEN e.ts ELSE lastMsg
    /\ bubble' = IF bubble # None /\ e.ts >= bubble.ts THEN None ELSE bubble
    /\ UNCHANGED <<process, life, runner, seq, posts, ts, lastSeq, ended>>

(* The stream reopens: a status that was shown after the reply it precedes  *)
(* is dropped.                                                              *)
Reconcile ==
    /\ bubble # None /\ lastMsg >= bubble.ts
    /\ bubble' = None
    /\ UNCHANGED <<process, life, runner, seq, posts, ts, inbox, lastSeq, lastMsg, ended>>

(* Thirty seconds go by without a status ...                                *)
Age ==
    /\ bubble # None /\ ~bubble.old
    /\ bubble' = [bubble EXCEPT !.old = TRUE]
    /\ UNCHANGED <<process, life, runner, seq, posts, ts, inbox, lastSeq, lastMsg, ended>>

(* Mutant: a bubble goes stale only while a status is on its way.           *)
StaleNever ==
    /\ bubble # None /\ bubble.old /\ inbox # {}
    /\ bubble' = None
    /\ UNCHANGED <<process, life, runner, seq, posts, ts, inbox, lastSeq, lastMsg, ended>>

(* ... and the backstop drops it.                                           *)
Stale ==
    /\ bubble # None /\ bubble.old
    /\ bubble' = None
    /\ UNCHANGED <<process, life, runner, seq, posts, ts, inbox, lastSeq, lastMsg, ended>>

(* The phone goes to another room, or reloads: the maps are emptied; what   *)
(* is being decrypted is not.                                               *)
Remount ==
    /\ lastSeq # None \/ lastMsg > 0
    /\ lastSeq' = None /\ lastMsg' = 0 /\ bubble' = None /\ ended' = {}
    /\ UNCHANGED <<process, life, runner, seq, posts, ts, inbox>>

Apply == \E e \in inbox : ApplyStatus(e) \/ ApplyReply(e)

Next ==
    \/ Begin \/ ProcessExits \/ Read \/ Quieten \/ Heartbeat \/ Finish \/ Reply \/ Restart
    \/ \E line \in Line : Write(line)
    \/ \E p \in posts : Publish(p)
    \/ Apply \/ Reconcile \/ Age \/ Stale \/ Remount

(* The phone's timers and promises run, and the network loses or delivers.  *)
Fairness ==
    /\ WF_vars(Apply) /\ WF_vars(Age) /\ WF_vars(Stale)
    /\ WF_vars(\E p \in posts : Publish(p))

Spec == Init /\ [][Next]_vars /\ Fairness
-----------------------------------------------------------------------------
(* What a streaming agent answered is in the reply, however late its last   *)
(* lines are read.                                                          *)
AnswerIsRead == turn = "reply" /\ streaming => got = wrote

(* A status that arrives late does not bring back the bubble of a turn      *)
(* whose end the phone has seen.                                            *)
NoResurrection == bubble # None => bubble.turn \notin ended

(* Whatever was lost, and whenever the daemon died, a bubble does not       *)
(* outlive the work: it goes, or another turn's is shown.                   *)
BubblesEnd == (turn = "idle" /\ bubble # None) ~> (turn # "idle" \/ bubble = None)
=============================================================================
