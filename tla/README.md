# hisohiso in TLA+

hisohiso is end-to-end encrypted chat between phones, and between a phone and
coding agents on a workstation. A PHP relay holds rooms and forwards ciphertext,
a Mercure hub pushes it, a daemon (TypeScript, `cli/`) bridges rooms to agent
processes, and a web app (`app/`) is the phone. This directory models the parts
whose correctness depends on what happens *between* steps: requests that
interleave at SQL statements, callbacks that interleave at `await`s, writes that
land late, processes that die. TLC checks small instances; TLAPS proves the
theorems in the `...Proofs` modules for all of them.

Paths below are relative to the repository. `PROJECT.json` maps every definition
to the lines it models and lists hazards, runs, mutants and theorems.

## 1. Inventory

| Part | State it keeps | Operations | What makes it correct |
| --- | --- | --- | --- |
| Relay: catch-up outbox (`server/outbox.php`, `server/index.php`) | `rooms.catch_up_enabled`, one SQLite file per room, its write lock | POST /message, GET /outbox, POST /settings, /disband, POST /api/rooms | a wipe is final; off means empty; a toggle is heard only after its wipe; cap and expiry |
| Relay: membership (`server/index.php`, `db.php`) | `rooms`, `participants`, `presence`, two prune markers | create, /approve, /presence (claim, ping), /leave, /disband, every member request | only owners of a claimed token act; revoked is revoked; a ping counts for as long as skipped and delayed writes allow |
| Relay: push (`server/push.php`, `app/src/lib/push.ts`) | endpoints and foreground marks per room; the phone's flag per room | subscribe, unsubscribe, mark, unmark, notify | a wake-up is held back only for a phone that looks; no endpoint is kept of a phone that did not ask |
| Relay: rate limit (`server/rate_limit.php`) | a secret file, a counter per address and window | hit, prune | no window lets through more than its limit |
| Hub (Mercure; external) | open streams | publish, replay after `Last-Event-ID` | events reach open streams only |
| Daemon: turns (`agent-manager.ts`) | `pending`, `running`, `seenMsgIds` | onChat, runTurn, persist | no message runs twice; none is stranded |
| Daemon: statuses and output of a turn (`agent-stream.ts`, `turn-status.ts`, `agent-process.ts`; the phone's bubble) | the process's output, a status number; the last number seen, the bubble | read a line, emit, finish, parse; apply, sweep | the answer is the whole answer; a bubble ends with the work |
| Daemon: admission to agent rooms (`agent-manager.ts`) | `bound`, `boundPubkey`, parked knocks | onKnock, approve, the operator's tap | one device without a tap; a binding lasts |
| Daemon: rooms and `rooms.json` (`agent-manager.ts`, `config.ts`) | session map, write chain, file | spawn, kill, destroy, reconcile, detach, restore | the file ends equal to the map; a kill is final; ghosts go |
| Daemon: scheduler (`scheduler.ts`) | schedules, timers, running set, file | add, pause, resume, remove, run now, fire, stop, load | enabled means armed for the very next time; never twice; the file follows |
| Daemon: control room (`daemon-main.ts`) | the room's identity and binding, the state file, parked knocks | boot, create, knocks, taps, destroy, re-pair | a room that the file says is bound stays bound, and the file ends equal to the state; one admission per tap |
| Daemon: commands (`daemon-main.ts`; the phone's block components) | agents and schedules; messages with buttons on the phone | list, start, stop, confirm, schedules | an agent stops only by its own dialog; one dialog answers once |
| Daemon: single instance (`control-server.ts`, `pid.ts`, `reexec.ts`, `commands/daemon.ts`) | socket, pid file, service manager | start, probe, bind, hand over, stop, crash | one daemon answers; no process takes another's socket |
| CLI: updater (`updater.ts`, `commands/update.ts`) | the binary, `<binary>.new` | tick, stage, verify, wait for idle, swap, exit | only verified binaries; never in the middle of a turn |
| CLI: skills (`skill-sync.ts`) | installed files, a manifest | sync, uninstall | what was written is tracked; what the operator did is spared |
| CLI: subscription (`sse-client.ts`) | EventSource, JWT, watchdog | connect, stall, 401, refresh, close | it comes back from every outage it can |
| CLI: wrap (`commands/wrap.ts`, `room-bridge.ts`) | one room, one child, its queue | pair, run, queue, interrupt, disband | each message once, none stranded |
| Phone: timeline (`RoomController.tsx`, `db.ts`) | message list, IndexedDB, stream, catch-up loops | open, switch, send, live event, catch-up, marker | what is saved is shown; what is fetched is kept; text is not replaced by a marker |
| Phone: joining (`RoomController.tsx`) | knock key, claim tag, token | knock, retry, token, ping | a claimed token is kept; a kicked phone wipes |
| Phone: composing (`RoomController.tsx`) | draft, pointer, reply queue, sends in flight | type, queue, send, dispatch, switch | a draft arrives once, in its room |
| Phone: answers to blocks (`room-message.ts`, `db.ts`, `RoomController.tsx`) | the message list, the history | answer, echo, catch-up, reload, delete | no secret in the history; what is shown is what was said |
| Phone: rooms on the device (`storage.ts`, `room-local-cleanup.ts`, pages) | the list of rooms, everything stored under a room | create, join, rename, leave, disband, destroy, forget | a room that is left leaves nothing; one that stays keeps its identity |
| Phone: app lock (`app-lock.ts`, `AppLock.tsx`, `AppLockSettings.tsx`) | configuration, session flag, navigation marker | launch, hide, return, navigate, unlock, set | away is locked; an open app stays open over its own navigation |
| Phone: message window (`useMessageWindow.ts`) | bounds into the list | grow, expand, jump, refill | never blank; the reader is not moved |
| Cryptography (`crypto.ts`) | keys | – | assumed |

How they meet. The phone and the daemon call the relay over HTTP; the relay
publishes events to the hub, which pushes them to the streams of a room (or, for
`/token`, to its lobby). The daemon writes `rooms.json`, `schedules.json` and its
own state and reads them at boot; daemons of one host meet in a socket's path, a
pid file and the binary. The phone writes IndexedDB and localStorage, which its
tabs and pages share. Nothing is shared otherwise.

What is hard in it:

* the relay is many PHP processes over two SQLite files, with one statement as
  the unit of atomicity, so every check-then-act over two statements can be split;
* the daemon and the phone are single-threaded, so every `await` is a point where
  other callbacks run and what was read before is stale;
* writes of the daemon's files are chained and land late; the daemon is restarted
  by updates, re-pairings and crashes; files of the host (socket, `.new`, manifests)
  are shared by processes that do not know of each other;
* the hub neither stores nor acknowledges: events are lost while a stream is
  broken, and may be delivered twice after it reconnects;
* the phone's pages are loaded, hidden and killed at any moment.

## 2. Modules

| Module | Models | State and actions against the code |
| --- | --- | --- |
| `Outbox` | the outbox and the handlers that reach it, one room hash | a request is a process with a program counter; one action per SQL statement or lock operation (`Reread`, `InsertCommit`, `Condemn`, `Wipe`...); `lock` is `BEGIN IMMEDIATE` on the room's file; `Expire` and `Newest` are the three statements of `outbox_expire_and_prune`; `Die` and `Busy` are a handler that stops, and a lock that times out |
| `CatchUpStore` | what the toggle promises, with no files or locks | the abstract store: keep while on, lose at any time, forget on switch-off |
| `Membership` | rooms, participants, presence, and both throttled prunes | a request is a process; a step is a statement; foreign-key cascades are in `DeleteRoom` and `Drop` |
| `Push` | one phone's push in its rooms, and the relay's rows | a toggle in two steps (`ToggleOn`/`ToggleOff`, `ToggleEnds`), the foreground effect (`Refresh`, `Marks`), requests in `net` that are served late, refused or lost; `Notify` is `push_notify_room` |
| `RateLimit` | the limiter | a request is a process: `Arrive` (prune), `Stamp` (the clock), the secret's `Create`/`WriteSecret`/`Reread`, `Hit` (the UPSERT) |
| `AgentTurns` | one agent session of the daemon | a step is what runs between two awaits: `Deliver` (before the decryption), `Enqueue` or `StartTurn` (after it), `EndTurn` (the drain loop's next batch), `WriteLands`; `Crash` and `Restart` |
| `TurnStatus` | a turn's process, its statuses, the phone's bubble | `Write`/`Read` of stdout, `Emit` with a number, posts that overtake each other (`Publish`), `ApplyStatus` and `ApplyReply` on the phone, `Reconcile` after a reconnect, the age sweep (`Age`, `Stale`) |
| `AgentOutput` | `parseBlockOutput` | output is a sequence of pieces (prose, a lone quote or brace, an envelope with its text or its room name first, with blocks or not, one cut short); `Scan` is `findBlockEnvelopes`, `Answer` the choice among envelopes, `Salvage` the fragment without one |
| `AgentKnocks` | admission of devices to an agent room | `Knock`, its judgement (`AdmitFirst`, `AdmitAgain`, `Park`), the three awaits of `approveAgentKnock` (`Mint`, `Wrap`, `Return`), the operator's `Resolve`, a restart |
| `RoomsFile` | the session map, `rooms.json`, the relay's rooms, over lives of the daemon | `spawn` in three steps, turns, `CloseSession` by kill, destroy or reconcile, `Detach`/`Exit`, `Crash`, `Boot` and the restore loop |
| `Scheduler` | recurring runs and `schedules.json` | `Add`, `Pause`, `Resume`, `Remove`, `RunNow`; a timer that fires or is skipped; `Settle`, the `finally` of a run; chained writes of the live list; `Stop`, `Exit`, `Load` |
| `ControlRoom` | the control room over lives and re-pairings | `Boot`, `Load` or `Create`, `Serve`; `OnKnock` and `Approved`, `ApproveFails` (the answer of `/token` may be all that was lost), `Resolve`; `Destroyed`, `Repair`, `Clear`; a save is asked for (`Save`), has its text (`FixText`) and is written (`SaveLands`), in whatever order with the others |
| `Taps` | the messages with buttons, and what they command | `Select`, `Send`, `Say` on the phone, the hold of the danger dialog (`StartHold`, `EndHold`, `Held`, `StrayFires`); `Deliver` and `Act` in the daemon, `OnAgent`, `OnSchedule`; `Post` of the next list |
| `Daemons` | several processes that would be the daemon | a process walks from `Start` over `Probe`, `Wait`, `Setup`, `BindProbe`, `Unlink`, `Listen`, `WritePid`; `Signal`, `ReExec`, `Update`, `Close`, `CloseUnlink`, `RemovePid`; a service manager's `Respawn` |
| `Updater` | ticks and `hisohiso update` over one `.new` | `Begin`, `Touch`, `Write`, `Verify`, `WaitIdle`, `Swap`, `Exit`; turns that begin and end |
| `SkillSync` | syncs of several versions into one directory | `Write`, `ReadManifest`, `Examine`, `Remove`, `Track`; `Die`, the operator's `Edit`, `Uninstall` |
| `Stream` | one subscription | `Connected`, `Unauthorized`, `Refreshed`, `RefreshFails`, `Stall`, `BadGateway`, `Close`; the network, the JWT and the membership around it are faults with a budget |
| `Wrap` | `hisohiso wrap` | pairing (`Knock`, `Approved`, `Wrapped`), inbound messages (`Deliver`, `Decrypted`), the turn and its drain loop (`AgentEnds`, `Posted`, `TurnEnds`), `Interrupt`, `Disbanded`, `Exit` |
| `Timeline` | a phone's message list, its IndexedDB rows, events and catch-ups | `Send`, `Sent`, live events (`Handle`), the catch-up loop (`Open`, `LoadLocal`, `Fetch`, `Ingest`, `Finish`), opening a room (`Enter`, `ReadHistory`, `Merge`) |
| `Join` | a phone's way into a room: knock, retry, token, claim | relay and approvers: `Approve`, `PostToken`, `Prune`, `Presence`; the page: `Load`, `Switch`, `SendKnock`, the token handler (`Heeds`, `Adopt`, `Admit`), `Render` (React tears down and starts effects), `Tick`, and what each answer does (`Confirmed`, `Wipe`, `Recognized`...) |
| `Channels` | the rooms a phone keeps | the room list's cards, the artifacts stored under each room; `Open`, `SwapTo`, `Create`, `JoinAction`, `Admit`, `Hear`; leaving and destroying as operations with awaits (`WipeStart`, `Clear`, `Erase`) |
| `Composer` | the draft, the pointer, the reply queue | `Type`, `OpenComposer`, `QueueReply`, `SendText`, `DispatchBatch`, and an answer: `SendSucceeds`, `SendIsRefused`, `SendIsUnanswered`; `EnterRoom` |
| `AppLock` | the lock over pages | `Launch`, `Hide`, `Return`, `Click`, `Unload` and `Mount`, `TryUnlock`, `Unlock`, the settings |
| `BlockResponses` | answers to blocks, from the wire to the screen and the history | `Post`, `Posted` (the answer to the POST), `Peer`; `Ingest` (an echo or a catch-up row), `Reload`, `Merge`, `Delete`; `Parsed`, `Redacted` and `Shown` are `parseRoomEnvelope`, `redactSecretsForStorage` and `formatBlockResponse` |
| `MessageWindow` | the bounds of what is rendered | `Arrive` changes the list; `Window` is the layout effect on it, `Effects` those after it; the sentinels and `JumpToLatest` |
| `TimelineProofs`, `MembershipProofs`, `SchedulerProofs`, `RoomsFileProofs` | theorems about one module | see section 5 |
| `AgentProofs`, `RelayProofs`, `HostProofs`, `PhoneProofs` | theorems about the sums below, part by part | see section 5 |
| `MCOutbox`, `MCMembership`, `MCRoomsFile`, `MCScheduler`, `MCTimeline` | instances of one module | symmetry sets, the crons of `Scheduler`, conjunctions of properties that ask one question |
| `MCRelay`, `MCAgent`, `MCHost`, `MCPhone` | several modules side by side; their own CONSTANTS are the bounds of the parts | see section 3 |

`Outbox` composes with `CatchUpStore` by refinement (`ImplementsToggle`). The
others are composed in what they share: `AgentTurns` and `RoomsFile` both model
the write chain of `rooms.json`, one with the ledger of a single room, the other
with the list of rooms; `TurnStatus` holds both ends, the daemon's and the
phone's, as `Push`, `Taps` and `Join` do; `Daemons` and `Updater` share the swap
and the exit, of which `Daemons` keeps the processes and `Updater` the files. A
message, a key or a room is a model value; ciphertext is left out, and "decrypts"
is a choice where the code has one. An operator named after another with a suffix
(`LockKeeping`, `CloseUnsaved`) is that definition with a plausible mistake in it;
PROJECT.json pairs every checked property with one that breaks it. They are never
part of `Next`.

## 3. Runs

| Run | Question | Bounds |
| --- | --- | --- |
| `Outbox_interleave` | do six kinds of requests, interleaved by statement, keep wipes final and the abstract toggle? | 4 requests at one instant, or 2 over a tick; 2 messages, cap 1 |
| `Relay_clock` | with time passing: do expiry, hard delete and cap take only what they should, and does every switch-off get its wipe? are pushes held back, and endpoints kept, only for cause? how much does a window let through? | store: 3 requests (appends, retries, switch-offs), 2 ticks. Push: 2 rooms, 2 endpoints, 2 requests under way, 1 lost, clock from 3 to 5. Limiter: 3 requests of 1 client, limit 1, windows of 2, clock to 3 |
| `Membership_requests` | do claims, pings, departures and prunes keep the tables in order? | 4 requests, 2 tokens, clock to 3, every lifetime and throttle within it; a touch takes at most 1 |
| `Agent_work` | do turns run each message once; is a reply whole; does a bubble end; does `wrap` strand nothing; does a subscription come back? | turns: 2 messages, ledger cap 1, 1 crash. Statuses: 2 turns, 2 lives, 1 line. Wrap: 2 phones, 3 messages. Stream: floor 2, 5 faults. Outputs of up to 4 pieces |
| `Host_day` | who is let in; who has the socket; what is installed; what a tap does; which skill files go? | admissions: 2 devices, 4 knocks, 2 approvals at once, 1 crash. 3 processes. 2 ticks and 1 command of the updater. Control: 2 devices, 2 knocks; 1 room over 2 lives, or 2 rooms in 1 life. Taps: 1 agent, 1 schedule. Skills: 2 syncs, 3 versions, 2 files |
| `RoomsFile_lives` | spawns to boots, with liveness of closing ghosts | 2 rooms, 3 lives |
| `Scheduler_weeks` | every operation on schedules over a week's boundary and a restart | 2 schedules, 2 crons, 1 run at a time, 2-day weeks of 2 hours, clock to 3, 2 lives |
| `Timeline_page` | a reader switching rooms under two overlapping catch-ups, while rows age to markers | 2 rooms, 1 message of each side, 2 catch-up loops (overlapping until the phone sends), 2 connections, clock to 2 |
| `Phone_day` | is a phone in only with a seat or the tag to claim it; what does a wipe leave; what becomes of a draft; is a hidden app locked; is the window steady; what of a secret is kept? | joining: 2 rooms, 2 knocks, 2 tokens, 2 answering members, 1 retry, 2 lost answers, 3 loads or switches. Rooms: 3 (control, agent, chat), 6 acts. Composer: 3 rooms, 2 texts. Lock: 4 ticks. Window: 5 messages, pages of 1, cap 3. Answers: 2 messages of up to 2 blocks |
| `RoomsFile_stop` | (violation) a turn ending during shutdown | 2 rooms, 1 life |
| `Timeline_gap` | (violation) `since_ts` moved past a missed message | 1 message of each side |
| `Stream_deaf` | (violation) a refresh that fails | floor 2, 5 faults |

Side by side. `MCRelay`, `MCAgent`, `MCHost` and `MCPhone` hold several modules at
once: a variable `which` is chosen at the start and never changes, and each
behaviour is one of the chosen module, the variables of the others standing still.
The states of such a run are the sum of its parts', not their product: the parts
share no state in the code. A property of a part holds trivially in the behaviours
of another. `MCRelay`'s `Restful` and `MCAgent`'s `Brief` are the two restrictions
of a part that the sums make: in the quiet room the phone only looks, and a rotation of the
endpoint, a lost request and those under way are at most two; a process writes in the first of two
turns only.

Why the bounds suffice. The hazards are races of at most three parties: a wipe
against an append against another switch (four requests leave one to spare), two
claims of one token against a removal, a redelivery against a turn and a crash,
a closing process against one that starts and one that is handed over to. A cap of
1 reaches the limit with the second row; a ledger of 1 prunes with the second
message; a limit of 2 is passed by the third request. Lifetimes are chosen so that
each threshold is crossed, met and missed within the clock. Two crons, one of a
single weekday and one of every day, meet "today but too late", "next week" and
"tomorrow". Three lives of `RoomsFile` let a list that was restored once be read
again after a death during the restore. Three versions of the skills, the third
without a file, meet a prune and a rollback. In `Outbox_interleave` the clock
moves only while at most two requests came (`ClockBound`), as expiry is
`Relay_clock`'s question. `Phone_day` ends a behaviour where two unwraps meet or a
room is left during one (`SeatBound`): the three properties of a seat say nothing
from there on, and the proof of the types, which knows no such bound, goes on.
`MaxSave` bounds only the saves of ending turns.
The control room of `Host_day` meets a second boot with one room, or a second room within
one boot, where one phone knocks once on each (`ControlBound`): the two ways by which
the file and the room served may part.
`Join`'s two tokens and two knocks allow one answer too many, or one join after
another; three loads allow to leave a room, come back and reload between any two
steps.
The largest runs are
`Timeline_page` (3.4 million distinct states), `Membership_requests` and
`Scheduler_weeks` (1.4 each), `Host_day` (1.5, up to the
names of knocks), `Outbox_interleave` (1.3) and `Phone_day` (1.0). The theorems of section 5 hold without any of the bounds.

`CHECK_DEADLOCK FALSE` everywhere: the systems stop when their requests are
served or their budgets (clock, knocks, crashes, faults) are spent.

Fairness. `Outbox`: weak fairness of every step of a request that began; PHP runs
a handler to its end unless it dies (`Die` is among the steps), and SQLite's
busy handler retries until its timeout (`Busy`). `AgentTurns`: decryptions settle,
the agent ends its turn, a chained write lands. `TurnStatus`: what was posted is
published, what arrived is applied, and the age sweep, a timer, runs. `Stream`: the
EventSource connects when it can, an answer to a refresh arrives, the watchdog's
timer fires, the network comes back and time passes. `RoomsFile`: writes land,
restore goes on, spawns go on, turns end, and the five-minute reconciliation runs: a
timer and finite external calls. Arrivals, crashes, faults and operators are never
fair. In `MCAgent` conditions of different parts are joined in one disjunction: no
behaviour has steps of two parts, so fairness of the disjunction is fairness of each.
All other modules state safety only.

## 4. What the runs show

Passing runs: every property listed in PROJECT.json holds in its instance. Worth
knowing:

* the re-read of the flag under the file's lock is what makes a wipe final (the
  mutant without it fails); announcing after the wipe is what makes "off" truthful;
* `touch_presence`'s skipped write costs a member `Fresh - 1` of the `PresenceTtl` it
  is counted for after a ping, and a write that waited for the lock puts its old reading
  over a newer one: after a wait of `Wait` only `PresenceTtl - Wait` is left, which with
  a busy timeout of 60 seconds (per try) and a lifetime of 45 may be nothing;
* the ledger on disk is enough to stop a replay after a crash only from the moment
  the write has landed; `wrap` has no such write and needs none, as it has one life;
* a daemon that closes its socket is safe from taking another's away only because
  it looks whether the path is its own;
* what ends a bubble whose terminal status was lost is the age sweep alone;
* an update is verified from the file that will be installed, so that it is sound
  for one updater at a time, and only for one;
* `rooms.json` names a room that is served except during a boot;
* the mask is put on a secret where the history is written, once: the list on screen
  may hold an echo's plain answer until a reload, and draws it hidden.

Where a module has a ghost that excludes a case (`crossed`, `lockless`, `overlap`,
`rough`, `late`, `loose`, `mixed`, `cutoff`, `lost`), the code does go wrong in
that case; it is in the model, the ghost marks it, the property holds of the rest, and
the list below describes it.

Violations (findings in PROJECT.json):

* `StopKeepsRooms`: `detachAll` empties the map; a turn that ends before the
  process exits saves the empty map over `rooms.json`.
* `CatchUpLeavesNoGap`: `since_ts` counts the phone's own messages; one sent after
  a missed message hides it from the next catch-up.
* `SelfHeals`: a 401 closes the EventSource; the one refresh fails because the
  network is down; nothing connects or refreshes again. The same follows of a 401
  within the 30 s floor, and of any answer but 200 and 401, such as a 502.

Further differences between the code and what is said of it, met while modelling
and present in the models unless said otherwise, but without a run of their own.

Relay:

* `server/index.php:533` says active tokens skip the claim check, but the burn of a
  wrong claim (`delete_participant`) does not ask for `pending = 1`: a member that
  was activated since the row was read is removed (`Membership`, `Burn`).
* GET /outbox tests the flag before it opens the file; off and on again in between
  and it serves rows that are condemned (`docs/offline-catchup.md:45`).
* A worker that reads the rate limiter's secret file between its exclusive creation and
  its writing keys with a secret of its own (`rate_limit.php:41-45` says that every
  worker converges on the same; `RateLimit`, `OneSecret`): its requests are counted apart.
* A request that waited over a window's boundary sets the counter back when it counts
  itself, and more than the limit get through (`rate_limit.php:117`; `AtMostLimit`).
  `LimitHolds` says how many more.
* A wipe deletes rows, not the file (`README.md:29`); rooms that nobody disbands are
  never reaped (`docs/overview.md:92`, `docs/server.md:46`).

Daemon, turns and rooms:

* The save that a message's arrival asks for is not awaited: a crash before it lands
  forgets the message, and its replay runs again (`agent-manager.ts:819-820` says a
  crash cannot). Messages are queued in the order their decryptions end
  (`agent-manager.ts:891`); a failed "Queued" notice rejects `onChat`
  (`agent-manager.ts:895`); after a kill the drain loop still runs what was queued
  (`docs/cli.md:59`).
* A 503 during a boot drops the room (`api-client.ts:59-61`), and a message during
  the restore loop saves a partial list (`config.ts:192`).
* `attachToRoom` waits for the stream's first `onopen` only: a stream that never
  opens, or is closed by a kill before it does, stops a spawn or the boot's restore
  loop (`agent-manager.ts:956`).
* `session.bound` is read before `approveAgentKnock` is awaited and set after it, so
  two devices can both be admitted to an agent room without a tap
  (`agent-manager.ts:733`; `AgentKnocks` admits both). `Wrap` admits
  two in the same way (`wrap.ts:85-88`).
* The buffered run of an agent ends with the process's `exit`, not with the end of
  its output (`agent-process.ts:11-15` speaks of all of it): its last bytes can be lost.
* A lone envelope that is quoted in prose makes an earlier one shadow the answer
  (`AgentOutput`, `PreambleNeverShadows`; issue #187). The salvage of a cut output knows
  an envelope by `{"text":` (`agent-process.ts:188`): one that names the room first and
  is cut goes to the phone raw, as JSON. A title is committed before
  the reply is sent (`agent-manager.ts:976-979`): a failed send loses it. That last
  one is not in a model.
* The daemon's status numbers start again when it attaches; the phone discards
  numbers it has passed (`agent-manager.ts:79-81` calls the reset harmless). A status
  that is decrypted while the reader switches rooms shows under the next room.
* A schedule removed while its timer's run is awaited is armed again by the run's
  `finally`, and nothing can disarm it (`scheduler.ts:229-236`, `270-275`). The
  timeout of a run does not end its process, which no longer counts against
  `maxConcurrent` (`scheduler.ts:35`, `127`). Ids restart from 1 in each life and
  could collide; `Scheduler` takes them to be distinct.

Daemon, host:

* Probe, unlink and listen are not one step: two daemons that start together may
  both answer the phone, one of them with no socket (`control-server.ts:96-101`).
* A child that `reExecSelf` started finds its predecessor's pid alive in
  `daemonStart` and gives up (`daemon-main.ts:61-63` says it waits).
* Two updaters share `<binary>.new`: one renames what the other is still writing,
  unverified (`updater.ts:1-28`). A turn may begin between the idle check and the exit;
  `hisohiso update` does not look at all. A download that fails leaves its file.
* A 503 from the relay at boot makes the daemon pair anew, and the control room that
  was bound is orphaned (`daemon-main.ts:1284-1286`). A destroy event of the control
  room that is missed is not noticed later. A crash in the middle of
  `saveDaemonState` leaves half a file, and the next boot pairs anew. A tap on `Admit`, or `hisohiso admit`, that fails later is reported as an
  admission (`daemon-main.ts:215-221`).
* `saveDaemonState` makes its text when `writeFile` is called, and nothing orders two of
  them (`config.ts:153-156`). A new JWT's text, made before the binding, may land after
  the binding's: the file says that the room is unbound, and the next boot takes the next
  knock for the first (`config.ts:47`; `ControlRoom`, `BindingIsOnFile`). A shorter text
  over a longer one may also leave a file that nothing can parse. `mixed` marks both.
* The binding is looked up before the approval is awaited and set after it
  (`daemon-main.ts:477`, `513`): two devices that are judged in between are both let in
  without a tap (`daemon-main.ts:471-474`; `OneUnasked`).
* `docs/agent-skills.md:18-19` says the sync never clobbers the operator's edits;
  a version that bundles the file writes over it (`SkillSync`, `NeverClobbers`). A
  sync killed before its manifest, or two that cross, leave files that nothing
  prunes.
* In `wrap`, a reply or a notice that fails to be sent is a rejection nobody handles:
  the process ends and its room stays. What is sent between pairing and subscription
  is not fetched.

Phone:

* A reader who switches rooms while a token is being unwrapped: the handler stores the
  token for the old room but sets it, and `PARTICIPANT`, on the page of the new one
  (`RoomController.tsx:1202-1208`). The next ping asks the new room with the old room's
  token and tag, is refused, and wipes the new room, although its own token is good
  (`:1445`, "Either way the session is unrecoverable"). Two tokens that are unwrapped at
  once (two members answer, or a retry is answered) take two seats, and the first one's
  confirmation can drop the second one's tag (`:1442`): the page stays in with a dead
  token. `Join` has both; `crossed` marks them.
* A refused claim wipes the room and shows it as destroyed; the comment says "drop back
  to LOBBY so the user can re-knock" (`RoomController.tsx:1447-1448`).
* A marker may hide a message saved before a room switch (`RoomController.tsx:697-699`),
  a sent message is stamped again after a reload (`:678`), and an event decrypted across
  a switch is shown in the other room (`:919`).
* `room_created_by_me` is not among what a wipe clears
  (`room-local-cleanup.ts:18-19`); handlers under way can write after a wipe; a page
  load between clear and erase leaves the rows; a wipe that ends after a swap shows
  its end on the next room's screen (`Channels`).
* The reply queue and the draft survive a room switch (`docs/pwa-room-contracts.md:59`);
  replies queued during a dispatch are dropped with it (`Composer`, `RepliesStayHome`).
* Leaving a room leaves its push row; an endpoint can be sent to a room that was not
  asked for, by a toggle and a swap (`Push`, `EndpointStaysHome`); a hidden second tab
  takes back the mark of the visible one.
* A marker of a click that navigates nowhere, and a hide within five seconds, leave the
  app open (`storage.ts:199-201`); a page that takes longer than that to load is locked
  (`app-lock.ts:8-10`); an unlock that completes while hidden opens it (`AppLock`).
* Messages that arrive at the newest end grow the window past its `cap`
  (`useMessageWindow.ts:11`); deleting the newest while scrolled up resets it.
* A danger dialog's interval that lost its handle to a second finger answers after
  both are lifted (`ConfirmDangerBlock.tsx:33-36`; `Taps`, `StrayFires`).

## 5. Theorems

Every invariant and every action property that a passing run checks is a theorem; the
five that are not are liveness. The provers know no bound: any number of rooms,
requests, messages, processes and steps, any lengths of caps, lifetimes and windows
that the assumptions allow.

**The sums.** `MCRelay`, `MCAgent`, `MCHost` and `MCPhone` hold parts of which one is at
work in a behaviour. `RelayProofs`, `AgentProofs`, `HostProofs` and `PhoneProofs` prove an
inductive invariant for each part, over the part's own `Init` and `Next` (the lemmas
`...Begins`, `...Kept`), that a part at rest keeps its own (`...Still`), and by these
that the conjunction is kept by every step of the sum. An action property then
needs one more fact, that a step of the sum is a step of the part or leaves it alone.

`RelayProofs`. *The store* (`Outbox`). That no wiped row returns depends on requests
still under way. `IInv` adds who holds the lock and, with two ghosts, the argument. A row
carries `cut`, the number of condemning statements (switch-offs, disbands)
executed when its writer re-read the flag; an append that has re-read carries the
same in `seen`. `Current(c)` says that no finished wipe is later than `c`, and that
`c` is behind `cuts` unless the room is on. A finished wipe `k` held the lock after
condemnation `k`: whoever re-read before had committed and lost its row, whoever
re-reads later carries at least `k`. From it `WipedRowsNeverReturn`, `OffStoresNothing`,
`HeardAfterWipe`, `StoreIsBounded` (of `RowsBounded`, the cap alone, in no run),
`RowsAge`, and `StoreImplementsToggle`: each step is, for the rows not yet
condemned, a step of `CatchUpStore` or a stutter. *The limiter* (`LimitIsHeld`): each
late request allows `Limit` more of the windows it set the counter back over (`setbacks`,
`More`). Beyond those, the row of a window has counted every request let in, an earlier
row knows of none, a later one of `Limit` at most (`RowsCount`), and a request that has
its window is counted before the row can be pruned (`Timely`). *Pushes* (`PushesHaveCause`): a mark on its way
was sent by a page that shows the room, or did a tick ago (`MarksAreRecent`); a row of
the live endpoint in a room that is switched off is owed a removal, by a request or by
a toggle under way, or something was lost (`RowsOwed`).

`MembershipProofs`. An active row is an owner's, and an owner's row is active or
removed (`OwnersAreActive`): a creation mints its token owned, and the update of a claim
activates only a pending row. So whoever has passed its admission is an owner for
good, even if its row goes while the request runs (`PastAdmission`), and a claim under
way read a pending row (`ClaimsPending`). A clock reading under way is at most `Wait`
old (`StampsAreRecent`), so that a touch leaves `last_seen` less than `Fresh`, or at
most `Wait`, behind the latest reading of any touch that ended (`TouchIsFresh`).
Proved: `TypeCorrect`, `TablesStaySound`, `TokensStaySound`.

`AgentProofs`. *Turns*: what is on disk is at most `Cap` long, so that a restored ledger
drops nothing that is young, and every list on its way to the disk is covered by all
later ones (`LedgerFollows`, `Covers`): no late write takes an entry back. Then no
message is given twice in a life (`GivenOnce`) and none again from the ledger
(`MessagesRunOnce`, which includes `wrap`). *Output*: wherever the scan stands and the
rest is readable, it is outside a string, no brace is open, and no envelope was
missed (`ScanFollows`); so `RepliesAreWhole`, for outputs of any length, although the
parser is a loop: its state is the model's. *The runner*: what was written is what was
read and what is in the pipe. *The subscription* (`StreamsDeafForCause`) and *wrap's
queue* (`NothingWaitsIdle`).

`SchedulerProofs`. `NextOccurrence` proves `computeNextRunAt`: the scan of today and the
next `Week` days always finds a day that fits, and the first one is the first occurrence
after the given instant. It rests on quotient arithmetic (`QuotientOf`,
`WeekdayComes`) and on least elements. `IInv` adds to the checked invariants
that what was served is past and before any timer (`ServedBefore`), that a daemon
that is down has no save pending, and that the file and the list on its way to it
say one thing of each schedule (`FileFollows`); the restart needs the last. Proved:
`TypeCorrect`, `EnabledStaysArmed`, `PausedStaysQuiet` (of `PausedIsQuiet`, in no
run), `FileIsTheList`, `ServedOnce`.

`RoomsFileProofs`. What the file says says little while saves are on their way: the
invariant speaks of `Final`, the list it will hold once they have all landed, and of
`Named`, every room that some list on its way names. `FileFollows`: of a running
daemon, `Final` is the session map but for the rooms still being spawned, and a session
that any list names is in the last one too; so landing a save, which drops the first
list, loses nothing. `KillsLeave`: a kill whose save is on its way has left the map and
every later list, and one whose save has landed is in no list at all. It is
inductive because a save copies the map, from which the kill removed the room in the
same step, because saves land in order, and because a boot reads a file that has no older
list behind it. Proved: `FileStaysSound` and `SessionsLast`, whose two action parts
have a step for each of the actions that can end a session (`LossHasCause`) or
shorten the file (`ServedStaysListed`).

`HostProofs`. *Sockets* (`OneDaemonAnswers`): until one has lost its socket to another's
unlink (`lockless`), whoever serves, leaves or closes listens and owns the path
(`SocketIsHeld`), and two cannot. *Updates* (`InstallsAreSafe`): until two
runs meet in `<binary>.new` (`overlap`), one is there, and what waits for the rename is
whole and verified (`StagedIsVerified`). *Admissions* (`AdmissionsEarned`): a knock is
parked once with an open question (`OneButton`), and what was judged to be first was
sent a pass as such (`FirstIsIn`). The same of the control room, where in
addition the rooms that are still being judged or saved are the current one or gone
(`HandlersAreCurrent`, `SavesFollow`); a text that is under way alone says what the state
says, unless a save that has no text yet will; the file, where nothing landed over
another (`mixed`), says what the state says once no save of its room is left
(`FileFollows`); and whatever the state, the file or a text takes to be bound was let in
(`BoundIsIn`). *Taps* (`TapsMeanWhatTheySay`): an answer that says yes, in a tap or a
job, comes from a hold that went to its end (`YesIsHeld`). *Skills* (`SkillsTracked`): in
the middle of a sync every file is as the manifest says, or of the part that the
sync has gone over (`Clean`), until a run is killed or two cross (`rough`).

`PhoneProofs`. *Joining* (`SeatsHold`). `Seats` holds until two unwraps meet or a room
is left during one (`crossed`). A token that is stored, on the page, in a ping or in an
unwrapping was issued for that room (`Held`), and unless it is burned it is
the stored one; a page that is in has its seat, the tag to claim it, an init ping
under way that will tell, or shows an error (`Seated`). What makes it inductive is who can
be under way together: one token event at a time, of the page shown, of whose token
nothing else knows yet (`UnwrapsAreOne`); init's ping alone, while no tag is about
(`InitIsAlone`); the effect's pings, of the page it was started with (`OwnAreLive`). So a
ping without a tag never meets a tag, which is `LostForCause`. *Rooms*
(`RoomsStay`): of a room whose wipe was begun nothing is stored but what its erasure,
which is under way, will take (`Cleared`); an operation on its way to a dead screen is of
the room shown, unless one was swapped meanwhile (`Ends`); a write of the list
changes one entry, and that as its room's kind allows (`Lasts`). *Composer* (`DraftsSound`):
a text that was taken is neither the draft nor in flight nor, from a batch, queued,
unless a send of it was not answered (`TakenIsGone`, `BatchIsGone`); one send is in
flight. *Answers to blocks*: redaction leaves what is shown alone, an echo changes
only the clock. *Lock* (`LockAlwaysHolds`): a marker is set by the page that goes
(`Locking`). *Window* (`WindowStaysAlways`): list indices count from the newest
end, so that a list of which the old one is a suffix, or one a sentinel filled, shows a
reader the same slice (`ReaderStays`).

Assumptions are the named `ASSUME`s of the modules, and of the sums for their parts;
TLC evaluates them in the runs. They say that bounds are numbers (positive where the
code's are), that what stands for "none" is no member of the sets beside it, and what
the code's own constants satisfy: in `Outbox` soft expiry is not after the hard one, in
`RateLimit` a row is kept for a window at least, in `MessageWindow` a page is not larger
than the cap (50 and 150), in `Scheduler` crons are what `parseCron` accepts, in
`SkillSync` versions are numbered and bundle known files.

Only model-checked: liveness (`WipeFollows`, `NoneIsStranded`, `BubblesEnd`,
`StreamsHeal`, `GhostsGo`), which needs fairness and ENABLED, out of this prover's
reach; and the three properties that are violated. Induction over data is out of reach
as well and was not needed: where the code loops, the model's steps do.

## 6. Abstractions, and what is left out

* Time is a counter; a timer or an expiry may be observed late, never early.
* The hub is external: an event reaches the streams that are open; a stream that
  reconnects by itself may be given what it missed. So are the push service, the
  browser, the service manager and the agents' processes: a turn ends, or fails, some
  time after it starts.
* Cryptography works; a payload decrypts or not. Hashes, WebAuthn and signatures of
  updates are an answer that is yes or no.
* SQLite statements are atomic; a file's write lock is exclusive; writes of
  `rooms.json` and `schedules.json` are atomic renames that do not fail. The control
  room's state file and the skills are written in place, and modelled so.
* Phones' and relay's clocks agree in `Timeline`.
* In `Join` rooms live on, somebody is present in them, the browser has one tab, and a
  token wrapped for a knock's key unwraps.
* In `Timeline_page` two catch-up loops overlap (`OverlapBound`) until the phone sends
  a message of its own; from then on one runs at a time. The unbounded product has
  more than fifteen million states.

Not modelled:

* the relay: token encoding, the request format, what a push service answers, CORS;
* the daemon: the `daemon start --fresh` and `repair` commands, which unlink
  `rooms.json`; the messages on its control socket and the control plane's formatting
  of what they carry; provider-specific event names; the agent registry;
* code that nothing calls: `bridgeAgentToRoom`, and in the agent's process `parseLine`
  and `formatInboundForStdin`;
* the phone: the `/iam` commands and `sys-` messages; in `Timeline`, deleting a local copy; rejection and leaving while a join is under way;
  the drawing of blocks, layout, scroll anchoring;
* cryptography itself, static sites, build scripts, the end-to-end tests.

Properties kept in a module without a run. Some say what a doc or a comment says and
the code does not do; TLC finds each violated, and section 4 describes each case:
`OneSecret` and `AtMostLimit` (`RateLimit`), `BindingIsOnFile` and `OneUnasked`
(`ControlRoom`), `PreambleNeverShadows` (`AgentOutput`), `NeverClobbers` (`SkillSync`),
`EndpointStaysHome` (`Push`), `RepliesStayHome` (`Composer`), `OneDevice` (`Wrap`), `LockedOnceSelected` (`Taps`) and
`NavigationStaysOpen` (`AppLock`).

## 7. Plan

Done, the most important behaviour first: the relay's store and its refinement
(`Outbox`, `CatchUpStore`), `Membership`; the daemon's turns, admissions, rooms and
schedules; the phone's timeline and its way into a room; then pushes and rate limits,
statuses, outputs, `wrap` and its subscription; the control room, its messages, the
processes of the host, updates and skills; what a phone composes, answers, keeps, locks
and renders. Theorems of every invariant and action property that a run checks.

To follow:

1. Abstract specifications with a refinement, as `CatchUpStore` is to `Outbox`: one
   exclusive lock behind `Daemons`, at-most-once delivery behind `AgentTurns`, a log
   behind `Timeline`; each mapped on the invariant that is proved here.
2. Theorems of what the ghosts exclude: that a case that goes wrong leaves the rest of
   the state sound (for `crossed`, that the other rooms keep their seats).
3. Models: the control socket's commands beside the session map, several tabs of one
   phone, rejection and leaving while a join is under way.

## 8. Running it

    tlc -workers 2 -config Outbox_interleave.cfg MCOutbox
    tlc -workers 2 -config Host_day.cfg MCHost
    tlapm RoomsFileProofs.tla

A configuration belongs to the module that PROJECT.json names with it. The longest
runs (`Host_day`, `Timeline_page`, `Membership_requests`) take two to four minutes
with two workers; of the proofs from nothing `PhoneProofs` (5755 obligations) takes
about ten minutes and each of the others less than five.
