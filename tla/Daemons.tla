------------------------------ MODULE Daemons -------------------------------
(***************************************************************************)
(* The daemon processes of one host: what starts one (the operator, the    *)
(* service manager, a predecessor that re-executes itself), the pid file   *)
(* and the control socket that keep a second one out, and the ways one     *)
(* ends (a signal, a crash, repair/restart/server, an update).             *)
(*                                                                         *)
(* cli/src/commands/daemon.ts, daemon/pid.ts, daemon/control-server.ts,    *)
(* lib/reexec.ts, lib/service.ts, and the boot and exit of daemon-main.ts. *)
(* A step is what a process runs between two awaits.                       *)
(***************************************************************************)
EXTENDS Naturals, FiniteSets

CONSTANTS
    Process,    \* processes that may be born (interchangeable)
    None        \* no process

NoneAssumption == None \notin Process

VARIABLES
    pc,         \* where each process is
    handoff,    \* processes started with HISOHISO_REEXEC
    listening,  \* processes with an open listener
    path,       \* whose socket the file daemon.sock is, if there is one
    pidfile,    \* whose pid daemon.pid holds
    main,       \* the process the service manager watches, if it runs one
    serviced,   \* processes with HISOHISO_SERVICE in their environment
    lockless    \* ghost: a live socket was unlinked, or could not be bound

files == <<path, pidfile>>
manager == <<main, serviced>>
vars == <<pc, handoff, listening, files, manager, lockless>>

Phases == {"unborn", "check", "tidy", "probe", "wait", "setup", "bind", "unlink", "listen",
           "pid", "serve", "leaving", "closing", "unlinking", "unpid", "respawning",
           "exiting", "handover", "dead"}

Init ==
    /\ pc = [p \in Process |-> "unborn"]
    /\ handoff = {} /\ listening = {}
    /\ path = None /\ pidfile = None
    /\ main = None /\ serviced = {} /\ lockless = FALSE

Alive(p) == p # None /\ pc[p] \notin {"unborn", "dead"}

(* isControlSocketLive: somebody accepts on the path.                       *)
SocketLive == path # None /\ path \in listening

(* Processes whose control-room stream is open: they answer the phone.      *)
Answering == {p \in Process : pc[p] \in {"serve", "leaving", "handover"}}

Go(p, next) == pc' = [pc EXCEPT ![p] = next]

(* A process ends.  Its listener goes with it, the files stay.              *)
Ends(p) ==
    /\ Go(p, "dead")
    /\ listening' = listening \ {p}
-----------------------------------------------------------------------------
(* `hisohiso daemon start`, by the operator or by the service manager (at   *)
(* load, and whenever the process it watches has ended).                    *)
Start(p) ==
    /\ pc[p] = "unborn"
    /\ Go(p, "check")
    /\ \/ UNCHANGED manager
       \/ ~Alive(main) /\ main' = p /\ serviced' = serviced \cup {p}
    /\ UNCHANGED <<handoff, listening, files, lockless>>

(* daemonStart: isDaemonRunning reads the pid file and asks the kernel.     *)
Check(p) ==
    /\ pc[p] = "check"
    /\ IF Alive(pidfile) THEN Ends(p)
       ELSE /\ Go(p, IF pidfile = None THEN "probe" ELSE "tidy")
            /\ UNCHANGED listening
    /\ UNCHANGED <<handoff, files, manager, lockless>>

(* A stale pid file is removed.                                             *)
Tidy(p) ==
    /\ pc[p] = "tidy"
    /\ pidfile' = None
    /\ Go(p, "probe")
    /\ UNCHANGED <<handoff, listening, path, manager, lockless>>

(* runDaemon's guard: a live socket is a second instance, unless this is a  *)
(* handover.                                                                *)
Probe(p) ==
    /\ pc[p] = "probe"
    /\ Go(p, IF ~SocketLive THEN "setup" ELSE IF p \in handoff THEN "wait" ELSE "dead")
    /\ UNCHANGED <<handoff, listening, files, manager, lockless>>

(* It polls for five seconds, and gives up.                                 *)
Wait(p) ==
    /\ pc[p] = "wait"
    /\ Go(p, IF SocketLive THEN "dead" ELSE "setup")
    /\ UNCHANGED <<handoff, listening, files, manager, lockless>>

(* The control room is set up and the agent rooms are restored.  With no    *)
(* terminal and no knock to reuse the process gives up.  The handover flag  *)
(* is taken out of the environment.                                         *)
Setup(p) ==
    /\ pc[p] = "setup"
    /\ \E next \in {"bind", "dead"} : Go(p, next)
    /\ handoff' = handoff \ {p}
    /\ UNCHANGED <<listening, files, manager, lockless>>
-----------------------------------------------------------------------------
(* startControlServer: probe, unlink what is taken for stale, listen.       *)
BindProbe(p) ==
    /\ pc[p] = "bind"
    /\ Go(p, IF SocketLive THEN "dead" ELSE "unlink")
    /\ UNCHANGED <<handoff, listening, files, manager, lockless>>

Unlink(p) ==
    /\ pc[p] = "unlink"
    /\ path' = None
    /\ lockless' = (lockless \/ SocketLive)
    /\ Go(p, "listen")
    /\ UNCHANGED <<handoff, listening, pidfile, manager>>

(* The path is free; or somebody took it since the unlink, and the process  *)
(* leaves to it.                                                            *)
Listen(p) ==
    /\ pc[p] = "listen"
    /\ IF path = None
       THEN path' = p /\ listening' = listening \cup {p} /\ Go(p, "pid")
       ELSE Go(p, "dead") /\ UNCHANGED <<path, listening>>
    /\ UNCHANGED <<handoff, pidfile, manager, lockless>>

(* Any other failure to bind is logged, and the daemon goes on without.     *)
ListenFails(p) ==
    /\ pc[p] = "listen"
    /\ Go(p, "pid")
    /\ lockless' = TRUE
    /\ UNCHANGED <<handoff, listening, files, manager>>

(* Only now is the pid file written, and the control room subscribed to.    *)
WritePid(p) ==
    /\ pc[p] = "pid"
    /\ pidfile' = p
    /\ Go(p, "serve")
    /\ UNCHANGED <<handoff, listening, path, manager, lockless>>
-----------------------------------------------------------------------------
(* SIGTERM or SIGINT: shutdown.  It closes the socket, removes the pid file *)
(* and exits.  Between a repair's answer and its exit it does nothing.      *)
Signal(p) ==
    /\ pc[p] = "serve"
    /\ Go(p, "closing")
    /\ UNCHANGED <<handoff, listening, files, manager, lockless>>

(* repair, restart and server: 400 ms for the answer, then the same close,  *)
(* and a successor.                                                         *)
ReExec(p) ==
    /\ pc[p] = "serve"
    /\ Go(p, "leaving")
    /\ UNCHANGED <<handoff, listening, files, manager, lockless>>

(* Where a close leads: an exit by signal removes the pid file first.       *)
AfterClose(p) == IF p \in handoff THEN "respawning" ELSE "unpid"

Teardown(p) ==
    /\ pc[p] = "leaving"
    /\ handoff' = handoff \cup {p}
    /\ Go(p, "closing")
    /\ UNCHANGED <<listening, files, manager, lockless>>

(* Mutant: the path is unlinked whoever it belongs to.                      *)
CloseBlindly(p) ==
    /\ pc[p] = "closing"
    /\ listening' = listening \ {p} /\ path' = None /\ Go(p, "unlinking")
    /\ UNCHANGED <<handoff, pidfile, manager, lockless>>

(* close(): only if the path is still this process's socket.                *)
Close(p) ==
    /\ pc[p] = "closing"
    /\ IF path = p
       THEN listening' = listening \ {p} /\ path' = None /\ Go(p, "unlinking")
       ELSE Go(p, AfterClose(p)) /\ UNCHANGED <<listening, path>>
    /\ UNCHANGED <<handoff, pidfile, manager, lockless>>

(* The listener's own close has unlinked the path; it is unlinked again.    *)
CloseUnlink(p) ==
    /\ pc[p] = "unlinking"
    /\ path' = None
    /\ lockless' = (lockless \/ SocketLive)
    /\ Go(p, AfterClose(p))
    /\ UNCHANGED <<handoff, listening, pidfile, manager>>

RemovePid(p) ==
    /\ pc[p] = "unpid"
    /\ pidfile' = None
    /\ Go(p, "exiting")
    /\ UNCHANGED <<handoff, listening, path, manager, lockless>>

(* reExecSelf: a detached child with the flag set, then 250 ms to the exit. *)
Spawn(p, child, next) ==
    /\ pc[child] = "unborn"
    /\ pc' = [pc EXCEPT ![p] = next, ![child] = "check"]
    /\ handoff' = (handoff \ {p}) \cup {child}
    /\ serviced' = IF p \in serviced THEN serviced \cup {child} ELSE serviced
    /\ UNCHANGED <<listening, files, main, lockless>>

Respawn(p, child) == pc[p] = "respawning" /\ Spawn(p, child, "exiting")

(* The updater swapped the binary.  Under the service manager the process   *)
(* just exits; else it re-executes itself, with everything still open.      *)
Update(p, child) ==
    /\ pc[p] = "serve" /\ p \notin serviced
    /\ Spawn(p, child, "handover")

UpdateService(p) ==
    /\ pc[p] = "serve" /\ p \in serviced
    /\ Ends(p)
    /\ UNCHANGED <<handoff, files, manager, lockless>>

Exit(p) ==
    /\ pc[p] \in {"exiting", "handover"}
    /\ Ends(p)
    /\ UNCHANGED <<handoff, files, manager, lockless>>

(* A crash, a SIGKILL, or a Ctrl+C before the handlers are installed.       *)
Crash(p) ==
    /\ Alive(p)
    /\ Ends(p)
    /\ UNCHANGED <<handoff, files, manager, lockless>>

(* `daemon stop` kills, when its wait is over, what the pid file named when *)
(* it began, and removes the file.  Every isDaemonRunning removes a stale   *)
(* one.                                                                     *)
ForceStop(p) ==
    /\ pc[p] \in {"serve", "leaving", "closing", "unlinking", "unpid", "respawning", "exiting",
                "handover"}
    /\ Ends(p)
    /\ pidfile' = None
    /\ UNCHANGED <<handoff, path, manager, lockless>>

Status ==
    /\ pidfile # None /\ ~Alive(pidfile)
    /\ pidfile' = None
    /\ UNCHANGED <<pc, handoff, listening, path, manager, lockless>>
-----------------------------------------------------------------------------
Run(p) ==
    \/ Check(p) \/ Tidy(p) \/ Probe(p) \/ Wait(p) \/ Setup(p)
    \/ BindProbe(p) \/ Unlink(p) \/ Listen(p) \/ WritePid(p)
    \/ Teardown(p) \/ Close(p) \/ CloseUnlink(p) \/ RemovePid(p) \/ Exit(p)
    \/ \E child \in Process : Respawn(p, child)

Next ==
    \/ \E p \in Process :
         \/ Start(p) \/ Run(p) \/ ListenFails(p)
         \/ Signal(p) \/ ReExec(p) \/ UpdateService(p) \/ Crash(p) \/ ForceStop(p)
         \/ \E child \in Process : Update(p, child)
    \/ Status

Spec == Init /\ [][Next]_vars
-----------------------------------------------------------------------------
TypeOK ==
    /\ pc \in [Process -> Phases]
    /\ handoff \subseteq Process /\ listening \subseteq Process
    /\ path \in Process \cup {None} /\ pidfile \in Process \cup {None}
    /\ main \in Process \cup {None} /\ serviced \subseteq Process /\ lockless \in BOOLEAN

(* One daemon answers the phone, through starts that race, handovers,       *)
(* updates, crashes and a service manager: two do only once a process has   *)
(* lost its socket to another's unlink, or could not bind one.              *)
OneAnswers == lockless \/ Cardinality(Answering) <= 1

(* What a process leaves behind keeps nobody out: a socket file without a   *)
(* listener is taken over, and one with a listener is not taken away by a   *)
(* process that closes its own.                                             *)
CloseSparesOthers ==
    [][\A p, q \in Process :
         (pc[p] = "closing" /\ pc'[p] # "closing" /\ path = q /\ q \in listening /\ q # p)
            => (path' = q)]_vars
=============================================================================
