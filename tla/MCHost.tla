------------------------------- MODULE MCHost -------------------------------
(* The daemon's host, side by side: a behaviour is one of the admissions to *)
(* an agent's room, of processes that would be the daemon, of its updates,  *)
(* of the control room, of the taps in it, or of the sync of the skills.    *)
EXTENDS AgentKnocks, TLC

CONSTANTS
    Process, Timer, Command, Room, KnockId, Agent, Schedule, File, None,
    Bundle,                     \* the files of each version of the skills
    MaxLife,                    \* the bound of ControlRoom
    MaxBatch, MaxTap, MaxJob    \* the bounds of Taps

VARIABLES
    which,      \* the part
    proc, handoff, listening, path, pidfile, main, serviced, lockless,
    run, tmp, binary, turns, gone, overlap, cutoff,
    phase, lives, leaving, room, fresh, obj, saving, file, mixed, alive, created, knocked,
    handler, open, auto, tapped,
    agents, scheds, posted, pending, dialog, taps, jobs, held, loose, answers,
    skills, manifest, sync, version, todo, prev, doomed, upTo, rough, late

admission == <<bound, boundKey, parsing, calls, parked, record, saves, now, knocks, crashes,
               asked, yes, minted, sent>>
socket == <<proc, handoff, listening, path, pidfile, main, serviced, lockless>>
update == <<run, tmp, binary, turns, gone, overlap, cutoff>>
control == <<phase, lives, leaving, room, fresh, obj, saving, file, mixed, alive, created,
             knocked, handler, open, auto, tapped>>
menu == <<agents, scheds, posted, pending, dialog, taps, jobs, held, loose, answers>>
skill == <<skills, manifest, sync, version, todo, prev, doomed, upTo, rough, late>>
all == <<which, admission, socket, update, control, menu, skill>>

(* Three versions of the skills; the third no longer has one of the files.  *)
ThreeVersions == <<{"f", "g"}, {"f", "g"}, {"f"}>>

D == INSTANCE Daemons WITH pc <- proc
U == INSTANCE Updater WITH Tick <- Timer, pc <- run, disk <- binary
R == INSTANCE ControlRoom WITH
    Device <- Key, saves <- saving, minted <- created, knocks <- knocked, parked <- open,
    taps <- tapped
T == INSTANCE Taps
K == INSTANCE SkillSync WITH Sync <- Call, disk <- skills, pc <- sync

ASSUME PartsAssumption ==
    /\ D!NoneAssumption /\ U!RunsAssumption /\ R!BoundAssumption
    /\ T!BoundsAssumption /\ K!BundleAssumption

(* Knocks on the control room are all alike.                                *)
Alike == Permutations(KnockId)

(* A bound: the first control room over two lives; or a second one after it *)
(* in the one life, where one phone knocks, and once on each.               *)
FirstRoom == CHOOSE r \in Room : TRUE

SecondBound ==
    /\ lives = 1 /\ FirstRoom \in created
    /\ Cardinality({knocked[k].dev : k \in KnockId} \ {None}) <= 1
    /\ \A r \in Room : Cardinality({k \in KnockId : knocked[k].room = r}) <= 1

ControlBound == created \subseteq {FirstRoom} \/ SecondBound

(* When no more answers can be sent, what else is selected cannot matter.   *)
TapBound == Cardinality(taps) < MaxTap \/ pending = <<>>

HostBound == ControlBound /\ TapBound

HostInit ==
    /\ which \in {"admission", "socket", "update", "control", "menu", "skill"}
    /\ Init /\ D!Init /\ U!Init /\ R!Init /\ T!Init /\ K!Init
    /\ \/ which = "menu"
       \/ agents \in [Agent -> {"unborn"}] /\ scheds \in [Schedule -> {"unborn"}]

Admits(A) ==
    which = "admission" /\ A /\ UNCHANGED <<which, socket, update, control, menu, skill>>
Hosts(A) ==
    which = "socket" /\ A /\ UNCHANGED <<which, admission, update, control, menu, skill>>
Updates(A) ==
    which = "update" /\ A /\ UNCHANGED <<which, admission, socket, control, menu, skill>>
Controls(A) ==
    which = "control" /\ A /\ UNCHANGED <<which, admission, socket, update, menu, skill>>
Tapping(A) ==
    which = "menu" /\ A /\ UNCHANGED <<which, admission, socket, update, control, skill>>
Syncs(A) ==
    which = "skill" /\ A /\ UNCHANGED <<which, admission, socket, update, control, menu>>

HostNext ==
    \/ Admits(Next) \/ Hosts(D!Next) \/ Updates(U!Next) \/ Controls(R!Next)
    \/ Tapping(T!Next) \/ Syncs(K!Next)

HostSpec == HostInit /\ [][HostNext]_all

(* Every variable has its type, in each part.                               *)
AllTypesOK == TypeOK /\ D!TypeOK /\ U!TypeOK /\ R!TypeOK /\ T!TypeOK /\ K!TypeOK

(* One daemon answers the phone, through starts that race, handovers,       *)
(* updates and crashes; and none that closes takes another's socket away.   *)
SocketIsOwned == []D!OneAnswers /\ D!CloseSparesOthers

(* What an update installs is whole and verified, and it ends the daemon    *)
(* upon no turn that it could see; both but for two runs that overlap.      *)
UpdatesAreSafe == U!InstalledIsVerified /\ U!ExitSparesTurns

(* A device is let in unasked, to a room of an agent or of control, only if *)
(* its knock was judged before the first was approved: never once the file  *)
(* says that the room is bound, in this life or a later one, and it goes on *)
(* saying so but for saves that overlap; a later device is admitted once    *)
(* for each tap.                                                            *)
AdmissionsAreEarned ==
    /\ [](BoundDeviceIsIn /\ BindingLasts /\ OneTapOneAdmission)
    /\ R!BindingIsKept /\ [](R!OneAdmissionPerTap /\ R!FileNamesRoom)

(* An agent is stopped by a hold on its own dialog, which answers once.     *)
TapsAreSound == T!StopsAreConfirmed /\ []T!OneAnswer

(* A sync keeps track of what it wrote and spares what the operator did.    *)
SkillsAreTracked == []K!WrittenIsTracked /\ K!EditsLast
=============================================================================
