----------------------------- MODULE SkillSync ------------------------------
(***************************************************************************)
(* The skill files of one agent directory (cli/src/lib/skill-sync.ts), as  *)
(* `wrap', `daemon start' and `skills install' keep them: every run writes *)
(* the files its version bundles, prunes what the manifest says an earlier *)
(* version wrote and nobody changed, and rewrites the manifest.  A run may *)
(* be killed anywhere, the operator edits the same files, and two runs may *)
(* overlap.                                                                *)
(***************************************************************************)
EXTENDS FiniteSets, Naturals

CONSTANTS
    Sync,       \* runs of the sync, each of the version installed when it begins
    File,       \* file names
    Bundle,     \* the files of each version
    None

Version == DOMAIN Bundle

(* Contents that are no version's: the operator's, and half a file.        *)
Edited == 0
Torn == Cardinality(Version) + 1

(* What a manifest tracks that a version has written.                      *)
Tracks(v) == [f \in Bundle[v] |-> v]

BundleAssumption ==
    /\ Cardinality(Version) \in Nat \ {0} /\ Version = 1..Cardinality(Version)
    /\ \A v \in Version : Bundle[v] \subseteq File /\ Tracks(v) # None
    /\ None \notin Nat

VARIABLES
    disk,       \* per file: whose content it has, or None
    manifest,   \* the files tracked with the version of their content, or None
    pc,         \* per run: idle, write, prune, remove, done
    version,    \* its version
    todo,       \* files it has not looked at yet
    prev,       \* the manifest it read
    doomed,     \* the file it found unchanged and removes next
    upTo,       \* the newest version that ran
    rough,      \* ghost: a run was killed, or overlapped another
    late        \* ghost: files the operator changed after the last look at them

run == <<pc, version, todo, prev, doomed>>
ghosts == <<rough, late>>
vars == <<disk, manifest, run, upTo, ghosts>>

Init ==
    /\ disk = [f \in File |-> None] /\ manifest = None
    /\ pc = [s \in Sync |-> "idle"] /\ version = [s \in Sync |-> None]
    /\ todo = [s \in Sync |-> {}] /\ prev = [s \in Sync |-> None]
    /\ doomed = [s \in Sync |-> None]
    /\ upTo = 1 /\ rough = FALSE /\ late = {}

Busy(s) == pc[s] \notin {"idle", "done"}
Go(s, to) == pc' = [pc EXCEPT ![s] = to]

-----------------------------------------------------------------------------
(* syncSkillIntoDir of the version installed, or of a later one.           *)
Begin(s) ==
    /\ pc[s] = "idle" /\ Go(s, "write")
    /\ \E v \in Version :
         /\ v >= upTo /\ upTo' = v
         /\ version' = [version EXCEPT ![s] = v]
         /\ todo' = [todo EXCEPT ![s] = Bundle[v]]
    /\ rough' = (rough \/ \E o \in Sync : Busy(o))
    /\ UNCHANGED <<disk, manifest, prev, doomed, late>>

(* A file with other content than the bundle's is written, whoever wrote   *)
(* that; one that has it already is left alone. *)
Write(s, f) ==
    /\ pc[s] = "write" /\ f \in todo[s]
    /\ disk' = [disk EXCEPT ![f] = version[s]]
    /\ todo' = [todo EXCEPT ![s] = @ \ {f}]
    /\ UNCHANGED <<manifest, pc, version, prev, doomed, upTo, ghosts>>

(* readManifest: none, or one that cannot be parsed, tracks nothing. *)
ReadManifest(s) ==
    /\ pc[s] = "write" /\ todo[s] = {} /\ Go(s, "prune")
    /\ prev' = [prev EXCEPT ![s] = manifest]
    /\ todo' = [todo EXCEPT ![s] = IF manifest = None THEN {} ELSE DOMAIN manifest]
    /\ UNCHANGED <<disk, manifest, version, doomed, upTo, ghosts>>

(* A tracked file that is not bundled any more is removed if its content   *)
(* is the one that was tracked when it is looked at. *)
PrunableAlways(s, f) == f \notin Bundle[version[s]]
Prunable(s, f) == f \notin Bundle[version[s]] /\ disk[f] = prev[s][f]

Examine(s, f) ==
    /\ pc[s] = "prune" /\ f \in todo[s]
    /\ todo' = [todo EXCEPT ![s] = @ \ {f}]
    /\ IF Prunable(s, f) THEN doomed' = [doomed EXCEPT ![s] = f] /\ Go(s, "remove")
       ELSE UNCHANGED <<doomed, pc>>
    /\ UNCHANGED <<disk, manifest, version, prev, upTo, ghosts>>

Remove(s) ==
    /\ pc[s] = "remove" /\ Go(s, "prune")
    /\ disk' = [disk EXCEPT ![doomed[s]] = None]
    /\ doomed' = [doomed EXCEPT ![s] = None]
    /\ UNCHANGED <<manifest, version, todo, prev, upTo, ghosts>>

(* The manifest is rewritten if it was missing or the hashes differ.       *)
Stale(s) == prev[s] = None \/ prev[s] # Tracks(version[s])

Track(s) ==
    /\ pc[s] = "prune" /\ todo[s] = {} /\ Go(s, "done")
    /\ manifest' = IF Stale(s) THEN Tracks(version[s]) ELSE manifest
    /\ UNCHANGED <<disk, version, todo, prev, doomed, upTo, ghosts>>

(* The run is killed, perhaps with a file or the manifest half written. *)
Die(s) ==
    /\ Busy(s) /\ Go(s, "done") /\ rough' = TRUE
    /\ manifest' \in {manifest} \cup (IF pc[s] = "prune" /\ todo[s] = {} THEN {None} ELSE {})
    /\ disk' \in {disk} \cup {[disk EXCEPT ![f] = Torn] :
                               f \in IF pc[s] = "write" THEN todo[s] ELSE {}}
    /\ doomed' = [doomed EXCEPT ![s] = None]
    /\ UNCHANGED <<version, todo, prev, upTo, late>>

-----------------------------------------------------------------------------
(* `skills uninstall' and `hisohiso uninstall' remove the directory.       *)
Uninstall ==
    /\ disk' = [f \in File |-> None] /\ manifest' = None
    /\ rough' = (rough \/ \E s \in Sync : Busy(s))
    /\ UNCHANGED <<run, upTo, late>>

(* The operator changes, adds or deletes a file. *)
Edit(f, to) ==
    /\ to \in {Edited, None} /\ disk' = [disk EXCEPT ![f] = to]
    /\ late' = IF \E s \in Sync : doomed[s] = f THEN late \cup {f} ELSE late
    /\ UNCHANGED <<manifest, run, upTo, rough>>

Next ==
    \/ \E s \in Sync :
         \/ Begin(s) \/ ReadManifest(s) \/ Remove(s) \/ Track(s) \/ Die(s)
         \/ \E f \in File : Write(s, f) \/ Examine(s, f)
    \/ Uninstall
    \/ \E f \in File, to \in {Edited, None} : Edit(f, to)

Spec == Init /\ [][Next]_vars

-----------------------------------------------------------------------------
TypeOK ==
    /\ disk \in [File -> Version \cup {Edited, Torn, None}]
    /\ manifest = None \/ manifest \in {Tracks(v) : v \in Version}
    /\ pc \in [Sync -> {"idle", "write", "prune", "remove", "done"}]
    /\ version \in [Sync -> Version \cup {None}] /\ upTo \in Version
    /\ todo \in [Sync -> SUBSET File] /\ doomed \in [Sync -> File \cup {None}]
    /\ rough \in BOOLEAN /\ late \subseteq File

(* What a sync wrote stays known to the manifest with the content it has,  *)
(* so that a later version can prune it: no file of an old version is left *)
(* behind for good, unless a run was killed before its manifest or two     *)
(* runs crossed.                                                           *)
WrittenIsTracked ==
    ~rough /\ (\A s \in Sync : ~Busy(s)) =>
        \A f \in File : disk[f] \in Version =>
            manifest # None /\ f \in DOMAIN manifest /\ manifest[f] = disk[f]

(* "prunes only files it wrote": a file of the operator goes only where    *)
(* the version bundles one of that name, where he deletes or uninstalls    *)
(* it, or where he changed it between the look at it and its removal.      *)
EditsLast ==
    [][\A f \in File : disk[f] = Edited /\ disk'[f] # Edited =>
          \/ \E s \in Sync :
               (doomed[s] = f /\ f \in late) \/ (pc[s] = "write" /\ f \in Bundle[version[s]])
          \/ Uninstall \/ Edit(f, None)]_vars

(* docs/agent-skills.md: the sync "never clobbers operator edits".         *)
NeverClobbers ==
    [][\A f \in File : disk[f] = Edited /\ disk'[f] # Edited =>
          Uninstall \/ Edit(f, None)]_vars
=============================================================================
