----------------------------- MODULE AgentKnocks ----------------------------
(***************************************************************************)
(* Which devices the daemon lets into an agent room                        *)
(* (cli/src/daemon/agent-manager.ts: onKnock, approveAgentKnock,           *)
(* resolveAgentKnock).  The first device that knocks is admitted and binds *)
(* the room; every other one waits for the operator's tap.                 *)
(*                                                                         *)
(* A knock is its ephemeral public key: a phone that retries sends the     *)
(* same key and msg_id again.  Only knocks that decrypt and carry the      *)
(* operator's knock message are here; the others change nothing.  A token  *)
(* reaches its device over the lobby, which stores nothing.                *)
(***************************************************************************)
EXTENDS Naturals, FiniteSets

CONSTANTS
    Key,        \* ephemeral public keys of knocking devices
    Call,       \* identities for approveAgentKnock calls under way
    KnockTtl,   \* PENDING_KNOCK_TTL_MS, in ticks of the model's clock
    MaxTime,    \* bound on the clock
    MaxKnock,   \* bound on the knocks
    MaxCrash,   \* bound on the daemon's crashes
    NoKey       \* the room is not bound

ASSUME NoKeyAssumption == NoKey \notin Key
ASSUME BoundsAssumption ==
    KnockTtl \in Nat /\ MaxTime \in Nat /\ MaxKnock \in Nat /\ MaxCrash \in Nat

VARIABLES
    bound,      \* session.bound
    boundKey,   \* session.boundPubkey
    parsing,    \* the knocks whose decryption is awaited, per key
    calls,      \* the approvals under way: step, key and reason of each
    parked,     \* pendingAgentKnocks: keys awaiting the operator, with expiry
    record,     \* the key that rooms.json says the room is bound to
    saves,      \* a write of rooms.json is on its way
    now, knocks, crashes,
    asked,      \* ghost: how often the operator was asked about a key
    yes,        \* ghost: how often an approval began because of a tap
    minted,     \* ghost: the relay minted a token for the key
    sent        \* ghost: why each key was sent its token

daemon == <<bound, boundKey, parsing, calls, parked, saves>>
ghosts == <<asked, yes, minted, sent>>
vars == <<daemon, record, now, knocks, crashes, ghosts>>

Idle == [at |-> "idle", key |-> NoKey, why |-> "none"]
Whys == {"first", "again", "confirmed"}
Calls == [at : {"mint", "wrap", "ok", "failed"}, key : Key, why : Whys]

Init ==
    /\ bound = FALSE /\ boundKey = NoKey
    /\ parsing = [k \in Key |-> 0]
    /\ calls = [c \in Call |-> Idle]
    /\ parked = {}
    /\ record = NoKey /\ saves = FALSE
    /\ now = 0 /\ knocks = 0 /\ crashes = 0
    /\ asked = [k \in Key |-> 0] /\ yes = [k \in Key |-> 0]
    /\ minted = {}
    /\ sent = [k \in Key |-> {}]

Begin(k, why) ==
    \E c \in Call :
        /\ calls[c] = Idle
        /\ calls' = [calls EXCEPT ![c] = [at |-> "mint", key |-> k, why |-> why]]
-----------------------------------------------------------------------------
(* The knock event of a device, or of its retry.                            *)
Knock(k) ==
    /\ knocks < MaxKnock
    /\ knocks' = knocks + 1
    /\ parsing' = [parsing EXCEPT ![k] = @ + 1]
    /\ UNCHANGED <<bound, boundKey, calls, parked, saves, record, now, crashes, ghosts>>

(* onKnock after the decryption, on an unbound room: approve it.            *)
AdmitFirst(k) ==
    /\ parsing[k] > 0 /\ ~bound
    /\ parsing' = [parsing EXCEPT ![k] = @ - 1]
    /\ Begin(k, "first")
    /\ UNCHANGED <<bound, boundKey, parked, saves, record, now, knocks, crashes, ghosts>>

(* The bound device knocks again: its pass was lost, approve it again.      *)
AdmitAgain(k) ==
    /\ parsing[k] > 0 /\ bound /\ k = boundKey
    /\ parsing' = [parsing EXCEPT ![k] = @ - 1]
    /\ Begin(k, "again")
    /\ UNCHANGED <<bound, boundKey, parked, saves, record, now, knocks, crashes, ghosts>>

(* Mutant: the parked knock carries no expiry.                              *)
ParkForever(k) ==
    /\ parsing[k] > 0 /\ bound /\ k # boundKey
    /\ parsing' = [parsing EXCEPT ![k] = @ - 1]
    /\ parked' = parked \cup {[key |-> k]}
    /\ asked' = [asked EXCEPT ![k] = @ + 1]
    /\ UNCHANGED <<bound, boundKey, calls, saves, record, now, knocks, crashes,
                   yes, minted, sent>>

(* Another device: evict the expired, park it and ask in the control room.  *)
Park(k) ==
    /\ parsing[k] > 0 /\ bound /\ k # boundKey
    /\ parsing' = [parsing EXCEPT ![k] = @ - 1]
    /\ parked' = {p \in parked : p.key # k /\ now <= p.expires}
                   \cup {[key |-> k, expires |-> now + KnockTtl]}
    /\ asked' = [asked EXCEPT ![k] = @ + 1]
    /\ UNCHANGED <<bound, boundKey, calls, saves, record, now, knocks, crashes,
                   yes, minted, sent>>

(* resolveAgentKnock: the operator taps (perhaps twice, perhaps late); the  *)
(* parked knock is gone before anything is awaited.                         *)
Resolve(k, approve) ==
    \E p \in parked :
        /\ p.key = k
        /\ parked' = parked \ {p}
        /\ IF approve /\ now <= p.expires
           THEN Begin(k, "confirmed") /\ yes' = [yes EXCEPT ![k] = @ + 1]
           ELSE UNCHANGED <<calls, yes>>
        /\ UNCHANGED <<bound, boundKey, parsing, saves, record, now, knocks,
                       crashes, asked, minted, sent>>
-----------------------------------------------------------------------------
(* approveAgentKnock: POST /approve, then POST /token; either may fail, and *)
(* a failed one may have been carried out.                                  *)
Mint(c) ==
    /\ calls[c].at = "mint"
    /\ \/ /\ calls' = [calls EXCEPT ![c].at = "wrap"]
          /\ minted' = minted \cup {calls[c].key}
       \/ /\ calls' = [calls EXCEPT ![c].at = "failed"]
          /\ minted' \in {minted, minted \cup {calls[c].key}}
    /\ UNCHANGED <<bound, boundKey, parsing, parked, saves, record, now, knocks,
                   crashes, asked, yes, sent>>

Wrap(c) ==
    /\ calls[c].at = "wrap"
    /\ LET k == calls[c].key
           delivered == [sent EXCEPT ![k] = @ \cup {calls[c].why}]
       IN \/ calls' = [calls EXCEPT ![c].at = "ok"] /\ sent' = delivered
          \/ calls' = [calls EXCEPT ![c].at = "failed"] /\ sent' \in {sent, delivered}
    /\ UNCHANGED <<bound, boundKey, parsing, parked, saves, record, now, knocks,
                   crashes, asked, yes, minted>>

(* approveAgentKnock returned: a first device that was admitted binds the   *)
(* room; persistRooms is not awaited.                                       *)
Return(c) ==
    /\ calls[c].at \in {"ok", "failed"}
    /\ calls' = [calls EXCEPT ![c] = Idle]
    /\ IF calls[c].at = "ok" /\ calls[c].why = "first"
       THEN bound' = TRUE /\ boundKey' = calls[c].key /\ saves' = TRUE
       ELSE UNCHANGED <<bound, boundKey, saves>>
    /\ UNCHANGED <<parsing, parked, record, now, knocks, crashes, ghosts>>

(* The write lands.  (With two on their way, the last snapshot wins.)       *)
Save ==
    /\ saves
    /\ saves' = FALSE
    /\ record' = boundKey
    /\ UNCHANGED <<bound, boundKey, parsing, calls, parked, now, knocks, crashes, ghosts>>

(* The daemon dies and the next one restores the room from rooms.json.      *)
Restart ==
    /\ crashes < MaxCrash
    /\ crashes' = crashes + 1
    /\ bound' = (record # NoKey) /\ boundKey' = record
    /\ parsing' = [k \in Key |-> 0] /\ calls' = [c \in Call |-> Idle]
    /\ parked' = {} /\ saves' = FALSE
    /\ UNCHANGED <<record, now, knocks, ghosts>>

Tick ==
    /\ now < MaxTime
    /\ now' = now + 1
    /\ UNCHANGED <<daemon, record, knocks, crashes, ghosts>>

Judge(k) == AdmitFirst(k) \/ AdmitAgain(k) \/ Park(k)
Approval(c) == Mint(c) \/ Wrap(c) \/ Return(c)
Next ==
    \/ \E k \in Key : Knock(k) \/ Judge(k) \/ \E a \in BOOLEAN : Resolve(k, a)
    \/ \E c \in Call : Approval(c)
    \/ Save \/ Restart \/ Tick

Spec == Init /\ [][Next]_vars
-----------------------------------------------------------------------------
(* What onKnock and its approvals keep is well typed: a binding is a key,   *)
(* and every Admit button that is still live has the expiry it was sent     *)
(* with.                                                                    *)
TypeOK ==
    /\ bound \in BOOLEAN /\ boundKey \in Key \cup {NoKey}
    /\ parsing \in [Key -> Nat]
    /\ calls \in [Call -> Calls \cup {Idle}]
    /\ parked \subseteq [key : Key, expires : Nat]
    /\ record \in Key \cup {NoKey} /\ saves \in BOOLEAN
    /\ now \in Nat /\ knocks \in Nat /\ crashes \in Nat
    /\ asked \in [Key -> Nat] /\ yes \in [Key -> Nat]
    /\ minted \subseteq Key /\ sent \in [Key -> SUBSET Whys]

(* A room is bound only to a device that was sent its token: a failed       *)
(* approval leaves the room free for the device's next knock.               *)
BoundDeviceIsIn ==
    /\ bound <=> boundKey # NoKey
    /\ bound => "first" \in sent[boundKey]
    /\ record # NoKey => "first" \in sent[record]

(* However often the operator taps, one question admits a device once.      *)
OneTapOneAdmission == \A k \in Key : yes[k] <= asked[k]

(* Once the binding is on disk it lasts: no restart opens the room again    *)
(* and no device that had not begun its approval by then is let in unasked. *)
BindingLasts ==
    /\ record # NoKey => bound
    /\ \A c \in Call : calls[c].why = "again" => bound
=============================================================================
