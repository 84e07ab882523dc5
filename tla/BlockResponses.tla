--------------------------- MODULE BlockResponses ---------------------------
(***************************************************************************)
(* The answers to blocks on one phone (app/src/lib/room-message.ts, db.ts, *)
(* and sendBlockResponses, ingestEncryptedChat of RoomController.tsx).     *)
(* What a secret block is answered travels in the encrypted message alone; *)
(* the history of the phone, and of everyone else in the room, has a mask  *)
(* in its place.  The relay may publish a message before it answers the    *)
(* POST, may repeat it at a catch-up, and the phone may reload in between. *)
(*                                                                         *)
(* When a write to IndexedDB lands is Timeline's concern; here it does at  *)
(* once.                                                                   *)
(***************************************************************************)
EXTENDS Naturals, Sequences

CONSTANTS
    Id,         \* messages, by their msg_id
    Value,      \* what can be answered
    MaxBatch,   \* bound on the blocks answered in one message
    None

SECRET_VALUE_MASK == "[secret hidden]"

Given == [type : {"secret", "other"}, value : Value]
Kept == [type : {"secret", "other"}, value : Value \cup {SECRET_VALUE_MASK}]
Batches(S) == UNION {[1..n -> S] : n \in 0..MaxBatch}

(* What block_response and block_responses (of which <<>> is null) hold in  *)
(* an envelope and in a record, which has a timestamp of one of two clocks. *)
Envelope == [one : Given \cup {None}, all : Batches(Given)]
Message == [one : Kept \cup {None}, all : Batches(Kept), clock : {"phone", "relay"}]

ValueAssumption ==
    /\ MaxBatch \in Nat \ {0}
    /\ SECRET_VALUE_MASK \notin Value /\ None \notin Kept \cup Envelope \cup Message

VARIABLES
    wire,       \* the envelope published or being posted under each id, or None
    posting,    \* ids of this phone whose POST has not been answered
    memory,     \* the React state: a record for each id, or None
    disk        \* IndexedDB

vars == <<wire, posting, memory, disk>>

Init ==
    /\ wire = [id \in Id |-> None] /\ posting = {}
    /\ memory = [id \in Id |-> None] /\ disk = [id \in Id |-> None]
-----------------------------------------------------------------------------
(* parseRoomEnvelope: an answer to one block is found under either name.    *)
Parsed(e) ==
    [one |-> IF e.one = None /\ Len(e.all) = 1 THEN e.all[1] ELSE e.one,
     all |-> IF e.all = <<>> /\ e.one # None THEN <<e.one>> ELSE e.all]

(* toChatMessageRecord                                                      *)
Record(e, clock) == [one |-> Parsed(e).one, all |-> Parsed(e).all, clock |-> clock]

(* redactSecretsForStorage                                                  *)
Scrub(r) == IF r.type = "secret" THEN [r EXCEPT !.value = SECRET_VALUE_MASK] ELSE r
Redacted(m) ==
    [m EXCEPT !.one = IF @ = None THEN None ELSE Scrub(@),
              !.all = [i \in DOMAIN @ |-> Scrub(@[i])]]

(* formatBlockResponse: the lines that are shown.                           *)
Line(r) == IF r.type = "secret" THEN "hidden" ELSE r.value
Shown(m) ==
    LET list == IF m.all # <<>> THEN m.all ELSE IF m.one # None THEN <<m.one>> ELSE <<>>
    IN [i \in DOMAIN list |-> Line(list[i])]

(* saveMessage: the one place where the history is written.                 *)
Save(id, m) == disk' = [disk EXCEPT ![id] = Redacted(m)]
-----------------------------------------------------------------------------
(* sendBlockResponses, up to its POST.                                      *)
Post(id, batch) ==
    /\ wire[id] = None /\ batch # <<>>
    /\ wire' = [wire EXCEPT ![id] =
                  [one |-> IF Len(batch) = 1 THEN batch[1] ELSE None, all |-> batch]]
    /\ posting' = posting \cup {id}
    /\ UNCHANGED <<memory, disk>>

(* The POST succeeded: the redacted copy is saved, and shown unless the     *)
(* echo came first; or it did not, as far as the phone knows.               *)
Posted(id, ok) ==
    LET m == Redacted(Record(wire[id], "phone")) IN
    /\ id \in posting /\ posting' = posting \ {id}
    /\ IF ok THEN /\ Save(id, m)
                  /\ memory' = [memory EXCEPT ![id] = IF @ = None THEN m ELSE @]
       ELSE UNCHANGED <<memory, disk>>
    /\ UNCHANGED wire

(* Another member's message, whose client may fill one field or both.       *)
Peer(id, batch, one, all) ==
    /\ wire[id] = None
    /\ wire' = [wire EXCEPT ![id] =
                  [one |-> IF one /\ Len(batch) = 1 THEN batch[1] ELSE None,
                   all |-> IF all THEN batch ELSE <<>>]]
    /\ UNCHANGED <<posting, memory, disk>>

(* mergeChatMessageEcho: of a message that is there only the clock changes. *)
MergeEcho(existing, incoming) == [existing EXCEPT !.clock = incoming.clock]

(* ingestEncryptedChat: the message is added, or the one that is there is   *)
(* corrected.                                                               *)
Ingest(id) ==
    LET m == Record(wire[id], "relay")
        merged == IF memory[id] = None THEN m ELSE MergeEcho(memory[id], m)
    IN
    /\ wire[id] # None /\ merged # memory[id]
    /\ memory' = [memory EXCEPT ![id] = merged] /\ Save(id, merged)
    /\ UNCHANGED <<wire, posting>>

(* init: what is on disk replaces what is shown; a reload has only that.    *)
Reload ==
    /\ memory' = disk /\ posting' = {}
    /\ UNCHANGED <<wire, disk>>

Merge ==
    /\ memory' = [id \in Id |-> IF disk[id] # None THEN disk[id] ELSE memory[id]]
    /\ UNCHANGED <<wire, posting, disk>>

(* handleDeleteMessage                                                      *)
Delete(id) ==
    /\ memory[id] # None
    /\ memory' = [memory EXCEPT ![id] = None] /\ disk' = [disk EXCEPT ![id] = None]
    /\ UNCHANGED <<wire, posting>>

Next ==
    \/ \E id \in Id :
         \/ \E batch \in Batches(Given) :
              Post(id, batch) \/ \E one, all \in BOOLEAN : Peer(id, batch, one, all)
         \/ \E ok \in BOOLEAN : Posted(id, ok)
         \/ Ingest(id) \/ Delete(id)
    \/ Reload \/ Merge

Spec == Init /\ [][Next]_vars
-----------------------------------------------------------------------------
TypeOK ==
    /\ wire \in [Id -> Envelope \cup {None}]
    /\ posting \subseteq Id
    /\ memory \in [Id -> Message \cup {None}] /\ disk \in [Id -> Message \cup {None}]

Masked(r) == r.type = "secret" => r.value = SECRET_VALUE_MASK

(* Whichever of the echo, the answer to the POST, the catch-up and a reload *)
(* comes first, no answer to a secret block is in the history.              *)
DiskIsMasked ==
    \A id \in Id : disk[id] # None =>
        /\ disk[id].one # None => Masked(disk[id].one)
        /\ \A i \in DOMAIN disk[id].all : Masked(disk[id].all[i])

(* Neither redaction nor the order of arrival changes what is shown: the    *)
(* other answers, and for a secret one that there was one.                  *)
ShownIsSaid ==
    \A id \in Id :
        /\ memory[id] # None => wire[id] # None /\ Shown(memory[id]) = Shown(wire[id])
        /\ disk[id] # None => wire[id] # None /\ Shown(disk[id]) = Shown(wire[id])
=============================================================================
