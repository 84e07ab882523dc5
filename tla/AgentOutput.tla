---------------------------- MODULE AgentOutput -----------------------------
(***************************************************************************)
(* What the daemon makes of an agent's raw output                          *)
(* (cli/src/lib/agent-process.ts, parseBlockOutput).  The output should be *)
(* one JSON envelope; it may be several behind one another (a codex turn), *)
(* among prose, or cut short.  It is a sequence of pieces here; a scan     *)
(* goes over it once and keeps every envelope it recognises, and where it  *)
(* finds none, the first fragment that begins like one is salvaged.        *)
(***************************************************************************)
EXTENDS Naturals, Sequences, SequencesExt

CONSTANTS
    MaxPieces,  \* bound on the pieces of an output
    Raw,        \* the output as it is
    None

RawAssumption ==
    /\ MaxPieces \in Nat /\ Raw # None
    /\ Raw \notin [at : Nat, blocks : BOOLEAN, title : Nat \cup {None}]

(* Pieces: prose without a brace or a quote in it, or with a lone one; a   *)
(* JSON object that has no text, nor anything in it that begins with one;  *)
(* an envelope with its text first and nothing else, with blocks, with a   *)
(* room name, or with both; one that names the room first, with or without *)
(* blocks; and the last piece may be an envelope cut within its text,      *)
(* behind it, or behind its first block, or one that names the room first, *)
(* cut behind its text.                                                    *)
Prose == {"words", "quote", "open", "close", "object"}
TextFirst == {"plain", "rich", "titled", "both"}
NameFirst == {"named", "namedRich"}
Envelope == TextFirst \cup NameFirst
CutTextFirst == {"cutInText", "cutBehind", "cutInBlocks"}
Cut == CutTextFirst \cup {"cutNamed"}

HasBlocks(p) == p \in {"rich", "both", "namedRich", "cutInBlocks"}
HasTitle(p) == p \in {"titled", "both"} \cup NameFirst

VARIABLES
    out,        \* the output
    next,       \* the piece the scan looks at next
    depth,      \* open braces
    inString,   \* within a string
    envelopes,  \* positions of the envelopes it recognised
    result      \* what is sent: [at, blocks, title], or Raw; None before

vars == <<out, next, depth, inString, envelopes, result>>

Outputs ==
    {o \in SeqOf(Prose \cup Envelope \cup Cut, MaxPieces) :
        o # <<>> /\ \A i \in 1..(Len(o) - 1) : o[i] \notin Cut}

Init ==
    /\ out \in Outputs
    /\ next = 1 /\ depth = 0 /\ inString = FALSE /\ envelopes = {} /\ result = None

Piece == out[next]

-----------------------------------------------------------------------------
(* The scan: a lone quote turns strings into prose and prose into strings, *)
(* for itself and for the quotes of everything behind it; a closing brace  *)
(* counts only where one is open.                                          *)
Scan ==
    /\ result = None /\ next <= Len(out) /\ next' = next + 1
    /\ inString' = IF Piece = "quote" THEN ~inString ELSE inString
    /\ depth' = IF inString THEN depth
                ELSE CASE Piece = "open" -> depth + 1
                       [] Piece = "close" /\ depth > 0 -> depth - 1
                       [] OTHER -> depth
    /\ envelopes' = IF ~inString /\ depth = 0 /\ Piece \in Envelope
                    THEN envelopes \cup {next} ELSE envelopes
    /\ UNCHANGED <<out, result>>

(* The envelope that is the answer: the last with blocks, or the last.     *)
ChosenFirst == Min(envelopes)
Chosen ==
    LET rich == {i \in envelopes : HasBlocks(out[i])}
    IN Max(IF rich # {} THEN rich ELSE envelopes)

(* Its own room name, or the latest of the others.                         *)
Title ==
    LET titled == {i \in envelopes : HasTitle(out[i])}
    IN IF HasTitle(out[Chosen]) THEN Chosen
       ELSE IF titled # {} THEN Max(titled) ELSE None

Answer ==
    /\ result = None /\ next > Len(out) /\ envelopes # {}
    /\ result' = [at |-> Chosen, blocks |-> HasBlocks(out[Chosen]), title |-> Title]
    /\ UNCHANGED <<out, next, depth, inString, envelopes>>

(* No envelope: the first piece that begins with the text of one, read up  *)
(* to its brace or to the end, gives that and the blocks that are complete. *)
Begins == {i \in DOMAIN out : out[i] \in TextFirst \cup CutTextFirst}
First == Min(Begins)

Salvage ==
    /\ result = None /\ next > Len(out) /\ envelopes = {}
    /\ result' = IF Begins = {} THEN Raw
                 ELSE IF out[First] = "cutInText" THEN Raw
                 ELSE [at |-> First, blocks |-> HasBlocks(out[First]), title |-> None]
    /\ UNCHANGED <<out, next, depth, inString, envelopes>>

Next == Scan \/ Answer \/ Salvage

Spec == Init /\ [][Next]_vars

-----------------------------------------------------------------------------
TypeOK ==
    /\ next \in 1..(Len(out) + 1) /\ depth \in 0..Len(out) /\ inString \in BOOLEAN
    /\ \A i \in envelopes : i \in DOMAIN out /\ out[i] \in Envelope
    /\ result \in [at : DOMAIN out, blocks : BOOLEAN, title : DOMAIN out \cup {None}]
                \cup {Raw, None}

(* What stands before position i leaves it readable: no lone quote, and no *)
(* brace that is not closed at once.                                       *)
Readable(i) ==
    \A k \in 1..(i - 1) :
        out[k] # "quote" /\ (out[k] = "open" => k + 1 < i /\ out[k + 1] = "close")

At(kinds) == {i \in DOMAIN out : out[i] \in kinds}
Rich == {i \in At(Envelope) : HasBlocks(out[i])}
Titled == {i \in At(Envelope) : HasTitle(out[i])}

(* The answer of an agent that announces it, or signs off after it, is     *)
(* what the phone is shown, with its blocks: of the envelopes the last     *)
(* with blocks, else the last, under its own title, else the latest there  *)
(* is; prose between them and braces that are closed take nothing away     *)
(* (issue #187).                                                           *)
AnswerIsFinal ==
    result # None /\ At(Envelope) # {} /\ (\A i \in At(Envelope) : Readable(i)) =>
        LET answer == Max(IF Rich # {} THEN Rich ELSE At(Envelope))
        IN result = [at |-> answer, blocks |-> Rich # {},
                     title |-> IF answer \in Titled THEN answer
                               ELSE IF Titled # {} THEN Max(Titled) ELSE None]

(* An output goes to the phone raw only if no whole envelope in it can be  *)
(* read, and none whose text comes first has its whole text, whatever      *)
(* prose stands around it and however it is cut.                           *)
NeverRaw ==
    result = Raw =>
        /\ At(TextFirst \cup (CutTextFirst \ {"cutInText"})) = {}
        /\ \A i \in At(Envelope) : ~Readable(i)

(* The issue's general form, which prose with a lone quote or an open      *)
(* brace breaks: the first envelope is shown instead of the answer.        *)
PreambleNeverShadows ==
    result \notin {None, Raw} /\ Rich # {} => result.at = Max(Rich)
=============================================================================
