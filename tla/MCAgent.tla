------------------------------ MODULE MCAgent -------------------------------
(* What carries one agent's work, side by side: a behaviour is one of the   *)
(* daemon's turns, of the statuses of a turn, of `hisohiso wrap', of a      *)
(* room's subscription, or of the parser of an answer.                      *)
EXTENDS AgentTurns, TLC

CONSTANTS
    Phone, Text, Raw, None,
    MaxTurn, MaxLife, MaxLine, MaxSeq, MaxTs,   \* the bounds of TurnStatus
    MaxChunk,                                   \* ... of Wrap
    Floor, MaxSince, MaxFault,                  \* ... of Stream
    MaxPieces                                   \* ... of AgentOutput

VARIABLES
    which,      \* the part
    streaming, sturn, nth, life, pipe, wrote, got, tool, last, quiet, seq, posts, ts, inbox,
    lastSeq, lastMsg, bubble, ended,
    phase, knocks, room, stopping, taking, opening, busy, wturn, left, waiting, notices,
    heard, taken,
    es, silent, jwt, refreshing, since, closed, net, member, faults, lost,
    out, next, depth, inString, envelopes, result

status == <<streaming, sturn, nth, life, pipe, wrote, got, tool, last, quiet, seq, posts, ts,
            inbox, lastSeq, lastMsg, bubble, ended>>
wrap == <<phase, knocks, room, stopping, taking, opening, busy, wturn, left, waiting,
          notices, heard, taken>>
stream == <<es, silent, jwt, refreshing, since, closed, net, member, faults, lost>>
output == <<out, next, depth, inString, envelopes, result>>
all == <<which, vars, status, wrap, stream, output>>

S == INSTANCE TurnStatus WITH turn <- sturn
W == INSTANCE Wrap WITH
    Msg <- Text, seen <- taking, running <- busy, turn <- wturn, pending <- waiting,
    acks <- notices
D == INSTANCE Stream WITH MaxTime <- MaxSince
O == INSTANCE AgentOutput

ASSUME PartsAssumption ==
    S!BoundsAssumption /\ W!ChunkAssumption /\ D!BoundsAssumption /\ O!RawAssumption

Turns(A) == which = "turns" /\ A /\ UNCHANGED <<which, status, wrap, stream, output>>
Status(A) == which = "status" /\ A /\ UNCHANGED <<which, vars, wrap, stream, output>>
Wrapped(A) == which = "wrap" /\ A /\ UNCHANGED <<which, vars, status, stream, output>>
Streams(A) == which = "stream" /\ A /\ UNCHANGED <<which, vars, status, wrap, output>>
Parsed(A) == which = "output" /\ A /\ UNCHANGED <<which, vars, status, wrap, stream>>

AgentInit ==
    /\ which \in {"turns", "status", "wrap", "stream", "output"}
    /\ Init /\ S!Init /\ W!Init /\ D!Init /\ O!Init
    /\ (which = "status" \/ streaming) /\ (which = "stream" \/ jwt)
    /\ which = "output" \/ out = <<"words">>

(* To keep the instance small, the process writes in the first turn only.   *)
Brief == nth' = 2 => pipe' = <<>> /\ quiet' = "no"

AgentNext ==
    \/ Turns(Next) \/ Status(S!Next /\ Brief) \/ Wrapped(W!Next) \/ Streams(D!Next)
    \/ Parsed(O!Next)

(* The fairness of each part.  As no behaviour has steps of two parts, to   *)
(* be fair to two actions of two parts is to be fair to their disjunction.  *)
AgentSpec ==
    /\ AgentInit /\ [][AgentNext]_all
    /\ WF_all(Turns(EndTurn) \/ Status(S!Apply) \/ Streams(D!Connected))
    /\ WF_all(Turns(WriteLands) \/ Status(S!Age) \/ Streams(D!Unauthorized))
    /\ \A m \in Msg : WF_all(Turns(Enqueue(m) \/ StartTurn(m)))
    /\ WF_all(Status(S!Stale) \/ Streams(D!Refreshed))
    /\ WF_all(Status(\E p \in posts : S!Publish(p)) \/ Streams(D!RefreshFails))
    /\ WF_all(Streams(D!Stall)) /\ WF_all(Streams(D!NetUp)) /\ WF_all(Streams(D!Tick))

(* Every variable has its type, in each part.                               *)
AllTypesOK == TypeOK /\ W!TypeOK /\ D!TypeOK /\ O!TypeOK

(* However often a message is delivered, the agent is given it once: by one *)
(* life of the daemon, by a later one once the ledger is on disk (which no  *)
(* late write takes back), and by wrap, in the order it took them.          *)
RunOnce ==
    /\ []NoTurnTwice /\ PersistedIsNotReplayed /\ LedgerNeverRegresses
    /\ []W!TakenOnce

(* A message behind a running turn is run without the help of a later one:  *)
(* by the daemon while it is up, and by wrap's drain loop.                  *)
NoneIsStranded == QueuedIsRun /\ []W!NothingWaitsIdle

(* The reply carries all that a streaming agent wrote, and of that the      *)
(* final answer; it goes out raw only if no envelope in it can be read and  *)
(* none that begins with its text has the whole of it.                      *)
ReplyIsWhole == S!AnswerIsRead /\ O!AnswerIsFinal /\ O!NeverRaw

(* The bubble of a finished turn goes, and a late status does not bring it  *)
(* back.                                                                    *)
BubblesEnd == S!BubblesEnd /\ []S!NoResurrection

(* A subscription ends only for cause, and one that nobody closed or        *)
(* refused comes back from any outage, silence or expiry.                   *)
StreamsHeal == []D!DeafForCause /\ (which = "stream" => D!HearsAgain)
=============================================================================
