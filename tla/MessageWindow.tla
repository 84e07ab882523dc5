--------------------------- MODULE MessageWindow ----------------------------
(***************************************************************************)
(* The slice of a room's messages that is in the DOM                       *)
(* (app/src/hooks/useMessageWindow.ts).  The list is sorted newest first;  *)
(* an effect that runs after the browser painted a change of the list      *)
(* moves the window along, and two sentinels at its ends widen it from     *)
(* callbacks that hold the bounds and the length of the last effects, not  *)
(* those of the list on screen.                                            *)
(***************************************************************************)
EXTENDS Naturals, Sequences, SequencesExt

CONSTANTS
    PageSize, Cap,  \* items added per step, and the window's size from which one is dropped
    InitialTail,    \* items at first
    MaxItem,        \* bound on the messages that ever exist
    MaxLength       \* bound on the length of the list

SizeAssumption ==
    /\ {PageSize, Cap, InitialTail, MaxItem, MaxLength} \subseteq Nat \ {0}
    /\ PageSize <= Cap

VARIABLES
    items,      \* visibleMessages, newest first: every message is a number
    start, end, \* the window: items start+1 .. end are rendered
    seen,       \* the list the last effect saw (of it the code keeps the first id)
    held,       \* what the sentinels' callbacks hold: start, end, length
    fired,      \* sentinels that reported since the effects last ran
    born        \* messages there have been

vars == <<items, start, end, seen, held, fired, born>>

Low(a, b) == IF a < b THEN a ELSE b
PrevTop == IF seen = <<>> THEN 0 ELSE Head(seen)

(* Effects are due while the list or the bounds differ from the ones that  *)
(* they ran for last. *)
Due == items # seen \/ held # [start |-> start, end |-> end, len |-> Len(items)]

Init ==
    /\ items = <<>> /\ seen = <<>> /\ start = 0 /\ end = 0
    /\ held = [start |-> 0, end |-> 0, len |-> 0]
    /\ fired = {} /\ born = 0

-----------------------------------------------------------------------------
(* The list changes.  React runs the effects of one change before it       *)
(* renders the next, so a change is made of a list the effect has seen. *)
Change(list) ==
    /\ items = seen /\ Len(list) <= MaxLength
    /\ items' = list
    /\ UNCHANGED <<start, end, seen, held, fired>>

(* One or more messages arrive at once, newer than all, or one arrives     *)
(* whose time places it further down. *)
Arrive(n) ==
    /\ born + n <= MaxItem /\ born' = born + n
    /\ Change([i \in 1..n |-> born + n + 1 - i] \o items)

Backfill(i) ==
    /\ i \in 1..Len(items) /\ born < MaxItem /\ born' = born + 1
    /\ Change(InsertAt(items, i + 1, born + 1))

(* A message is deleted or expires. *)
Delete(i) ==
    /\ i \in DOMAIN items
    /\ Change(RemoveAt(items, i)) /\ UNCHANGED born

(* Another room is opened: its timeline loads over the old one. *)
OpenRoom(n) ==
    /\ items # <<>> /\ born + n <= MaxItem /\ born' = born + n
    /\ Change([i \in 1..n |-> born + n + 1 - i])

-----------------------------------------------------------------------------
(* The effect on the list.  The first list is pinned to the newest; behind *)
(* a new top the old one is searched, and what lies above it shifts the    *)
(* window; a list without it is a reset. *)
Pinned == start' = 0 /\ end' = Low(InitialTail, Len(items))

Above ==
    IF \E i \in DOMAIN items : items[i] = PrevTop
    THEN (CHOOSE i \in DOMAIN items : items[i] = PrevTop) - 1 ELSE 0

ShiftsEndOnly(growth) == start' = start /\ end' = Low(end + growth, Len(items))
Shifts(growth) ==
    /\ start' = IF start > 0 THEN start + growth ELSE 0
    /\ end' = Low(end + growth, Len(items))

Window ==
    IF items = seen THEN UNCHANGED <<start, end>>
    ELSE IF PrevTop = 0 THEN Pinned
    ELSE IF items # <<>> /\ Head(items) = PrevTop
         THEN end' = Low(end, Len(items)) /\ UNCHANGED start
    ELSE IF Above > 0 THEN Shifts(Above) ELSE Pinned

(* The observer's effect runs with it and takes the bounds of this render: *)
(* where the first effect moves them, another round of effects follows. *)
Effects ==
    /\ Due /\ Window
    /\ seen' = items /\ fired' = {}
    /\ held' = [start |-> start, end |-> end, len |-> Len(items)]
    /\ UNCHANGED <<items, born>>

(* expandToOlder: a page more at the end; over the cap the start follows.  *)
ExpandToOlder ==
    /\ "older" \notin fired /\ fired' = fired \cup {"older"}
    /\ end < Len(items) /\ held.end < held.len
    /\ LET e == Low(held.len, held.end + PageSize) IN
         /\ end' = e
         /\ IF e - held.start > Cap THEN start' = held.start + PageSize ELSE UNCHANGED start
    /\ UNCHANGED <<items, seen, held, born>>

(* expandToNewer: a page more at the start; over the cap the end follows.  *)
ExpandToNewer ==
    /\ "newer" \notin fired /\ fired' = fired \cup {"newer"}
    /\ start > 0 /\ held.start # 0
    /\ LET s == IF held.start > PageSize THEN held.start - PageSize ELSE 0 IN
         /\ start' = s
         /\ IF held.end > s /\ held.end - s > Cap THEN end' = held.end - PageSize
            ELSE UNCHANGED end
    /\ UNCHANGED <<items, seen, held, born>>

(* jumpToLatest, of the render on screen. *)
JumpToLatest ==
    /\ Pinned /\ UNCHANGED <<items, seen, held, fired, born>>

Next ==
    \/ \E n \in 1..2 : Arrive(n) \/ OpenRoom(n)
    \/ \E i \in 1..MaxLength : Backfill(i) \/ Delete(i)
    \/ Effects \/ ExpandToOlder \/ ExpandToNewer \/ JumpToLatest

Spec == Init /\ [][Next]_vars

-----------------------------------------------------------------------------
Slice(list, s, e) == SubSeq(list, s + 1, Low(e, Len(list)))

TypeOK ==
    /\ items \in Seq(1..MaxItem) /\ seen \in Seq(1..MaxItem)
    /\ start \in Nat /\ end \in Nat /\ born \in 0..MaxItem
    /\ held \in [start : Nat, end : Nat, len : Nat]
    /\ fired \subseteq {"older", "newer"}

(* A list is never shown as nothing for good: with messages there, either  *)
(* some are rendered or the window has room above it, where the sentinel   *)
(* that is then mounted brings them back.                                  *)
NeverBlank ==
    ~Due /\ items # <<>> => start > 0 \/ Slice(items, start, end) # <<>>

(* Messages that arrive while the reader is further up leave what he reads *)
(* where it is, whatever a sentinel added between their arrival and the    *)
(* effect.                                                                 *)
ReadingStays ==
    [][Effects /\ start > 0 /\ seen # <<>> /\ IsSuffix(seen, items) =>
          Slice(items, start', end') = Slice(seen, start, end)]_vars

(* A reader at the newest message is shown those that arrive.              *)
NewestIsShown ==
    [][Effects /\ start = 0 /\ items # <<>> /\ seen # <<>> => start' = 0 /\ end' > 0]_vars
=============================================================================
