---------------------------- MODULE ContentView ----------------------------
(***************************************************************************)
(* The rolling content view of one stream (src/view/src/ContentView.c): a  *)
(* ring of itemBufferCount slots addressed by ever-growing indices, with   *)
(*                                                                         *)
(*    tail <= current <= head                                              *)
(*                                                                         *)
(* Items in tail..current-1 were handed to the uploader and wait for an    *)
(* acknowledgement; items in current..head-1 have not been sent.  Every    *)
(* operation runs under the lock of its stream, so each is one action.     *)
(*                                                                         *)
(* An item's payload is its allocation handle.  The heap gives the n-th    *)
(* added item handle n+1, and the remove callback (viewItemRemoved in      *)
(* Client.c) frees the handle it is given.                                 *)
(***************************************************************************)
EXTENDS Integers, FiniteSets

CONSTANTS
    ItemBufferCount,   \* itemBufferCount: slots in the ring
    BufferDuration,    \* bufferDuration: temporal capacity of the window
    Policies,          \* the overflow policies a view may be created with
    Times,             \* decoding timestamps the producer may use
    PtsOffsets,        \* ackTimestamp - timestamp of a frame
    Durations,         \* frame durations
    RollbackDurations, \* durations contentViewRollbackCurrent is called with
    ClientFlags,       \* item flags the client sets: a subset of {"received", "skip"}
    MaxItems           \* bound: items ever added

\* CONTENT_VIEW_OVERFLOW_POLICY_*
DropTailItem == "DROP_TAIL_VIEW_ITEM"
DropUntilFragmentStart == "DROP_UNTIL_FRAGMENT_START"

ASSUME CountAssumption == ItemBufferCount \in Nat /\ ItemBufferCount >= 2
ASSUME DurationAssumption == BufferDuration \in Nat \ {0}
ASSUME PolicyAssumption == Policies \subseteq {DropTailItem, DropUntilFragmentStart}
ASSUME InputAssumption ==
    /\ Times \subseteq Nat /\ PtsOffsets \subseteq Nat
    /\ Durations \subseteq Nat /\ RollbackDurations \subseteq Nat
    /\ MaxItems \in Nat

VARIABLES
    policy,    \* bufferOverflowStrategy
    head, tail, current,
    slots,     \* itemBuffer
    live,      \* handles the heap holds for this view
    inFlight,  \* handle the uploader is reading, NoHandle when it reads none
    callbacks  \* remove callbacks made by the last operation

vars == <<policy, head, tail, current, slots, live, inFlight, callbacks>>

NoHandle == 0    \* INVALID_ALLOCATION_HANDLE_VALUE
NoIndex == -1    \* MAX_UINT64 sentinel of contentViewTrimTailItems

Item == [ts : Nat, ack : Nat, dur : Nat, key : BOOLEAN, skip : BOOLEAN,
         received : BOOLEAN, handle : Nat, index : Nat]

\* MEMCALLOC zeroes the ring
ZeroItem == [ts |-> 0, ack |-> 0, dur |-> 0, key |-> FALSE, skip |-> FALSE,
             received |-> FALSE, handle |-> NoHandle, index |-> 0]

SlotOf(i) == i % ItemBufferCount
ItemAt(i) == slots[SlotOf(i)]
Window == tail .. (head - 1)

Callback == [index : Int, handle : Nat, dropped : BOOLEAN]

-----------------------------------------------------------------------------
(* Availability.  The C difference is unsigned: a negative one wraps to a  *)
(* value above every buffer duration.                                      *)
WindowSpan == (ItemAt(head - 1).ack + ItemAt(head - 1).dur) - ItemAt(tail).ack

Available ==
    \/ head = tail
    \/ /\ head - tail < ItemBufferCount
       /\ WindowSpan >= 0
       /\ WindowSpan < BufferDuration

-----------------------------------------------------------------------------
(* contentViewTrimTailItems.  The item before current is the one the       *)
(* uploader is reading: it is skipped when items are dropped and, when the *)
(* tail has rolled past it, moved into the slot in front of the new tail.  *)
\* Mutant: no item is ever protected
StreamingItemIgnored == NoIndex

StreamingItem == IF current > tail THEN current - 1 ELSE NoIndex

TailPastOneItem == IF tail = StreamingItem THEN tail + 2 ELSE tail + 1

\* Mutant: stops after the first dropped item
StopsAtNextItem(t) ==
    t = head \/ \E i \in tail .. (t - 1) : i # StreamingItem

\* the do-while loop of DROP_UNTIL_FRAGMENT_START stops at t
StopsAt(t) ==
    \/ t = head
    \/ ItemAt(t).key /\ \E i \in tail .. (t - 1) : i # StreamingItem

TailPastFragment ==
    CHOOSE t \in (tail + 1) .. head :
        StopsAt(t) /\ \A u \in (tail + 1) .. (t - 1) : ~StopsAt(u)

RolledTail ==
    IF policy = DropTailItem THEN TailPastOneItem ELSE TailPastFragment

\* Mutant: the streaming item is freed with the others
RolledOffAll == tail .. (RolledTail - 1)

RolledOff == (tail .. (RolledTail - 1)) \ {StreamingItem}

RemoveCallback(i, wasDropped) ==
    [index |-> i, handle |-> ItemAt(i).handle, dropped |-> wasDropped]

TrimCallbacks ==
    {RemoveCallback(i, policy = DropTailItem \/ i > StreamingItem) : i \in RolledOff}

\* the streaming item was rolled past and becomes the new tail
Prepends == StreamingItem # NoIndex /\ current <= RolledTail /\ StreamingItem < RolledTail

TrimmedTail == IF Prepends THEN RolledTail - 1 ELSE RolledTail
TrimmedCurrent == IF current <= RolledTail THEN RolledTail ELSE current

\* viewItemRemoved invalidates the handle in the slot of each item it frees
ClearHandles(S) ==
    [s \in 0 .. (ItemBufferCount - 1) |->
        IF \E i \in S : SlotOf(i) = s THEN [slots[s] EXCEPT !.handle = NoHandle] ELSE slots[s]]

\* Mutant: the streaming item is not moved in front of the new tail
TrimmedSlotsNotMoved == ClearHandles(RolledOff)

TrimmedSlots ==
    IF Prepends
    THEN LET kept == ClearHandles(RolledOff)[SlotOf(StreamingItem)]
         IN  [ClearHandles(RolledOff) EXCEPT ![SlotOf(RolledTail - 1)] =
                [@ EXCEPT !.key = kept.key, !.skip = kept.skip,
                          !.received = kept.received, !.handle = kept.handle,
                          !.index = RolledTail - 1]]
    ELSE ClearHandles(RolledOff)

\* viewItemRemoved: every callback frees its handle
Freed(cbs) == {c.handle : c \in cbs}

-----------------------------------------------------------------------------
Init ==
    /\ policy \in Policies
    /\ head = 0 /\ tail = 0 /\ current = 0
    /\ slots = [s \in 0 .. (ItemBufferCount - 1) |-> ZeroItem]
    /\ live = {}
    /\ inFlight = NoHandle
    /\ callbacks = {}

Append(old, ts, pts, d, k) ==
    [old EXCEPT ![SlotOf(head)] =
        [ts |-> ts, ack |-> pts, dur |-> d, key |-> k, skip |-> FALSE,
         received |-> FALSE, handle |-> head + 1, index |-> head]]

(* contentViewAddItem.  A timestamp older than the head's is refused       *)
(* without any effect.                                                     *)
AddItem(ts, pts, d, k) ==
    /\ head < MaxItems
    /\ head # tail => ItemAt(head - 1).ts <= ts
    /\ IF Available
       THEN /\ slots' = Append(slots, ts, pts, d, k)
            /\ callbacks' = {}
            /\ UNCHANGED <<tail, current>>
       ELSE /\ slots' = Append(TrimmedSlots, ts, pts, d, k)
            /\ callbacks' = TrimCallbacks
            /\ tail' = TrimmedTail
            /\ current' = TrimmedCurrent
    /\ head' = head + 1
    /\ live' = (live \ Freed(callbacks')) \cup {head + 1}
    /\ UNCHANGED <<policy, inFlight>>

(* contentViewTrimTailItems as its own entry point.  It never looks at     *)
(* head, so its caller owes it an item that may be dropped.                *)
CanDrop == (head - tail) > (IF StreamingItem = NoIndex THEN 0 ELSE 1)

TrimTailItems ==
    /\ CanDrop
    /\ slots' = TrimmedSlots
    /\ callbacks' = TrimCallbacks
    /\ tail' = TrimmedTail
    /\ current' = TrimmedCurrent
    /\ live' = live \ Freed(callbacks')
    /\ UNCHANGED <<policy, head, inFlight>>

(* contentViewGetNext.  The reset of a current beyond head is the code's   *)
(* own repair of a broken index.                                           *)
GetNext ==
    /\ head # tail /\ current # head
    /\ IF current > head /\ head > tail
       THEN current' = tail /\ inFlight' = NoHandle
       ELSE current' = current + 1 /\ inFlight' = ItemAt(current).handle
    /\ callbacks' = {}
    /\ UNCHANGED <<policy, head, tail, slots, live>>

(* contentViewTrimTail: everything before index i leaves the window.       *)
TrimTail(i) ==
    /\ i \in tail .. head
    /\ tail' = i
    /\ current' = IF current < i THEN i ELSE current
    /\ callbacks' = {RemoveCallback(j, j >= current) : j \in tail .. (i - 1)}
    /\ live' = live \ Freed(callbacks')
    /\ slots' = ClearHandles(tail .. (i - 1))
    /\ inFlight' = IF i >= current THEN NoHandle ELSE inFlight
    /\ UNCHANGED <<policy, head>>

(* contentViewRemoveAll, also the first half of freeContentView.           *)
RemoveAll == head # tail /\ TrimTail(head)

(* contentViewSetCurrentIndex and contentViewResetCurrent.                 *)
SetCurrentIndex(i) ==
    /\ i \in tail .. head
    /\ current' = i
    /\ inFlight' = NoHandle
    /\ callbacks' = {}
    /\ UNCHANGED <<policy, head, tail, slots, live>>

ResetCurrent == SetCurrentIndex(tail)

-----------------------------------------------------------------------------
(* contentViewRollbackCurrent.  The walk goes back from current (whose     *)
(* slot it reads even when current = head) over the candidate items, stops *)
(* at the first that was received or is old enough, then rolls forward     *)
(* over items marked to be skipped.                                        *)
Candidates(keyFrame) == {i \in tail .. current : keyFrame => ItemAt(i).key}

WalkStops(d, acked, i) ==
    \/ acked /\ ItemAt(i).received
    \/ ItemAt(i).ack + d <= ItemAt(current).ack

MaxOf(S) == CHOOSE x \in S : \A y \in S : y <= x
MinOf(S) == CHOOSE x \in S : \A y \in S : x <= y

\* Mutant: an acknowledged fragment start stops the walk at the old position
RolledBackForgetsLast(d, keyFrame, acked) ==
    LET C == Candidates(keyFrame)
        S == {i \in C : WalkStops(d, acked, i)}
    IN  IF C = {} THEN current
        ELSE IF S = {} THEN MinOf(C)
        ELSE IF ~(acked /\ ItemAt(MaxOf(S)).received) THEN MaxOf(S) ELSE current

RolledBack(d, keyFrame, acked) ==
    LET C == Candidates(keyFrame)
        S == {i \in C : WalkStops(d, acked, i)}
        last == {i \in C : i > MaxOf(S)}
    IN  IF C = {} THEN current
        ELSE IF S = {} THEN MinOf(C)
        ELSE IF ~(acked /\ ItemAt(MaxOf(S)).received) THEN MaxOf(S)
        ELSE IF last = {} THEN current ELSE MinOf(last)

RolledForward(i) == MinOf({j \in i .. head : j = head \/ ~ItemAt(j).skip})

RollbackCurrent(d, keyFrame, acked) ==
    /\ current # tail /\ d # 0
    /\ current' = RolledForward(RolledBack(d, keyFrame, acked))
    /\ inFlight' = NoHandle
    /\ callbacks' = {}
    /\ UNCHANGED <<policy, head, tail, slots, live>>

-----------------------------------------------------------------------------
(* contentViewTimestampInRange and findViewItemWithTimestamp, on either of *)
(* an item's two timestamps.                                               *)
TimeOf(useAck, i) == IF useAck THEN ItemAt(i).ack ELSE ItemAt(i).ts

TimestampInRange(t, useAck) ==
    /\ head # tail
    /\ t >= TimeOf(useAck, tail)
    /\ t <= TimeOf(useAck, head - 1) + ItemAt(head - 1).dur

Covers(t, useAck, i) ==
    TimeOf(useAck, i) <= t /\ TimeOf(useAck, i) + ItemAt(i).dur >= t

\* Mutant: the halves are swapped
FindItemSwapped(t, useAck) ==
    LET search[r \in (0 .. head) \X (0 .. head)] ==
            LET mid == (r[1] + r[2]) \div 2
            IN  IF Covers(t, useAck, mid) THEN mid
                ELSE IF TimeOf(useAck, mid) < t
                     THEN IF r[1] <= mid - 1 THEN search[<<r[1], mid - 1>>] ELSE mid
                     ELSE IF mid + 1 <= r[2] THEN search[<<mid + 1, r[2]>>] ELSE mid
    IN  search[<<ItemAt(tail).index, ItemAt(head - 1).index>>]

\* the last item the binary search looks at, the one it returns
FindItemWithTimestamp(t, useAck) ==
    LET search[r \in (0 .. head) \X (0 .. head)] ==
            LET mid == (r[1] + r[2]) \div 2
            IN  IF Covers(t, useAck, mid) THEN mid
                ELSE IF TimeOf(useAck, mid) > t
                     THEN IF r[1] <= mid - 1 THEN search[<<r[1], mid - 1>>] ELSE mid
                     ELSE IF mid + 1 <= r[2] THEN search[<<mid + 1, r[2]>>] ELSE mid
    IN  search[<<ItemAt(tail).index, ItemAt(head - 1).index>>]

-----------------------------------------------------------------------------
(* What the client writes through the item pointers the view hands out.    *)
SetReceivedAck(i) ==
    /\ "received" \in ClientFlags
    /\ i \in Window
    /\ slots' = [slots EXCEPT ![SlotOf(i)].received = TRUE]
    /\ callbacks' = {}
    /\ UNCHANGED <<policy, head, tail, current, live, inFlight>>

SetSkipItem(i) ==
    /\ "skip" \in ClientFlags
    /\ i \in Window
    /\ slots' = [slots EXCEPT ![SlotOf(i)].skip = TRUE]
    /\ callbacks' = {}
    /\ UNCHANGED <<policy, head, tail, current, live, inFlight>>

Next ==
    \/ \E ts \in Times, o \in PtsOffsets, d \in Durations, k \in BOOLEAN :
            AddItem(ts, ts + o, d, k)
    \/ TrimTailItems
    \/ GetNext
    \/ \E i \in tail .. head : TrimTail(i)
    \/ RemoveAll
    \/ \E i \in tail .. head : SetCurrentIndex(i)
    \/ ResetCurrent
    \/ \E d \in RollbackDurations, keyFrame, acked \in BOOLEAN :
            RollbackCurrent(d, keyFrame, acked)
    \/ \E i \in Window : SetReceivedAck(i)
    \/ \E i \in Window : SetSkipItem(i)

Spec == Init /\ [][Next]_vars

-----------------------------------------------------------------------------
(* Properties.                                                             *)

(* Types of the fields of RollingContentView; an index never goes below    *)
(* zero although trims and rollbacks subtract from unsigned values.        *)
TypeOK ==
    /\ policy \in Policies
    /\ head \in Nat /\ tail \in Nat /\ current \in Nat
    /\ slots \in [0 .. (ItemBufferCount - 1) -> Item]
    /\ live \subseteq Nat
    /\ inFlight \in Nat
    /\ callbacks \subseteq Callback

(* The window is well formed: the three indices keep their order, the ring *)
(* is never overcommitted, and each slot of the window carries its own     *)
(* index, which the binary search and the ACK handlers navigate by.        *)
WindowWellFormed ==
    /\ tail <= current /\ current <= head
    /\ head - tail <= ItemBufferCount
    /\ \A i \in Window : ItemAt(i).index = i

(* No frame leaks and none is shared: the heap holds exactly the handles   *)
(* of the items in the window, each held by one item, whatever mixture of  *)
(* evictions, trims and prepended streaming items led here.                *)
HandlesOwnedByWindow ==
    /\ live = {ItemAt(i).handle : i \in Window}
    /\ \A i, j \in Window : ItemAt(i).handle = ItemAt(j).handle => i = j

(* The item handed out by contentViewGetNext stays allocated and stays the *)
(* item before current while frames keep arriving: "dont drop currently    *)
(* streaming item to avoid corrupting data".                               *)
StreamingItemRetained ==
    inFlight # NoHandle =>
        /\ inFlight \in live
        /\ current > tail
        /\ ItemAt(current - 1).handle = inFlight

(* Every remove callback frees a handle that is allocated, so no           *)
(* allocation is freed twice by any sequence of operations.                *)
FreesOnlyLiveHandles ==
    [][\A c \in callbacks' : c.handle \in live /\ c.index \in Window]_vars

(* Dropping until a fragment start leaves something a decoder can use: if  *)
(* frames that were never sent were dropped, the next frame to send starts *)
(* a fragment (or is the one being added); and the remove callback says    *)
(* truthfully which frames those are, for the dropped frame metric.        *)
DropsToFragmentStart ==
    [][policy = DropUntilFragmentStart =>
         /\ (\E c \in callbacks' : c.index >= current) /\ current' < head /\ (head' # head \/ TrimTailItems)
              => (slots')[SlotOf(current')].key
         /\ \A c \in callbacks' : c.dropped = (c.index >= current)]_vars

\* the fragment the last sent item belongs to starts in the window at f
LastSentFragment(f) ==
    /\ f \in tail .. (current - 1)
    /\ ItemAt(f).key
    /\ \A i \in (f + 1) .. (current - 1) : ~ItemAt(i).key

\* a rollback to a received fragment start (reconnect after a restart)
RollsBack ==
    /\ UNCHANGED <<head, tail, slots>>
    /\ \E d \in RollbackDurations : RollbackCurrent(d, TRUE, TRUE)

\* the last sent fragment was neither received nor marked bad
UnackedFragment(f) ==
    /\ LastSentFragment(f)
    /\ ~ItemAt(f).received /\ ~ItemAt(f).skip
    /\ current < head => ~ItemAt(current).received

(* A rollback replays the fragment that was being sent when the connection *)
(* went down: the next item sent is at or before its first frame.  Where   *)
(* it passes over items or rests, it passes over those marked bad only and *)
(* rests on none of them.  Left out for the replay is a rollback from the  *)
(* head, which starts from a slot outside the window.                      *)
RollbackReplaysFragment ==
    [][RollsBack =>
         /\ current < head => \A f \in Window : UnackedFragment(f) => current' <= f
         /\ current' < head => ~ItemAt(current').skip
         /\ \A i \in current .. (current' - 1) : ItemAt(i).skip]_vars

(* Drops and rollbacks resume where a fragment starts.                     *)
ResumesAtFragmentStart == DropsToFragmentStart /\ RollbackReplaysFragment

\* binary search agrees with a linear scan of the window
SearchAgrees(useAck) ==
    \A t \in 0 .. (IF head = tail THEN 0 ELSE TimeOf(useAck, head - 1) + ItemAt(head - 1).dur) :
        /\ TimestampInRange(t, useAck)
        /\ \E i \in Window : Covers(t, useAck, i)
        => Covers(t, useAck, FindItemWithTimestamp(t, useAck))

\* no later item of the window starts, or ends, before an earlier one
StartsInOrder(useAck) ==
    \A i, j \in Window : i <= j => TimeOf(useAck, i) <= TimeOf(useAck, j)

EndsInOrder(useAck) ==
    \A i, j \in Window :
        i <= j => TimeOf(useAck, i) + ItemAt(i).dur <= TimeOf(useAck, j) + ItemAt(j).dur

(* Looking a timestamp up finds an item that covers it whenever the window *)
(* holds one, also when a streaming item was prepended: "using a binary    *)
(* search method as the items are timestamp ordered".  contentViewAddItem  *)
(* orders decoding timestamps; that no item outlasts a later one, and that *)
(* presentation timestamps are ordered, is up to the producer.             *)
SearchByTimestamp ==
    /\ EndsInOrder(FALSE) => SearchAgrees(FALSE)
    /\ StartsInOrder(TRUE) /\ EndsInOrder(TRUE) => SearchAgrees(TRUE)
=============================================================================
