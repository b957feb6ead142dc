------------------------- MODULE ContentViewProofs -------------------------
(***************************************************************************)
(* The safety of the content view for every ring size, buffer duration,    *)
(* overflow policy and set of frames.  The invariants the runs check are   *)
(* not inductive: an eviction needs to know that each handle was allocated *)
(* before now, that handles of the window differ and that no single frame  *)
(* fills the buffer.  ViewInv adds this; one lemma per operation shows     *)
(* that it is preserved, and the theorems draw on the invariant.           *)
(***************************************************************************)
EXTENDS ContentView, WellFoundedInduction, TLAPS

(* A non-empty set of naturals has a least element.                        *)
LEMMA LeastNatural ==
    ASSUME NEW S \in SUBSET Nat, S # {}
    PROVE  \E x \in S : \A y \in S : x <= y
<1>1. PICK x \in S : \A y \in S : ~(<<y, x>> \in OpToRel(<, Nat))
  BY NatLessThanWellFounded, WFMin
<1>2. \A y \in S : ~(y < x)
  BY <1>1 DEF OpToRel
<1>3. x \in Nat /\ \A y \in S : y \in Nat
  OBVIOUS
<1> QED
  BY <1>2, <1>3

(* MinOf, by which the model picks where a walk over the view stops, is a  *)
(* member of its argument.                                                 *)
LEMMA MinOfNaturals ==
    ASSUME NEW S \in SUBSET Nat, S # {}
    PROVE  MinOf(S) \in S
BY LeastNatural DEF MinOf

(* So is MaxOf, for a set with an upper bound such as the window.          *)
LEMMA MaxOfBounded ==
    ASSUME NEW b \in Nat, NEW S \in SUBSET (0 .. b), S # {}
    PROVE  MaxOf(S) \in S
<1> DEFINE D == {b - x : x \in S}
<1>0. \A x \in S : b - x \in Nat
  OBVIOUS
<1>1. D \in SUBSET Nat /\ D # {}
  BY <1>0
<1>2. PICK m \in D : \A y \in D : m <= y
  BY <1>1, LeastNatural
<1>3. PICK x \in S : m = b - x
  BY <1>2
<1>4. \A y \in S : b - x <= b - y
  BY <1>2, <1>3
<1>5. \A y \in S : y <= x
  BY <1>4
<1> QED BY <1>5 DEF MaxOf

(* Every index has a slot of the ring (GET_VIEW_ITEM_FROM_INDEX).          *)
LEMMA SlotInRing ==
    ASSUME NEW i \in Nat
    PROVE  SlotOf(i) \in 0 .. (ItemBufferCount - 1)
BY CountAssumption DEF SlotOf

(* Two indexes less than a lap apart have different slots: items of the    *)
(* window never share storage.                                             *)
LEMMA SlotsDistinct ==
    ASSUME NEW i \in Nat, NEW j \in Nat, i < j, j - i < ItemBufferCount
    PROVE  SlotOf(i) # SlotOf(j)
<1> DEFINE c == ItemBufferCount
           q == i \div c
           r == j \div c
<1>1. c \in Nat /\ c > 0
  BY CountAssumption
<1>2. q \in Int /\ r \in Int /\ i = c * q + (i % c) /\ j = c * r + (j % c)
  BY <1>1
<1>3. SUFFICES ASSUME i % c = j % c PROVE FALSE
  BY DEF SlotOf
<1>4. j - i = c * r - c * q
  BY <1>2, <1>3, <1>1
<1>5. c * r - c * q = c * (r - q)
  BY <1>1, <1>2
<1>6. r - q >= 1 \/ r - q <= 0
  BY <1>2
<1>7. CASE r - q >= 1
  <2>1. c * (r - q) >= c * 1
    BY <1>1, <1>2, <1>7
  <2> QED BY <2>1, <1>4, <1>5, <1>1
<1>8. CASE r - q <= 0
  <2>1. c * (r - q) <= 0
    BY <1>1, <1>2, <1>8
  <2> QED BY <2>1, <1>4, <1>5, <1>1
<1> QED BY <1>6, <1>7, <1>8

-----------------------------------------------------------------------------
(* The inductive invariant, as a predicate on explicit field values so     *)
(* that it can be stated of the intermediate state between an eviction and *)
(* the append that follows it.                                             *)
GoodView(h, t, c, sl, lv, fl) ==
    /\ h \in Nat /\ t \in Nat /\ c \in Nat /\ fl \in Nat
    /\ sl \in [0 .. (ItemBufferCount - 1) -> Item]
    /\ t <= c /\ c <= h /\ h - t <= ItemBufferCount
    /\ \A i \in t .. (h - 1) :
          /\ sl[SlotOf(i)].index = i
          /\ sl[SlotOf(i)].handle \in 1 .. h
          /\ policy = DropTailItem => sl[SlotOf(i)].dur < BufferDuration
    /\ \A i, j \in t .. (h - 1) : sl[SlotOf(i)].handle = sl[SlotOf(j)].handle => i = j
    /\ \A x : x \in lv <=> \E i \in t .. (h - 1) : x = sl[SlotOf(i)].handle
    /\ fl # NoHandle => c > t /\ sl[SlotOf(c - 1)].handle = fl

ViewInv ==
    /\ policy \in Policies
    /\ callbacks \subseteq Callback
    /\ GoodView(head, tail, current, slots, live, inFlight)

(* Frames are shorter than the window whenever a view may evict one frame  *)
(* at a time.                                                              *)
ShortFrames == DropTailItem \in Policies => \A d \in Durations : d < BufferDuration

(* The inductive invariant implies the invariants that the runs check.     *)
LEMMA InvImpliesProperties ==
    ViewInv => TypeOK /\ WindowWellFormed /\ HandlesOwnedByWindow /\ StreamingItemRetained
<1> SUFFICES ASSUME ViewInv
             PROVE  TypeOK /\ WindowWellFormed /\ HandlesOwnedByWindow /\ StreamingItemRetained
  OBVIOUS
<1> USE DEF ViewInv, GoodView
<1>1. live \subseteq Nat
  OBVIOUS
<1>2. TypeOK
  BY <1>1 DEF TypeOK
<1>3. WindowWellFormed
  BY DEF WindowWellFormed, Window, ItemAt
<1>4. live = {ItemAt(i).handle : i \in Window}
  BY DEF Window, ItemAt
<1>5. HandlesOwnedByWindow
  BY <1>4 DEF HandlesOwnedByWindow, Window, ItemAt
<1>6. StreamingItemRetained
  <2>1. ASSUME inFlight # NoHandle
        PROVE  current - 1 \in tail .. (head - 1) /\ inFlight = slots[SlotOf(current - 1)].handle
    BY <2>1
  <2> QED BY <2>1 DEF StreamingItemRetained, ItemAt
<1> QED BY <1>2, <1>3, <1>5, <1>6

(* Appending to a view with a free slot.                                   *)
LEMMA AppendPreserves ==
    ASSUME NEW t, NEW c, NEW sl, NEW lv, NEW fl,
           GoodView(head, t, c, sl, lv, fl),
           head - t < ItemBufferCount,
           NEW ts \in Nat, NEW pts \in Nat, NEW d \in Nat, NEW k \in BOOLEAN,
           policy = DropTailItem => d < BufferDuration
    PROVE  GoodView(head + 1, t, c, Append(sl, ts, pts, d, k), lv \cup {head + 1}, fl)
<1> DEFINE new == [ts |-> ts, ack |-> pts, dur |-> d, key |-> k, skip |-> FALSE,
                   received |-> FALSE, handle |-> head + 1, index |-> head]
           after == Append(sl, ts, pts, d, k)
<1> USE DEF GoodView
<1>0. head \in Nat /\ t \in Nat /\ c \in Nat
  OBVIOUS
<1>1. after = [sl EXCEPT ![SlotOf(head)] = new]
  BY DEF Append
<1>2. new \in Item
  BY <1>0 DEF Item
<1>3. SlotOf(head) \in 0 .. (ItemBufferCount - 1)
  BY <1>0, SlotInRing
<1>4. after \in [0 .. (ItemBufferCount - 1) -> Item]
  BY <1>1, <1>2, <1>3
<1>5. after[SlotOf(head)] = new
  BY <1>1, <1>3
<1>6. \A i \in t .. (head - 1) : after[SlotOf(i)] = sl[SlotOf(i)]
  <2>1. TAKE i \in t .. (head - 1)
  <2>2. SlotOf(i) # SlotOf(head)
    BY <1>0, CountAssumption, SlotsDistinct
  <2>3. SlotOf(i) \in 0 .. (ItemBufferCount - 1)
    BY <1>0, SlotInRing
  <2> QED BY <1>1, <2>2, <2>3
<1> SUFFICES GoodView(head + 1, t, c, after, lv \cup {head + 1}, fl)
  OBVIOUS
<1> HIDE DEF after
<1>7. \A i \in t .. head : i = head \/ i \in t .. (head - 1)
  BY <1>0
<1>8. t .. (head + 1 - 1) = t .. head
  BY <1>0
<1>9. \A i \in t .. head :
          /\ after[SlotOf(i)].index = i
          /\ after[SlotOf(i)].handle \in 1 .. (head + 1)
          /\ policy = DropTailItem => after[SlotOf(i)].dur < BufferDuration
  BY <1>0, <1>5, <1>6, <1>7, SMTT(20)
<1>10. \A i, j \in t .. head : after[SlotOf(i)].handle = after[SlotOf(j)].handle => i = j
  <2>1. after[SlotOf(head)].handle = head + 1
    BY <1>5
  <2>2. \A i \in t .. (head - 1) :
          after[SlotOf(i)].handle = sl[SlotOf(i)].handle /\ sl[SlotOf(i)].handle \in 1 .. head
    BY <1>6
  <2>3. \A i \in t .. (head - 1) : after[SlotOf(i)].handle # head + 1
    BY <1>0, <2>2
  <2>4. \A i, j \in t .. (head - 1) : sl[SlotOf(i)].handle = sl[SlotOf(j)].handle => i = j
    OBVIOUS
  <2> HIDE DEF GoodView
  <2> QED BY <1>7, <2>1, <2>2, <2>3, <2>4
<1>11. \A x : x \in lv \cup {head + 1} <=> \E i \in t .. head : x = after[SlotOf(i)].handle
  BY <1>0, <1>5, <1>6, <1>7
<1>12. fl # NoHandle => c > t /\ after[SlotOf(c - 1)].handle = fl
  BY <1>0, <1>6
<1> QED
  BY <1>0, <1>4, <1>8, <1>9, <1>10, <1>11, <1>12, CountAssumption

(* An eviction has something to drop, or is the fragment policy's.         *)
MayTrim == head # tail /\ (policy = DropTailItem => CanDrop)

(* An eviction (contentViewTrimTailItems) moves the tail forward, past at  *)
(* least one item and at most to the head.                                 *)
LEMMA RolledTailRange ==
    ASSUME ViewInv, MayTrim
    PROVE  /\ RolledTail \in (tail + 1) .. head
           /\ Prepends => head = tail + 1 \/ RolledTail > tail + 1
<1> USE DEF ViewInv, GoodView
<1>1. head \in Nat /\ tail \in Nat /\ current \in Nat /\ tail < head
  BY DEF MayTrim
<1>2. CASE policy = DropTailItem
  <2>1. RolledTail = TailPastOneItem
    BY <1>2 DEF RolledTail
  <2> QED
    BY <2>1, <1>1, <1>2 DEF TailPastOneItem, MayTrim, CanDrop, StreamingItem, NoIndex, Prepends
<1>3. CASE policy # DropTailItem
  <2> DEFINE S == {t \in (tail + 1) .. head : StopsAt(t)}
  <2>1. head \in S
    BY <1>1 DEF StopsAt
  <2>2. S \in SUBSET Nat
    BY <1>1
  <2>3. PICK m \in S : \A u \in S : m <= u
    BY <2>1, <2>2, LeastNatural
  <2>4. \A u \in (tail + 1) .. (m - 1) : ~StopsAt(u)
    BY <1>1, <2>3
  <2>5. \E t \in (tail + 1) .. head :
            StopsAt(t) /\ \A u \in (tail + 1) .. (t - 1) : ~StopsAt(u)
    BY <2>3, <2>4
  <2>6. TailPastFragment \in (tail + 1) .. head /\ StopsAt(TailPastFragment)
    BY <2>5 DEF TailPastFragment
  <2>7. RolledTail = TailPastFragment
    BY <1>3 DEF RolledTail
  <2>8. ASSUME Prepends, RolledTail = tail + 1 PROVE head = tail + 1
    <3>1. StreamingItem = tail
      BY <1>1, <2>8 DEF Prepends, StreamingItem, NoIndex
    <3>2. \A i \in tail .. (RolledTail - 1) : i = StreamingItem
      BY <3>1, <2>8, <1>1
    <3> QED BY <3>2, <2>6, <2>7, <2>8 DEF StopsAt
  <2> QED BY <1>1, <2>6, <2>7, <2>8
<1> QED BY <1>2, <1>3

(* The remove callback (viewItemRemoved) clears the handles of the items   *)
(* that left and touches nothing else of the ring.                         *)
LEMMA ClearKeeps ==
    ASSUME ViewInv, NEW S \in SUBSET (tail .. (head - 1))
    PROVE  /\ ClearHandles(S) \in [0 .. (ItemBufferCount - 1) -> Item]
           /\ \A j \in tail .. (head - 1) :
                 /\ j \notin S => ClearHandles(S)[SlotOf(j)] = slots[SlotOf(j)]
                 /\ ClearHandles(S)[SlotOf(j)].dur = slots[SlotOf(j)].dur
<1>1. /\ slots \in [0 .. (ItemBufferCount - 1) -> Item]
      /\ tail \in Nat /\ head \in Nat /\ head - tail <= ItemBufferCount /\ ItemBufferCount \in Nat
  BY CountAssumption DEF ViewInv, GoodView
<1>2. \A s \in 0 .. (ItemBufferCount - 1) :
         /\ [slots[s] EXCEPT !.handle = NoHandle] \in Item
         /\ [slots[s] EXCEPT !.handle = NoHandle].dur = slots[s].dur
  BY <1>1 DEF Item, NoHandle
<1>3. ClearHandles(S) \in [0 .. (ItemBufferCount - 1) -> Item]
  BY <1>1, <1>2 DEF ClearHandles
<1>4. ASSUME NEW j \in tail .. (head - 1)
      PROVE  /\ j \notin S => ClearHandles(S)[SlotOf(j)] = slots[SlotOf(j)]
             /\ ClearHandles(S)[SlotOf(j)].dur = slots[SlotOf(j)].dur
  <2>1. SlotOf(j) \in 0 .. (ItemBufferCount - 1)
    BY <1>1, SlotInRing
  <2>2. \A i \in S : SlotOf(i) = SlotOf(j) => i = j
    <3>1. SUFFICES ASSUME NEW i \in S, i # j PROVE SlotOf(i) # SlotOf(j)
      OBVIOUS
    <3>2. i \in Nat /\ j \in Nat /\ i - j < ItemBufferCount /\ j - i < ItemBufferCount
      BY <1>1
    <3>3. CASE i < j
      BY <3>2, <3>3, SlotsDistinct
    <3>4. CASE j < i
      BY <3>2, <3>4, SlotsDistinct
    <3> QED BY <3>1, <3>2, <3>3, <3>4
  <2> QED BY <1>2, <2>1, <2>2 DEF ClearHandles
<1> QED BY <1>3, <1>4

(* An eviction, with the streaming item put back in front of the new tail, *)
(* leaves a good view and frees only handles of the window.                *)
LEMMA TrimPreserves ==
    ASSUME ViewInv, MayTrim
    PROVE  /\ GoodView(head, TrimmedTail, TrimmedCurrent, TrimmedSlots,
                       live \ Freed(TrimCallbacks), inFlight)
           /\ head - TrimmedTail < ItemBufferCount
           /\ TrimCallbacks \subseteq Callback
           /\ \A cb \in TrimCallbacks : cb.handle \in live /\ cb.index \in Window
<1> DEFINE R == RolledTail
           T == TrimmedTail
           C == TrimmedCurrent
           after == TrimmedSlots
           H(i) == slots[SlotOf(i)].handle
<1>1. /\ head \in Nat /\ tail \in Nat /\ current \in Nat /\ tail < head
      /\ tail <= current /\ current <= head
      /\ head - tail <= ItemBufferCount
      /\ ItemBufferCount \in Nat /\ ItemBufferCount >= 2
  BY CountAssumption DEF MayTrim, ViewInv, GoodView
<1>2. R \in (tail + 1) .. head
  BY RolledTailRange
<1>3. Prepends => head = tail + 1 \/ R > tail + 1
  BY RolledTailRange
<1>4. /\ StreamingItem = IF current > tail THEN current - 1 ELSE -1
      /\ Prepends <=> current > tail /\ current <= R
  BY <1>1, <1>2 DEF StreamingItem, NoIndex, Prepends
<1>5. /\ T = IF Prepends THEN R - 1 ELSE R
      /\ C = IF current <= R THEN R ELSE current
  BY DEF TrimmedTail, TrimmedCurrent
<1> HIDE DEF R, T, C
<1>6. T \in Nat /\ C \in Nat /\ tail <= T /\ T <= C /\ C <= head
  BY <1>1, <1>2, <1>4, <1>5
<1>7. head - T < ItemBufferCount
  BY <1>1, <1>2, <1>3, <1>5
<1>8. \A i \in tail .. (head - 1) :
         /\ SlotOf(i) \in 0 .. (ItemBufferCount - 1)
         /\ slots[SlotOf(i)] \in Item
         /\ slots[SlotOf(i)].index = i
         /\ H(i) \in 1 .. head
         /\ policy = DropTailItem => slots[SlotOf(i)].dur < BufferDuration
  BY <1>1, SlotInRing, SMTT(20) DEF ViewInv, GoodView
<1>9. \A i, j \in tail .. (head - 1) : H(i) = H(j) => i = j
  BY DEF ViewInv, GoodView
<1>10. \A x : x \in live <=> \E i \in tail .. (head - 1) : x = H(i)
  BY DEF ViewInv, GoodView
<1>11. \A x : x \in Freed(TrimCallbacks) <=> \E i \in tail .. (R - 1) : i # StreamingItem /\ x = H(i)
  <2>1. \A x : x \in Freed(TrimCallbacks) <=> \E i \in RolledOff : x = H(i)
    <3> DEFINE cb(i) == RemoveCallback(i, policy = DropTailItem \/ i > StreamingItem)
    <3>1. TrimCallbacks = {cb(i) : i \in RolledOff}
      BY DEF TrimCallbacks
    <3>2. \A i : cb(i).handle = H(i)
      BY DEF RemoveCallback, ItemAt
    <3> HIDE DEF cb, H
    <3> QED BY <3>1, <3>2 DEF Freed
  <2>2. \A i : i \in RolledOff <=> i \in tail .. (R - 1) /\ i # StreamingItem
    BY DEF RolledOff, R
  <2> QED BY <2>1, <2>2
<1>12. /\ TrimCallbacks \subseteq Callback
       /\ \A cb \in TrimCallbacks : cb.handle \in live /\ cb.index \in Window
  <2>1. SUFFICES ASSUME NEW cb \in TrimCallbacks
                 PROVE  cb \in Callback /\ cb.handle \in live /\ cb.index \in Window
    OBVIOUS
  <2>2. PICK i \in RolledOff : cb = RemoveCallback(i, policy = DropTailItem \/ i > StreamingItem)
    BY DEF TrimCallbacks
  <2>3. i \in tail .. (head - 1)
    BY <1>1, <1>2 DEF RolledOff, R
  <2>4. cb = [index |-> i, handle |-> H(i), dropped |-> (policy = DropTailItem \/ i > StreamingItem)]
    BY <2>2 DEF RemoveCallback, ItemAt
  <2>5. cb \in Callback
    BY <2>3, <2>4, <1>8, <1>1 DEF Callback
  <2> QED BY <2>3, <2>4, <2>5, <1>10 DEF Window
<1>13. /\ after \in [0 .. (ItemBufferCount - 1) -> Item]
       /\ Prepends => /\ after[SlotOf(T)].handle = H(current - 1)
                      /\ after[SlotOf(T)].index = T
                      /\ after[SlotOf(T)].dur = slots[SlotOf(T)].dur
       /\ \A i \in T .. (head - 1) : (Prepends => i # T) => after[SlotOf(i)] = slots[SlotOf(i)]
  <2> DEFINE base == ClearHandles(RolledOff)
  <2>0. /\ RolledOff \in SUBSET (tail .. (head - 1))
        /\ \A i \in R .. (head - 1) : i \notin RolledOff
        /\ StreamingItem \notin RolledOff
    BY <1>1, <1>2 DEF RolledOff, R
  <2>1. base \in [0 .. (ItemBufferCount - 1) -> Item]
    BY <2>0, ClearKeeps
  <2>a. \A i \in R .. (head - 1) : base[SlotOf(i)] = slots[SlotOf(i)]
    BY <1>1, <1>2, <2>0, ClearKeeps
  <2>2. CASE ~Prepends
    <3>1. after = base /\ T = R
      BY <1>5, <2>2 DEF TrimmedSlots
    <3> HIDE DEF base
    <3> QED BY <2>1, <2>2, <2>a, <3>1
  <2>3. CASE Prepends
    <3>1. /\ T = R - 1 /\ T \in tail .. (head - 1) /\ current - 1 \in tail .. (head - 1)
          /\ StreamingItem = current - 1
      BY <1>1, <1>2, <1>4, <1>5, <2>3
    <3> DEFINE kept == base[SlotOf(current - 1)]
               old == base[SlotOf(T)]
               moved == [old EXCEPT !.key = kept.key, !.skip = kept.skip,
                                    !.received = kept.received, !.handle = kept.handle,
                                    !.index = T]
    <3>a. kept = slots[SlotOf(current - 1)]
      BY <2>0, <3>1, ClearKeeps
    <3>b. old.dur = slots[SlotOf(T)].dur
      BY <2>0, <3>1, ClearKeeps
    <3>2. kept \in Item /\ old \in Item /\ SlotOf(T) \in 0 .. (ItemBufferCount - 1)
      BY <1>8, <2>1, <3>1
    <3>3. after = [base EXCEPT ![SlotOf(T)] = moved]
      BY <2>3, <3>1 DEF TrimmedSlots, R
    <3> HIDE DEF base
    <3>4. moved \in Item /\ moved.handle = kept.handle /\ moved.index = T /\ moved.dur = old.dur
      BY <3>2, <1>6 DEF Item
    <3>5. after[SlotOf(T)] = moved /\ after \in [0 .. (ItemBufferCount - 1) -> Item]
      BY <2>1, <3>2, <3>3, <3>4
    <3>6. \A i \in T .. (head - 1) : i # T => after[SlotOf(i)] = slots[SlotOf(i)]
      <4>1. SUFFICES ASSUME NEW i \in T .. (head - 1), i # T
                     PROVE  after[SlotOf(i)] = slots[SlotOf(i)]
        OBVIOUS
      <4>2. SlotOf(T) # SlotOf(i)
        BY <1>1, <1>6, <4>1, SlotsDistinct
      <4>3. SlotOf(i) \in 0 .. (ItemBufferCount - 1) /\ i \in R .. (head - 1)
        BY <1>1, <1>2, <1>6, <1>8, <3>1, <4>1
      <4> QED BY <2>1, <2>a, <3>3, <4>2, <4>3
    <3> QED BY <2>3, <3>a, <3>b, <3>4, <3>5, <3>6
  <2> QED BY <2>2, <2>3
<1> HIDE DEF after
\* where the handle of each remaining index comes from
<1> DEFINE src(i) == IF Prepends /\ i = T THEN current - 1 ELSE i
<1>14. \A i \in T .. (head - 1) :
          /\ src(i) \in tail .. (head - 1)
          /\ after[SlotOf(i)].handle = H(src(i))
          /\ src(i) = StreamingItem \/ src(i) >= R
  BY <1>1, <1>2, <1>4, <1>5, <1>6, <1>13
<1>15. \A i, j \in T .. (head - 1) : src(i) = src(j) => i = j
  BY <1>1, <1>2, <1>4, <1>5, <1>6
<1>16. \A n \in tail .. (head - 1) :
          n = StreamingItem \/ n >= R => \E i \in T .. (head - 1) : src(i) = n
  BY <1>1, <1>2, <1>4, <1>5, <1>6
<1>17. \A i \in T .. (head - 1) :
          /\ after[SlotOf(i)].index = i
          /\ after[SlotOf(i)].handle \in 1 .. head
          /\ policy = DropTailItem => after[SlotOf(i)].dur < BufferDuration
  BY <1>1, <1>6, <1>8, <1>13, <1>14
<1>18. \A i, j \in T .. (head - 1) :
          after[SlotOf(i)].handle = after[SlotOf(j)].handle => i = j
  BY <1>9, <1>14, <1>15
<1>19. \A x : x \in live \ Freed(TrimCallbacks)
                <=> \E i \in T .. (head - 1) : x = after[SlotOf(i)].handle
  <2>1. ASSUME NEW x, x \in live \ Freed(TrimCallbacks)
        PROVE  \E i \in T .. (head - 1) : x = after[SlotOf(i)].handle
    <3>1. PICK n \in tail .. (head - 1) : x = H(n)
      BY <1>10, <2>1
    <3>2. n = StreamingItem \/ n >= R
      BY <1>1, <1>2, <1>11, <2>1, <3>1
    <3> QED BY <1>14, <1>16, <3>1, <3>2
  <2>2. ASSUME NEW i \in T .. (head - 1)
        PROVE  after[SlotOf(i)].handle \in live \ Freed(TrimCallbacks)
    <3>1. H(src(i)) \in live
      BY <1>10, <1>14
    <3>2. \A n \in tail .. (R - 1) : n # StreamingItem => H(n) # H(src(i))
      BY <1>1, <1>2, <1>9, <1>14
    <3> QED BY <1>11, <1>14, <3>1, <3>2
  <2> QED BY <2>1, <2>2
<1>20. inFlight # NoHandle => C > T /\ after[SlotOf(C - 1)].handle = inFlight
  <2>1. SUFFICES ASSUME inFlight # NoHandle
                 PROVE  C > T /\ after[SlotOf(C - 1)].handle = inFlight
    OBVIOUS
  <2>2. current > tail /\ H(current - 1) = inFlight
    BY <2>1 DEF ViewInv, GoodView
  <2>3. C > T /\ C - 1 \in T .. (head - 1) /\ src(C - 1) = current - 1
    BY <1>1, <1>2, <1>4, <1>5, <1>6, <2>2
  <2> QED BY <1>14, <2>2, <2>3
<1>21. inFlight \in Nat
  BY DEF ViewInv, GoodView
<1>22. GoodView(head, T, C, after, live \ Freed(TrimCallbacks), inFlight)
  BY <1>1, <1>6, <1>7, <1>13, <1>17, <1>18, <1>19, <1>20, <1>21 DEF GoodView
<1> QED
  BY <1>7, <1>12, <1>22 DEF T, C, after

(* The walk of contentViewRollbackCurrent stays between tail and current.  *)
LEMMA RolledBackRange ==
    ASSUME ViewInv, NEW d, NEW keyFrame \in BOOLEAN, NEW acked \in BOOLEAN
    PROVE  RolledBack(d, keyFrame, acked) \in tail .. current
<1> DEFINE Cs == Candidates(keyFrame)
           S == {i \in Cs : WalkStops(d, acked, i)}
           last == {i \in Cs : i > MaxOf(S)}
           r == RolledBack(d, keyFrame, acked)
<1>1. head \in Nat /\ tail \in Nat /\ current \in Nat /\ tail <= current /\ current <= head
  BY DEF ViewInv, GoodView
<1>2. Cs \subseteq tail .. current
  BY DEF Candidates
<1>3. Cs \in SUBSET Nat /\ S \in SUBSET (0 .. current) /\ last \in SUBSET Nat
  BY <1>1, <1>2
<1>4. (Cs # {} => MinOf(Cs) \in Cs) /\ (S # {} => MaxOf(S) \in S) /\ (last # {} => MinOf(last) \in last)
  BY <1>1, <1>3, MinOfNaturals, MaxOfBounded
<1>5. r = IF Cs = {} THEN current
          ELSE IF S = {} THEN MinOf(Cs)
          ELSE IF ~(acked /\ ItemAt(MaxOf(S)).received) THEN MaxOf(S)
          ELSE IF last = {} THEN current ELSE MinOf(last)
  BY Zenon DEF RolledBack
<1> HIDE DEF r
<1>6. r \in tail .. current
  <2>0. current \in tail .. current
    BY <1>1
  <2> HIDE DEF Cs, S, last
  <2>1. \/ r = current
        \/ r = MinOf(Cs) /\ Cs # {}
        \/ r = MaxOf(S) /\ S # {}
        \/ r = MinOf(last) /\ last # {}
    BY <1>5
  <2>2. S \subseteq Cs /\ last \subseteq Cs
    BY DEF S, last
  <2>3. r = current \/ r \in Cs
    BY <1>4, <2>1, <2>2
  <2> QED BY <1>2, <2>0, <2>3, Zenon
<1> QED BY <1>6 DEF r

(* contentViewRollbackCurrent leaves current between tail and head.        *)
LEMMA RollbackRange ==
    ASSUME ViewInv, NEW d, NEW keyFrame \in BOOLEAN, NEW acked \in BOOLEAN
    PROVE  RolledForward(RolledBack(d, keyFrame, acked)) \in tail .. head
<1> DEFINE r == RolledBack(d, keyFrame, acked)
           F == {j \in r .. head : j = head \/ ~ItemAt(j).skip}
<1>1. head \in Nat /\ tail \in Nat /\ current \in Nat /\ tail <= current /\ current <= head
  BY DEF ViewInv, GoodView
<1>2. r \in tail .. current
  BY RolledBackRange
<1> HIDE DEF r
<1>3. F \in SUBSET Nat /\ head \in F
  BY <1>1, <1>2
<1>4. MinOf(F) \in F
  BY <1>3, MinOfNaturals
<1> QED BY <1>1, <1>2, <1>4 DEF RolledForward, r

(* contentViewTrimTail and contentViewRemoveAll: a trim to an index of the *)
(* window leaves a good view and frees only handles of the window.         *)
LEMMA TrimTailPreserves ==
    ASSUME ViewInv, NEW i \in tail .. head, TrimTail(i)
    PROVE  ViewInv' /\ \A cb \in callbacks' : cb.handle \in live /\ cb.index \in Window
<1> DEFINE H(j) == slots[SlotOf(j)].handle
           cb(j) == RemoveCallback(j, j >= current)
<1>1. /\ head \in Nat /\ tail \in Nat /\ current \in Nat /\ inFlight \in Nat
      /\ tail <= current /\ current <= head /\ head - tail <= ItemBufferCount
      /\ slots \in [0 .. (ItemBufferCount - 1) -> Item]
      /\ policy \in Policies
  BY DEF ViewInv, GoodView
<1>2. /\ tail' = i /\ current' = (IF current < i THEN i ELSE current)
      /\ callbacks' = {cb(j) : j \in tail .. (i - 1)}
      /\ live' = live \ Freed(callbacks')
      /\ inFlight' = (IF i >= current THEN NoHandle ELSE inFlight)
      /\ policy' = policy /\ head' = head /\ slots' = ClearHandles(tail .. (i - 1))
  BY DEF TrimTail
<1>3. \A j \in tail .. (head - 1) :
         /\ slots[SlotOf(j)].index = j
         /\ H(j) \in 1 .. head
         /\ policy = DropTailItem => slots[SlotOf(j)].dur < BufferDuration
  BY DEF ViewInv, GoodView
<1>4. \A j, k \in tail .. (head - 1) : H(j) = H(k) => j = k
  BY DEF ViewInv, GoodView
<1>5. \A x : x \in live <=> \E j \in tail .. (head - 1) : x = H(j)
  BY DEF ViewInv, GoodView
<1>6. inFlight # NoHandle => current > tail /\ H(current - 1) = inFlight
  BY DEF ViewInv, GoodView
<1>7. \A j : cb(j) = [index |-> j, handle |-> H(j), dropped |-> (j >= current)]
  BY DEF RemoveCallback, ItemAt
<1> HIDE DEF cb, H
<1>8. \A x : x \in Freed(callbacks') <=> \E j \in tail .. (i - 1) : x = H(j)
  BY <1>2, <1>7 DEF Freed
<1>9. \A j \in tail .. (i - 1) : j \in tail .. (head - 1)
  BY <1>1
<1>10. \A c \in callbacks' : c \in Callback /\ c.handle \in live /\ c.index \in Window
  <2>1. SUFFICES ASSUME NEW j \in tail .. (i - 1)
                 PROVE  cb(j) \in Callback /\ cb(j).handle \in live /\ cb(j).index \in Window
    BY <1>2
  <2>2. H(j) \in Nat /\ H(j) \in live /\ j \in Int
    BY <1>1, <1>3, <1>5, <1>9
  <2>3. (j >= current) \in BOOLEAN
    OBVIOUS
  <2>4. cb(j) \in Callback
    BY <1>7, <2>2, <2>3 DEF Callback
  <2> QED BY <1>7, <1>9, <2>2, <2>4 DEF Window
<1>11. \A j \in i .. (head - 1) : j \in tail .. (head - 1)
  BY <1>1
<1>12. \A x : x \in live \ Freed(callbacks') <=> \E j \in i .. (head - 1) : x = H(j)
  <2>1. ASSUME NEW x, x \in live \ Freed(callbacks')
        PROVE  \E j \in i .. (head - 1) : x = H(j)
    <3>1. PICK j \in tail .. (head - 1) : x = H(j)
      BY <1>5, <2>1
    <3>2. ~(j \in tail .. (i - 1))
      BY <1>8, <2>1, <3>1
    <3>3. j \in i .. (head - 1)
      BY <1>1, <3>2
    <3> QED BY <3>1, <3>3
  <2>2. ASSUME NEW j \in i .. (head - 1) PROVE H(j) \in live \ Freed(callbacks')
    <3>1. H(j) \in live
      BY <1>5, <1>11
    <3>2. \A k \in tail .. (i - 1) : H(k) # H(j)
      BY <1>1, <1>4, <1>9, <1>11
    <3> QED BY <1>8, <3>1, <3>2
  <2> QED BY <2>1, <2>2
<1>17. /\ slots' \in [0 .. (ItemBufferCount - 1) -> Item]
       /\ \A j \in i .. (head - 1) : (slots')[SlotOf(j)] = slots[SlotOf(j)]
  <2>1. tail .. (i - 1) \in SUBSET (tail .. (head - 1))
    BY <1>9
  <2>2. \A j \in i .. (head - 1) : j \notin tail .. (i - 1)
    BY <1>1
  <2> QED BY <1>2, <1>11, <2>1, <2>2, ClearKeeps
<1>13. inFlight' # NoHandle => /\ current' > tail' /\ H(current' - 1) = inFlight'
                              /\ current' - 1 \in i .. (head - 1)
  BY <1>1, <1>2, <1>6
<1>14. inFlight' \in Nat /\ current' \in Nat /\ tail' \in Nat
       /\ tail' <= current' /\ current' <= head /\ head - tail' <= ItemBufferCount
  BY <1>1, <1>2, CountAssumption DEF NoHandle
<1>15. GoodView(head, tail', current', slots', live', inFlight')
  <2> SUFFICES ASSUME NEW sl, sl = slots' PROVE GoodView(head, tail', current', sl, live', inFlight')
    OBVIOUS
  <2>1. \A j \in i .. (head - 1) :
          /\ sl[SlotOf(j)].index = j
          /\ sl[SlotOf(j)].handle \in 1 .. head
          /\ policy = DropTailItem => sl[SlotOf(j)].dur < BufferDuration
          /\ sl[SlotOf(j)].handle = H(j)
    BY <1>3, <1>11, <1>17 DEF H
  <2>2. \A j, k \in i .. (head - 1) : sl[SlotOf(j)].handle = sl[SlotOf(k)].handle => j = k
    BY <1>4, <1>11, <2>1
  <2>3. \A x : x \in live' <=> \E j \in i .. (head - 1) : x = sl[SlotOf(j)].handle
    <3>1. live' = live \ Freed(callbacks')
      BY <1>2
    <3>2. \A x : x \in live' <=> \E j \in i .. (head - 1) : x = H(j)
      BY <1>12, <3>1
    <3> QED BY <2>1, <3>2
  <2>4. tail' = i
    BY <1>2
  <2>5. inFlight' # NoHandle => current' > i /\ sl[SlotOf(current' - 1)].handle = inFlight'
    BY <1>13, <2>1, <2>4
  <2> QED BY <1>1, <1>14, <1>17, <2>1, <2>2, <2>3, <2>4, <2>5 DEF GoodView
<1>16. callbacks' \subseteq Callback
  BY <1>10
<1>18. policy' = policy /\ head' = head
  BY <1>2
<1>19. ViewInv'
  BY <1>1, <1>15, <1>16, <1>18 DEF ViewInv, GoodView
<1> QED BY <1>10, <1>19

(* createContentView establishes the inductive invariant.                  *)
LEMMA InitEstablishes == Init => ViewInv
<1> SUFFICES ASSUME Init PROVE ViewInv
  OBVIOUS
<1>1. ZeroItem \in Item
  BY DEF ZeroItem, Item, NoHandle
<1>2. slots \in [0 .. (ItemBufferCount - 1) -> Item]
  BY <1>1 DEF Init
<1> QED BY <1>2, CountAssumption DEF Init, ViewInv, GoodView, NoHandle

\* a duration overflow needs two items, so a single one is never evicted
LEMMA EvictionMayTrim ==
    ASSUME ViewInv, ~Available
    PROVE  MayTrim
<1>1. /\ head \in Nat /\ tail \in Nat /\ current \in Nat
      /\ tail <= current /\ current <= head /\ head # tail
      /\ ItemBufferCount \in Nat /\ ItemBufferCount >= 2
  BY CountAssumption DEF ViewInv, GoodView, Available
<1>2. SUFFICES ASSUME policy = DropTailItem, head = tail + 1 PROVE FALSE
  BY <1>1 DEF MayTrim, CanDrop, StreamingItem, NoIndex
<1>3. ItemAt(tail) \in Item /\ ItemAt(tail).dur < BufferDuration
  BY <1>1, <1>2, SlotInRing DEF ViewInv, GoodView, ItemAt
<1>4. WindowSpan = (ItemAt(tail).ack + ItemAt(tail).dur) - ItemAt(tail).ack
  BY <1>1, <1>2 DEF WindowSpan
<1>5. ItemAt(tail).ack \in Nat /\ ItemAt(tail).dur \in Nat
  BY <1>3 DEF Item
<1>6. WindowSpan = ItemAt(tail).dur
  BY <1>4, <1>5
<1> QED BY <1>1, <1>2, <1>3, <1>5, <1>6 DEF Available

\* what every step keeps, and what every callback it makes satisfies
StepOK ==
    /\ ViewInv'
    /\ \A cb \in callbacks' : cb.handle \in live /\ cb.index \in Window

(* contentViewAddItem, with or without an eviction before it, preserves    *)
(* the inductive invariant.                                                *)
LEMMA AddItemPreserves ==
    ASSUME ShortFrames, ViewInv,
           NEW ts \in Nat, NEW pts \in Nat, NEW d \in Durations, NEW k \in BOOLEAN,
           AddItem(ts, pts, d, k)
    PROVE  StepOK
<1>1. d \in Nat /\ (policy = DropTailItem => d < BufferDuration)
  BY InputAssumption DEF ShortFrames, ViewInv
<1>2. policy' = policy /\ head' = head + 1 /\ inFlight' = inFlight /\ policy \in Policies
  BY DEF AddItem, ViewInv
<1>3. CASE Available
  <2>1. head - tail < ItemBufferCount
    BY <1>3, CountAssumption DEF Available, ViewInv, GoodView
  <2>2. GoodView(head + 1, tail, current, Append(slots, ts, pts, d, k), live \cup {head + 1}, inFlight)
    BY <1>1, <2>1, AppendPreserves DEF ViewInv
  <2>3. /\ slots' = Append(slots, ts, pts, d, k) /\ callbacks' = {}
        /\ tail' = tail /\ current' = current
    BY <1>3 DEF AddItem
  <2>4. live' = live \cup {head + 1}
    BY <2>3 DEF AddItem, Freed
  <2> QED BY <1>2, <2>2, <2>3, <2>4 DEF StepOK, ViewInv, GoodView
<1>4. CASE ~Available
  <2>1. MayTrim
    BY <1>4, EvictionMayTrim
  <2>2. /\ GoodView(head, TrimmedTail, TrimmedCurrent, TrimmedSlots,
                    live \ Freed(TrimCallbacks), inFlight)
        /\ head - TrimmedTail < ItemBufferCount
        /\ TrimCallbacks \subseteq Callback
        /\ \A cb \in TrimCallbacks : cb.handle \in live /\ cb.index \in Window
    BY <2>1, TrimPreserves
  <2>3. GoodView(head + 1, TrimmedTail, TrimmedCurrent, Append(TrimmedSlots, ts, pts, d, k),
                 (live \ Freed(TrimCallbacks)) \cup {head + 1}, inFlight)
    BY <1>1, <2>2, AppendPreserves
  <2>4. /\ slots' = Append(TrimmedSlots, ts, pts, d, k) /\ callbacks' = TrimCallbacks
        /\ tail' = TrimmedTail /\ current' = TrimmedCurrent
        /\ live' = (live \ Freed(TrimCallbacks)) \cup {head + 1}
    BY <1>4 DEF AddItem
  <2> QED BY <1>2, <2>2, <2>3, <2>4 DEF StepOK, ViewInv, GoodView
<1> QED BY <1>3, <1>4

(* A call of contentViewTrimTailItems from the client (memory pressure)    *)
(* preserves the inductive invariant.                                      *)
LEMMA TrimTailItemsPreserves ==
    ASSUME ViewInv, TrimTailItems
    PROVE  StepOK
<1>1. MayTrim
  BY DEF TrimTailItems, MayTrim, CanDrop, ViewInv, GoodView
<1>2. /\ GoodView(head, TrimmedTail, TrimmedCurrent, TrimmedSlots,
                  live \ Freed(TrimCallbacks), inFlight)
      /\ TrimCallbacks \subseteq Callback
      /\ \A cb \in TrimCallbacks : cb.handle \in live /\ cb.index \in Window
  BY <1>1, TrimPreserves
<1>3. /\ slots' = TrimmedSlots /\ callbacks' = TrimCallbacks
      /\ tail' = TrimmedTail /\ current' = TrimmedCurrent
      /\ live' = live \ Freed(TrimCallbacks)
      /\ policy' = policy /\ head' = head /\ inFlight' = inFlight
  BY DEF TrimTailItems
<1> QED BY <1>2, <1>3 DEF StepOK, ViewInv, GoodView

\* steps that only move current, or that only set a flag of one item
LEMMA MovePreserves ==
    ASSUME ViewInv,
           current' \in tail .. head, inFlight' = NoHandle, callbacks' = {},
           UNCHANGED <<policy, head, tail, slots, live>>
    PROVE  StepOK
BY DEF StepOK, ViewInv, GoodView, NoHandle

(* A view whose items differ only in their flags is as good as before.     *)
LEMMA SameFields ==
    ASSUME ViewInv, NEW sl \in [0 .. (ItemBufferCount - 1) -> Item],
           \A j \in tail .. (head - 1) :
              /\ sl[SlotOf(j)].index = slots[SlotOf(j)].index
              /\ sl[SlotOf(j)].handle = slots[SlotOf(j)].handle
              /\ sl[SlotOf(j)].dur = slots[SlotOf(j)].dur
    PROVE  GoodView(head, tail, current, sl, live, inFlight)
<1> USE DEF ViewInv, GoodView
<1>1. inFlight # NoHandle => current - 1 \in tail .. (head - 1)
  OBVIOUS
<1>2. inFlight # NoHandle => current > tail /\ sl[SlotOf(current - 1)].handle = inFlight
  BY <1>1
<1>3. \A j \in tail .. (head - 1) :
         /\ sl[SlotOf(j)].index = j
         /\ sl[SlotOf(j)].handle \in 1 .. head
         /\ policy = DropTailItem => sl[SlotOf(j)].dur < BufferDuration
  OBVIOUS
<1>4. \A j, k \in tail .. (head - 1) : sl[SlotOf(j)].handle = sl[SlotOf(k)].handle => j = k
  OBVIOUS
<1>5. \A x : x \in live <=> \E j \in tail .. (head - 1) : x = sl[SlotOf(j)].handle
  OBVIOUS
<1> QED BY <1>2, <1>3, <1>4, <1>5

(* The ACK handlers, which set a flag of one item, preserve the inductive  *)
(* invariant.                                                              *)
LEMMA FlagPreserves ==
    ASSUME ViewInv, NEW i \in Window,
           \/ slots' = [slots EXCEPT ![SlotOf(i)].received = TRUE]
           \/ slots' = [slots EXCEPT ![SlotOf(i)].skip = TRUE],
           callbacks' = {},
           UNCHANGED <<policy, head, tail, current, live, inFlight>>
    PROVE  StepOK
<1>1. slots \in [0 .. (ItemBufferCount - 1) -> Item] /\ tail \in Nat /\ head \in Nat /\ current \in Nat
  BY DEF ViewInv, GoodView
<1> DEFINE old == slots[SlotOf(i)]
<1>2. SlotOf(i) \in 0 .. (ItemBufferCount - 1) /\ old \in Item
  BY <1>1, SlotInRing DEF Window
<1>3. PICK marked \in Item :
         /\ slots' = [slots EXCEPT ![SlotOf(i)] = marked]
         /\ marked.index = old.index /\ marked.handle = old.handle /\ marked.dur = old.dur
  <2>1. CASE slots' = [slots EXCEPT ![SlotOf(i)].received = TRUE]
    <3> DEFINE m == [old EXCEPT !.received = TRUE]
    <3>1. m \in Item /\ m.index = old.index /\ m.handle = old.handle /\ m.dur = old.dur
      BY <1>2 DEF Item
    <3>2. slots' = [slots EXCEPT ![SlotOf(i)] = m]
      BY <1>1, <1>2, <2>1
    <3> QED BY <3>1, <3>2
  <2>2. CASE slots' = [slots EXCEPT ![SlotOf(i)].skip = TRUE]
    <3> DEFINE m == [old EXCEPT !.skip = TRUE]
    <3>1. m \in Item /\ m.index = old.index /\ m.handle = old.handle /\ m.dur = old.dur
      BY <1>2 DEF Item
    <3>2. slots' = [slots EXCEPT ![SlotOf(i)] = m]
      BY <1>1, <1>2, <2>2
    <3> QED BY <3>1, <3>2
  <2> QED BY <2>1, <2>2
<1>4. slots' \in [0 .. (ItemBufferCount - 1) -> Item]
  BY <1>1, <1>2, <1>3
<1>5. \A j \in tail .. (head - 1) :
         /\ (slots')[SlotOf(j)].index = slots[SlotOf(j)].index
         /\ (slots')[SlotOf(j)].handle = slots[SlotOf(j)].handle
         /\ (slots')[SlotOf(j)].dur = slots[SlotOf(j)].dur
  <2>1. SUFFICES ASSUME NEW j \in tail .. (head - 1)
                 PROVE  \/ (slots')[SlotOf(j)] = slots[SlotOf(j)]
                        \/ SlotOf(j) = SlotOf(i) /\ (slots')[SlotOf(j)] = marked
    BY <1>3
  <2>2. SlotOf(j) \in 0 .. (ItemBufferCount - 1)
    BY <1>1, SlotInRing
  <2> QED BY <1>1, <1>2, <1>3, <2>2
<1>6. GoodView(head, tail, current, slots', live, inFlight)
  BY <1>4, <1>5, SameFields
<1> QED BY <1>6 DEF StepOK, ViewInv, GoodView

(* Every operation of the view preserves the inductive invariant and frees *)
(* only allocated handles of the window.                                   *)
LEMMA NextPreserves ==
    ASSUME ShortFrames, ViewInv, Next
    PROVE  StepOK
<1>0. /\ head \in Nat /\ tail \in Nat /\ current \in Nat /\ tail <= current /\ current <= head
  BY DEF ViewInv, GoodView
<1>1. ASSUME NEW ts \in Times, NEW o \in PtsOffsets, NEW d \in Durations, NEW k \in BOOLEAN,
             AddItem(ts, ts + o, d, k)
      PROVE  StepOK
  <2>1. ts \in Nat /\ ts + o \in Nat
    BY InputAssumption
  <2> QED BY <1>1, <2>1, AddItemPreserves
<1>2. CASE TrimTailItems
  BY <1>2, TrimTailItemsPreserves
<1>3. CASE GetNext
  <2>1. /\ current < head /\ current' = current + 1 /\ inFlight' = slots[SlotOf(current)].handle
        /\ callbacks' = {} /\ UNCHANGED <<policy, head, tail, slots, live>>
    BY <1>0, <1>3 DEF GetNext, ItemAt
  <2>2. current' - 1 = current /\ current \in tail .. (head - 1) /\ inFlight' \in Nat
    BY <1>0, <2>1 DEF ViewInv, GoodView
  <2> QED BY <1>0, <2>1, <2>2 DEF StepOK, ViewInv, GoodView
<1>4. ASSUME NEW i \in tail .. head, TrimTail(i) PROVE StepOK
  BY <1>4, TrimTailPreserves DEF StepOK
<1>5. CASE RemoveAll
  <2>1. head \in tail .. head /\ TrimTail(head)
    BY <1>0, <1>5 DEF RemoveAll
  <2> QED BY <2>1, TrimTailPreserves DEF StepOK
<1>6. ASSUME NEW i \in tail .. head, SetCurrentIndex(i) PROVE StepOK
  BY <1>6, MovePreserves DEF SetCurrentIndex
<1>7. CASE ResetCurrent
  BY <1>0, <1>7, MovePreserves DEF ResetCurrent, SetCurrentIndex
<1>8. ASSUME NEW d \in RollbackDurations, NEW keyFrame \in BOOLEAN, NEW acked \in BOOLEAN,
             RollbackCurrent(d, keyFrame, acked)
      PROVE  StepOK
  BY <1>8, RollbackRange, MovePreserves DEF RollbackCurrent
<1>9. ASSUME NEW i \in Window, SetReceivedAck(i) PROVE StepOK
  BY <1>9, FlagPreserves DEF SetReceivedAck
<1>10. ASSUME NEW i \in Window, SetSkipItem(i) PROVE StepOK
  BY <1>10, FlagPreserves DEF SetSkipItem
<1> QED
  BY <1>1, <1>2, <1>3, <1>4, <1>5, <1>6, <1>7, <1>8, <1>9, <1>10 DEF Next

(* So does a step that changes nothing.                                    *)
LEMMA StutterPreserves ==
    ASSUME ViewInv, UNCHANGED vars
    PROVE  ViewInv'
BY DEF ViewInv, GoodView, vars

-----------------------------------------------------------------------------
(* Where drops and rollbacks resume.                                       *)

(* MinOf and MaxOf bound their argument.                                   *)
LEMMA MinOfBelow ==
    ASSUME NEW S \in SUBSET Nat, NEW y \in S
    PROVE  MinOf(S) <= y
<1>1. \E x \in S : \A z \in S : x <= z
  BY LeastNatural
<1> QED BY <1>1 DEF MinOf

LEMMA MaxOfAbove ==
    ASSUME NEW b \in Nat, NEW S \in SUBSET (0 .. b), NEW y \in S
    PROVE  y <= MaxOf(S)
<1> DEFINE D == {b - x : x \in S}
<1>1. D \in SUBSET Nat /\ D # {}
  OBVIOUS
<1>2. PICK m \in D : \A z \in D : m <= z
  BY <1>1, LeastNatural
<1>3. PICK x \in S : m = b - x
  BY <1>2
<1>4. \A z \in S : b - x <= b - z
  BY <1>2, <1>3
<1>5. \A z \in S : z <= x
  BY <1>4
<1> QED BY <1>5 DEF MaxOf

(* The walk of contentViewRollbackCurrent to a received fragment start     *)
(* ends at or before a fragment that was neither received nor is the       *)
(* current item.                                                           *)
LEMMA WalkReachesFragment ==
    ASSUME ViewInv, NEW d \in Nat \ {0}, NEW keyFrame \in BOOLEAN, NEW acked \in BOOLEAN, keyFrame, acked,
           NEW f \in tail .. (current - 1), current < head,
           UnackedFragment(f)
    PROVE  RolledBack(d, keyFrame, acked) <= f
<1> DEFINE Cs == Candidates(keyFrame)
           S == {i \in Cs : WalkStops(d, acked, i)}
           last == {i \in Cs : i > MaxOf(S)}
           r == RolledBack(d, keyFrame, acked)
<1>1. head \in Nat /\ tail \in Nat /\ current \in Nat /\ tail <= current /\ current < head
  BY DEF ViewInv, GoodView
<1>2. r = IF Cs = {} THEN current
          ELSE IF S = {} THEN MinOf(Cs)
          ELSE IF ~(acked /\ ItemAt(MaxOf(S)).received) THEN MaxOf(S)
          ELSE IF last = {} THEN current ELSE MinOf(last)
  BY Zenon DEF RolledBack
<1>3. Cs \subseteq tail .. current /\ f \in Cs
  BY <1>1 DEF UnackedFragment, LastSentFragment, Candidates
<1>4. \A i \in Cs : ItemAt(i).key
  BY DEF Candidates
<1> SUFFICES r <= f
  OBVIOUS
<1> HIDE DEF r, Cs
<1>5. S \subseteq Cs /\ last \subseteq Cs
  OBVIOUS
<1>6. \A i \in Cs : i <= f \/ i = current
  BY <1>1, <1>3, <1>4 DEF UnackedFragment, LastSentFragment
<1>7. current \notin S
  <2>1. ItemAt(current).ack \in Nat
    BY <1>1, SlotInRing DEF ViewInv, GoodView, ItemAt, Item
  <2>2. ~ItemAt(current).received
    BY DEF UnackedFragment
  <2>3. ~WalkStops(d, acked, current)
    BY <2>1, <2>2 DEF WalkStops
  <2> QED BY <2>3
<1> HIDE DEF S
<1>0. last = {i \in Cs : i > MaxOf(S)}
  OBVIOUS
<1> HIDE DEF last
<1>11. Cs \in SUBSET Nat /\ S \in SUBSET (0 .. current) /\ last \in SUBSET Nat
  BY <1>1, <1>3, <1>5
<1>8. CASE S = {}
  <2>1. r = MinOf(Cs)
    BY <1>2, <1>3, <1>8
  <2> QED BY <1>11, <1>3, <2>1, MinOfBelow
<1>9. CASE S # {} /\ ~ItemAt(MaxOf(S)).received
  <2>1. r = MaxOf(S)
    BY <1>2, <1>3, <1>9
  <2>2. MaxOf(S) \in S
    BY <1>1, <1>11, <1>9, MaxOfBounded
  <2>3. MaxOf(S) \in Cs /\ MaxOf(S) # current
    BY <1>5, <1>7, <2>2
  <2> QED BY <1>6, <2>1, <2>3
<1>10. CASE S # {} /\ ItemAt(MaxOf(S)).received
  <2>1. MaxOf(S) \in S
    BY <1>1, <1>11, <1>10, MaxOfBounded
  <2>2. MaxOf(S) \in Cs /\ MaxOf(S) # current /\ MaxOf(S) \in Nat
    BY <1>5, <1>7, <1>11, <2>1
  <2>3. MaxOf(S) # f
    BY <1>10 DEF UnackedFragment
  <2>4. MaxOf(S) <= f
    BY <1>6, <2>2
  <2>5. f \in last
    BY <1>0, <1>1, <1>3, <2>2, <2>3, <2>4
  <2>6. r = MinOf(last)
    BY <1>2, <1>3, <1>10, <2>5
  <2> QED BY <1>11, <2>5, <2>6, MinOfBelow
<1> QED BY <1>8, <1>9, <1>10

\* what a step that rolls back owes the replay
Replays ==
    /\ current < head => \A f \in Window : UnackedFragment(f) => current' <= f
    /\ current' < head => ~ItemAt(current').skip
    /\ \A i \in current .. (current' - 1) : ItemAt(i).skip

(* contentViewRollbackCurrent replays the fragment that was being sent.    *)
LEMMA RollbackReplays ==
    ASSUME ViewInv, NEW d \in RollbackDurations, RollbackCurrent(d, TRUE, TRUE)
    PROVE  Replays
<1> DEFINE r == RolledBack(d, TRUE, TRUE)
           F == {j \in r .. head : j = head \/ ~ItemAt(j).skip}
<1>1. head \in Nat /\ tail \in Nat /\ current \in Nat /\ tail <= current /\ current <= head
  BY DEF ViewInv, GoodView
<1>2. d \in Nat \ {0} /\ current' = MinOf(F)
  BY InputAssumption DEF RollbackCurrent, RolledForward
<1>3. r \in tail .. current
  BY RolledBackRange
<1> HIDE DEF r
<1>4. F \in SUBSET Nat /\ head \in F
  BY <1>1, <1>3
<1>5. MinOf(F) \in F
  BY <1>4, MinOfNaturals
<1>6. \A y \in F : MinOf(F) <= y
  BY <1>4, MinOfBelow
<1>7. ASSUME current < head, NEW f \in Window, UnackedFragment(f)
      PROVE  current' <= f
  <2>1. f \in tail .. (current - 1)
    BY <1>7 DEF UnackedFragment, LastSentFragment
  <2>2. r <= f
    BY <1>2, <1>7, <2>1, WalkReachesFragment DEF r
  <2>3. ~ItemAt(f).skip
    BY <1>7 DEF UnackedFragment
  <2>4. f \in F
    BY <1>1, <1>3, <2>1, <2>2, <2>3
  <2> QED BY <1>2, <1>6, <2>4
<1>8. ASSUME current' < head PROVE ~ItemAt(current').skip
  BY <1>2, <1>5, <1>8
<1>9. ASSUME NEW i \in current .. (current' - 1) PROVE ItemAt(i).skip
  <2>1. MinOf(F) \in r .. head
    BY <1>5
  <2>2. i \in r .. head /\ i # head /\ i < MinOf(F)
    BY <1>1, <1>2, <1>3, <1>9, <2>1
  <2>3. i \notin F
    BY <1>3, <1>6, <2>1, <2>2
  <2> QED BY <2>2, <2>3
<1> QED BY <1>7, <1>8, <1>9 DEF Replays

\* what a step that drops owes the receiver
DropsTruthfully ==
    policy = DropUntilFragmentStart =>
         /\ (\E c \in callbacks' : c.index >= current) /\ current' < head /\ (head' # head \/ TrimTailItems)
              => (slots')[SlotOf(current')].key
         /\ \A c \in callbacks' : c.dropped = (c.index >= current)

(* An eviction until a fragment start (contentViewTrimTailItems) reports   *)
(* as dropped what was not sent, and stops at a key frame.                 *)
LEMMA EvictionStopsAtKey ==
    ASSUME ViewInv, MayTrim, policy = DropUntilFragmentStart
    PROVE  /\ \A c \in TrimCallbacks : c.dropped = (c.index >= current) /\ c.index \in tail .. (RolledTail - 1)
           /\ current < RolledTail /\ RolledTail < head =>
                /\ TrimmedCurrent = RolledTail
                /\ TrimmedSlots[SlotOf(RolledTail)].key
<1>1. /\ head \in Nat /\ tail \in Nat /\ current \in Nat /\ tail <= current /\ current <= head
      /\ tail < head /\ head - tail <= ItemBufferCount
  BY DEF MayTrim, ViewInv, GoodView
<1>2. RolledTail \in (tail + 1) .. head
  BY RolledTailRange
<1>3. StreamingItem = IF current > tail THEN current - 1 ELSE -1
  BY DEF StreamingItem, NoIndex
<1>4. policy # DropTailItem
  BY DEF DropTailItem, DropUntilFragmentStart
<1>5. ASSUME NEW c \in TrimCallbacks
      PROVE  c.dropped = (c.index >= current) /\ c.index \in tail .. (RolledTail - 1)
  <2>1. PICK i \in RolledOff : c = RemoveCallback(i, policy = DropTailItem \/ i > StreamingItem)
    BY DEF TrimCallbacks
  <2>2. c.index = i /\ c.dropped = (policy = DropTailItem \/ i > StreamingItem)
    BY <2>1 DEF RemoveCallback
  <2>3. i \in tail .. (RolledTail - 1) /\ i # StreamingItem
    BY DEF RolledOff
  <2>4. i > StreamingItem <=> i >= current
    BY <1>1, <1>2, <1>3, <2>3
  <2> QED BY <1>4, <2>2, <2>3, <2>4
<1>6. ASSUME current < RolledTail, RolledTail < head
      PROVE  TrimmedCurrent = RolledTail /\ TrimmedSlots[SlotOf(RolledTail)].key
  <2>1. TrimmedCurrent = RolledTail
    BY <1>1, <1>2, <1>6 DEF TrimmedCurrent
  <2>2. StopsAt(RolledTail)
    <3> DEFINE S == {t \in (tail + 1) .. head : StopsAt(t)}
    <3>1. head \in S
      BY <1>1 DEF StopsAt
    <3>2. S \in SUBSET Nat
      BY <1>1
    <3>3. PICK m \in S : \A u \in S : m <= u
      BY <3>1, <3>2, LeastNatural
    <3>4. \A u \in (tail + 1) .. (m - 1) : ~StopsAt(u)
      BY <1>1, <3>3
    <3>5. \E t \in (tail + 1) .. head :
              StopsAt(t) /\ \A u \in (tail + 1) .. (t - 1) : ~StopsAt(u)
      BY <3>3, <3>4
    <3>6. StopsAt(TailPastFragment)
      BY <3>5 DEF TailPastFragment
    <3> QED BY <1>4, <3>6 DEF RolledTail
  <2>3. slots[SlotOf(RolledTail)].key
    BY <1>1, <1>2, <1>6, <2>2 DEF StopsAt, ItemAt
  <2> DEFINE cleared == ClearHandles(RolledOff)
             R == RolledTail
  <2>4. RolledOff \in SUBSET (tail .. (head - 1)) /\ RolledTail \notin RolledOff
    BY <1>1, <1>2 DEF RolledOff
  <2>5. cleared[SlotOf(R)] = slots[SlotOf(R)]
    <3>1. R \in tail .. (head - 1)
      BY <1>1, <1>2, <1>6
    <3> QED BY <2>4, <3>1, ClearKeeps
  <2>6. SlotOf(R - 1) # SlotOf(R)
    <3>1. R - 1 \in Nat /\ R \in Nat /\ R - 1 < R /\ R - (R - 1) < ItemBufferCount
      BY <1>1, <1>2, CountAssumption
    <3> QED BY <3>1, SlotsDistinct
  <2>7. SlotOf(R) \in 0 .. (ItemBufferCount - 1) /\ cleared \in [0 .. (ItemBufferCount - 1) -> Item]
    <3>1. R \in Nat
      BY <1>1, <1>2
    <3>2. cleared \in [0 .. (ItemBufferCount - 1) -> Item]
      BY <2>4, ClearKeeps
    <3> HIDE DEF cleared, R
    <3> QED BY <3>1, <3>2, SlotInRing
  <2> HIDE DEF cleared, R
  <2>8. TrimmedSlots[SlotOf(R)] = cleared[SlotOf(R)]
    <3>1. \/ TrimmedSlots = cleared
          \/ \E e : TrimmedSlots = [cleared EXCEPT ![SlotOf(R - 1)] = e]
      BY DEF TrimmedSlots, cleared, R
    <3>2. ASSUME NEW e, TrimmedSlots = [cleared EXCEPT ![SlotOf(R - 1)] = e]
          PROVE  TrimmedSlots[SlotOf(R)] = cleared[SlotOf(R)]
      BY <2>6, <2>7, <3>2
    <3> QED BY <3>1, <3>2
  <2> QED BY <2>1, <2>3, <2>5, <2>8 DEF R
<1> QED BY <1>5, <1>6

(* Every step of the view drops truthfully.                                *)
LEMMA StepDropsTruthfully ==
    ASSUME ViewInv, Next
    PROVE  DropsTruthfully
<1> SUFFICES ASSUME policy = DropUntilFragmentStart
             PROVE  /\ (\E c \in callbacks' : c.index >= current) /\ current' < head /\ (head' # head \/ TrimTailItems)
                         => (slots')[SlotOf(current')].key
                    /\ \A c \in callbacks' : c.dropped = (c.index >= current)
  BY DEF DropsTruthfully
<1>0. /\ head \in Nat /\ tail \in Nat /\ current \in Nat /\ tail <= current /\ current <= head
      /\ head - tail <= ItemBufferCount
      /\ policy # DropTailItem
  BY DEF ViewInv, GoodView, DropTailItem, DropUntilFragmentStart
<1>1. CASE callbacks' = {}
  BY <1>1
<1>2. ASSUME MayTrim, callbacks' = TrimCallbacks, current' = TrimmedCurrent,
             slots' = TrimmedSlots \/ (RolledTail < head => (slots')[SlotOf(RolledTail)] = TrimmedSlots[SlotOf(RolledTail)])
      PROVE  /\ (\E c \in callbacks' : c.index >= current) /\ current' < head => (slots')[SlotOf(current')].key
             /\ \A c \in callbacks' : c.dropped = (c.index >= current)
  <2>1. /\ \A c \in TrimCallbacks : c.dropped = (c.index >= current) /\ c.index \in tail .. (RolledTail - 1)
        /\ current < RolledTail /\ RolledTail < head =>
             TrimmedCurrent = RolledTail /\ TrimmedSlots[SlotOf(RolledTail)].key
    BY <1>2, EvictionStopsAtKey
  <2>2. RolledTail \in (tail + 1) .. head
    BY <1>2, RolledTailRange
  <2>3. ASSUME NEW c \in TrimCallbacks, c.index >= current, TrimmedCurrent < head
        PROVE  current < RolledTail /\ RolledTail < head
    <3>1. current < RolledTail
      BY <1>0, <2>1, <2>2, <2>3
    <3> QED BY <1>0, <2>2, <2>3, <3>1 DEF TrimmedCurrent
  <2> QED BY <1>2, <2>1, <2>3
<1>3. CASE TrimTailItems
  <2>1. MayTrim
    BY <1>3 DEF TrimTailItems, MayTrim, CanDrop, ViewInv, GoodView
  <2> QED BY <1>2, <1>3, <2>1 DEF TrimTailItems
<1>4. ASSUME NEW ts \in Times, NEW o \in PtsOffsets, NEW d \in Durations, NEW k \in BOOLEAN,
             AddItem(ts, ts + o, d, k), ~Available
      PROVE  /\ (\E c \in callbacks' : c.index >= current) /\ current' < head => (slots')[SlotOf(current')].key
             /\ \A c \in callbacks' : c.dropped = (c.index >= current)
  <2>1. MayTrim
    BY <1>4, EvictionMayTrim
  <2>2. callbacks' = TrimCallbacks /\ current' = TrimmedCurrent /\ slots' = Append(TrimmedSlots, ts, ts + o, d, k)
    BY <1>4 DEF AddItem
  <2>3. ASSUME RolledTail < head
        PROVE  (slots')[SlotOf(RolledTail)] = TrimmedSlots[SlotOf(RolledTail)]
    <3>1. RolledTail \in (tail + 1) .. head
      BY <2>1, RolledTailRange
    <3>2. SlotOf(RolledTail) # SlotOf(head)
      <4>1. RolledTail \in Nat /\ head - RolledTail < ItemBufferCount
        BY <1>0, <3>1, CountAssumption
      <4> QED BY <1>0, <2>3, <4>1, SlotsDistinct
    <3>3. TrimmedSlots \in [0 .. (ItemBufferCount - 1) -> Item]
      BY <2>1, TrimPreserves DEF GoodView
    <3>4. SlotOf(RolledTail) \in 0 .. (ItemBufferCount - 1)
      BY <1>0, <3>1, SlotInRing
    <3> DEFINE new == [ts |-> ts, ack |-> ts + o, dur |-> d, key |-> k, skip |-> FALSE,
                       received |-> FALSE, handle |-> head + 1, index |-> head]
    <3>5. slots' = [TrimmedSlots EXCEPT ![SlotOf(head)] = new]
      BY <2>2 DEF Append
    <3> HIDE DEF new
    <3> QED BY <3>2, <3>3, <3>4, <3>5
  <2> QED BY <1>2, <2>1, <2>2, <2>3
<1>5. ASSUME NEW i \in tail .. head, TrimTail(i), ~TrimTailItems
      PROVE  head' = head /\ \A c \in callbacks' : c.dropped = (c.index >= current)
  BY <1>5 DEF TrimTail, RemoveCallback
<1>6. CASE \E ts \in Times, o \in PtsOffsets, d \in Durations, k \in BOOLEAN : AddItem(ts, ts + o, d, k)
  <2>1. CASE Available
    <3>1. callbacks' = {}
      BY <1>6, <2>1 DEF AddItem
    <3> QED BY <1>1, <3>1
  <2> QED BY <1>4, <1>6, <2>1
<1>7. CASE (\E i \in tail .. head : TrimTail(i)) \/ RemoveAll
  <2>1. \E i \in tail .. head : TrimTail(i)
    BY <1>0, <1>7 DEF RemoveAll
  <2> QED BY <1>3, <1>5, <2>1
<1>8. CASE \/ GetNext \/ ResetCurrent
           \/ \E i \in tail .. head : SetCurrentIndex(i)
           \/ \E d \in RollbackDurations, keyFrame, acked \in BOOLEAN : RollbackCurrent(d, keyFrame, acked)
           \/ \E i \in Window : SetReceivedAck(i) \/ SetSkipItem(i)
  <2>1. callbacks' = {}
    BY <1>8 DEF GetNext, ResetCurrent, SetCurrentIndex, RollbackCurrent, SetReceivedAck, SetSkipItem
  <2> QED BY <1>1, <2>1
<1> QED BY <1>3, <1>6, <1>7, <1>8 DEF Next

-----------------------------------------------------------------------------
(* Looking a timestamp up.  findViewItemWithTimestamp is a loop that       *)
(* halves a range of indexes; the model's function is defined on ranges    *)
(* and its value on one refers to a shorter one.                           *)
Ranges == (0 .. head) \X (0 .. head)

SearchStep(t, useAck, f, r) ==
    LET mid == (r[1] + r[2]) \div 2
    IN  IF Covers(t, useAck, mid) THEN mid
        ELSE IF TimeOf(useAck, mid) > t
             THEN IF r[1] <= mid - 1 THEN f[<<r[1], mid - 1>>] ELSE mid
             ELSE IF mid + 1 <= r[2] THEN f[<<mid + 1, r[2]>>] ELSE mid

Searches(t, useAck, f) == f = [r \in Ranges |-> SearchStep(t, useAck, f, r)]

\* f is right on every range narrower than n
SearchesBelow(t, useAck, f, n) ==
    \A lo, hi \in 0 .. head :
        hi - lo < n => f[<<lo, hi>>] = SearchStep(t, useAck, f, <<lo, hi>>)

\* the half that is searched next lies inside the range and is narrower
LEMMA HalvesAreNarrower ==
    ASSUME NEW h \in Nat, NEW lo \in 0 .. h, NEW hi \in 0 .. h
    PROVE  LET mid == (lo + hi) \div 2
           IN  /\ mid \in 0 .. h
               /\ lo <= hi => mid \in lo .. hi
               /\ lo <= mid - 1 => mid - 1 \in 0 .. h /\ (mid - 1) - lo < hi - lo
               /\ mid + 1 <= hi => mid + 1 \in 0 .. h /\ hi - (mid + 1) < hi - lo
OBVIOUS

\* two searches that agree on narrower ranges take the same step
LEMMA StepsAgree ==
    ASSUME head \in Nat, NEW t, NEW useAck, NEW f, NEW g,
           NEW lo \in 0 .. head, NEW hi \in 0 .. head,
           \A a, b \in 0 .. head : b - a < hi - lo => f[<<a, b>>] = g[<<a, b>>]
    PROVE  SearchStep(t, useAck, f, <<lo, hi>>) = SearchStep(t, useAck, g, <<lo, hi>>)
<1> DEFINE mid == (lo + hi) \div 2
<1>1. /\ lo <= mid - 1 => mid - 1 \in 0 .. head /\ (mid - 1) - lo < hi - lo
      /\ mid + 1 <= hi => mid + 1 \in 0 .. head /\ hi - (mid + 1) < hi - lo
  BY HalvesAreNarrower
<1>2. lo <= mid - 1 => f[<<lo, mid - 1>>] = g[<<lo, mid - 1>>]
  BY <1>1
<1>3. mid + 1 <= hi => f[<<mid + 1, hi>>] = g[<<mid + 1, hi>>]
  BY <1>1
<1>4. \A u : SearchStep(t, useAck, u, <<lo, hi>>) =
              IF Covers(t, useAck, mid) THEN mid
              ELSE IF TimeOf(useAck, mid) > t
                   THEN IF lo <= mid - 1 THEN u[<<lo, mid - 1>>] ELSE mid
                   ELSE IF mid + 1 <= hi THEN u[<<mid + 1, hi>>] ELSE mid
  BY DEF SearchStep
<1> HIDE DEF mid
<1> QED BY <1>2, <1>3, <1>4

(* The search is defined on every range: whatever it does on the ranges    *)
(* narrower than n determines it on those of width n.                      *)
LEMMA SearchesBelowAll ==
    ASSUME head \in Nat, NEW t, NEW useAck, NEW n \in Nat
    PROVE  \E f : SearchesBelow(t, useAck, f, n)
<1> DEFINE bad == {m \in Nat : ~ \E f : SearchesBelow(t, useAck, f, m)}
<1>1. SUFFICES ASSUME bad # {} PROVE FALSE
  OBVIOUS
<1>2. PICK m \in bad : \A k \in bad : m <= k
  BY <1>1, LeastNatural
<1>3. m \in Nat /\ ~ \E f : SearchesBelow(t, useAck, f, m)
  BY <1>2
<1>4. \E f : \A lo, hi \in 0 .. head : hi - lo < m - 1 => f[<<lo, hi>>] = SearchStep(t, useAck, f, <<lo, hi>>)
  <2>1. CASE m = 0
    <3> DEFINE f == [r \in Ranges |-> SearchStep(t, useAck, <<>>, r)]
    <3>1. ASSUME NEW lo \in 0 .. head, NEW hi \in 0 .. head, hi - lo < -1
          PROVE  f[<<lo, hi>>] = SearchStep(t, useAck, f, <<lo, hi>>)
      <4>1. f[<<lo, hi>>] = SearchStep(t, useAck, <<>>, <<lo, hi>>)
        BY DEF Ranges
      <4>2. ~(lo <= ((lo + hi) \div 2) - 1) /\ ~(((lo + hi) \div 2) + 1 <= hi)
        BY <3>1
      <4>3. SearchStep(t, useAck, <<>>, <<lo, hi>>) = (lo + hi) \div 2
        BY <4>2 DEF SearchStep
      <4>4. SearchStep(t, useAck, f, <<lo, hi>>) = (lo + hi) \div 2
        BY <4>2 DEF SearchStep
      <4> QED BY <4>1, <4>3, <4>4
    <3> HIDE DEF f
    <3>2. \A lo, hi \in 0 .. head : hi - lo < m - 1 => f[<<lo, hi>>] = SearchStep(t, useAck, f, <<lo, hi>>)
      BY <2>1, <3>1
    <3> QED BY <3>2
  <2>2. CASE m # 0
    <3>1. m - 1 \in Nat /\ m - 1 \notin bad
      BY <1>2, <1>3, <2>2
    <3>2. \E f : SearchesBelow(t, useAck, f, m - 1)
      BY <3>1
    <3> QED BY <3>2 DEF SearchesBelow
  <2> QED BY <2>1, <2>2
<1>5. PICK f : \A lo, hi \in 0 .. head : hi - lo < m - 1 => f[<<lo, hi>>] = SearchStep(t, useAck, f, <<lo, hi>>)
  BY <1>4
<1> DEFINE g == [r \in Ranges |-> SearchStep(t, useAck, f, r)]
<1>6. \A lo, hi \in 0 .. head : g[<<lo, hi>>] = SearchStep(t, useAck, f, <<lo, hi>>)
  BY DEF Ranges
<1> HIDE DEF g
<1>7. ASSUME NEW lo \in 0 .. head, NEW hi \in 0 .. head, hi - lo < m
      PROVE  g[<<lo, hi>>] = SearchStep(t, useAck, g, <<lo, hi>>)
  <2>1. \A a, b \in 0 .. head : b - a < hi - lo => f[<<a, b>>] = g[<<a, b>>]
    <3> SUFFICES ASSUME NEW a \in 0 .. head, NEW b \in 0 .. head, b - a < hi - lo
                 PROVE  f[<<a, b>>] = g[<<a, b>>]
      OBVIOUS
    <3>1. b - a < m - 1
      BY <1>3, <1>7
    <3> QED BY <3>1, <1>5, <1>6
  <2>2. SearchStep(t, useAck, f, <<lo, hi>>) = SearchStep(t, useAck, g, <<lo, hi>>)
    BY <2>1, StepsAgree
  <2> QED BY <2>2, <1>6
<1>8. SearchesBelow(t, useAck, g, m)
  BY <1>7 DEF SearchesBelow
<1> QED BY <1>3, <1>8

LEMMA SearchExists ==
    ASSUME head \in Nat, NEW t, NEW useAck
    PROVE  \E f : Searches(t, useAck, f)
<1>1. PICK f : SearchesBelow(t, useAck, f, head + 1)
  BY SearchesBelowAll
<1> DEFINE g == [r \in Ranges |-> f[r]]
<1>2. \A lo, hi \in 0 .. head : g[<<lo, hi>>] = f[<<lo, hi>>]
  BY DEF Ranges
<1> HIDE DEF g
<1>3. ASSUME NEW lo \in 0 .. head, NEW hi \in 0 .. head
      PROVE  g[<<lo, hi>>] = SearchStep(t, useAck, g, <<lo, hi>>)
  <2>1. hi - lo < head + 1
    OBVIOUS
  <2>2. f[<<lo, hi>>] = SearchStep(t, useAck, f, <<lo, hi>>)
    BY <1>1, <2>1 DEF SearchesBelow
  <2>3. SearchStep(t, useAck, f, <<lo, hi>>) = SearchStep(t, useAck, g, <<lo, hi>>)
    BY <1>2, StepsAgree
  <2> QED BY <1>2, <2>2, <2>3
<1>4. \A r \in Ranges : g[r] = SearchStep(t, useAck, g, r)
  <2> SUFFICES ASSUME NEW r \in Ranges PROVE g[r] = SearchStep(t, useAck, g, r)
    OBVIOUS
  <2>1. r = <<r[1], r[2]>> /\ r[1] \in 0 .. head /\ r[2] \in 0 .. head
    BY DEF Ranges
  <2> QED BY <2>1, <1>3
<1>5. g = [r \in Ranges |-> g[r]]
  BY DEF g
<1>6. g = [r \in Ranges |-> SearchStep(t, useAck, g, r)]
  BY <1>4, <1>5
<1> QED BY <1>6 DEF Searches

\* the item the lookup returns is the value of such a function
LEMMA LookupSearches ==
    ASSUME head \in Nat, NEW t, NEW useAck
    PROVE  \E f : /\ Searches(t, useAck, f)
                  /\ FindItemWithTimestamp(t, useAck) =
                        f[<<ItemAt(tail).index, ItemAt(head - 1).index>>]
<1> DEFINE f == CHOOSE s : Searches(t, useAck, s)
<1>1. Searches(t, useAck, f)
  BY SearchExists
<1>2. FindItemWithTimestamp(t, useAck) = f[<<ItemAt(tail).index, ItemAt(head - 1).index>>]
  BY DEF FindItemWithTimestamp, Searches, SearchStep, Ranges
<1> HIDE DEF f
<1> QED BY <1>1, <1>2

(* The half a search keeps holds the item that covers the timestamp, so    *)
(* the search ends at an item that does.                                   *)
LEMMA SearchFinds ==
    ASSUME ViewInv, NEW t \in Nat, NEW useAck \in BOOLEAN,
           StartsInOrder(useAck), EndsInOrder(useAck),
           NEW f, Searches(t, useAck, f),
           NEW w \in Window, Covers(t, useAck, w),
           NEW lo \in tail .. w, NEW hi \in w .. (head - 1)
    PROVE  Covers(t, useAck, f[<<lo, hi>>])
<1> DEFINE Misses(n) == \E a \in tail .. w, b \in w .. (head - 1) :
                            n = b - a /\ ~Covers(t, useAck, f[<<a, b>>])
           bad == {n \in Nat : Misses(n)}
<1>1. head \in Nat /\ tail \in Nat
  BY DEF ViewInv, GoodView
<1>2. SUFFICES ASSUME ~Covers(t, useAck, f[<<lo, hi>>]) PROVE FALSE
  OBVIOUS
<1>3. bad \in SUBSET Nat /\ bad # {}
  <2>1. hi - lo \in Nat
    BY <1>1 DEF Window
  <2>2. Misses(hi - lo)
    BY <1>2
  <2> QED BY <2>1, <2>2
<1>4. PICK n \in bad : \A k \in bad : n <= k
  <2> HIDE DEF bad
  <2> QED BY <1>3, LeastNatural
<1>5. n \in Nat /\ Misses(n) /\ \A k \in Nat : Misses(k) => n <= k
  BY <1>4
<1> HIDE DEF bad
<1>5a. PICK a \in tail .. w, b \in w .. (head - 1) : n = b - a /\ ~Covers(t, useAck, f[<<a, b>>])
  BY <1>5
<1>6. ASSUME NEW c \in tail .. w, NEW d \in w .. (head - 1), d - c < b - a
      PROVE  Covers(t, useAck, f[<<c, d>>])
  <2>1. d - c \in Nat
    BY <1>1 DEF Window
  <2>2. ~(n <= d - c)
    BY <1>5, <1>5a, <1>6, <2>1
  <2>3. ~Misses(d - c)
    BY <1>5, <2>1, <2>2
  <2> QED BY <2>3
<1> HIDE DEF Misses
<1> DEFINE mid == (a + b) \div 2
<1>7. /\ a \in 0 .. head /\ b \in 0 .. head /\ a <= w /\ w <= b
      /\ mid \in a .. b /\ mid \in Window /\ a \in Int /\ b \in Int /\ w \in Int /\ mid \in Int
  BY <1>1 DEF Window
<1>8. f[<<a, b>>] = SearchStep(t, useAck, f, <<a, b>>)
  <2>1. <<a, b>> \in Ranges
    BY <1>7 DEF Ranges
  <2> DEFINE F == [r \in Ranges |-> SearchStep(t, useAck, f, r)]
  <2>2. F[<<a, b>>] = SearchStep(t, useAck, f, <<a, b>>)
    BY <2>1
  <2>3. f = F
    BY DEF Searches
  <2> HIDE DEF F
  <2> QED BY <2>2, <2>3
<1>9. SearchStep(t, useAck, f, <<a, b>>) =
        IF Covers(t, useAck, mid) THEN mid
        ELSE IF TimeOf(useAck, mid) > t
             THEN IF a <= mid - 1 THEN f[<<a, mid - 1>>] ELSE mid
             ELSE IF mid + 1 <= b THEN f[<<mid + 1, b>>] ELSE mid
  BY DEF SearchStep
<1>10. \A i \in Window : TimeOf(useAck, i) \in Nat /\ ItemAt(i).dur \in Nat
  <2> SUFFICES ASSUME NEW i \in Window PROVE TimeOf(useAck, i) \in Nat /\ ItemAt(i).dur \in Nat
    OBVIOUS
  <2>1. i \in Nat
    BY <1>1 DEF Window
  <2>2. ItemAt(i) \in Item
    BY <2>1, SlotInRing DEF ViewInv, GoodView, ItemAt
  <2> QED BY <2>2 DEF Item, TimeOf
<1> HIDE DEF mid
<1>11. ~Covers(t, useAck, mid)
  BY <1>5a, <1>8, <1>9
<1>12. CASE TimeOf(useAck, mid) > t
  <2>1. TimeOf(useAck, w) <= t
    BY DEF Covers
  <2>2. ~(mid <= w)
    BY <1>7, <1>10, <1>12, <2>1 DEF StartsInOrder
  <2>3. w <= mid - 1 /\ mid - 1 \in w .. (head - 1) /\ (mid - 1) - a < b - a /\ a <= mid - 1
    BY <1>1, <1>7, <2>2 DEF Window
  <2>4. Covers(t, useAck, f[<<a, mid - 1>>])
    BY <1>6, <2>3
  <2> QED BY <1>5a, <1>8, <1>9, <1>11, <1>12, <2>3, <2>4
<1>13. CASE ~(TimeOf(useAck, mid) > t)
  <2>1. TimeOf(useAck, mid) + ItemAt(mid).dur < t
    BY <1>7, <1>10, <1>11, <1>13 DEF Covers
  <2>2. TimeOf(useAck, w) + ItemAt(w).dur >= t
    BY DEF Covers
  <2>3. ~(w <= mid)
    <3>1. SUFFICES ASSUME w <= mid PROVE FALSE
      OBVIOUS
    <3>2. TimeOf(useAck, w) + ItemAt(w).dur <= TimeOf(useAck, mid) + ItemAt(mid).dur
      BY <1>7, <3>1 DEF EndsInOrder
    <3>3. TimeOf(useAck, w) + ItemAt(w).dur \in Nat /\ TimeOf(useAck, mid) + ItemAt(mid).dur \in Nat
      BY <1>7, <1>10
    <3> QED BY <2>1, <2>2, <3>2, <3>3
  <2>4. mid + 1 \in tail .. w /\ b - (mid + 1) < b - a /\ mid + 1 <= b
    BY <1>1, <1>7, <2>3 DEF Window
  <2>5. Covers(t, useAck, f[<<mid + 1, b>>])
    BY <1>6, <2>4
  <2> QED BY <1>5a, <1>8, <1>9, <1>11, <1>13, <2>4, <2>5
<1> QED BY <1>12, <1>13

(* The lookup starts with the indexes the first and the last item carry,   *)
(* which are the ends of the window.                                       *)
LEMMA LookupAgrees ==
    ASSUME ViewInv, NEW useAck \in BOOLEAN, StartsInOrder(useAck), EndsInOrder(useAck)
    PROVE  SearchAgrees(useAck)
<1>1. head \in Nat /\ tail \in Nat
  BY DEF ViewInv, GoodView
<1> SUFFICES ASSUME NEW t \in Nat, NEW w \in Window, Covers(t, useAck, w)
             PROVE  Covers(t, useAck, FindItemWithTimestamp(t, useAck))
  <2> DEFINE top == IF head = tail THEN 0 ELSE TimeOf(useAck, head - 1) + ItemAt(head - 1).dur
  <2>1. \A t \in 0 .. top : t \in Nat
    OBVIOUS
  <2> QED BY <2>1 DEF SearchAgrees
<1>2. PICK f : /\ Searches(t, useAck, f)
               /\ FindItemWithTimestamp(t, useAck) = f[<<ItemAt(tail).index, ItemAt(head - 1).index>>]
  BY <1>1, LookupSearches
<1>3. tail \in tail .. w /\ head - 1 \in w .. (head - 1) /\ tail \in Window /\ head - 1 \in Window
  BY <1>1 DEF Window
<1>4. ItemAt(tail).index = tail /\ ItemAt(head - 1).index = head - 1
  BY <1>3 DEF ViewInv, GoodView, ItemAt, Window
<1>5. Covers(t, useAck, f[<<tail, head - 1>>])
  BY <1>2, <1>3, SearchFinds
<1> QED BY <1>2, <1>4, <1>5

-----------------------------------------------------------------------------
(* contentViewAddItem refuses a timestamp older than the newest item's, so *)
(* decoding timestamps are ordered in the window.  They stay so when a     *)
(* streaming item is prepended: its slot keeps the timestamp of the item   *)
(* it replaces.                                                            *)
TimesInOrder(h, t, sl) ==
    \A i, j \in t .. (h - 1) : i <= j => sl[SlotOf(i)].ts <= sl[SlotOf(j)].ts

TimesKept(sl) == \A s \in 0 .. (ItemBufferCount - 1) : sl[s].ts = slots[s].ts

\* a window that only shrinks at its tail keeps the order
LEMMA OrderShrinks ==
    ASSUME NEW h \in Nat, NEW t \in Nat, TimesInOrder(h, t, slots),
           NEW u \in Nat, t <= u, NEW sl, TimesKept(sl)
    PROVE  TimesInOrder(h, u, sl)
<1> SUFFICES ASSUME NEW i \in u .. (h - 1), NEW j \in u .. (h - 1), i <= j
             PROVE  sl[SlotOf(i)].ts <= sl[SlotOf(j)].ts
  BY DEF TimesInOrder
<1>1. i \in t .. (h - 1) /\ j \in t .. (h - 1) /\ i \in Nat /\ j \in Nat
  OBVIOUS
<1>2. sl[SlotOf(i)].ts = slots[SlotOf(i)].ts /\ sl[SlotOf(j)].ts = slots[SlotOf(j)].ts
  BY <1>1, SlotInRing DEF TimesKept
<1> QED BY <1>1, <1>2 DEF TimesInOrder

\* an item that is not older than the newest one may be appended
LEMMA OrderExtends ==
    ASSUME NEW t, NEW sl, head \in Nat, t \in Nat, t <= head, head - t < ItemBufferCount,
           sl \in [0 .. (ItemBufferCount - 1) -> Item], TimesInOrder(head, t, sl),
           NEW ts \in Nat, NEW pts, NEW d, NEW k,
           head # t => sl[SlotOf(head - 1)].ts <= ts
    PROVE  TimesInOrder(head + 1, t, Append(sl, ts, pts, d, k))
<1> DEFINE after == Append(sl, ts, pts, d, k)
<1>1. SlotOf(head) \in 0 .. (ItemBufferCount - 1)
  BY SlotInRing
<1>2. after[SlotOf(head)].ts = ts
  BY <1>1 DEF Append
<1>3. \A i \in t .. (head - 1) : after[SlotOf(i)].ts = sl[SlotOf(i)].ts
  <2>1. TAKE i \in t .. (head - 1)
  <2>2. i \in Nat /\ i < head /\ head - i < ItemBufferCount
    BY CountAssumption
  <2>3. SlotOf(i) # SlotOf(head) /\ SlotOf(i) \in 0 .. (ItemBufferCount - 1)
    BY <2>2, SlotsDistinct, SlotInRing
  <2> QED BY <1>1, <2>3 DEF Append
<1>4. \A i \in t .. (head - 1) : sl[SlotOf(i)].ts <= ts
  <2>1. TAKE i \in t .. (head - 1)
  <2>2. head - 1 \in t .. (head - 1) /\ i <= head - 1 /\ head # t /\ i \in Nat /\ head - 1 \in Nat
    OBVIOUS
  <2>3. sl[SlotOf(i)].ts <= sl[SlotOf(head - 1)].ts
    BY <2>2 DEF TimesInOrder
  <2>4. sl[SlotOf(i)].ts \in Nat /\ sl[SlotOf(head - 1)].ts \in Nat
    BY <2>2, SlotInRing DEF Item
  <2> QED BY <2>2, <2>3, <2>4
<1> HIDE DEF after
<1>5. ASSUME NEW i \in t .. head, NEW j \in t .. head, i <= j
      PROVE  after[SlotOf(i)].ts <= after[SlotOf(j)].ts
  <2>1. (i = head /\ j = head) \/ i \in t .. (head - 1)
    BY <1>5
  <2>2. ASSUME i = head, j = head PROVE after[SlotOf(i)].ts <= after[SlotOf(j)].ts
    BY <1>2, <2>2
  <2>3. ASSUME i \in t .. (head - 1), j = head PROVE after[SlotOf(i)].ts <= after[SlotOf(j)].ts
    BY <1>2, <1>3, <1>4, <2>3
  <2>4. ASSUME i \in t .. (head - 1), j \in t .. (head - 1)
        PROVE  after[SlotOf(i)].ts <= after[SlotOf(j)].ts
    BY <1>3, <1>5, <2>4 DEF TimesInOrder
  <2>5. j = head \/ j \in t .. (head - 1)
    OBVIOUS
  <2> QED BY <2>1, <2>2, <2>3, <2>4, <2>5
<1>6. t .. (head + 1 - 1) = t .. head
  OBVIOUS
<1>7. TimesInOrder(head + 1, t, after)
  BY <1>5, <1>6 DEF TimesInOrder
<1> QED BY <1>7 DEF after

\* clearing handles and putting the streaming item back write no timestamp
LEMMA ClearKeepsTimes ==
    ASSUME slots \in [0 .. (ItemBufferCount - 1) -> Item], NEW S
    PROVE  /\ DOMAIN ClearHandles(S) = 0 .. (ItemBufferCount - 1)
           /\ \A s \in 0 .. (ItemBufferCount - 1) :
                 /\ ClearHandles(S)[s] \in Item
                 /\ ClearHandles(S)[s].ts = slots[s].ts
<1>1. ASSUME NEW s \in 0 .. (ItemBufferCount - 1)
      PROVE  [slots[s] EXCEPT !.handle = NoHandle] \in Item
             /\ [slots[s] EXCEPT !.handle = NoHandle].ts = slots[s].ts
  <2>1. slots[s] \in Item
    OBVIOUS
  <2> QED BY <2>1 DEF Item, NoHandle
<1> QED BY <1>1 DEF ClearHandles

LEMMA TrimKeepsTimes ==
    ASSUME ViewInv, MayTrim
    PROVE  TimesKept(TrimmedSlots)
<1> DEFINE cleared == ClearHandles(RolledOff)
           front == SlotOf(RolledTail - 1)
           kept == cleared[SlotOf(StreamingItem)]
           moved == [cleared[front] EXCEPT !.key = kept.key, !.skip = kept.skip,
                          !.received = kept.received, !.handle = kept.handle,
                          !.index = RolledTail - 1]
<1>1. slots \in [0 .. (ItemBufferCount - 1) -> Item]
  BY DEF ViewInv, GoodView
<1>2. /\ DOMAIN cleared = 0 .. (ItemBufferCount - 1)
      /\ \A s \in 0 .. (ItemBufferCount - 1) : cleared[s] \in Item /\ cleared[s].ts = slots[s].ts
  BY <1>1, ClearKeepsTimes
<1>3. TrimmedSlots = IF Prepends THEN [cleared EXCEPT ![front] = moved] ELSE cleared
  BY DEF TrimmedSlots
<1>4. front \in 0 .. (ItemBufferCount - 1)
  <2>1. RolledTail - 1 \in Nat
    BY RolledTailRange DEF ViewInv, GoodView
  <2> QED BY <2>1, SlotInRing
<1> HIDE DEF cleared, front
<1>5. moved.ts = cleared[front].ts
  BY <1>2, <1>4 DEF Item
<1> HIDE DEF moved
<1> QED BY <1>2, <1>3, <1>4, <1>5 DEF TimesKept

(* Every operation keeps decoding timestamps in order.                     *)
LEMMA NextKeepsOrder ==
    ASSUME ViewInv, TimesInOrder(head, tail, slots), Next
    PROVE  TimesInOrder(head, tail, slots)'
<1>0. /\ head \in Nat /\ tail \in Nat /\ current \in Nat /\ tail <= current /\ current <= head
      /\ slots \in [0 .. (ItemBufferCount - 1) -> Item]
  BY DEF ViewInv, GoodView
<1> DEFINE Goal == TimesInOrder(head', tail', slots')
<1>00. SUFFICES Goal
  BY DEF TimesInOrder, SlotOf
<1>1. ASSUME NEW ts \in Nat, NEW pts \in Nat, NEW d, NEW k, AddItem(ts, pts, d, k)
      PROVE  Goal
  <2>1. head' = head + 1 /\ (head # tail => slots[SlotOf(head - 1)].ts <= ts)
    BY <1>1 DEF AddItem, ItemAt
  <2>2. CASE Available
    <3>1. head - tail < ItemBufferCount
      <4>1. head = tail \/ head - tail < ItemBufferCount
        BY <2>2 DEF Available
      <4>2. head \in Nat /\ tail \in Nat
        BY <1>0
      <4> QED BY <4>1, <4>2, CountAssumption
    <3>2. tail' = tail /\ slots' = Append(slots, ts, pts, d, k)
      BY <1>1, <2>2 DEF AddItem
    <3>3. tail <= head
      BY <1>0
    <3>4. TimesInOrder(head + 1, tail, Append(slots, ts, pts, d, k))
      BY <1>0, <2>1, <3>1, <3>3, OrderExtends
    <3> QED BY <2>1, <3>2, <3>4
  <2>3. CASE ~Available
    <3>1. MayTrim
      BY <2>3, EvictionMayTrim
    <3>2. /\ GoodView(head, TrimmedTail, TrimmedCurrent, TrimmedSlots,
                      live \ Freed(TrimCallbacks), inFlight)
          /\ head - TrimmedTail < ItemBufferCount
      BY <3>1, TrimPreserves
    <3>3. /\ TrimmedTail \in Nat /\ TrimmedTail <= head
          /\ TrimmedSlots \in [0 .. (ItemBufferCount - 1) -> Item]
      BY <3>2 DEF GoodView
    <3>4. tail <= TrimmedTail
      BY <1>0, <3>1, RolledTailRange DEF TrimmedTail
    <3>5. TimesInOrder(head, TrimmedTail, TrimmedSlots)
      BY <1>0, <3>1, <3>3, <3>4, OrderShrinks, TrimKeepsTimes
    <3>6. head # TrimmedTail => TrimmedSlots[SlotOf(head - 1)].ts <= ts
      <4> SUFFICES ASSUME head # TrimmedTail PROVE TrimmedSlots[SlotOf(head - 1)].ts <= ts
        OBVIOUS
      <4>1. head # tail /\ head - 1 \in Nat
        BY <1>0, <3>3, <3>4
      <4>2. TrimmedSlots[SlotOf(head - 1)].ts = slots[SlotOf(head - 1)].ts
        BY <3>1, <4>1, TrimKeepsTimes, SlotInRing DEF TimesKept
      <4> QED BY <2>1, <4>1, <4>2
    <3>7. tail' = TrimmedTail /\ slots' = Append(TrimmedSlots, ts, pts, d, k)
      BY <1>1, <2>3 DEF AddItem
    <3>8. TimesInOrder(head + 1, TrimmedTail, Append(TrimmedSlots, ts, pts, d, k))
      BY <1>0, <3>2, <3>3, <3>5, <3>6, OrderExtends
    <3> QED BY <2>1, <3>7, <3>8
  <2> QED BY <2>2, <2>3
<1>2. ASSUME TrimTailItems PROVE Goal
  <2>1. MayTrim
    BY <1>2 DEF TrimTailItems, MayTrim, CanDrop, ViewInv, GoodView
  <2>2. head' = head /\ tail' = TrimmedTail /\ slots' = TrimmedSlots
    BY <1>2 DEF TrimTailItems
  <2>3. TrimmedTail \in Nat /\ tail <= TrimmedTail
    BY <1>0, <2>1, RolledTailRange DEF TrimmedTail
  <2>4. TimesInOrder(head, TrimmedTail, TrimmedSlots)
    BY <1>0, <2>1, <2>3, OrderShrinks, TrimKeepsTimes
  <2> QED BY <2>2, <2>4
<1>3. ASSUME NEW i \in tail .. head, TrimTail(i) PROVE Goal
  <2>1. head' = head /\ tail' = i /\ slots' = ClearHandles(tail .. (i - 1))
    BY <1>3 DEF TrimTail
  <2>2. TimesKept(ClearHandles(tail .. (i - 1)))
    BY <1>0, ClearKeepsTimes DEF TimesKept
  <2>3. TimesInOrder(head, i, ClearHandles(tail .. (i - 1)))
    BY <1>0, <2>2, OrderShrinks
  <2> QED BY <2>1, <2>3
<1>4. ASSUME UNCHANGED <<head, tail, slots>> PROVE Goal
  BY <1>4
<1>5. ASSUME NEW i \in Window, SetReceivedAck(i) \/ SetSkipItem(i) PROVE Goal
  <2>1. SlotOf(i) \in 0 .. (ItemBufferCount - 1)
    BY <1>0, SlotInRing, SMTT(20) DEF Window
  <2>2. \A s \in 0 .. (ItemBufferCount - 1) : slots[s] \in Item
    BY <1>0
  <2>3. TimesKept(slots')
    <3>1. CASE SetReceivedAck(i)
      <4>1. slots' = [slots EXCEPT ![SlotOf(i)] = [slots[SlotOf(i)] EXCEPT !.received = TRUE]]
        BY <3>1 DEF SetReceivedAck
      <4>2. [slots[SlotOf(i)] EXCEPT !.received = TRUE].ts = slots[SlotOf(i)].ts
        BY <2>1, <2>2 DEF Item
      <4> QED BY <1>0, <4>1, <4>2 DEF TimesKept
    <3>2. CASE SetSkipItem(i)
      <4>1. slots' = [slots EXCEPT ![SlotOf(i)] = [slots[SlotOf(i)] EXCEPT !.skip = TRUE]]
        BY <3>2 DEF SetSkipItem
      <4>2. [slots[SlotOf(i)] EXCEPT !.skip = TRUE].ts = slots[SlotOf(i)].ts
        BY <2>1, <2>2 DEF Item
      <4> QED BY <1>0, <4>1, <4>2 DEF TimesKept
    <3> QED BY <1>5, <3>1, <3>2
  <2>4. head' = head /\ tail' = tail
    BY <1>5 DEF SetReceivedAck, SetSkipItem
  <2>5. TimesInOrder(head, tail, slots')
    BY <1>0, <2>3, OrderShrinks
  <2> QED BY <2>4, <2>5
<1> HIDE DEF Goal
<1>6. ASSUME NEW ts \in Times, NEW o \in PtsOffsets, NEW d \in Durations, NEW k \in BOOLEAN,
             AddItem(ts, ts + o, d, k)
      PROVE  Goal
  <2>1. ts \in Nat /\ ts + o \in Nat
    BY InputAssumption
  <2> QED BY <1>1, <1>6, <2>1
<1>7. CASE GetNext
  BY <1>4, <1>7 DEF GetNext
<1>8. CASE RemoveAll
  <2>1. head \in tail .. head /\ TrimTail(head)
    BY <1>0, <1>8 DEF RemoveAll
  <2> QED BY <1>3, <2>1
<1>9. ASSUME NEW i \in tail .. head, SetCurrentIndex(i) PROVE Goal
  BY <1>4, <1>9 DEF SetCurrentIndex
<1>10. CASE ResetCurrent
  BY <1>4, <1>10 DEF ResetCurrent, SetCurrentIndex
<1>11. ASSUME NEW d \in RollbackDurations, NEW keyFrame \in BOOLEAN, NEW acked \in BOOLEAN,
              RollbackCurrent(d, keyFrame, acked)
       PROVE  Goal
  BY <1>4, <1>11 DEF RollbackCurrent
<1> QED
  BY <1>2, <1>3, <1>5, <1>6, <1>7, <1>8, <1>9, <1>10, <1>11 DEF Next

-----------------------------------------------------------------------------
(* The view's safety for every ring size, buffer duration and input set:   *)
(* the window stays well formed, owns exactly the allocations of its items *)
(* and keeps the item being uploaded (ContentView.c).                      *)
THEOREM ViewSafety ==
    ASSUME ShortFrames
    PROVE  Spec => [](TypeOK /\ WindowWellFormed /\ HandlesOwnedByWindow /\ StreamingItemRetained)
<1>1. Init => ViewInv
  BY InitEstablishes
<1>2. ViewInv /\ [Next]_vars => ViewInv'
  BY NextPreserves, StutterPreserves DEF StepOK
<1>3. ViewInv => TypeOK /\ WindowWellFormed /\ HandlesOwnedByWindow /\ StreamingItemRetained
  BY InvImpliesProperties
<1> QED
  BY <1>1, <1>2, <1>3, PTL DEF Spec

(* No operation of the view hands the remove callback an allocation that   *)
(* was already freed, or an item outside the window.                       *)
THEOREM ViewFreesOnlyLiveHandles ==
    ASSUME ShortFrames
    PROVE  Spec => FreesOnlyLiveHandles
<1>1. Init => ViewInv
  BY InitEstablishes
<1>2. ViewInv /\ [Next]_vars => ViewInv'
  BY NextPreserves, StutterPreserves DEF StepOK
<1>3. ViewInv /\ [Next]_vars => [\A c \in callbacks' : c.handle \in live /\ c.index \in Window]_vars
  BY NextPreserves DEF StepOK
<1> QED
  BY <1>1, <1>2, <1>3, PTL DEF Spec, FreesOnlyLiveHandles

(* The item being uploaded stays allocated and stays the one before        *)
(* current (contentViewTrimTailItems spares it).                           *)
THEOREM ViewRetainsStreamingItem ==
    ASSUME ShortFrames
    PROVE  Spec => []StreamingItemRetained
BY ViewSafety, PTL

(* Dropping until a fragment start resumes at a key frame and says which   *)
(* frames were not sent; a rollback replays the fragment that was being    *)
(* sent and rests on no item marked bad.                                   *)
THEOREM ViewResumesAtFragmentStart ==
    ASSUME ShortFrames
    PROVE  Spec => ResumesAtFragmentStart
<1>1. Init => ViewInv
  BY InitEstablishes
<1>2. ViewInv /\ [Next]_vars => ViewInv'
  BY NextPreserves, StutterPreserves DEF StepOK
<1>3. ViewInv /\ [Next]_vars => [DropsTruthfully]_vars
  BY StepDropsTruthfully
<1>4. ViewInv /\ [Next]_vars => [RollsBack => Replays]_vars
  <2>1. ASSUME ViewInv, RollsBack
        PROVE  Replays
    <3> PICK d \in RollbackDurations : RollbackCurrent(d, TRUE, TRUE)
      BY <2>1 DEF RollsBack
    <3> QED BY <2>1, RollbackReplays
  <2> QED BY <2>1
<1>5. Spec => [][DropsTruthfully]_vars
  BY <1>1, <1>2, <1>3, PTL DEF Spec
<1>6. Spec => [][RollsBack => Replays]_vars
  BY <1>1, <1>2, <1>4, PTL DEF Spec
<1> QED
  BY <1>5, <1>6 DEF ResumesAtFragmentStart, DropsToFragmentStart, RollbackReplaysFragment, DropsTruthfully, Replays

(* Looking up a decoding timestamp finds an item that covers it whenever   *)
(* the window holds one, if no item of the window outlasts a later one;    *)
(* looking up a presentation timestamp does so if those are ordered too    *)
(* (contentViewGetItemWithTimestamp, findViewItemWithTimestamp).           *)
THEOREM ViewSearchByTimestamp ==
    ASSUME ShortFrames
    PROVE  Spec => []SearchByTimestamp
<1> DEFINE Inv == ViewInv /\ TimesInOrder(head, tail, slots)
<1>1. Init => Inv
  <2>1. Init => ViewInv
    BY InitEstablishes
  <2>2. Init => TimesInOrder(head, tail, slots)
    BY DEF Init, TimesInOrder
  <2> QED BY <2>1, <2>2
<1>2. Inv /\ [Next]_vars => Inv'
  <2>1. ViewInv /\ [Next]_vars => ViewInv'
    BY NextPreserves, StutterPreserves DEF StepOK
  <2>2. Inv /\ Next => TimesInOrder(head, tail, slots)'
    BY NextKeepsOrder
  <2>3. Inv /\ UNCHANGED vars => TimesInOrder(head, tail, slots)'
    BY DEF vars, TimesInOrder, SlotOf
  <2> QED BY <2>1, <2>2, <2>3
<1>3. Inv => SearchByTimestamp
  <2>1. ViewInv /\ TimesInOrder(head, tail, slots) => StartsInOrder(FALSE)
    BY DEF TimesInOrder, StartsInOrder, TimeOf, ItemAt, Window
  <2> QED BY <2>1, LookupAgrees DEF SearchByTimestamp
<1> QED
  BY <1>1, <1>2, <1>3, PTL DEF Spec
=============================================================================
