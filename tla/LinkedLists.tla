------------------------------- MODULE LinkedLists ------------------------------
(***************************************************************************)
(* The doubly and the singly linked list (utils/src/DoubleLinkedList.c,    *)
(* SingleLinkedList.c) and the stack/queue made of the latter              *)
(* (StackQueue.c), pointer by pointer.  A memory holds the lists           *)
(* [head, tail, count] and the nodes; Nil is the null pointer.             *)
(***************************************************************************)
EXTENDS Integers, Sequences, FiniteSets, SequencesExt

CONSTANTS Lists, Items, Nodes, Nil

VARIABLES double,   \* memory of the doubly linked lists
          single    \* memory of the singly linked lists
listVars == <<double, single>>

EmptyList == [head |-> Nil, tail |-> Nil, count |-> 0]
NewMemory == [list |-> [l \in Lists |-> EmptyList],
              next |-> [n \in Nodes |-> Nil], prev |-> [n \in Nodes |-> Nil], data |-> [n \in Nodes |-> Nil]]

\* Nodes met following the pointers f, no further than there are nodes.
Follow(f, from) ==
    LET path[k \in 0..Cardinality(Nodes), at \in Nodes \cup {Nil}] ==
            IF k = 0 \/ at = Nil THEN << >> ELSE <<at>> \o path[k - 1, f[at]]
    IN path[Cardinality(Nodes), from]
Chain(m, l) == Follow(m.next, m.list[l].head)
InUse(m) == UNION {ToSet(Chain(m, l)) : l \in Lists}
Free(m) == {CHOOSE n \in S : TRUE : S \in {Nodes \ InUse(m)} \ {{}}}

\* A pointer field of a node, or of nothing when the node is null.
Set(f, n, v) == IF n = Nil THEN f ELSE [f EXCEPT ![n] = v]
Alloc(m, n, x) == [m EXCEPT !.data[n] = x]

-----------------------------------------------------------------------------
(* DoubleLinkedList.c *)

doubleListInsertNodeHeadInternal(m, l, n) ==
    LET h == m.list[l].head IN
    [m EXCEPT !.prev = [Set(@, h, n) EXCEPT ![n] = Nil], !.next[n] = h,
              !.list[l] = [head |-> n, tail |-> IF h = Nil THEN n ELSE @.tail, count |-> @.count + 1]]

doubleListInsertNodeTailInternal(m, l, n) ==
    LET t == m.list[l].tail IN
    [m EXCEPT !.next = [Set(@, t, n) EXCEPT ![n] = Nil], !.prev[n] = t,
              !.list[l] = [head |-> IF t = Nil THEN n ELSE @.head, tail |-> n, count |-> @.count + 1]]

doubleListInsertNodeBeforeInternal(m, l, at, n) ==
    LET p == m.prev[at] IN
    [m EXCEPT !.prev = [@ EXCEPT ![n] = p, ![at] = n], !.next = [Set(@, p, n) EXCEPT ![n] = at],
              !.list[l] = [@ EXCEPT !.head = IF p = Nil THEN n ELSE @, !.count = @ + 1]]

doubleListInsertNodeAfterInternal(m, l, at, n) ==
    LET q == m.next[at] IN
    [m EXCEPT !.next = [@ EXCEPT ![n] = q, ![at] = n], !.prev = [Set(@, q, n) EXCEPT ![n] = at],
              !.list[l] = [@ EXCEPT !.tail = IF q = Nil THEN n ELSE @, !.count = @ + 1]]

doubleListRemoveNodeInternal(m, l, n) ==
    LET p == m.prev[n]
        q == m.next[n]
    IN [m EXCEPT !.next = [Set(@, p, q) EXCEPT ![n] = Nil], !.prev = [Set(@, q, p) EXCEPT ![n] = Nil],
                 !.list[l] = [head |-> IF p = Nil THEN q ELSE @.head, tail |-> IF q = Nil THEN p ELSE @.tail,
                              count |-> @.count - 1]]

\* The appended list is freed; a list made later under its name is empty.
doubleListAppendList(m, a, b) ==
    LET s == m.list[a]
        t == m.list[b]
    IN [m EXCEPT !.next = IF s.count # 0 /\ t.count # 0 THEN Set(@, s.tail, t.head) ELSE @,
                 !.prev = IF s.count # 0 /\ t.count # 0 THEN Set(@, t.head, s.tail) ELSE @,
                 !.list[a] = [head |-> IF s.count = 0 THEN t.head ELSE s.head,
                              tail |-> IF s.count = 0 \/ t.count # 0 THEN t.tail ELSE s.tail, count |-> s.count + t.count],
                 !.list[b] = EmptyList]

\* The nodes go back to the free ones; doubleListFree clears, and a list made later under the
\* same name is empty as well.
doubleListClear(m, l) == [m EXCEPT !.list[l] = EmptyList]
doubleListFree(m, l) == doubleListClear(m, l)

doubleListDeleteHead(m, l) == IF m.list[l].head = Nil THEN m ELSE doubleListRemoveNodeInternal(m, l, m.list[l].head)
doubleListDeleteTail(m, l) == IF m.list[l].tail = Nil THEN m ELSE doubleListRemoveNodeInternal(m, l, m.list[l].tail)

\* Index steps from the head; nothing when the list ends before.
doubleListGetNodeAtInternal(m, l, i) ==
    LET c == Chain(m, l) IN IF i < Len(c) THEN c[i + 1] ELSE Nil
doubleListGetHeadNode(l) == double.list[l].head
doubleListGetTailNode(l) == double.list[l].tail
doubleListGetNextNode(n) == double.next[n]
doubleListGetPrevNode(n) == double.prev[n]
doubleListGetNodeData(n) == double.data[n]
doubleListGetNodeCount(l) == double.list[l].count
doubleListGetNodeAt(l, i) == IF i < double.list[l].count THEN doubleListGetNodeAtInternal(double, l, i) ELSE Nil
doubleListGetNodeDataAt(l, i) == LET n == doubleListGetNodeAt(l, i) IN IF n = Nil THEN Nil ELSE doubleListGetNodeData(n)

-----------------------------------------------------------------------------
(* SingleLinkedList.c *)

singleListInsertNodeHeadInternal(m, l, n) ==
    [m EXCEPT !.next[n] = m.list[l].head,
              !.list[l] = [head |-> n, tail |-> IF @.head = Nil THEN n ELSE @.tail, count |-> @.count + 1]]

singleListInsertNodeTailInternal(m, l, n) ==
    LET t == m.list[l].tail IN
    [m EXCEPT !.next = [Set(@, t, n) EXCEPT ![n] = Nil],
              !.list[l] = [head |-> IF t = Nil THEN n ELSE @.head, tail |-> n, count |-> @.count + 1]]

singleListInsertNodeAfterInternal(m, l, at, n) ==
    [m EXCEPT !.next = [@ EXCEPT ![n] = m.next[at], ![at] = n],
              !.list[l] = [@ EXCEPT !.tail = IF m.next[at] = Nil THEN n ELSE @, !.count = @ + 1]]

singleListDeleteHead(m, l) ==
    LET h == m.list[l].head IN
    IF h = Nil THEN m
    ELSE [m EXCEPT !.list[l] = [head |-> m.next[h], tail |-> IF m.next[h] = Nil THEN Nil ELSE @.tail, count |-> @.count - 1]]

singleListDeleteNextNode(m, l, n) ==
    LET q == m.next[n] IN
    IF q = Nil THEN m
    ELSE [m EXCEPT !.next[n] = m.next[q],
                   !.list[l] = [@ EXCEPT !.tail = IF m.next[q] = Nil THEN n ELSE @, !.count = @ - 1]]

\* Mutant: the node behind the given one goes when the given one is not the head.
MutDeleteNode(m, l, n) == IF m.list[l].head = n THEN singleListDeleteHead(m, l) ELSE singleListDeleteNextNode(m, l, n)

\* The predecessor is found walking from the head.
singleListDeleteNode(m, l, n) ==
    LET c == Chain(m, l)
        before == {i \in DOMAIN c : m.next[c[i]] = n}
    IN IF m.list[l].head = n THEN singleListDeleteHead(m, l)
       ELSE IF before = {} THEN m
       ELSE singleListDeleteNextNode(m, l, c[CHOOSE i \in before : TRUE])

singleListAppendList(m, a, b) ==
    LET s == m.list[a]
        t == m.list[b]
    IN [m EXCEPT !.next = IF s.count # 0 /\ t.count # 0 THEN Set(@, s.tail, t.head) ELSE @,
                 !.list[a] = [head |-> IF s.count = 0 THEN t.head ELSE s.head,
                              tail |-> IF s.count = 0 \/ t.count # 0 THEN t.tail ELSE s.tail, count |-> s.count + t.count],
                 !.list[b] = EmptyList]

singleListClear(m, l) == [m EXCEPT !.list[l] = EmptyList]
singleListFree(m, l) == singleListClear(m, l)

singleListGetNodeAtInternal(m, l, i) ==
    LET c == Chain(m, l) IN IF i < Len(c) THEN c[i + 1] ELSE Nil
singleListGetHeadNode(l) == single.list[l].head
singleListGetTailNode(l) == single.list[l].tail
singleListGetNextNode(n) == single.next[n]
singleListGetNodeData(n) == single.data[n]
singleListGetNodeCount(l) == single.list[l].count
\* The node at an index below the count.
singleListGetNodeAt(l, i) == IF i < single.list[l].count THEN {singleListGetNodeAtInternal(single, l, i)} ELSE {}
singleListGetNodeDataAt(l, i) == {singleListGetNodeData(n) : n \in singleListGetNodeAt(l, i)}

-----------------------------------------------------------------------------
(* StackQueue.c *)

stackQueuePeek(l) == IF singleListGetHeadNode(l) = Nil THEN {} ELSE {singleListGetNodeData(singleListGetHeadNode(l))}
stackQueueIsEmpty(l) == singleListGetNodeCount(l) = 0
stackQueueGetAt(l, i) == singleListGetNodeDataAt(l, i)
stackQueueGetIterator(l) == singleListGetHeadNode(l)
stackQueueIteratorNext(n) == singleListGetNextNode(n)
stackQueueIteratorGetItem(n) == singleListGetNodeData(n)
stackQueueGetIndexOf(l, x) ==
    LET c == Chain(single, l)
        at == {i \in DOMAIN c : singleListGetNodeData(c[i]) = x}
    IN IF at = {} THEN {} ELSE {(CHOOSE i \in at : \A j \in at : i <= j) - 1}

-----------------------------------------------------------------------------

ListsInit == double = NewMemory /\ single = NewMemory

\* Every operation names its list, the position of the node it is given and the item.  The item
\* is put into a new node; the node itself may be handed over (doubleListInsertNodeHead and the
\* like, doubleListRemoveNode).
doubleListInsertItemHead(l, x) ==
    \E n \in Free(double) : double' = doubleListInsertNodeHeadInternal(Alloc(double, n, x), l, n) /\ UNCHANGED single
doubleListInsertItemTail(l, x) ==
    \E n \in Free(double) : double' = doubleListInsertNodeTailInternal(Alloc(double, n, x), l, n) /\ UNCHANGED single
doubleListInsertItemBefore(l, i, x) ==
    /\ i \in DOMAIN Chain(double, l)
    /\ \E n \in Free(double) : double' = doubleListInsertNodeBeforeInternal(Alloc(double, n, x), l, Chain(double, l)[i], n)
    /\ UNCHANGED single
doubleListInsertItemAfter(l, i, x) ==
    /\ i \in DOMAIN Chain(double, l)
    /\ \E n \in Free(double) : double' = doubleListInsertNodeAfterInternal(Alloc(double, n, x), l, Chain(double, l)[i], n)
    /\ UNCHANGED single
doubleListDeleteNode(l, i) ==
    /\ i \in DOMAIN Chain(double, l)
    /\ double' = doubleListRemoveNodeInternal(double, l, Chain(double, l)[i])
    /\ UNCHANGED single
DeleteDoubleHead(l) == double' = doubleListDeleteHead(double, l) /\ UNCHANGED single
DeleteDoubleTail(l) == double' = doubleListDeleteTail(double, l) /\ UNCHANGED single
AppendDouble(a, b) == a # b /\ double' = doubleListAppendList(double, a, b) /\ UNCHANGED single
ClearDouble(l) == double' \in {doubleListClear(double, l), doubleListFree(double, l)} /\ UNCHANGED single

stackQueuePush(l, x) ==
    \E n \in Free(single) : single' = singleListInsertNodeHeadInternal(Alloc(single, n, x), l, n) /\ UNCHANGED double
stackQueueEnqueue(l, x) ==
    \E n \in Free(single) : single' = singleListInsertNodeTailInternal(Alloc(single, n, x), l, n) /\ UNCHANGED double
\* The i-th node goes, or the one after it.
DeleteSingleNode(l, i) ==
    /\ i \in DOMAIN Chain(single, l)
    /\ single' = singleListDeleteNode(single, l, Chain(single, l)[i])
    /\ UNCHANGED double
DeleteNextSingle(l, i) ==
    /\ i \in DOMAIN Chain(single, l)
    /\ single' = singleListDeleteNextNode(single, l, Chain(single, l)[i])
    /\ UNCHANGED double
singleListInsertItemAfter(l, at, x) ==
    \E n \in Free(single) : single' = singleListInsertNodeAfterInternal(Alloc(single, n, x), l, at, n) /\ UNCHANGED double
stackQueueEnqueueAfterIndex(l, i, x) == \E at \in singleListGetNodeAt(l, i) : singleListInsertItemAfter(l, at, x)
stackQueuePop(l) == stackQueuePeek(l) # {} /\ single' = singleListDeleteHead(single, l) /\ UNCHANGED double
stackQueueDequeue(l) == singleListGetHeadNode(l) # Nil /\ single' = singleListDeleteHead(single, l) /\ UNCHANGED double
stackQueueRemoveAt(l, i) ==
    \E n \in singleListGetNodeAt(l, i) : single' = singleListDeleteNode(single, l, n) /\ UNCHANGED double
stackQueueRemoveItem(l, x) == \E i \in stackQueueGetIndexOf(l, x) : stackQueueRemoveAt(l, i)
stackQueueSetAt(l, i, x) ==
    \E n \in singleListGetNodeAt(l, i) : single' = [single EXCEPT !.data[n] = x] /\ UNCHANGED double
AppendSingle(a, b) == a # b /\ single' = singleListAppendList(single, a, b) /\ UNCHANGED double
stackQueueClear(l) == single' \in {singleListClear(single, l), singleListFree(single, l)} /\ UNCHANGED double

Places == 0..Cardinality(Nodes)
DoubleNext ==
    \/ \E l \in Lists : DeleteDoubleHead(l) \/ DeleteDoubleTail(l) \/ ClearDouble(l)
    \/ \E l \in Lists, x \in Items : doubleListInsertItemHead(l, x) \/ doubleListInsertItemTail(l, x)
    \/ \E l \in Lists, i \in Places :
          doubleListDeleteNode(l, i) \/ \E x \in Items : doubleListInsertItemBefore(l, i, x) \/ doubleListInsertItemAfter(l, i, x)
    \/ \E a, b \in Lists : AppendDouble(a, b)
SingleNext ==
    \/ \E l \in Lists : stackQueueDequeue(l) \/ stackQueuePop(l) \/ stackQueueClear(l)
    \/ \E l \in Lists, x \in Items : stackQueuePush(l, x) \/ stackQueueEnqueue(l, x) \/ stackQueueRemoveItem(l, x)
    \/ \E l \in Lists, i \in Places :
          \/ DeleteSingleNode(l, i) \/ DeleteNextSingle(l, i) \/ stackQueueRemoveAt(l, i)
          \/ \E x \in Items : stackQueueSetAt(l, i, x) \/ stackQueueEnqueueAfterIndex(l, i, x)
    \/ \E a, b \in Lists : AppendSingle(a, b)

-----------------------------------------------------------------------------
(* The sequence a list stands for, read by its count and its indexes.  A list whose other   *)
(* readers, following the pointers forwards or backwards, tell another story stands for none. *)
Corrupt == <<"corrupt">>

OrCorrupt(found) == IF found = {} THEN Corrupt ELSE CHOOSE items \in found : TRUE

DoubleContents(l) ==
    OrCorrupt({items \in {<< >> \o [i \in 1..doubleListGetNodeCount(l) |-> doubleListGetNodeDataAt(l, i - 1)]} :
        \E forward \in {Follow([n \in Nodes |-> doubleListGetNextNode(n)], doubleListGetHeadNode(l))},
           back \in {Follow([n \in Nodes |-> doubleListGetPrevNode(n)], doubleListGetTailNode(l))} :
           /\ Len(forward) = Len(items) /\ Len(back) = Len(items)
           /\ \A i \in DOMAIN items : items[i] = doubleListGetNodeData(forward[i]) /\ back[Len(items) + 1 - i] = forward[i]})

SingleContents(l) ==
    OrCorrupt({items \in {<< >> \o [i \in 1..singleListGetNodeCount(l) |-> CHOOSE x \in stackQueueGetAt(l, i - 1) : TRUE]} :
        \E path \in {Follow([n \in Nodes |-> stackQueueIteratorNext(n)], stackQueueGetIterator(l))} :
           /\ Len(path) = Len(items)
           /\ \A i \in DOMAIN items : items[i] = stackQueueIteratorGetItem(path[i])
           /\ singleListGetTailNode(l) = IF path = << >> THEN Nil ELSE path[Len(path)]
           /\ stackQueuePeek(l) = {items[i] : i \in DOMAIN items \cap {1}} /\ stackQueueIsEmpty(l) = (items = << >>)
           /\ \A x \in Items : stackQueueGetIndexOf(l, x) = {} <=> \A i \in DOMAIN items : items[i] # x})
=============================================================================
