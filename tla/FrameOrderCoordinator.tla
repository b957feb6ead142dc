------------------------- MODULE FrameOrderCoordinator -------------------------
(***************************************************************************)
(* The merge of the frames of several tracks                               *)
(* (client/src/FrameOrderCoordinator.c): one queue per track, and the      *)
(* comparator that picks the track whose first frame is put next.          *)
(***************************************************************************)
EXTENDS Integers, Sequences, FiniteSets

\* frameOrderingMode is one of "pass", "dts", "pts", "dtsEofr", "ptsEofr" and "av",
\* FRAME_ORDERING_MODE_MULTI_TRACK_AV.
ComparesDts(order) == order \in {"dts", "dtsEofr"}

createFrameOrderCoordinator(tracks) ==
    [q |-> [k \in tracks |-> << >>], eofrPut |-> FALSE, keyFrameDetected |-> FALSE]

WithFrame(c) == {k \in DOMAIN c.q : c.q[k] # << >>}       \* trackWithFrame counts them
AllWithFrame(c) == WithFrame(c) = DOMAIN c.q

MkvTimestamp(order, f) == IF ComparesDts(order) THEN f.dts ELSE f.pts

\* Mutant: on a tie the frame that goes first is moved.
MutMovesFirst(q, types, order, i, j) ==
    LET a == Head(q[i])
        b == Head(q[j])
        first == MkvTimestamp(order, a) <= MkvTimestamp(order, b)
    IN [first |-> first,
        q     |-> IF MkvTimestamp(order, a) = MkvTimestamp(order, b) THEN [q EXCEPT ![i][1].pts = @ + 1] ELSE q]

\* The first frames of tracks i and j: does i's go first, and the queues after the
\* compensation.  On a tie between tracks of different types one of the two frames is
\* moved by one time code: the one that is not a key frame if only j's is, else j's.
\* The answer is that of the comparison before the move.  The mode "av" has this
\* comparator too, which then compares nothing and answers no.
audioVideoFrameTimestampComparator(q, types, order, i, j) ==
    LET a == Head(q[i])
        b == Head(q[j])
        tie == order # "av" /\ MkvTimestamp(order, a) = MkvTimestamp(order, b) /\ types[i] # types[j]
        moved == IF ~a.key /\ b.key THEN i ELSE j
    IN [first |-> order # "av" /\ MkvTimestamp(order, a) <= MkvTimestamp(order, b),
        q     |-> IF tie THEN [q EXCEPT ![moved][1].pts = @ + 1] ELSE q]

\* The tracks with a frame are compared in the order of the list, each with the
\* earliest so far; the comparator is never asked about an empty queue.
getEarliestTrack(c, types, order) ==
    LET tracks == WithFrame(c)
        start == CHOOSE k \in tracks : \A l \in tracks : k <= l
        scan[k \in 0..Len(types)] ==
            IF k <= start THEN [min |-> start, q |-> c.q]
            ELSE IF k \notin tracks THEN scan[k - 1]
            ELSE LET r == audioVideoFrameTimestampComparator(scan[k - 1].q, types, order, scan[k - 1].min, k)
                 IN [min |-> IF r.first THEN scan[k - 1].min ELSE k, q |-> r.q]
    IN scan[Len(types)]

\* putEarliestFrame up to its call of putFrame: the frame that leaves its queue.
\* The first frame after an EoFR is made a key frame.
dequeueEarliest(c, types, order) ==
    LET e == getEarliestTrack(c, types, order)
        f == Head(e.q[e.min])
    IN [frame |-> [f EXCEPT !.key = @ \/ c.eofrPut],
        c     |-> [c EXCEPT !.q = [e.q EXCEPT ![e.min] = Tail(@)], !.eofrPut = FALSE]]
=============================================================================
