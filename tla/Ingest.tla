--------------------------------- MODULE Ingest ---------------------------------
(***************************************************************************)
(* How frames and fragment metadata get into the content view              *)
(* (client/src/Stream.c putFrame, its metadata functions and the flush of  *)
(* stopStream; client/src/FrameOrderCoordinator.c): the merge of the       *)
(* tracks, the MKV generator, the metadata queue and the view.             *)
(*                                                                         *)
(* Four threads: a producer (putFrameLock admits one), the timer of an     *)
(* intermittent producer, which ends fragments, a thread that stops the    *)
(* stream, and one that adds metadata.  A put gives its locks up in two    *)
(* places: while it waits for space (OFFLINE: the stream's lock) and while *)
(* it logs metrics at the start of a fragment (the stream's lock and one   *)
(* level of the coordinator's recursive lock).                             *)
(***************************************************************************)
EXTENDS MkvGenerator, FrameOrderCoordinator, SequencesExt

CONSTANTS
    Modes,          \* the configurations, see mode
    MaxQueue,       \* DEFAULT_MAX_FRAME_QUEUE_SIZE_PER_TRACK
    MaxTimecode,    \* MAX_INT16, the largest relative time code of a block
    MaxMetadata,    \* MAX_FRAGMENT_METADATA_COUNT
    MaxPuts,        \* bound: metadata calls of the application
    MaxFails        \* bound: calls of the platform or the application that fail

\* A stream has tracks, and the time stamps of a track do not run backwards.
ASSUME IngestAssumption ==
    /\ MaxQueue \in Nat
    /\ \A m \in Modes : m.types \in Seq({"video", "audio"}) \ {<< >>} /\ m.gap \in Nat

VARIABLES
    mode,   \* configuration: [order, types, gap, keys, offline, metrics, cluster,
            \* meta, timer, resets, trims, and the bound maxTs: the last time code of the
            \* input]
    app,    \* the application: [sent, puts, ids, once, fails], and the bits of
            \* metadataTracker.events
    foc,    \* the coordinator: queues, eofrPut, keyFrameDetected
    gen,    \* the generator
    str,    \* the stream: [stopped, eofr, skip, resetKey]
    meta,   \* the metadata queue: [id, kind, event, bits, persistent, applied]
    view,   \* the head of the view: [any, dts, pts, cluster, open]
    call,   \* [Threads -> [op, pc, f, depth, locked, need, item]]
    hist    \* history: [latest, lost, refused, flushed, broke, placed, dead, written]

vars == <<mode, app, foc, gen, str, meta, view, call, hist>>

Threads == {"producer", "timer", "stopper", "metadata"}
Tracks == DOMAIN mode.types
Ids == 1..(4 * MaxPuts)

Closed == <<"closed">>      \* no cluster open: before the first, and after an EoFR
NoFrame == [track |-> 0, dts |-> 0, pts |-> 0, key |-> FALSE, eofr |-> FALSE]
Eofr == [NoFrame EXCEPT !.eofr = TRUE]
NoItem == [kind |-> "none", cluster |-> Closed, dts |-> 0, pts |-> 0, tags |-> << >>]
Idle == [op |-> "none", pc |-> "none", f |-> NoFrame, depth |-> 0, locked |-> FALSE,
         need |-> 0, item |-> NoItem]

CoordFree(t) == \A u \in Threads \ {t} : call[u].depth = 0
StreamFree == \A u \in Threads : ~call[u].locked
At(t, pc) == call[t].pc = pc
Fresh(item) == item.kind \in {"stream", "cluster"}      \* the item starts a fragment

Init ==
    /\ mode \in Modes
    /\ app = [sent |-> [k \in Tracks |-> 0], puts |-> 0, ids |-> 0, once |-> {}, fails |-> 0,
              events |-> {}]
    /\ foc = createFrameOrderCoordinator(Tracks)
    /\ gen = NewGenerator
    /\ str = [stopped |-> FALSE, eofr |-> FALSE, skip |-> TRUE, resetKey |-> FALSE]
    /\ meta = << >>
    /\ view = [any |-> FALSE, dts |-> 0, pts |-> 0, cluster |-> Closed, open |-> Closed]
    /\ call = [t \in Threads |-> Idle]
    /\ hist = [latest |-> Closed, lost |-> FALSE, refused |-> FALSE, flushed |-> FALSE, broke |-> FALSE,
               placed |-> [i \in Ids |-> 0], dead |-> {}, written |-> << >>]

-----------------------------------------------------------------------------
(* The metadata queue *)

Node(id, kind, event, bits, persistent) ==
    [id |-> id, kind |-> kind, event |-> event, bits |-> bits, persistent |-> persistent, applied |-> FALSE]
EofrNode == Node(0, "tags", "eofr", {}, FALSE)

\* The events a node stands for may be put again once it has left the queue.
Cleared(events, s) == events \ UNION {s[i].bits : i \in {j \in DOMAIN s : ~s[j].persistent}}

\* Mutant: the size leaves out the pairs of the events.
MutSizeOfTags(q, notSentOnly) == Len(SelectSeq(q, LAMBDA n : ~(n.applied /\ notSentOnly) /\ n.kind = "tags"))

\* packageStreamMetadata without a buffer.  Every node counts one: a node takes all
\* of what it was counted with, so the queue as it was measured always fits, and what
\* has been queued since then never does.
SizeOfMetadata(q, notSentOnly) == Len(SelectSeq(q, LAMBDA n : ~(n.applied /\ notSentOnly)))

\* Mutant: a node stays in the queue whether or not it is persistent.
MutKeepAll(q, notSentOnly, room) ==
    LET todo == SelectSeq(q, LAMBDA n : ~(n.applied /\ notSentOnly)) IN
    [ok |-> TRUE, written |-> todo, done |-> q, gone |-> {}, q |-> [i \in DOMAIN q |-> [q[i] EXCEPT !.applied = TRUE]]]

\* packageStreamMetadata into a buffer: every node is dequeued and, unless it is to be
\* left out, written; a persistent one goes back.  When one does not fit it is freed,
\* its event still marked as put, and the nodes behind it stay where they are.
packageStreamMetadata(q, notSentOnly, room) ==
    LET writes(i) == ~(q[i].applied /\ notSentOnly)
        before(i) == Cardinality({j \in 1..(i - 1) : writes(j)})
        bad == {i \in DOMAIN q : writes(i) /\ before(i) >= room}
        stop == IF bad = {} THEN Len(q) + 1 ELSE CHOOSE i \in bad : \A j \in bad : i <= j
        done == SubSeq(q, 1, stop - 1)
        back == SelectSeq(done, LAMBDA n : n.persistent)
    IN [ok      |-> bad = {},
        written |-> SelectSeq(done, LAMBDA n : ~(n.applied /\ notSentOnly)),
        done    |-> done,
        gone    |-> IF bad = {} THEN {} ELSE {q[stop].id},
        q       |-> SubSeq(q, stop + 1, Len(q)) \o [i \in DOMAIN back |-> [back[i] EXCEPT !.applied = TRUE]]]

\* packageNotSentMetadata: the queue is emptied, persistent nodes too.
NotSent(q) == SelectSeq(q, LAMBDA n : ~n.applied)

OneShot(s) == {s[i].id : i \in {j \in DOMAIN s : ~s[j].persistent}} \ {0}
Place(h, s) == [h EXCEPT !.placed = [i \in Ids |-> @[i] + (IF i \in OneShot(s) THEN 1 ELSE 0)]]

-----------------------------------------------------------------------------
(* The calls of the application and of the timer *)

Start(t, op, pc, f, depth) ==
    call' = [call EXCEPT ![t] = [Idle EXCEPT !.op = op, !.pc = pc, !.f = f, !.depth = depth]]

\* frameOrderCoordinatorPutFrame.  The frames of a track come gap or gap + 1 time codes
\* apart; key frames are in the tracks the mode names.
PutFrame(k, ts, key) ==
    /\ call["producer"] = Idle /\ call["timer"] = Idle
    /\ ts \in {app.sent[k] + mode.gap, app.sent[k] + mode.gap + 1} /\ (key => k \in mode.keys)
    /\ LET f == [track |-> k, dts |-> ts, pts |-> ts, key |-> key, eofr |-> FALSE] IN
       /\ app' = [app EXCEPT !.sent[k] = ts]
       /\ \/ /\ mode.order = "pass"
             /\ Start("producer", "direct", "check", f, 0)
             /\ UNCHANGED <<foc, hist>>
          \/ /\ mode.order # "pass" /\ CoordFree("producer")
             /\ Len(foc.q[k]) <= MaxQueue
             /\ foc' = [foc EXCEPT !.q[k] = Append(@, f), !.keyFrameDetected = @ \/ key]
             /\ Start("producer", "put", "next", NoFrame, 1)
             /\ UNCHANGED hist
          \/ /\ mode.order # "pass" /\ CoordFree("producer")
             /\ Len(foc.q[k]) > MaxQueue
             /\ UNCHANGED <<foc, call, hist>>
    /\ UNCHANGED <<mode, gen, str, meta, view>>

\* An EoFR first flushes the queues.  In the modes without EoFR it is refused once a
\* key frame has been seen.
PutEofr ==
    /\ call["producer"] = Idle /\ call["timer"] = Idle
    /\ \/ mode.order = "pass" /\ Start("producer", "direct", "check", Eofr, 0) /\ UNCHANGED hist
       \/ /\ mode.order # "pass" /\ CoordFree("producer")
          /\ mode.order \in {"dts", "pts"} => ~foc.keyFrameDetected
          /\ Start("producer", "eofr", "next", NoFrame, 2)
          /\ hist' = [hist EXCEPT !.flushed = TRUE]
    /\ UNCHANGED <<mode, app, foc, gen, str, meta, view>>

\* checkIntermittentProducerCallback ends a fragment that has had no frame for a
\* while, past the coordinator's queues but with its lock.
TimerEofr ==
    /\ call["producer"] = Idle /\ call["timer"] = Idle
    /\ mode.timer /\ ~str.eofr /\ view.any
    /\ mode.order # "pass" => CoordFree("timer")
    /\ Start("timer", "direct", "check", Eofr, IF mode.order = "pass" THEN 0 ELSE 1)
    /\ hist' = [hist EXCEPT !.flushed = TRUE]
    /\ UNCHANGED <<mode, app, foc, gen, str, meta, view>>

\* stopStream: the flush of the coordinator comes first, with neither putFrameLock
\* nor the stream's lock.
BeginStop ==
    /\ call["stopper"] = Idle /\ ~str.stopped
    /\ \/ mode.order = "pass" /\ Start("stopper", "stop", "stop", NoFrame, 0)
       \/ mode.order # "pass" /\ CoordFree("stopper") /\ Start("stopper", "stop", "next", NoFrame, 1)
    /\ hist' = [hist EXCEPT !.flushed = TRUE]
    /\ UNCHANGED <<mode, app, foc, gen, str, meta, view>>

\* The rest of stopStream, under the stream's lock: metadata that no fragment has
\* carried is packaged behind the last frame, unless that is an EoFR.
Stop ==
    /\ At("stopper", "stop") /\ StreamFree
    /\ str' = [str EXCEPT !.stopped = TRUE]
    /\ IF ~str.eofr /\ NotSent(meta) # << >>
       THEN /\ meta' = << >>
            /\ hist' = [Place(hist, NotSent(meta)) EXCEPT !.written = NotSent(meta)]
            /\ app' = [app EXCEPT !.events = Cleared(@, meta)]
       ELSE UNCHANGED <<meta, hist, app>>
    /\ call' = [call EXCEPT !["stopper"] = Idle]
    /\ UNCHANGED <<mode, foc, gen, view>>

\* The bits of an event: a notification alone, or with an image request.
Bits(what) == CASE what = "note" -> {"note"} [] what = "both" -> {"note", "image"} [] OTHER -> {}

\* putFragmentMetadata and putEventMetadata look at streamStopped before they take
\* the lock, and so does an event at the events that are queued.
BeginMetadata(what) ==
    /\ call["metadata"] = Idle /\ ~str.stopped /\ app.puts < MaxPuts /\ what \in mode.meta
    /\ Bits(what) \cap app.events = {}
    /\ app' = [app EXCEPT !.puts = @ + 1]
    /\ Start("metadata", what, "append", NoFrame, 0)
    /\ UNCHANGED <<mode, foc, gen, str, meta, view, hist>>

Accept(nodes, q) ==
    /\ meta' = q \o nodes
    /\ app' = [app EXCEPT !.ids = @ + Len(nodes), !.once = @ \cup OneShot(nodes),
                          !.events = @ \cup UNION {nodes[i].bits : i \in DOMAIN nodes}]

Without(q) == SelectSeq(q, LAMBDA n : ~n.persistent)

\* A persistent value replaces the one of the same name, an empty one removes it.
putFragmentMetadata(persistent, empty) ==
    LET q == IF persistent THEN Without(meta) ELSE meta IN
    IF persistent /\ empty /\ q # meta
    THEN meta' = q /\ UNCHANGED app
    ELSE IF Len(q) < MaxMetadata
    THEN Accept(<<Node(app.ids + 1, "tags", app.ids + 1, {}, persistent)>>, q)
    ELSE meta' = q /\ UNCHANGED app

\* The tags of an event: a notification, and behind it an image request if that is
\* asked for too, each with the pair of the caller behind it.  The tag of the
\* notification stands for the whole event.  The room is asked for as if the pair came
\* once.
EventNodes(types) ==
    LET n == app.ids
        tag(i, bits, bit) == <<Node(i + 1, "tags", i + 1, bits, FALSE), Node(i + 2, "simple", i + 1, {bit}, FALSE)>>
    IN tag(n, Bits(types), "note") \o (IF types = "both" THEN tag(n + 2, {"image"}, "image") ELSE << >>)
NeededNodes(types) == IF types = "both" THEN 3 ELSE 2

\* An event also needs a stream that has started.
putEventMetadata(types) ==
    IF mkvgenHasStreamStarted(gen) /\ Len(meta) + NeededNodes(types) <= MaxMetadata
    THEN Accept(EventNodes(types), meta)
    ELSE UNCHANGED <<meta, app>>

AppendMetadata ==
    /\ At("metadata", "append") /\ StreamFree
    /\ \/ call["metadata"].op = "oneShot" /\ putFragmentMetadata(FALSE, FALSE)
       \/ call["metadata"].op = "persistent" /\ \E empty \in BOOLEAN : putFragmentMetadata(TRUE, empty)
       \/ call["metadata"].op \in {"note", "both"} /\ putEventMetadata(call["metadata"].op)
    /\ call' = [call EXCEPT !["metadata"] = Idle]
    /\ UNCHANGED <<mode, foc, gen, str, view, hist>>

\* A token rotation or a fatal error ACK asks for a new header on the next key frame.
AskForReset(skip) ==
    /\ StreamFree /\ ~str.resetKey /\ mode.resets
    /\ str' = [str EXCEPT !.resetKey = TRUE, !.skip = @ \/ skip]
    /\ UNCHANGED <<mode, app, foc, gen, meta, view, call, hist>>

\* The last item leaves the view: a persisted ACK trims it, or handleAvailability drops
\* it for the sake of the frame that is to come.
EmptyView ==
    /\ view.any /\ mode.trims
    /\ StreamFree \/ \E t \in Threads : At(t, "space")
    /\ view' = [view EXCEPT !.any = FALSE]
    /\ UNCHANGED <<mode, app, foc, gen, str, meta, call, hist>>

-----------------------------------------------------------------------------
(* The loops of the coordinator *)

\* Mutant: at most one frame leaves the queues per put.
MutIf(t) == call[t].op # "put" /\ WithFrame(foc) # {}

\* A put goes on while every track has a frame, a flush while any has.
LoopGoesOn(t) == IF call[t].op = "put" THEN AllWithFrame(foc) ELSE WithFrame(foc) # {}

PutEarliestFrame(t) ==
    /\ At(t, "next") /\ LoopGoesOn(t)
    /\ LET d == dequeueEarliest(foc, mode.types, mode.order) IN
       /\ foc' = d.c
       /\ call' = [call EXCEPT ![t].f = d.frame, ![t].pc = "check"]
    /\ UNCHANGED <<mode, app, gen, str, meta, view, hist>>

LoopEnds(t) ==
    /\ At(t, "next") /\ ~LoopGoesOn(t)
    /\ call' = CASE call[t].op = "put" -> [call EXCEPT ![t] = Idle]
                 [] call[t].op = "eofr" -> [call EXCEPT ![t].op = "direct", ![t].pc = "check", ![t].f = Eofr, ![t].depth = 1]
                 [] call[t].op = "stop" -> [call EXCEPT ![t].pc = "stop", ![t].depth = 0]
    /\ hist' = [hist EXCEPT !.broke = @ /\ call[t].op # "put" /\ AllWithFrame(foc)]
    /\ UNCHANGED <<mode, app, foc, gen, str, meta, view>>

\* The call of putFrame returned: the loop goes on, or the call is over.  After an
\* EoFR the first frame has to be a key frame, in two of the modes.
Succeed(t) ==
    IF call[t].op = "direct"
    THEN /\ call' = [call EXCEPT ![t] = Idle]
         /\ foc' = [foc EXCEPT !.eofrPut = @ \/ (t = "producer" /\ call[t].f.eofr /\ ComparesDts(mode.order))]
    ELSE /\ call' = [call EXCEPT ![t] = [Idle EXCEPT !.op = call[t].op, !.pc = "next", !.depth = call[t].depth]]
         /\ UNCHANGED foc

\* It failed: the frame is lost and so is the rest of the loop; stopStream goes on.
Failed(t) ==
    /\ call' = [call EXCEPT ![t] = IF call[t].op = "stop" THEN [Idle EXCEPT !.op = "stop", !.pc = "stop"] ELSE Idle]
    /\ UNCHANGED foc

\* The history of a failed put with the item it had packaged, if any.
AfterFailure(t, item, refused) ==
    [hist EXCEPT !.broke = @ \/ call[t].op = "put",
                 !.lost = @ \/ Fresh(item),
                 !.refused = @ \/ refused,
                 !.dead = @ \cup OneShot(item.tags)]

\* Something that may fail of its own accord: storage, a callback of the application.
MayFail == app.fails < MaxFails /\ app' = [app EXCEPT !.fails = @ + 1]

-----------------------------------------------------------------------------
(* putFrame *)

\* The look at streamStopped, before any lock.
CheckStopped(t) ==
    /\ At(t, "check")
    /\ \/ /\ str.stopped /\ Failed(t) /\ hist' = AfterFailure(t, NoItem, FALSE)
       \/ /\ ~str.stopped /\ call' = [call EXCEPT ![t].pc = "enter"]
          /\ UNCHANGED <<foc, hist>>
    /\ UNCHANGED <<mode, app, gen, str, meta, view>>

\* Under the stream's lock: the flags, the check of the token and the step of the state
\* machine (either may fail, or the memory for the EoFR's tag run out), the reset of the
\* generator, and the size, which a frame that cannot be adapted does not have.
Enter(t) ==
    /\ At(t, "enter") /\ StreamFree
    /\ LET f == call[t].f
           skip == str.skip \/ str.eofr
           g == IF str.resetKey /\ f.key THEN mkvgenResetGenerator(gen) ELSE gen
           flags == [str EXCEPT !.resetKey = @ /\ ~f.key, !.skip = skip /\ ~f.key]
           kind == mkvgenGetStreamState(g, f, mode.cluster)
           go(size) == call' = [call EXCEPT ![t].pc = "space", ![t].locked = TRUE, ![t].need = size]
       IN \/ /\ \/ f.eofr /\ (str.eofr \/ mode.cluster # 0) /\ UNCHANGED app
                \/ ~(f.eofr /\ (str.eofr \/ mode.cluster # 0)) /\ MayFail
             /\ str' = [str EXCEPT !.skip = skip]
             /\ Failed(t) /\ hist' = AfterFailure(t, NoItem, FALSE)
             /\ UNCHANGED <<gen, meta>>
          \/ /\ ~f.eofr /\ skip /\ ~f.key
             /\ str' = [str EXCEPT !.skip = TRUE]
             /\ Succeed(t)
             /\ UNCHANGED <<app, gen, meta, hist>>
          \/ /\ f.eofr /\ ~str.eofr /\ mode.cluster = 0
             /\ meta' = Append(meta, EofrNode)
             /\ go(SizeOfMetadata(meta', TRUE))
             /\ UNCHANGED <<app, gen, str, foc, hist>>
          \/ /\ ~f.eofr /\ (skip => f.key)
             /\ gen' = g /\ str' = flags
             /\ \/ /\ mkvgenValidateFrame(g, f)
                   /\ go(IF kind = "block" THEN 0 ELSE SizeOfMetadata(meta, FALSE))
                   /\ UNCHANGED <<app, foc, hist>>
                \/ /\ \/ ~mkvgenValidateFrame(g, f) /\ hist' = AfterFailure(t, NoItem, TRUE) /\ UNCHANGED app
                      \/ mkvgenValidateFrame(g, f) /\ MayFail /\ hist' = AfterFailure(t, NoItem, FALSE)
                   /\ Failed(t)
             /\ UNCHANGED meta
    /\ UNCHANGED <<mode, view>>

\* handleAvailability: space at once (the package actions), a failure, or in OFFLINE
\* mode a wait, in which the stream's lock is free.
NoSpace(t) ==
    /\ At(t, "space")
    /\ \/ /\ MayFail /\ Failed(t) /\ hist' = AfterFailure(t, NoItem, FALSE)
       \/ /\ mode.offline
          /\ call' = [call EXCEPT ![t].pc = "wait", ![t].locked = FALSE]
          /\ UNCHANGED <<app, foc, hist>>
    /\ UNCHANGED <<mode, gen, str, meta, view>>

WakeUp(t) ==
    /\ At(t, "wait") /\ StreamFree
    /\ \/ /\ str.stopped /\ Failed(t) /\ hist' = AfterFailure(t, NoItem, FALSE)
       \/ /\ ~str.stopped /\ call' = [call EXCEPT ![t].pc = "space", ![t].locked = TRUE]
          /\ UNCHANGED <<foc, hist>>
    /\ UNCHANGED <<mode, app, gen, str, meta, view>>

\* An EoFR is an item of its own: the metadata that no fragment has carried, at the
\* end of the last item of the view, which there need not be.
PackageEofr(t) ==
    /\ At(t, "space") /\ call[t].f.eofr
    /\ LET p == packageStreamMetadata(meta, TRUE, call[t].need)
           item == [kind |-> "end", cluster |-> Closed, dts |-> view.dts + 1, pts |-> view.pts + 1, tags |-> p.written]
       IN /\ meta' = p.q
          /\ app' = [app EXCEPT !.events = Cleared(@, p.done)]
          /\ \/ /\ p.ok /\ view.any
                /\ str' = [str EXCEPT !.eofr = TRUE]
                /\ call' = [call EXCEPT ![t].pc = "add", ![t].item = item]
                /\ hist' = [hist EXCEPT !.written = p.written]
                /\ UNCHANGED foc
             \/ /\ ~(p.ok /\ view.any)
                /\ Failed(t)
                /\ hist' = [AfterFailure(t, item, FALSE) EXCEPT !.written = p.written, !.dead = @ \cup p.gone]
                /\ UNCHANGED str
    /\ UNCHANGED <<mode, gen, view>>

\* Mutant: the generator forgets the cluster it has started.
MutPackageBlind(g, f) == [mkvgenPackageFrame(g, f, mode.cluster, MaxTimecode) EXCEPT
                             !.gen = IF g.state = "start" THEN @ ELSE g]
Packaged(g, f) == mkvgenPackageFrame(g, f, mode.cluster, MaxTimecode)

\* A frame, with the metadata in front of the cluster it starts.  This is the second
\* pass over the frame: it has the generator of the first, which no other thread moves
\* while a put is under way, and refuses only what the first does not look at, a block
\* too far from its cluster, with the generator not moved yet.  The EoFR flag is cleared
\* before the item is in the view.  Logging metrics opens the locks.
PackageFrame(t) ==
    /\ At(t, "space") /\ ~call[t].f.eofr
    /\ LET r == Packaged(gen, call[t].f)
           room == call[t].need
           p == IF room # 0 /\ Fresh(r.info) THEN packageStreamMetadata(meta, FALSE, room)
                ELSE [ok |-> TRUE, written |-> << >>, done |-> << >>, gone |-> {}, q |-> meta]
           events == Cleared(app.events, p.done)
           item == [kind |-> r.info.kind, cluster |-> r.info.cluster, dts |-> r.info.dts, pts |-> r.info.pts, tags |-> p.written]
           wrote(h) == [h EXCEPT !.written = IF p.written = << >> THEN @ ELSE p.written,
                                 !.latest = IF Fresh(item) THEN item.cluster ELSE @]
       IN \/ /\ ~r.ok
             /\ Failed(t) /\ hist' = AfterFailure(t, NoItem, FALSE)
             /\ UNCHANGED <<app, gen, str, meta>>
          \/ /\ r.ok
             /\ gen' = r.gen /\ meta' = p.q
             /\ \/ /\ ~p.ok
                   /\ Failed(t)
                   /\ hist' = wrote([AfterFailure(t, item, FALSE) EXCEPT !.dead = @ \cup p.gone])
                   /\ app' = [app EXCEPT !.events = events]
                   /\ UNCHANGED str
                \/ /\ p.ok /\ app.fails < MaxFails           \* a pressure callback
                   /\ app' = [app EXCEPT !.fails = @ + 1, !.events = events]
                   /\ Failed(t) /\ hist' = wrote(AfterFailure(t, item, FALSE))
                   /\ UNCHANGED str
                \/ /\ p.ok
                   /\ str' = [str EXCEPT !.eofr = @ /\ ~Fresh(item)]
                   /\ \/ call' = [call EXCEPT ![t].pc = "add", ![t].item = item]
                      \/ /\ mode.metrics /\ Fresh(item)
                         /\ call' = [call EXCEPT ![t].pc = "logged", ![t].item = item, ![t].locked = FALSE,
                                                 ![t].depth = IF @ = 0 THEN 0 ELSE @ - 1]
                   /\ hist' = wrote(hist)
                   /\ app' = [app EXCEPT !.events = events]
                   /\ UNCHANGED foc
    /\ UNCHANGED <<mode, view>>

\* The metrics are logged: the coordinator's lock, then the stream's.
LockAgain(t) ==
    /\ At(t, "logged") /\ StreamFree
    /\ mode.order # "pass" => CoordFree(t)
    /\ call' = [call EXCEPT ![t].pc = "add", ![t].locked = TRUE,
                            ![t].depth = IF mode.order = "pass" THEN 0 ELSE @ + 1]
    /\ UNCHANGED <<mode, app, foc, gen, str, meta, view, hist>>

\* contentViewAddItem, and the callbacks behind it.
AddItem(t) ==
    /\ At(t, "add")
    /\ LET i == call[t].item
           overtaken == \E u \in Threads \ {t} : At(u, "logged")
           lost == IF Fresh(i) THEN i.cluster # hist.latest ELSE hist.lost \/ overtaken
       IN \/ /\ view.any /\ i.dts < view.dts
             /\ Failed(t) /\ hist' = AfterFailure(t, i, TRUE)
             /\ UNCHANGED <<app, view>>
          \/ /\ view.any => i.dts >= view.dts
             /\ view' = [any |-> TRUE, dts |-> i.dts, pts |-> i.pts, cluster |-> i.cluster,
                         open |-> CASE Fresh(i) -> i.cluster [] i.kind = "end" -> Closed [] OTHER -> view.open]
             /\ LET h == [Place(hist, i.tags) EXCEPT !.lost = lost, !.written = << >>] IN
                \/ Succeed(t) /\ hist' = h /\ UNCHANGED app
                \/ MayFail /\ Failed(t) /\ hist' = [h EXCEPT !.broke = @ \/ call[t].op = "put"]
    /\ UNCHANGED <<mode, gen, str, meta>>

Next ==
    \/ \E k \in Tracks, ts \in 1..mode.maxTs, key \in BOOLEAN : PutFrame(k, ts, key)
    \/ PutEofr \/ TimerEofr \/ BeginStop \/ Stop
    \/ \E what \in {"oneShot", "persistent", "note", "both"} : BeginMetadata(what)
    \/ AppendMetadata \/ EmptyView
    \/ \E skip \in BOOLEAN : AskForReset(skip)
    \/ \E t \in Threads :
        \/ PutEarliestFrame(t) \/ LoopEnds(t) \/ CheckStopped(t) \/ Enter(t) \/ NoSpace(t)
        \/ WakeUp(t) \/ PackageEofr(t) \/ PackageFrame(t) \/ LockAgain(t) \/ AddItem(t)

Spec == Init /\ [][Next]_vars

-----------------------------------------------------------------------------
(* Properties *)

\* A block is read relative to the last cluster in front of it (mkvgenPackageFrame,
\* contentViewAddItem): what the generator took for the current cluster is the one
\* that the view holds, and nothing but a fragment start follows an EoFR.  The one way
\* out is a fragment start that was packaged and did not get into the view, or was
\* overtaken while its thread logged metrics.
BlockHasItsCluster == ~hist.lost => view.cluster = view.open

\* The merge hands the generator and the view nothing they refuse (getEarliestTrack,
\* audioVideoFrameTimestampComparator): with one or two tracks, the key frames in the
\* first of the list, frames two time codes apart and no flush before its time, no
\* frame is turned down for its time stamp.  With three tracks the compensation can
\* move a frame behind another that has come later; FRAME_ORDERING_MODE_MULTI_TRACK_AV
\* does not merge: it puts the frames of the last track and keeps the others until a flush.
MergedInOrder ==
    hist.refused => \/ mode.order \in {"pass", "av"} \/ hist.flushed \/ \E k \in mode.keys : k # 1
                    \/ Len(mode.types) > 2 \/ mode.gap < 2

\* The coordinator keeps no frame it could release (frameOrderCoordinatorPutFrame): with
\* no call under way some track is empty, unless the last put broke off, and a queue
\* holds one frame more than the limit at most.
CoordinatorReleases ==
    /\ mode.order # "pass" /\ call["producer"] = Idle /\ call["timer"] = Idle /\ ~hist.broke
        => ~AllWithFrame(foc)
    /\ \A k \in Tracks : Len(foc.q[k]) <= MaxQueue + 1

\* Metadata that is not persistent is delivered once (packageStreamMetadata,
\* packageNotSentMetadata): it is queued, or on its way with a frame, or in one item of
\* the view or behind the last, or it has gone down with a put that failed; and it is
\* in one of these places only.  And the pairs of an event directly follow the tag of
\* the event they belong to; in OFFLINE mode an event that is queued while a put waits
\* for space can be torn.
MetadataDeliveredOnce ==
    /\ \A i \in app.once :
        LET places == <<\E j \in DOMAIN meta : meta[j].id = i,
                        \E t \in Threads : i \in OneShot(call[t].item.tags),
                        hist.placed[i] = 1,
                        i \in hist.dead>>
        IN Cardinality({p \in DOMAIN places : places[p]}) = 1 /\ hist.placed[i] <= 1
    /\ \/ mode.offline
       \/ \A i \in DOMAIN hist.written :
             hist.written[i].kind = "simple" =>
                 i > 1 /\ hist.written[i - 1].event = hist.written[i].event

=============================================================================
