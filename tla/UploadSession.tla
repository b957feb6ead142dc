--------------------------- MODULE UploadSession ---------------------------
(***************************************************************************)
(* The upload side of one real-time stream: src/client/src/Stream.c        *)
(* (putFrame, getStreamData, stopStream and their helpers) and the stream  *)
(* events of src/client/src/StreamEvent.c.                                 *)
(*                                                                         *)
(* The producer appends frames to the content view; each PutMedia session  *)
(* (upload handle) pulls bytes from the one send pointer of the stream.    *)
(* A session starts with an MKV header, ends with an EOS and then waits    *)
(* for the persisted ACK of its last fragment.  Connections drop, ACKs     *)
(* come late, a token rotation opens a second session beside the first.    *)
(*                                                                         *)
(* Abstractions.  The view never evicts (module ContentView covers that):  *)
(* an item is its index, which also stands for its timestamp.  An item is  *)
(* sent in one or two parts; a buffer may end after any part.  The loop of *)
(* getStreamData is one action per branch, between an entry and a clean-up *)
(* action, with the stream lock held: `call' is the call in progress.  The *)
(* state machine is reduced to where it is on the way to the next session. *)
(***************************************************************************)
EXTENDS Integers, FiniteSets

CONSTANTS
    MaxItems,       \* bound: frames the producer puts
    MaxHandles,     \* bound: upload sessions that are opened
    MaxDrops,       \* bound: connections lost, reset or ended by an error ACK
    MaxRotations,   \* bound: token rotations
    FrameKinds,     \* the kinds of frames the producer puts
    MetadataLeft,   \* whether metadata may be left at the stop: {FALSE} or BOOLEAN
    Results,        \* the service call results a connection may end with
    WaitForPersistedAck,    \* WAIT_FOR_PERSISTED_ACK
    AbsoluteFragmentTimes,  \* streamCaps.absoluteFragmentTimes
    ReplayDuration,         \* streamCaps.replayDuration
    Faults          \* what may go wrong: a connection is "lost"; its end is
                    \* reported "late", after the library has terminated the
                    \* handle, or when it is already deleted, with no
                    \* session under way ("unknown") or beside one
                    \* ("unknown_busy"); a deleted handle asks for data
                    \* ("late_call", which its caller must not do); the
                    \* application asks for a "reset"; an error ACK comes on a
                    \* running ("error") or a stopped stream
                    \* ("error_stopped"); a "late_put" passes the check of
                    \* streamStopped before the stop and locks after it

ASSUME BoundsAssumption ==
    /\ MaxItems \in Nat /\ MaxHandles \in Nat /\ MaxDrops \in Nat
    /\ MaxRotations \in Nat /\ ReplayDuration \in Nat
ASSUME KindsAssumption ==
    /\ FrameKinds \subseteq {"key", "delta", "eofr"} /\ MetadataLeft \subseteq BOOLEAN
    /\ Results \subseteq {"ok", "error", "timeout"}
ASSUME ModesAssumption ==
    /\ WaitForPersistedAck \in BOOLEAN /\ AbsoluteFragmentTimes \in BOOLEAN
    /\ Faults \subseteq {"lost", "late", "unknown", "unknown_busy", "late_call", "late_put", "reset", "error", "error_stopped"}

VARIABLES
    head, tail, current,  \* the view's window and send pointer
    items,                \* the view items by index
    cur,                  \* curViewItem: [index, offset]
    eos, metadata,        \* eosTracker and metadataTracker: [send, done]
    inUse,                \* connectionState is UPLOAD_CONNECTION_STATE_IN_USE
    hostAlive,            \* CONNECTION_DROPPED_HOST_ALIVE(connectionDroppedResult)
    newSession,           \* newSessionTimestamp is valid
    producer,             \* what putFrame keeps from one frame to the next
    stopped, closed,      \* streamStopped, streamClosed (the closed callback was called)
    latePut,              \* a putFrame has seen streamStopped unset and waits for the lock
    machine,              \* where the state machine is
    up,                   \* the upload handles, in the order of the queue
    poked,                \* handles whose session will call getStreamData
    call,                 \* the getStreamData call in progress
    drops, rotations      \* counted against their bounds

viewVars == <<head, tail, current, items>>
trackerVars == <<cur, eos, metadata, newSession>>
connVars == <<inUse, hostAlive, machine>>
boundVars == <<drops, rotations>>
vars == <<viewVars, trackerVars, connVars, producer, stopped, closed, latePut, up, poked, call, boundVars>>

None == -1
Indexes == 0 .. (MaxItems - 1)
Handles == 1 .. MaxHandles

MinOf(S) == CHOOSE x \in S : \A y \in S : x <= y
MaxOf(S) == CHOOSE x \in S : \A y \in S : x >= y

NoItem == [key |-> FALSE, eofr |-> FALSE, start |-> FALSE, base |-> FALSE,
           received |-> FALSE, persisted |-> FALSE, skip |-> FALSE]
NoCur == [index |-> None, offset |-> "end"]
Idle == [send |-> FALSE, done |-> FALSE]
NoCall == [handle |-> 0, status |-> "none"]

\* putStreamResult: a new upload handle.  sent, ended, received and persisted
\* say what went over its connection and came back
NewHandle == [state |-> "READY", lastFragment |-> None, lastPersistedAck |-> None,
              sent |-> {}, ended |-> FALSE,
              received |-> None, persisted |-> None]
NotOpened == [NewHandle EXCEPT !.state = "NONE"]

\* UPLOAD_HANDLE_STATE_*
NotStreamed == {"READY"}
SendEos == {"TERMINATING", "TERMINATED"}
ReadyToTrim == {"ACK_RECEIVED", "TERMINATED"}
Active == {"READY", "STREAMING", "TERMINATING", "AWAITING_ACK", "ACK_RECEIVED"}
Ongoing == {"STREAMING", "AWAITING_ACK", "TERMINATING", "ACK_RECEIVED"}
Current == {"READY", "STREAMING", "TERMINATING", "AWAITING_ACK"}

Queue(u) == {h \in Handles : u[h].state \notin {"NONE", "GONE"}}
InState(u, S) == {h \in Queue(u) : u[h].state \in S}

\* getStreamUploadInfoWithState, as a set of at most one handle
FirstInState(u, S) == {h \in InState(u, S) : \A g \in InState(u, S) : h <= g}

Unlocked == call = NoCall

-----------------------------------------------------------------------------
(* Helpers of getStreamData.                                               *)

\* getAvailableViewSize is not zero
BytesLeft(curr, c, e, m) ==
    curr # head \/ c.offset # "end" \/ e.send \/ m.send

Boundary(it) == it.key \/ it.eofr

\* getNextViewItem and getNextBoundaryViewItem: what they find from index i on
NextItems(its, i) == {j \in i .. (head - 1) : ~its[j].skip}
NextBoundaries(its, i) == {j \in NextItems(its, i) : Boundary(its[j])}

\* resetCurrentViewItemStreamStart
WithoutHeader(its, c) ==
    IF /\ c.index # None /\ c.index \in tail .. (head - 1)
       /\ its[c.index].start /\ ~its[c.index].base
    THEN [its EXCEPT ![c.index].start = FALSE] ELSE its

(* contentViewRollbackCurrent to a fragment start.  With current at head   *)
(* the walk measures the duration from an empty slot and never reaches it. *)
WalkStops(i) ==
    \/ hostAlive /\ items[i].received
    \/ current # head /\ i + ReplayDuration <= current

RolledBack ==
    LET C == {i \in tail .. current : i # head /\ items[i].key}
        S == {i \in C : WalkStops(i)}
        later == {i \in C : i > MaxOf(S)}
    IN  IF C = {} THEN current
        ELSE IF S = {} THEN MinOf(C)
        ELSE IF ~(hostAlive /\ items[MaxOf(S)].received) THEN MaxOf(S)
        ELSE IF later = {} THEN current ELSE MinOf(later)

Rollback ==
    IF current = tail \/ ReplayDuration = 0 THEN current
    ELSE MinOf({j \in RolledBack .. head : j = head \/ ~items[j].skip})

-----------------------------------------------------------------------------
(* createStream, once the stream is ready.                                 *)
Init ==
    /\ head = 0 /\ tail = 0 /\ current = 0
    /\ items = [i \in Indexes |-> NoItem]
    /\ cur = NoCur /\ eos = Idle /\ metadata = Idle
    /\ inUse = FALSE /\ hostAlive = TRUE /\ newSession = FALSE
    /\ producer = [resetOnKey |-> FALSE, resetPending |-> FALSE,
                   skipNonKey |-> TRUE, eofr |-> FALSE]
    /\ stopped = FALSE /\ closed = FALSE /\ latePut = FALSE
    /\ machine = "READY"
    /\ up = [h \in Handles |-> NotOpened]
    /\ poked = {} /\ call = NoCall
    /\ drops = 0 /\ rotations = 0

-----------------------------------------------------------------------------
(* The way to a new session.  A stream that lost its connection goes       *)
(* through the stopped state to a new PutMedia call, unless it is on its   *)
(* way already; after a time-out with nothing to send it waits for the     *)
(* next key frame instead.                                                 *)
OnItsWay == machine \in {"SPAWNING", "READY"}
WaitsForFrame(result, bytes) == result = "timeout" /\ ~bytes /\ machine # "STOPPED"

Spawns(spawn, result, bytes) ==
    IF ~spawn \/ OnItsWay
    THEN UNCHANGED <<machine, hostAlive>>
    ELSE /\ hostAlive' = IF machine = "STOPPED" THEN hostAlive ELSE result = "ok"
         /\ machine' = IF WaitsForFrame(result, bytes) THEN "STOPPED"
                       ELSE IF result = "timeout" THEN "PUT_STREAM" ELSE "SPAWNING"

PrimedOnKey(p, spawn, result, bytes) ==
    IF spawn /\ ~OnItsWay /\ WaitsForFrame(result, bytes)
    THEN [p EXCEPT !.resetOnKey = TRUE, !.skipNonKey = TRUE] ELSE p

\* the describe, endpoint and token calls on the way have succeeded
ReadyToPut ==
    /\ Unlocked /\ machine = "SPAWNING"
    /\ machine' = "PUT_STREAM"
    /\ UNCHANGED <<viewVars, trackerVars, inUse, hostAlive, producer, stopped, closed, latePut, up, poked, call, boundVars>>

\* putStreamResult and fromPutStreamState: the handle enters the rotation
PutStreamResult ==
    /\ Unlocked /\ machine = "PUT_STREAM"
    /\ \E h \in Handles :
        /\ up[h].state = "NONE" /\ \A g \in 1 .. (h - 1) : up[g].state # "NONE"
        /\ up' = [up EXCEPT ![h] = NewHandle]
    /\ poked' = IF InState(up, Ongoing) = {}
                THEN poked \cup FirstInState(up', {"READY"}) ELSE poked
    /\ machine' = "STREAMING"
    /\ UNCHANGED <<viewVars, trackerVars, inUse, hostAlive, producer, stopped, closed, latePut, call, boundVars>>

-----------------------------------------------------------------------------
(* putFrame.  expired: the streaming token enters its grace period; due:   *)
(* the delay after a rotation is over and the next key frame resets the    *)
(* generator.  Frames before the first key frame, and after an end of      *)
(* fragment marker, are skipped.                                           *)
RotatesTo == IF OnItsWay THEN machine ELSE "SPAWNING"

PutFrame(kind, expired, due) ==
    LET reset == producer.resetOnKey \/ due
        skip == producer.skipNonKey \/ producer.eofr
        added == kind # "delta" \/ ~skip
        start == kind = "key" /\ (head = 0 \/ reset)
        primed == IF expired THEN RotatesTo ELSE machine
    IN  /\ Unlocked /\ (stopped => latePut) /\ head < MaxItems
        /\ kind = "eofr" => head > 0 /\ ~producer.eofr
        /\ expired => rotations < MaxRotations
        /\ due => producer.resetPending /\ ~expired
        /\ rotations' = IF expired THEN rotations + 1 ELSE rotations
        /\ machine' = IF primed \in {"READY", "STOPPED"} THEN "PUT_STREAM" ELSE primed
        /\ hostAlive' = IF expired /\ machine \in {"PUT_STREAM", "STREAMING"} THEN FALSE ELSE hostAlive
        /\ producer' = [resetOnKey |-> reset /\ kind # "key",
                        resetPending |-> expired \/ (producer.resetPending /\ ~due),
                        skipNonKey |-> skip /\ kind # "key",
                        eofr |-> kind = "eofr" \/ (producer.eofr /\ kind # "key")]
        /\ IF added
           THEN /\ items' = [items EXCEPT ![head] =
                    [NoItem EXCEPT !.key = (kind = "key"), !.eofr = (kind = "eofr"),
                                   !.start = start, !.base = start /\ head # tail]]
                /\ head' = head + 1
                /\ newSession' = (newSession \/ start)
                /\ poked' = poked \cup FirstInState(up, {"READY", "STREAMING"})
           ELSE UNCHANGED <<items, head, newSession, poked>>
        /\ latePut' = FALSE
        /\ UNCHANGED <<tail, current, cur, eos, metadata, inUse, stopped, closed, up, call, drops>>

(* stopStream.  m: metadata is left that no frame has carried; late: a      *)
(* putFrame has got past the check of streamStopped.                       *)
StopStream(m, late) ==
    /\ Unlocked /\ ~stopped
    /\ late => "late_put" \in Faults
    /\ latePut' = late
    /\ m => ~producer.eofr
    /\ stopped' = TRUE
    /\ metadata' = IF m THEN [send |-> TRUE, done |-> FALSE] ELSE metadata
    /\ poked' = poked \cup FirstInState(up, Active)
    /\ closed' = (~m /\ ~BytesLeft(current, cur, eos, metadata) /\ Queue(up) = {})
    /\ UNCHANGED <<viewVars, cur, eos, newSession, connVars, producer, up, call, boundVars>>

-----------------------------------------------------------------------------
(* streamTerminatedEvent.  The next session owes a rollback and a fresh    *)
(* header unless another handle is active or, on a stopped stream, the     *)
(* send pointer is parked on a timecode base.                              *)
Parked ==
    /\ stopped /\ cur.index # None /\ cur.offset = "start"
    /\ items[cur.index].base

HandleTerminated(h, result, alive, p, bytes) ==
    LET u == [up EXCEPT ![h].state = IF alive THEN "TERMINATED" ELSE "GONE"]
        next == FirstInState(u, Active)
    IN  /\ up' = u
        /\ inUse' = IF Parked THEN FALSE
                    ELSE IF up[h].state \in NotStreamed THEN inUse ELSE next = {}
        /\ poked' = (IF alive THEN poked \cup {h} ELSE poked \ {h}) \cup next
        /\ Spawns(next = {}, result, bytes)
        /\ producer' = PrimedOnKey(p, next = {}, result, bytes)

\* the connection of h is dead: kinesisVideoStreamTerminated
ConnectionLost(h, result) ==
    /\ Unlocked /\ drops < MaxDrops
    /\ h \in Queue(up)
    /\ (IF up[h].state \in Active THEN "lost" ELSE "late") \in Faults
    /\ drops' = drops + 1
    /\ HandleTerminated(h, result, FALSE, producer, BytesLeft(current, cur, eos, metadata))
    /\ UNCHANGED <<viewVars, trackerVars, stopped, closed, latePut, call, rotations>>

\* the handle was deleted before its end is reported
UnknownTerminated(h, result) ==
    /\ Unlocked /\ drops < MaxDrops
    /\ up[h].state = "GONE"
    /\ (IF InState(up, Active) = {} THEN "unknown" ELSE "unknown_busy") \in Faults
    /\ drops' = drops + 1
    /\ inUse' = ~Parked
    /\ Spawns(TRUE, result, BytesLeft(current, cur, eos, metadata))
    /\ producer' = PrimedOnKey(producer, TRUE, result, BytesLeft(current, cur, eos, metadata))
    /\ UNCHANGED <<viewVars, trackerVars, stopped, closed, latePut, up, poked, call, rotations>>

AllTerminated(u) ==
    [h \in Handles |-> IF h \in Queue(u) THEN [u[h] EXCEPT !.state = "TERMINATED"] ELSE u[h]]

\* kinesisVideoStreamResetConnection
ResetConnection ==
    /\ Unlocked /\ drops < MaxDrops /\ "reset" \in Faults
    /\ drops' = drops + 1
    /\ up' = AllTerminated(up)
    /\ poked' = poked \cup Queue(up)
    /\ inUse' = ~Parked
    /\ Spawns(TRUE, "ok", TRUE)
    /\ UNCHANGED <<viewVars, trackerVars, producer, stopped, closed, latePut, call, rotations>>

-----------------------------------------------------------------------------
(* streamFragmentAckEvent.  The service acknowledges the fragments of one  *)
(* session in order; a fragment is persisted once its end was received.    *)
(* ACKs of a terminated session are ignored.                               *)
Fragments(h) == {i \in up[h].sent : items[i].key}
Complete(h, i) ==
    \/ up[h].ended
    \/ \E j \in up[h].sent : /\ j > i
                             /\ items[j].key \/ (items[j].eofr /\ cur # [index |-> j, offset |-> "mid"])

AckTaken(h) == Unlocked /\ h \in InState(up, Active)
InView(i) == i \in tail .. (head - 1)

ReceivedAck(h) ==
    LET F == {i \in Fragments(h) : Complete(h, i) /\ i > up[h].received}
    IN  /\ AckTaken(h) /\ F # {}
        /\ up' = [up EXCEPT ![h].received = MinOf(F)]
        /\ items' = IF InView(MinOf(F)) THEN [items EXCEPT ![MinOf(F)].received = TRUE] ELSE items
        /\ UNCHANGED <<head, tail, current, trackerVars, connVars, producer, stopped, closed, latePut, poked, call, boundVars>>

\* streamFragmentPersistedAck: where the tail may go after the ACK of i
TrimsTo(its, i) ==
    LET B == {j \in NextBoundaries(its, i + 1) : ~(its[j].key /\ its[j].persisted)}
    IN  IF B = {} THEN tail
        ELSE IF its[MinOf(B)].eofr THEN MinOf(B) + 1 ELSE MinOf(B)

\* Mutant: handles that wait for their last ACK do not hold the tail
MayTrimEarly(h) == \A g \in Queue(up) : g < h => up[g].state \in ReadyToTrim \cup {"AWAITING_ACK"}

MayTrim(h) == \A g \in Queue(up) : g < h => up[g].state \in ReadyToTrim

\* the send pointer was moved to find the boundary b and is moved back, if
\* the trimmed window still holds its old position
RestoredCurrent(t) == IF t = tail \/ current >= t THEN current
                      ELSE IF items[t - 1].eofr THEN t ELSE t + 1

PersistedAck(h) ==
    LET F == {i \in Fragments(h) : Complete(h, i) /\ i > up[h].persisted}
        i == MinOf(F)
        its == [items EXCEPT ![i].persisted = TRUE]
        last == up[h].state = "AWAITING_ACK" /\ i = up[h].lastFragment
    IN  /\ AckTaken(h) /\ F # {} /\ up[h].received >= i
        /\ IF InView(i)
           THEN /\ items' = its
                /\ up' = [up EXCEPT ![h].persisted = i, ![h].lastPersistedAck = i,
                    ![h].state = IF MayTrim(h) /\ last /\ WaitForPersistedAck THEN "ACK_RECEIVED" ELSE @]
                /\ poked' = IF up'[h].state # up[h].state THEN poked \cup {h} ELSE poked
                /\ tail' = IF MayTrim(h) THEN TrimsTo(its, i) ELSE tail
                /\ current' = IF MayTrim(h) THEN RestoredCurrent(tail') ELSE current
           ELSE /\ up' = [up EXCEPT ![h].persisted = i]
                /\ UNCHANGED <<items, poked, tail, current>>
        /\ UNCHANGED <<head, trackerVars, connVars, producer, stopped, closed, latePut, call, boundVars>>

(* streamFragmentErrorAck.  A fragment that must not be sent again is      *)
(* marked bad up to the next boundary, as are the frames still to come of  *)
(* it; the oldest session that is not terminated is ended.                 *)
(* i: the fragment the ACK names, or None for an ACK without a time code,  *)
(* which goes to the item to be sent next and marks everything from the    *)
(* session's last persisted fragment, or its start, on.  An ACK of what    *)
(* has left the window goes to the tail.  The service answers only         *)
(* sessions that have sent something.                                      *)
ErrorAt(i) == IF i = None THEN (IF current < head THEN current ELSE head - 1)
              ELSE IF InView(i) THEN i ELSE tail
ErrorFrom(h, i) ==
    LET at == ErrorAt(i)
        first == IF up[h].lastPersistedAck # None THEN up[h].lastPersistedAck ELSE MinOf(up[h].sent)
    IN  IF i # None \/ first >= at THEN at ELSE IF first < tail THEN tail ELSE first

ErrorAck(h, i, retry, result) ==
    LET at == ErrorAt(i)
        E == {j \in (at + 1) .. (head - 1) : Boundary(items[j]) \/ items[j].start}
        end == IF E = {} THEN head ELSE MinOf(E)
        p == IF retry \/ E # {} THEN producer
             ELSE [producer EXCEPT !.resetOnKey = TRUE, !.skipNonKey = TRUE]
    IN  /\ AckTaken(h) /\ drops < MaxDrops /\ result # "timeout"
        /\ (IF stopped THEN "error_stopped" ELSE "error") \in Faults
        /\ tail # head /\ up[h].sent # {}
        /\ i # None => i \in Fragments(h) /\ i > up[h].received
        /\ drops' = drops + 1
        /\ current' = IF retry THEN at ELSE end
        /\ items' = IF retry THEN items
                    ELSE [j \in Indexes |-> IF j \in ErrorFrom(h, i) .. (end - 1) THEN [items[j] EXCEPT !.skip = TRUE] ELSE items[j]]
        /\ IF FirstInState(up, Current) = {}
           THEN producer' = p /\ UNCHANGED <<up, inUse, poked, machine, hostAlive>>
           ELSE \E g \in FirstInState(up, Current) : HandleTerminated(g, result, TRUE, p, TRUE)
        /\ UNCHANGED <<head, tail, trackerVars, stopped, closed, latePut, call, rotations>>

-----------------------------------------------------------------------------
(* getStreamData.  The call runs under the stream lock from Enter to       *)
(* CleanUp; a step that returns leaves its status in `call'.               *)
InCall(s) == call.status = s
H == call.handle
Returns(s) == call' = [call EXCEPT !.status = s]
Goes(s) == up' = [up EXCEPT ![H].state = s]

(* The part before the dispatch.  A session that owes a rollback rolls the *)
(* send pointer back and runs streamStartFixupOnReconnect, which puts a    *)
(* header on the next boundary or defers it.                               *)

\* Mutant: a deferred header is forgotten
FixupForgets(from) ==
    LET its == WithoutHeader(items, cur)
        B == IF from = head THEN {} ELSE NextBoundaries(its, from)
    IN  /\ cur' = NoCur /\ eos' = Idle
        /\ inUse' = FALSE /\ newSession' = (B # {})
        /\ current' = IF B = {} THEN from ELSE MinOf(B)
        /\ items' = IF B = {} THEN its ELSE [its EXCEPT ![MinOf(B)].start = TRUE]

Fixup(from) ==
    LET its == WithoutHeader(items, cur)
        B == IF from = head THEN {} ELSE NextBoundaries(its, from)
    IN  /\ cur' = NoCur /\ eos' = Idle
        /\ inUse' = (B = {}) /\ newSession' = (B # {})
        /\ current' = IF B = {} THEN from ELSE MinOf(B)
        /\ items' = IF B = {} THEN its ELSE [its EXCEPT ![MinOf(B)].start = TRUE]

Enter(h) ==
    /\ Unlocked
    /\ h \in poked \cup (IF "late_call" \in Faults THEN {g \in Handles : up[g].state = "GONE"} ELSE {})
    /\ call' = [handle |-> h, status |-> "dispatch"]
    /\ IF inUse THEN Fixup(Rollback)
       ELSE UNCHANGED <<cur, eos, inUse, newSession, current, items>>
    /\ UNCHANGED <<head, tail, metadata, hostAlive, machine, producer, stopped, closed, latePut, up, poked, boundVars>>

loopVars == <<head, tail, connVars, producer, stopped, closed, latePut, poked, boundVars>>

\* the switch over the state of the handle
Dispatch ==
    /\ InCall("dispatch")
    /\ CASE up[H].state = "READY" /\ stopped /\ ~BytesLeft(current, cur, eos, metadata) ->
              Goes("TERMINATED") /\ Returns("END_OF_STREAM") /\ UNCHANGED newSession
         [] up[H].state = "READY" /\ (~stopped \/ BytesLeft(current, cur, eos, metadata)) ->
              IF newSession \/ AbsoluteFragmentTimes
              THEN Goes("STREAMING") /\ Returns("loop") /\ newSession' = FALSE
              ELSE Returns("NO_MORE_DATA") /\ UNCHANGED <<up, newSession>>
         [] up[H].state = "AWAITING_ACK" ->
              /\ UNCHANGED newSession
              /\ IF up[H].lastPersistedAck = up[H].lastFragment
                 THEN Goes("TERMINATED") /\ Returns("END_OF_STREAM")
                 ELSE Returns("AWAITING") /\ UNCHANGED up
         [] up[H].state \in {"ACK_RECEIVED", "TERMINATED"} ->
              Goes("TERMINATED") /\ Returns("END_OF_STREAM") /\ UNCHANGED newSession
         [] up[H].state = "GONE" -> Returns("ABORTED") /\ UNCHANGED <<up, newSession>>
         [] OTHER -> Returns("loop") /\ UNCHANGED <<up, newSession>>
    /\ UNCHANGED <<current, items, cur, eos, metadata, loopVars>>

-----------------------------------------------------------------------------
(* The branches of the loop.  A copy may fill the buffer, which ends the   *)
(* call; metadata and EOS are copied whole.                                *)
InLoop == InCall("loop")
SendsEos == up[H].state \in SendEos
MoreOrFull == Returns("loop") \/ Returns("SUCCESS")

SendMetadata ==
    /\ InLoop /\ SendsEos /\ metadata.send
    /\ IF metadata.done
       THEN metadata' = Idle /\ eos' = [eos EXCEPT !.send = TRUE] /\ Returns("loop")
       ELSE metadata' = [metadata EXCEPT !.done = TRUE] /\ MoreOrFull /\ UNCHANGED eos
    /\ UNCHANGED <<current, items, cur, newSession, up, loopVars>>

SendEosPart ==
    /\ InLoop /\ SendsEos /\ ~metadata.send /\ eos.send /\ ~eos.done
    /\ eos' = [eos EXCEPT !.done = TRUE]
    /\ up' = [up EXCEPT ![H].ended = TRUE]
    /\ MoreOrFull
    /\ UNCHANGED <<current, items, cur, metadata, newSession, loopVars>>

\* Mutant: the session does not wait for the ACK of its last fragment
AfterEosNoWait == Goes("TERMINATED") /\ Returns("END_OF_STREAM")

\* the state after the EOS: the session waits for its last persisted ACK
AfterEos ==
    IF /\ WaitForPersistedAck
       /\ up[H].lastPersistedAck = None \/ up[H].lastPersistedAck # up[H].lastFragment
    THEN Goes("AWAITING_ACK") /\ Returns("AWAITING")
    ELSE Goes("TERMINATED") /\ Returns("END_OF_STREAM")

FinishEos ==
    /\ InLoop /\ SendsEos /\ ~metadata.send /\ eos.send /\ eos.done
    /\ eos' = Idle
    /\ AfterEos
    /\ UNCHANGED <<current, items, cur, metadata, newSession, loopVars>>

InItemBranch == InLoop /\ ~(SendsEos /\ (metadata.send \/ eos.send))

\* Mutant: the send pointer skips the item that follows
TakesEveryOther(its, i) ==
    /\ cur' = [index |-> i, offset |-> "start"]
    /\ current' = MinOf({i + 2, head})
    /\ items' = [its EXCEPT ![i].received = FALSE]

\* an item becomes the one to send: it may be a replay, so its ACK is forgotten
Takes(its, i) ==
    /\ cur' = [index |-> i, offset |-> "start"]
    /\ current' = i + 1
    /\ items' = [its EXCEPT ![i].received = FALSE]

\* no item at hand: go to the next boundary
PickBoundary ==
    /\ InItemBranch /\ cur.index = None
    /\ IF NextBoundaries(items, current) = {}
       THEN current' = head /\ Returns("NO_MORE_DATA") /\ UNCHANGED <<items, cur>>
       ELSE Takes(items, MinOf(NextBoundaries(items, current))) /\ Returns("loop")
    /\ UNCHANGED <<eos, metadata, newSession, up, loopVars>>

\* the session ends here; after an end of fragment marker no EOS is due
EndsSession(s, wasEofr) ==
    /\ Goes(s)
    /\ eos' = [send |-> TRUE, done |-> wasEofr]
    /\ metadata' = IF wasEofr THEN [metadata EXCEPT !.send = FALSE] ELSE metadata

\* Mutant: a session runs on over a stream start
StartEndsNothing(s, wasEofr, start) == UNCHANGED <<up, eos, metadata>>

\* a stream start belongs to the next session
StartEnds(s, wasEofr, start) ==
    IF start THEN EndsSession(s, wasEofr) ELSE UNCHANGED <<up, eos, metadata>>

\* the item is exhausted: go to the next one
Advance ==
    LET wasEofr == items[cur.index].eofr
        its == WithoutHeader(items, cur)
        next == NextItems(its, current)
        s == IF WaitForPersistedAck THEN "TERMINATING" ELSE "TERMINATED"
    IN  /\ InItemBranch /\ cur.index # None /\ cur.offset = "end"
        /\ IF next = {}
           THEN /\ current' = head /\ items' = its /\ UNCHANGED cur
                /\ IF stopped THEN EndsSession("TERMINATING", wasEofr) /\ Returns("loop")
                   ELSE Returns("NO_MORE_DATA") /\ UNCHANGED <<up, eos, metadata>>
           ELSE /\ Takes(its, MinOf(next)) /\ Returns("loop")
                /\ StartEnds(s, wasEofr, its[MinOf(next)].start)
        /\ UNCHANGED <<newSession, loopVars>>

\* copy the rest of the item, or a part of it
CopyItem ==
    LET i == cur.index
    IN  /\ InItemBranch /\ cur.index # None /\ cur.offset # "end"
        /\ \/ cur' = [cur EXCEPT !.offset = "end"] /\ MoreOrFull
           \/ cur.offset = "start" /\ cur' = [cur EXCEPT !.offset = "mid"] /\ Returns("SUCCESS")
        /\ up' = [up EXCEPT ![H].lastFragment = IF items[i].key \/ items[i].start THEN i ELSE @,
                            ![H].sent = @ \cup {i}]
        /\ UNCHANGED <<current, items, eos, metadata, newSession, loopVars>>

-----------------------------------------------------------------------------
(* The clean-up of getStreamData: close the stream behind the last         *)
(* session, unblock the next session, drop a terminated handle and, if     *)
(* bytes are left and nobody sends them, reset the connection.             *)
Final == {"SUCCESS", "NO_MORE_DATA", "AWAITING", "END_OF_STREAM", "ABORTED"}

\* Mutant: the handle is taken to be out of the queue already
ClosesLater(bytes) ==
    /\ stopped /\ call.status = "END_OF_STREAM"
    /\ ~WaitForPersistedAck \/ up[H].state = "TERMINATED"
    /\ ~bytes /\ Queue(up) = {}

Closes(bytes) ==
    /\ stopped /\ call.status = "END_OF_STREAM"
    /\ ~WaitForPersistedAck \/ up[H].state = "TERMINATED"
    /\ ~bytes /\ Cardinality(Queue(up)) = 1

\* the session has sent everything: who is unblocked
Unblocked ==
    IF \/ up[H].state = "AWAITING_ACK"
       \/ ~WaitForPersistedAck /\ up[H].state = "TERMINATED"
    THEN FirstInState(up, {"READY", "STREAMING"}) ELSE {}

CleanUp ==
    LET bytes == BytesLeft(current, cur, eos, metadata)
        over == up[H].state = "TERMINATED"
        u == [h \in Handles |->
                IF h = H /\ over THEN [up[h] EXCEPT !.state = "GONE"]
                ELSE IF h \in Unblocked /\ stopped /\ ~bytes
                THEN [up[h] EXCEPT !.state = "TERMINATED"] ELSE up[h]]
        resets == over /\ InState(u, Active) = {} /\ bytes
        quiet == IF call.status = "SUCCESS" THEN {} ELSE {H}
    IN  /\ call.status \in Final
        /\ closed' = (closed \/ Closes(bytes))
        /\ up' = IF resets THEN AllTerminated(u) ELSE u
        /\ poked' = (poked \ quiet) \cup Unblocked \cup (IF resets THEN Queue(u) ELSE {})
        /\ inUse' = IF resets THEN ~Parked ELSE inUse
        /\ Spawns(resets, "ok", TRUE)
        /\ call' = NoCall
        /\ UNCHANGED <<viewVars, trackerVars, producer, stopped, latePut, boundVars>>

GetStreamData ==
    \/ Dispatch \/ SendMetadata \/ SendEosPart \/ FinishEos
    \/ PickBoundary \/ Advance \/ CopyItem \/ CleanUp

-----------------------------------------------------------------------------
Next ==
    \/ \E k \in FrameKinds, expired, due \in BOOLEAN : PutFrame(k, expired, due)
    \/ \E m \in MetadataLeft, late \in BOOLEAN : StopStream(m, late)
    \/ ReadyToPut \/ PutStreamResult
    \/ \E h \in Handles :
        \/ Enter(h) \/ ReceivedAck(h) \/ PersistedAck(h)
        \/ \E r \in Results : ConnectionLost(h, r) \/ UnknownTerminated(h, r)
        \/ \E i \in Indexes \cup {None}, retry \in BOOLEAN, r \in Results : ErrorAck(h, i, retry, r)
    \/ ResetConnection
    \/ GetStreamData

Spec == Init /\ [][Next]_vars

(* Sessions that are told of data call getStreamData, calls return, the    *)
(* service answers and acknowledges what it received in full.              *)
FairSpec ==
    /\ Spec
    /\ WF_vars(GetStreamData) /\ WF_vars(ReadyToPut) /\ WF_vars(PutStreamResult)
    /\ \A h \in Handles :
        WF_vars(Enter(h)) /\ WF_vars(ReceivedAck(h)) /\ WF_vars(PersistedAck(h))

-----------------------------------------------------------------------------
(* The send pointer stays between tail and head through every trim,         *)
(* rollback and fix-up, and every variable keeps its type.                 *)
TypeOK ==
    /\ head \in 0 .. MaxItems /\ tail \in 0 .. head /\ current \in tail .. head
    /\ items \in [Indexes -> [key : BOOLEAN, eofr : BOOLEAN, start : BOOLEAN, base : BOOLEAN,
                              received : BOOLEAN, persisted : BOOLEAN, skip : BOOLEAN]]
    /\ cur \in [index : Indexes \cup {None}, offset : {"start", "mid", "end"}]
    /\ eos \in [send : BOOLEAN, done : BOOLEAN] /\ metadata \in [send : BOOLEAN, done : BOOLEAN]
    /\ inUse \in BOOLEAN /\ hostAlive \in BOOLEAN /\ newSession \in BOOLEAN
    /\ producer \in [resetOnKey : BOOLEAN, resetPending : BOOLEAN, skipNonKey : BOOLEAN, eofr : BOOLEAN]
    /\ stopped \in BOOLEAN /\ closed \in BOOLEAN /\ latePut \in BOOLEAN
    /\ machine \in {"READY", "SPAWNING", "PUT_STREAM", "STREAMING", "STOPPED"}
    /\ poked \subseteq Handles
    /\ call \in [handle : 0 .. MaxHandles, status : {"none", "dispatch", "loop"} \cup Final]
    /\ \A h \in Handles : up[h].state \in {"NONE", "GONE", "TERMINATED"} \cup Active
    /\ drops \in 0 .. MaxDrops /\ rotations \in 0 .. MaxRotations

(* One timecode base per session: a session that has sent something never  *)
(* sends an item with a header.  getStreamData ends a session that         *)
(* advances onto such an item, and resetCurrentViewItemStreamStart keeps   *)
(* the mark of a base when it strips the headers of earlier sessions.      *)
OneHeaderPerSession ==
    [][\A h \in Handles : \A i \in up'[h].sent \ up[h].sent : up[h].sent # {}
          => ~items[i].start]_vars

(* A session begins with an MKV header, sends forward from there and       *)
(* leaves out only the frames an error ACK has marked bad: after any drops,*)
(* resets, rollbacks and trims, and wherever the other session has put the *)
(* send pointer, the first bytes it takes from the view are the start of   *)
(* an item with a header.  streamStartFixupOnReconnect places the header   *)
(* on a rollback and defers it while there is no boundary to put it on.    *)
SessionContiguous ==
    [][\A h \in Handles : \A i \in up'[h].sent \ up[h].sent :
          IF up[h].sent = {} THEN items[i].start /\ cur.offset = "start"
          ELSE /\ i > MaxOf(up[h].sent)
               /\ \A j \in (MaxOf(up[h].sent) + 1) .. (i - 1) : items[j].skip]_vars

\* Some session was told that the service has the fragment of item i, or the
\* service refused it for good.  An end of fragment marker holds no media.
Settled(i) ==
    \/ items[i].skip \/ items[i].eofr
    \/ \E h \in Handles : \E f \in Fragments(h) :
        /\ f <= i /\ f <= up[h].received
        /\ \A j \in (f + 1) .. i : ~items[j].key \/ items[j].skip

(* On a live stream nothing leaves the window that the service has not     *)
(* acknowledged: the persisted ACK of one session does not trim what an    *)
(* older session still waits for (streamFragmentPersistedAck).  After the  *)
(* stop a parked send pointer gives the replay up by design.  Nor does it  *)
(* free the item that a session is in the middle of sending: curViewItem   *)
(* is a copy that viewItemRemoved does not update.                         *)
TrimOnlySettled ==
    [][/\ ~stopped => \A i \in tail .. (tail' - 1) : Settled(i)
       /\ TypeOK'
       /\ (cur.index # None /\ cur.offset # "end" => cur.index >= tail)']_vars

(* The stream is closed only after each frame went out on some session or  *)
(* was refused (stopStream streams until the buffer is empty), and when a  *)
(* session closes it and ACKs are awaited, its last frame is acknowledged  *)
(* (AWAIT_FOR_PERSISTED_ACK).                                              *)
CloseSettlesLast ==
    [][~closed /\ closed' =>
         /\ \A i \in 0 .. (head - 1) : items[i].skip \/ \E h \in Handles : i \in up'[h].sent
         /\ ~Unlocked /\ WaitForPersistedAck => head = 0 \/ Settled(head - 1)]_vars

(* A stopped stream that has had a frame is closed in the end: one of the  *)
(* sessions calls the closed callback (stopStream, getStreamData).         *)
StopDrains == stopped /\ head > 0 ~> closed
=============================================================================
