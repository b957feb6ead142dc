------------------------------- MODULE Lifecycle -------------------------------
(***************************************************************************)
(* The life of a client and one of its streams under concurrent API calls  *)
(* (client/src/Client.c, client/src/Stream.c): the shutdown semaphores,    *)
(* the mutexes in the order the calls take them, the condition variables   *)
(* of the blocking calls, and the two ways a stream is freed.              *)
(*                                                                         *)
(* A call is a program: the resources it takes one after the other (a      *)
(* permit of a semaphore or a mutex), then its work.  All of them are      *)
(* given back at the end.  What the state machines and the sessions do     *)
(* inside a call is the subject of StreamMachine and UploadSession.        *)
(***************************************************************************)
EXTENDS Integers, Sequences, FiniteSets

CONSTANTS Threads,      \* threads of the application and of the network layer
          Timer,        \* the executor of the client's timer queue
          Modes         \* the configurations, see mode

VARIABLES
    mode,       \* [coordinated, intermittent, timeouts, threads, calls]; never changes
    cl,         \* the client: [alive, shutdown]
    st,         \* the stream: [alive, shutdown, stopped, closed, ready, space]
    sem,        \* [{"csem", "ssem"} -> [locked, held]] shutdown semaphores and their holders
    lock,       \* [Locks -> thread or Nobody]
    th,         \* [thread -> [op, pc, at]]: call, next resource or stage, place in a wait
    timedOut,   \* history: a drain of a semaphore or the timer's shutdown timed out
    missed      \* history: a thread goes to sleep that the broadcast of the shutdown has missed

ASSUME LifecycleAssumption ==
    /\ Timer \notin Threads /\ "nobody" \notin Threads \cup {Timer}
    /\ \A m \in Modes : /\ {m.coordinated, m.intermittent, m.timeouts} \subseteq BOOLEAN
                        /\ m.calls \cap {"callback", "none"} = {}

vars == <<mode, cl, st, sem, lock, th, timedOut, missed>>

Everyone == Threads \cup {Timer}
Nobody == "nobody"
Sems == {"csem", "ssem"}                     \* base.shutdownSemaphore of client and stream
Locks == {"putFrame", "list", "coord", "stream"}

\* The resources of the calls, in the order in which they are taken.  The coordinator
\* of the stream exists only when frames are ordered over several tracks (c).
Inside(c)       == IF c THEN <<"coord", "stream">> ELSE <<"stream">>
PutCall(c)      == <<"csem", "ssem", "putFrame">> \o Inside(c)      \* putKinesisVideoFrame
StopCall(c)     == <<"csem", "ssem">> \o Inside(c)                  \* stopKinesisVideoStream
StopAllCall(c)  == <<"csem", "list", "ssem">> \o Inside(c)          \* stopKinesisVideoStreams
StopSyncCall(c) == <<"csem", "ssem", "list">> \o Inside(c)          \* stopKinesisVideoStreamSync
CreateCall      == <<"csem", "ssem", "stream">>                     \* createKinesisVideoStreamSync
EventCall       == <<"csem", "ssem", "stream">>                     \* metadata, data, results, ACKs
TimerCall(c)    == <<"putFrame", "list">> \o Inside(c)              \* checkIntermittentProducerCallback
FreeCall        == <<"csem", "list">>                               \* freeKinesisVideoStream
FreeAllCall     == << >>                                            \* freeKinesisVideoClient
Program == [c \in BOOLEAN |->
    [put |-> PutCall(c), stop |-> StopCall(c), stopAll |-> StopAllCall(c), stopSync |-> StopSyncCall(c),
     create |-> CreateCall, event |-> EventCall, callback |-> TimerCall(c),
     free |-> FreeCall, freeAll |-> FreeAllCall]]
Operations == {"put", "stop", "stopAll", "stopSync", "create", "event", "callback", "free", "freeAll"}

Idle == [op |-> "none", pc |-> 0, at |-> "run"]
Calls(t, op) == th[t].op = op
Blocking == {"put", "stopSync", "create"}

Needs(t) == Program[mode.coordinated][th[t].op]
Taking(t) == th[t].op # "none" /\ th[t].pc <= Len(Needs(t))
Working(t) == th[t].op # "none" /\ th[t].pc = Len(Needs(t)) + 1 /\ th[t].at = "run"

Held(t) == {l \in Locks : lock[l] = t}
NoneHeld(t, l) == [k \in Locks |-> IF l[k] = t THEN Nobody ELSE l[k]]
Returned(t, s) == [k \in Sems |-> [s[k] EXCEPT !.held = @ \ {t}]]

TypeOK ==
    /\ cl \in [alive : BOOLEAN, shutdown : BOOLEAN]
    /\ st \in [alive : BOOLEAN, shutdown : BOOLEAN, stopped : BOOLEAN, closed : BOOLEAN,
               ready : BOOLEAN, space : BOOLEAN]
    /\ sem \in [Sems -> [locked : BOOLEAN, held : SUBSET Everyone]]
    /\ lock \in [Locks -> Everyone \cup {Nobody}]

\* createKinesisVideoClient and createStream: the objects, their semaphores and
\* locks; the stream is in the table of the client.
Init ==
    /\ mode \in Modes
    /\ cl = [alive |-> TRUE, shutdown |-> FALSE]
    /\ st = [alive |-> TRUE, shutdown |-> FALSE, stopped |-> FALSE, closed |-> FALSE,
             ready |-> FALSE, space |-> FALSE]
    /\ sem = [s \in Sems |-> [locked |-> FALSE, held |-> {}]]
    /\ lock = [l \in Locks |-> Nobody]
    /\ th = [t \in Everyone |-> Idle]
    /\ timedOut = FALSE /\ missed = FALSE

-----------------------------------------------------------------------------
(* Calls, their resources and their end *)

\* The application starts no call with a stream it has begun to free, frees a
\* stream once, and has no handle of it before its creation returns; the network
\* layer has.  A call may be on its way when a free begins.
Begin(t, op) ==
    /\ th[t] = Idle /\ cl.alive
    /\ IF t = Timer
       THEN op = "callback" /\ mode.intermittent
            /\ ~\E u \in Threads : Calls(u, "freeAll") /\ th[u].pc > 6
       ELSE /\ t \in mode.threads /\ op \in mode.calls /\ st.alive
            /\ ~\E u \in Threads : Calls(u, "freeAll") \/ (op # "freeAll" /\ Calls(u, "free"))
            /\ op \notin {"event", "freeAll"} => ~\E u \in Threads : Calls(u, "create")
            /\ op = "create" => ~st.ready /\ ~st.stopped /\ \A u \in Threads : th[u].op \in {"none", "event"}
    /\ th' = [th EXCEPT ![t] = [op |-> op, pc |-> 1, at |-> "run"]]
    /\ UNCHANGED <<mode, cl, st, sem, lock, timedOut, missed>>

Leave(t) ==
    /\ th' = [th EXCEPT ![t] = Idle]
    /\ lock' = NoneHeld(t, lock) /\ sem' = Returned(t, sem)

\* A failed synchronous creation frees the stream, with the client's permit in its
\* hands but not the stream's.
FreeOnError(t) ==
    /\ th' = [th EXCEPT ![t] = [op |-> "free", pc |-> 1, at |-> "run"]]
    /\ sem' = [sem EXCEPT !["ssem"].held = @ \ {t}]
    /\ UNCHANGED lock

\* semaphoreAcquire with an infinite time-out: a permit, or an error at once when
\* the semaphore has been locked for the shutdown.
Acquire(t) ==
    /\ Taking(t) /\ Needs(t)[th[t].pc] \in Sems
    /\ LET s == Needs(t)[th[t].pc] IN
       IF sem[s].locked
       THEN \/ ~(Calls(t, "create") /\ s = "ssem") /\ Leave(t)
            \/ Calls(t, "create") /\ s = "ssem" /\ FreeOnError(t)
       ELSE /\ sem' = [sem EXCEPT ![s].held = @ \cup {t}]
            /\ th' = [th EXCEPT ![t].pc = @ + 1]
            /\ UNCHANGED lock
    /\ UNCHANGED <<mode, cl, st, timedOut, missed>>

\* lockMutexFn.  The timer locks the streams it finds in the table.
TakeLock(t) ==
    /\ Taking(t) /\ Needs(t)[th[t].pc] \in Locks
    /\ Needs(t)[th[t].pc] \in {"coord", "stream"} => st.alive
    /\ LET l == Needs(t)[th[t].pc] IN
       /\ lock[l] \in {Nobody, t}
       /\ lock' = [lock EXCEPT ![l] = t]
       /\ th' = [th EXCEPT ![t].pc = @ + 1]
    /\ UNCHANGED <<mode, cl, st, sem, timedOut, missed>>

\* Wake every thread that sleeps in a call of ops (a broadcast, and a signal to
\* the single sleeper there is).
Woken(ops) == [u \in Everyone |-> IF th[u].at = "asleep" /\ th[u].op \in ops
                                  THEN [th[u] EXCEPT !.at = "woken"] ELSE th[u]]

-----------------------------------------------------------------------------
(* Blocking calls: one step that looks, one that sleeps, one that comes back *)

\* What ends the wait: space for the frame (checkForAvailability); the closed
\* stream or the shutdown (stopStreamSync); the ready stream or the shutdown.
Done(op) == CASE op = "put" -> st.space
              [] op = "stopSync" -> st.closed \/ st.shutdown
              [] op = "create" -> st.ready \/ st.shutdown
              [] OTHER -> TRUE
Interrupted(op) == op = "put" /\ (st.stopped \/ st.shutdown)

\* handleAvailability, stopStreamSync and createKinesisVideoStreamSync look under
\* the stream lock; putFrame has checked for a stopped stream, not for a shutdown.
\* stopStreamSync has done the work of stopStream before.
Look(t) ==
    /\ Working(t) /\ th[t].op \in Blocking
    /\ st' = [st EXCEPT !.stopped = @ \/ Calls(t, "stopSync"),
                        !.space = @ /\ ~Calls(t, "put")]
    /\ LET T == IF Calls(t, "stopSync") THEN Woken({"put"}) ELSE th
           ends == Done(th[t].op) \/ (Calls(t, "put") /\ st.stopped)
       IN /\ th' = [T EXCEPT ![t] = IF ends THEN Idle ELSE [@ EXCEPT !.at = "sleep"]]
          /\ lock' = IF ends THEN NoneHeld(t, lock) ELSE lock
          /\ sem' = IF ends THEN Returned(t, sem) ELSE sem
          /\ missed' = (missed \/ (~ends /\ sem["ssem"].locked))
    /\ UNCHANGED <<mode, cl, timedOut>>

\* waitConditionVariableFn: gives the stream lock back, and nothing else.
Sleep(t) ==
    /\ th[t].at = "sleep"
    /\ th' = [th EXCEPT ![t].at = "asleep"]
    /\ lock' = [lock EXCEPT !["stream"] = Nobody]
    /\ UNCHANGED <<mode, cl, st, sem, timedOut, missed>>

\* Back with the stream lock: the put looks whether it was interrupted, then all
\* look again.
Wake(t) ==
    /\ th[t].at = "woken" /\ lock["stream"] = Nobody
    /\ st' = [st EXCEPT !.space = IF Calls(t, "put") /\ ~Interrupted("put") THEN FALSE ELSE @]
    /\ IF Done(th[t].op) \/ Interrupted(th[t].op)
       THEN Leave(t)
       ELSE /\ th' = [th EXCEPT ![t].at = "sleep"]
            /\ lock' = [lock EXCEPT !["stream"] = t] /\ UNCHANGED sem
    /\ UNCHANGED <<mode, cl, timedOut, missed>>

\* The time-out of the wait: the call fails.
WaitTimeout(t) ==
    /\ mode.timeouts /\ th[t].at = "asleep" /\ lock["stream"] = Nobody
    /\ IF Calls(t, "create")
       THEN FreeOnError(t) ELSE Leave(t)
    /\ UNCHANGED <<mode, cl, st, timedOut, missed>>

-----------------------------------------------------------------------------
(* Calls that do not block *)

\* Mutant: a stop does not wake the put that waits for space.
StopWorkSilent(t) ==
    /\ Working(t) /\ th[t].op \in {"stop", "stopAll"}
    /\ st' = [st EXCEPT !.stopped = TRUE]
    /\ th' = [th EXCEPT ![t] = Idle]
    /\ lock' = NoneHeld(t, lock) /\ sem' = Returned(t, sem)
    /\ UNCHANGED <<mode, cl, timedOut, missed>>

\* stopStream under the stream lock.
StopWork(t) ==
    /\ Working(t) /\ th[t].op \in {"stop", "stopAll"}
    /\ st' = [st EXCEPT !.stopped = TRUE]
    /\ th' = [Woken({"put"}) EXCEPT ![t] = Idle]
    /\ lock' = NoneHeld(t, lock) /\ sem' = Returned(t, sem)
    /\ UNCHANGED <<mode, cl, timedOut, missed>>

\* The end of a call that leaves the stream as s and wakes the calls of ops.
EventEnds(t, s, ops) ==
    /\ Working(t) /\ Calls(t, "event")
    /\ st' = s /\ th' = [Woken(ops) EXCEPT ![t] = Idle]
    /\ lock' = NoneHeld(t, lock) /\ sem' = Returned(t, sem)
    /\ UNCHANGED <<mode, cl, timedOut, missed>>

\* The result of a service call that makes the stream ready.
ResultEvent(t) == EventEnds(t, [st EXCEPT !.ready = TRUE], {"create"})
\* The end of the last session of a stopped stream: notifyStreamClosed.
SessionEvent(t) == st.stopped /\ EventEnds(t, [st EXCEPT !.closed = TRUE], {"stopSync"})
\* An ACK that frees space in the content store.
AckEvent(t) == EventEnds(t, [st EXCEPT !.space = TRUE], {"put"})
\* Metadata, format changes, data, stream information.
OtherCall(t) == EventEnds(t, st, {})

\* The callback puts an end of fragment through putKinesisVideoFrame with all the
\* locks held; an end of fragment carries no data and does not wait for space.
CallbackWork ==
    /\ Working(Timer) /\ Calls(Timer, "callback")
    /\ Leave(Timer) /\ UNCHANGED <<mode, cl, st, timedOut, missed>>
\* The stream has left the table: the callback finds nothing to lock.
CallbackEmpty ==
    /\ Taking(Timer) /\ ~st.alive /\ Needs(Timer)[th[Timer].pc] \in {"coord", "stream"}
    /\ Leave(Timer) /\ UNCHANGED <<mode, cl, st, timedOut, missed>>

-----------------------------------------------------------------------------
(* shutdownStream, freeStream, freeKinesisVideoClientInternal.  A free goes    *)
(* through numbered stages: shut flag, broadcast, drained, freed.              *)

Stage(t) == IF Calls(t, "free") THEN th[t].pc - 2 ELSE th[t].pc - 1
Stages(t, n) == /\ \/ Calls(t, "free") /\ th[t].pc > 2
                   \/ Calls(t, "freeAll")
                /\ Stage(t) = n /\ th[t].pc > 0
NextStage(t) == th' = [th EXCEPT ![t].pc = @ + 1]
\* freeAll: 0 client flag and list lock, 1 stream flag, 2 broadcast, 3 drain and unlock,
\* 4 drain of the client, 5 timers, 6 list lock, 7 free of the stream, 8 of the client.
\* free: 1, 2, 3, then 7.

ClientShutdown(t) ==
    /\ Calls(t, "freeAll") /\ Stages(t, 0) /\ lock["list"] = Nobody
    /\ cl' = [cl EXCEPT !.shutdown = TRUE] /\ lock' = [lock EXCEPT !["list"] = t]
    /\ NextStage(t) /\ UNCHANGED <<mode, st, sem, timedOut, missed>>

\* The flag is set without the stream lock.  A stream that is gone or being shut
\* down already is left alone.
ShutdownFlag(t) ==
    /\ Stages(t, 1)
    /\ IF st.alive /\ ~st.shutdown
       THEN st' = [st EXCEPT !.shutdown = TRUE] /\ NextStage(t) /\ UNCHANGED lock
       ELSE /\ th' = [th EXCEPT ![t].pc = IF Calls(t, "free") THEN 9 ELSE 5]
            /\ lock' = IF Calls(t, "free") THEN lock ELSE NoneHeld(t, lock)
            /\ UNCHANGED st
    /\ UNCHANGED <<mode, cl, sem, timedOut, missed>>

\* Mutant: the waiting puts are left out of the broadcast.
ShutdownBroadcastSomeOnly(t) ==
    /\ Stages(t, 2)
    /\ sem' = [sem EXCEPT !["ssem"].locked = TRUE]
    /\ th' = [Woken(Blocking \ {"put"}) EXCEPT ![t].pc = @ + 1]
    /\ missed' = (missed \/ \E u \in Threads : th[u].at = "sleep")
    /\ UNCHANGED <<mode, cl, st, lock, timedOut>>

\* The semaphore is locked and the condition variables are broadcast, without the
\* stream lock: a thread between its look and its sleep misses it.
ShutdownBroadcast(t) ==
    /\ Stages(t, 2)
    /\ sem' = [sem EXCEPT !["ssem"].locked = TRUE]
    /\ th' = [Woken(Blocking) EXCEPT ![t].pc = @ + 1]
    /\ missed' = (missed \/ \E u \in Threads : th[u].at = "sleep")
    /\ UNCHANGED <<mode, cl, st, lock, timedOut>>

\* Mutant: the drain is not waited for.
ShutdownDrainedAtOnce(t) ==
    /\ Stages(t, 3)
    /\ timedOut' = timedOut
    /\ th' = [th EXCEPT ![t].pc = IF Calls(t, "free") THEN 9 ELSE @ + 1]
    /\ lock' = IF Calls(t, "free") THEN lock ELSE NoneHeld(t, lock)
    /\ UNCHANGED <<mode, cl, st, sem, missed>>

\* semaphoreWaitUntilClear of the stream, whose result is not looked at.
ShutdownDrained(t) ==
    /\ Stages(t, 3)
    /\ sem["ssem"].held = {} \/ mode.timeouts
    /\ timedOut' = (timedOut \/ sem["ssem"].held # {})
    /\ th' = [th EXCEPT ![t].pc = IF Calls(t, "free") THEN 9 ELSE @ + 1]
    /\ lock' = IF Calls(t, "free") THEN lock ELSE NoneHeld(t, lock)
    /\ UNCHANGED <<mode, cl, st, sem, missed>>

\* The client's semaphore is locked and drained.
ClientDrained(t) ==
    /\ Calls(t, "freeAll") /\ Stages(t, 4)
    /\ IF sem["csem"].locked
       THEN /\ sem["csem"].held = {} \/ mode.timeouts
            /\ timedOut' = (timedOut \/ sem["csem"].held # {})
            /\ NextStage(t) /\ UNCHANGED sem
       ELSE /\ sem' = [sem EXCEPT !["csem"].locked = TRUE] /\ UNCHANGED <<th, timedOut>>
    /\ UNCHANGED <<mode, cl, st, lock, missed>>

\* timerQueueShutdown: the callback that runs is waited for, up to a time-out.
TimersDone(t) ==
    /\ Calls(t, "freeAll") /\ Stages(t, 5)
    /\ th[Timer] = Idle \/ mode.timeouts
    /\ timedOut' = (timedOut \/ th[Timer] # Idle)
    /\ NextStage(t) /\ UNCHANGED <<mode, cl, st, sem, lock, missed>>

ListAgain(t) ==
    /\ Calls(t, "freeAll") /\ Stages(t, 6) /\ lock["list"] = Nobody
    /\ lock' = [lock EXCEPT !["list"] = t] /\ NextStage(t)
    /\ UNCHANGED <<mode, cl, st, sem, timedOut, missed>>

\* freeStream after the shutdown: the stream lock, the view and the generator,
\* the coordinator under its own lock, the slot of the table, the stream.
FreeStream(t) ==
    /\ Stages(t, 7)
    /\ st.alive => lock["stream"] = Nobody /\ lock["coord"] = Nobody
    /\ st' = [st EXCEPT !.alive = FALSE]
    /\ IF Calls(t, "free") THEN Leave(t) ELSE NextStage(t) /\ UNCHANGED <<lock, sem>>
    /\ UNCHANGED <<mode, cl, timedOut, missed>>

\* The locks and the objects of the client.
FreeClient(t) ==
    /\ Calls(t, "freeAll") /\ Stages(t, 8)
    /\ cl' = [cl EXCEPT !.alive = FALSE]
    /\ Leave(t)
    /\ UNCHANGED <<mode, st, timedOut, missed>>

Freeing(t) == \/ ClientShutdown(t) \/ ShutdownFlag(t) \/ ShutdownBroadcast(t) \/ ShutdownDrained(t)
              \/ ClientDrained(t) \/ TimersDone(t) \/ ListAgain(t) \/ FreeStream(t) \/ FreeClient(t)
Step(t) == \/ Acquire(t) \/ TakeLock(t) \/ Look(t) \/ Sleep(t) \/ Wake(t) \/ StopWork(t)
           \/ ResultEvent(t) \/ SessionEvent(t) \/ AckEvent(t) \/ OtherCall(t) \/ Freeing(t)

Next ==
    \/ \E t \in Everyone, op \in Operations : Begin(t, op)
    \/ \E t \in Everyone : Step(t)
    \/ \E t \in Threads : WaitTimeout(t)
    \/ CallbackWork \/ CallbackEmpty

\* Threads run.  A free mutex is given to a thread that asks for it often enough.
\* Calls begin, ACKs come and waits time out without fairness.
Spec == /\ Init /\ [][Next]_vars
        /\ \A t \in Everyone : SF_vars(Step(t))
        /\ WF_vars(CallbackWork \/ CallbackEmpty)

-----------------------------------------------------------------------------
\* Who may still use the stream: a holder of its semaphore, of one of its locks,
\* or a sleeper on one of its condition variables.
UsesStream(t) == \/ t \in sem["ssem"].held
                 \/ {"coord", "stream"} \cap Held(t) # {}
                 \/ th[t].at # "run"

\* While the time-outs of the drains do not strike, nobody is inside a call on a
\* stream that has been freed, whichever of freeKinesisVideoStream, a failed
\* creation and freeKinesisVideoClient frees it, and nobody holds a lock or a permit of
\* a client that has been freed (Client.c:832-846, 1650-1737, Stream.c:345-416, 666).
FreedUnused ==
    /\ TypeOK
    /\ ~timedOut => \A t \in Everyone :
        /\ ~st.alive => ~UsesStream(t)
        /\ ~cl.alive => Held(t) = {} /\ \A s \in Sems : t \notin sem[s].held

\* Without a coordinator and without the timer, a free ends without the help of a
\* time-out, whatever puts, stops, creations and results are on their way: the
\* orders in which they take permits and locks do not meet, and the broadcast
\* reaches the sleepers.  Two exceptions: a blocking call that went to sleep after
\* the broadcast, and a synchronous stop, which takes the stream's permit before the
\* list lock where a free takes them the other way (Stream.c:645-667, Client.c:666,
\* 1627-1680).
FreeEnds ==
    (~mode.coordinated /\ ~mode.intermittent /\ \E t \in Threads : Calls(t, "free") \/ Calls(t, "freeAll"))
    ~> \/ missed \/ \E t \in Threads : Calls(t, "stopSync")
       \/ ~\E t \in Threads : Calls(t, "free") \/ Calls(t, "freeAll")

\* A put that waits for space in the store is interrupted when the stream is
\* stopped, without any time-out (Stream.c:488-492, 1740-1750).
StopInterruptsPut ==
    (~mode.coordinated /\ st.stopped /\ \E t \in Threads : Calls(t, "put") /\ th[t].at = "asleep")
    ~> (~\E t \in Threads : Calls(t, "put") /\ th[t].at # "run")

\* Calls that wait come back: the frees of streams and client, and the puts of a stopped
\* stream (FreeEnds and StopInterruptsPut together).
CallsEnd == FreeEnds /\ StopInterruptsPut
=============================================================================
