------------------------------ MODULE ThreadPool ------------------------------
(***************************************************************************)
(* The thread pool of utils/src/Threadpool.c on the blocking queue of      *)
(* utils/src/ThreadsafeBlockingQueue.c.  An actor blocks in the queue with *)
(* its own data mutex held and takes the list mutex after it; the owner's  *)
(* threadpoolFree takes them in the other order, by trying, and wakes the  *)
(* blocked actors with termination tasks that keep them busy meanwhile.    *)
(* An actor waits with its data mutex held in the states DataLocked, and   *)
(* holds it for a moment in those of BrieflyLocked.                        *)
(***************************************************************************)
EXTENDS Integers, Sequences, FiniteSets

CONSTANTS Actors,       \* identities of threads; a finished one may be reused
          Callers,      \* threads that push tasks
          MinThreads, MaxThreads,
          MaxTasks,     \* bound of the number of tasks pushed
          MaxSent       \* bound of the termination tasks sent

ASSUME PoolAssumption ==
    /\ MinThreads \in Nat \ {0} /\ MaxThreads \in Nat /\ MinThreads <= MaxThreads
    /\ MaxTasks \in Nat /\ MaxSent \in Nat
    /\ IsFiniteSet(Actors) /\ Cardinality(Actors) >= MinThreads

VARIABLES
    actor,      \* [Actors -> [pc, terminate, task]]
    list,       \* threadList, as a sequence of actors
    items,      \* the items of the task queue
    permits,    \* the permits of its semaphore
    avail,      \* availableThreads
    terminated, \* pThreadpool->terminate
    listOwner,  \* whether threadpoolFree holds listMutex
    temp,       \* tempMutex: "free" or "owner" (held by threadpoolFree)
    sent, finished, signals,    \* termination tasks sent and finished, tempSemaphore
    owner,      \* where threadpoolFree is
    caller,     \* [Callers -> [pc, space, count, try]]
    pushed      \* number of tasks so far

poolVars == <<actor, list, items, permits, avail, terminated, listOwner, temp, sent,
              finished, signals, owner, caller, pushed>>

NoTask == "none"
DataLocked == {"deq", "pop", "list"}
BrieflyLocked == {"start", "loop", "after"}
MayRefuse == DataLocked \cup BrieflyLocked \cup {"gone"}     \* what a try-lock may meet
Gone == [pc |-> "gone", terminate |-> FALSE, task |-> NoTask]
New == [pc |-> "start", terminate |-> FALSE, task |-> NoTask]
IdleCaller == [pc |-> "idle", space |-> FALSE, count |-> 0, try |-> FALSE]
Listed == {list[k] : k \in DOMAIN list}
\* stackQueueRemoveItem: the first node with the value is taken out.
Without(s, a) == LET k == CHOOSE k \in DOMAIN s : s[k] = a
                 IN [j \in 1 .. Len(s) - 1 |-> s[IF j < k THEN j ELSE j + 1]]

PoolTypeOK ==
    /\ actor \in [Actors -> [pc : {"gone", "start", "loop", "deq", "pop", "run", "after", "list", "exit"},
                             terminate : BOOLEAN, task : {NoTask, "user", "term"}]]
    /\ Listed \subseteq Actors /\ permits \in Nat /\ avail \in Nat /\ signals \in 0 .. MaxThreads
    /\ owner \in {"open", "clear", "iterate", "sleep", "drain", "help", "acquire", "relock", "freed"}

\* threadpoolCreate: minThreads threads are in the list; they start on their own.
PoolInit ==
    /\ list = CHOOSE q \in [1 .. MinThreads -> Actors] :
                \A j, k \in 1 .. MinThreads : q[j] = q[k] => j = k
    /\ actor = [a \in Actors |-> IF a \in Listed THEN New ELSE Gone]
    /\ items = << >> /\ permits = 0 /\ avail = 0 /\ terminated = FALSE
    /\ listOwner = FALSE /\ temp = "free" /\ sent = 0 /\ finished = 0 /\ signals = 0
    /\ owner = "open" /\ caller = [c \in Callers |-> IdleCaller] /\ pushed = 0

\* threadpoolTotalThreadCount, safeBlockingQueueGetCount, safeBlockingQueueIsEmpty
TotalThreadCount == Len(list)
QueueCount == Len(items)
QueueIsEmpty == items = << >>

Is(a, pc) == actor[a].pc = pc
To(a, pc) == actor' = [actor EXCEPT ![a].pc = pc]

-----------------------------------------------------------------------------
(* threadpoolActor, one action per stretch between two blocking points *)

OfOwner == <<terminated, listOwner, temp, sent, finished, signals, owner, caller, pushed>>

\* The try-lock of the start fails only while threadpoolFree marks the actor.
ActorStart(a) ==
    /\ Is(a, "start") /\ To(a, IF actor[a].terminate THEN "exit" ELSE "loop")
    /\ UNCHANGED <<list, items, permits, avail>> /\ UNCHANGED OfOwner

\* With the data mutex: leave, or announce itself and wait at the queue.
ActorLoop(a) ==
    /\ Is(a, "loop")
    /\ IF actor[a].terminate THEN To(a, "exit") /\ UNCHANGED avail
                             ELSE To(a, "deq") /\ avail' = avail + 1
    /\ UNCHANGED <<list, items, permits>> /\ UNCHANGED OfOwner

\* safeBlockingQueueDequeue: a permit of the semaphore, then the item.
ActorPermit(a) ==
    /\ Is(a, "deq") /\ permits > 0 /\ permits' = permits - 1 /\ To(a, "pop")
    /\ UNCHANGED <<list, items, avail>> /\ UNCHANGED OfOwner

\* The item may have been cleared since the permit was given: the call fails.
ActorDequeue(a) ==
    /\ Is(a, "pop") /\ avail' = avail - 1
    /\ IF items = << >>
       THEN To(a, "after") /\ UNCHANGED items
       ELSE /\ actor' = [actor EXCEPT ![a].pc = "run", ![a].task = Head(items)]
            /\ items' = Tail(items)
    /\ UNCHANGED <<list, permits>> /\ UNCHANGED OfOwner

\* A task of a user returns; nothing forces it to.
UserTaskEnds(a) ==
    /\ Is(a, "run") /\ actor[a].task = "user"
    /\ actor' = [actor EXCEPT ![a].pc = "after", ![a].task = NoTask]
    /\ UNCHANGED <<list, items, permits, avail>> /\ UNCHANGED OfOwner

\* threadpoolTermination needs the mutex of threadpoolFree.  A release above the
\* semaphore's limit is refused, the count goes up nevertheless.
TerminationReleases(n) == signals' = IF signals < MaxThreads THEN signals + 1 ELSE signals
Terminate(n) == TerminationReleases(n) /\ finished' = finished + n

ActorTermination(a) ==
    /\ Is(a, "run") /\ actor[a].task = "term" /\ temp = "free"
    /\ Terminate(1)
    /\ actor' = [actor EXCEPT ![a].pc = "after", ![a].task = NoTask]
    /\ UNCHANGED <<list, items, permits, avail, terminated, listOwner, temp, sent, owner, caller, pushed>>

\* After a task: the data mutex again, and if the pool lives the list mutex.
ActorAfter(a) ==
    /\ Is(a, "after") /\ To(a, IF actor[a].terminate THEN "loop" ELSE "list")
    /\ UNCHANGED <<list, items, permits, avail>> /\ UNCHANGED OfOwner

\* With both mutexes: an actor that is not needed removes itself, unless the
\* pool is being torn down.
ActorList(a) ==
    /\ Is(a, "list") /\ ~listOwner
    /\ LET leave == ~terminated /\ QueueIsEmpty /\ TotalThreadCount > MinThreads IN
       /\ To(a, IF leave THEN "exit" ELSE "loop")
       /\ list' = IF leave THEN Without(list, a) ELSE list
    /\ UNCHANGED <<items, permits, avail>> /\ UNCHANGED OfOwner

\* The actor frees its own data.
ActorExit(a) ==
    /\ Is(a, "exit") /\ actor' = [actor EXCEPT ![a] = Gone]
    /\ UNCHANGED <<list, items, permits, avail>> /\ UNCHANGED OfOwner

-----------------------------------------------------------------------------
(* threadpoolTryAdd and threadpoolPush *)

OfPool == <<avail, terminated, listOwner, temp, sent, finished, signals, owner>>
Calls(c, pc) == caller[c].pc = pc

\* threadpoolInternalCanCreateThread, under the list mutex.  The owner does not
\* free the pool while a caller is inside.
CanCreateThread(c, try) ==
    /\ Calls(c, "idle") /\ owner = "open" /\ pushed < MaxTasks
    /\ caller' = [caller EXCEPT ![c] = [pc |-> "count", space |-> TotalThreadCount < MaxThreads,
                                        count |-> 0, try |-> try]]
    /\ pushed' = pushed + 1
    /\ UNCHANGED <<actor, list, items, permits>> /\ UNCHANGED OfPool

\* threadpoolInternalInactiveThreadCount, without any lock of the pool; TryAdd
\* refuses when neither a thread nor room for one was there.
InactiveThreadCount(c) ==
    /\ Calls(c, "count")
    /\ LET n == IF avail > QueueCount THEN avail - QueueCount ELSE 0 IN
       caller' = [caller EXCEPT ![c] =
                    IF caller[c].try /\ ~caller[c].space /\ n = 0 THEN IdleCaller
                    ELSE [@ EXCEPT !.pc = "enqueue", !.count = n]]
    /\ UNCHANGED <<actor, list, items, permits, pushed>> /\ UNCHANGED OfPool

\* threadpoolInternalCreateTask: safeBlockingQueueEnqueue appends the item and
\* then releases the permit.
CreateTask(c) ==
    /\ Calls(c, "enqueue") /\ items' = Append(items, "user")
    /\ caller' = [caller EXCEPT ![c].pc = "release"]
    /\ UNCHANGED <<actor, list, permits, pushed>> /\ UNCHANGED OfPool
ReleaseTask(c) ==
    /\ Calls(c, "release") /\ permits' = permits + 1
    /\ caller' = [caller EXCEPT ![c] =
                    IF caller[c].count = 0 /\ (caller[c].try \/ caller[c].space)
                    THEN [@ EXCEPT !.pc = "create"] ELSE IdleCaller]
    /\ UNCHANGED <<actor, list, items, pushed>> /\ UNCHANGED OfPool

\* threadpoolInternalCreateThread, on what was seen two steps ago.
CreateThread(c) ==
    /\ Calls(c, "create")
    /\ \E x \in Actors : Is(x, "gone")
    /\ LET a == CHOOSE x \in Actors : Is(x, "gone") IN
       actor' = [actor EXCEPT ![a] = New] /\ list' = Append(list, a)
    /\ caller' = [caller EXCEPT ![c] = IdleCaller]
    /\ UNCHANGED <<items, permits, pushed>> /\ UNCHANGED OfPool

\* THREAD_CREATE fails after the enqueue: the entry stays in the list, its data is
\* freed, and the call fails although its task is queued.
CreateThreadFails(c) ==
    /\ Calls(c, "create")
    /\ \E x \in Actors : Is(x, "gone") /\ list' = Append(list, x)
    /\ caller' = [caller EXCEPT ![c] = IdleCaller]
    /\ UNCHANGED <<actor, items, permits, pushed>> /\ UNCHANGED OfPool

\* An entry of the list whose data is freed.
Dangling == \E a \in Listed : Is(a, "gone")

-----------------------------------------------------------------------------
(* threadpoolFree *)

OfActors == <<avail, caller, pushed>>
Owner(from, to) == owner = from /\ owner' = to

\* The flag of the pool, and the mutex and semaphore of the termination tasks.
FreeBegin ==
    /\ Owner("open", "clear") /\ \A c \in Callers : Calls(c, "idle")
    /\ terminated' = TRUE /\ temp' = "owner"
    /\ UNCHANGED <<actor, list, items, permits, listOwner, sent, finished, signals>> /\ UNCHANGED OfActors

\* safeBlockingQueueClear: the permits, then the items.
FreeClear ==
    /\ Owner("clear", "sleep") /\ items' = << >>
    /\ permits' = IF QueueIsEmpty THEN permits ELSE 0
    /\ UNCHANGED <<actor, list, terminated, listOwner, temp, sent, finished, signals>> /\ UNCHANGED OfActors

FreeLockList ==
    /\ Owner("sleep", "iterate") /\ listOwner' = TRUE
    /\ UNCHANGED <<actor, list, items, permits, terminated, temp, sent, finished, signals>> /\ UNCHANGED OfActors

\* Mutant: the actor is taken off the list and not told to end.
FreeMarkUntold ==
    /\ owner = "iterate" /\ list # << >> /\ actor[Head(list)].pc \notin DataLocked
    /\ list' = Tail(list)
    /\ UNCHANGED <<actor, items, permits, terminated, listOwner, temp, sent, finished, signals, owner>>
    /\ UNCHANGED OfActors

\* The first actor of the list: its mutex could be had, so it is told to end
\* and taken off the list.  A freed mutex may be had or not.
FreeMark ==
    /\ owner = "iterate" /\ list # << >> /\ actor[Head(list)].pc \notin DataLocked
    /\ actor' = [actor EXCEPT ![Head(list)].terminate = TRUE]
    /\ list' = Tail(list)
    /\ UNCHANGED <<items, permits, terminated, listOwner, temp, sent, finished, signals, owner>>
    /\ UNCHANGED OfActors

\* Mutant: no termination task is sent to the blocked actors.
FreeBusySilent ==
    /\ Owner("iterate", "sleep") /\ list # << >>
    /\ actor[Head(list)].pc \in MayRefuse
    /\ listOwner' = FALSE
    /\ UNCHANGED <<actor, list, items, permits, sent, terminated, temp, finished, signals>> /\ UNCHANGED OfActors

\* Its mutex is taken, if only for a moment: one termination task for every actor that
\* is left, then the list is given back for a while.  A round above the bound MaxSent
\* sends none.
FreeBusy ==
    /\ Owner("iterate", "sleep") /\ list # << >>
    /\ actor[Head(list)].pc \in MayRefuse
    /\ LET n == IF sent + Len(list) <= MaxSent THEN Len(list) ELSE 0 IN
       /\ items' = items \o [k \in 1 .. n |-> "term"]
       /\ permits' = permits + n /\ sent' = sent + n
    /\ listOwner' = FALSE
    /\ UNCHANGED <<actor, list, terminated, temp, finished, signals>> /\ UNCHANGED OfActors

FreeListDone ==
    /\ Owner("iterate", "drain") /\ list = << >> /\ listOwner' = FALSE
    /\ UNCHANGED <<actor, list, items, permits, terminated, temp, sent, finished, signals>> /\ UNCHANGED OfActors

\* Every termination task must have run before its mutex can go: the loop gives
\* the mutex back, runs one of the tasks itself if there are any, ...
FreeDrain ==
    /\ Owner("drain", "help") /\ finished < sent /\ temp' = "free"
    /\ UNCHANGED <<actor, list, items, permits, terminated, listOwner, sent, finished, signals>>
    /\ UNCHANGED OfActors
FreeHelp ==
    /\ Owner("help", "acquire")
    /\ IF QueueCount = 0 THEN UNCHANGED <<items, permits, signals, finished>>
       ELSE /\ permits > 0 /\ permits' = permits - 1 /\ items' = Tail(items)
            /\ Terminate(1)
    /\ UNCHANGED <<actor, list, terminated, listOwner, temp, sent>> /\ UNCHANGED OfActors
\* ... waits for one to be finished, and takes the mutex again.
FreeAcquire ==
    /\ Owner("acquire", "relock") /\ signals > 0 /\ signals' = signals - 1
    /\ UNCHANGED <<actor, list, items, permits, terminated, listOwner, temp, sent, finished>>
    /\ UNCHANGED OfActors
FreeRelock ==
    /\ Owner("relock", "drain") /\ temp = "free" /\ temp' = "owner"
    /\ UNCHANGED <<actor, list, items, permits, terminated, listOwner, sent, finished, signals>>
    /\ UNCHANGED OfActors

\* Everything is destroyed, the queue with safeBlockingQueueFree.
FreeEnd ==
    /\ Owner("drain", "freed") /\ finished >= sent /\ temp' = "free"
    /\ UNCHANGED <<actor, list, items, permits, terminated, listOwner, sent, finished, signals>>
    /\ UNCHANGED OfActors

ActorStep(a) ==
    \/ ActorStart(a) \/ ActorLoop(a) \/ ActorPermit(a) \/ ActorDequeue(a) \/ ActorTermination(a)
    \/ ActorAfter(a) \/ ActorList(a) \/ ActorExit(a)
CallerStep(c) == InactiveThreadCount(c) \/ CreateTask(c) \/ ReleaseTask(c)
                 \/ CreateThread(c) \/ CreateThreadFails(c)
OwnerStep == \/ FreeClear \/ FreeLockList \/ FreeMark \/ FreeBusy \/ FreeListDone
             \/ FreeDrain \/ FreeHelp \/ FreeAcquire \/ FreeRelock \/ FreeEnd

PoolNext ==
    \/ \E a \in Actors : ActorStep(a) \/ UserTaskEnds(a)
    \/ \E c \in Callers : (\E try \in BOOLEAN : CanCreateThread(c, try)) \/ CallerStep(c)
    \/ FreeBegin \/ OwnerStep

-----------------------------------------------------------------------------
\* Once threadpoolFree has destroyed the pool, its queue and the mutex of the
\* termination tasks, no actor is at a place from which it uses one of them, nor
\* will it come to one: it runs a user's task or is on its way out with its
\* terminate flag set (Threadpool.c:79-105, 108, 366-374, 412-450).
FreedPoolUntouched ==
    /\ PoolTypeOK
    /\ owner = "freed" =>
        \A a \in Actors :
            /\ actor[a].pc \notin DataLocked /\ actor[a].task # "term"
            /\ actor[a].pc \in {"start", "loop", "run", "after"} => actor[a].terminate

\* threadpoolFree returns, also when the tasks of the users never do: the blocked
\* actors are woken, the two lock orders do not meet, and every termination task
\* is run by somebody (Threadpool.c:343-429).  With an entry in the list whose thread
\* could not be created everything may happen: its data is freed (Threadpool.c:217-238).
PoolFreeReturns == (owner = "clear") ~> (owner = "freed" \/ Dangling)
=============================================================================
