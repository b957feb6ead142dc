# Kinesis Video Streams PIC: verification project

TLA+ models of the platform independent code (PIC) of the Kinesis Video Streams
producer, the TLC configurations that check them and the TLAPS proofs about
them. The reference is the C code under `src/src/`; each definition that stands
for code is listed in `PROJECT.json` ("map") with the lines it models, each
place where the code can go wrong under "hazards", each disagreement between
the code and its own documentation under "findings". Lines are cited as
`File.c:line`.

1. The system
2. Modules
3. Runs: what is checked, with which bounds
4. Fairness
5. Known faults that the properties set aside
6. Proofs
7. What is only model-checked
8. What is not modelled
9. Plan

## 1. The system

| Component | Source | State | Modules |
|---|---|---|---|
| Content view | `view/src/ContentView.c` | ring of view items, head, tail, current | ContentView |
| Upload sessions | `client/src/Stream.c`, `StreamEvent.c` | upload handles, send pointer, EOS and metadata trackers, connection state | UploadSession |
| Stream and client state machines | `client/src/StreamState.c`, `StreamEvent.c`, `ClientState.c`, `ClientEvent.c`, `AuthIntegration.c`, `state/src/State.c` | state, retry count, last result, credentials | StateMachine, ClientMachine, StreamMachine, SessionSupply |
| Life of clients and streams, blocking calls | `client/src/Client.c`, `Stream.c` | stream table, shutdown semaphores, mutexes, condition variables | Lifecycle |
| putFrame front end, coordinator, metadata | `client/src/Stream.c`, `FrameOrderCoordinator.c` | a queue per track, metadata queue, generator | Ingest, FrameOrderCoordinator, MkvGenerator |
| ACK parser | `client/src/AckParser.c` | automaton, accumulator, upload handle | AckParser |
| Input validation and set-up | `client/src/InputValidator.c`, `Tags.c`, `Client.c`, `Stream.c` | infos as stored, memory layout | Setup |
| MKV generator, NAL units, track configuration | `mkvgen/src/*` | generator state, private data | MkvGenerator, MkvLayout, NalAdapter, SpsParser, TrackConfig |
| Heaps | `heap/src/*` | limit, size, allocations, AIV arena | Heap, AivHeap |
| Semaphore | `utils/src/Semaphore.c` | permit count, wait count, flags | Semaphore |
| Timer queue, thread pool, blocking queue | `utils/src/TimerQueue.c`, `Threadpool.c`, `ThreadsafeBlockingQueue.c` | timers and count; actors, tasks | TimerQueue, ThreadPool |
| Retry strategy | `utils/src/ExponentialBackoffRetryStrategy.c` | status, retry count, waits | Backoff |
| Collections | `utils/src/*List.c`, `HashTable.c`, `BitField.c`, ... | nodes, buckets, bytes | LinkedLists, Tables, Containers |
| Encodings and readers | `utils/src/Base64.c`, `Hex.c`, `String.c`, `duration/` | none | Encodings |
| Files, file logger | `utils/src/FileIo.c`, `Directory.c`, `FileLogger.c` | file contents, index | Files, FileLogger |
| Trace profiler, allocator hooks | `trace/`, `utils/src/InstrumentedAllocators.c`, `Client.c` | ring of traces; global hooks, totals | TraceProfiler, Allocators |
| Platform wrappers, version | `utils/src/*` | | not modelled |

How they interact. The producer thread packages a frame (MKV generator), stores
it in the heap and appends it to the content view; with several tracks the
frame order coordinator merges them first. The append may evict old frames,
which frees their allocations in a callback. Each PutMedia session is a
networking thread that is told of data by a callback and then pulls bytes with
`getStreamData` through the one send pointer of the stream. The service sends
ACKs on the connection, which the ACK parser cuts out of the chunks and which
trim the view; connection ends and error ACKs come as events and drive the
stream's state machine, over the client's, to a new session, whose first call
rolls the send pointer back and gives it a fresh header. A streaming token about
to expire starts a second session while the first one drains. Every API call
enters through the shutdown semaphores of client and stream and takes their
locks in a fixed order; a free drains the semaphores first.

What is hard. The send pointer exists twice (the view's `current` and the copy
`curViewItem`), and events of several threads move one or both. Whether a
rollback is owed is one flag per stream that every terminated session writes. A
stopped stream has no producer any more, so each session has to wake the next
one. The close must wait for the last byte and the last ACK and still happen.
The window is trimmed and evicted under the item that is being sent. The
semaphores behind the shutdown sequence race time-outs with releases and with
the free; locks are given up in the middle of putFrame and taken in opposite
orders by a thread pool's actors and its owner. Timer callbacks change the
count that bounds the loop they are called from. Allocator and collections are
linked structures where one stale pointer shows many calls later.

What makes each part correct:

- content view: the window owns exactly the live allocations, the item being
  read survives evictions, what is dropped leaves a decodable stream, a rollback
  replays the interrupted fragment;
- upload sessions: a session starts with a header, has one timecode base, sends
  forward without gaps; nothing is trimmed that may have to be sent again; a
  stopped stream sends everything, waits for its last ACK and closes;
- state machines: a state that waits has a call to wait for; PutMedia is called
  with an endpoint and a good credential; data gets a session unless the
  application was told of an error;
- life cycle: nothing freed is in use, calls that wait come back;
- ingest: a block follows the item that opens its cluster, tracks are merged in
  order, metadata is delivered once;
- semaphore: tickets balance, nobody sleeps beside a free permit, free returns;
- heaps: blocks are disjoint and belong to one client, accounts add up;
- executors: the queue never sleeps past a timer, a freed pool is not touched;
- the rest: texts cut anywhere, conversions, layouts, defaults, files and traces
  mean what their reference definitions say.

## 2. Modules

Names follow the source. Each module opens with a comment that names its files
and its abstractions. A component that can be composed has its own variable
tuple, `...Init` and `...Next`, so that an MC module can put several side by
side (MCExecutors, MCLibrary).

### ContentView

`RollingContentView` with its ring. Variables: `head`, `tail`, `current`,
`slots` (the items by slot, index modulo ring size), `policy`; and, for the
properties, `live` (the heap allocations that exist), `inFlight` (the handle a
session got from `contentViewGetNext` and has not replaced) and `callbacks` (the
remove callbacks of the last step). One action per exported operation that
changes the view, and one for each flag the client sets on items. Walks over the
window (eviction, rollback, roll forward) are sets and their minimum or maximum.
Frame offsets and sizes play no part in the control and are left out.

### Semaphore

One action per critical section. Mutexes and condition variables stand for what
they guarantee: a signal makes one waiter runnable, which goes on when it gets
the mutex. The unlocked checks of `shutdown` and `locked`, the late fix-up of a
refused release and the drain loop's load and wait are separate actions, because
other threads run between them. Spurious wake-ups, which the code says it cannot
handle, are left out. `Modes` gives the kinds explored (counting or signalling,
waited for with or without a time-out); `mode` is chosen at the start.

### UploadSession

One real-time stream between producer, sessions and service. Variables: the
window and send pointer of the view, the items with their flags (`key`, `eofr`,
`start` for ITEM_FLAG_STREAM_START, `base` for ITEM_FLAG_TIMECODE_BASE_START,
`received`, `persisted`, `skip`), `cur` (curViewItem), the EOS and metadata
trackers, `inUse` (the connection state), `up` (the upload handles in queue
order), `poked` (sessions that will call getStreamData), `call` (the call in
progress). `putFrame`, `stopStream` and the events are one action each; the loop
of `getStreamData` is one action per branch between `Enter` and `CleanUp`, with
the stream lock held throughout, so that a buffer may end after any part.

Abstractions: the view does not evict (ContentView has that); an item's index is
also its timestamp; an item is sent in one or two parts, EOS and metadata in
one; the state machine is where it stands on the way to a session (StreamMachine
has it in full). `sent`, `ended`, `received` and `persisted` of a handle record
what went over its connection; `Fragments` and `Complete` are the service
(external): it acknowledges the fragments of a session in order, once it has
them in full. Received and persisted ACKs always name a fragment; an error ACK may
have no time code, or one outside the view.

`Faults` says what may go wrong in a run: a connection is `lost`, its end is
reported `late` (the library has terminated the handle already) or for a deleted
handle (`unknown`, or `unknown_busy` while another session is under way), the
application asks for a `reset`, an error ACK comes on a running (`error`) or
stopped (`error_stopped`) stream, a `late_put` has passed putFrame's unlocked
check of `streamStopped` before the stop and gets the lock after it (`latePut`),
and a deleted handle asks for data once more (`late_call`, which Client.c:1497
makes a breach of the caller's contract).

### StateMachine, ClientMachine, StreamMachine, SessionSupply

`StateMachine` is `stepStateMachine` with the accept masks and retry limits, as
operators over a table. `ClientMachine` (get token, create device, ready, and
the certificate path) and `StreamMachine` (describe, create, tag, endpoint,
token, ready, put, streaming, stopped) have one action per step of the machine
and per result event. A state that makes a service call first steps the client
(`pc = "client"`) and makes the call when that returns (`pc = "call"`); `event`
says what the event does when the iteration returns. Results stand for their
classes in `serviceCallResultCheck`. `calls` counts the calls whose answers are
still to come; with the constant `LateAnswers` those from before a reset come
too. The client's machine belongs to all its streams: `another` stream may be
stepping it, and after a failed step `executeGetEndpoint` steps it once more
without the client's lock (`unlocked`, in two actions, so that others run
between the choice of the state and its execution). Callbacks of the application
fail too: a device without `deviceCertToTokenFn` (`convert`), `streamReadyFn`,
and `streamDataAvailableFn`, after which the handle of the new session is freed
and the application has not heard of it (`unheard`). `history` records what the
properties recall: among others whether an answer was taken for another call's
(`crossed`) or a termination cut a refresh short (`preempted`).

`SessionSupply` is the abstract specification: PutMedia is called only with an
endpoint and with a credential granted after its last refusal, unless excused.
`SuppliesSessions` instantiates it over StreamMachine with a refinement mapping.

### Lifecycle

A client and one of its streams under concurrent API calls. A call is a program
(`Program`): the permits and mutexes it takes one after the other, in the order
of the code, then its work. Variables: `th` (what each thread is in and where),
`lock`, `sem` (the two shutdown semaphores as held permits and closed flags),
`st` and `cl` (alive, shutdown, stopped, ...), `timedOut`. Blocking calls (a put
that waits for space, a synchronous stop, a synchronous create) sleep in a
condition variable with the locks the code gives up there. The timer thread is
the intermittent producer's callback.

### Ingest, FrameOrderCoordinator, MkvGenerator

`Ingest` has the threads that put things into the view: a producer, the timer of
an intermittent producer, a thread that stops the stream and one that adds
metadata. A put is cut where it opens its locks (waiting for space in OFFLINE
mode; metrics at a fragment start, Stream.c:1020). Each of its steps may fail
(token expiration, the iteration of the machine, packaging, the allocation), and
the view may be emptied under it (`EmptyView`), by an ACK or by the drop that
makes room for it. putEventMetadata's look at the events already queued comes
before the lock, as in the code. `FrameOrderCoordinator` has the comparators and
the queues, `MkvGenerator` the state machine of clusters and time codes.
Fragment metadata are `oneShot`, `persistent` or `event` entries with the order
they were added in.

### Heap, AivHeap

`Heap` is the common accounting and the front end of all heaps: every operator
maps a heap to the set of outcomes a call may have, as the system may refuse
memory, video memory or a file at any moment (`MaxFaults`): an allocation, its
lock or mapping, the length, header, reading, writing or removal of a file. Such
a failure may leave a new allocation behind or a file with an old header, as the
clean-up of the code does. `AivHeap` is the allocator on one arena: blocks named
by the offset of their header, a free list, split, coalesce and resize. Sizes
are scaled down to a small unit.

### TimerQueue, ThreadPool (composed in MCExecutors)

`TimerQueue`: the array of timers, `activeTimerCount` (with its wrap-around,
`CountRange`), the executor with its reentrant lock, callbacks that add, cancel,
kick and update, shutdown; timerQueueAddTimer looks at the shutdown flag before it
locks, so a timer may be added behind it. `ThreadPool`: actors, the queue as items
and permits, `TryAdd`, `Push` and `Free` with their mutexes. An actor waits with
its data mutex in the states `DataLocked` and holds it for a moment in those of
`BrieflyLocked`, in either of which a try-lock may be refused. A thread may fail
to be created after its data was listed (`CreateThreadFails`).

### The library (composed in MCLibrary)

Components that keep their state to themselves; a behaviour exercises the one
that `part` names.

| Module | Models | Property |
|---|---|---|
| AckParser | the automaton over a small alphabet, chunks of two sessions cut anywhere | `AcksArriveWhole` |
| Backoff | configuration, waits, jitter, exhaustion and idle reset of the strategy the machines of a client share | `BacksOff` |
| NalAdapter | Annex-B and AVCC conversions, over bytes | `NalsSurvive` |
| SpsParser, TrackConfig | H.264 and H.265 parameter sets bit by bit, AAC and PCM headers, against the reference encoder in MCLibrary | `TrackConfigRecovered` |
| MkvLayout | sizes and nesting of what the generator writes, tags and headers put in and taken off later | `LayoutAgrees` |
| Encodings | Base64, hex, numbers, trimming, search, durations, byte order | `EncodingsExact` |
| Setup | checks, versions, sentinels, defaults, memory behind the objects, packager made again | `SetupUsable` |
| LinkedLists, Tables, Containers | lists, queues, hash table and bit field pointer by pointer; each operation, with its arguments, is tied to the action of Containers, the abstract specification, that it stands for | `CollectionsRefine` |
| Files, FileLogger | file and directory helpers; the logger's buffers, numbered files and index with crashes inside a flush | `FilesKept` |
| TraceProfiler | the ring of traces | `TracesTold` |
| Allocators | hooks, instrumented allocators, content store | `AllocationsAccounted` |

### Proof modules

`ContentViewProofs`, `StreamMachineProofs`, `ExecutorProofs`, `LifecycleProofs`,
`HeapProofs`, `IngestProofs` and `LibraryProofs` (for Semaphore, TraceProfiler
and Allocators); `Sums` has the lemmas about sums over finite sets that heap and
allocators share. Section 6.

## 3. Runs: what is checked, with which bounds

| Run | Instance | What it shows |
|---|---|---|
| `view` | 3 slots, 4 frames, both overflow policies, gets, trims, seeks, rollbacks, marks | the window owns exactly the live handles, the streaming item is never evicted, the ACK search finds what is there, each removal frees a live handle once, drops and rollbacks resume where a fragment starts |
| `sem` | 3 threads, 1 drainer, 2 permits, 2 operations each, a free; a counting semaphore without and a signalling one with time-outs | tickets balance in every interleaving; without time-outs nobody sleeps beside a free permit and free returns |
| `upload_drops` | 3 frames, 3 sessions, no rotation; at any byte 2 faults out of a lost connection (reported while its handle is active), a reset by the application and an error ACK on a running stream | each session starts with a header and sends forward without gaps; the close comes after the last byte and ACK |
| `upload_rotation` | 4 frames, 2 sessions, relative fragment times, 1 token rotation, and 1 end reported for a deleted handle with no session under way | no session crosses a timecode base; no ACK trims what is being sent or still awaited |
| `upload_drain` | 3 frames, 2 sessions, with and without left-over metadata, 1 end reported for a deleted handle with no session under way, fairness | a stopped stream that had a frame is closed |
| `machine` | 5 configurations of application and device (one with a certificate and no callback to make a token of it), 3 failures anywhere, 1 retry, 4 calls, 3 handles, fairness | no wait without a call, PutMedia only with endpoint and credential (refinement), data gets a session |
| `heap` | 4 heaps (AIV, system, AIV with video memory, system with files), 3 allocations of 3 sizes, 2 resizes, 1 failing call of the system at any place (memory, video memory, file) | the arena is a tiling with a consistent free list, accounts match blocks, a call touches nobody else's block |
| `executors` | 3 timers, delays and periods 0 and 1, 3 calls by threads or callbacks, adds behind the shutdown; 3 actors, 1 to 2 threads, 2 tasks, 2 concurrent callers, threads that cannot be created, a free at any moment | the executor never sleeps past a timer and serves every due one; the pool is not touched after its free, and the free returns although tasks need not |
| `lifecycle` | 3 threads with put, stop and free; 2 threads with every call; 2 threads with every call, the coordinator, the timer and time-outs | nothing freed is in use unless a drain timed out, calls that wait come back |
| `ingest` | 8 modes: the five merging orders over two tracks, metadata with and without OFFLINE waits, clusters by duration; a view that is emptied, in three of them; 2 puts at a time, 1 failure, 4 metadata | blocks follow their cluster's item, the merge is accepted and in order, a full queue releases, metadata is delivered once |
| `library` | 15 parts | the properties of the table in section 2 |
| `ack_several` | two ACKs in one chunk | violated: the second ACK goes to no session |

Why these bounds. A ring of three slots wraps, and has room for a streaming item
between two others and for fragments of one and of two frames. Three threads on
two permits have a holder, a waiter and a releaser at once. In the upload runs
three frames allow two fragments and an end of fragment marker, two faults and
three sessions a fault during the recovery of another; one rotation is what the
code allows before the first session has ended; `WaitForPersistedAck` is the
mode the client uses with fragment ACKs. In `machine` three failures reach every
state twice, once by each kind of failure; behaviours in which an answer meets
the wrong state (the `crossed` exception) need about five: they were explored
with larger bounds and are covered for any bound by the theorem about the
refinement. Four blocks of an arena of sixteen units are split, merged to either
side and handed out whole. One arming, one cancel and one kick per timer are
enough to make any one of them the earliest. Two callers at the thread pool give
every order of `TryAdd`'s check and the push behind it; three actors let a
shrinking pool and its owner remove one at once. Three threads in `lifecycle`
are a sleeper, the one that wakes it and the one that frees. In `library`, ACK
texts have every key in every order, nesting of two levels, cut at every
symbol; 20 ticks of time are more than the idle reset of the strategy; five
pieces of a frame hold three NAL units with start codes of both lengths; a ring
of two traces is lapped; four bytes are one more than a Base64 group;
word widths are parameters so that small numbers meet their limits.

Deadlock checking is off throughout because operations, frames, sessions and
budgets are bounded: every behaviour stops. What must not get stuck is stated
as a liveness property instead.

## 4. Fairness

- `Semaphore`: a runnable thread goes on, and the spin of free ends (it has a
  time limit). Nobody has to time out or to start anything.
- `UploadSession` (`FairSpec`): a session told of data calls `getStreamData`
  (the contract of the streamDataAvailable callback), a call goes on until it
  returns, the machine's calls are answered, the service acknowledges the
  fragments it has in full. Nothing is assumed of the producer or the connection.
- `StreamMachine`: an iteration goes on, calls are answered (with any result),
  the producer keeps putting frames and sessions end or send.
- `MCExecutors`: the executor is a thread and callbacks return. The pool's
  threads run; user tasks need not return. An actor that waits for the list
  mutex gets it (strong fairness): the owner sleeps 5 ms between its rounds.
- `Lifecycle`: threads run, and a mutex is given to a thread that asks often
  enough (strong fairness of a thread's step). Calls begin, ACKs come and waits
  time out without fairness.

## 5. Known faults that the properties set aside

A property that the code breaks in one way only is stated with that way
excepted, by a constant or by a history variable, so that the rest of its
behaviour is still checked. `PROJECT.json` ("findings") has each of them at its
line.

| Exception | Fault |
|---|---|
| `StartsInOrder`, `EndsInOrder` (view) | the bisection goes by the starts of items: one that outlasts a later one, or presentation time stamps out of order, may be missed (ContentView.c:872) |
| rollback from inside the window (view) | from the head the walk reads a stale slot (ContentView.c:287) |
| `ShortFrames` (view proofs) | a single frame as long as the buffer breaks drop-tail (ContentView.c:632) |
| `~Timeouts` (sem) | a timed-out acquire leaves without waking free, and may spend a release's signal (Semaphore.c:269) |
| `Faults` without `late`, `unknown_busy`, `late_put`, `error_stopped`; no rotation, or one without lost connections (upload) | a late report cancels the rollback another session owes (StreamEvent.c:728), and one for a deleted handle brings a header into the middle of the session that is running (StreamEvent.c:712); a put that has passed the check of `streamStopped` is appended behind the close (Stream.c:778); an error ACK on a stopped stream parked on a base sends older items behind it (StreamEvent.c:786); a rotation and an early last ACK leave nobody to wake the next session (Stream.c:1560); with two rotations the EOS of one session is taken off by the next (Stream.c:1339) |
| `history.refused` | a refused PutMedia leaves streamState at PUT_STREAM, and the next state takes the call for made (StreamState.c:781) |
| `history.crossed` | accept masks list predecessor states, so an answer can be taken for another call's (StreamEvent.c:192, 372, 561) |
| `history.unheard` | putStreamResult frees a handle that is already in the queue when the data-available callback fails in the iteration it starts (StreamState.c:396, StreamEvent.c:561) |
| `history.preempted` | a time-out of another session while a refused token is being replaced, with authentication failed, puts with the old token (StreamEvent.c:796) |
| `LateAnswers = FALSE` (machine) | answers from before resetStream are taken for new ones; the refinement is proved for both values |
| resizes (heap) | resized or spilled allocations are taken off the account with another size than was added (HybridHeap.c:581, SystemHeap.c:232) |
| failed calls (heap) | a resize that fails after it has made the new allocation leaves it behind (HybridHeap.c:466) |
| `SelfCancel = FALSE` (executors) | a callback that cancels its own timer is counted off twice (TimerQueue.c:596) |
| kicked timers before the first lock | the signal of a kick is lost (TimerQueue.c:330) |
| `Dangling` (executors) | the entry of a thread that could not be created stays in the list, and the free waits for it or touches it (Threadpool.c:217) |
| `timedOut` (lifecycle) | the drain's time-out frees a stream that is in use (Stream.c:667) |
| stopSync against freeClient | the two take permit and list lock in opposite orders (Client.c:666) |
| metrics window, OFFLINE (ingest) | locks given up at a fragment start let a stop put blocks before their cluster's item (Stream.c:1020); metadata queued during a wait does not fit (Stream.c:933) |
| `FRAME_ORDERING_MODE_MULTI_TRACK_AV` (`MergedInOrder`) | the comparator leaves before it compares: the last track goes first, and the order between the tracks is not claimed (FrameOrderCoordinator.c:105) |
| three tracks, frames one time code apart (`MergedInOrder`) | the compensation of a tie moves the very time stamp the PTS modes order by, and not the dts the view checks (FrameOrderCoordinator.c:147) |
| `mixed`, nested chunks, second ACK in a chunk | level and handle of the parser (AckParser.c:36, 55, 282) |
| scaling lists, emulation prevention, sub-layers | SpsParser.c:39, 267, 436 |
| `LateStops = FALSE` (traces) | a stop that comes after the ring has lapped the trace (TraceProfiler.c:358) |
| `Careless = {}` (allocators) | a refused reset zeroes the total; a failed creation leaves the hooks; a client freed below the instrumented allocators takes their hooks away (InstrumentedAllocators.c:79, Client.c:1715, 1716) |
| set-up | timeouts compared before they are defaulted, replay cut to the caller's duration, fields read behind an older version (InputValidator.c:341, Stream.c:193, 169) |

Met while modelling, without a property of their own: after a rotation, a stop
pokes the awaiting session, whose clean-up terminates the streaming one before
its EOS; a stop when nothing was ever put leaves an open session unclosed; the
closed callback may be called twice; `received` marks in front of the send
pointer after a rollback to a dead host make a second rollback skip a fragment;
the transient increment of a refused release lets another acquirer in; a client
with a certificate never refreshes an expired token; a logger that is freed
while a call is past its unlocked look at it ends the process (FileLogger.c:70,
365; `LateCrash` of the model); the reset APIs take no
permit (Client.c:1850-1882) and the coordinator flag of a client is never reset
(Client.c:85); a failed EoFR put leaves its tag queued (Stream.c:853);
putEventMetadata looks for duplicates before it locks (Stream.c:1931); the
five-byte start code SpsParser.c:28 accepts is refused by NalAdapter.c:38;
durations accept a repeated designator and a bare "P"; a lone sign is read past
its end (String.c:95).

## 6. Proofs

TLAPS proves the following for every value of the constants that satisfies the
assumptions named in the modules; `PROJECT.json` ("theorems") lists them.

| Module | Theorem | States |
|---|---|---|
| ContentViewProofs | `ViewSafety` | `ViewInv`, which implies `HandlesOwnedByWindow` and `StreamingItemRetained` |
| | `ViewRetainsStreamingItem` | `Spec => []StreamingItemRetained` |
| | `ViewFreesOnlyLiveHandles` | the action property `FreesOnlyLiveHandles` |
| | `ViewResumesAtFragmentStart` | the action property `ResumesAtFragmentStart` |
| | `ViewSearchByTimestamp` | `Spec => []SearchByTimestamp` |
| StreamMachineProofs | `SessionsSupplied` | the refinement `Spec => Supply!Spec` (`SuppliesSessions`) |
| | `AnswersAwaited` | `Spec => []WaitsForAnAnswer` |
| ExecutorProofs | `PoolSafety` | `FreedPoolUntouched` |
| | `TimersSafety` | `SleepsUntilEarliest` |
| LifecycleProofs | `LifecycleSafety` | `Spec => []FreedUnused` |
| HeapProofs | `HeapSafety` | `Spec => []ArenaWellFormed` |
| | `HeapIsolation` | the action property `OthersUntouched` |
| | `HeapAccounts` | `Spec => []AccountMatchesBlocks` |
| IngestProofs | `BlocksFollow` | `Spec => []BlockHasItsCluster` |
| | `CoordinatorHoldsNothing` | `Spec => []CoordinatorReleases` |
| | `MergeOrdered` | `Spec => []MergedInOrder` |
| LibraryProofs | `SemTicketsBalance` | `Spec => []TicketsBalance` |
| | `SemNoSleeper` | `Spec => []NoSleeperBesideFreePermit` |
| | `TracesAreTold` | `TraceSpec => []TracesTold` |
| | `AllocationsAreAccounted` | `AllocSpec => []AllocationsAccounted` |

Each proof has the same shape: an inductive invariant of named parts, a lemma
that `Init` establishes it, one lemma per action (or per outcome that several
actions share), a lemma over the disjuncts of `Next` and the stutter, a lemma
that the invariant implies the property, and a temporal step.

**Content view.** `ViewInv` is `GoodView` of the fields: `tail <= current <= head`
and at most a ring of items between them, each slot of the window holds the item
of its index, handles are distinct and live exactly while in the window, and the
item in flight is the one before `current`. It is a predicate of explicit values
because an append evicts first: `TrimPreserves` and `TrimTailPreserves` lead to
the view between eviction and append, `AppendPreserves` from there. The walks of
the code (evict until a fragment start, roll back, roll forward) are the minimum
or maximum of a set of indices, so the proofs rest on the least-element principle
(`LeastNatural`). The theorems assume `ShortFrames`, that no single frame is as
long as a drop-tail buffer; without it they are false (ContentView.c:632,
section 5). The search needs one part more, `TimesInOrder`: decoding time stamps
do not decrease over the window, by the guard of an append, and an item
prepended before the tail keeps its place in that order. The bisection is a
recursive function of the interval; that it finds a covering item if there is
one is shown by the least width at which it would not.

**Semaphore.** `SemInv` is `TypeOK`, who can be where in which mode (`Places`),
what happened before a free (`FreeBegan`), the balance of tickets (`Ledger`), the
bound on holders of a counting semaphore (`Holders`) and `Sleepers`: while no
time-outs exist, each sleeper has a ticket of its own below zero, so that a
permit is free only when nobody sleeps. The ledger counts threads by program
point; `CountSame` and `CountMove` say how one thread's step changes a count.

**State machines.** `SessionSupply` is implemented through the mapping of
`Supply`. The strengthening `SupplyInv` says where the machine can be at which
program point (`Orderly`), that it has been ready before a PUT (`ReadyFirst`),
and in which states an endpoint and a good credential are known
(`EndpointKnown`, `CredentialGood`). For `AnswersAwaited`, `TypesInv` adds the
types and bounds that the arithmetic of retry counters and the queue of handles
need, and `AnswerInv` says, by program point, which call is outstanding. The
argument: a state accepts its own answers, so an awaited answer that is refused
makes the event return an error; an answer met in another state sets `crossed`;
only a PutMedia accepted in PUT_STREAM steps to STREAMING, and it brings a new
handle (`Putting`, `Stepping`); STREAMING is left only by a stop (`Resting`).
Both theorems hold for either value of `LateAnswers`.

**Executors.** `PoolInv`: the owner marks only actors whose mutex it could take
(`Told`), a living actor is in the list or told to end (`Known`), what each phase
of the free has achieved (`Phases`), and that the termination tasks sent are
finished, running or in the queue (`TasksLedger`), which is why none is left
when the queue is destroyed. `TimerInv`: `activeTimerCount` is the number of
timers, plus those the executor has taken off during the scan it is in
(`CountKept`); outside a scan no timer but a kicked one is earlier than
`invokeTime`, and the executor that waits does so until `invokeTime`
(`WakesInTime`). It assumes `~SelfCancel` (section 5).

**Life cycle.** `LifecycleInv`: a call past its first acquire holds a permit of
the client, a blocking one also that of the stream, and no thread has a lock
before the permit (`Entered`); a free goes on under the list lock (`Shutdowns`),
so that two shutdowns exclude each other; a shutdown leaves a closed and empty
semaphore behind (`Drained`), and a freed client has no stream, holder or timer
(`ClientGone`). What a shutdown leaves behind is conditional on no drain having
timed out; the types, roles and order of locks are not.

**Heap.** `HeapInv` is the well-formedness of an arena (`Arena`), types of the
accounts and tables, and that each handle of the client names a live allocation
of at least its size (`Serves`). `Arena` says that the blocks tile the region
from its start to its limit (`Tiled`: each block begins where another ends),
that no free block ends where another begins (`Apart`) and that the chain lists
the free blocks, each once (`Lists`). The two properties alone are not
inductive: a split needs the tiling to know that its remainder overlaps nothing,
a merge needs `Apart` to know that one neighbour on each side is enough, and a
free needs `Serves` to be given a block that is there. One lemma per operation
of AivHeap.c (take, cut, split, merge, chain, resize in place) says which blocks
it changes, and `Spares` that it leaves every other allocated block alone, from
which `HeapIsolation` follows for the calls that move an allocation too. The
alignment must not exceed the smallest free payload by more than one
(`BlockAssumption`): a larger one would leave an empty block behind a split.

`HeapAccounts` adds `AccountInv`. `Books` is the equation of the property with the
folds written as sums, and `Balanced` what it needs beside it: each allocation
has the size the client asked for, a file goes by its own number (`Agrees`), and
the account of a hybrid heap holds at least the sum of what the client's handles
would take off it (`Claims`), which is why no free is refused. It is at least and
not exactly that sum because a refused spill keeps its place in the account.
`Exact`, that what is allocated is what the client holds, is carried while no
call has failed. That the blocks of an AIV heap cannot take more than the limit,
although the account is corrected after it was checked, follows from the tiling
(`Packing`: the blocks below an address fit below it, shown by the least address
at which they would not).

**Ingest.** Three invariants, each resting on the one before. `BlockInv` says who
holds what: the stream's lock is held by one thread and exactly in the stages
the code holds it, a thread that puts has the coordinator's lock alone except in
the metrics window, and without a coordinator it is the put lock that keeps
producer and timer apart (`CallInv`). With that, `ClusterInv` can say that the
generator counts from the latest cluster packaged, that this one is the open one
of the view unless it is on its way in some thread's hands, and that an item
in a thread's hands fits where it will go. `ReleaseInv` is about the queues: the
loop of a put ends with some track empty, or was broken off. The scan over the
tracks is a recursive function; that it returns a track with a frame and changes
at most the `pts` of heads is shown by the least index at which it would not.
`MergeInv` adds the order, with one or two tracks: every queue is sorted by two time codes or more,
a frame that has been moved is the head of the second track and the first track
has only frames two time codes after it (`FrameInOrder`), nothing queued or to
come lies below what the generator and the view took last (`HeadsBelow`), and the
frame the producer carries lies between the two (`Carries`). The property alone
says nothing of the queues, and sorted queues alone are not enough: a frame moved
by the comparator and not released is compared again, and only the gap of two
keeps it from being moved twice. `MergeInv` was checked by TLC over 16 modes
before it was proved. `IngestAssumption` asks for at least one track of known
types and natural-number bounds.

**Traces.** `TraceInv` says where a trace is: the `i`-th was written to place
`(i - 1) % length` of the ring and is still there while fewer than `length` came
after it. Lemmas about `%` say that the next place is the one of the next trace
and that two traces less than a lap apart have different ones. It assumes
`~LateStops` (section 5).

**Allocators.** `AllocInv` says in which of five arrangements the global hooks
can be (`Layers`: the plain ones, the instrumented ones, a client's content store
on the plain ones, and either of the two on top of the other) and that a counted
block was made while the instrumented allocators were set that still are
(`Whence`). The totals are folds over sets: that such a sum does not depend on
the order in which elements are taken, and changes by what the set gains or
loses, is shown by the least cardinality at which it would fail. It assumes
`Careless = {}` (section 5).

The assumptions are those of the modules: finite sets of threads where the code
counts them, natural-number bounds, disjoint identities. `ExecutorProofs` takes
`CountRange > MaxTimers` from TimerQueue, which is the size of the code's
counter against the capacity it checks at creation.

## 7. What is only model-checked

- Liveness (`FreeReturnsWithoutRace`, `StopDrains`, `DataGetsSession`,
  `DueTimerServed`, `PoolFreeReturns`, `CallsEnd`): fairness and ENABLED are
  beyond the prover.
- The upload sessions: the known faults of section 5 break the properties when
  the numbers of errors and sessions are unbounded, so that a theorem would have
  to carry the runs' fault budgets as hypotheses.
- The properties of MCLibrary whose models recurse over bytes or bits
  (`AcksArriveWhole`, `NalsSurvive`, `LayoutAgrees`, `TrackConfigRecovered`,
  `EncodingsExact`, `CollectionsRefine`): induction over data. `FilesKept`:
  Files and FileLogger use RECURSIVE operators.
- `BacksOff` (waits are powers of the retry count), `SetupUsable` (folds and
  searches over the caller's sequences) and `MetadataDeliveredOnce` (filters of
  the metadata queue): the property is about the result of a recursion over data.

## 8. What is not modelled

The platform wrappers (threads, mutexes, time, dlopen), the version functions,
getters that only copy a field, and the text of log messages. Of what is
modelled: byte values of an MKV element that nothing depends on, CRC-32, the
rounding of DOUBLE throughput and ratios (they feed metrics only), the metrics
structures themselves, and staleness notifications. UploadSession leaves out
OFFLINE mode, which Ingest and Lifecycle have, and evictions, which ContentView
has. A termination event for an upload handle the stream does not know is left out of
StreamMachine; UploadSession has it. `kinesisVideoStreamResetStream` is in
StreamMachine only. ThreadPool leaves out a release that the semaphore refuses
with 2^30 tasks queued, which frees a task that is still in the queue
(ThreadsafeBlockingQueue.c:229), failing allocations, and a threadpoolCreate
whose own threads fail.

## 9. Plan

What the proofs do not reach yet, in the order in which it is worth doing:

1. `MetadataDeliveredOnce`, from `ClusterInv`: an invariant about the order of the
   metadata queue in place of the filters that state the property.
2. `OneHeaderPerSession` and `SessionContiguous` under the hypothesis of one error
   or late report, which the exceptions of section 5 make necessary.
