------------------------------ MODULE TimerQueue ------------------------------
(***************************************************************************)
(* The timer queue of utils/src/TimerQueue.c: a fixed array of timers, one *)
(* executor thread that runs the callbacks, and an API that any thread and *)
(* the callbacks themselves may use.  The executor holds the (reentrant)   *)
(* executor lock at all times except while it waits on its condition       *)
(* variable, so an API call of another thread happens only in a state of   *)
(* LockFree, and an API call of a callback only while that callback runs.  *)
(***************************************************************************)
EXTENDS Integers, FiniteSets, FiniteSetsExt

CONSTANTS MaxTimers,    \* maxTimerCount
          TimerData,    \* the custom data values, which identify the callbacks
          Delays,       \* start delays
          Periods,      \* periods; 0 is TIMER_QUEUE_SINGLE_INVOCATION_PERIOD
          MaxNow,       \* bound of the clock
          MaxOps,       \* bound of the number of API calls
          CountRange,   \* the counter is unsigned: its values are 0 .. CountRange - 1
          SelfCancel    \* whether a callback may cancel its own timer

ASSUME TimerAssumption ==
    /\ MaxTimers \in Nat \ {0} /\ MaxNow \in Nat /\ MaxOps \in Nat
    /\ CountRange \in Nat /\ CountRange > MaxTimers
    /\ Delays \subseteq Nat /\ Periods \subseteq Nat /\ IsFiniteSet(Delays \cup Periods)
    /\ SelfCancel \in BOOLEAN

Slots == 0 .. MaxTimers - 1
NoData == "none"        \* timerCallbackFn = NULL
ASSUME DataAssumption == NoData \notin TimerData
SINGLE == 0
Never == MaxNow + Max(Delays \cup Periods \cup {0}) + 1     \* MAX_UINT64

VARIABLES
    slots,      \* [Slots -> [fn, at, period]]
    active,     \* activeTimerCount
    next,       \* invokeTime of the queue
    now,        \* GETTIME
    exec,       \* the executor: [pc, i, index, cur, removed, until]
    shut,       \* the owner: "open", "shutdown" (flag set, waiting), "done"
    upd,        \* an UpdateTimerPeriod between its check and its lock
    ops,        \* number of API calls so far
    kicked      \* history: timers kicked since the executor last looked at all of them

timerVars == <<slots, active, next, now, exec, shut, upd, ops, kicked>>

NoUpdate == [slot |-> -1, period |-> 0]
Set(sl) == {s \in Slots : sl[s].fn # NoData}

TimerTypeOK ==
    /\ slots \in [Slots -> [fn : TimerData \cup {NoData}, at : 0 .. Never, period : Nat]]
    /\ active \in 0 .. CountRange - 1 /\ next \in 0 .. Never /\ now \in 0 .. MaxNow
    /\ exec.pc \in {"new", "top", "wait", "awake", "scan", "call", "exit", "done", "killed"}
    /\ shut \in {"open", "shutdown", "done"}

TimerInit ==
    /\ slots = [s \in Slots |-> [fn |-> NoData, at |-> 0, period |-> 0]]
    /\ active = 0 /\ next = Never /\ now = 0
    /\ exec = [pc |-> "new", i |-> 0, index |-> 0, cur |-> 0, removed |-> 0, until |-> 0]
    /\ shut = "open" /\ upd = NoUpdate /\ ops = 0 /\ kicked = {}

\* The first n set slots in the order of the array: what a loop bounded by the
\* active count gets to see.
FirstSet(sl, n) == {s \in Set(sl) : Cardinality({r \in Set(sl) : r < s}) < n}

\* Mutant: the loop misses the last active timer.
EvaluateNextInvocationShort(sl, n) ==
    Min({sl[s].at : s \in FirstSet(sl, n - 1)} \cup {Never})

\* timerQueueEvaluateNextInvocation
EvaluateNextInvocation(sl, n) == Min({sl[s].at : s \in FirstSet(sl, n)} \cup {Never})

\* CVAR_SIGNAL of the executor's condition variable: lost unless it waits.
Signalled(e) == IF e.pc = "wait" THEN [e EXCEPT !.pc = "awake"] ELSE e

LockFree == {"new", "wait", "awake", "exit", "done"}
\* Another thread gets the lock, or the running callback has it already.
MayCall == /\ exec.pc \in LockFree \cup {"call"} /\ ops < MaxOps /\ shut # "done"
           /\ ops' = ops + 1

\* Mutant: a timer that is due before the next planned wake-up does not signal.
AddTimerSilent(d, start, p) ==
    /\ MayCall /\ active < MaxTimers
    /\ LET s == Min(Slots \ Set(slots))  t == now + start IN
       /\ slots' = [slots EXCEPT ![s] = [fn |-> d, at |-> t, period |-> p]]
       /\ active' = active + 1
       /\ kicked' = kicked \ {s}
       /\ next' = IF t < next THEN t ELSE next
       /\ exec' = exec
    /\ UNCHANGED <<now, shut, upd>>

\* timerQueueAddTimer.  It reads the flag of the shutdown before it takes the lock, so
\* the timer may still be added while the owner waits for the executor.
AddTimer(d, start, p) ==
    /\ MayCall /\ active < MaxTimers
    /\ LET s == Min(Slots \ Set(slots))  t == now + start IN
       /\ slots' = [slots EXCEPT ![s] = [fn |-> d, at |-> t, period |-> p]]
       /\ active' = active + 1
       /\ kicked' = kicked \ {s}
       /\ next' = IF t < next THEN t ELSE next
       /\ exec' = IF t < next THEN Signalled(exec) ELSE exec
    /\ UNCHANGED <<now, shut, upd>>

\* What the cancellation of the timers S (all of them set) leaves: the planned
\* wake-up is computed anew when it was the one of a cancelled timer.
Cancelled(S) ==
    LET sl == [s \in Slots |-> IF s \in S THEN [slots[s] EXCEPT !.fn = NoData] ELSE slots[s]]
        n == (active - Cardinality(S)) % CountRange
        hit == \E s \in S : slots[s].at = next
    IN /\ slots' = sl /\ active' = n
       /\ next' = IF hit THEN EvaluateNextInvocation(sl, n) ELSE next
       /\ exec' = IF hit THEN Signalled(exec) ELSE exec

OwnTimer(S) == exec.pc = "call" /\ exec.i \in S

\* timerQueueCancelTimer
CancelTimer(s) ==
    /\ MayCall /\ active # 0 /\ s \in Set(slots) /\ (OwnTimer({s}) => SelfCancel)
    /\ Cancelled({s})
    /\ UNCHANGED <<now, shut, upd, kicked>>

\* The answers of timerQueueGetTimerCount and timerQueueGetTimersWithCustomData.
GetTimerCount == active
GetTimersWithCustomData(d) == {s \in Slots : slots[s].fn = d}

\* timerQueueCancelTimersWithCustomData: the cancellations one after the other
\* under one lock.  Each compares with the wake-up the one before has computed,
\* so the result is that of the set as a whole.
CancelTimersWithCustomData(d) ==
    LET S == GetTimersWithCustomData(d) IN
    /\ MayCall /\ Cardinality(S) > 1 /\ active >= Cardinality(S)
    /\ (OwnTimer(S) => SelfCancel)
    /\ Cancelled(S)
    /\ UNCHANGED <<now, shut, upd, kicked>>

\* timerQueueCancelAllTimers
CancelAllTimers ==
    LET S == Set(slots) IN
    /\ MayCall /\ Cardinality(S) > 1 /\ active >= Cardinality(S)
    /\ (OwnTimer(S) => SelfCancel)
    /\ Cancelled(S)
    /\ UNCHANGED <<now, shut, upd, kicked>>

\* The new period and time of a timer, and the planned wake-up computed anew.
PeriodUpdated(s, p) ==
    /\ slots' = [slots EXCEPT ![s] = [@ EXCEPT !.period = p, !.at = now + p]]
    /\ next' = EvaluateNextInvocation(slots', active)
    /\ exec' = Signalled(exec)
    /\ kicked' = kicked \ {s}

\* timerQueueUpdateTimerPeriod by another thread, the check: made before the lock is
\* taken, whatever the executor does meanwhile.
UpdateTimerPeriodCheck(s, d, p) ==
    /\ upd = NoUpdate /\ ops < MaxOps /\ shut # "done"
    /\ active # 0 /\ slots[s].fn = d
    /\ upd' = [slot |-> s, period |-> p] /\ ops' = ops + 1
    /\ UNCHANGED <<slots, active, next, now, exec, shut, kicked>>

\* timerQueueUpdateTimerPeriod, under the lock.
UpdateTimerPeriod ==
    /\ upd # NoUpdate /\ exec.pc \in LockFree /\ shut # "done"
    /\ PeriodUpdated(upd.slot, upd.period) /\ upd' = NoUpdate
    /\ UNCHANGED <<active, now, shut, ops>>

\* timerQueueUpdateTimerPeriod by a callback: its thread has the lock already.
UpdateFromCallback(s, d, p) ==
    /\ exec.pc = "call" /\ MayCall /\ active # 0 /\ slots[s].fn = d
    /\ PeriodUpdated(s, p)
    /\ UNCHANGED <<active, now, shut, upd>>

\* timerQueueKick: the planned wake-up of the queue is left alone.
Kick(s) ==
    /\ MayCall
    /\ slots' = [slots EXCEPT ![s].at = 0]
    /\ exec' = Signalled(exec)
    /\ kicked' = kicked \cup {s}
    /\ UNCHANGED <<active, next, now, shut, upd>>

\* timerQueueShutdown: the flag, the signal, and the wait for the executor.
TimerShutdown ==
    /\ shut = "open"
    /\ shut' = "shutdown" /\ exec' = Signalled(exec)
    /\ UNCHANGED <<slots, active, next, now, upd, ops, kicked>>
TimerShutdownReturns ==
    /\ shut = "shutdown" /\ exec.pc = "done" /\ upd = NoUpdate
    /\ shut' = "done"
    /\ UNCHANGED <<slots, active, next, now, exec, upd, ops, kicked>>
\* TIMER_QUEUE_SHUTDOWN_TIMEOUT passes while a callback does not return.
TimerShutdownTimeout ==
    /\ shut = "shutdown" /\ exec.pc = "call"
    /\ shut' = "done" /\ exec' = [exec EXCEPT !.pc = "killed"]
    /\ UNCHANGED <<slots, active, next, now, upd, ops, kicked>>

-----------------------------------------------------------------------------
(* timerQueueExecutor *)
Go(pc) == exec' = [exec EXCEPT !.pc = pc]
Rest == UNCHANGED <<slots, active, next, now, shut, upd, ops, kicked>>

\* The executor takes its lock for the first time; API calls may come before.
ExecStart == exec.pc = "new" /\ Go("top") /\ Rest

\* The head of the main loop: leave, wait, or go on at once.
ExecTop ==
    /\ exec.pc = "top"
    /\ CASE shut # "open" -> Go("exit")
         [] shut = "open" /\ now < next -> exec' = [exec EXCEPT !.pc = "wait", !.until = next]
         [] OTHER -> Go("awake")
    /\ Rest

ExecTimeout == exec.pc = "wait" /\ now >= exec.until /\ Go("awake") /\ Rest

\* Awake, with the lock: start to look at the timers, or go back to the head.
ExecAwake ==
    /\ exec.pc = "awake"
    /\ IF shut = "open"
       THEN /\ exec' = [exec EXCEPT !.pc = "scan", !.i = 0, !.index = 0, !.cur = now,
                                    !.removed = 0]
            /\ kicked' = {}
       ELSE Go("top") /\ UNCHANGED kicked
    /\ UNCHANGED <<slots, active, next, now, shut, upd, ops>>

Scanning == exec.pc = "scan" /\ exec.index < active /\ exec.i < MaxTimers

ExecSkip ==
    /\ Scanning
    /\ slots[exec.i].fn = NoData \/ exec.cur < slots[exec.i].at
    /\ exec' = [exec EXCEPT !.i = @ + 1,
                            !.index = IF slots[exec.i].fn = NoData THEN @ ELSE @ + 1]
    /\ Rest

ExecCall ==
    /\ Scanning
    /\ slots[exec.i].fn # NoData /\ exec.cur >= slots[exec.i].at
    /\ exec' = [exec EXCEPT !.pc = "call", !.index = @ + 1]
    /\ Rest

\* The callback returns; stop stands for STATUS_TIMER_QUEUE_STOP_SCHEDULING.
ExecReturn(stop) ==
    /\ exec.pc = "call"
    /\ LET s == exec.i
           gone == stop \/ slots[s].period = SINGLE
       IN /\ slots' = [slots EXCEPT ![s] = [fn |-> IF gone THEN NoData ELSE @.fn,
                                             at |-> exec.cur + @.period, period |-> @.period]]
          /\ exec' = [exec EXCEPT !.pc = "scan", !.i = @ + 1,
                                  !.removed = IF gone THEN @ + 1 ELSE @]
    /\ UNCHANGED <<active, next, now, shut, upd, ops, kicked>>

ExecScanned ==
    /\ exec.pc = "scan" /\ ~Scanning
    /\ active' = (active - exec.removed) % CountRange
    /\ next' = EvaluateNextInvocation(slots, active')
    /\ Go("top")
    /\ UNCHANGED <<slots, now, shut, upd, ops, kicked>>

\* The end of the executor: terminated is set and signalled under the exit lock.
ExecExit == exec.pc = "exit" /\ Go("done") /\ Rest

Tick == now < MaxNow /\ now' = now + 1
        /\ UNCHANGED <<slots, active, next, exec, shut, upd, ops, kicked>>

Executor == \/ ExecStart \/ ExecTop \/ ExecTimeout \/ ExecAwake \/ ExecSkip \/ ExecCall
            \/ (\E stop \in BOOLEAN : ExecReturn(stop)) \/ ExecScanned \/ ExecExit

TimerNext ==
    \/ \E d \in TimerData, t \in Delays, p \in Periods : AddTimer(d, t, p)
    \/ \E s \in Slots : CancelTimer(s) \/ Kick(s)
    \/ \E d \in TimerData : CancelTimersWithCustomData(d)
    \/ CancelAllTimers
    \/ \E s \in Slots, d \in TimerData, p \in Periods :
           UpdateTimerPeriodCheck(s, d, p) \/ UpdateFromCallback(s, d, p)
    \/ UpdateTimerPeriod
    \/ TimerShutdown \/ TimerShutdownReturns \/ TimerShutdownTimeout
    \/ Executor \/ Tick

-----------------------------------------------------------------------------
\* The executor never sleeps past the time of a timer, whatever was added,
\* cancelled, updated or kicked by callbacks and other threads meanwhile; only a
\* kick that came before the executor took its lock for the first time may go
\* unnoticed.  It and AddTimer rely on the active count, which is the number of timers
\* whenever another thread can get the lock (TimerQueue.c:70-94, 133-139, 303, 330, 530, 572).
SleepsUntilEarliest ==
    /\ TimerTypeOK
    /\ exec.pc = "wait" => \A s \in Set(slots) \ kicked : exec.until <= slots[s].at
    /\ exec.pc \in LockFree => GetTimerCount = Cardinality(Set(slots))

\* A timer that is due is served (its callback is called), or cancelled or
\* postponed by somebody, or the queue is shut down, although a callback may
\* change the count that bounds the loop it is called from (TimerQueue.c:581-612).
DueTimerServed ==
    \A s \in Slots :
        (s \in Set(slots) \ kicked /\ slots[s].at <= now)
        ~> \/ s \notin Set(slots) \/ slots[s].at > now \/ shut # "open"
           \/ exec.pc = "call" /\ exec.i = s
=============================================================================
