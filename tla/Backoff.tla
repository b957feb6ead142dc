-------------------------------- MODULE Backoff --------------------------------
(***************************************************************************)
(* The exponential back-off of the service calls                           *)
(* (utils/src/ExponentialBackoffRetryStrategy.c).  A client has one retry  *)
(* strategy: the transition hooks of its own state machine and of those of *)
(* all its streams ask it for the time to wait before the next call.       *)
(***************************************************************************)
EXTENDS Integers, FiniteSets

CONSTANTS Machines,     \* the state machines that share the strategy
          Configs,      \* configurations an application may ask for
          CallTime      \* how long a retried call may take to fail again

\* Limits on a configuration, in steps of 5 s (utils/Include.h:1633 to 1668): the longest wait,
\* the unit of the wait, the idle time that ends a run of retries, the fixed jitter.  The unit
\* and the jitter are below a step in the code and one step here: waits that are long
\* against the idle time are the ones that could end a run of retries.
LongestWait == 2..5
UnitOfWait == 1..1
TimeToReset == 18..24
JitterFactor == 1..1
Infinite == 0                           \* KVS_INFINITE_EXPONENTIAL_RETRIES

VARIABLES
    strategy,   \* the retry state: config, count, lastWait, lastTime, status
    clock,      \* system time
    due,        \* [Machines -> the time the machine repeats its call, or Idle]
    granted     \* history: machine, time and wait without jitter of the last grant

backoffVars == <<strategy, clock, due, granted>>

Idle == -1
NoGrant == [machine |-> {}, wait |-> 0, at |-> 0]

\* computePower(2, e): the bounds that keep it inside 64 bits fail the call.
computePower(base, e) ==
    IF (base <= 5 /\ e <= 27) \/ (base <= 100 /\ e <= 9) \/ (base <= 1000 /\ e <= 6) THEN {base ^ e} ELSE {}

validateExponentialBackoffConfig(c) ==
    /\ c.maxWait \in LongestWait /\ c.factor \in UnitOfWait /\ c.timeToReset \in TimeToReset
    /\ c.jitter \in {"FULL", "FIXED", "NONE"}
    /\ c.jitter = "FIXED" => c.jitterFactor \in JitterFactor

resetExponentialBackoffRetryState(s) ==
    [s EXCEPT !.count = 0, !.lastWait = 0, !.lastTime = 0, !.status = "NOT_STARTED"]

exponentialBackoffRetryStrategyCreate(c) ==
    resetExponentialBackoffRetryState([config |-> c, count |-> 0, lastWait |-> 0, lastTime |-> 0, status |-> "x"])

\* A random number of RAND() % n: what getRandomJitter may add to a wait.
getRandomJitter(c, wait) ==
    CASE c.jitter = "FULL" -> 0..(wait - 1)
      [] c.jitter = "FIXED" -> 0..(c.jitterFactor - 1)
      [] OTHER -> {0}

calculateWaitTime(s) == {p * s.config.factor : p \in computePower(2, s.count)}

\* Mutant: the idle time is measured against the last wait, not the configured time.
MutRested(s, now) == s.count # 0 /\ now > s.lastTime /\ now - s.lastTime > s.lastWait

\* A run of retries is over when the strategy has not been asked for long enough.
Rested(s, now) == s.count # 0 /\ now > s.lastTime /\ now - s.lastTime > s.config.timeToReset

\* The waits without jitter: at the longest once it has been reached, doubled before.
BaseWait(s) ==
    IF s.lastWait >= s.config.maxWait THEN {s.config.maxWait}
    ELSE {IF w > s.config.maxWait THEN s.config.maxWait ELSE w : w \in calculateWaitTime(s)}

Exhausted(s) == s.config.maxCount # Infinite /\ s.config.maxCount <= s.count

BackoffInit ==
    /\ \E c \in Configs : validateExponentialBackoffConfig(c) /\ strategy = exponentialBackoffRetryStrategyCreate(c)
    /\ clock = 1
    /\ due = [m \in Machines |-> Idle]
    /\ granted = NoGrant

\* getExponentialBackoffRetryStrategyWaitTime of machine m whose call failed now.  A
\* strategy that has no retry left says so, starts over and leaves the wait at zero.
WaitTime(m) ==
    /\ due[m] = Idle
    /\ LET begun == [strategy EXCEPT !.status = "IN_PROGRESS"]
           s == IF Rested(begun, clock)
                THEN [resetExponentialBackoffRetryState(begun) EXCEPT !.status = "IN_PROGRESS"] ELSE begun
       IN \/ /\ Exhausted(begun)
             /\ strategy' = resetExponentialBackoffRetryState(begun)
             /\ due' = [due EXCEPT ![m] = clock]
             /\ granted' = NoGrant
          \/ /\ ~Exhausted(begun)
             /\ \E w \in BaseWait(s) : \E j \in getRandomJitter(s.config, w) :
                   /\ strategy' = [s EXCEPT !.lastWait = w + j, !.lastTime = clock, !.count = @ + 1]
                   /\ due' = [due EXCEPT ![m] = clock + w + j]
                   /\ granted' = [machine |-> {m}, wait |-> w, at |-> clock]
    /\ UNCHANGED clock

\* A call that is due is made: it fails later (WaitTime) or succeeds for good.
Due == {m \in Machines : due[m] # Idle /\ due[m] <= clock}
CallAgain(m) == m \in Due /\ due' = [due EXCEPT ![m] = Idle] /\ UNCHANGED <<strategy, clock, granted>>

\* Time passes; the calls that are due are made in the meantime.
Elapse(d) == Due = {} /\ clock' = clock + d /\ UNCHANGED <<strategy, due, granted>>

BackoffNext ==
    \/ \E m \in Machines : WaitTime(m) \/ CallAgain(m)
    \/ \E d \in {1, CallTime, 25} : Elapse(d)

-----------------------------------------------------------------------------
(* Properties *)

Double(s, w) == IF 2 * w > s.config.maxWait THEN s.config.maxWait ELSE 2 * w

\* A machine that retries as soon as it may backs off properly
\* (getExponentialBackoffRetryStrategyWaitTime): the wait without jitter at least doubles
\* from one retry to the next until it is the longest, and the jitter at most doubles that;
\* the wait and the call itself never let the idle time pass that would start it over, and
\* other machines that share the strategy do not shorten its waits.
BacksOff ==
    [][\A m \in Machines :
        /\ m \in granted'.machine /\ granted' # granted /\ granted.machine # {}
             /\ clock <= granted.at + strategy.lastWait + CallTime
             => granted'.wait >= Double(strategy, granted.wait)
        /\ due[m] = Idle /\ due'[m] # Idle => due'[m] <= clock + 2 * strategy.config.maxWait]_backoffVars
=============================================================================
