----------------------------- MODULE Semaphore -----------------------------
(***************************************************************************)
(* The counting and signalling semaphore of src/utils/src/Semaphore.c.     *)
(*                                                                         *)
(* permitCount is a ticket counter: an acquirer takes its permit on entry  *)
(* and blocks when the count was not positive, so the count is negative    *)
(* while threads wait.  Code between MUTEX_LOCK and MUTEX_UNLOCK or        *)
(* CVAR_WAIT is one action; the unlocked checks of shutdown and locked,    *)
(* the drained loop's load of the count and its wait, and the fix-up of a  *)
(* refused release are actions of their own.  A wake-up only makes a       *)
(* thread runnable: it goes on once it gets the mutex back.                *)
(***************************************************************************)
EXTENDS Integers, FiniteSets

CONSTANTS
    Threads,     \* callers of semaphoreAcquire and semaphoreRelease
    Drainers,    \* callers of semaphoreWaitUntilClear
    MaxPermits,  \* maxPermitCount
    Modes,       \* kinds of semaphore: how it is created and waited for
    CanFree,     \* whether the owner frees the semaphore
    Budget       \* bound: operations each caller starts

ASSUME PermitsAssumption == MaxPermits \in Nat \ {0}
ASSUME CallersAssumption ==
    /\ IsFiniteSet(Threads) /\ IsFiniteSet(Drainers)
    /\ Threads \cap Drainers = {}
ASSUME FlagsAssumption ==
    /\ Modes \subseteq [signalled : BOOLEAN, timeouts : BOOLEAN]
    /\ CanFree \in BOOLEAN
    /\ Budget \in Nat

VARIABLES
    mode,      \* the kind of this semaphore
    permitCount, waitCount, locked, shutdown,
    pc,        \* where each caller is
    held,      \* threads that hold a permit of a counting semaphore
    budget,    \* operations each caller may still start
    owner,     \* where semaphoreFree is
    granted,   \* acquires that returned success
    produced   \* releases that returned success

vars == <<mode, permitCount, waitCount, locked, shutdown, pc, held, budget, owner, granted, produced>>

Callers == Threads \cup Drainers
\* created by semaphoreEmptyCreate; the callers wait with a finite time-out
Signalled == mode.signalled
Timeouts == mode.timeouts

InitialPermits == IF Signalled THEN 0 ELSE MaxPermits

ThreadStates == {"idle", "acquiring", "waiting", "woken", "timedOut", "releasing", "fixup"}
DrainerStates == {"idle", "loaded", "waiting", "woken"}
OwnerStates == {"using", "waiting", "spinning", "freed"}

Freed == owner = "freed"

\* semaphoreCreateInternal
Init ==
    /\ mode \in Modes
    /\ permitCount = InitialPermits
    /\ waitCount = 0
    /\ locked = FALSE /\ shutdown = FALSE
    /\ pc = [t \in Callers |-> "idle"]
    /\ held = {}
    /\ budget = [t \in Callers |-> Budget]
    /\ owner = "using"
    /\ granted = 0 /\ produced = 0

Starts(t) ==
    /\ pc[t] = "idle" /\ budget[t] > 0 /\ ~Freed
    /\ budget' = [budget EXCEPT ![t] = @ - 1]

\* who CVAR_BROADCAST and CVAR_SIGNAL on semaphoreNotify can reach
Waiting == {t \in Threads : pc[t] = "waiting"}
DrainWaiting == {t \in Drainers : pc[t] = "waiting"}
Wake(f, S) == [t \in Callers |-> IF t \in S THEN "woken" ELSE f[t]]

-----------------------------------------------------------------------------
(* semaphoreAcquireInternal *)
AcquireCheck(t) ==
    /\ t \in Threads /\ t \notin held
    /\ Starts(t)
    /\ pc' = [pc EXCEPT ![t] = IF shutdown \/ locked THEN "idle" ELSE "acquiring"]
    /\ UNCHANGED <<permitCount, waitCount, locked, shutdown, held, owner, granted, produced>>

\* an acquirer that got its permit
Grant(t) ==
    /\ granted' = granted + 1
    /\ held' = IF Signalled THEN held ELSE held \cup {t}

AcquireTake(t) ==
    /\ pc[t] = "acquiring" /\ ~Freed
    /\ permitCount' = permitCount - 1
    /\ IF permitCount <= 0
       THEN /\ waitCount' = waitCount + 1
            /\ pc' = [pc EXCEPT ![t] = "waiting"]
            /\ UNCHANGED <<held, granted>>
       ELSE /\ pc' = [pc EXCEPT ![t] = "idle"]
            /\ Grant(t)
            /\ UNCHANGED waitCount
    /\ UNCHANGED <<locked, shutdown, budget, owner, produced>>

\* CVAR_WAIT ran out of time: the thread still has to get the mutex back
AcquireTimeout(t) ==
    /\ Timeouts /\ pc[t] = "waiting" /\ t \in Threads /\ ~Freed
    /\ pc' = [pc EXCEPT ![t] = "timedOut"]
    /\ UNCHANGED <<permitCount, waitCount, locked, shutdown, held, budget, owner, granted, produced>>

AcquireGiveUp(t) ==
    /\ pc[t] = "timedOut" /\ ~Freed
    /\ permitCount' = permitCount + 1
    /\ waitCount' = waitCount - 1
    /\ pc' = [pc EXCEPT ![t] = "idle"]
    /\ UNCHANGED <<locked, shutdown, held, budget, owner, granted, produced>>

\* Mutant: the last waiter does not tell the owner
AcquireResumeSilently(t) ==
    /\ t \in Threads /\ pc[t] = "woken" /\ ~Freed
    /\ waitCount' = waitCount - 1
    /\ pc' = [pc EXCEPT ![t] = "idle"]
    /\ IF shutdown THEN UNCHANGED <<held, granted>> ELSE Grant(t)
    /\ UNCHANGED <<permitCount, locked, shutdown, budget, owner, produced>>

\* the last waiter to leave a semaphore that is shutting down wakes the owner
AcquireResume(t) ==
    /\ t \in Threads /\ pc[t] = "woken" /\ ~Freed
    /\ waitCount' = waitCount - 1
    /\ pc' = IF shutdown /\ waitCount = 1
             THEN [Wake(pc, Waiting) EXCEPT ![t] = "idle"]
             ELSE [pc EXCEPT ![t] = "idle"]
    /\ owner' = IF shutdown /\ waitCount = 1 /\ owner = "waiting" THEN "spinning" ELSE owner
    /\ IF shutdown THEN UNCHANGED <<held, granted>> ELSE Grant(t)
    /\ UNCHANGED <<permitCount, locked, shutdown, budget, produced>>

-----------------------------------------------------------------------------
(* semaphoreReleaseInternal.  A counting semaphore is released by the      *)
(* threads that hold it, a signalling one by anybody.                      *)
ReleaseCheck(t) ==
    /\ t \in Threads /\ (Signalled \/ t \in held)
    /\ Starts(t)
    /\ held' = held \ {t}
    /\ pc' = [pc EXCEPT ![t] = IF shutdown THEN "idle" ELSE "releasing"]
    /\ UNCHANGED <<permitCount, waitCount, locked, shutdown, owner, granted, produced>>

\* CVAR_SIGNAL on semaphoreNotify wakes one of its waiters, if it has any
SignalNotify(t) ==
    \/ \E w \in Waiting : pc' = [pc EXCEPT ![t] = "idle", ![w] = "woken"] /\ UNCHANGED owner
    \/ owner = "waiting" /\ owner' = "spinning" /\ pc' = [pc EXCEPT ![t] = "idle"]
    \/ /\ Waiting = {} /\ owner # "waiting"
       /\ pc' = [pc EXCEPT ![t] = "idle"] /\ UNCHANGED owner

\* Mutant: signals only when the count was below zero
ReleaseGiveOffByOne(t) ==
    /\ pc[t] = "releasing" /\ ~Freed
    /\ permitCount' = permitCount + 1
    /\ IF permitCount >= MaxPermits
       THEN pc' = [pc EXCEPT ![t] = "fixup"] /\ UNCHANGED <<owner, produced>>
       ELSE /\ produced' = produced + 1
            /\ IF permitCount < -1
               THEN SignalNotify(t)
               ELSE pc' = [pc EXCEPT ![t] = "idle"] /\ UNCHANGED owner
    /\ UNCHANGED <<waitCount, locked, shutdown, held, budget, granted>>

ReleaseGive(t) ==
    /\ pc[t] = "releasing" /\ ~Freed
    /\ permitCount' = permitCount + 1
    /\ IF permitCount >= MaxPermits
       THEN pc' = [pc EXCEPT ![t] = "fixup"] /\ UNCHANGED <<owner, produced>>
       ELSE /\ produced' = produced + 1
            /\ IF permitCount <= 0
               THEN SignalNotify(t)
               ELSE /\ pc' = IF permitCount + 1 = MaxPermits
                             THEN [Wake(pc, DrainWaiting) EXCEPT ![t] = "idle"]
                             ELSE [pc EXCEPT ![t] = "idle"]
                    /\ UNCHANGED owner
    /\ UNCHANGED <<waitCount, locked, shutdown, held, budget, granted>>

\* Mutant: a refused release keeps its increment
ReleaseFixupForgotten(t) ==
    /\ pc[t] = "fixup" /\ ~Freed
    /\ pc' = [pc EXCEPT ![t] = "idle"]
    /\ UNCHANGED <<permitCount, waitCount, locked, shutdown, held, budget, owner, granted, produced>>

\* the fix-up of a refused release runs after the mutex was given back
ReleaseFixup(t) ==
    /\ pc[t] = "fixup" /\ ~Freed
    /\ permitCount' = permitCount - 1
    /\ pc' = [pc EXCEPT ![t] = "idle"]
    /\ UNCHANGED <<waitCount, locked, shutdown, held, budget, owner, granted, produced>>

-----------------------------------------------------------------------------
(* semaphoreSetLockInternal *)
SetLock(b) ==
    /\ ~shutdown /\ ~Freed /\ locked # b
    /\ locked' = b
    /\ UNCHANGED <<permitCount, waitCount, shutdown, pc, held, budget, owner, granted, produced>>

-----------------------------------------------------------------------------
(* semaphoreWaitUntilClearInternal *)
DrainLoad(t) ==
    /\ t \in Drainers /\ ~Freed
    /\ \/ ~shutdown /\ Starts(t)
       \/ pc[t] = "woken" /\ UNCHANGED budget
    /\ pc' = [pc EXCEPT ![t] = IF permitCount = MaxPermits THEN "idle" ELSE "loaded"]
    /\ UNCHANGED <<permitCount, waitCount, locked, shutdown, held, owner, granted, produced>>

DrainWait(t) ==
    /\ pc[t] = "loaded" /\ ~Freed
    /\ pc' = [pc EXCEPT ![t] = "waiting"]
    /\ UNCHANGED <<permitCount, waitCount, locked, shutdown, held, budget, owner, granted, produced>>

DrainTimeout(t) ==
    /\ Timeouts /\ t \in Drainers /\ pc[t] = "waiting" /\ ~Freed
    /\ pc' = [pc EXCEPT ![t] = "idle"]
    /\ UNCHANGED <<permitCount, waitCount, locked, shutdown, held, budget, owner, granted, produced>>

-----------------------------------------------------------------------------
(* semaphoreFreeInternal *)
FreeShutdown ==
    /\ CanFree /\ owner = "using"
    /\ locked' = TRUE /\ shutdown' = TRUE
    /\ pc' = Wake(pc, Waiting \cup DrainWaiting)
    /\ owner' = IF waitCount # 0 THEN "waiting" ELSE "spinning"
    /\ UNCHANGED <<permitCount, waitCount, held, budget, granted, produced>>

\* the spin ends when every permit is back, at its timeout, or at once for a
\* signalling semaphore; then the mutexes and the object go
FreeFinish ==
    /\ owner = "spinning"
    /\ owner' = "freed"
    /\ UNCHANGED <<permitCount, waitCount, locked, shutdown, pc, held, budget, granted, produced>>

-----------------------------------------------------------------------------
ThreadStep(t) ==
    \/ AcquireTake(t) \/ AcquireGiveUp(t) \/ AcquireResume(t)
    \/ ReleaseGive(t) \/ ReleaseFixup(t)

Step ==
    \/ \E t \in Threads : AcquireCheck(t)
    \/ \E t \in Threads : AcquireTake(t)
    \/ \E t \in Threads : AcquireTimeout(t)
    \/ \E t \in Threads : AcquireGiveUp(t)
    \/ \E t \in Threads : AcquireResume(t)
    \/ \E t \in Threads : ReleaseCheck(t)
    \/ \E t \in Threads : ReleaseGive(t)
    \/ \E t \in Threads : ReleaseFixup(t)
    \/ \E b \in BOOLEAN : SetLock(b)
    \/ \E t \in Drainers : DrainLoad(t)
    \/ \E t \in Drainers : DrainWait(t)
    \/ \E t \in Drainers : DrainTimeout(t)
    \/ FreeShutdown
    \/ FreeFinish

Next == Step /\ UNCHANGED mode

Spec == Init /\ [][Next]_vars

(* A runnable thread keeps running and the owner's spin is bounded; nobody *)
(* is obliged to start an operation, to time out or to free.               *)
FairSpec ==
    /\ Spec
    /\ \A t \in Threads : WF_vars(ThreadStep(t) /\ UNCHANGED mode)
    /\ WF_vars(FreeFinish /\ UNCHANGED mode)

-----------------------------------------------------------------------------
(* Properties.                                                             *)

(* Types; waitCount, unsigned in the code, never wraps below zero and     *)
(* never counts more than the threads there are.                           *)
TypeOK ==
    /\ mode \in Modes
    /\ permitCount \in Int
    /\ waitCount \in 0 .. Cardinality(Threads)
    /\ locked \in BOOLEAN /\ shutdown \in BOOLEAN
    /\ pc \in [Callers -> ThreadStates \cup DrainerStates]
    /\ held \subseteq Threads
    /\ budget \in [Callers -> Nat]
    /\ owner \in OwnerStates
    /\ granted \in Nat /\ produced \in Nat

Blocked == {t \in Threads : pc[t] \in {"waiting", "woken", "timedOut"}}
FixingUp == {t \in Threads : pc[t] = "fixup"}

(* The ticket arithmetic of semaphoreAcquire and semaphoreRelease: until a *)
(* shutdown the count is what was put in, less what was granted, less the  *)
(* threads that hold a place in the queue, plus refused releases that are  *)
(* still to be fixed up; waitCount counts exactly the queue, and a         *)
(* counting semaphore never has more holders than permits.                 *)
TicketsBalance ==
    /\ TypeOK
    /\ Cardinality(held) <= (IF Signalled THEN 0 ELSE MaxPermits)
    /\ waitCount = Cardinality(Blocked)
    /\ ~shutdown =>
         permitCount = InitialPermits + produced - granted
                         - Cardinality(Blocked) + Cardinality(FixingUp)

\* nobody is in the middle of an operation: each caller is idle or asleep
Quiet == owner = "using" /\ \A t \in Callers : pc[t] \in {"idle", "waiting"}

(* "Blocked threads will be released to acquire the available slot": once  *)
(* every running operation is done, no acquirer sleeps beside a free       *)
(* permit.  A time-out may spend a signal on nobody, so it is left out.    *)
NoSleeperBesideFreePermit ==
    ~Timeouts /\ Quiet /\ Waiting # {} => granted >= InitialPermits + produced

(* semaphoreFree releases the awaiting threads and returns.  Without       *)
(* time-outs it does so once no acquirer that had passed the unlocked      *)
(* check of shutdown can still go to sleep: the waiters leave one by one   *)
(* and the last of them wakes the owner.                                   *)
FreeReturnsWithoutRace ==
    (~Timeouts /\ owner = "waiting" /\ \A t \in Threads : pc[t] \notin {"acquiring", "waiting"})
        ~> (owner = "freed")
=============================================================================
