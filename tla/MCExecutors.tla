------------------------------ MODULE MCExecutors ------------------------------
(* The two executors of utils, the timer queue and the thread pool.  They do    *)
(* not interact: a behaviour exercises the one that part names.                *)
EXTENDS TimerQueue, ThreadPool

VARIABLE part
vars == <<timerVars, poolVars, part>>

Init == /\ part \in {"timers", "pool"} /\ TimerInit /\ PoolInit
Next == /\ \/ part = "timers" /\ TimerNext /\ UNCHANGED poolVars
           \/ part = "pool" /\ PoolNext /\ UNCHANGED timerVars
        /\ UNCHANGED part
\* The fairness of the two parts, each for the behaviours that exercise it.  The executor of
\* the timers is a thread and its callbacks return.  The pool's threads run, but a task of a
\* user need never return; the owner sleeps 5 ms between two rounds, so that an actor that
\* waits for the list mutex gets it.
Timers(A) == part = "timers" /\ A /\ UNCHANGED <<poolVars, part>>
Pool(A) == part = "pool" /\ A /\ UNCHANGED <<timerVars, part>>
Spec == /\ Init /\ [][Next]_vars
        /\ WF_vars(Timers(Executor))
        /\ \A a \in Actors : WF_vars(Pool(ActorStep(a))) /\ SF_vars(Pool(ActorList(a)))
        /\ \A c \in Callers : WF_vars(Pool(CallerStep(c)))
        /\ WF_vars(Pool(OwnerStep))
=============================================================================
