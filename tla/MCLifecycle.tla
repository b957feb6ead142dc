------------------------------ MODULE MCLifecycle ------------------------------
EXTENDS Lifecycle
CONSTANTS t1, t2, t3
AllCalls == Operations \ {"callback"}
\* Without time-outs: three threads with the producer's calls and the free of the
\* stream, two threads with every call.  With time-outs, tracks and the timer: two threads.
Plain(threads, calls) == [coordinated |-> FALSE, intermittent |-> FALSE, timeouts |-> FALSE,
                          threads |-> threads, calls |-> calls]
MCModes == {Plain({t1, t2, t3}, {"put", "stop", "free"}), Plain({t1, t2}, AllCalls),
            [coordinated |-> TRUE, intermittent |-> TRUE, timeouts |-> TRUE, threads |-> {t1, t2}, calls |-> AllCalls]}
=============================================================================
