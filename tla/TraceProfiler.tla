----------------------------- MODULE TraceProfiler ------------------------------
(***************************************************************************)
(* The trace profiler: a ring of traces, each started by one call and      *)
(* given its duration by another that holds a pointer into the ring.       *)
(***************************************************************************)
EXTENDS Naturals, Sequences, FiniteSets

CONSTANTS TraceCallers,     \* threads that start traces
          RingSizes,        \* numbers of traces that buffers have room for
          MIN_TRACE_NUM,    \* the smallest such number that is accepted
          MaxTraces,        \* bound on the traces recorded
          LateStops         \* whether a trace is stopped when its place is due to be taken

ASSUME TraceAssumption == RingSizes \subseteq Nat /\ MIN_TRACE_NUM \in Nat \ {0} /\ MaxTraces \in Nat /\ LateStops \in BOOLEAN

VARIABLES profiler,         \* the TraceProfiler, NoProfiler when there is none
          calling,          \* per thread, the function it is in, and what it has read before the lock
          told              \* what was recorded, in order: the place, the start, the time spent

traceVars == <<profiler, calling, told>>

NoProfiler == [length |-> 0]
NotCalling == [fn |-> "none", level |-> 0, trace |-> 0, time |-> 0]
TRACE_LEVEL == [REPORT_ALWAYS |-> 0, CRITICAL |-> 1, INFO |-> 2, DEBUG |-> 3, VERBOSE |-> 4, DISABLED |-> 255]
TraceLevels == {TRACE_LEVEL.CRITICAL, TRACE_LEVEL.DEBUG}
Trace == [count |-> 0, start |-> 0, duration |-> 0]

\* Time passes with every trace recorded and with every stop begun.
Now == Len(told) + Cardinality({i \in DOMAIN told : told[i].stopped})

-----------------------------------------------------------------------------
TraceInit == profiler = NoProfiler /\ calling = [t \in TraceCallers |-> NotCalling] /\ told = << >>

WithLevel(p, l) ==
    LET fn == IF l = TRACE_LEVEL.DISABLED THEN "noop" ELSE "internal"
    IN  [p EXCEPT !.level = l, !.startFn = fn, !.stopFn = fn]

profilerInitialize(n, l) ==
    /\ profiler = NoProfiler /\ n >= MIN_TRACE_NUM
    /\ profiler' = WithLevel([level |-> l, startFn |-> "none", stopFn |-> "none", length |-> n, count |-> 0, next |-> 0,
                              buffer |-> [i \in 0..(n - 1) |-> Trace]], l)
    /\ told' = << >>
    /\ UNCHANGED calling

\* Nobody may be in a call.
profilerRelease ==
    /\ profiler # NoProfiler /\ \A t \in TraceCallers : calling[t] = NotCalling
    /\ profiler' = NoProfiler /\ told' = << >>
    /\ UNCHANGED calling

setProfilerLevel(l) ==
    /\ profiler # NoProfiler /\ l # profiler.level
    /\ profiler' = WithLevel(profiler, l)
    /\ UNCHANGED <<calling, told>>

\* The function to call and the time are read before the lock is taken.
traceStart(t, l) ==
    /\ profiler # NoProfiler /\ calling[t] = NotCalling
    /\ calling' = [calling EXCEPT ![t] = [NotCalling EXCEPT !.fn = IF profiler.startFn = "noop" THEN "startNoop" ELSE "startInternal",
                                                            !.level = l, !.time = Now]]
    /\ UNCHANGED <<profiler, told>>

traceStartNoop(t) ==
    /\ calling[t].fn = "startNoop"
    /\ calling' = [calling EXCEPT ![t] = NotCalling]
    /\ UNCHANGED <<profiler, told>>

Wrapped(p, i) == IF i = p.length THEN 0 ELSE i

traceStartInternalWorker(t) ==
    /\ calling[t].fn = "startInternal"
    /\ calling' = [calling EXCEPT ![t] = NotCalling]
    /\ IF calling[t].level <= profiler.level
       THEN /\ profiler' = [profiler EXCEPT !.buffer[profiler.next] = [count |-> profiler.count, start |-> calling[t].time, duration |-> 0],
                                            !.count = @ + 1, !.next = Wrapped(profiler, @ + 1)]
            /\ told' = Append(told, [place |-> profiler.next, start |-> calling[t].time, stopped |-> FALSE, spent |-> 0])
       ELSE UNCHANGED <<profiler, told>>

\* Whoever has the handle stops the trace; disabled, that does nothing.
traceStop(t, i) ==
    /\ profiler # NoProfiler /\ calling[t] = NotCalling /\ ~told[i].stopped
    /\ told' = [told EXCEPT ![i].stopped = TRUE]
    /\ calling' = IF profiler.stopFn = "noop" THEN calling
                  ELSE [calling EXCEPT ![t] = [NotCalling EXCEPT !.fn = "stopInternal", !.trace = i, !.time = Now]]
    /\ UNCHANGED profiler

\* The place of the trace holds another one after a lap, and nothing tells them apart.
traceStopInternalWorker(t) ==
    LET i == calling[t].trace
        trace == profiler.buffer[told[i].place]
    IN  /\ calling[t].fn = "stopInternal"
        /\ LateStops \/ Len(told) - i < profiler.length - 1
        /\ calling' = [calling EXCEPT ![t] = NotCalling]
        /\ told' = [told EXCEPT ![i].spent = calling[t].time - told[i].start]
        /\ profiler' = IF profiler.count >= trace.count /\ profiler.count - trace.count < profiler.length
                       THEN [profiler EXCEPT !.buffer[told[i].place].duration = calling[t].time - trace.start] ELSE profiler

TraceNext ==
    \/ \E n \in RingSizes, l \in TraceLevels : profilerInitialize(n, l)
    \/ profilerRelease
    \/ \E l \in TraceLevels \cup {TRACE_LEVEL.DISABLED} : setProfilerLevel(l)
    \/ \E t \in TraceCallers, l \in TraceLevels : Len(told) < MaxTraces /\ traceStart(t, l)
    \/ \E t \in TraceCallers : traceStartNoop(t) \/ traceStartInternalWorker(t) \/ traceStopInternalWorker(t)
    \/ \E t \in TraceCallers : \E i \in DOMAIN told : traceStop(t, i)

TraceSpec == TraceInit /\ [][TraceNext]_traceVars

-----------------------------------------------------------------------------
MutOldest == 0

Oldest ==
    IF profiler.count < profiler.length THEN 0 ELSE Wrapped(profiler, profiler.next)

getFormattedTraceBuffer ==
    LET number == IF profiler.count < profiler.length THEN profiler.count ELSE profiler.length
    IN  [k \in 1..number |-> LET trace == profiler.buffer[(Oldest + k - 1) % profiler.length]
                             IN  [start |-> trace.start, duration |-> trace.duration]]

\* The formatted buffer (getFormattedTraceBuffer) lists the latest traces, as many as there
\* is room for, in the order they were recorded, each with the time between its own start and
\* its own stop, whatever laps the ring has made since, whichever thread stopped it and
\* however long the threads waited for the lock.
TracesTold ==
    profiler # NoProfiler =>
        LET shown == getFormattedTraceBuffer
            first == Len(told) - Len(shown)
        IN  /\ Len(shown) = (IF Len(told) < profiler.length THEN Len(told) ELSE profiler.length)
            /\ \A k \in DOMAIN shown : shown[k] = [start |-> told[first + k].start, duration |-> told[first + k].spent]
=============================================================================
