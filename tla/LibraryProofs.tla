----------------------------- MODULE LibraryProofs ------------------------------
(***************************************************************************)
(* Parts of the common libraries, for any size and any sequence of calls:  *)
(* the ring of traces, the layers of allocators, and the ticket arithmetic *)
(* of the semaphore for any number of threads, any number of permits and   *)
(* any kind of semaphore, created signalled or not, waited for with or     *)
(* without a time-out, freed or not.                                       *)
(***************************************************************************)
EXTENDS TraceProfiler, Allocators, Semaphore, Sums, SequenceTheorems

-----------------------------------------------------------------------------
(* Places of a ring.                                                       *)

LEMMA ModuloIs ==
    ASSUME NEW n \in Nat \ {0}, NEW q \in Int, NEW r \in 0..(n - 1)
    PROVE  (n * q + r) % n = r
<1> DEFINE x == n * q + r
           p == x \div n
           s == x % n
<1>1. n * q \in Int /\ x \in Int /\ p \in Int /\ s \in 0..(n - 1) /\ x = n * p + s
  <2>1. n * q \in Int
    OBVIOUS
  <2>2. x \in Int
    BY <2>1
  <2> QED BY <2>1, <2>2
<1> HIDE DEF p, s
<1>2. n * (q - p) = s - r
  <2>1. n * (q - p) = n * q - n * p
    BY <1>1
  <2>2. n * p \in Int
    BY <1>1
  <2> QED BY <1>1, <2>1, <2>2 DEF x
<1>3. q - p \in Int /\ (q - p >= 1 \/ q - p <= -1 \/ q - p = 0)
  BY <1>1
<1>4. CASE q - p >= 1
  <2>1. n * (q - p) >= n * 1
    BY <1>1, <1>3, <1>4
  <2> QED BY <1>1, <1>2, <2>1
<1>5. CASE q - p <= -1
  <2>1. n * (q - p) <= n * (-1)
    BY <1>1, <1>3, <1>5
  <2> QED BY <1>1, <1>2, <2>1
<1>6. CASE q - p = 0
  <2>1. n * (q - p) = 0
    BY <1>6
  <2>2. s = r
    BY <1>1, <1>2, <2>1
  <2> QED BY <2>2 DEF s, x
<1> QED BY <1>3, <1>4, <1>5, <1>6

\* The place after a place.
LEMMA NextPlace ==
    ASSUME NEW n \in Nat \ {0}, NEW x \in Nat
    PROVE  x % n \in 0..(n - 1) /\ (x + 1) % n = IF (x % n) + 1 = n THEN 0 ELSE (x % n) + 1
<1> DEFINE q == x \div n
           r == x % n
<1>1. q \in Int /\ r \in 0..(n - 1) /\ x = n * q + r /\ n * q \in Int
  OBVIOUS
<1> HIDE DEF q
<1>2. CASE r + 1 = n
  <2>1. x + 1 = n * (q + 1) + 0
    BY <1>1, <1>2
  <2>2. q + 1 \in Int /\ 0 \in 0..(n - 1)
    BY <1>1
  <2>3. (n * (q + 1) + 0) % n = 0
    BY <2>2, ModuloIs
  <2> QED BY <1>1, <1>2, <2>1, <2>3
<1>3. CASE r + 1 # n
  <2>1. x + 1 = n * q + (r + 1) /\ r + 1 \in 0..(n - 1)
    BY <1>1, <1>3
  <2> HIDE DEF r
  <2>2. (n * q + (r + 1)) % n = r + 1
    BY <1>1, <2>1, ModuloIs
  <2>3. (x + 1) % n = r + 1
    BY <2>1, <2>2
  <2> QED BY <1>1, <1>3, <2>3 DEF r
<1> QED BY <1>2, <1>3

\* b places on from that of a, which is also b places on from that of a - n.
LEMMA PlacesOn ==
    ASSUME NEW n \in Nat \ {0}, NEW a \in Nat, a >= n, NEW b \in 0..(n - 1)
    PROVE  ((a % n) + b) % n = (a - n + b) % n
<1> DEFINE q == a \div n
           r == a % n
<1>1. q \in Int /\ r \in 0..(n - 1) /\ a = n * q + r /\ n * q \in Int
  OBVIOUS
<1> HIDE DEF q, r
<1>2. n * (q - 1) = n * q - n /\ n * 0 = 0 /\ n * 1 = n
  BY <1>1
<1>3. CASE r + b < n
  <2>1. r + b \in 0..(n - 1) /\ r + b = n * 0 + (r + b) /\ a - n + b = n * (q - 1) + (r + b)
    BY <1>1, <1>2, <1>3
  <2>2. (n * 0 + (r + b)) % n = r + b /\ (n * (q - 1) + (r + b)) % n = r + b
    BY <1>1, <2>1, ModuloIs
  <2>3. (r + b) % n = (a - n + b) % n
    BY <2>1, <2>2
  <2> QED BY <2>3 DEF r
<1>4. CASE r + b >= n
  <2> DEFINE z == r + b - n
  <2>1. z \in 0..(n - 1) /\ r + b = n * 1 + z /\ a - n + b = n * q + z
    BY <1>1, <1>2, <1>4
  <2> HIDE DEF z
  <2>2. (n * q + z) % n = z
    BY <1>1, <2>1, ModuloIs
  <2>a. (n * 1 + z) % n = z
    BY ONLY <2>1, ModuloIs, n \in Nat \ {0}
  <2>3. (r + b) % n = (a - n + b) % n
    BY <2>1, <2>2, <2>a
  <2> QED BY <2>3 DEF r
<1> QED BY <1>1, <1>3, <1>4

\* Within a lap no place comes twice.
LEMMA PlacesDiffer ==
    ASSUME NEW n \in Nat \ {0}, NEW x \in Nat, NEW y \in Nat, x < y, y - x < n
    PROVE  x % n # y % n
<1> SUFFICES ASSUME x % n = y % n PROVE FALSE
  OBVIOUS
<1> DEFINE q == x \div n
           d == y - x
           r == x % n
<1>1. q \in Int /\ r \in 0..(n - 1) /\ x = n * q + r /\ n * q \in Int /\ d \in 1..(n - 1) /\ y % n = r
  OBVIOUS
<1> HIDE DEF q, r
<1>2. y = n * q + (r + d) /\ n * (q + 1) = n * q + n
  BY <1>1
<1> HIDE DEF d
<1>3. CASE r + d < n
  <2>1. r + d \in 0..(n - 1)
    BY <1>1, <1>3
  <2>2. (n * q + (r + d)) % n = r + d
    BY <1>1, <2>1, ModuloIs
  <2> QED BY <1>1, <1>2, <2>2
<1>4. CASE r + d >= n
  <2>1. r + d - n \in 0..(n - 1) /\ y = n * (q + 1) + (r + d - n) /\ q + 1 \in Int
    BY <1>1, <1>2, <1>4
  <2>2. (n * (q + 1) + (r + d - n)) % n = r + d - n
    BY <2>1, ModuloIs
  <2> QED BY <1>1, <2>1, <2>2
<1> QED BY <1>1, <1>3, <1>4

-----------------------------------------------------------------------------
(* The ring holds the latest traces.                                       *)

Told == [place : Nat, start : Nat, stopped : BOOLEAN, spent : Int]

\* the trace i is the one that its place holds
Held(i) ==
    profiler.buffer[(i - 1) % profiler.length] = [count |-> i - 1, start |-> told[i].start, duration |-> told[i].spent]

Ring ==
    /\ DOMAIN profiler = {"level", "startFn", "stopFn", "length", "count", "next", "buffer"}
    /\ profiler.length \in Nat \ {0} /\ DOMAIN profiler.buffer = 0..(profiler.length - 1)
    /\ profiler.buffer \in [0..(profiler.length - 1) -> [count : Nat, start : Nat, duration : Int]]
    /\ profiler.stopFn \in {"noop", "internal"}
    /\ profiler.count = Len(told) /\ profiler.next = Len(told) % profiler.length
    /\ \A i \in 1..Len(told) :
          /\ told[i].place = (i - 1) % profiler.length
          /\ Len(told) - i < profiler.length => Held(i)

\* what a call has read before it takes the lock
Reading(c) ==
    /\ c.fn # "none" => c.time \in Nat
    /\ c.fn = "stopInternal" => c.trace \in 1..Len(told)

TraceInv ==
    /\ told \in Seq(Told) /\ calling = [t \in TraceCallers |-> calling[t]]
    /\ \A t \in TraceCallers : Reading(calling[t])
    /\ profiler = NoProfiler => told = << >> /\ \A t \in TraceCallers : calling[t] = NotCalling
    /\ profiler # NoProfiler => Ring

LEMMA ToldIs ==
    ASSUME told \in Seq(Told)
    PROVE  /\ Len(told) \in Nat /\ DOMAIN told = 1..Len(told) /\ Now \in Nat
           /\ \A i \in 1..Len(told) : told[i] \in Told
<1>1. Len(told) \in Nat /\ DOMAIN told = 1..Len(told) /\ \A i \in 1..Len(told) : told[i] \in Told
  BY ElementOfSeq, LenProperties
<1> DEFINE S == {i \in DOMAIN told : told[i].stopped}
<1>2. IsFiniteSet(1..Len(told)) /\ S \subseteq 1..Len(told)
  BY <1>1, FS_Interval
<1> HIDE DEF S
<1>3. IsFiniteSet(S)
  BY <1>2, FS_Subset
<1>4. Cardinality(S) \in Nat
  BY <1>3, FS_CardinalityType
<1>5. Now = Len(told) + Cardinality(S)
  BY DEF Now, S
<1> QED BY <1>1, <1>4, <1>5

LEMMA RingIs ==
    ASSUME TraceInv, profiler # NoProfiler
    PROVE  /\ Ring /\ profiler.next \in 0..(profiler.length - 1)
           /\ profiler.length \in Nat /\ profiler.length > 0
<1>1. Ring /\ Len(told) \in Nat
  BY ToldIs DEF TraceInv
<1>2. profiler.next \in 0..(profiler.length - 1)
  BY <1>1, NextPlace DEF Ring
<1> QED BY <1>1, <1>2 DEF Ring

LEMMA TracesShown == TraceInv => TracesTold
<1> SUFFICES ASSUME TraceInv, profiler # NoProfiler
             PROVE  LET shown == getFormattedTraceBuffer
                        first == Len(told) - Len(shown)
                    IN  /\ Len(shown) = (IF Len(told) < profiler.length THEN Len(told) ELSE profiler.length)
                        /\ \A k \in DOMAIN shown : shown[k] = [start |-> told[first + k].start, duration |-> told[first + k].spent]
  BY DEF TracesTold
<1> DEFINE n == profiler.length
           l == Len(told)
           number == IF l < n THEN l ELSE n
           trace(k) == profiler.buffer[(Oldest + k - 1) % n]
           shown == [k \in 1..number |-> [start |-> trace(k).start, duration |-> trace(k).duration]]
<1>1. /\ n \in Nat \ {0} /\ l \in Nat /\ profiler.count = l /\ profiler.next = l % n
      /\ l % n \in 0..(n - 1) /\ \A i \in 1..l : l - i < n => Held(i)
  BY RingIs, ToldIs DEF Ring, TraceInv
<1>2. getFormattedTraceBuffer = shown
  BY <1>1 DEF getFormattedTraceBuffer
<1>3. number \in Nat /\ Len(shown) = number /\ DOMAIN shown = 1..number
  BY <1>1
<1>4. Oldest = IF l < n THEN 0 ELSE l % n
  BY <1>1 DEF Oldest, Wrapped
<1> HIDE DEF n, l
<1>5. ASSUME NEW k \in 1..number
      PROVE  l - number + k \in 1..l /\ l - (l - number + k) < n /\ (Oldest + k - 1) % n = ((l - number + k) - 1) % n
  <2>1. l - number + k \in 1..l /\ l - (l - number + k) < n
    BY <1>1
  <2>2. CASE l < n
    <3>1. Oldest + k - 1 = (l - number + k) - 1
      BY <1>1, <1>4, <2>2
    <3> QED BY <2>1, <3>1
  <2>3. CASE ~(l < n)
    <3>1. number = n /\ k - 1 \in 0..(n - 1) /\ l >= n
      BY <1>1, <2>3
    <3> DEFINE b == k - 1
    <3>2. b \in 0..(n - 1)
      BY <3>1
    <3>3. Oldest + k - 1 = (l % n) + b /\ (l - number + k) - 1 = l - n + b
      BY <1>1, <1>4, <2>3, <3>1
    <3> HIDE DEF b
    <3>4. ((l % n) + b) % n = (l - n + b) % n
      BY <1>1, <3>1, <3>2, PlacesOn
    <3> QED BY <2>1, <3>3, <3>4
  <2> QED BY <2>2, <2>3
<1> HIDE DEF number
<1>6. ASSUME NEW k \in 1..number
      PROVE  trace(k).start = told[l - number + k].start /\ trace(k).duration = told[l - number + k].spent
  <2> DEFINE i == l - number + k
  <2>1. i \in 1..l /\ l - i < n /\ (Oldest + k - 1) % n = (i - 1) % n
    BY <1>5
  <2> HIDE DEF i
  <2>2. Held(i)
    BY <1>1, <2>1
  <2>3. trace(k) = [count |-> i - 1, start |-> told[i].start, duration |-> told[i].spent]
    BY <2>1, <2>2 DEF Held, n
  <2> QED BY <2>3 DEF i
<1> HIDE DEF trace
<1>7. \A k \in DOMAIN shown : shown[k] = [start |-> told[l - Len(shown) + k].start, duration |-> told[l - Len(shown) + k].spent]
  BY <1>3, <1>6
<1> HIDE DEF shown
<1> QED BY <1>2, <1>3, <1>7 DEF l, n, number

\* The traces stand as they are.
LEMMA RingStands ==
    ASSUME TraceInv, profiler' # NoProfiler, profiler # NoProfiler, told' = told,
           DOMAIN profiler' = DOMAIN profiler, profiler'.length = profiler.length, profiler'.buffer = profiler.buffer,
           profiler'.count = profiler.count, profiler'.next = profiler.next, profiler'.stopFn \in {"noop", "internal"}
    PROVE  Ring'
<1>1. Ring
  BY DEF TraceInv
<1>2. \A i : Held(i)' = Held(i)
  BY DEF Held
<1> QED BY <1>1, <1>2 DEF Ring

LEMMA Initializes ==
    ASSUME TraceInv, NEW n \in RingSizes, NEW l \in TraceLevels, profilerInitialize(n, l)
    PROVE  TraceInv'
<1> DEFINE p == [level |-> l, startFn |-> "none", stopFn |-> "none", length |-> n, count |-> 0, next |-> 0,
                 buffer |-> [i \in 0..(n - 1) |-> Trace]]
<1>1. n \in Nat \ {0} /\ told' = << >> /\ calling' = calling
  BY TraceAssumption DEF profilerInitialize
<1>2. profiler' = WithLevel(p, l)
  BY DEF profilerInitialize
<1>3. /\ DOMAIN profiler' = {"level", "startFn", "stopFn", "length", "count", "next", "buffer"}
      /\ profiler'.length = n /\ profiler'.count = 0 /\ profiler'.next = 0
      /\ profiler'.buffer = [i \in 0..(n - 1) |-> Trace] /\ profiler'.stopFn \in {"noop", "internal"}
  BY <1>2 DEF WithLevel
<1>4. Len(told') = 0 /\ told' \in Seq(Told) /\ 0 % n = 0
  BY <1>1, EmptySeq
<1>5. profiler'.buffer \in [0..(n - 1) -> [count : Nat, start : Nat, duration : Int]]
  BY <1>3 DEF Trace
<1>6. Ring'
  BY <1>1, <1>3, <1>4, <1>5 DEF Ring
<1>7. profiler' # NoProfiler
  BY <1>1, <1>3 DEF NoProfiler
<1>8. \A t \in TraceCallers : Reading(calling[t])'
  BY <1>1 DEF TraceInv, Reading, NotCalling, profilerInitialize
<1> QED BY <1>1, <1>4, <1>6, <1>7, <1>8 DEF TraceInv

LEMMA Levels ==
    ASSUME TraceInv, NEW l \in TraceLevels \cup {TRACE_LEVEL.DISABLED}, setProfilerLevel(l)
    PROVE  TraceInv'
<1>1. profiler # NoProfiler /\ profiler' = WithLevel(profiler, l) /\ told' = told /\ calling' = calling
  BY DEF setProfilerLevel
<1>2. Ring
  BY <1>1 DEF TraceInv
<1>3. /\ DOMAIN profiler' = DOMAIN profiler /\ profiler'.length = profiler.length /\ profiler'.buffer = profiler.buffer
      /\ profiler'.count = profiler.count /\ profiler'.next = profiler.next /\ profiler'.stopFn \in {"noop", "internal"}
  BY <1>1, <1>2 DEF WithLevel, Ring
<1>4. profiler' # NoProfiler
  BY <1>2, <1>3 DEF NoProfiler, Ring
<1>5. Ring'
  BY <1>1, <1>3, <1>4, RingStands
<1> QED BY <1>1, <1>4, <1>5 DEF TraceInv, Reading

\* Only what a thread has read of the profiler changes.
LEMMA TraceStarts ==
    ASSUME TraceInv, NEW t \in TraceCallers, NEW x, calling' = [calling EXCEPT ![t] = x], Reading(x),
           profiler # NoProfiler, profiler' = profiler, told' = told
    PROVE  TraceInv'
<1>1. \A i : Held(i)' = Held(i)
  BY DEF Held
<1>2. Ring'
  BY <1>1 DEF TraceInv, Ring
<1>3. calling' = [u \in TraceCallers |-> calling'[u]]
  BY DEF TraceInv
<1>4. \A u \in TraceCallers : Reading(calling[u])'
  BY DEF TraceInv, Reading
<1> QED BY <1>2, <1>3, <1>4 DEF TraceInv

LEMMA Records ==
    ASSUME TraceInv, NEW t \in TraceCallers, traceStartInternalWorker(t)
    PROVE  TraceInv'
<1> DEFINE n == profiler.length
           l == Len(told)
           p == profiler.next
           c == calling[t]
           new == [count |-> profiler.count, start |-> c.time, duration |-> 0]
           one == [place |-> p, start |-> c.time, stopped |-> FALSE, spent |-> 0]
<1>1. calling[t].fn = "startInternal" /\ calling' = [calling EXCEPT ![t] = NotCalling]
  BY DEF traceStartInternalWorker
<1>2. profiler # NoProfiler
  BY <1>1 DEF TraceInv, NotCalling
<1>3. CASE profiler' = profiler /\ told' = told
  <2>1. Reading(NotCalling)
    BY DEF Reading, NotCalling
  <2> QED BY <1>1, <1>2, <1>3, <2>1, TraceStarts
<1>4. CASE /\ profiler' = [profiler EXCEPT !.buffer[profiler.next] = new, !.count = @ + 1, !.next = Wrapped(profiler, @ + 1)]
           /\ told' = Append(told, one)
  <2>1. /\ Ring /\ p \in 0..(n - 1) /\ n \in Nat \ {0} /\ l \in Nat /\ told \in Seq(Told)
        /\ c.time \in Nat
    BY <1>1, <1>2, RingIs, ToldIs DEF Ring, TraceInv, Reading
  <2>2. one \in Told /\ new \in [count : Nat, start : Nat, duration : Int]
    BY <2>1 DEF Told, Ring
  <2>3. /\ told' \in Seq(Told) /\ Len(told') = l + 1 /\ told'[l + 1] = one
        /\ \A i \in 1..l : told'[i] = told[i]
    BY <1>4, <2>1, <2>2, AppendProperties
  <2>4. /\ DOMAIN profiler' = DOMAIN profiler /\ profiler'.length = n /\ profiler'.stopFn = profiler.stopFn
        /\ profiler'.buffer = [profiler.buffer EXCEPT ![p] = new]
        /\ profiler'.count = l + 1 /\ profiler'.next = Wrapped(profiler, p + 1)
    BY <1>4, <2>1 DEF Ring
  <2>5. p = l % n /\ profiler'.next = (l + 1) % n
    <3>1. p = l % n
      BY <2>1 DEF Ring
    <3>2. (l + 1) % n = IF p + 1 = n THEN 0 ELSE p + 1
      BY <2>1, <3>1, NextPlace
    <3> QED BY <2>4, <3>1, <3>2 DEF Wrapped
  <2>6. profiler'.buffer \in [0..(n - 1) -> [count : Nat, start : Nat, duration : Int]]
    BY <2>1, <2>2, <2>4 DEF Ring
  <2>7. profiler' # NoProfiler
    BY <2>1, <2>4 DEF NoProfiler
  <2> HIDE DEF n, l, p, new, one, c
  <2>8. ASSUME NEW i \in 1..(l + 1)
        PROVE  /\ told'[i].place = (i - 1) % n
               /\ l + 1 - i < n => Held(i)'
    <3>1. CASE i = l + 1
      <4>1. i - 1 = l /\ told'[i] = one
        BY <2>1, <2>3, <3>1
      <4>2. profiler'.buffer[(i - 1) % n] = new
        BY <2>1, <2>4, <2>5, <4>1 DEF Ring, n
      <4>3. new = [count |-> i - 1, start |-> one.start, duration |-> one.spent]
        BY <2>1, <4>1 DEF new, one, Ring, l
      <4>4. Held(i)'
        BY <2>4, <4>1, <4>2, <4>3 DEF Held
      <4> QED BY <2>5, <4>1, <4>4 DEF one
    <3>2. CASE i # l + 1
      <4>1. i \in 1..l /\ told'[i] = told[i] /\ i - 1 \in Nat
        BY <2>1, <2>3, <3>2
      <4>2. told[i].place = (i - 1) % n /\ (l - i < n => Held(i))
        BY <2>1, <4>1 DEF Ring, n, l
      <4>3. ASSUME l + 1 - i < n
            PROVE  Held(i)'
        <5>1. i - 1 < l /\ l - (i - 1) < n /\ l - i < n
          BY <2>1, <4>1, <4>3
        <5>2. (i - 1) % n # l % n
          BY <2>1, <4>1, <5>1, PlacesDiffer
        <5>3. profiler'.buffer[(i - 1) % n] = profiler.buffer[(i - 1) % n]
          BY <2>1, <2>4, <2>5, <5>2 DEF Ring
        <5> QED BY <2>4, <4>1, <4>2, <5>1, <5>3 DEF Held, n
      <4> QED BY <4>1, <4>2, <4>3
    <3> QED BY <3>1, <3>2
  <2>9. Ring'
    BY <2>1, <2>3, <2>4, <2>5, <2>6, <2>8 DEF Ring
  <2>10. calling' = [u \in TraceCallers |-> calling'[u]]
    BY <1>1 DEF TraceInv
  <2>11. \A u \in TraceCallers : Reading(calling[u])'
    <3>1. \A u \in TraceCallers : Reading(calling[u])
      BY DEF TraceInv
    <3>2. \A u \in TraceCallers : calling'[u] = IF u = t THEN NotCalling ELSE calling[u]
      BY <1>1 DEF TraceInv
    <3> QED BY <2>1, <2>3, <3>1, <3>2 DEF Reading, NotCalling, l
  <2> QED BY <2>3, <2>7, <2>9, <2>10, <2>11 DEF TraceInv
<1> QED BY <1>3, <1>4 DEF traceStartInternalWorker

\* A stop begins: nothing that the ring holds changes.
LEMMA StopsBegin ==
    ASSUME TraceInv, NEW t \in TraceCallers, NEW i \in DOMAIN told, traceStop(t, i)
    PROVE  TraceInv'
<1> DEFINE n == profiler.length
           l == Len(told)
           new == [told[i] EXCEPT !.stopped = TRUE]
<1>1. /\ profiler # NoProfiler /\ profiler' = profiler /\ calling[t] = NotCalling
      /\ told' = [told EXCEPT ![i] = new]
  BY DEF traceStop
<1>2. /\ Ring /\ l \in Nat /\ Now \in Nat /\ i \in 1..l /\ told \in Seq(Told)
      /\ told[i] \in Told /\ DOMAIN told = 1..l
  BY <1>1, RingIs, ToldIs DEF Ring, TraceInv
<1>3. new \in Told /\ new.place = told[i].place /\ new.start = told[i].start /\ new.spent = told[i].spent
  BY <1>2 DEF Told
<1> HIDE DEF new
<1>4. told' \in Seq(Told) /\ Len(told') = l /\ \A j \in 1..l : told'[j] = IF j = i THEN new ELSE told[j]
  BY <1>1, <1>2, <1>3, ExceptSeq
<1>5. \A j \in 1..l : told'[j].place = told[j].place /\ told'[j].start = told[j].start /\ told'[j].spent = told[j].spent
  BY <1>3, <1>4
<1>6. \A j \in 1..l : Held(j)' = Held(j)
  BY <1>1, <1>5 DEF Held
<1>7. Ring'
  BY <1>1, <1>2, <1>4, <1>5, <1>6 DEF Ring
<1>8. /\ calling' = [u \in TraceCallers |-> calling'[u]]
      /\ \A u \in TraceCallers : calling'[u] = calling[u]
             \/ calling'[u] = [NotCalling EXCEPT !.fn = "stopInternal", !.trace = i, !.time = Now]
  <2> DEFINE x == [NotCalling EXCEPT !.fn = "stopInternal", !.trace = i, !.time = Now]
  <2>1. calling' = calling \/ calling' = [calling EXCEPT ![t] = x]
    BY DEF traceStop
  <2> HIDE DEF x
  <2>2. /\ calling' = [u \in TraceCallers |-> calling'[u]]
        /\ \A u \in TraceCallers : calling'[u] = calling[u] \/ calling'[u] = x
    BY <2>1 DEF TraceInv
  <2> QED BY <2>2 DEF x
<1>9. \A u \in TraceCallers : Reading(calling[u])'
  <2> DEFINE x == [NotCalling EXCEPT !.fn = "stopInternal", !.trace = i, !.time = Now]
  <2>1. \A u \in TraceCallers : Reading(calling[u])
    BY DEF TraceInv
  <2>2. \A u \in TraceCallers : calling'[u] = calling[u] \/ calling'[u] = x
    BY <1>8
  <2>3. x.fn = "stopInternal" /\ x.trace = i /\ x.time = Now
    BY DEF NotCalling
  <2> HIDE DEF x
  <2> QED BY <1>2, <1>4, <2>1, <2>2, <2>3 DEF Reading
<1> QED BY <1>1, <1>4, <1>7, <1>8, <1>9 DEF TraceInv

\* A stop in time finds its own trace.
LEMMA StopsOwn ==
    ASSUME ~LateStops, TraceInv, NEW t \in TraceCallers, traceStopInternalWorker(t)
    PROVE  TraceInv'
<1> DEFINE n == profiler.length
           l == Len(told)
           i == calling[t].trace
           q == told[i].place
           trace == profiler.buffer[q]
           spent == calling[t].time - told[i].start
<1>1. /\ calling[t].fn = "stopInternal" /\ l - i < n - 1
      /\ calling' = [calling EXCEPT ![t] = NotCalling]
  BY DEF traceStopInternalWorker
<1>18. profiler # NoProfiler /\ i \in 1..l /\ calling[t].time \in Nat
  BY <1>1 DEF TraceInv, NotCalling, Reading
<1>2. /\ Ring /\ n \in Nat \ {0} /\ l \in Nat /\ i \in 1..l /\ told \in Seq(Told)
      /\ told[i] \in Told /\ DOMAIN told = 1..l
  BY <1>1, <1>18, RingIs, ToldIs DEF Ring, TraceInv
<1>3. q = (i - 1) % n /\ l - i < n /\ Held(i) /\ i - 1 \in Nat /\ q \in 0..(n - 1)
  <2>1. i - 1 \in Nat /\ l - i < n
    BY <1>1, <1>2
  <2>2. q = (i - 1) % n /\ Held(i)
    BY <1>1, <1>2, <2>1 DEF Ring
  <2> QED BY <1>2, <2>1, <2>2, NextPlace
<1>4. trace = [count |-> i - 1, start |-> told[i].start, duration |-> told[i].spent]
  BY <1>3 DEF Held
<1>6. told' = [told EXCEPT ![i].spent = spent]
  BY DEF traceStopInternalWorker
<1>19. calling[t].time \in Nat /\ told[i].start \in Nat
  BY <1>2, <1>18 DEF Told
<1>5. spent \in Int
  BY <1>19
<1>7. told' = [told EXCEPT ![i] = [told[i] EXCEPT !.spent = spent]]
  BY <1>2, <1>6
<1>8. /\ told'[i] = [told[i] EXCEPT !.spent = spent] /\ \A j \in 1..l : j # i => told'[j] = told[j]
      /\ told' \in Seq(Told) /\ Len(told') = l
  <2> DEFINE new == [told[i] EXCEPT !.spent = spent]
  <2>1. new \in Told
    <3> HIDE DEF spent, i
    <3> QED BY <1>2, <1>5 DEF Told
  <2>2. told' = [told EXCEPT ![i] = new]
    BY <1>7
  <2> HIDE DEF new
  <2>3. told' \in Seq(Told) /\ Len(told') = l /\ \A j \in 1..l : told'[j] = IF j = i THEN new ELSE told[j]
    BY <1>2, <2>1, <2>2, ExceptSeq
  <2> QED BY <1>2, <2>3 DEF new
<1>9. /\ DOMAIN profiler' = DOMAIN profiler /\ profiler'.length = n /\ profiler'.stopFn = profiler.stopFn
      /\ profiler'.count = profiler.count /\ profiler'.next = profiler.next
      /\ profiler'.buffer = [profiler.buffer EXCEPT ![q] = [trace EXCEPT !.duration = spent]]
  <2>1. profiler.count >= trace.count /\ profiler.count - trace.count < n
    <3>1. profiler.count = l /\ trace.count = i - 1
      BY <1>2, <1>4 DEF Ring
    <3> HIDE DEF i, l, n, trace
    <3> QED BY <1>1, <1>2, <3>1
  <2>2. profiler' = [profiler EXCEPT !.buffer[q].duration = calling[t].time - trace.start]
    BY <2>1 DEF traceStopInternalWorker
  <2>3. trace.start = told[i].start /\ spent = calling[t].time - trace.start
    BY <1>4
  <2> HIDE DEF spent
  <2> QED BY <1>2, <2>2, <2>3 DEF Ring
<1>10. profiler' # NoProfiler
  BY <1>2, <1>9 DEF NoProfiler
<1> DEFINE kept == [trace EXCEPT !.duration = spent]
<1>11. kept = [count |-> i - 1, start |-> told[i].start, duration |-> spent]
  BY <1>4
<1>12. profiler'.buffer \in [0..(n - 1) -> [count : Nat, start : Nat, duration : Int]]
  <2>1. kept \in [count : Nat, start : Nat, duration : Int]
    <3> HIDE DEF kept, spent, i
    <3> QED BY <1>3, <1>5, <1>11, <1>19
  <2> HIDE DEF kept
  <2>2. profiler'.buffer = [profiler.buffer EXCEPT ![q] = kept]
    BY <1>9 DEF kept
  <2>3. profiler.buffer \in [0..(n - 1) -> [count : Nat, start : Nat, duration : Int]]
    BY <1>2 DEF Ring
  <2> HIDE DEF n, q
  <2> QED BY <1>3, <2>1, <2>2, <2>3
<1>13. profiler'.buffer[q] = kept /\ \A s \in 0..(n - 1) : s # q => profiler'.buffer[s] = profiler.buffer[s]
  <2> HIDE DEF kept
  <2>1. profiler'.buffer = [profiler.buffer EXCEPT ![q] = kept]
    BY <1>9 DEF kept
  <2> QED BY <1>2, <1>3, <2>1 DEF Ring
<1>16. calling' = [u \in TraceCallers |-> calling'[u]]
  BY <1>1 DEF TraceInv
<1>17. \A u \in TraceCallers : Reading(calling[u])'
  <2>1. \A u \in TraceCallers : Reading(calling[u])
    BY DEF TraceInv
  <2>2. \A u \in TraceCallers : calling'[u] = IF u = t THEN NotCalling ELSE calling[u]
    BY <1>1 DEF TraceInv
  <2> QED BY <1>8, <2>1, <2>2 DEF Reading, NotCalling
<1> HIDE DEF n, l, i, q, trace, spent, kept
<1>14. ASSUME NEW j \in 1..l
       PROVE  /\ told'[j].place = (j - 1) % n
              /\ l - j < n => Held(j)'
  <2>1. told[j].place = (j - 1) % n /\ (l - j < n => Held(j)) /\ j - 1 \in Nat
    BY <1>2 DEF Ring, n, l
  <2>2. CASE j = i
    <3>1. told'[j].place = told[j].place /\ told'[j].start = told[i].start /\ told'[j].spent = spent
      BY <1>2, <1>8, <2>2 DEF Told
    <3>2. profiler'.buffer[(j - 1) % n] = kept
      BY <1>3, <1>13, <2>2
    <3>3. Held(j)'
      BY <1>9, <1>11, <2>2, <3>1, <3>2 DEF Held
    <3> QED BY <2>1, <3>1, <3>3
  <2>3. CASE j # i
    <3>1. told'[j] = told[j]
      BY <1>8, <2>3
    <3>2. ASSUME l - j < n
          PROVE  Held(j)'
      <4>1. (j - 1) % n # q
        <5>1. CASE j < i
          <6>1. j - 1 < i - 1 /\ (i - 1) - (j - 1) < n
            BY <1>2, <3>2, <5>1
          <6> QED BY <1>2, <1>3, <2>1, <6>1, PlacesDiffer
        <5>2. CASE i < j
          <6>1. i - 1 < j - 1 /\ (j - 1) - (i - 1) < n
            BY <1>2, <1>3, <5>2
          <6> QED BY <1>2, <1>3, <2>1, <6>1, PlacesDiffer
        <5> QED BY <1>2, <2>3, <5>1, <5>2
      <4>2. (j - 1) % n \in 0..(n - 1)
        BY <1>2, <2>1, NextPlace
      <4>3. profiler'.buffer[(j - 1) % n] = profiler.buffer[(j - 1) % n]
        BY <1>13, <4>1, <4>2
      <4> QED BY <1>9, <2>1, <3>1, <3>2, <4>3 DEF Held, n
    <3> QED BY <2>1, <3>1, <3>2
  <2> QED BY <2>2, <2>3
<1>15. Ring'
  BY <1>2, <1>8, <1>9, <1>12, <1>14 DEF Ring, n, l
<1> QED BY <1>8, <1>10, <1>15, <1>16, <1>17 DEF TraceInv

LEMMA TracesNext ==
    ASSUME ~LateStops, TraceInv, [TraceNext]_traceVars
    PROVE  TraceInv'
<1>1. CASE \E n \in RingSizes, l \in TraceLevels : profilerInitialize(n, l)
  BY <1>1, Initializes
<1>2. CASE profilerRelease
  <2>1. profiler' = NoProfiler /\ told' = << >> /\ calling' = calling /\ \A t \in TraceCallers : calling[t] = NotCalling
    BY <1>2 DEF profilerRelease
  <2>2. \A t \in TraceCallers : Reading(calling[t])'
    BY <2>1 DEF Reading, NotCalling
  <2> QED BY <2>1, <2>2, EmptySeq DEF TraceInv
<1>3. CASE \E l \in TraceLevels \cup {TRACE_LEVEL.DISABLED} : setProfilerLevel(l)
  BY <1>3, Levels
<1>4. CASE \E t \in TraceCallers, l \in TraceLevels : traceStart(t, l)
  <2> PICK t \in TraceCallers, l \in TraceLevels : traceStart(t, l)
    BY <1>4
  <2> DEFINE x == [NotCalling EXCEPT !.fn = IF profiler.startFn = "noop" THEN "startNoop" ELSE "startInternal",
                                     !.level = l, !.time = Now]
  <2>1. Now \in Nat
    BY ToldIs DEF TraceInv
  <2>2. Reading(x)
    BY <2>1 DEF Reading, NotCalling
  <2> QED BY <2>2, TraceStarts DEF traceStart
<1>5. CASE \E t \in TraceCallers : traceStartNoop(t)
  <2> PICK t \in TraceCallers : traceStartNoop(t)
    BY <1>5
  <2>1. profiler # NoProfiler
    BY DEF TraceInv, traceStartNoop, NotCalling
  <2>2. Reading(NotCalling)
    BY DEF Reading, NotCalling
  <2> QED BY <2>1, <2>2, TraceStarts DEF traceStartNoop
<1>6. CASE \E t \in TraceCallers : traceStartInternalWorker(t)
  BY <1>6, Records
<1>7. CASE \E t \in TraceCallers : traceStopInternalWorker(t)
  BY <1>7, StopsOwn
<1>9. CASE \E t \in TraceCallers : \E i \in DOMAIN told : traceStop(t, i)
  BY <1>9, StopsBegin
<1>8. CASE UNCHANGED traceVars
  <2>1. profiler' = profiler /\ told' = told /\ calling' = calling
    BY <1>8 DEF traceVars
  <2>2. \A i : Held(i)' = Held(i)
    BY <2>1 DEF Held
  <2> QED BY <2>1, <2>2 DEF TraceInv, Ring, Reading
<1> QED BY <1>1, <1>2, <1>3, <1>4, <1>5, <1>6, <1>7, <1>8, <1>9 DEF TraceNext

\* getFormattedTraceBuffer shows the latest traces, each with its own time, for any size of
\* the ring, any number of laps and any threads, as long as no trace is stopped when the
\* ring is about to take its place (profileStopInternalWorker cannot tell a lap that late).
THEOREM TracesAreTold ==
    ASSUME ~LateStops
    PROVE  TraceSpec => []TracesTold
<1>1. TraceInit => TraceInv
  BY EmptySeq DEF TraceInit, TraceInv, Reading, NotCalling
<1>2. TraceInv /\ [TraceNext]_traceVars => TraceInv'
  BY TracesNext
<1>3. TraceInv => TracesTold
  BY TracesShown
<1> QED BY <1>1, <1>2, <1>3, PTL DEF TraceSpec

-----------------------------------------------------------------------------
\* the total of a set of blocks, the fold of AllocationsAccounted
Total(bs, S) == FoldSet(LAMBDA b, sum : sum + bs[b].size, 0, S)

Folds(it, bs, S) ==
    it = [s \in SUBSET S |-> IF s = {} THEN 0
                             ELSE it[s \ {CHOOSE x \in s : TRUE}] + bs[CHOOSE x \in s : TRUE].size]

LEMMA TotalIsSum ==
    ASSUME NEW bs, NEW S, IsFiniteSet(S)
    PROVE  Total(bs, S) = Sum([b \in S |-> bs[b].size], S)
<1> DEFINE v == [b \in S |-> bs[b].size]
<1>1. \A it : Folds(it, bs, S) <=> Adds(it, v, S)
  <2>1. TAKE it
  <2>2. \A s \in SUBSET S :
           (IF s = {} THEN 0 ELSE it[s \ {CHOOSE x \in s : TRUE}] + bs[CHOOSE x \in s : TRUE].size)
             = SumStep(it, v, s)
    BY DEF SumStep, Pick
  <2>3. [s \in SUBSET S |-> IF s = {} THEN 0 ELSE it[s \ {CHOOSE x \in s : TRUE}] + bs[CHOOSE x \in s : TRUE].size]
          = [s \in SUBSET S |-> SumStep(it, v, s)]
    BY <2>2
  <2> QED BY <2>3 DEF Adds, Folds
<1> DEFINE it == CHOOSE f : Folds(f, bs, S)
<1>2. Total(bs, S) = it[S]
  BY DEF Total, FoldSet, MapThenFoldSet, Folds
<1>3. Folds(it, bs, S)
  <2>1. \E f : Adds(f, v, S)
    BY AddsExists
  <2>2. \E f : Folds(f, bs, S)
    BY <1>1, <2>1
  <2> QED BY <2>2
<1>4. Adds(it, v, S)
  BY <1>1, <1>3
<1> HIDE DEF it, v
<1>5. \A s \in SUBSET S : it[s] = Sum(v, s)
  BY <1>4, SumAdds
<1>6. it[S] = Sum(v, S)
  BY <1>5
<1>7. Total(bs, S) = Sum(v, S)
  BY <1>2, <1>6
<1> QED BY <1>7 DEF v

LEMMA TotalEmpty ==
    ASSUME NEW bs
    PROVE  Total(bs, {}) = 0
BY TotalIsSum, SumEmpty, FS_EmptySet

LEMMA TotalSame ==
    ASSUME NEW bs, NEW cs, NEW S, IsFiniteSet(S), \A b \in S : bs[b].size = cs[b].size
    PROVE  Total(bs, S) = Total(cs, S)
<1> DEFINE v == [b \in S |-> bs[b].size]
           w == [b \in S |-> cs[b].size]
<1>1. \A b \in S : v[b] = w[b]
  OBVIOUS
<1>2. Total(bs, S) = Sum(v, S) /\ Total(cs, S) = Sum(w, S)
  BY TotalIsSum
<1> HIDE DEF v, w
<1>3. Sum(v, S) = Sum(w, S)
  BY <1>1, SumSame
<1> QED BY <1>2, <1>3

LEMMA TotalWithout ==
    ASSUME NEW bs, NEW S, IsFiniteSet(S), \A b \in S : bs[b].size \in Nat, NEW x \in S
    PROVE  /\ Total(bs, S) = Total(bs, S \ {x}) + bs[x].size
           /\ Total(bs, S) \in Nat /\ Total(bs, S \ {x}) \in Nat
<1> DEFINE v == [b \in S |-> bs[b].size]
           T == S \ {x}
           w == [b \in T |-> bs[b].size]
<1>1. IsFiniteSet(T)
  BY FS_RemoveElement
<1>2. (\A b \in S : v[b] \in Nat) /\ (\A b \in T : w[b] \in Nat) /\ (\A b \in T : v[b] = w[b]) /\ v[x] = bs[x].size
  OBVIOUS
<1>3. Total(bs, S) = Sum(v, S)
  BY TotalIsSum
<1>4. Total(bs, T) = Sum(w, T)
  BY <1>1, TotalIsSum
<1> HIDE DEF v, w
<1>5. Sum(v, S) = Sum(v, S \ {x}) + v[x] /\ Sum(v, S) \in Nat
  BY <1>2, SumRemoves
<1>6. Sum(w, T) \in Nat
  BY <1>1, <1>2, SumRemoves
<1>7. Sum(v, T) = Sum(w, T)
  BY <1>1, <1>2, SumSame
<1> QED BY <1>2, <1>3, <1>4, <1>5, <1>6, <1>7

-----------------------------------------------------------------------------
(* The layers of allocators.                                               *)
Content == [alloc |-> "content", realloc |-> "base", free |-> "content"]
ContentOverInstrumented == [alloc |-> "content", realloc |-> "instrumented", free |-> "content"]

\* who is on top of whom
Layers ==
    \/ hooks = Base /\ stored = NotStored /\ ~store.set
    \/ hooks = Instrumented /\ stored = Base /\ ~store.set
    \/ hooks = Content /\ stored = NotStored /\ store.set /\ store.replaced = Base
    \/ hooks = Instrumented /\ stored = Content /\ store.set /\ store.replaced = Base
    \/ hooks = ContentOverInstrumented /\ stored = Base /\ store.set /\ store.replaced = Instrumented

Made == {<<"base">>, <<"content">>, <<"instrumented", "base">>, <<"instrumented", "content">>}

CountedBlocks(bs) == {b \in DOMAIN bs : Counted(bs[b].made)}

\* a counted block was made while the instrumented allocators were set that are still set
Whence(b) ==
    /\ DOMAIN blocks[b] = {"size", "made"}
    /\ blocks[b].size \in Nat /\ blocks[b].made \in Made
    /\ Counted(blocks[b].made) => stored # NotStored
    /\ blocks[b].made = <<"instrumented", "content">> => stored = Content

AllocInv ==
    /\ Layers
    /\ DOMAIN store = {"set", "heap", "replaced", "total"}
    /\ store.set \in BOOLEAN /\ store.heap \in BOOLEAN /\ (store.set => store.heap)
    /\ IsFiniteSet(DOMAIN blocks)
    /\ \A b \in DOMAIN blocks : Whence(b)
    /\ total = Total(blocks, CountedBlocks(blocks))

\* how a call of an allocator goes, in every arrangement of the layers
LEMMA Ways ==
    /\ \A h \in {"base", "content"}, of \in {"alloc", "realloc", "free"} : Through(h, of) = <<h>>
    /\ \A of \in {"alloc", "realloc", "free"} :
          stored[of] # "instrumented" => Through("instrumented", of) = <<"instrumented", stored[of]>>
<1>1. \A a, b : <<a>> \o <<b>> = <<a, b>>
  <2>1. TAKE a, b
  <2> DEFINE s == <<a>> \o <<b>>
  <2>2. <<a>> \in Seq({a, b}) /\ <<b>> \in Seq({a, b}) /\ Len(<<a>>) = 1 /\ Len(<<b>>) = 1
    OBVIOUS
  <2>3. s \in Seq({a, b}) /\ Len(s) = 2 /\ s[1] = a /\ s[2] = b
    BY <2>2, ConcatProperties
  <2> HIDE DEF s
  <2>4. s = <<a, b>>
    BY <2>3
  <2> QED BY <2>4 DEF s
<1> QED BY <1>1 DEF Through

LEMMA Kinds ==
    /\ Counted(<<"instrumented", "base">>) /\ Counted(<<"instrumented", "content">>)
    /\ ~Counted(<<"base">>) /\ ~Counted(<<"content">>)
    /\ InStore(<<"content">>) /\ InStore(<<"instrumented", "content">>)
    /\ ~InStore(<<"base">>) /\ ~InStore(<<"instrumented", "base">>)
BY DEF Counted, InStore

LEMMA MadeBy ==
    ASSUME Layers, NEW of \in {"alloc", "realloc", "free"}
    PROVE  /\ Through(hooks[of], of) \in Made
           /\ Counted(Through(hooks[of], of)) => stored # NotStored
           /\ Through(hooks[of], of) = <<"instrumented", "content">> => stored = Content
<1>1. CASE hooks = Base /\ stored = NotStored
  BY <1>1, Ways, Kinds DEF Base, Made
<1>2. CASE hooks = Instrumented /\ stored = Base
  <2>1. hooks[of] = "instrumented" /\ stored[of] = "base" /\ stored # NotStored
    BY <1>2 DEF Instrumented, Base, NotStored
  <2>2. Through(hooks[of], of) = <<"instrumented", "base">>
    BY <2>1, Ways
  <2> QED BY <2>1, <2>2 DEF Made
<1>3. CASE hooks = Content /\ stored = NotStored
  BY <1>3, Ways, Kinds DEF Content, Made
<1>4. CASE hooks = Instrumented /\ stored = Content
  <2>1. hooks[of] = "instrumented" /\ stored[of] \in {"base", "content"} /\ stored # NotStored
    BY <1>4 DEF Instrumented, Content, NotStored
  <2>2. Through(hooks[of], of) = <<"instrumented", stored[of]>>
    BY <2>1, Ways
  <2> QED BY <1>4, <2>1, <2>2 DEF Made
<1>5. CASE hooks = ContentOverInstrumented /\ stored = Base
  <2>1. stored[of] = "base" /\ stored # NotStored
    BY <1>5 DEF Base, NotStored
  <2>2. hooks[of] \in {"content", "instrumented"}
    BY <1>5 DEF ContentOverInstrumented
  <2>3. CASE hooks[of] = "content"
    BY <2>1, <2>3, Ways DEF Made
  <2>4. CASE hooks[of] = "instrumented"
    <3>1. Through(hooks[of], of) = <<"instrumented", "base">>
      BY <2>1, <2>4, Ways
    <3> QED BY <2>1, <3>1 DEF Made
  <2> QED BY <2>2, <2>3, <2>4
<1> QED BY <1>1, <1>2, <1>3, <1>4, <1>5 DEF Layers

LEMMA CountedFinite ==
    ASSUME AllocInv
    PROVE  /\ IsFiniteSet(CountedBlocks(blocks)) /\ CountedBlocks(blocks) \subseteq DOMAIN blocks
           /\ \A b \in CountedBlocks(blocks) : blocks[b].size \in Nat
<1>1. CountedBlocks(blocks) \in SUBSET DOMAIN blocks
  BY DEF CountedBlocks
<1> QED BY <1>1, FS_Subset DEF AllocInv, Whence

LEMMA AllocStarts == AllocInit => AllocInv
<1> SUFFICES ASSUME AllocInit PROVE AllocInv
  OBVIOUS
<1>1. DOMAIN blocks = {}
  BY DEF AllocInit
<1>2. CountedBlocks(blocks) = {}
  BY <1>1 DEF CountedBlocks
<1>3. total = Total(blocks, CountedBlocks(blocks))
  BY <1>2, TotalEmpty DEF AllocInit
<1>4. Layers
  BY DEF AllocInit, Layers, NoStore
<1> QED BY <1>1, <1>3, <1>4, FS_EmptySet DEF AllocInit, AllocInv, NoStore

\* a step that leaves the blocks alone
LEMMA LayersChange ==
    ASSUME AllocInv, UNCHANGED <<total, blocks>>, Layers',
           DOMAIN store' = {"set", "heap", "replaced", "total"},
           store'.set \in BOOLEAN, store'.heap \in BOOLEAN, store'.set => store'.heap,
           stored # NotStored => stored' = stored
    PROVE  AllocInv'
<1>1. \A b \in DOMAIN blocks : Whence(b)'
  <2>1. TAKE b \in DOMAIN blocks
  <2>2. Whence(b) /\ blocks' = blocks
    BY DEF AllocInv
  <2>3. Content # NotStored
    BY DEF Content, NotStored
  <2> QED BY <2>2, <2>3 DEF Whence, Counted
<1> QED BY <1>1 DEF AllocInv, CountedBlocks, Counted

LEMMA SetInstrumented ==
    ASSUME AllocInv, setInstrumentedAllocators
    PROVE  AllocInv'
<1>1. /\ stored = NotStored /\ stored' = hooks /\ hooks' = Instrumented
      /\ UNCHANGED <<store, total, blocks>>
  BY DEF setInstrumentedAllocators
<1>2. NotStored # Base /\ NotStored # Content
  BY DEF NotStored, Base, Content
<1>3. Layers'
  BY <1>1, <1>2 DEF AllocInv, Layers
<1> QED BY <1>1, <1>3, LayersChange DEF AllocInv

LEMMA SetStore ==
    ASSUME AllocInv, setContentStoreAllocator
    PROVE  AllocInv'
<1>1. /\ ~store.set /\ store' = [set |-> TRUE, heap |-> TRUE, replaced |-> hooks, total |-> 0]
      /\ hooks' = [hooks EXCEPT !.alloc = "content", !.free = "content"]
      /\ UNCHANGED <<stored, total, blocks>>
  BY DEF setContentStoreAllocator
<1>2. CASE hooks = Base /\ stored = NotStored
  <2>1. hooks' = Content
    BY <1>1, <1>2 DEF Base, Content
  <2>2. Layers'
    BY <1>1, <1>2, <2>1 DEF Layers
  <2> QED BY <1>1, <2>2, LayersChange
<1>3. CASE hooks = Instrumented /\ stored = Base
  <2>1. hooks' = ContentOverInstrumented
    BY <1>1, <1>3 DEF Instrumented, ContentOverInstrumented
  <2>2. Layers'
    BY <1>1, <1>3, <2>1 DEF Layers
  <2> QED BY <1>1, <2>2, LayersChange
<1> QED BY <1>1, <1>2, <1>3 DEF AllocInv, Layers

\* a step after which other blocks are left, none of which was changed
LEMMA BlocksGo ==
    ASSUME AllocInv, NEW kept \in SUBSET DOMAIN blocks,
           blocks' = [b \in kept |-> blocks[b]],
           total' = Total(blocks, CountedBlocks(blocks) \cap kept),
           \A b \in kept : /\ Counted(blocks[b].made) => stored' # NotStored
                           /\ blocks[b].made = <<"instrumented", "content">> => stored' = Content,
           Layers', DOMAIN store' = {"set", "heap", "replaced", "total"},
           store'.set \in BOOLEAN, store'.heap \in BOOLEAN, store'.set => store'.heap
    PROVE  AllocInv'
<1>1. DOMAIN blocks' = kept /\ \A b \in kept : blocks'[b] = blocks[b]
  OBVIOUS
<1>2. CountedBlocks(blocks') = CountedBlocks(blocks) \cap kept
  BY <1>1 DEF CountedBlocks
<1>3. IsFiniteSet(kept) /\ IsFiniteSet(CountedBlocks(blocks) \cap kept)
  <2>1. IsFiniteSet(DOMAIN blocks)
    BY DEF AllocInv
  <2>2. CountedBlocks(blocks) \cap kept \in SUBSET DOMAIN blocks
    OBVIOUS
  <2> QED BY <2>1, <2>2, FS_Subset
<1>4. Total(blocks, CountedBlocks(blocks) \cap kept) = Total(blocks', CountedBlocks(blocks) \cap kept)
  BY <1>1, <1>3, TotalSame
<1>5. total' = Total(blocks', CountedBlocks(blocks'))
  BY <1>2, <1>4
<1>6. \A b \in kept : Whence(b)'
  BY <1>1 DEF AllocInv, Whence, Counted
<1> QED BY <1>1, <1>3, <1>5, <1>6 DEF AllocInv, CountedBlocks, Counted

LEMMA ResetInstrumented ==
    ASSUME AllocInv, "reset" \notin Careless, resetInstrumentedAllocators
    PROVE  AllocInv'
<1> DEFINE kept == {c \in DOMAIN blocks : ~Counted(blocks[c].made)}
<1>1. /\ stored # NotStored /\ hooks = Instrumented /\ hooks' = stored /\ stored' = NotStored
      /\ total' = 0 /\ store' = store
      /\ blocks' = [b \in kept |-> blocks[b]]
  <2>1. hooks = Instrumented
    BY DEF resetInstrumentedAllocators
  <2>2. {c \in DOMAIN blocks : hooks # Instrumented \/ ~Counted(blocks[c].made)} = kept
    BY <2>1
  <2> QED BY <2>1, <2>2 DEF resetInstrumentedAllocators
<1>2. CountedBlocks(blocks) \cap kept = {}
  BY DEF CountedBlocks
<1>3. total' = Total(blocks, CountedBlocks(blocks) \cap kept)
  BY <1>1, <1>2, TotalEmpty
<1>4. \A b \in kept : ~Counted(blocks[b].made) /\ blocks[b].made # <<"instrumented", "content">>
  BY Kinds
<1>5. Layers'
  <2>1. Instrumented # Base /\ Instrumented # Content /\ Instrumented # ContentOverInstrumented
    BY DEF Instrumented, Base, Content, ContentOverInstrumented
  <2> QED BY <1>1, <2>1 DEF AllocInv, Layers
<1> HIDE DEF kept
<1>6. kept \in SUBSET DOMAIN blocks
  BY DEF kept
<1> QED BY <1>1, <1>3, <1>4, <1>5, <1>6, BlocksGo DEF AllocInv

LEMMA FreeClient ==
    ASSUME AllocInv, "create" \notin Careless, "order" \notin Careless, NEW failed \in BOOLEAN,
           freeKinesisVideoClientInternal(failed)
    PROVE  AllocInv'
<1> DEFINE kept == {c \in DOMAIN blocks : ~InStore(blocks[c].made)}
<1>1. /\ store.set /\ hooks.alloc = "content" /\ store' = NoStore
      /\ hooks' = [hooks EXCEPT !.alloc = store.replaced.alloc, !.free = store.replaced.free]
      /\ blocks' = [b \in kept |-> blocks[b]]
      /\ UNCHANGED <<stored, total>>
  BY DEF freeKinesisVideoClientInternal
<1>2. \/ hooks = Content /\ stored = NotStored /\ store.replaced = Base
      \/ hooks = ContentOverInstrumented /\ stored = Base /\ store.replaced = Instrumented
  <2>1. Instrumented.alloc # "content" /\ Base.alloc # "content"
    BY DEF Instrumented, Base
  <2> QED BY <1>1, <2>1 DEF AllocInv, Layers
<1>3. stored # Content
  BY <1>2 DEF Content, NotStored, Base
<1>4. \A b \in DOMAIN blocks : Counted(blocks[b].made) => b \in kept
  BY <1>3, Kinds DEF AllocInv, Whence, Made
<1>5. CountedBlocks(blocks) \cap kept = CountedBlocks(blocks)
  BY <1>4 DEF CountedBlocks
<1>6. total' = Total(blocks, CountedBlocks(blocks) \cap kept)
  BY <1>1, <1>5 DEF AllocInv
<1>7. Layers'
  <2>0. ~store'.set
    BY <1>1 DEF NoStore
  <2>1. CASE hooks = Content /\ stored = NotStored /\ store.replaced = Base
    <3>1. hooks' = Base
      <4>1. hooks' = [Content EXCEPT !.alloc = Base.alloc, !.free = Base.free]
        BY <1>1, <2>1
      <4> QED BY <4>1 DEF Content, Base
    <3> QED BY <1>1, <2>0, <2>1, <3>1 DEF Layers
  <2>2. CASE hooks = ContentOverInstrumented /\ stored = Base /\ store.replaced = Instrumented
    <3>1. hooks' = Instrumented
      <4>1. hooks' = [ContentOverInstrumented EXCEPT !.alloc = Instrumented.alloc, !.free = Instrumented.free]
        BY <1>1, <2>2
      <4> QED BY <4>1 DEF ContentOverInstrumented, Instrumented
    <3> QED BY <1>1, <2>0, <2>2, <3>1 DEF Layers
  <2> QED BY <1>2, <2>1, <2>2
<1>8. \A b \in kept : /\ Counted(blocks[b].made) => stored' # NotStored
                      /\ blocks[b].made = <<"instrumented", "content">> => stored' = Content
  BY <1>1 DEF AllocInv, Whence
<1>9. /\ DOMAIN store' = {"set", "heap", "replaced", "total"}
      /\ store'.set \in BOOLEAN /\ store'.heap \in BOOLEAN /\ (store'.set => store'.heap)
  BY <1>1 DEF NoStore
<1>10. kept \in SUBSET DOMAIN blocks
  OBVIOUS
<1> HIDE DEF kept
<1> QED BY <1>1, <1>6, <1>7, <1>8, <1>9, <1>10, BlocksGo

\* layers that stay, with another total of the content store
LEMMA StoreCounts ==
    ASSUME AllocInv, UNCHANGED <<hooks, stored>>, NEW n,
           store' = store \/ store' = [store EXCEPT !.total = n]
    PROVE  /\ Layers' /\ DOMAIN store' = {"set", "heap", "replaced", "total"}
           /\ store'.set \in BOOLEAN /\ store'.heap \in BOOLEAN /\ (store'.set => store'.heap)
<1>1. /\ store'.set = store.set /\ store'.heap = store.heap /\ store'.replaced = store.replaced
      /\ DOMAIN store' = DOMAIN store
  BY DEF AllocInv
<1> QED BY <1>1 DEF AllocInv, Layers

LEMMA Allocates ==
    ASSUME AllocInv, NEW b, NEW size \in Nat, NEW fails \in BOOLEAN, Allocate(b, size, fails)
    PROVE  AllocInv'
<1> DEFINE made == Through(hooks.alloc, "alloc")
           new == [size |-> size, made |-> made]
           S == CountedBlocks(blocks)
<1>1. /\ b \notin DOMAIN blocks /\ UNCHANGED <<hooks, stored>>
      /\ total' = IF fails \/ ~Counted(made) THEN total ELSE total + size
      /\ blocks' = IF fails THEN blocks
                   ELSE [c \in DOMAIN blocks \cup {b} |-> IF c = b THEN new ELSE blocks[c]]
      /\ store' = IF InStore(made) THEN [store EXCEPT !.total = @ + size + 1] ELSE store
  BY DEF Allocate, instrumentedAllocatorsMemAlloc, contentStoreMemAlloc
<1>2. /\ made \in Made /\ (Counted(made) => stored # NotStored)
      /\ made = <<"instrumented", "content">> => stored = Content
  BY MadeBy DEF AllocInv
<1>3. /\ Layers' /\ DOMAIN store' = {"set", "heap", "replaced", "total"}
      /\ store'.set \in BOOLEAN /\ store'.heap \in BOOLEAN /\ (store'.set => store'.heap)
  BY <1>1, StoreCounts
<1> HIDE DEF made
<1>4. CASE fails
  <2>1. total' = total /\ blocks' = blocks /\ stored' = stored
    BY <1>1, <1>4
  <2> QED BY <1>3, <2>1, LayersChange
<1>5. CASE ~fails
  <2>1. /\ DOMAIN blocks' = DOMAIN blocks \cup {b} /\ blocks'[b] = new
        /\ \A c \in DOMAIN blocks : blocks'[c] = blocks[c]
    BY <1>1, <1>5
  <2>2. IsFiniteSet(DOMAIN blocks')
    BY <2>1, FS_AddElement DEF AllocInv
  <2>3. \A c \in DOMAIN blocks' : Whence(c)'
    BY <1>1, <1>2, <2>1 DEF AllocInv, Whence, Counted
  <2>4. IsFiniteSet(S) /\ (\A c \in S : blocks[c].size \in Nat) /\ b \notin S /\ S \subseteq DOMAIN blocks
    BY <1>1, CountedFinite
  <2>5. Total(blocks', S) = Total(blocks, S)
    <3>1. \A c \in S : blocks'[c].size = blocks[c].size
      BY <2>1, <2>4
    <3> HIDE DEF S
    <3> QED BY <2>4, <3>1, TotalSame
  <2>6. total' = Total(blocks', CountedBlocks(blocks'))
    <3>1. CASE Counted(made)
      <4>1. CountedBlocks(blocks') = S \cup {b}
        BY <2>1, <3>1 DEF CountedBlocks
      <4> DEFINE T == S \cup {b}
      <4>2. IsFiniteSet(T) /\ b \in T /\ T \ {b} = S
        BY <2>4, FS_AddElement
      <4>3. \A c \in T : blocks'[c].size \in Nat
        BY <2>1, <2>4
      <4>4. blocks'[b].size = size
        BY <2>1
      <4> HIDE DEF T, S
      <4>5. Total(blocks', T) = Total(blocks', S) + size
        BY <4>2, <4>3, <4>4, TotalWithout
      <4>6. total' = Total(blocks, S) + size
        BY <1>1, <1>5, <3>1 DEF AllocInv, S
      <4> QED BY <2>5, <4>1, <4>5, <4>6 DEF T
    <3>2. CASE ~Counted(made)
      <4>1. CountedBlocks(blocks') = S
        BY <2>1, <3>2, <1>1 DEF CountedBlocks
      <4> QED BY <1>1, <2>5, <3>2, <4>1 DEF AllocInv
    <3> QED BY <3>1, <3>2
  <2> QED BY <1>3, <2>2, <2>3, <2>6 DEF AllocInv, CountedBlocks, Counted
<1> QED BY <1>4, <1>5

LEMMA Reallocates ==
    ASSUME AllocInv, NEW b, NEW size \in Nat, NEW fails \in BOOLEAN,
           instrumentedAllocatorsMemRealloc(b, size, fails)
    PROVE  AllocInv'
<1> DEFINE S == CountedBlocks(blocks)
<1>1. /\ b \in DOMAIN blocks /\ UNCHANGED <<hooks, stored, store>>
      /\ total' = IF fails \/ ~Counted(blocks[b].made) THEN total ELSE total + size - blocks[b].size
      /\ blocks' = IF fails THEN blocks ELSE [blocks EXCEPT ![b].size = size]
  BY DEF instrumentedAllocatorsMemRealloc
<1>2. /\ Layers' /\ DOMAIN store' = {"set", "heap", "replaced", "total"}
      /\ store'.set \in BOOLEAN /\ store'.heap \in BOOLEAN /\ (store'.set => store'.heap)
  BY <1>1, StoreCounts
<1>3. CASE fails
  <2>1. total' = total /\ blocks' = blocks /\ stored' = stored
    BY <1>1, <1>3
  <2> QED BY <1>2, <2>1, LayersChange
<1>4. CASE ~fails
  <2>1. /\ DOMAIN blocks' = DOMAIN blocks
        /\ \A c \in DOMAIN blocks : c # b => blocks'[c] = blocks[c]
        /\ blocks'[b] = [blocks[b] EXCEPT !.size = size]
    BY <1>1, <1>4
  <2>2. blocks'[b].made = blocks[b].made /\ blocks'[b].size = size /\ DOMAIN blocks'[b] = {"size", "made"}
    BY <1>1, <2>1 DEF AllocInv, Whence
  <2>3. \A c \in DOMAIN blocks : Whence(c)'
    BY <1>1, <2>1, <2>2 DEF AllocInv, Whence, Counted
  <2>4. CountedBlocks(blocks') = S
    BY <2>1, <2>2 DEF CountedBlocks
  <2>5. IsFiniteSet(S) /\ (\A c \in S : blocks[c].size \in Nat) /\ S \subseteq DOMAIN blocks
    BY CountedFinite
  <2>6. total' = Total(blocks', S)
    <3>1. CASE Counted(blocks[b].made)
      <4> DEFINE T == S \ {b}
      <4>1. b \in S /\ T \in SUBSET S
        BY <1>1, <3>1 DEF CountedBlocks
      <4>2. \A c \in S : blocks'[c].size \in Nat
        BY <2>1, <2>2, <2>5
      <4>3. IsFiniteSet(T) /\ \A c \in T : blocks[c].size = blocks'[c].size
        BY <2>1, <2>5, FS_Subset
      <4>4. total = Total(blocks, S)
        BY DEF AllocInv
      <4>5. blocks[b].size \in Nat
        BY <2>5, <4>1
      <4> HIDE DEF S, T
      <4>6. Total(blocks, T) = Total(blocks', T)
        BY <4>3, TotalSame
      <4>7. Total(blocks, S) = Total(blocks, S \ {b}) + blocks[b].size /\ Total(blocks, S \ {b}) \in Nat
        BY <2>5, <4>1, TotalWithout
      <4>8. Total(blocks', S) = Total(blocks', S \ {b}) + blocks'[b].size
        BY <2>5, <4>1, <4>2, TotalWithout
      <4>9. Total(blocks', S) = Total(blocks, S \ {b}) + size
        BY <2>2, <4>6, <4>8 DEF T
      <4>10. total' = total + size - blocks[b].size
        BY <1>1, <1>4, <3>1
      <4> QED BY <4>4, <4>5, <4>7, <4>9, <4>10
    <3>2. CASE ~Counted(blocks[b].made)
      <4>1. \A c \in S : blocks[c].size = blocks'[c].size
        BY <2>1, <3>2 DEF CountedBlocks
      <4>2. total' = Total(blocks, S)
        BY <1>1, <3>2 DEF AllocInv
      <4> HIDE DEF S
      <4>3. Total(blocks, S) = Total(blocks', S)
        BY <2>5, <4>1, TotalSame
      <4> QED BY <4>2, <4>3
    <3> QED BY <3>1, <3>2
  <2>7. total' = Total(blocks', CountedBlocks(blocks'))
    BY <2>4, <2>6
  <2> QED BY <1>2, <2>1, <2>3, <2>7 DEF AllocInv, CountedBlocks, Counted
<1> QED BY <1>3, <1>4

LEMMA Releases ==
    ASSUME AllocInv, NEW b, Release(b)
    PROVE  AllocInv'
<1> DEFINE S == CountedBlocks(blocks)
           kept == DOMAIN blocks \ {b}
<1>1. /\ b \in DOMAIN blocks /\ UNCHANGED <<hooks, stored>>
      /\ total' = IF Counted(blocks[b].made) THEN total - blocks[b].size ELSE total
      /\ blocks' = [c \in kept |-> blocks[c]]
      /\ store' = IF InStore(blocks[b].made) THEN [store EXCEPT !.total = @ - blocks[b].size - 1] ELSE store
  BY DEF Release, Uncounted
<1>2. /\ Layers' /\ DOMAIN store' = {"set", "heap", "replaced", "total"}
      /\ store'.set \in BOOLEAN /\ store'.heap \in BOOLEAN /\ (store'.set => store'.heap)
  BY <1>1, StoreCounts
<1>3. IsFiniteSet(S) /\ (\A c \in S : blocks[c].size \in Nat) /\ S \subseteq DOMAIN blocks
  BY CountedFinite
<1>4. total' = Total(blocks, S \cap kept)
  <2>1. CASE Counted(blocks[b].made)
    <3>1. b \in S /\ S \cap kept = S \ {b}
      BY <1>1, <1>3, <2>1 DEF CountedBlocks
    <3>2. total = Total(blocks, S)
      BY DEF AllocInv
    <3>3. blocks[b].size \in Nat
      BY <1>3, <3>1
    <3> HIDE DEF S
    <3>4. Total(blocks, S) = Total(blocks, S \ {b}) + blocks[b].size /\ Total(blocks, S \ {b}) \in Nat
      BY <1>3, <3>1, TotalWithout
    <3>5. total' = total - blocks[b].size
      BY <1>1, <2>1
    <3>6. total' = Total(blocks, S \ {b})
      BY <3>2, <3>3, <3>4, <3>5
    <3> QED BY <3>1, <3>6
  <2>2. CASE ~Counted(blocks[b].made)
    <3>1. S \cap kept = S
      BY <2>2 DEF CountedBlocks
    <3> QED BY <1>1, <2>2, <3>1 DEF AllocInv
  <2> QED BY <2>1, <2>2
<1>5. \A c \in kept : /\ Counted(blocks[c].made) => stored' # NotStored
                      /\ blocks[c].made = <<"instrumented", "content">> => stored' = Content
  BY <1>1 DEF AllocInv, Whence
<1>6. kept \in SUBSET DOMAIN blocks
  OBVIOUS
<1> HIDE DEF kept
<1> QED BY <1>1, <1>2, <1>4, <1>5, <1>6, BlocksGo

LEMMA AllocNexts ==
    ASSUME AllocInv, Careless = {}, [AllocNext]_allocVars
    PROVE  AllocInv'
<1>1. CASE setInstrumentedAllocators
  BY <1>1, SetInstrumented
<1>2. CASE resetInstrumentedAllocators
  BY <1>2, ResetInstrumented
<1>3. CASE setContentStoreAllocator
  BY <1>3, SetStore
<1>4. ASSUME NEW failed \in BOOLEAN, freeKinesisVideoClientInternal(failed) PROVE AllocInv'
  BY <1>4, FreeClient
<1>5. ASSUME NEW b \in Blocks, NEW size \in Sizes, NEW fails \in BOOLEAN, Allocate(b, size, fails)
      PROVE  AllocInv'
  BY <1>5, AllocAssumption, Allocates
<1>6. ASSUME NEW b \in Blocks, NEW size \in Sizes, NEW fails \in BOOLEAN,
             instrumentedAllocatorsMemRealloc(b, size, fails)
      PROVE  AllocInv'
  BY <1>6, AllocAssumption, Reallocates
<1>7. ASSUME NEW b \in Blocks, Release(b) PROVE AllocInv'
  BY <1>7, Releases
<1>8. CASE UNCHANGED allocVars
  <2>1. Layers'
    BY <1>8 DEF AllocInv, Layers, allocVars
  <2> QED BY <1>8, <2>1, LayersChange DEF AllocInv, allocVars
<1> QED BY <1>1, <1>2, <1>3, <1>4, <1>5, <1>6, <1>7, <1>8 DEF AllocNext

(* While layers are taken away in reverse order and clients are created,   *)
(* the total of the instrumented allocators is what the live blocks hold   *)
(* that they handed out, and no hook leads to a layer that is gone         *)
(* (InstrumentedAllocators.c, the content store of Client.c).              *)
THEOREM AllocationsAreAccounted ==
    ASSUME Careless = {}
    PROVE  AllocSpec => []AllocationsAccounted
<1>1. AllocInit => AllocInv
  BY AllocStarts
<1>2. AllocInv /\ [AllocNext]_allocVars => AllocInv'
  BY AllocNexts
<1>3. AllocInv => AllocationsAccounted
  <2> SUFFICES ASSUME AllocInv PROVE AllocationsAccounted
    OBVIOUS
  <2>1. total = FoldSet(LAMBDA b, sum : sum + blocks[b].size, 0, {b \in DOMAIN blocks : Counted(blocks[b].made)})
    BY DEF AllocInv, Total, CountedBlocks
  <2>2. /\ \A f \in {"alloc", "realloc", "free"} : hooks[f] = "instrumented" => stored # NotStored
        /\ hooks.free = "content" => store.set /\ store.heap
        /\ hooks \in HookSet
    <3>1. /\ Base \in HookSet /\ Instrumented \in HookSet /\ Content \in HookSet /\ ContentOverInstrumented \in HookSet
      BY DEF Base, Instrumented, Content, ContentOverInstrumented, HookSet
    <3>2. Base # NotStored /\ Content # NotStored
      BY DEF Base, Content, NotStored
    <3>3. \A f \in {"alloc", "realloc", "free"} : Base[f] # "instrumented" /\ Content[f] # "instrumented"
      BY DEF Base, Content
    <3>4. Base.free # "content" /\ Instrumented.free # "content"
      BY DEF Base, Instrumented
    <3> QED BY <3>1, <3>2, <3>3, <3>4 DEF AllocInv, Layers
  <2> QED BY <2>1, <2>2 DEF AllocationsAccounted
<1> QED BY <1>1, <1>2, <1>3, PTL DEF AllocSpec

-----------------------------------------------------------------------------
(***************************************************************************)
(* The semaphore.                                                          *)
(*                                                                         *)
(* SemInv is inductive.  Beside what the runs check it says that a release *)
(* under way still has its grant to show for itself (so no release of a    *)
(* counting semaphore is ever refused), that each wake-up is matched by a  *)
(* release, and that the sleepers' tickets are all below zero.             *)
(***************************************************************************)

\* The threads whose place in f is one of those in A, counted.
Count(f, A) == Cardinality({u \in Threads : f[u] \in A})

\* What a thread that moves from `old' to `new' adds to the count of A.
Delta(A, old, new) == (IF new \in A THEN 1 ELSE 0) - (IF old \in A THEN 1 ELSE 0)

InQueue == {"waiting", "woken", "timedOut"}

-----------------------------------------------------------------------------
(* Counting.                                                               *)

(* A count is a natural number, at most the number of threads, and zero    *)
(* exactly when no thread is there.                                        *)
LEMMA CountType ==
    ASSUME NEW f, NEW A
    PROVE  /\ Count(f, A) \in 0 .. Cardinality(Threads)
           /\ IsFiniteSet({u \in Threads : f[u] \in A})
           /\ Count(f, A) = 0 <=> \A u \in Threads : f[u] \notin A
<1> DEFINE S == {u \in Threads : f[u] \in A}
<1>1. IsFiniteSet(S) /\ Cardinality(S) <= Cardinality(Threads)
  BY FS_Subset, CallersAssumption
<1>2. Cardinality(S) \in Nat /\ Cardinality(Threads) \in Nat
  BY <1>1, FS_CardinalityType, CallersAssumption
<1>3. Cardinality(S) = 0 <=> S = {}
  BY <1>1, FS_EmptySet
<1> QED
  BY <1>1, <1>2, <1>3 DEF Count

(* Two assignments that put the same threads in A count the same.          *)
LEMMA CountSame ==
    ASSUME NEW f, NEW g, NEW A, \A u \in Threads : f[u] \in A <=> g[u] \in A
    PROVE  Count(g, A) = Count(f, A)
<1>1. {u \in Threads : g[u] \in A} = {u \in Threads : f[u] \in A}
  OBVIOUS
<1> QED
  BY <1>1 DEF Count

(* One thread moves: the count changes by what it adds and takes away.     *)
LEMMA CountMove ==
    ASSUME NEW f, NEW g, NEW A, NEW t \in Threads,
           \A u \in Threads \ {t} : g[u] = f[u]
    PROVE  Count(g, A) = Count(f, A) + Delta(A, f[t], g[t])
<1> DEFINE F == {u \in Threads : f[u] \in A}
           G == {u \in Threads : g[u] \in A}
<1>1. IsFiniteSet(F) /\ Cardinality(F) \in Nat
  BY CountType, FS_CardinalityType DEF Count
<1>0. Count(f, A) = Cardinality(F) /\ Count(g, A) = Cardinality(G)
  BY DEF Count
<1>2. CASE f[t] \in A /\ g[t] \notin A
  <2>1. G = F \ {t} /\ t \in F
    BY <1>2
  <2>2. Cardinality(F \ {t}) = Cardinality(F) - 1
    BY <1>1, <2>1, FS_RemoveElement
  <2>3. Delta(A, f[t], g[t]) = -1
    BY <1>2 DEF Delta
  <2> HIDE DEF F, G
  <2> QED
    BY <1>0, <1>1, <2>1, <2>2, <2>3
<1>3. CASE f[t] \notin A /\ g[t] \in A
  <2>1. G = F \cup {t} /\ t \notin F
    BY <1>3
  <2>2. Cardinality(F \cup {t}) = Cardinality(F) + 1
    BY <1>1, <2>1, FS_AddElement
  <2>3. Delta(A, f[t], g[t]) = 1
    BY <1>3 DEF Delta
  <2> HIDE DEF F, G
  <2> QED
    BY <1>0, <1>1, <2>1, <2>2, <2>3
<1>4. CASE f[t] \in A <=> g[t] \in A
  <2>1. G = F
    BY <1>4
  <2>2. Delta(A, f[t], g[t]) = 0
    BY <1>4 DEF Delta
  <2> HIDE DEF F, G
  <2> QED
    BY <1>0, <1>1, <2>1, <2>2
<1> QED
  BY <1>2, <1>3, <1>4

-----------------------------------------------------------------------------
(* The inductive invariant.                                                *)

\* Who is where; only a semaphore waited for with a time-out has timed out.
Places ==
    /\ \A t \in Threads : pc[t] \in ThreadStates
    /\ \A t \in Drainers : pc[t] \in DrainerStates
    /\ ~Timeouts => \A t \in Threads : pc[t] # "timedOut"

\* semaphoreFree sets the flag when it begins.
FreeBegan == shutdown <=> owner # "using"

\* The tickets: after the shutdown the queue leaves without a grant, so the count
\* is only bounded from above.
Tickets == InitialPermits + produced - granted - Count(pc, InQueue) + Count(pc, {"fixup"})
Ledger ==
    /\ waitCount = Count(pc, InQueue)
    /\ permitCount <= Tickets
    /\ ~shutdown => permitCount = Tickets

\* The permits of a counting semaphore: a release under way has a grant that no
\* other release has used, and every woken thread has a release to thank for it.
Holders ==
    /\ Signalled => held = {}
    /\ ~Signalled =>
         /\ Count(pc, {"fixup"}) = 0
         /\ Cardinality(held) + Count(pc, {"releasing"}) <= granted - produced
         /\ granted <= MaxPermits + produced
         /\ ~shutdown => granted + Count(pc, {"woken"}) <= MaxPermits + produced

\* Each sleeper has a ticket of its own below zero.
Sleepers ==
    ~Timeouts /\ ~shutdown /\ Count(pc, {"waiting"}) > 0 =>
        permitCount + Count(pc, {"waiting"}) <= 0

SemInv == TypeOK /\ Places /\ FreeBegan /\ Ledger /\ Holders /\ Sleepers

(* The five counts of the invariant after a step that moves one thread.    *)
LEMMA OneMoves ==
    ASSUME NEW t \in Threads, \A u \in Threads \ {t} : pc'[u] = pc[u]
    PROVE  /\ Count(pc, InQueue)' = Count(pc, InQueue) + Delta(InQueue, pc[t], pc'[t])
           /\ \A s \in {"fixup", "releasing", "woken", "waiting"} :
                Count(pc', {s}) = Count(pc, {s}) + Delta({s}, pc[t], pc'[t])
<1>1. \A A : Count(pc', A) = Count(pc, A) + Delta(A, pc[t], pc'[t])
  BY CountMove
<1> QED
  BY <1>1 DEF Count, InQueue

(* The counts are natural numbers, and the woken and the sleeping are in   *)
(* the queue.                                                              *)
LEMMA Counts ==
    /\ \A A : Count(pc, A) \in Nat
    /\ Count(pc, InQueue) <= Cardinality(Threads)
    /\ Count(pc, {"woken"}) <= Count(pc, InQueue)
    /\ Count(pc, {"waiting"}) <= Count(pc, InQueue)
<1>1. \A A : Count(pc, A) \in 0 .. Cardinality(Threads)
  BY CountType
<1>2. Cardinality(Threads) \in Nat
  BY FS_CardinalityType, CallersAssumption
<1>3. ASSUME NEW A, NEW B, A \subseteq B
      PROVE  Count(pc, A) <= Count(pc, B)
  <2>1. {u \in Threads : pc[u] \in A} \subseteq {u \in Threads : pc[u] \in B}
    BY <1>3
  <2>2. IsFiniteSet({u \in Threads : pc[u] \in B})
    BY CountType
  <2> QED
    BY <2>1, <2>2, FS_Subset DEF Count
<1>4. {"woken"} \subseteq InQueue /\ {"waiting"} \subseteq InQueue
  BY DEF InQueue
<1> QED
  BY <1>1, <1>2, <1>3, <1>4

(* One more holder, or one less.                                           *)
LEMMA HoldersMove ==
    ASSUME SemInv, NEW t
    PROVE  /\ Cardinality(held) \in Nat
           /\ Cardinality(held \cup {t}) \in Nat /\ Cardinality(held \cup {t}) <= Cardinality(held) + 1
           /\ t \in held => Cardinality(held \ {t}) = Cardinality(held) - 1
           /\ t \notin held => held \ {t} = held
<1>1. IsFiniteSet(held)
  BY FS_Subset, CallersAssumption DEF SemInv, TypeOK
<1>2. Cardinality(held) \in Nat
  BY <1>1, FS_CardinalityType
<1>3. CASE t \in held
  <2>1. held \cup {t} = held
    BY <1>3
  <2>2. Cardinality(held \ {t}) = Cardinality(held) - 1
    BY <1>1, <1>3, FS_RemoveElement
  <2> QED
    BY <1>2, <1>3, <2>1, <2>2
<1>4. CASE t \notin held
  <2>1. Cardinality(held \cup {t}) = Cardinality(held) + 1
    BY <1>1, <1>4, FS_AddElement
  <2>2. held \ {t} = held
    BY <1>4
  <2> QED
    BY <1>2, <1>4, <2>1, <2>2
<1> QED
  BY <1>3, <1>4

(* The kind of the semaphore stays.                                        *)
LEMMA Steady ==
    ASSUME mode' = mode
    PROVE  /\ Signalled' = Signalled /\ Timeouts' = Timeouts
           /\ InitialPermits' = InitialPermits
BY DEF Signalled, Timeouts, InitialPermits

(* A step that changes no number and moves threads at most between being   *)
(* idle and acquiring keeps the invariant.                                 *)
LEMMA StepAside ==
    ASSUME SemInv, mode' = mode, TypeOK', FreeBegan', shutdown' = shutdown,
           UNCHANGED <<permitCount, waitCount, granted, produced, held>>,
           \A u \in Drainers : pc'[u] \in DrainerStates,
           \A u \in Threads : pc'[u] = pc[u] \/ {pc[u], pc'[u]} \subseteq {"idle", "acquiring"}
    PROVE  SemInv'
<1>1. ASSUME NEW A, "idle" \notin A, "acquiring" \notin A
      PROVE  Count(pc', A) = Count(pc, A)
  <2>1. \A u \in Threads : pc[u] \in A <=> pc'[u] \in A
    BY <1>1
  <2> QED
    BY <2>1, CountSame
<1>2. Count(pc, InQueue)' = Count(pc, InQueue)
  BY <1>1 DEF Count, InQueue
<1>3. \A s \in {"fixup", "releasing", "woken", "waiting"} : Count(pc, {s})' = Count(pc, {s})
  BY <1>1 DEF Count
<1>4. Signalled' = Signalled /\ Timeouts' = Timeouts /\ InitialPermits' = InitialPermits
  BY Steady
<1>5. Places'
  BY <1>4 DEF SemInv, Places, ThreadStates
<1>6. Ledger'
  BY <1>2, <1>3, <1>4 DEF SemInv, Ledger, Tickets
<1>7. Holders'
  BY <1>3, <1>4 DEF SemInv, Holders
<1>8. Sleepers'
  BY <1>3, <1>4 DEF SemInv, Sleepers
<1> QED
  BY <1>5, <1>6, <1>7, <1>8 DEF SemInv

-----------------------------------------------------------------------------
(* One lemma per operation.                                                *)

(* The unlocked check of semaphoreAcquire moves the caller alone.          *)
LEMMA AcquireCheckStep ==
    ASSUME SemInv, mode' = mode, NEW t \in Threads, AcquireCheck(t)
    PROVE  SemInv'
<1>1. pc' = [pc EXCEPT ![t] = IF shutdown \/ locked THEN "idle" ELSE "acquiring"] /\ pc[t] = "idle"
  BY DEF AcquireCheck, Starts
<1>2. pc'[t] \in {"idle", "acquiring"} /\ \A u \in Callers \ {t} : pc'[u] = pc[u]
  BY <1>1 DEF SemInv, TypeOK, Callers
<1>3. TypeOK'
  BY DEF AcquireCheck, Starts, SemInv, TypeOK, ThreadStates, DrainerStates, Callers
<1>4. \A u \in Drainers : pc'[u] \in DrainerStates
  BY <1>2, CallersAssumption DEF Callers, SemInv, Places
<1>5. \A u \in Threads : pc'[u] = pc[u] \/ {pc[u], pc'[u]} \subseteq {"idle", "acquiring"}
  BY <1>1, <1>2 DEF Callers
<1> QED
  BY <1>3, <1>4, <1>5, StepAside DEF AcquireCheck, SemInv, FreeBegan

(* A ticket is taken: the acquirer is granted or joins the sleepers.       *)
LEMMA AcquireTakeStep ==
    ASSUME SemInv, mode' = mode, NEW t \in Threads, AcquireTake(t)
    PROVE  SemInv'
<1> DEFINE new == IF permitCount <= 0 THEN "waiting" ELSE "idle"
<1>1. pc' = [pc EXCEPT ![t] = new] /\ pc[t] = "acquiring"
  BY DEF AcquireTake
<1>2. pc'[t] = new /\ \A u \in Callers \ {t} : pc'[u] = pc[u]
  BY <1>1 DEF SemInv, TypeOK, Callers
<1>3. /\ Count(pc, InQueue)' = Count(pc, InQueue) + Delta(InQueue, pc[t], pc'[t])
      /\ \A s \in {"fixup", "releasing", "woken", "waiting"} :
           Count(pc, {s})' = Count(pc, {s}) + Delta({s}, pc[t], pc'[t])
  BY <1>2, OneMoves DEF Callers, Count
<1>4. /\ Count(pc, InQueue)' = Count(pc, InQueue) + (IF permitCount <= 0 THEN 1 ELSE 0)
      /\ Count(pc, {"waiting"})' = Count(pc, {"waiting"}) + (IF permitCount <= 0 THEN 1 ELSE 0)
      /\ \A s \in {"fixup", "releasing", "woken"} : Count(pc, {s})' = Count(pc, {s})
  BY <1>1, <1>2, <1>3, Counts DEF Delta, InQueue
<1>5. Signalled' = Signalled /\ Timeouts' = Timeouts /\ InitialPermits' = InitialPermits
  BY Steady
<1>6. Count(pc, InQueue)' \in 0 .. Cardinality(Threads) /\ Cardinality(Threads) \in Nat
  BY CountType, FS_CardinalityType, CallersAssumption DEF Count
<1>7. InitialPermits \in Nat
  BY PermitsAssumption DEF InitialPermits
<1>8. Ledger'
  BY <1>4, <1>5, <1>7, Counts DEF SemInv, Ledger, Tickets, AcquireTake, Grant, TypeOK
<1>9. TypeOK'
  <2>1. pc' \in [Callers -> ThreadStates \cup DrainerStates]
    BY <1>1 DEF SemInv, TypeOK, ThreadStates, DrainerStates
  <2>2. waitCount' \in 0 .. Cardinality(Threads)
    BY <1>6, <1>8 DEF Ledger
  <2> QED
    BY <2>1, <2>2 DEF SemInv, TypeOK, AcquireTake, Grant
<1>10. Places'
  BY <1>1, <1>2, <1>5, CallersAssumption DEF SemInv, Places, ThreadStates, Callers
<1>11. Holders'
  <2>1. CASE permitCount <= 0
    BY <2>1, <1>4, <1>5 DEF SemInv, Holders, AcquireTake
  <2>2. CASE ~(permitCount <= 0)
    <3>1. held' = (IF Signalled THEN held ELSE held \cup {t}) /\ granted' = granted + 1
      BY <2>2 DEF AcquireTake, Grant
    <3>2. Cardinality(held') <= Cardinality(held) + 1 /\ Cardinality(held') \in Nat /\ Cardinality(held) \in Nat
      <4>1. held' = held \/ held' = held \cup {t}
        BY <3>1
      <4>2. /\ Cardinality(held) \in Nat /\ Cardinality(held \cup {t}) \in Nat
            /\ Cardinality(held \cup {t}) <= Cardinality(held) + 1
        BY HoldersMove
      <4>3. CASE held' = held
        BY <4>2, <4>3
      <4>4. CASE held' = held \cup {t}
        BY <4>2, <4>4
      <4> QED
        BY <4>1, <4>3, <4>4
    <3>3. ~Signalled => InitialPermits = MaxPermits
      BY DEF InitialPermits
    <3> QED
      BY <2>2, <3>1, <3>2, <3>3, <1>4, <1>5, Counts, PermitsAssumption
      DEF SemInv, Holders, Ledger, Tickets, TypeOK, AcquireTake
  <2> QED
    BY <2>1, <2>2
<1>12. Sleepers'
  BY <1>4, <1>5, Counts DEF SemInv, Sleepers, AcquireTake, TypeOK
<1> QED
  BY <1>8, <1>9, <1>10, <1>11, <1>12 DEF SemInv, FreeBegan, AcquireTake

(* A time-out moves a sleeper within the queue.                            *)
LEMMA AcquireTimeoutStep ==
    ASSUME SemInv, mode' = mode, NEW t \in Threads, AcquireTimeout(t)
    PROVE  SemInv'
<1>1. pc' = [pc EXCEPT ![t] = "timedOut"] /\ pc[t] = "waiting" /\ Timeouts
  BY DEF AcquireTimeout
<1>2. pc'[t] = "timedOut" /\ \A u \in Callers \ {t} : pc'[u] = pc[u]
  BY <1>1 DEF SemInv, TypeOK, Callers
<1>3. /\ Count(pc, InQueue)' = Count(pc, InQueue)
      /\ \A s \in {"fixup", "releasing", "woken"} : Count(pc, {s})' = Count(pc, {s})
  BY <1>1, <1>2, OneMoves, Counts DEF Callers, Count, Delta, InQueue
<1>4. Signalled' = Signalled /\ Timeouts' = Timeouts /\ InitialPermits' = InitialPermits
  BY Steady
<1>5. TypeOK'
  BY <1>1 DEF SemInv, TypeOK, ThreadStates, DrainerStates, AcquireTimeout
<1>6. Places'
  BY <1>1, <1>2, <1>4, CallersAssumption DEF SemInv, Places, ThreadStates, Callers
<1>7. Ledger' /\ Holders' /\ Sleepers' /\ FreeBegan'
  BY <1>1, <1>3, <1>4 DEF SemInv, Ledger, Tickets, Holders, Sleepers, FreeBegan, AcquireTimeout
<1> QED
  BY <1>5, <1>6, <1>7 DEF SemInv

(* A timed-out acquirer gives its ticket back and leaves the queue.        *)
LEMMA AcquireGiveUpStep ==
    ASSUME SemInv, mode' = mode, NEW t \in Threads, AcquireGiveUp(t)
    PROVE  SemInv'
<1>1. pc' = [pc EXCEPT ![t] = "idle"] /\ pc[t] = "timedOut"
  BY DEF AcquireGiveUp
<1>2. pc'[t] = "idle" /\ \A u \in Callers \ {t} : pc'[u] = pc[u]
  BY <1>1 DEF SemInv, TypeOK, Callers
<1>3. /\ Count(pc, InQueue)' = Count(pc, InQueue) - 1
      /\ \A s \in {"fixup", "releasing", "woken"} : Count(pc, {s})' = Count(pc, {s})
  <2>1. /\ Count(pc, InQueue)' = Count(pc, InQueue) + Delta(InQueue, pc[t], pc'[t])
        /\ \A s \in {"fixup", "releasing", "woken", "waiting"} :
             Count(pc, {s})' = Count(pc, {s}) + Delta({s}, pc[t], pc'[t])
    BY <1>2, OneMoves DEF Callers, Count
  <2> QED
    BY <1>1, <1>2, <2>1, Counts DEF Delta, InQueue
<1>4. Signalled' = Signalled /\ Timeouts' = Timeouts /\ InitialPermits' = InitialPermits
  BY Steady
<1>5. Timeouts
  BY <1>1 DEF SemInv, Places
<1>6. InitialPermits \in Nat
  BY PermitsAssumption DEF InitialPermits
<1>7. Ledger' /\ Holders' /\ Sleepers' /\ FreeBegan'
  BY <1>3, <1>4, <1>5, <1>6, Counts DEF SemInv, Ledger, Tickets, Holders, Sleepers, FreeBegan, AcquireGiveUp, TypeOK
<1>8. TypeOK'
  <2>1. pc' \in [Callers -> ThreadStates \cup DrainerStates]
    BY <1>1 DEF SemInv, TypeOK, ThreadStates, DrainerStates
  <2>2. waitCount' \in 0 .. Cardinality(Threads)
    BY <1>7, CountType DEF Ledger, Count
  <2> QED
    BY <2>1, <2>2 DEF SemInv, TypeOK, AcquireGiveUp
<1>9. Places'
  BY <1>1, <1>2, <1>4, CallersAssumption DEF SemInv, Places, ThreadStates, Callers
<1> QED
  BY <1>7, <1>8, <1>9 DEF SemInv

(* A woken acquirer leaves the queue: granted, or sent away by a shutdown, *)
(* the last one of all waking whoever still sleeps.                        *)
LEMMA AcquireResumeStep ==
    ASSUME SemInv, mode' = mode, NEW t \in Threads, AcquireResume(t)
    PROVE  SemInv'
<1> DEFINE last == shutdown /\ waitCount = 1
           woken == [Wake(pc, Waiting) EXCEPT ![t] = "idle"]
<1>1. pc' = (IF last THEN woken ELSE [pc EXCEPT ![t] = "idle"]) /\ pc[t] = "woken"
  BY DEF AcquireResume
<1>2. pc \in [Callers -> ThreadStates \cup DrainerStates] /\ t \in Callers /\ t \notin Drainers
  BY CallersAssumption DEF SemInv, TypeOK, Callers
<1>3. /\ pc'[t] = "idle"
      /\ \A u \in Callers \ {t} : pc'[u] = pc[u] \/ (last /\ u \in Threads /\ pc[u] = "waiting" /\ pc'[u] = "woken")
      /\ ~last => \A u \in Callers \ {t} : pc'[u] = pc[u]
  BY <1>1, <1>2 DEF Wake, Waiting
<1>4. Signalled' = Signalled /\ Timeouts' = Timeouts /\ InitialPermits' = InitialPermits
  BY Steady
<1>5. /\ Count(pc, InQueue)' = Count(pc, InQueue) - 1
      /\ \A s \in {"fixup", "releasing"} : Count(pc, {s})' = Count(pc, {s})
  <2>1. ASSUME NEW A, "waiting" \in A <=> "woken" \in A
        PROVE  Count(pc', A) = Count(pc, A) + Delta(A, "woken", "idle")
    <3> DEFINE mid == [pc EXCEPT ![t] = "idle"]
    <3>1. Count(mid, A) = Count(pc, A) + Delta(A, pc[t], mid[t])
      BY <1>2, CountMove DEF Callers
    <3>2. mid[t] = "idle"
      BY <1>2
    <3>3. \A u \in Threads : mid[u] \in A <=> pc'[u] \in A
      BY <1>2, <1>3, <2>1 DEF Callers
    <3>4. Count(pc', A) = Count(mid, A)
      <4> HIDE DEF mid
      <4> QED
        BY <3>3, CountSame
    <3> QED
      BY <1>1, <3>1, <3>2, <3>4
  <2>2. Count(pc', InQueue) = Count(pc, InQueue) + Delta(InQueue, "woken", "idle")
    BY <2>1 DEF InQueue
  <2>3. Delta(InQueue, "woken", "idle") = -1
    BY DEF Delta, InQueue
  <2>4. ASSUME NEW s \in {"fixup", "releasing"}
        PROVE  Count(pc', {s}) = Count(pc, {s})
    <3>1. Count(pc', {s}) = Count(pc, {s}) + Delta({s}, "woken", "idle")
      BY <2>1, <2>4
    <3>2. Delta({s}, "woken", "idle") = 0
      BY <2>4 DEF Delta
    <3> QED
      BY <3>1, <3>2, Counts
  <2> QED
    BY <2>2, <2>3, <2>4, Counts DEF Count, InQueue
<1>6. InitialPermits \in Nat
  BY PermitsAssumption DEF InitialPermits
<1>7. Ledger'
  BY <1>4, <1>5, <1>6, Counts DEF SemInv, Ledger, Tickets, AcquireResume, Grant, TypeOK
<1>8. TypeOK'
  <2>1. pc' \in [Callers -> ThreadStates \cup DrainerStates]
    BY <1>1, <1>2 DEF Wake, ThreadStates, DrainerStates
  <2>2. waitCount' \in 0 .. Cardinality(Threads)
    BY <1>7, CountType DEF Ledger, Count
  <2>3. owner' \in OwnerStates
    BY DEF SemInv, TypeOK, AcquireResume, OwnerStates
  <2> QED
    BY <2>1, <2>2, <2>3 DEF SemInv, TypeOK, AcquireResume, Grant
<1>9. Places'
  <2>1. \A u \in Threads : pc'[u] \in {pc[u], "idle", "woken"}
    BY <1>3 DEF Callers
  <2>2. \A u \in Drainers : pc'[u] = pc[u]
    BY <1>2, <1>3, CallersAssumption DEF Callers
  <2> QED
    BY <2>1, <2>2, <1>4 DEF SemInv, Places, ThreadStates
<1>10. FreeBegan'
  BY DEF SemInv, FreeBegan, AcquireResume
<1>11. ~shutdown =>
         /\ Count(pc, {"woken"})' = Count(pc, {"woken"}) - 1
         /\ Count(pc, {"waiting"})' = Count(pc, {"waiting"})
  <2>1. ASSUME ~shutdown
        PROVE  \A s \in {"fixup", "releasing", "woken", "waiting"} :
                 Count(pc, {s})' = Count(pc, {s}) + Delta({s}, pc[t], pc'[t])
    BY <1>3, <2>1, OneMoves DEF Callers, Count
  <2> QED
    BY <1>1, <1>3, <2>1, Counts DEF Delta
<1>12. Holders'
  <2>1. CASE shutdown
    BY <2>1, <1>4, <1>5 DEF SemInv, Holders, AcquireResume
  <2>2. CASE ~shutdown
    <3>1. held' = (IF Signalled THEN held ELSE held \cup {t}) /\ granted' = granted + 1
      BY <2>2 DEF AcquireResume, Grant
    <3>2. Cardinality(held') <= Cardinality(held) + 1 /\ Cardinality(held') \in Nat /\ Cardinality(held) \in Nat
      <4>1. held' = held \/ held' = held \cup {t}
        BY <3>1
      <4>2. /\ Cardinality(held) \in Nat /\ Cardinality(held \cup {t}) \in Nat
            /\ Cardinality(held \cup {t}) <= Cardinality(held) + 1
        BY HoldersMove
      <4>3. CASE held' = held
        BY <4>2, <4>3
      <4>4. CASE held' = held \cup {t}
        BY <4>2, <4>4
      <4> QED
        BY <4>1, <4>3, <4>4
    <3>3. Count(pc, {"woken"})' \in Nat
      <4>1. Count(pc', {"woken"}) \in 0 .. Cardinality(Threads)
        BY CountType
      <4> QED
        BY <4>1 DEF Count
    <3> QED
      <4>1. CASE Signalled
        BY <3>1, <4>1, <1>4 DEF SemInv, Holders
      <4>2. CASE ~Signalled
        <5>1. /\ Count(pc, {"fixup"}) = 0
              /\ Cardinality(held) + Count(pc, {"releasing"}) <= granted - produced
              /\ granted + Count(pc, {"woken"}) <= MaxPermits + produced
          BY <2>2, <4>2 DEF SemInv, Holders
        <5>2. /\ produced' = produced /\ shutdown' = shutdown
              /\ granted \in Nat /\ produced \in Nat /\ MaxPermits \in Nat
          BY PermitsAssumption DEF SemInv, TypeOK, AcquireResume
        <5>3. /\ Count(pc, {"fixup"})' = Count(pc, {"fixup"})
              /\ Count(pc, {"releasing"})' = Count(pc, {"releasing"})
              /\ Count(pc, {"woken"})' = Count(pc, {"woken"}) - 1
              /\ Count(pc, {"releasing"}) \in Nat /\ Count(pc, {"woken"}) \in Nat
          BY <2>2, <1>5, <1>11, Counts
        <5> QED
          BY <2>2, <3>1, <3>2, <3>3, <4>2, <1>4, <5>1, <5>2, <5>3 DEF Holders
      <4> QED
        BY <4>1, <4>2
  <2> QED
    BY <2>1, <2>2
<1>13. Sleepers'
  BY <1>4, <1>11 DEF SemInv, Sleepers, AcquireResume
<1> QED
  BY <1>7, <1>8, <1>9, <1>10, <1>12, <1>13 DEF SemInv

(* The unlocked check of semaphoreRelease: the permit is on its way back,  *)
(* or a shutdown sends the caller away.                                    *)
LEMMA ReleaseCheckStep ==
    ASSUME SemInv, mode' = mode, NEW t \in Threads, ReleaseCheck(t)
    PROVE  SemInv'
<1> DEFINE new == IF shutdown THEN "idle" ELSE "releasing"
<1>1. pc' = [pc EXCEPT ![t] = new] /\ pc[t] = "idle" /\ held' = held \ {t}
  BY DEF ReleaseCheck, Starts
<1>2. pc'[t] = new /\ \A u \in Callers \ {t} : pc'[u] = pc[u]
  BY <1>1 DEF SemInv, TypeOK, Callers
<1>3. /\ Count(pc, InQueue)' = Count(pc, InQueue)
      /\ Count(pc, {"releasing"})' = Count(pc, {"releasing"}) + (IF shutdown THEN 0 ELSE 1)
      /\ \A s \in {"fixup", "woken", "waiting"} : Count(pc, {s})' = Count(pc, {s})
  <2>1. /\ Count(pc, InQueue)' = Count(pc, InQueue) + Delta(InQueue, pc[t], pc'[t])
        /\ \A s \in {"fixup", "releasing", "woken", "waiting"} :
             Count(pc, {s})' = Count(pc, {s}) + Delta({s}, pc[t], pc'[t])
    BY <1>2, OneMoves DEF Callers, Count
  <2> QED
    BY <1>1, <1>2, <2>1, Counts DEF Delta, InQueue
<1>4. Signalled' = Signalled /\ Timeouts' = Timeouts /\ InitialPermits' = InitialPermits
  BY Steady
<1>5. TypeOK'
  BY <1>1 DEF SemInv, TypeOK, ThreadStates, DrainerStates, ReleaseCheck, Starts, Callers
<1>6. Places'
  BY <1>1, <1>2, <1>4, CallersAssumption DEF SemInv, Places, ThreadStates, Callers
<1>7. Ledger' /\ Sleepers' /\ FreeBegan'
  BY <1>3, <1>4 DEF SemInv, Ledger, Tickets, Sleepers, FreeBegan, ReleaseCheck
<1>8. Holders'
  <2>1. CASE Signalled
    BY <2>1, <1>1, <1>4 DEF SemInv, Holders
  <2>2. CASE ~Signalled
    <3>1. t \in held
      BY <2>2 DEF ReleaseCheck
    <3>2. Cardinality(held') = Cardinality(held) - 1 /\ Cardinality(held) \in Nat
      BY <1>1, <3>1, HoldersMove
    <3>3. UNCHANGED <<granted, produced, shutdown>> /\ granted \in Nat /\ produced \in Nat
      BY DEF SemInv, TypeOK, ReleaseCheck
    <3> QED
      BY <2>2, <3>2, <3>3, <1>3, <1>4, Counts DEF SemInv, Holders
  <2> QED
    BY <2>1, <2>2
<1> QED
  BY <1>5, <1>6, <1>7, <1>8 DEF SemInv

(* The fix-up of a refused release, which only a signalling semaphore has. *)
LEMMA ReleaseFixupStep ==
    ASSUME SemInv, mode' = mode, NEW t \in Threads, ReleaseFixup(t)
    PROVE  SemInv'
<1>1. pc' = [pc EXCEPT ![t] = "idle"] /\ pc[t] = "fixup"
  BY DEF ReleaseFixup
<1>2. pc'[t] = "idle" /\ \A u \in Callers \ {t} : pc'[u] = pc[u]
  BY <1>1 DEF SemInv, TypeOK, Callers
<1>3. /\ Count(pc, InQueue)' = Count(pc, InQueue)
      /\ Count(pc, {"fixup"})' = Count(pc, {"fixup"}) - 1
      /\ \A s \in {"releasing", "woken", "waiting"} : Count(pc, {s})' = Count(pc, {s})
  <2>1. /\ Count(pc, InQueue)' = Count(pc, InQueue) + Delta(InQueue, pc[t], pc'[t])
        /\ \A s \in {"fixup", "releasing", "woken", "waiting"} :
             Count(pc, {s})' = Count(pc, {s}) + Delta({s}, pc[t], pc'[t])
    BY <1>2, OneMoves DEF Callers, Count
  <2> QED
    BY <1>1, <1>2, <2>1, Counts DEF Delta, InQueue
<1>4. Signalled' = Signalled /\ Timeouts' = Timeouts /\ InitialPermits' = InitialPermits
  BY Steady
<1>5. TypeOK'
  <2>1. pc' \in [Callers -> ThreadStates \cup DrainerStates]
    BY <1>1 DEF SemInv, TypeOK, ThreadStates, DrainerStates
  <2> QED
    BY <2>1 DEF SemInv, TypeOK, ReleaseFixup
<1>6. Places'
  BY <1>1, <1>2, <1>4, CallersAssumption DEF SemInv, Places, ThreadStates, Callers
<1>7. Signalled
  <2>1. Count(pc, {"fixup"}) # 0
    <3>1. Count(pc, {"fixup"}) = 0 <=> \A u \in Threads : pc[u] \notin {"fixup"}
      BY CountType
    <3> QED
      BY <1>1, <3>1
  <2> QED
    BY <2>1 DEF SemInv, Holders
<1>8. InitialPermits \in Nat
  BY PermitsAssumption DEF InitialPermits
<1>9. Ledger' /\ Sleepers' /\ FreeBegan'
  BY <1>3, <1>4, <1>8, Counts DEF SemInv, Ledger, Tickets, Sleepers, FreeBegan, ReleaseFixup, TypeOK
<1>10. Holders'
  BY <1>4, <1>7 DEF SemInv, Holders, ReleaseFixup
<1> QED
  BY <1>5, <1>6, <1>9, <1>10 DEF SemInv

(* The increment of semaphoreRelease.  A refused one is to be fixed up;    *)
(* one that takes a ticket from below wakes a sleeper, if there is any;    *)
(* one that gives the last permit back wakes the drainers.                 *)
LEMMA ReleaseGiveStep ==
    ASSUME SemInv, mode' = mode, NEW t \in Threads, ReleaseGive(t)
    PROVE  SemInv'
<1>1. pc[t] = "releasing" /\ permitCount' = permitCount + 1
  BY DEF ReleaseGive
<1>2. pc \in [Callers -> ThreadStates \cup DrainerStates] /\ t \in Callers /\ t \notin Drainers
  BY CallersAssumption DEF SemInv, TypeOK, Callers
<1>3. Signalled' = Signalled /\ Timeouts' = Timeouts /\ InitialPermits' = InitialPermits
  BY Steady
<1>4. InitialPermits \in Nat /\ MaxPermits \in Nat \ {0} /\ (~Signalled => InitialPermits = MaxPermits)
  BY PermitsAssumption DEF InitialPermits
<1>5. permitCount \in Int /\ granted \in Nat /\ produced \in Nat
  BY DEF SemInv, TypeOK
\* The release has its grant, so there is room for it.
<1>6. ~Signalled => permitCount < MaxPermits
  <2>1. Count(pc, {"releasing"}) # 0
    <3>1. Count(pc, {"releasing"}) = 0 <=> \A u \in Threads : pc[u] \notin {"releasing"}
      BY CountType
    <3> QED
      BY <1>1, <3>1
  <2>2. Count(pc, {"releasing"}) \in Nat /\ Count(pc, InQueue) \in Nat /\ Cardinality(held) \in Nat
    BY Counts, HoldersMove
  <2>3. ~Signalled => Cardinality(held) + Count(pc, {"releasing"}) <= granted - produced /\ Count(pc, {"fixup"}) = 0
    BY DEF SemInv, Holders
  <2>4. permitCount <= InitialPermits + produced - granted - Count(pc, InQueue) + Count(pc, {"fixup"})
    BY DEF SemInv, Ledger, Tickets
  <2> QED
    BY <2>1, <2>2, <2>3, <2>4, <1>4, <1>5
\* Which counts a step that takes t from releasing to where it goes, and perhaps one
\* sleeper with it, changes.
<1>7. ASSUME NEW new, pc' = [pc EXCEPT ![t] = new] \/ pc' = [Wake(pc, DrainWaiting) EXCEPT ![t] = new]
      PROVE  /\ pc'[t] = new /\ \A u \in Threads \ {t} : pc'[u] = pc[u]
             /\ Count(pc, InQueue)' = Count(pc, InQueue) + Delta(InQueue, "releasing", new)
             /\ \A s \in {"fixup", "releasing", "woken", "waiting"} :
                  Count(pc, {s})' = Count(pc, {s}) + Delta({s}, "releasing", new)
  <2>1. pc'[t] = new /\ \A u \in Threads \ {t} : pc'[u] = pc[u]
    BY <1>2, <1>7, CallersAssumption DEF Wake, DrainWaiting, Callers
  <2> QED
    BY <1>1, <2>1, OneMoves DEF Count
<1>8. CASE permitCount >= MaxPermits
  <2>1. pc' = [pc EXCEPT ![t] = "fixup"] /\ UNCHANGED <<owner, produced>> /\ Signalled
    BY <1>6, <1>8, <1>4, <1>5 DEF ReleaseGive
  <2>2. pc'[t] = "fixup" /\ \A u \in Callers \ {t} : pc'[u] = pc[u]
    BY <1>2, <2>1
  <2>3. /\ Count(pc, InQueue)' = Count(pc, InQueue)
        /\ Count(pc, {"fixup"})' = Count(pc, {"fixup"}) + 1
        /\ Count(pc, {"waiting"})' = Count(pc, {"waiting"})
    <3>1. /\ Count(pc, InQueue)' = Count(pc, InQueue) + Delta(InQueue, "releasing", "fixup")
          /\ \A s \in {"fixup", "releasing", "woken", "waiting"} :
               Count(pc, {s})' = Count(pc, {s}) + Delta({s}, "releasing", "fixup")
      BY <1>7, <2>1
    <3> QED
      BY <3>1, Counts DEF Delta, InQueue
  <2>4. Ledger' /\ FreeBegan'
    BY <2>1, <2>3, <1>1, <1>3, <1>4, <1>5, Counts DEF SemInv, Ledger, Tickets, FreeBegan, ReleaseGive
  <2>5. Holders'
    BY <2>1, <1>3 DEF SemInv, Holders, ReleaseGive
  <2>6. Sleepers'
    BY <2>3, <1>1, <1>3, <1>4, <1>5, <1>8, Counts DEF SemInv, Sleepers, ReleaseGive
  <2>7. TypeOK'
    <3>1. pc' \in [Callers -> ThreadStates \cup DrainerStates]
      BY <1>2, <2>1 DEF ThreadStates, DrainerStates
    <3> QED
      BY <2>1, <3>1 DEF SemInv, TypeOK, ReleaseGive
  <2>8. Places'
    BY <2>2, <1>2, <1>3, CallersAssumption DEF SemInv, Places, ThreadStates, Callers
  <2> QED
    BY <2>4, <2>5, <2>6, <2>7, <2>8 DEF SemInv
\* What follows from the counts of an accepted release.
<1>9. ASSUME produced' = produced + 1, TypeOK', Places', FreeBegan',
             Count(pc, {"fixup"})' = Count(pc, {"fixup"}),
             Count(pc, {"releasing"})' = Count(pc, {"releasing"}) - 1,
             Count(pc, InQueue)' = Count(pc, InQueue),
             Count(pc, {"woken"})' <= Count(pc, {"woken"}) + 1, Count(pc, {"woken"})' \in Nat,
             Sleepers'
      PROVE  SemInv'
  <2>1. UNCHANGED <<waitCount, shutdown, held, granted>>
    BY DEF ReleaseGive
  <2>2. Ledger'
    BY <2>1, <1>1, <1>3, <1>4, <1>5, <1>9, Counts DEF SemInv, Ledger, Tickets
  <2>3. CASE Signalled
    <3>1. Holders'
      BY <2>1, <2>3, <1>3 DEF SemInv, Holders
    <3> QED
      BY <2>2, <3>1, <1>9 DEF SemInv
  <2>4. CASE ~Signalled
    <3>1. /\ Count(pc, {"fixup"}) = 0
          /\ Cardinality(held) + Count(pc, {"releasing"}) <= granted - produced
          /\ granted <= MaxPermits + produced
          /\ ~shutdown => granted + Count(pc, {"woken"}) <= MaxPermits + produced
      BY <2>4 DEF SemInv, Holders
    <3>2. Cardinality(held) \in Nat /\ Count(pc, {"releasing"}) \in Nat /\ Count(pc, {"woken"}) \in Nat
      BY Counts, HoldersMove
    <3>3. Holders'
      BY <2>1, <2>4, <3>1, <3>2, <1>3, <1>4, <1>5, <1>9 DEF Holders
    <3> QED
      BY <2>2, <3>3, <1>9 DEF SemInv
  <2> QED
    BY <2>3, <2>4

<1>10. CASE /\ permitCount < MaxPermits
            /\ pc' = [pc EXCEPT ![t] = "idle"] \/ pc' = [Wake(pc, DrainWaiting) EXCEPT ![t] = "idle"]
  <2>1. /\ pc'[t] = "idle" /\ \A u \in Threads \ {t} : pc'[u] = pc[u]
        /\ Count(pc, InQueue)' = Count(pc, InQueue) + Delta(InQueue, "releasing", "idle")
        /\ \A s \in {"fixup", "releasing", "woken", "waiting"} :
             Count(pc, {s})' = Count(pc, {s}) + Delta({s}, "releasing", "idle")
    BY <1>7, <1>10
  <2>2. /\ Count(pc, InQueue)' = Count(pc, InQueue)
        /\ Count(pc, {"releasing"})' = Count(pc, {"releasing"}) - 1
        /\ \A s \in {"fixup", "woken", "waiting"} : Count(pc, {s})' = Count(pc, {s})
    BY <2>1, Counts DEF Delta, InQueue
  <2>3. produced' = produced + 1 /\ owner' \in OwnerStates /\ FreeBegan'
    <3>1. ~(permitCount >= MaxPermits)
      BY <1>10, <1>4, <1>5
    <3>2. produced' = produced + 1 /\ UNCHANGED shutdown
      BY <3>1 DEF ReleaseGive
    <3>3. owner' = owner \/ (owner = "waiting" /\ owner' = "spinning")
      BY <3>1 DEF ReleaseGive, SignalNotify
    <3> QED
      BY <3>2, <3>3 DEF SemInv, TypeOK, FreeBegan, OwnerStates
  <2>4. TypeOK'
    <3>1. pc' \in [Callers -> ThreadStates \cup DrainerStates]
      BY <1>2, <1>10 DEF ThreadStates, DrainerStates, Wake
    <3> QED
      BY <2>3, <3>1, <1>1, <1>5 DEF SemInv, TypeOK, ReleaseGive
  <2>5. \A u \in Drainers : pc'[u] = pc[u] \/ pc'[u] = "woken"
    BY <1>2, <1>10 DEF Wake, DrainWaiting, Callers
  <2>6. Places'
    BY <2>1, <2>5, <1>3 DEF SemInv, Places, ThreadStates, DrainerStates
  <2>7. Sleepers'
    <3>1. UNCHANGED shutdown
      BY DEF ReleaseGive
    <3>2. CASE permitCount > 0 \/ shutdown
      BY <2>2, <3>1, <3>2, <1>1, <1>3, <1>5, Counts DEF SemInv, Sleepers
    <3>3. CASE permitCount <= 0 /\ ~shutdown
      <4>1. Waiting = {}
        <5>1. SignalNotify(t)
          BY <3>3, <1>4, <1>5 DEF ReleaseGive
        <5>2. ASSUME NEW w \in Waiting
              PROVE  pc' # [pc EXCEPT ![t] = "idle", ![w] = "woken"]
          BY <2>1, <5>2, <1>1 DEF Waiting, SemInv, TypeOK, Callers
        <5>3. owner # "waiting"
          BY <3>3 DEF SemInv, FreeBegan
        <5> QED
          BY <5>1, <5>2, <5>3 DEF SignalNotify
      <4>2. Count(pc, {"waiting"}) = 0
        <5>1. Count(pc, {"waiting"}) = 0 <=> \A u \in Threads : pc[u] \notin {"waiting"}
          BY CountType
        <5> QED
          BY <4>1, <5>1 DEF Waiting
      <4> QED
        BY <2>2, <4>2 DEF Sleepers
    <3> QED
      BY <3>2, <3>3, <1>5
  <2> QED
    BY <2>2, <2>3, <2>4, <2>6, <2>7, <1>9, Counts
<1>11. CASE \E w \in Waiting :
              permitCount <= 0 /\ pc' = [pc EXCEPT ![t] = "idle", ![w] = "woken"] /\ UNCHANGED owner
  <2> PICK w \in Waiting :
              permitCount <= 0 /\ pc' = [pc EXCEPT ![t] = "idle", ![w] = "woken"] /\ UNCHANGED owner
    BY <1>11
  <2> DEFINE mid == [pc EXCEPT ![t] = "idle"]
  <2>1. w \in Threads /\ pc[w] = "waiting" /\ w # t /\ w \in Callers /\ w \notin Drainers
    BY <1>1, CallersAssumption DEF Waiting, Callers
  <2>2. /\ mid[t] = "idle" /\ mid[w] = "waiting" /\ pc'[w] = "woken" /\ pc'[t] = "idle"
        /\ \A u \in Threads \ {t} : mid[u] = pc[u]
        /\ \A u \in Threads \ {w} : pc'[u] = mid[u]
        /\ \A u \in Callers \ {t, w} : pc'[u] = pc[u]
    BY <2>1, <1>2 DEF Callers
  <2>3. ASSUME NEW A
        PROVE  Count(pc', A) = Count(pc, A) + Delta(A, "releasing", "idle") + Delta(A, "waiting", "woken")
    <3> HIDE DEF mid
    <3>1. Count(mid, A) = Count(pc, A) + Delta(A, "releasing", "idle")
      <4>1. Count(mid, A) = Count(pc, A) + Delta(A, pc[t], mid[t])
        BY <2>2, CountMove
      <4> QED
        BY <2>2, <4>1, <1>1
    <3>2. Count(pc', A) = Count(mid, A) + Delta(A, "waiting", "woken")
      <4>1. Count(pc', A) = Count(mid, A) + Delta(A, mid[w], pc'[w])
        <5>1. \A f, g : (\A u \in Threads \ {w} : g[u] = f[u]) => Count(g, A) = Count(f, A) + Delta(A, f[w], g[w])
          BY <2>1, CountMove
        <5>2. \A u \in Threads \ {w} : pc'[u] = mid[u]
          BY <2>2
        <5> QED
          BY <5>1, <5>2
      <4> QED
        BY <2>2, <4>1
    <3> QED
      BY <3>1, <3>2
  <2>4. /\ Count(pc', InQueue) = Count(pc, InQueue)
        /\ Count(pc', {"releasing"}) = Count(pc, {"releasing"}) - 1
        /\ Count(pc', {"fixup"}) = Count(pc, {"fixup"})
        /\ Count(pc', {"woken"}) = Count(pc, {"woken"}) + 1
        /\ Count(pc', {"waiting"}) = Count(pc, {"waiting"}) - 1
    <3>1. \A A \in {InQueue, {"releasing"}, {"fixup"}, {"woken"}, {"waiting"}} :
            Count(pc', A) = Count(pc, A) + Delta(A, "releasing", "idle") + Delta(A, "waiting", "woken")
      BY <2>3
    <3>2. /\ Delta(InQueue, "releasing", "idle") = 0 /\ Delta(InQueue, "waiting", "woken") = 0
          /\ Delta({"releasing"}, "releasing", "idle") = -1 /\ Delta({"releasing"}, "waiting", "woken") = 0
          /\ Delta({"fixup"}, "releasing", "idle") = 0 /\ Delta({"fixup"}, "waiting", "woken") = 0
          /\ Delta({"woken"}, "releasing", "idle") = 0 /\ Delta({"woken"}, "waiting", "woken") = 1
          /\ Delta({"waiting"}, "releasing", "idle") = 0 /\ Delta({"waiting"}, "waiting", "woken") = -1
      BY DEF Delta, InQueue
    <3> QED
      BY <3>1, <3>2, Counts
  <2>5. /\ Count(pc, InQueue)' = Count(pc, InQueue)
        /\ Count(pc, {"releasing"})' = Count(pc, {"releasing"}) - 1
        /\ Count(pc, {"fixup"})' = Count(pc, {"fixup"})
        /\ Count(pc, {"woken"})' = Count(pc, {"woken"}) + 1
        /\ Count(pc, {"waiting"})' = Count(pc, {"waiting"}) - 1
    BY <2>4 DEF Count, InQueue
  <2>6. produced' = produced + 1 /\ UNCHANGED shutdown
    BY <1>4, <1>5 DEF ReleaseGive
  <2>7. TypeOK'
    <3>1. pc' \in [Callers -> ThreadStates \cup DrainerStates]
      BY <1>2, <2>1 DEF ThreadStates, DrainerStates
    <3> QED
      BY <2>6, <3>1, <1>1, <1>5 DEF SemInv, TypeOK, ReleaseGive
  <2>8. Places'
    <3>1. \A u \in Threads : pc'[u] \in {pc[u], "idle", "woken"}
      BY <2>2 DEF Callers
    <3>2. \A u \in Drainers : pc'[u] = pc[u]
      BY <2>1, <2>2, <1>2 DEF Callers
    <3> QED
      BY <3>1, <3>2, <1>3 DEF SemInv, Places, ThreadStates
  <2>9. FreeBegan'
    BY <2>6 DEF SemInv, FreeBegan
  <2>10. Sleepers'
    BY <2>5, <2>6, <1>1, <1>3, <1>5, Counts DEF SemInv, Sleepers
  <2> QED
    BY <2>5, <2>6, <2>7, <2>8, <2>9, <2>10, <1>9, Counts
<1> QED
  <2>1. permitCount >= MaxPermits \/ permitCount < MaxPermits
    BY <1>4, <1>5
  <2>2. CASE permitCount < MaxPermits /\ permitCount > 0
    <3>1. ~(permitCount >= MaxPermits) /\ ~(permitCount <= 0)
      BY <2>2, <1>4, <1>5
    <3>2. pc' = [pc EXCEPT ![t] = "idle"] \/ pc' = [Wake(pc, DrainWaiting) EXCEPT ![t] = "idle"]
      BY <3>1 DEF ReleaseGive
    <3> QED
      BY <2>2, <3>2, <1>10
  <2>3. CASE permitCount < MaxPermits /\ permitCount <= 0
    <3>1. SignalNotify(t)
      BY <2>3, <1>4, <1>5 DEF ReleaseGive
    <3>2. CASE pc' = [pc EXCEPT ![t] = "idle"]
      BY <2>3, <3>2, <1>10
    <3>3. CASE \E w \in Waiting : pc' = [pc EXCEPT ![t] = "idle", ![w] = "woken"] /\ UNCHANGED owner
      BY <2>3, <3>3, <1>11
    <3> QED
      BY <3>1, <3>2, <3>3 DEF SignalNotify
  <2> QED
    BY <2>1, <2>2, <2>3, <1>5, <1>8

(* The lock flag, the drainers and the end of semaphoreFree leave the      *)
(* threads, the count and the permits alone.                               *)
LEMMA OthersStep ==
    ASSUME SemInv, mode' = mode,
           \/ \E b \in BOOLEAN : SetLock(b)
           \/ \E t \in Drainers : DrainLoad(t) \/ DrainWait(t) \/ DrainTimeout(t)
           \/ FreeFinish
    PROVE  SemInv'
<1>1. CASE \E b \in BOOLEAN : SetLock(b)
  <2>1. TypeOK' /\ FreeBegan'
    BY <1>1 DEF SetLock, SemInv, TypeOK, FreeBegan
  <2> QED
    BY <1>1, <2>1, StepAside DEF SetLock, SemInv, Places
<1>2. CASE \E t \in Drainers : DrainLoad(t) \/ DrainWait(t) \/ DrainTimeout(t)
  <2> PICK t \in Drainers : DrainLoad(t) \/ DrainWait(t) \/ DrainTimeout(t)
    BY <1>2
  <2>1. \E new \in DrainerStates : pc' = [pc EXCEPT ![t] = new]
    BY DEF DrainLoad, DrainWait, DrainTimeout, DrainerStates
  <2>2. pc \in [Callers -> ThreadStates \cup DrainerStates] /\ t \in Callers /\ t \notin Threads
    BY CallersAssumption DEF SemInv, TypeOK, Callers
  <2>3. /\ pc' \in [Callers -> ThreadStates \cup DrainerStates]
        /\ \A u \in Threads : pc'[u] = pc[u]
        /\ \A u \in Drainers : pc'[u] \in DrainerStates
    BY <2>1, <2>2 DEF Callers, SemInv, Places
  <2>4. /\ UNCHANGED <<permitCount, waitCount, locked, shutdown, held, owner, granted, produced>>
        /\ budget' = budget \/ (budget[t] > 0 /\ budget' = [budget EXCEPT ![t] = @ - 1])
    BY DEF DrainLoad, DrainWait, DrainTimeout, Starts
  <2>5. TypeOK' /\ FreeBegan'
    BY <2>2, <2>3, <2>4 DEF SemInv, TypeOK, FreeBegan
  <2> QED
    BY <2>3, <2>4, <2>5, StepAside
<1>3. CASE FreeFinish
  <2>1. TypeOK' /\ FreeBegan'
    BY <1>3 DEF FreeFinish, SemInv, TypeOK, FreeBegan, OwnerStates
  <2> QED
    BY <1>3, <2>1, StepAside DEF FreeFinish, SemInv, Places
<1> QED
  BY <1>1, <1>2, <1>3

(* semaphoreFree sets the flags and wakes everybody: nobody leaves the     *)
(* queue yet, and what held until the shutdown is no longer claimed.       *)
LEMMA FreeShutdownStep ==
    ASSUME SemInv, mode' = mode, FreeShutdown
    PROVE  SemInv'
<1>1. /\ pc' = Wake(pc, Waiting \cup DrainWaiting) /\ shutdown' = TRUE
      /\ UNCHANGED <<permitCount, waitCount, held, granted, produced>>
  BY DEF FreeShutdown
<1>2. pc \in [Callers -> ThreadStates \cup DrainerStates]
  BY DEF SemInv, TypeOK
<1>3. \A u \in Callers : pc'[u] = pc[u] \/ (pc[u] = "waiting" /\ pc'[u] = "woken")
  BY <1>1, <1>2 DEF Wake, Waiting, DrainWaiting
<1>4. ASSUME NEW A, "waiting" \in A <=> "woken" \in A
      PROVE  Count(pc', A) = Count(pc, A)
  <2>1. \A u \in Threads : pc[u] \in A <=> pc'[u] \in A
    BY <1>3, <1>4 DEF Callers
  <2> QED
    BY <2>1, CountSame
<1>5. /\ Count(pc, InQueue)' = Count(pc, InQueue)
      /\ Count(pc, {"fixup"})' = Count(pc, {"fixup"})
      /\ Count(pc, {"releasing"})' = Count(pc, {"releasing"})
  BY <1>4 DEF Count, InQueue
<1>6. Signalled' = Signalled /\ Timeouts' = Timeouts /\ InitialPermits' = InitialPermits
  BY Steady
<1>7. TypeOK'
  <2>1. pc' \in [Callers -> ThreadStates \cup DrainerStates]
    BY <1>1, <1>2 DEF Wake, ThreadStates, DrainerStates
  <2> QED
    BY <1>1, <2>1 DEF SemInv, TypeOK, FreeShutdown, OwnerStates
<1>8. Places'
  BY <1>3, <1>6 DEF SemInv, Places, ThreadStates, DrainerStates, Callers
<1>9. FreeBegan'
  BY <1>1 DEF FreeBegan, FreeShutdown
<1>10. Ledger' /\ Holders' /\ Sleepers'
  BY <1>1, <1>5, <1>6 DEF SemInv, Ledger, Tickets, Holders, Sleepers
<1> QED
  BY <1>7, <1>8, <1>9, <1>10 DEF SemInv

-----------------------------------------------------------------------------
(* The theorems.                                                           *)

(* A semaphore is created with nobody in it (semaphoreCreateInternal).     *)
LEMMA SemStarts == Init => SemInv
<1> SUFFICES ASSUME Init PROVE SemInv
  OBVIOUS
<1>1. Cardinality(Threads) \in Nat /\ Cardinality({}) = 0
  BY FS_CardinalityType, FS_EmptySet, CallersAssumption
<1>2. ASSUME NEW A, "idle" \notin A
      PROVE  Count(pc, A) = 0
  <2>1. Count(pc, A) = 0 <=> \A u \in Threads : pc[u] \notin A
    BY CountType
  <2> QED
    BY <1>2, <2>1 DEF Init, Callers
<1>3. /\ Count(pc, InQueue) = 0 /\ Count(pc, {"fixup"}) = 0 /\ Count(pc, {"releasing"}) = 0
      /\ Count(pc, {"woken"}) = 0 /\ Count(pc, {"waiting"}) = 0
  BY <1>2 DEF InQueue
<1>4. InitialPermits \in Nat /\ MaxPermits \in Nat /\ Budget \in Nat
  BY PermitsAssumption, FlagsAssumption DEF InitialPermits
<1>5. TypeOK
  <2>1. pc \in [Callers -> ThreadStates \cup DrainerStates] /\ budget \in [Callers -> Nat]
    BY <1>4 DEF Init, ThreadStates
  <2>2. 0 \in 0 .. Cardinality(Threads)
    BY <1>1
  <2>3. /\ mode \in Modes /\ permitCount \in Int /\ waitCount \in 0 .. Cardinality(Threads)
        /\ held \subseteq Threads
    BY <1>4, <2>2 DEF Init
  <2>4. locked \in BOOLEAN /\ shutdown \in BOOLEAN
    BY Zenon DEF Init
  <2>5. owner \in OwnerStates /\ granted \in Nat /\ produced \in Nat
    BY DEF Init, OwnerStates
  <2> QED
    BY <2>1, <2>3, <2>4, <2>5 DEF TypeOK
<1>6. Places /\ FreeBegan
  BY DEF Init, Places, FreeBegan, ThreadStates, DrainerStates, Callers
<1>7. Ledger /\ Holders /\ Sleepers
  BY <1>1, <1>3, <1>4 DEF Init, Ledger, Tickets, Holders, Sleepers
<1> QED
  BY <1>5, <1>6, <1>7 DEF SemInv

LEMMA SemStep == SemInv /\ [Next]_vars => SemInv'
<1> SUFFICES ASSUME SemInv, [Next]_vars PROVE SemInv'
  OBVIOUS
<1>1. CASE UNCHANGED vars
  <2>1. UNCHANGED <<mode, permitCount, waitCount, locked, shutdown, pc, held, budget, owner, granted, produced>>
    BY <1>1 DEF vars
  <2>2. TypeOK' /\ FreeBegan'
    BY <2>1 DEF SemInv, TypeOK, FreeBegan
  <2> QED
    BY <2>1, <2>2, StepAside DEF SemInv, Places
<1>2. CASE Next
  <2>1. mode' = mode /\ Step
    BY <1>2 DEF Next
  <2> QED
    BY <2>1, AcquireCheckStep, AcquireTakeStep, AcquireTimeoutStep, AcquireGiveUpStep, AcquireResumeStep,
       ReleaseCheckStep, ReleaseGiveStep, ReleaseFixupStep, OthersStep, FreeShutdownStep DEF Step
<1> QED
  BY <1>1, <1>2

(* SemInv holds of every semaphore.                                        *)
THEOREM SemSafety == Spec => []SemInv
BY SemStarts, SemStep, PTL DEF Spec

(* The tickets balance: what semaphoreAcquire and semaphoreRelease keep in *)
(* permitCount and waitCount is what was put in, granted and is waited     *)
(* for, for any number of threads and permits, and a counting semaphore    *)
(* never has more holders than permits.                                    *)
THEOREM SemTicketsBalance == Spec => []TicketsBalance
<1>1. SemInv => TicketsBalance
  <2> SUFFICES ASSUME SemInv PROVE TicketsBalance
    OBVIOUS
  <2>1. Cardinality(Blocked) = Count(pc, InQueue)
    BY DEF Blocked, Count, InQueue
  <2>2. Cardinality(FixingUp) = Count(pc, {"fixup"})
    <3>1. FixingUp = {u \in Threads : pc[u] \in {"fixup"}}
      BY DEF FixingUp
    <3> QED
      BY <3>1 DEF Count
  <2>3. Cardinality(held) <= (IF Signalled THEN 0 ELSE MaxPermits)
    <3>1. CASE Signalled
      BY <3>1, FS_EmptySet DEF SemInv, Holders
    <3>2. CASE ~Signalled
      <4>1. Cardinality(held) \in Nat /\ Count(pc, {"releasing"}) \in Nat
        BY HoldersMove, Counts
      <4> QED
        BY <3>2, <4>1, PermitsAssumption DEF SemInv, Holders, TypeOK
    <3> QED
      BY <3>1, <3>2
  <2> QED
    BY <2>1, <2>2, <2>3 DEF SemInv, TicketsBalance, Ledger, Tickets
<1> QED
  BY <1>1, SemSafety, PTL

(* No acquirer sleeps beside a free permit once every running operation is *)
(* done (semaphoreRelease signals one waiter per ticket it takes back).    *)
THEOREM SemNoSleeper == Spec => []NoSleeperBesideFreePermit
<1>1. SemInv => NoSleeperBesideFreePermit
  <2> SUFFICES ASSUME SemInv, ~Timeouts, Quiet, Waiting # {}
               PROVE  granted >= InitialPermits + produced
    BY DEF NoSleeperBesideFreePermit
  <2>1. \A u \in Threads : pc[u] \in {"idle", "waiting"}
    BY DEF Quiet, Callers
  <2>2. Count(pc, InQueue) = Count(pc, {"waiting"})
    <3>1. {u \in Threads : pc[u] \in InQueue} = {u \in Threads : pc[u] \in {"waiting"}}
      BY <2>1 DEF InQueue
    <3> QED
      BY <3>1 DEF Count
  <2>3. Count(pc, {"fixup"}) = 0
    <3>1. Count(pc, {"fixup"}) = 0 <=> \A u \in Threads : pc[u] \notin {"fixup"}
      BY CountType
    <3> QED
      BY <2>1, <3>1
  <2>4. Count(pc, {"waiting"}) # 0 /\ Count(pc, {"waiting"}) \in Nat
    <3>1. Count(pc, {"waiting"}) = 0 <=> \A u \in Threads : pc[u] \notin {"waiting"}
      BY CountType
    <3> QED
      BY <3>1, Counts DEF Waiting
  <2>5. ~shutdown
    BY DEF Quiet, SemInv, FreeBegan
  <2>6. permitCount + Count(pc, {"waiting"}) <= 0
    BY <2>4, <2>5 DEF SemInv, Sleepers
  <2>7. permitCount = InitialPermits + produced - granted - Count(pc, InQueue) + Count(pc, {"fixup"})
    BY <2>5 DEF SemInv, Ledger, Tickets
  <2>8. InitialPermits \in Nat /\ granted \in Nat /\ produced \in Nat /\ permitCount \in Int
    BY PermitsAssumption DEF InitialPermits, SemInv, TypeOK
  <2> QED
    BY <2>2, <2>3, <2>4, <2>6, <2>7, <2>8
<1> QED
  BY <1>1, SemSafety, PTL
=================================================================================
