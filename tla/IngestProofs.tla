------------------------------ MODULE IngestProofs ------------------------------
(***************************************************************************)
(* Blocks follow their cluster, the coordinator holds nothing back and the *)
(* merge of two tracks keeps its order, for any configurations, any queue  *)
(* and metadata limits and any number of frames, metadata calls, failures  *)
(* and resets.                                                             *)
(***************************************************************************)
EXTENDS Ingest, TLAPS, SequenceTheorems, WellFoundedInduction

-----------------------------------------------------------------------------
(* Threads, locks and the coordinator's recursive lock.                    *)

Putting == {"next", "check", "enter", "space", "wait", "add"}

IsCall(c) ==
    /\ DOMAIN c = {"op", "pc", "f", "depth", "locked", "need", "item"}
    /\ c = [x \in DOMAIN c |-> c[x]]
    /\ c.depth \in Nat /\ c.locked \in BOOLEAN

Holds(c) == c.depth > 0

\* The stream's lock is held where the code holds it, by one thread at a time.
Locks ==
    /\ \A t \in Threads : call[t].locked <=> call[t].pc \in {"space", "add"}
    /\ \A t, u \in Threads : call[t].locked /\ call[u].locked => t = u

\* A thread that puts has the coordinator's lock, alone, except while it logs metrics.
Coordinator ==
    mode.order # "pass" =>
        /\ \A t \in Threads : call[t].pc \in Putting => Holds(call[t])
        /\ \A t, u \in Threads : Holds(call[t]) /\ Holds(call[u]) => t = u

\* Without a coordinator it is putFrameLock that keeps the puts apart.
Turns ==
    /\ call["producer"] = Idle \/ call["timer"] = Idle
    /\ call["metadata"].pc \notin Putting \cup {"logged"}
    /\ mode.order = "pass" => call["stopper"].pc \notin Putting \cup {"logged"}

\* Only the producer puts frames into the coordinator's queues.
Owned(t, c) ==
    /\ c.pc \in Putting \cup {"logged"} => c.op \in {"put", "eofr", "stop", "direct"}
    /\ c.pc = "next" => c.op # "direct"
    /\ c.op = "put" => t = "producer"

CallInv ==
    /\ call = [t \in Threads |-> call[t]] /\ \A t \in Threads : IsCall(call[t])
    /\ Locks /\ Coordinator /\ Turns /\ \A t \in Threads : Owned(t, call[t])

-----------------------------------------------------------------------------
(* What a step does to the call of its thread.                             *)

Other(t) == \A u \in Threads \ {t} : call'[u] = call[u]

\* the call of t becomes c
Becomes(t, c) == call' = [call EXCEPT ![t] = c]

LEMMA Becoming ==
    ASSUME CallInv, NEW t \in Threads, NEW c, Becomes(t, c)
    PROVE  /\ call'[t] = c /\ Other(t)
           /\ call' = [u \in Threads |-> call'[u]]
<1>1. call = [u \in Threads |-> call[u]]
  BY DEF CallInv
<1> QED BY <1>1 DEF Becomes, Other

\* What every step observes of the locks: it takes one only when it is free, and a put
\* starts only when no other has.
Moves(t) ==
    /\ call' = [u \in Threads |-> call'[u]] /\ Other(t) /\ IsCall(call'[t])
    /\ Owned(t, call'[t])
    /\ call'[t].locked <=> call'[t].pc \in {"space", "add"}
    /\ call'[t].locked => call[t].locked \/ StreamFree
    /\ mode.order # "pass" =>
        /\ call'[t].pc \in Putting => Holds(call'[t])
        /\ Holds(call'[t]) => Holds(call[t]) \/ CoordFree(t)
    /\ t = "producer" => call'[t] = Idle \/ call[t] # Idle \/ call["timer"] = Idle
    /\ t = "timer" => call'[t] = Idle \/ call[t] # Idle \/ call["producer"] = Idle
    /\ t = "metadata" => call'[t].pc \notin Putting \cup {"logged"}
    /\ t = "stopper" /\ mode.order = "pass" => call'[t].pc \notin Putting \cup {"logged"}

LEMMA MovesKeep ==
    ASSUME CallInv, NEW t \in Threads, Moves(t), mode' = mode
    PROVE  CallInv'
<1>1. \A u \in Threads : IsCall(call'[u]) /\ Owned(u, call'[u])
  BY DEF CallInv, Moves, Other
<1>2. Locks'
  <2>1. \A u \in Threads : u # t => call'[u] = call[u]
    BY DEF Moves, Other
  <2>2. \A u \in Threads : call'[u].locked <=> call'[u].pc \in {"space", "add"}
    BY <2>1 DEF CallInv, Locks, Moves
  <2>3. \A u \in Threads : call'[t].locked /\ call'[u].locked => t = u
    BY <2>1 DEF CallInv, Locks, Moves, StreamFree
  <2>4. \A u, v \in Threads : call'[u].locked /\ call'[v].locked => u = v
    BY <2>1, <2>3 DEF CallInv, Locks
  <2> QED BY <2>2, <2>4 DEF Locks
<1>3. Coordinator'
  <2> SUFFICES ASSUME mode.order # "pass"
               PROVE  /\ \A u \in Threads : call'[u].pc \in Putting => Holds(call'[u])
                      /\ \A u, v \in Threads : Holds(call'[u]) /\ Holds(call'[v]) => u = v
    BY DEF Coordinator, Putting
  <2>1. \A u \in Threads : u # t => call'[u] = call[u]
    BY DEF Moves, Other
  <2>2. \A u \in Threads : call'[u].pc \in Putting => Holds(call'[u])
    BY <2>1 DEF CallInv, Coordinator, Moves
  <2>3. CoordFree(t) => \A u \in Threads : u # t => ~Holds(call[u])
    BY DEF CoordFree, Holds
  <2>4. \A u \in Threads : Holds(call'[t]) /\ Holds(call'[u]) => t = u
    BY <2>1, <2>3 DEF CallInv, Coordinator, Moves
  <2>5. \A u, v \in Threads : Holds(call'[u]) /\ Holds(call'[v]) => u = v
    BY <2>1, <2>4 DEF CallInv, Coordinator
  <2> QED BY <2>2, <2>5
<1>4. Turns'
  <2>1. \A u \in Threads : u # t => call'[u] = call[u]
    BY DEF Moves, Other
  <2>2. {"producer", "timer", "stopper", "metadata"} = Threads
    BY DEF Threads
  <2>3. call'["producer"] = Idle \/ call'["timer"] = Idle
    BY <2>1, <2>2 DEF CallInv, Turns, Moves
  <2>4. call'["metadata"].pc \notin Putting \cup {"logged"}
    BY <2>1, <2>2 DEF CallInv, Turns, Moves
  <2>5. mode.order = "pass" => call'["stopper"].pc \notin Putting \cup {"logged"}
    BY <2>1, <2>2 DEF CallInv, Turns, Moves
  <2> QED BY <2>3, <2>4, <2>5 DEF Turns, Putting, Idle, NoFrame, NoItem, Closed
<1>5. call' = [u \in Threads |-> call'[u]]
  BY DEF Moves
<1> QED BY <1>1, <1>2, <1>3, <1>4, <1>5 DEF CallInv

LEMMA IdleIs ==
    IsCall(Idle) /\ Idle.op = "none" /\ Idle.pc = "none" /\ Idle.depth = 0 /\ ~Idle.locked /\ Idle.item = NoItem
  BY DEF Idle, IsCall

\* A call that begins.
LEMMA Starting ==
    ASSUME CallInv, NEW t \in Threads, NEW op, NEW pc, NEW f, NEW depth \in Nat,
           Start(t, op, pc, f, depth)
    PROVE  /\ call'[t].op = op /\ call'[t].pc = pc /\ call'[t].f = f
           /\ call'[t].depth = depth /\ ~call'[t].locked /\ call'[t].item = NoItem
           /\ Other(t) /\ call' = [u \in Threads |-> call'[u]] /\ IsCall(call'[t])
<1> DEFINE c == [Idle EXCEPT !.op = op, !.pc = pc, !.f = f, !.depth = depth]
<1>1. Becomes(t, c)
  BY DEF Start, Becomes
<1>2. c.op = op /\ c.pc = pc /\ c.f = f
  BY IdleIs DEF IsCall
<1>3. c.depth = depth /\ ~c.locked /\ c.item = NoItem
  BY IdleIs DEF IsCall
<1>4. IsCall(c)
  BY IdleIs DEF IsCall
<1> HIDE DEF c
<1>5. call'[t] = c /\ Other(t) /\ call' = [u \in Threads |-> call'[u]]
  BY <1>1, Becoming
<1> QED BY <1>2, <1>3, <1>4, <1>5

\* A put that fails is over; a flush by stopStream goes on with the stop.
LEMMA Failing ==
    ASSUME CallInv, NEW t \in Threads, Failed(t)
    PROVE  /\ call'[t].pc = (IF call[t].op = "stop" THEN "stop" ELSE "none")
           /\ call[t].op # "stop" => call'[t] = Idle
           /\ call'[t].item = NoItem /\ call'[t].op \in {"stop", "none"}
           /\ Moves(t) /\ foc' = foc
<1> DEFINE c == IF call[t].op = "stop" THEN [Idle EXCEPT !.op = "stop", !.pc = "stop"] ELSE Idle
<1>1. Becomes(t, c)
  BY DEF Failed, Becomes
<1>2. /\ IsCall(c) /\ c.pc = (IF call[t].op = "stop" THEN "stop" ELSE "none")
      /\ ~c.locked /\ c.depth = 0 /\ c.item = NoItem /\ c.op \in {"stop", "none"}
  BY IdleIs DEF IsCall
<1>3. call[t].op # "stop" => c = Idle
  OBVIOUS
<1> HIDE DEF c
<1>4. call'[t] = c /\ Other(t) /\ call' = [u \in Threads |-> call'[u]]
  BY <1>1, Becoming
<1>5. t \in {"producer", "timer"} => (call[t] = Idle => c = Idle)
  BY <1>3, IdleIs
<1>6. Moves(t)
  BY <1>2, <1>4, <1>5 DEF Moves, Owned, Putting, Holds
<1> QED BY <1>2, <1>3, <1>4, <1>6 DEF Failed
-----------------------------------------------------------------------------
(* Every step moves the call of one thread.                                *)

\* The call is handed on with some of its fields changed.
Handed(t, c) == Becomes(t, c) /\ IsCall(c)

LEMMA Handing ==
    ASSUME CallInv, NEW t \in Threads, NEW c, Handed(t, c)
    PROVE  call'[t] = c /\ Other(t) /\ call' = [u \in Threads |-> call'[u]] /\ IsCall(call'[t])
  BY Becoming DEF Handed

LEMMA NotIdle ==
    ASSUME NEW t \in Threads, call[t].pc # "none"
    PROVE  call[t] # Idle
  BY IdleIs

LEMMA Distinct ==
    Threads = {"producer", "timer", "stopper", "metadata"}
  BY DEF Threads

LEMMA PutFrameMoves ==
    ASSUME CallInv, NEW k, NEW ts, NEW key, PutFrame(k, ts, key)
    PROVE  \/ call' = call
           \/ /\ Moves("producer") /\ call'["producer"].pc \in {"check", "next"}
              /\ call'["producer"].item = NoItem
              /\ mode.order # "pass" => call'["producer"].op = "put"
<1> DEFINE f == [track |-> k, dts |-> ts, pts |-> ts, key |-> key, eofr |-> FALSE]
<1>0. "producer" \in Threads
  BY Distinct
<1>1. /\ call["producer"] = Idle /\ call["timer"] = Idle
      /\ \/ mode.order = "pass" /\ Start("producer", "direct", "check", f, 0)
         \/ mode.order # "pass" /\ CoordFree("producer") /\ Start("producer", "put", "next", NoFrame, 1)
         \/ call' = call
  BY DEF PutFrame
<1> HIDE DEF f
<1>2. CASE mode.order = "pass" /\ Start("producer", "direct", "check", f, 0)
  BY <1>0, <1>1, <1>2, Starting DEF Moves, Owned, Putting
<1>3. CASE mode.order # "pass" /\ CoordFree("producer") /\ Start("producer", "put", "next", NoFrame, 1)
  BY <1>0, <1>1, <1>3, Starting DEF Moves, Owned, Putting, Holds
<1> QED BY <1>1, <1>2, <1>3

LEMMA PutEofrMoves ==
    ASSUME CallInv, PutEofr
    PROVE  /\ Moves("producer") /\ call'["producer"].pc \in {"check", "next"}
           /\ call'["producer"].item = NoItem
<1>0. "producer" \in Threads
  BY Distinct
<1>1. /\ call["producer"] = Idle /\ call["timer"] = Idle
      /\ \/ mode.order = "pass" /\ Start("producer", "direct", "check", Eofr, 0)
         \/ mode.order # "pass" /\ CoordFree("producer") /\ Start("producer", "eofr", "next", NoFrame, 2)
  BY DEF PutEofr
<1>2. CASE mode.order = "pass" /\ Start("producer", "direct", "check", Eofr, 0)
  BY <1>0, <1>1, <1>2, Starting DEF Moves, Owned, Putting
<1>3. CASE mode.order # "pass" /\ CoordFree("producer") /\ Start("producer", "eofr", "next", NoFrame, 2)
  BY <1>0, <1>1, <1>3, Starting DEF Moves, Owned, Putting, Holds
<1> QED BY <1>1, <1>2, <1>3

LEMMA TimerEofrMoves ==
    ASSUME CallInv, TimerEofr
    PROVE  Moves("timer") /\ call'["timer"].pc = "check" /\ call'["timer"].item = NoItem
<1>0. "timer" \in Threads
  BY Distinct
<1>1. /\ call["producer"] = Idle
      /\ mode.order # "pass" => CoordFree("timer")
      /\ Start("timer", "direct", "check", Eofr, IF mode.order = "pass" THEN 0 ELSE 1)
  BY DEF TimerEofr
<1>2. CASE mode.order = "pass"
  BY <1>0, <1>1, <1>2, Starting DEF Moves, Owned, Putting
<1>3. CASE mode.order # "pass"
  BY <1>0, <1>1, <1>3, Starting DEF Moves, Owned, Putting, Holds
<1> QED BY <1>2, <1>3

LEMMA BeginStopMoves ==
    ASSUME CallInv, BeginStop
    PROVE  /\ Moves("stopper") /\ call'["stopper"].pc \in {"stop", "next"}
           /\ call'["stopper"].item = NoItem
<1>0. "stopper" \in Threads
  BY Distinct
<1>1. \/ mode.order = "pass" /\ Start("stopper", "stop", "stop", NoFrame, 0)
      \/ mode.order # "pass" /\ CoordFree("stopper") /\ Start("stopper", "stop", "next", NoFrame, 1)
  BY DEF BeginStop
<1>2. CASE mode.order = "pass" /\ Start("stopper", "stop", "stop", NoFrame, 0)
  BY <1>0, <1>2, Starting DEF Moves, Owned, Putting
<1>3. CASE mode.order # "pass" /\ CoordFree("stopper") /\ Start("stopper", "stop", "next", NoFrame, 1)
  BY <1>0, <1>3, Starting DEF Moves, Owned, Putting, Holds
<1> QED BY <1>1, <1>2, <1>3

LEMMA BeginMetadataMoves ==
    ASSUME CallInv, NEW what \in {"oneShot", "persistent", "note", "both"}, BeginMetadata(what)
    PROVE  Moves("metadata") /\ call'["metadata"].pc = "append" /\ call'["metadata"].item = NoItem
<1>0. "metadata" \in Threads
  BY Distinct
<1>1. Start("metadata", what, "append", NoFrame, 0)
  BY DEF BeginMetadata
<1> QED BY <1>0, <1>1, Starting DEF Moves, Owned, Putting, Holds

\* The call of t is over.
LEMMA Ending ==
    ASSUME CallInv, NEW t \in Threads, Becomes(t, Idle)
    PROVE  Moves(t) /\ call'[t] = Idle
<1>1. call'[t] = Idle /\ Other(t) /\ call' = [u \in Threads |-> call'[u]]
  BY Becoming
<1> QED BY <1>1, IdleIs DEF Moves, Owned, Putting, Holds

LEMMA PutEarliestMoves ==
    ASSUME CallInv, NEW t \in Threads, PutEarliestFrame(t)
    PROVE  Moves(t) /\ call'[t].pc = "check" /\ call'[t].item = call[t].item /\ call'[t].op = call[t].op
<1> DEFINE d == dequeueEarliest(foc, mode.types, mode.order).frame
           c == [call[t] EXCEPT !.f = d, !.pc = "check"]
<1>1. call[t].pc = "next" /\ call' = [call EXCEPT ![t].f = d, ![t].pc = "check"]
  BY DEF PutEarliestFrame, At
<1> HIDE DEF d
<1>2. /\ IsCall(c) /\ c.pc = "check" /\ c.depth = call[t].depth /\ c.locked = call[t].locked
      /\ c.op = call[t].op /\ c.item = call[t].item
  BY DEF CallInv, IsCall
<1>3. Becomes(t, c)
  BY <1>1 DEF Becomes, CallInv, IsCall
<1> HIDE DEF c
<1>4. call'[t] = c /\ Other(t) /\ call' = [u \in Threads |-> call'[u]]
  BY <1>3, Becoming
<1>5. Owned(t, call[t]) /\ ~call[t].locked /\ call[t] # Idle /\ (mode.order # "pass" => Holds(call[t]))
  BY <1>1, NotIdle DEF CallInv, Locks, Coordinator, Putting
<1>6. t # "metadata" /\ (t = "stopper" => mode.order # "pass")
  BY <1>1, Distinct DEF CallInv, Turns, Putting
<1> QED BY <1>1, <1>2, <1>4, <1>5, <1>6 DEF Moves, Owned, Putting, Holds
\* A thread that is about to put has what a put has.
LEMMA PutterHas ==
    ASSUME CallInv, NEW t \in Threads, call[t].pc \in Putting
    PROVE  /\ Owned(t, call[t]) /\ call[t] # Idle /\ t # "metadata" /\ (t = "stopper" => mode.order # "pass")
           /\ mode.order # "pass" => Holds(call[t])
           /\ call[t].locked <=> call[t].pc \in {"space", "add"}
<1>1. call[t] # Idle
  BY NotIdle DEF Putting
<1> QED BY <1>1 DEF CallInv, Locks, Coordinator, Turns

LEMMA LoopEndsMoves ==
    ASSUME CallInv, NEW t \in Threads, LoopEnds(t)
    PROVE  /\ Moves(t) /\ call'[t].pc \in {"none", "check", "stop"}
           /\ call'[t].item \in {call[t].item, NoItem}
           /\ call[t].op = "put" => call'[t] = Idle
           /\ call'[t].op \in {"none", "direct", "stop"}
<1>0. call[t].pc = "next"
  BY DEF LoopEnds, At
<1> call[t].op \in {"put", "eofr", "stop"}
  BY <1>0 DEF CallInv, Owned, Putting
<1>1. CASE call[t].op = "put"
  <2>1. Becomes(t, Idle)
    BY <1>1 DEF LoopEnds, Becomes
  <2> QED BY <1>1, <2>1, Ending, IdleIs
<1>2. CASE call[t].op = "eofr"
  <2> DEFINE c == [call[t] EXCEPT !.op = "direct", !.pc = "check", !.f = Eofr, !.depth = 1]
  <2>1. call' = [call EXCEPT ![t].op = "direct", ![t].pc = "check", ![t].f = Eofr, ![t].depth = 1]
    BY <1>2 DEF LoopEnds
  <2>2. c.pc = "check" /\ c.depth = 1 /\ c.op = "direct"
    BY DEF CallInv, IsCall
  <2>3. c.locked = call[t].locked /\ c.item = call[t].item
    BY DEF CallInv, IsCall
  <2>4. IsCall(c)
    BY DEF CallInv, IsCall
  <2>5. Becomes(t, c)
    BY <2>1 DEF Becomes, CallInv, IsCall
  <2> HIDE DEF c
  <2>6. call'[t] = c /\ Other(t) /\ call' = [u \in Threads |-> call'[u]]
    BY <2>5, Becoming
  <2>7. /\ Owned(t, call[t]) /\ call[t] # Idle /\ t # "metadata" /\ (t = "stopper" => mode.order # "pass")
        /\ mode.order # "pass" => Holds(call[t])
        /\ ~call[t].locked
    BY <1>0, PutterHas DEF Putting
  <2>8. Moves(t)
    BY <2>2, <2>3, <2>4, <2>6, <2>7 DEF Moves, Owned, Putting, Holds
  <2> QED BY <1>2, <2>2, <2>3, <2>6, <2>8
<1>3. CASE call[t].op = "stop"
  <2> DEFINE c == [call[t] EXCEPT !.pc = "stop", !.depth = 0]
  <2>1. call' = [call EXCEPT ![t].pc = "stop", ![t].depth = 0]
    BY <1>3 DEF LoopEnds
  <2>2. c.pc = "stop" /\ c.depth = 0 /\ c.locked = call[t].locked /\ c.item = call[t].item
        /\ c.op = call[t].op
    BY DEF CallInv, IsCall
  <2>4. IsCall(c)
    BY DEF CallInv, IsCall
  <2>5. Becomes(t, c)
    BY <2>1 DEF Becomes, CallInv, IsCall
  <2> HIDE DEF c
  <2>6. call'[t] = c /\ Other(t) /\ call' = [u \in Threads |-> call'[u]]
    BY <2>5, Becoming
  <2>7. Owned(t, call[t]) /\ call[t] # Idle /\ ~call[t].locked
    BY <1>0, PutterHas DEF Putting
  <2>8. Moves(t)
    BY <2>2, <2>4, <2>6, <2>7 DEF Moves, Owned, Putting, Holds
  <2> QED BY <1>3, <2>2, <2>6, <2>8
<1> QED BY <1>1, <1>2, <1>3

LEMMA Succeeding ==
    ASSUME CallInv, NEW t \in Threads, call[t].pc \in Putting, Succeed(t)
    PROVE  /\ Moves(t) /\ call'[t].pc \in {"none", "next"} /\ call'[t].item = NoItem
           /\ call[t].op # "direct" => call'[t].op = call[t].op /\ foc' = foc
           /\ call[t].op = "direct" => call'[t] = Idle
           /\ \A x \in DOMAIN foc : x # "eofrPut" => foc'[x] = foc[x]
           /\ DOMAIN foc' = DOMAIN foc
<1>1. CASE call[t].op = "direct"
  <2>1. Becomes(t, Idle)
    BY <1>1 DEF Succeed, Becomes
  <2>2. foc' = [foc EXCEPT !.eofrPut = @ \/ (t = "producer" /\ call[t].f.eofr /\ ComparesDts(mode.order))]
    BY <1>1 DEF Succeed
  <2>3. DOMAIN foc' = DOMAIN foc /\ \A x \in DOMAIN foc : x # "eofrPut" => foc'[x] = foc[x]
    BY <2>2
  <2> QED BY <1>1, <2>1, <2>3, Ending, IdleIs
<1>2. CASE call[t].op # "direct"
  <2> DEFINE c == [Idle EXCEPT !.op = call[t].op, !.pc = "next", !.depth = call[t].depth]
  <2>1. Becomes(t, c) /\ foc' = foc
    BY <1>2 DEF Succeed, Becomes
  <2>2. c.pc = "next" /\ c.depth = call[t].depth /\ ~c.locked /\ c.item = NoItem /\ c.op = call[t].op
    BY IdleIs DEF IsCall
  <2>3. call[t].depth \in Nat
    BY DEF CallInv, IsCall
  <2>4. IsCall(c)
    BY <2>3, IdleIs DEF IsCall
  <2> HIDE DEF c
  <2>6. call'[t] = c /\ Other(t) /\ call' = [u \in Threads |-> call'[u]]
    BY <2>1, Becoming
  <2>7. /\ Owned(t, call[t]) /\ call[t] # Idle /\ t # "metadata" /\ (t = "stopper" => mode.order # "pass")
        /\ mode.order # "pass" => Holds(call[t])
    BY PutterHas
  <2>8. Owned(t, c)
    BY <1>2, <2>2, <2>7 DEF Owned
  <2>9. Moves(t)
    BY <2>2, <2>4, <2>6, <2>7, <2>8 DEF Moves, Putting, Holds
  <2> QED BY <1>2, <2>1, <2>2, <2>6, <2>9
<1> QED BY <1>1, <1>2
\* A put that goes on to another stage: its frame, its loop and its depth stay.
Goes(t, pc, locked) ==
    /\ Other(t) /\ call' = [u \in Threads |-> call'[u]] /\ IsCall(call'[t])
    /\ call'[t].op = call[t].op /\ call'[t].f = call[t].f
    /\ call'[t].pc = pc /\ (call'[t].locked <=> locked)

LEMMA GoesMove ==
    ASSUME CallInv, NEW t \in Threads, call[t].pc \in Putting, NEW pc \in {"enter", "space", "wait", "add"},
           NEW locked \in BOOLEAN, Goes(t, pc, locked), call'[t].depth = call[t].depth,
           locked <=> pc \in {"space", "add"}, locked => call[t].locked \/ StreamFree
    PROVE  Moves(t)
<1>1. /\ Owned(t, call[t]) /\ call[t] # Idle /\ t # "metadata" /\ (t = "stopper" => mode.order # "pass")
      /\ mode.order # "pass" => Holds(call[t])
  BY PutterHas
<1>2. Owned(t, call'[t])
  BY <1>1 DEF Goes, Owned, Putting
<1> QED BY <1>1, <1>2 DEF Moves, Goes, Holds

LEMMA CheckGoes ==
    ASSUME CallInv, NEW t \in Threads, call[t].pc = "check", call' = [call EXCEPT ![t].pc = "enter"]
    PROVE  Goes(t, "enter", FALSE) /\ Moves(t) /\ call'[t].item = call[t].item
<1>1. ~call[t].locked /\ call[t].pc \in Putting
  BY PutterHas DEF Putting
<1>2. /\ call'[t].pc = "enter" /\ call'[t].op = call[t].op /\ call'[t].f = call[t].f
      /\ call'[t].locked = call[t].locked /\ call'[t].depth = call[t].depth /\ call'[t].item = call[t].item
  BY DEF CallInv, IsCall
<1>3. IsCall(call'[t]) /\ Other(t) /\ call' = [u \in Threads |-> call'[u]]
  BY DEF CallInv, IsCall, Other
<1>4. Goes(t, "enter", FALSE)
  BY <1>1, <1>2, <1>3 DEF Goes
<1> QED BY <1>1, <1>2, <1>4, GoesMove

LEMMA EnterGoes ==
    ASSUME CallInv, NEW t \in Threads, call[t].pc = "enter", StreamFree, NEW size,
           call' = [call EXCEPT ![t].pc = "space", ![t].locked = TRUE, ![t].need = size]
    PROVE  Goes(t, "space", TRUE) /\ Moves(t) /\ call'[t].item = call[t].item
<1>1. call[t].pc \in Putting
  BY DEF Putting
<1>2. /\ call'[t].pc = "space" /\ call'[t].op = call[t].op /\ call'[t].f = call[t].f
      /\ call'[t].locked /\ call'[t].depth = call[t].depth /\ call'[t].item = call[t].item
  BY DEF CallInv, IsCall
<1>3. IsCall(call'[t]) /\ Other(t) /\ call' = [u \in Threads |-> call'[u]]
  BY DEF CallInv, IsCall, Other
<1>4. Goes(t, "space", TRUE)
  BY <1>2, <1>3 DEF Goes
<1> QED BY <1>1, <1>2, <1>4, GoesMove

LEMMA WaitGoes ==
    ASSUME CallInv, NEW t \in Threads, call[t].pc = "space",
           call' = [call EXCEPT ![t].pc = "wait", ![t].locked = FALSE]
    PROVE  Goes(t, "wait", FALSE) /\ Moves(t) /\ call'[t].item = call[t].item
<1>1. call[t].pc \in Putting
  BY DEF Putting
<1>2. /\ call'[t].pc = "wait" /\ call'[t].op = call[t].op /\ call'[t].f = call[t].f
      /\ ~call'[t].locked /\ call'[t].depth = call[t].depth /\ call'[t].item = call[t].item
  BY DEF CallInv, IsCall
<1>3. IsCall(call'[t]) /\ Other(t) /\ call' = [u \in Threads |-> call'[u]]
  BY DEF CallInv, IsCall, Other
<1>4. Goes(t, "wait", FALSE)
  BY <1>2, <1>3 DEF Goes
<1> QED BY <1>1, <1>2, <1>4, GoesMove

LEMMA SpaceGoes ==
    ASSUME CallInv, NEW t \in Threads, call[t].pc = "wait", StreamFree,
           call' = [call EXCEPT ![t].pc = "space", ![t].locked = TRUE]
    PROVE  Goes(t, "space", TRUE) /\ Moves(t) /\ call'[t].item = call[t].item
<1>1. call[t].pc \in Putting
  BY DEF Putting
<1>2. /\ call'[t].pc = "space" /\ call'[t].op = call[t].op /\ call'[t].f = call[t].f
      /\ call'[t].locked /\ call'[t].depth = call[t].depth /\ call'[t].item = call[t].item
  BY DEF CallInv, IsCall
<1>3. IsCall(call'[t]) /\ Other(t) /\ call' = [u \in Threads |-> call'[u]]
  BY DEF CallInv, IsCall, Other
<1>4. Goes(t, "space", TRUE)
  BY <1>2, <1>3 DEF Goes
<1> QED BY <1>1, <1>2, <1>4, GoesMove

LEMMA AddGoes ==
    ASSUME CallInv, NEW t \in Threads, call[t].pc = "space", NEW item,
           call' = [call EXCEPT ![t].pc = "add", ![t].item = item]
    PROVE  Goes(t, "add", TRUE) /\ Moves(t) /\ call'[t].item = item
<1>1. call[t].pc \in Putting /\ call[t].locked
  BY PutterHas DEF Putting
<1>2. /\ call'[t].pc = "add" /\ call'[t].op = call[t].op /\ call'[t].f = call[t].f
      /\ call'[t].locked = call[t].locked /\ call'[t].depth = call[t].depth /\ call'[t].item = item
  BY DEF CallInv, IsCall
<1>3. IsCall(call'[t]) /\ Other(t) /\ call' = [u \in Threads |-> call'[u]]
  BY DEF CallInv, IsCall, Other
<1>4. Goes(t, "add", TRUE)
  BY <1>1, <1>2, <1>3 DEF Goes
<1> QED BY <1>1, <1>2, <1>4, GoesMove

\* The metrics window: the stream's lock and one level of the coordinator's are given up.
LEMMA LoggedGoes ==
    ASSUME CallInv, NEW t \in Threads, call[t].pc = "space", NEW item,
           call' = [call EXCEPT ![t].pc = "logged", ![t].item = item, ![t].locked = FALSE,
                                ![t].depth = IF @ = 0 THEN 0 ELSE @ - 1]
    PROVE  Goes(t, "logged", FALSE) /\ Moves(t) /\ call'[t].item = item
<1> DEFINE d == IF call[t].depth = 0 THEN 0 ELSE call[t].depth - 1
<1>1. /\ Owned(t, call[t]) /\ call[t] # Idle /\ t # "metadata" /\ (t = "stopper" => mode.order # "pass")
      /\ call[t].pc \in Putting
  BY PutterHas DEF Putting
<1>2. /\ call'[t].pc = "logged" /\ call'[t].op = call[t].op /\ call'[t].f = call[t].f
      /\ ~call'[t].locked
  BY DEF CallInv, IsCall
<1>3. call'[t].item = item
  BY DEF CallInv, IsCall
<1>4. call'[t].depth = d
  BY DEF CallInv, IsCall
<1>5. call[t].depth \in Nat
  BY DEF CallInv, IsCall
<1>6. d \in Nat /\ (d > 0 => call[t].depth > 0)
  BY <1>5
<1>7. DOMAIN call'[t] = DOMAIN call[t] /\ call'[t] = [x \in DOMAIN call'[t] |-> call'[t][x]]
  BY DEF CallInv, IsCall
<1>8. Other(t) /\ call' = [u \in Threads |-> call'[u]]
  BY DEF CallInv, IsCall, Other
<1>9. IsCall(call'[t])
  BY <1>2, <1>4, <1>6, <1>7 DEF CallInv, IsCall
<1>10. Goes(t, "logged", FALSE)
  BY <1>2, <1>8, <1>9 DEF Goes
<1>11. Owned(t, call'[t])
  BY <1>1, <1>2 DEF Owned
<1> QED BY <1>1, <1>2, <1>3, <1>4, <1>6, <1>8, <1>9, <1>10, <1>11 DEF Moves, Holds, Putting

LEMMA LockAgainGoes ==
    ASSUME CallInv, NEW t \in Threads, LockAgain(t)
    PROVE  Goes(t, "add", TRUE) /\ Moves(t) /\ call'[t].item = call[t].item
<1> DEFINE d == IF mode.order = "pass" THEN 0 ELSE call[t].depth + 1
<1>1. /\ call[t].pc = "logged" /\ StreamFree
      /\ mode.order # "pass" => CoordFree(t)
      /\ call' = [call EXCEPT ![t].pc = "add", ![t].locked = TRUE,
                              ![t].depth = IF mode.order = "pass" THEN 0 ELSE @ + 1]
  BY DEF LockAgain, At
<1>2. /\ call'[t].pc = "add" /\ call'[t].op = call[t].op /\ call'[t].f = call[t].f
      /\ call'[t].locked /\ call'[t].item = call[t].item
  BY <1>1 DEF CallInv, IsCall
<1>4. call'[t].depth = d
  BY <1>1 DEF CallInv, IsCall
<1>5. call[t].depth \in Nat
  BY DEF CallInv, IsCall
<1>6. d \in Nat /\ (mode.order # "pass" => d > 0)
  BY <1>5
<1>7. DOMAIN call'[t] = DOMAIN call[t] /\ call'[t] = [x \in DOMAIN call'[t] |-> call'[t][x]]
  BY <1>1 DEF CallInv, IsCall
<1>8. Other(t) /\ call' = [u \in Threads |-> call'[u]]
  BY <1>1 DEF CallInv, IsCall, Other
<1>9. IsCall(call'[t])
  BY <1>2, <1>4, <1>6, <1>7 DEF CallInv, IsCall
<1>10. Goes(t, "add", TRUE)
  BY <1>2, <1>8, <1>9 DEF Goes
<1>11. /\ Owned(t, call[t]) /\ call[t] # Idle /\ t # "metadata" /\ (t = "stopper" => mode.order # "pass")
  BY <1>1, NotIdle DEF CallInv, Turns
<1>12. Owned(t, call'[t])
  BY <1>1, <1>2, <1>11 DEF Owned
<1> QED BY <1>1, <1>2, <1>4, <1>6, <1>8, <1>9, <1>10, <1>11, <1>12 DEF Moves, Holds

-----------------------------------------------------------------------------
(* Blocks and their clusters.                                              *)

Shapes ==
    /\ DOMAIN gen = {"state", "pts", "dts"}
    /\ DOMAIN str = {"stopped", "eofr", "skip", "resetKey"} /\ str.eofr \in BOOLEAN
    /\ DOMAIN hist = {"latest", "lost", "refused", "flushed", "broke", "placed", "dead", "written"}
    /\ hist.lost \in BOOLEAN
    /\ DOMAIN view = {"any", "dts", "pts", "cluster", "open"}

\* The cluster the generator counts from is the last one that was packaged.
CountsFromLatest == gen.state # "start" => hist.latest = <<gen.pts, gen.dts>>

\* Only with key frame clustering are there EoFRs, and a frame behind one starts a cluster.
Reopens(t) ==
    call[t].pc \in {"space", "wait"} =>
        IF call[t].f.eofr THEN mode.cluster = 0 ELSE str.eofr => call[t].f.key
OnlyKeysFollowEofr == (str.eofr => mode.cluster = 0) /\ \A t \in Threads : Reopens(t)

\* What a thread has packaged fits behind the head of the view.
Overtaken(t) == \E u \in Threads \ {t} : At(u, "logged")
Fits(t) ==
    /\ call[t].pc = "logged" => Fresh(call[t].item)
    /\ call[t].pc = "add" /\ call[t].item.kind = "end" => str.eofr /\ call[t].item.cluster = Closed
    /\ /\ call[t].pc = "add" /\ ~Fresh(call[t].item) /\ call[t].item.kind # "end"
       /\ ~hist.lost /\ ~Overtaken(t)
       => call[t].item.cluster = view.open
ItemsFit == \A t \in Threads : Fits(t)

\* The latest cluster is the open one, unless it is still on its way.
OnItsWay(t) == call[t].pc \in {"add", "logged"} /\ Fresh(call[t].item)
LatestIsOpen ==
    ~hist.lost /\ gen.state # "start" /\ ~str.eofr =>
        view.open = hist.latest \/ \E t \in Threads : OnItsWay(t)

ClusterInv ==
    /\ Shapes /\ CountsFromLatest /\ OnlyKeysFollowEofr /\ ItemsFit /\ LatestIsOpen
    /\ BlockHasItsCluster

\* Two threads are never both within a put.
LEMMA Alone ==
    ASSUME CallInv, NEW t \in Threads, NEW u \in Threads,
           call[t].pc \in Putting, call[u].pc \in Putting
    PROVE  t = u
<1>1. CASE mode.order # "pass"
  BY <1>1, PutterHas DEF CallInv, Coordinator
<1>2. CASE mode.order = "pass"
  <2>1. \A v \in {t, u} : v \in {"producer", "timer"} /\ call[v] # Idle
    BY <1>2, PutterHas, Distinct
  <2> QED BY <2>1 DEF CallInv, Turns
<1> QED BY <1>1, <1>2

LEMMA HolderAlone ==
    ASSUME CallInv, NEW t \in Threads, call[t].pc \in {"space", "add"},
           NEW u \in Threads, call[u].pc \in {"space", "add"}
    PROVE  t = u
  BY Alone DEF Putting

Deep == {"space", "wait", "add", "logged"}

\* A step that takes no thread deeper into a put, and no cluster further.
Quiet(t) ==
    /\ mode' = mode /\ Other(t) /\ call[t].pc # "logged" /\ call'[t].pc \notin Deep
    /\ call[t].pc = "add" /\ Fresh(call[t].item) => hist'.lost
    /\ DOMAIN gen' = DOMAIN gen /\ (gen' = gen \/ gen'.state = "start")
    /\ DOMAIN str' = DOMAIN str /\ str'.eofr = str.eofr
    /\ view' = view
    /\ DOMAIN hist' = DOMAIN hist /\ hist'.lost \in BOOLEAN /\ (hist.lost => hist'.lost)
    /\ hist'.latest = hist.latest

LEMMA QuietKeeps ==
    ASSUME CallInv, ClusterInv, NEW t \in Threads, Quiet(t)
    PROVE  ClusterInv'
<1>0. \A u \in Threads : u # t => call'[u] = call[u]
  BY DEF Quiet, Other
<1>1. Shapes'
  BY DEF Quiet, ClusterInv, Shapes
<1>2. CountsFromLatest'
  BY DEF Quiet, ClusterInv, CountsFromLatest
<1>3. OnlyKeysFollowEofr'
  <2>1. \A u \in Threads : Reopens(u)'
    BY <1>0 DEF Quiet, ClusterInv, OnlyKeysFollowEofr, Reopens, Deep
  <2> QED BY <2>1 DEF Quiet, ClusterInv, OnlyKeysFollowEofr
<1>4. \A u \in Threads : u # t => (Overtaken(u)' <=> Overtaken(u))
  BY <1>0 DEF Overtaken, At, Quiet, Deep
<1>5. ItemsFit'
  <2>1. \A u \in Threads : Fits(u)'
    <3> SUFFICES ASSUME NEW u \in Threads PROVE Fits(u)'
      OBVIOUS
    <3>1. CASE u = t
      BY <3>1 DEF Quiet, Deep, Fits
    <3>2. CASE u # t
      BY <3>2, <1>0, <1>4 DEF Quiet, ClusterInv, ItemsFit, Fits, Shapes
    <3> QED BY <3>1, <3>2
  <2> QED BY <2>1 DEF ItemsFit
<1>6. LatestIsOpen'
  <2> SUFFICES ASSUME ~hist'.lost, gen'.state # "start", ~str'.eofr
               PROVE  view'.open = hist'.latest \/ \E u \in Threads : OnItsWay(u)'
    BY DEF LatestIsOpen
  <2>1. view.open = hist.latest \/ \E u \in Threads : OnItsWay(u)
    BY DEF ClusterInv, LatestIsOpen, Quiet
  <2>2. \A u \in Threads : OnItsWay(u) => u # t
    BY DEF OnItsWay, Quiet
  <2>3. \A u \in Threads : OnItsWay(u) => OnItsWay(u)'
    BY <1>0, <2>2 DEF OnItsWay
  <2> QED BY <2>1, <2>3 DEF Quiet
<1>7. BlockHasItsCluster'
  BY DEF Quiet, ClusterInv, BlockHasItsCluster
<1> QED BY <1>1, <1>2, <1>3, <1>5, <1>6, <1>7 DEF ClusterInv

\* A step into the wait for space, out of it or back.
Asks(t) ==
    /\ mode' = mode /\ Other(t) /\ call[t].pc \in {"enter", "space", "wait"} /\ call'[t].pc \in {"space", "wait"}
    /\ Reopens(t)'
    /\ DOMAIN gen' = DOMAIN gen /\ (gen' = gen \/ gen'.state = "start")
    /\ DOMAIN str' = DOMAIN str /\ str'.eofr = str.eofr
    /\ view' = view /\ hist' = hist

LEMMA AsksKeeps ==
    ASSUME CallInv, ClusterInv, NEW t \in Threads, Asks(t)
    PROVE  ClusterInv'
<1>0. \A u \in Threads : u # t => call'[u] = call[u]
  BY DEF Asks, Other
<1>1. Shapes' /\ CountsFromLatest' /\ BlockHasItsCluster'
  BY DEF Asks, ClusterInv, Shapes, CountsFromLatest, BlockHasItsCluster
<1>3. OnlyKeysFollowEofr'
  <2>1. \A u \in Threads : Reopens(u)'
    BY <1>0 DEF Asks, ClusterInv, OnlyKeysFollowEofr, Reopens
  <2> QED BY <2>1 DEF Asks, ClusterInv, OnlyKeysFollowEofr
<1>4. \A u \in Threads : Overtaken(u)' <=> Overtaken(u)
  BY <1>0 DEF Overtaken, At, Asks
<1>5. ItemsFit'
  <2>1. \A u \in Threads : Fits(u)'
    <3> SUFFICES ASSUME NEW u \in Threads PROVE Fits(u)'
      OBVIOUS
    <3>1. CASE u = t
      BY <3>1 DEF Asks, Fits
    <3>2. CASE u # t
      BY <3>2, <1>0, <1>4 DEF Asks, ClusterInv, ItemsFit, Fits
    <3> QED BY <3>1, <3>2
  <2> QED BY <2>1 DEF ItemsFit
<1>6. LatestIsOpen'
  <2>1. \A u \in Threads : OnItsWay(u) => OnItsWay(u)'
    BY <1>0 DEF OnItsWay, Asks
  <2> QED BY <2>1 DEF Asks, ClusterInv, LatestIsOpen
<1> QED BY <1>1, <1>3, <1>5, <1>6 DEF ClusterInv

\* A frame or an EoFR is packaged: the thread has the stream's lock, and its item
\* fits by what it found there.
LEMMA PackedKeeps ==
    ASSUME CallInv, ClusterInv, NEW t \in Threads, call[t].pc = "space",
           mode' = mode, Other(t), call'[t].pc \in {"add", "logged"}, view' = view,
           Shapes', CountsFromLatest', hist'.lost = hist.lost,
           str'.eofr => mode.cluster = 0,
           Fits(t)',
           OnItsWay(t)' \/ str'.eofr \/ (gen' = gen /\ hist'.latest = hist.latest /\ str'.eofr = str.eofr)
    PROVE  ClusterInv'
<1>0. \A u \in Threads : u # t => call'[u] = call[u]
  BY DEF Other
<1>1. \A u \in Threads : u # t => call[u].pc \notin {"space", "wait", "add"}
  BY Alone DEF Putting
<1>2. BlockHasItsCluster'
  BY DEF ClusterInv, BlockHasItsCluster
<1>3. OnlyKeysFollowEofr'
  <2>1. \A u \in Threads : Reopens(u)'
    BY <1>0, <1>1 DEF Reopens
  <2> QED BY <2>1 DEF OnlyKeysFollowEofr
<1>4. ItemsFit'
  <2>1. \A u \in Threads : Fits(u)'
    <3> SUFFICES ASSUME NEW u \in Threads, u # t PROVE Fits(u)'
      OBVIOUS
    <3> QED BY <1>0, <1>1 DEF ClusterInv, ItemsFit, Fits
  <2> QED BY <2>1 DEF ItemsFit
<1>5. LatestIsOpen'
  <2>1. CASE OnItsWay(t)' \/ str'.eofr
    BY <2>1 DEF LatestIsOpen
  <2>2. CASE gen' = gen /\ hist'.latest = hist.latest /\ str'.eofr = str.eofr
    <3>1. \A u \in Threads : OnItsWay(u) => u # t
      BY DEF OnItsWay
    <3>2. \A u \in Threads : OnItsWay(u) => OnItsWay(u)'
      BY <1>0, <3>1 DEF OnItsWay
    <3> QED BY <2>2, <3>2 DEF ClusterInv, LatestIsOpen
  <2> QED BY <2>1, <2>2
<1> QED BY <1>2, <1>3, <1>4, <1>5 DEF ClusterInv

\* What was packaged fails before it is in the view.
LEMMA SpoiltKeeps ==
    ASSUME CallInv, ClusterInv, NEW t \in Threads, call[t].pc = "space",
           mode' = mode, Other(t), call'[t].pc \notin Deep, view' = view, str' = str,
           Shapes', CountsFromLatest', hist'.lost
    PROVE  ClusterInv'
<1>0. \A u \in Threads : u # t => call'[u] = call[u]
  BY DEF Other
<1>1. OnlyKeysFollowEofr'
  <2>1. \A u \in Threads : Reopens(u)'
    BY <1>0 DEF ClusterInv, OnlyKeysFollowEofr, Reopens, Deep
  <2> QED BY <2>1 DEF ClusterInv, OnlyKeysFollowEofr
<1>2. ItemsFit'
  BY <1>0 DEF ClusterInv, ItemsFit, Fits, Deep
<1> QED BY <1>1, <1>2 DEF ClusterInv, LatestIsOpen, BlockHasItsCluster

LEMMA LockAgainKeeps ==
    ASSUME CallInv, ClusterInv, NEW t \in Threads, LockAgain(t)
    PROVE  ClusterInv'
<1>0. /\ call[t].pc = "logged" /\ StreamFree
      /\ mode' = mode /\ gen' = gen /\ str' = str /\ view' = view /\ hist' = hist
  BY DEF LockAgain, At
<1>1. Other(t) /\ call'[t].pc = "add" /\ call'[t].item = call[t].item
  BY LockAgainGoes DEF Goes
<1>2. \A u \in Threads : u # t => call'[u] = call[u]
  BY <1>1 DEF Other
<1>3. \A u \in Threads : call[u].pc \notin {"add", "space"}
  BY <1>0 DEF StreamFree, CallInv, Locks
<1>4. OnlyKeysFollowEofr'
  <2>1. \A u \in Threads : Reopens(u)'
    BY <1>0, <1>1, <1>2 DEF ClusterInv, OnlyKeysFollowEofr, Reopens
  <2> QED BY <1>0, <2>1 DEF ClusterInv, OnlyKeysFollowEofr
<1>5. Fresh(call[t].item)
  BY <1>0 DEF ClusterInv, ItemsFit, Fits
<1>6. ItemsFit'
  <2>1. \A u \in Threads : Fits(u)'
    <3> SUFFICES ASSUME NEW u \in Threads PROVE Fits(u)'
      OBVIOUS
    <3>1. CASE u = t
      BY <3>1, <1>1, <1>5 DEF Fits, Fresh
    <3>2. CASE u # t
      BY <3>2, <1>2, <1>3 DEF ClusterInv, ItemsFit, Fits
    <3> QED BY <3>1, <3>2
  <2> QED BY <2>1 DEF ItemsFit
<1>7. \A u \in Threads : OnItsWay(u) => OnItsWay(u)'
  BY <1>1, <1>2 DEF OnItsWay
<1>8. LatestIsOpen'
  BY <1>0, <1>7 DEF ClusterInv, LatestIsOpen
<1>9. Shapes' /\ CountsFromLatest' /\ BlockHasItsCluster'
  BY <1>0 DEF ClusterInv, Shapes, CountsFromLatest, BlockHasItsCluster
<1> QED BY <1>4, <1>6, <1>8, <1>9 DEF ClusterInv

\* The item is in the view.
Added(t) ==
    LET i == call[t].item IN
    /\ view'.cluster = i.cluster
    /\ view'.open = (CASE Fresh(i) -> i.cluster [] i.kind = "end" -> Closed [] OTHER -> view.open)
    /\ hist'.lost = (IF Fresh(i) THEN i.cluster # hist.latest ELSE hist.lost \/ Overtaken(t))
    /\ hist'.latest = hist.latest

LEMMA AddedKeeps ==
    ASSUME CallInv, ClusterInv, NEW t \in Threads, call[t].pc = "add",
           mode' = mode, gen' = gen, str' = str, DOMAIN hist' = DOMAIN hist,
           DOMAIN view' = DOMAIN view, Other(t), call'[t].pc \notin Deep, Added(t)
    PROVE  ClusterInv'
<1> DEFINE i == call[t].item
<1>0. \A u \in Threads : u # t => call'[u] = call[u]
  BY DEF Other
<1>1. \A u \in Threads : u # t => call[u].pc \notin {"add", "space"}
  BY HolderAlone
<1>2. hist.lost \in BOOLEAN
  BY DEF ClusterInv, Shapes
<1>3. Shapes' /\ CountsFromLatest'
  BY <1>2 DEF Added, ClusterInv, Shapes, CountsFromLatest
<1>4. OnlyKeysFollowEofr'
  <2>1. \A u \in Threads : Reopens(u)'
    BY <1>0 DEF ClusterInv, OnlyKeysFollowEofr, Reopens, Deep
  <2> QED BY <2>1 DEF ClusterInv, OnlyKeysFollowEofr
<1>5. ItemsFit'
  BY <1>0, <1>1 DEF ClusterInv, ItemsFit, Fits, Deep
<1>6. CASE Fresh(i)
  <2>0. Fresh(call[t].item)
    BY <1>6
  <2>1. view'.open = i.cluster /\ view'.cluster = i.cluster
    BY <2>0 DEF Added, Fresh
  <2>3. ~hist'.lost => i.cluster = hist'.latest
    BY <2>0 DEF Added
  <2>2. LatestIsOpen' /\ BlockHasItsCluster'
    BY <2>1, <2>3 DEF LatestIsOpen, BlockHasItsCluster
  <2> QED BY <1>3, <1>4, <1>5, <2>2 DEF ClusterInv
<1>7. CASE i.kind = "end"
  <2>1. ~Fresh(i) /\ str.eofr /\ i.cluster = Closed
    BY <1>7 DEF Fresh, ClusterInv, ItemsFit, Fits
  <2>2. view'.open = Closed /\ view'.cluster = Closed
    BY <1>7, <2>1 DEF Added
  <2>3. LatestIsOpen' /\ BlockHasItsCluster'
    BY <2>1, <2>2 DEF LatestIsOpen, BlockHasItsCluster
  <2> QED BY <1>3, <1>4, <1>5, <2>3 DEF ClusterInv
<1>8. CASE ~Fresh(i) /\ i.kind # "end"
  <2>1. view'.open = view.open /\ view'.cluster = i.cluster /\ hist'.lost = (hist.lost \/ Overtaken(t))
    BY <1>8 DEF Added
  <2>2. ~hist.lost /\ ~Overtaken(t) => i.cluster = view.open
    BY <1>8 DEF ClusterInv, ItemsFit, Fits
  <2>3. BlockHasItsCluster'
    BY <2>1, <2>2, <1>2 DEF BlockHasItsCluster
  <2>4. ~Overtaken(t) => \A u \in Threads : ~OnItsWay(u)
    BY <1>1, <1>8 DEF Overtaken, OnItsWay, At
  <2>5. LatestIsOpen'
    BY <2>1, <2>4, <1>2 DEF Added, ClusterInv, LatestIsOpen
  <2> QED BY <1>3, <1>4, <1>5, <2>3, <2>5 DEF ClusterInv
<1> QED BY <1>6, <1>7, <1>8
-----------------------------------------------------------------------------
(* Every step keeps both invariants.                                       *)

BlockInv == CallInv /\ ClusterInv

\* The history h after a step that may have lost a fragment start.
Loses(h, lost) ==
    /\ DOMAIN h = DOMAIN hist /\ h.latest = hist.latest
    /\ h.lost = (hist.lost \/ lost) /\ h.lost \in BOOLEAN

LEMMA AfterFailing ==
    ASSUME Shapes, NEW t \in Threads, NEW item, NEW refused
    PROVE  /\ Loses(AfterFailure(t, item, refused), Fresh(item))
           /\ AfterFailure(t, item, refused).broke = (hist.broke \/ call[t].op = "put")
<1> DEFINE h == AfterFailure(t, item, refused)
<1>1. DOMAIN h = DOMAIN hist
  BY DEF AfterFailure
<1>2. h.latest = hist.latest
  BY DEF AfterFailure, Shapes
<1>3. h.lost = (hist.lost \/ Fresh(item))
  BY DEF AfterFailure, Shapes
<1>4. h.broke = (hist.broke \/ call[t].op = "put")
  BY DEF AfterFailure, Shapes
<1>5. h.lost \in BOOLEAN
  BY <1>3 DEF Shapes
<1> HIDE DEF h
<1>6. Loses(h, Fresh(item))
  BY <1>1, <1>2, <1>3, <1>5 DEF Loses
<1> QED BY <1>4, <1>6 DEF h

LEMMA Placing ==
    ASSUME NEW h, DOMAIN h = {"latest", "lost", "refused", "flushed", "broke", "placed", "dead", "written"}, NEW s
    PROVE  /\ DOMAIN Place(h, s) = DOMAIN h /\ Place(h, s).latest = h.latest
           /\ Place(h, s).lost = h.lost /\ Place(h, s).broke = h.broke
  BY DEF Place

LEMMA FreshNone == ~Fresh(NoItem)
  BY DEF Fresh, NoItem

\* A put breaks off.
LEMMA BreaksKeep ==
    ASSUME CallInv, ClusterInv, NEW t \in Threads, call[t].pc # "logged", Failed(t),
           mode' = mode, view' = view, str' = str \/ (\E b : str' = [str EXCEPT !.skip = b])
               \/ (\E a, b : str' = [str EXCEPT !.resetKey = a, !.skip = b]),
           gen' = gen \/ gen' = mkvgenResetGenerator(gen),
           NEW item, Loses(hist', Fresh(item)),
           call[t].pc = "add" => item = call[t].item
    PROVE  BlockInv'
<1>1. Moves(t) /\ call'[t].pc \in {"stop", "none"}
  BY Failing
<1>2. Shapes
  BY DEF ClusterInv
<1>3. DOMAIN str' = DOMAIN str /\ str'.eofr = str.eofr
  BY <1>2 DEF Shapes
<1>4. DOMAIN gen' = DOMAIN gen /\ (gen' = gen \/ gen'.state = "start")
  BY <1>2 DEF Shapes, mkvgenResetGenerator
<1>5. /\ DOMAIN hist' = DOMAIN hist /\ hist'.lost \in BOOLEAN /\ hist'.latest = hist.latest
      /\ hist'.lost = (hist.lost \/ Fresh(item))
  BY DEF Loses
<1>6. hist.lost => hist'.lost
  BY <1>5
<1>7. call[t].pc = "add" /\ Fresh(call[t].item) => hist'.lost
  BY <1>5
<1>8. Quiet(t)
  BY <1>1, <1>3, <1>4, <1>5, <1>6, <1>7 DEF Quiet, Moves, Deep
<1> QED BY <1>1, <1>8, QuietKeeps, MovesKeep DEF BlockInv

LEMMA BreakKeeps ==
    ASSUME CallInv, ClusterInv, NEW t \in Threads, call[t].pc # "logged", Failed(t),
           mode' = mode, view' = view, str' = str \/ (\E b : str' = [str EXCEPT !.skip = b])
               \/ (\E a, b : str' = [str EXCEPT !.resetKey = a, !.skip = b]),
           gen' = gen \/ gen' = mkvgenResetGenerator(gen),
           NEW item, NEW refused, hist' = AfterFailure(t, item, refused),
           call[t].pc = "add" => item = call[t].item
    PROVE  BlockInv'
<1>1. Loses(hist', Fresh(item))
  BY AfterFailing DEF ClusterInv
<1> QED BY <1>1, BreaksKeep

\* A step that leaves gen, str.eofr, view and the history's clusters alone.
LEMMA StillKeeps ==
    ASSUME CallInv, ClusterInv, NEW t \in Threads, Moves(t), call[t].pc \notin {"add", "logged"},
           call'[t].pc \notin Deep, mode' = mode, gen' = gen, DOMAIN str' = DOMAIN str,
           str'.eofr = str.eofr, view' = view, DOMAIN hist' = DOMAIN hist,
           hist'.lost = hist.lost, hist'.latest = hist.latest
    PROVE  BlockInv'
<1>1. Quiet(t)
  BY DEF Quiet, Moves, ClusterInv, Shapes
<1> QED BY <1>1, QuietKeeps, MovesKeep DEF BlockInv

LEMMA SameKeeps ==
    ASSUME CallInv, ClusterInv, call' = call, mode' = mode, gen' = gen, hist' = hist,
           DOMAIN view' = DOMAIN view, view'.cluster = view.cluster, view'.open = view.open,
           DOMAIN str' = DOMAIN str, str'.eofr = str.eofr
    PROVE  BlockInv'
<1>1. CallInv'
  BY DEF CallInv, Locks, Coordinator, Turns
<1>2. Shapes' /\ CountsFromLatest' /\ BlockHasItsCluster'
  BY DEF ClusterInv, Shapes, CountsFromLatest, BlockHasItsCluster
<1>3. OnlyKeysFollowEofr'
  BY DEF ClusterInv, OnlyKeysFollowEofr, Reopens
<1>4. ItemsFit'
  BY DEF ClusterInv, ItemsFit, Fits, Overtaken, At
<1>5. LatestIsOpen'
  BY DEF ClusterInv, LatestIsOpen, OnItsWay
<1> QED BY <1>1, <1>2, <1>3, <1>4, <1>5 DEF BlockInv, ClusterInv

LEMMA EmptyViewKeeps ==
    ASSUME CallInv, ClusterInv, EmptyView
    PROVE  BlockInv'
<1>1. /\ call' = call /\ mode' = mode /\ gen' = gen /\ str' = str /\ hist' = hist
      /\ view' = [view EXCEPT !.any = FALSE]
  BY DEF EmptyView
<1>2. DOMAIN view' = DOMAIN view /\ view'.cluster = view.cluster /\ view'.open = view.open
  BY <1>1 DEF ClusterInv, Shapes
<1> QED BY <1>1, <1>2, SameKeeps

LEMMA IdlePc ==
    ASSUME NEW t \in Threads, call[t] = Idle
    PROVE  call[t].pc \notin {"add", "logged"}
  BY IdleIs

LEMMA PutFrameKeeps ==
    ASSUME CallInv, ClusterInv, NEW k, NEW ts, NEW key, PutFrame(k, ts, key)
    PROVE  BlockInv'
<1>1. /\ call["producer"] = Idle /\ mode' = mode /\ gen' = gen /\ str' = str /\ view' = view
      /\ hist' = hist
  BY DEF PutFrame
<1>2. CASE call' = call
  BY <1>1, <1>2, SameKeeps
<1>3. CASE Moves("producer") /\ call'["producer"].pc \in {"check", "next"}
  BY <1>1, <1>3, StillKeeps, IdlePc, Distinct DEF Deep
<1> QED BY <1>2, <1>3, PutFrameMoves

LEMMA PutEofrKeeps ==
    ASSUME CallInv, ClusterInv, PutEofr
    PROVE  BlockInv'
<1>1. /\ call["producer"] = Idle /\ mode' = mode /\ gen' = gen /\ str' = str /\ view' = view
      /\ hist' = hist \/ hist' = [hist EXCEPT !.flushed = TRUE]
  BY DEF PutEofr
<1>2. DOMAIN hist' = DOMAIN hist /\ hist'.lost = hist.lost /\ hist'.latest = hist.latest
  BY <1>1 DEF ClusterInv, Shapes
<1>3. Moves("producer") /\ call'["producer"].pc \in {"check", "next"}
  BY PutEofrMoves
<1> QED BY <1>1, <1>2, <1>3, StillKeeps, IdlePc, Distinct DEF Deep

LEMMA TimerEofrKeeps ==
    ASSUME CallInv, ClusterInv, TimerEofr
    PROVE  BlockInv'
<1>1. /\ call["timer"] = Idle /\ mode' = mode /\ gen' = gen /\ str' = str /\ view' = view
      /\ hist' = [hist EXCEPT !.flushed = TRUE]
  BY DEF TimerEofr
<1>2. DOMAIN hist' = DOMAIN hist /\ hist'.lost = hist.lost /\ hist'.latest = hist.latest
  BY <1>1 DEF ClusterInv, Shapes
<1>3. Moves("timer") /\ call'["timer"].pc = "check"
  BY TimerEofrMoves
<1> QED BY <1>1, <1>2, <1>3, StillKeeps, IdlePc, Distinct DEF Deep

LEMMA BeginStopKeeps ==
    ASSUME CallInv, ClusterInv, BeginStop
    PROVE  BlockInv'
<1>1. /\ call["stopper"] = Idle /\ mode' = mode /\ gen' = gen /\ str' = str /\ view' = view
      /\ hist' = [hist EXCEPT !.flushed = TRUE]
  BY DEF BeginStop
<1>2. DOMAIN hist' = DOMAIN hist /\ hist'.lost = hist.lost /\ hist'.latest = hist.latest
  BY <1>1 DEF ClusterInv, Shapes
<1>3. Moves("stopper") /\ call'["stopper"].pc \in {"stop", "next"}
  BY BeginStopMoves
<1> QED BY <1>1, <1>2, <1>3, StillKeeps, IdlePc, Distinct DEF Deep

LEMMA StopKeeps ==
    ASSUME CallInv, ClusterInv, Stop
    PROVE  BlockInv'
<1>1. /\ call["stopper"].pc = "stop" /\ mode' = mode /\ gen' = gen /\ view' = view
      /\ str' = [str EXCEPT !.stopped = TRUE]
      /\ Becomes("stopper", Idle)
  BY DEF Stop, At, Becomes
<1>2. \/ hist' = hist
      \/ hist' = [Place(hist, NotSent(meta)) EXCEPT !.written = NotSent(meta)]
  BY DEF Stop
<1>3. DOMAIN hist = {"latest", "lost", "refused", "flushed", "broke", "placed", "dead", "written"}
  BY DEF ClusterInv, Shapes
<1>4. DOMAIN hist' = DOMAIN hist /\ hist'.lost = hist.lost /\ hist'.latest = hist.latest
  <2> DEFINE h == Place(hist, NotSent(meta))
  <2>1. DOMAIN h = DOMAIN hist /\ h.lost = hist.lost /\ h.latest = hist.latest
    BY <1>3, Placing
  <2> HIDE DEF h
  <2>2. CASE hist' = [h EXCEPT !.written = NotSent(meta)]
    BY <2>1, <2>2, <1>3
  <2> QED BY <1>2, <2>2 DEF h
<1>5. DOMAIN str' = DOMAIN str /\ str'.eofr = str.eofr
  BY <1>1 DEF ClusterInv, Shapes
<1>6. Moves("stopper") /\ call'["stopper"].pc \notin Deep
  BY <1>1, Ending, IdleIs, Distinct DEF Deep
<1> QED BY <1>1, <1>4, <1>5, <1>6, StillKeeps, Distinct

LEMMA BeginMetadataKeeps ==
    ASSUME CallInv, ClusterInv, NEW what \in {"oneShot", "persistent", "note", "both"}, BeginMetadata(what)
    PROVE  BlockInv'
<1>1. /\ call["metadata"] = Idle /\ mode' = mode /\ gen' = gen /\ str' = str /\ view' = view
      /\ hist' = hist
  BY DEF BeginMetadata
<1>2. Moves("metadata") /\ call'["metadata"].pc = "append"
  BY BeginMetadataMoves
<1> QED BY <1>1, <1>2, StillKeeps, IdlePc, Distinct DEF Deep

LEMMA AppendMetadataKeeps ==
    ASSUME CallInv, ClusterInv, AppendMetadata
    PROVE  BlockInv'
<1>1. /\ call["metadata"].pc = "append" /\ mode' = mode /\ gen' = gen /\ str' = str /\ view' = view
      /\ hist' = hist /\ Becomes("metadata", Idle)
  BY DEF AppendMetadata, At, Becomes
<1>2. Moves("metadata") /\ call'["metadata"].pc \notin Deep
  BY <1>1, Ending, IdleIs, Distinct DEF Deep
<1> QED BY <1>1, <1>2, StillKeeps, Distinct

LEMMA AskForResetKeeps ==
    ASSUME CallInv, ClusterInv, NEW skip, AskForReset(skip)
    PROVE  BlockInv'
<1>1. /\ call' = call /\ mode' = mode /\ gen' = gen /\ view' = view /\ hist' = hist
      /\ str' = [str EXCEPT !.resetKey = TRUE, !.skip = @ \/ skip]
  BY DEF AskForReset
<1>2. DOMAIN str' = DOMAIN str /\ str'.eofr = str.eofr
  BY <1>1 DEF ClusterInv, Shapes
<1> QED BY <1>1, <1>2, SameKeeps

LEMMA PutEarliestKeeps ==
    ASSUME CallInv, ClusterInv, NEW t \in Threads, PutEarliestFrame(t)
    PROVE  BlockInv'
<1>1. /\ call[t].pc = "next" /\ mode' = mode /\ gen' = gen /\ str' = str /\ view' = view
      /\ hist' = hist
  BY DEF PutEarliestFrame, At
<1>2. Moves(t) /\ call'[t].pc = "check"
  BY PutEarliestMoves
<1> QED BY <1>1, <1>2, StillKeeps DEF Deep

LEMMA LoopEndsKeeps ==
    ASSUME CallInv, ClusterInv, NEW t \in Threads, LoopEnds(t)
    PROVE  BlockInv'
<1>1. /\ call[t].pc = "next" /\ mode' = mode /\ gen' = gen /\ str' = str /\ view' = view
      /\ hist' = [hist EXCEPT !.broke = @ /\ call[t].op # "put" /\ AllWithFrame(foc)]
  BY DEF LoopEnds, At
<1>2. DOMAIN hist' = DOMAIN hist /\ hist'.lost = hist.lost /\ hist'.latest = hist.latest
  BY <1>1 DEF ClusterInv, Shapes
<1>3. Moves(t) /\ call'[t].pc \in {"none", "check", "stop"}
  BY LoopEndsMoves
<1> QED BY <1>1, <1>2, <1>3, StillKeeps DEF Deep

LEMMA CheckStoppedKeeps ==
    ASSUME CallInv, ClusterInv, NEW t \in Threads, CheckStopped(t)
    PROVE  BlockInv'
<1>1. call[t].pc = "check" /\ mode' = mode /\ gen' = gen /\ str' = str /\ view' = view
  BY DEF CheckStopped, At
<1>2. CASE Failed(t) /\ hist' = AfterFailure(t, NoItem, FALSE)
  BY <1>1, <1>2, BreakKeeps
<1>3. CASE call' = [call EXCEPT ![t].pc = "enter"] /\ hist' = hist
  <2>1. Moves(t) /\ call'[t].pc = "enter"
    BY <1>1, <1>3, CheckGoes DEF Goes
  <2> QED BY <1>1, <1>3, <2>1, StillKeeps DEF Deep
<1> QED BY <1>2, <1>3 DEF CheckStopped

LEMMA EnterKeeps ==
    ASSUME CallInv, ClusterInv, NEW t \in Threads, Enter(t)
    PROVE  BlockInv'
<1> DEFINE f == call[t].f
           skip == str.skip \/ str.eofr
           g == IF str.resetKey /\ f.key THEN mkvgenResetGenerator(gen) ELSE gen
           flags == [str EXCEPT !.resetKey = @ /\ ~f.key, !.skip = skip /\ ~f.key]
           go(size) == call' = [call EXCEPT ![t].pc = "space", ![t].locked = TRUE, ![t].need = size]
<1>0. call[t].pc = "enter" /\ StreamFree /\ mode' = mode /\ view' = view /\ call[t].pc \in Putting
  BY DEF Enter, At, Putting
<1>1. DOMAIN str = {"stopped", "eofr", "skip", "resetKey"} /\ DOMAIN gen = {"state", "pts", "dts"}
  BY DEF ClusterInv, Shapes
<1>2. DOMAIN g = DOMAIN gen /\ (g = gen \/ g.state = "start")
  BY <1>1 DEF mkvgenResetGenerator
<1>3. DOMAIN flags = DOMAIN str /\ flags.eofr = str.eofr
  BY <1>1
<1>4. CASE /\ str' = [str EXCEPT !.skip = skip] /\ Failed(t) /\ hist' = AfterFailure(t, NoItem, FALSE)
           /\ gen' = gen
  BY <1>0, <1>4, BreakKeeps
<1>5. CASE str' = [str EXCEPT !.skip = TRUE] /\ Succeed(t) /\ gen' = gen /\ hist' = hist
  <2>1. Moves(t) /\ call'[t].pc \in {"none", "next"}
    BY <1>0, <1>5, Succeeding
  <2>2. DOMAIN str' = DOMAIN str /\ str'.eofr = str.eofr
    BY <1>1, <1>5
  <2> QED BY <1>0, <1>5, <2>1, <2>2, StillKeeps DEF Deep
<1>6. CASE /\ f.eofr /\ ~str.eofr /\ mode.cluster = 0 /\ (\E size : go(size))
           /\ gen' = gen /\ str' = str /\ hist' = hist
  <2>1. Goes(t, "space", TRUE) /\ Moves(t)
    BY <1>0, <1>6, EnterGoes
  <2>2. Reopens(t)'
    BY <1>0, <1>6, <2>1 DEF Reopens, Goes
  <2>3. Asks(t)
    BY <1>0, <1>6, <2>1, <2>2 DEF Asks, Goes
  <2> QED BY <1>0, <2>1, <2>3, AsksKeeps, MovesKeep DEF BlockInv
<1>7. CASE /\ ~f.eofr /\ (skip => f.key) /\ gen' = g /\ str' = flags
           /\ (\E size : go(size)) /\ hist' = hist
  <2>1. Goes(t, "space", TRUE) /\ Moves(t)
    BY <1>0, <1>7, EnterGoes
  <2>2. Reopens(t)'
    BY <1>0, <1>3, <1>7, <2>1 DEF Reopens, Goes
  <2>3. Asks(t)
    BY <1>0, <1>2, <1>3, <1>7, <2>1, <2>2 DEF Asks, Goes
  <2> QED BY <1>0, <2>1, <2>3, AsksKeeps, MovesKeep DEF BlockInv
<1>8. CASE /\ gen' = g /\ str' = flags /\ Failed(t)
           /\ \E refused \in BOOLEAN : hist' = AfterFailure(t, NoItem, refused)
  BY <1>0, <1>8, BreakKeeps
<1> QED BY <1>4, <1>5, <1>6, <1>7, <1>8 DEF Enter

LEMMA NoSpaceKeeps ==
    ASSUME CallInv, ClusterInv, NEW t \in Threads, NoSpace(t)
    PROVE  BlockInv'
<1>1. call[t].pc = "space" /\ mode' = mode /\ gen' = gen /\ str' = str /\ view' = view
  BY DEF NoSpace, At
<1>2. CASE Failed(t) /\ hist' = AfterFailure(t, NoItem, FALSE)
  BY <1>1, <1>2, BreakKeeps
<1>3. CASE call' = [call EXCEPT ![t].pc = "wait", ![t].locked = FALSE] /\ hist' = hist
  <2>1. Goes(t, "wait", FALSE) /\ Moves(t)
    BY <1>1, <1>3, WaitGoes
  <2>2. Reopens(t)'
    BY <1>1, <2>1 DEF Reopens, Goes, ClusterInv, OnlyKeysFollowEofr
  <2>3. Asks(t)
    BY <1>1, <1>3, <2>1, <2>2 DEF Asks, Goes
  <2> QED BY <1>1, <2>1, <2>3, AsksKeeps, MovesKeep DEF BlockInv
<1> QED BY <1>2, <1>3 DEF NoSpace

LEMMA WakeUpKeeps ==
    ASSUME CallInv, ClusterInv, NEW t \in Threads, WakeUp(t)
    PROVE  BlockInv'
<1>1. call[t].pc = "wait" /\ StreamFree /\ mode' = mode /\ gen' = gen /\ str' = str /\ view' = view
  BY DEF WakeUp, At
<1>2. CASE Failed(t) /\ hist' = AfterFailure(t, NoItem, FALSE)
  BY <1>1, <1>2, BreakKeeps
<1>3. CASE call' = [call EXCEPT ![t].pc = "space", ![t].locked = TRUE] /\ hist' = hist
  <2>1. Goes(t, "space", TRUE) /\ Moves(t)
    BY <1>1, <1>3, SpaceGoes
  <2>2. Reopens(t)'
    BY <1>1, <2>1 DEF Reopens, Goes, ClusterInv, OnlyKeysFollowEofr
  <2>3. Asks(t)
    BY <1>1, <1>3, <2>1, <2>2 DEF Asks, Goes
  <2> QED BY <1>1, <2>1, <2>3, AsksKeeps, MovesKeep DEF BlockInv
<1> QED BY <1>2, <1>3 DEF WakeUp

LEMMA PackageEofrKeeps ==
    ASSUME CallInv, ClusterInv, NEW t \in Threads, PackageEofr(t)
    PROVE  BlockInv'
<1> DEFINE p == packageStreamMetadata(meta, TRUE, call[t].need)
           item == [kind |-> "end", cluster |-> Closed, dts |-> view.dts + 1, pts |-> view.pts + 1, tags |-> p.written]
<1>1. /\ call[t].pc = "space" /\ call[t].f.eofr /\ mode' = mode /\ gen' = gen /\ view' = view
      /\ call[t].pc \in Putting
  BY DEF PackageEofr, At, Putting
<1>2. Shapes
  BY DEF ClusterInv
<1>3. item.kind = "end" /\ item.cluster = Closed /\ ~Fresh(item)
  BY DEF Fresh
<1>4. CASE /\ str' = [str EXCEPT !.eofr = TRUE]
           /\ call' = [call EXCEPT ![t].pc = "add", ![t].item = item]
           /\ hist' = [hist EXCEPT !.written = p.written]
  <2> HIDE DEF item, p
  <2>1. Goes(t, "add", TRUE) /\ Moves(t) /\ call'[t].item = item
    BY <1>1, <1>4, AddGoes
  <2>2. /\ DOMAIN hist' = DOMAIN hist /\ hist'.lost = hist.lost /\ hist'.latest = hist.latest
        /\ DOMAIN str' = DOMAIN str /\ str'.eofr
        /\ str'.eofr \in BOOLEAN
    BY <1>2, <1>4 DEF Shapes
  <2>3. mode.cluster = 0
    BY <1>1 DEF ClusterInv, OnlyKeysFollowEofr, Reopens
  <2>4. Fits(t)'
    BY <1>3, <2>1, <2>2 DEF Fits, Goes
  <2>5. Shapes' /\ CountsFromLatest'
    BY <1>1, <2>2 DEF ClusterInv, Shapes, CountsFromLatest
  <2>6. ClusterInv'
    BY <1>1, <2>1, <2>2, <2>3, <2>4, <2>5, PackedKeeps DEF Goes
  <2> QED BY <1>1, <2>1, <2>6, MovesKeep DEF BlockInv
<1>5. CASE /\ Failed(t) /\ str' = str
           /\ hist' = [AfterFailure(t, item, FALSE) EXCEPT !.written = p.written, !.dead = @ \cup p.gone]
  <2> DEFINE h == AfterFailure(t, item, FALSE)
  <2>1. Loses(h, Fresh(item))
    BY <1>2, AfterFailing
  <2>2. hist' = [h EXCEPT !.written = p.written, !.dead = @ \cup p.gone]
    BY <1>5
  <2> HIDE DEF h, item, p
  <2>3. Loses(hist', Fresh(item))
    BY <1>2, <2>1, <2>2 DEF Loses, Shapes
  <2> QED BY <1>1, <1>5, <2>3, BreaksKeep
<1> QED BY <1>4, <1>5 DEF PackageEofr

\* What the generator makes of a frame.
LEMMA PackagedIs ==
    ASSUME Shapes, NEW f
    PROVE  LET r == Packaged(gen, f) IN
           /\ r.info.kind \in {"stream", "cluster", "block"}
           /\ r.info.cluster = <<r.gen.pts, r.gen.dts>>
           /\ DOMAIN r.gen = {"state", "pts", "dts"}
           /\ r.info.kind = "block" => r.gen = gen /\ gen.state # "start" /\ ~(f.key /\ mode.cluster = 0)
<1> DEFINE kind == mkvgenGetStreamState(gen, f, mode.cluster)
           base == IF kind = "block" THEN gen ELSE [state |-> "block", pts |-> f.pts, dts |-> f.dts]
           r == Packaged(gen, f)
<1>1. r.gen = base /\ r.info.kind = kind /\ r.info.cluster = <<base.pts, base.dts>>
  BY DEF Packaged, mkvgenPackageFrame
<1>2. kind \in {"stream", "cluster", "block"}
  BY DEF mkvgenGetStreamState
<1>3. kind = "block" => gen.state # "start" /\ ~(f.key /\ mode.cluster = 0)
  BY DEF mkvgenGetStreamState
<1>4. DOMAIN base = {"state", "pts", "dts"}
  BY DEF Shapes
<1>5. kind = "block" => base = gen
  OBVIOUS
<1> HIDE DEF kind, r, base
<1>6. /\ r.info.kind \in {"stream", "cluster", "block"}
      /\ r.info.cluster = <<r.gen.pts, r.gen.dts>>
      /\ DOMAIN r.gen = {"state", "pts", "dts"}
      /\ r.info.kind = "block" => r.gen = gen /\ gen.state # "start" /\ ~(f.key /\ mode.cluster = 0)
  BY <1>1, <1>2, <1>3, <1>4, <1>5
<1> QED BY <1>6 DEF r

\* The item of a frame and the history after it has been packaged.
Packs(t, item, g) ==
    /\ item.kind \in {"stream", "cluster", "block"}
    /\ item.cluster = <<g.pts, g.dts>>
    /\ DOMAIN g = {"state", "pts", "dts"}
    /\ item.kind = "block" => g = gen /\ gen.state # "start" /\ ~(call[t].f.key /\ mode.cluster = 0)

Wrote(h, item, lost) ==
    /\ DOMAIN h = DOMAIN hist /\ h.lost \in BOOLEAN
    /\ h.latest = IF Fresh(item) THEN item.cluster ELSE hist.latest
    /\ h.lost = (hist.lost \/ lost)

LEMMA PackedWell ==
    ASSUME CallInv, ClusterInv, NEW t \in Threads, call[t].pc = "space", ~call[t].f.eofr,
           NEW item, mode' = mode, view' = view, Packs(t, item, gen'), Wrote(hist', item, FALSE),
           str' = [str EXCEPT !.eofr = @ /\ ~Fresh(item)],
           \/ call' = [call EXCEPT ![t].pc = "add", ![t].item = item]
           \/ /\ Fresh(item)
              /\ call' = [call EXCEPT ![t].pc = "logged", ![t].item = item, ![t].locked = FALSE,
                                      ![t].depth = IF @ = 0 THEN 0 ELSE @ - 1]
    PROVE  BlockInv'
<1>1. /\ Moves(t) /\ Other(t) /\ call'[t].item = item
      /\ call'[t].pc \in {"add", "logged"} /\ (call'[t].pc = "logged" => Fresh(item))
  BY AddGoes, LoggedGoes DEF Goes
<1>2. Shapes /\ call[t].pc \in Putting
  BY DEF ClusterInv, Putting
<1>3. DOMAIN str' = DOMAIN str /\ str'.eofr = (str.eofr /\ ~Fresh(item)) /\ str'.eofr \in BOOLEAN
  BY <1>2 DEF Shapes
<1>4. /\ DOMAIN hist' = DOMAIN hist /\ hist'.lost \in BOOLEAN /\ hist'.lost = hist.lost
      /\ hist'.latest = IF Fresh(item) THEN item.cluster ELSE hist.latest
  BY <1>2 DEF Wrote, Shapes
<1>5. item.kind = "block" <=> ~Fresh(item)
  BY DEF Packs, Fresh
<1>6. Shapes'
  BY <1>2, <1>3, <1>4 DEF Shapes, Packs
<1>7. CountsFromLatest'
  BY <1>4, <1>5 DEF ClusterInv, CountsFromLatest, Packs
<1>8. ~Fresh(item) => ~str.eofr
  BY <1>5 DEF Packs, ClusterInv, OnlyKeysFollowEofr, Reopens
<1>9. \A u \in Threads : u # t => call'[u] = call[u]
  BY <1>1 DEF Other
<1>10. \A u \in Threads : u # t => call[u].pc # "add"
  BY HolderAlone
<1>11. Fits(t)'
  <2> SUFFICES ASSUME call'[t].pc = "add", ~Fresh(item), ~hist'.lost, ~Overtaken(t)'
               PROVE  item.cluster = view.open
    BY <1>1, <1>5 DEF Fits, Packs
  <2>1. gen' = gen /\ gen.state # "start" /\ item.cluster = <<gen.pts, gen.dts>>
    BY <1>5 DEF Packs
  <2>2. item.cluster = hist.latest
    BY <2>1 DEF ClusterInv, CountsFromLatest
  <2>3. view.open = hist.latest \/ \E u \in Threads : OnItsWay(u)
    BY <1>4, <1>8, <2>1 DEF ClusterInv, LatestIsOpen
  <2>4. \A u \in Threads : OnItsWay(u) => u # t /\ call'[u].pc = "logged"
    BY <1>9, <1>10 DEF OnItsWay
  <2>5. \A u \in Threads : ~OnItsWay(u)
    BY <2>4 DEF Overtaken, At
  <2> QED BY <2>2, <2>3, <2>5
<1>12. OnItsWay(t)' \/ (gen' = gen /\ hist'.latest = hist.latest /\ str'.eofr = str.eofr)
  <2>1. CASE Fresh(item)
    BY <1>1, <2>1 DEF OnItsWay
  <2>2. CASE ~Fresh(item)
    <3>1. str.eofr = FALSE /\ str'.eofr = FALSE
      BY <1>2, <1>3, <1>8, <2>2 DEF Shapes
    <3>2. gen' = gen /\ hist'.latest = hist.latest
      BY <1>4, <1>5, <2>2 DEF Packs
    <3> QED BY <3>1, <3>2
  <2> QED BY <2>1, <2>2
<1>13. str'.eofr => mode.cluster = 0
  BY <1>3 DEF ClusterInv, OnlyKeysFollowEofr
<1>14. ClusterInv'
  BY <1>1, <1>4, <1>6, <1>7, <1>11, <1>12, <1>13, PackedKeeps
<1> QED BY <1>1, <1>14, MovesKeep DEF BlockInv

LEMMA PackedInVain ==
    ASSUME CallInv, ClusterInv, NEW t \in Threads, call[t].pc = "space",
           NEW item, mode' = mode, view' = view, str' = str, Packs(t, item, gen'),
           Wrote(hist', item, Fresh(item)), Failed(t)
    PROVE  BlockInv'
<1>1. Moves(t) /\ call'[t].pc \in {"stop", "none"}
  BY Failing
<1>2. Shapes
  BY DEF ClusterInv
<1>3. item.kind = "block" <=> ~Fresh(item)
  BY DEF Packs, Fresh
<1>4. CASE Fresh(item)
  <2>1. hist'.lost
    BY <1>4 DEF Wrote
  <2>2. Shapes' /\ CountsFromLatest'
    BY <1>2, <1>4 DEF Wrote, Packs, Shapes, CountsFromLatest
  <2>3. ClusterInv'
    BY <1>1, <2>1, <2>2, SpoiltKeeps DEF Moves, Deep
  <2> QED BY <1>1, <2>3, MovesKeep DEF BlockInv
<1>5. CASE ~Fresh(item)
  <2>1. Loses(hist', Fresh(item))
    BY <1>5 DEF Wrote, Loses
  <2>2. gen' = gen
    BY <1>3, <1>5 DEF Packs
  <2> QED BY <2>1, <2>2, BreaksKeep
<1> QED BY <1>4, <1>5

LEMMA PackageFrameKeeps ==
    ASSUME CallInv, ClusterInv, NEW t \in Threads, PackageFrame(t)
    PROVE  BlockInv'
<1> DEFINE r == Packaged(gen, call[t].f)
           room == call[t].need
           p == IF room # 0 /\ Fresh(r.info) THEN packageStreamMetadata(meta, FALSE, room)
                ELSE [ok |-> TRUE, written |-> << >>, done |-> << >>, gone |-> {}, q |-> meta]
           item == [kind |-> r.info.kind, cluster |-> r.info.cluster, dts |-> r.info.dts, pts |-> r.info.pts, tags |-> p.written]
           wrote(h) == [h EXCEPT !.written = IF p.written = << >> THEN @ ELSE p.written,
                                 !.latest = IF Fresh(item) THEN item.cluster ELSE @]
<1>1. call[t].pc = "space" /\ ~call[t].f.eofr /\ mode' = mode /\ view' = view
  BY DEF PackageFrame, At
<1>2. Shapes
  BY DEF ClusterInv
<1>3. CASE Failed(t) /\ hist' = AfterFailure(t, NoItem, FALSE) /\ gen' = gen /\ str' = str
  BY <1>1, <1>3, BreakKeeps
<1>4. Packs(t, item, r.gen)
  <2>1. item.kind = r.info.kind /\ item.cluster = r.info.cluster
    OBVIOUS
  <2> HIDE DEF item, r
  <2>2. /\ r.info.kind \in {"stream", "cluster", "block"}
        /\ r.info.cluster = <<r.gen.pts, r.gen.dts>>
        /\ DOMAIN r.gen = {"state", "pts", "dts"}
        /\ r.info.kind = "block" => r.gen = gen /\ gen.state # "start" /\ ~(call[t].f.key /\ mode.cluster = 0)
    BY <1>2, PackagedIs DEF r
  <2> QED BY <2>1, <2>2 DEF Packs
<1> HIDE DEF item, r
<1>5. Wrote(wrote(hist), item, FALSE)
  BY <1>2 DEF Wrote, Shapes
<1>6. \A h : Loses(h, Fresh(item)) => Wrote(wrote(h), item, Fresh(item))
  BY <1>2 DEF Wrote, Loses, Shapes
<1>7. CASE /\ gen' = r.gen /\ Failed(t) /\ str' = str
           /\ hist' = wrote([AfterFailure(t, item, FALSE) EXCEPT !.dead = @ \cup p.gone])
  <2> DEFINE h == AfterFailure(t, item, FALSE)
             k == [h EXCEPT !.dead = @ \cup p.gone]
  <2>1. Loses(h, Fresh(item))
    BY <1>2, AfterFailing
  <2> HIDE DEF h
  <2>2. Loses(k, Fresh(item))
    BY <1>2, <2>1 DEF Loses, Shapes
  <2>3. hist' = wrote(k)
    BY <1>7 DEF h
  <2> HIDE DEF k
  <2>4. Wrote(hist', item, Fresh(item))
    BY <1>6, <2>2, <2>3
  <2>5. Packs(t, item, gen')
    BY <1>4, <1>7
  <2> QED BY <1>1, <1>7, <2>4, <2>5, PackedInVain
<1>8. CASE /\ gen' = r.gen /\ Failed(t) /\ str' = str
           /\ hist' = wrote(AfterFailure(t, item, FALSE))
  <2>1. Loses(AfterFailure(t, item, FALSE), Fresh(item))
    BY <1>2, AfterFailing
  <2>2. Wrote(hist', item, Fresh(item))
    BY <1>6, <1>8, <2>1
  <2>3. Packs(t, item, gen')
    BY <1>4, <1>8
  <2> QED BY <1>1, <1>8, <2>2, <2>3, PackedInVain
<1>9. CASE /\ gen' = r.gen /\ str' = [str EXCEPT !.eofr = @ /\ ~Fresh(item)]
           /\ hist' = wrote(hist)
           /\ \/ call' = [call EXCEPT ![t].pc = "add", ![t].item = item]
              \/ /\ Fresh(item)
                 /\ call' = [call EXCEPT ![t].pc = "logged", ![t].item = item, ![t].locked = FALSE,
                                         ![t].depth = IF @ = 0 THEN 0 ELSE @ - 1]
  <2>1. Wrote(hist', item, FALSE)
    BY <1>5, <1>9
  <2>2. Packs(t, item, gen')
    BY <1>4, <1>9
  <2> QED BY <1>1, <1>9, <2>1, <2>2, PackedWell
<1> QED BY <1>3, <1>7, <1>8, <1>9 DEF PackageFrame, item, r

LEMMA AddItemKeeps ==
    ASSUME CallInv, ClusterInv, NEW t \in Threads, AddItem(t)
    PROVE  BlockInv'
<1> DEFINE i == call[t].item
           lost == IF Fresh(i) THEN i.cluster # hist.latest ELSE hist.lost \/ Overtaken(t)
           placed == Place(hist, i.tags)
           h == [placed EXCEPT !.lost = lost, !.written = << >>]
<1>1. /\ call[t].pc = "add" /\ call[t].pc \in Putting
      /\ mode' = mode /\ gen' = gen /\ str' = str
  BY DEF AddItem, At, Putting
<1>2. DOMAIN hist = {"latest", "lost", "refused", "flushed", "broke", "placed", "dead", "written"}
  BY DEF ClusterInv, Shapes
<1>3. CASE Failed(t) /\ hist' = AfterFailure(t, i, TRUE) /\ view' = view
  BY <1>1, <1>3, BreakKeeps
<1>4. DOMAIN placed = DOMAIN hist /\ placed.latest = hist.latest
  BY <1>2, Placing
<1> HIDE DEF placed, lost
<1>5. DOMAIN h = DOMAIN hist /\ h.latest = hist.latest /\ h.lost = lost
  BY <1>2, <1>4
<1> HIDE DEF h
<1>6. CASE /\ \/ Succeed(t) /\ hist' = h
              \/ Failed(t) /\ hist' = [h EXCEPT !.broke = @ \/ call[t].op = "put"]
           /\ view' = [any |-> TRUE, dts |-> i.dts, pts |-> i.pts, cluster |-> i.cluster,
                         open |-> CASE Fresh(i) -> i.cluster [] i.kind = "end" -> Closed [] OTHER -> view.open]
  <2>1. Moves(t) /\ call'[t].pc \in {"none", "next", "stop"}
    BY <1>1, <1>6, Succeeding, Failing
  <2>2. DOMAIN hist' = DOMAIN hist /\ hist'.latest = hist.latest /\ hist'.lost = lost
    BY <1>2, <1>5, <1>6
  <2>3. /\ view'.cluster = i.cluster
        /\ view'.open = (CASE Fresh(i) -> i.cluster [] i.kind = "end" -> Closed [] OTHER -> view.open)
        /\ DOMAIN view' = {"any", "dts", "pts", "cluster", "open"}
    BY <1>6
  <2>4. Added(t)
    BY <2>2, <2>3 DEF Added, lost
  <2>5. ClusterInv'
    BY <1>1, <2>1, <2>2, <2>3, <2>4, AddedKeeps DEF Moves, Deep, ClusterInv, Shapes
  <2> QED BY <1>1, <2>1, <2>5, MovesKeep DEF BlockInv
<1> QED BY <1>3, <1>6 DEF AddItem, h, placed, lost, Overtaken

LEMMA BlockInit == Init => BlockInv
<1> SUFFICES ASSUME Init PROVE BlockInv
  OBVIOUS
<1>1. call = [t \in Threads |-> Idle] /\ \A t \in Threads : call[t] = Idle
  BY DEF Init
<1>2. CallInv
  <2>1. \A t \in Threads : IsCall(call[t]) /\ Owned(t, call[t])
    BY <1>1, IdleIs DEF Owned, Putting
  <2>2. Locks /\ Coordinator
    BY <1>1, IdleIs DEF Locks, Coordinator, Holds, Putting
  <2>3. Turns
    BY <1>1, IdleIs, Distinct DEF Turns, Putting
  <2>4. call = [t \in Threads |-> call[t]]
    BY <1>1
  <2> QED BY <2>1, <2>2, <2>3, <2>4 DEF CallInv
<1>3. /\ gen.state = "start" /\ DOMAIN gen = {"state", "pts", "dts"}
      /\ DOMAIN str = {"stopped", "eofr", "skip", "resetKey"} /\ str.eofr = FALSE
      /\ view.cluster = view.open /\ DOMAIN view = {"any", "dts", "pts", "cluster", "open"}
  BY DEF Init, NewGenerator
<1>4. /\ DOMAIN hist = {"latest", "lost", "refused", "flushed", "broke", "placed", "dead", "written"}
      /\ hist.lost = FALSE
  BY DEF Init
<1>5. OnlyKeysFollowEofr /\ ItemsFit
  BY <1>1, <1>3, IdleIs DEF OnlyKeysFollowEofr, Reopens, ItemsFit, Fits
<1>6. ClusterInv
  BY <1>3, <1>4, <1>5 DEF ClusterInv, Shapes, CountsFromLatest, LatestIsOpen, BlockHasItsCluster
<1> QED BY <1>2, <1>6 DEF BlockInv

LEMMA BlockNext == BlockInv /\ [Next]_vars => BlockInv'
<1> SUFFICES ASSUME CallInv, ClusterInv, [Next]_vars PROVE BlockInv'
  BY DEF BlockInv
<1>1. CASE \E k \in Tracks, ts \in 1..mode.maxTs, key \in BOOLEAN : PutFrame(k, ts, key)
  BY <1>1, PutFrameKeeps
<1>2. CASE PutEofr
  BY <1>2, PutEofrKeeps
<1>3. CASE TimerEofr
  BY <1>3, TimerEofrKeeps
<1>4. CASE BeginStop
  BY <1>4, BeginStopKeeps
<1>5. CASE Stop
  BY <1>5, StopKeeps
<1>6. CASE \E what \in {"oneShot", "persistent", "note", "both"} : BeginMetadata(what)
  BY <1>6, BeginMetadataKeeps
<1>7. CASE AppendMetadata
  BY <1>7, AppendMetadataKeeps
<1>8. CASE \E skip \in BOOLEAN : AskForReset(skip)
  BY <1>8, AskForResetKeeps
<1>9. ASSUME NEW t \in Threads,
             \/ PutEarliestFrame(t) \/ LoopEnds(t) \/ CheckStopped(t) \/ Enter(t) \/ NoSpace(t)
             \/ WakeUp(t) \/ PackageEofr(t) \/ PackageFrame(t) \/ LockAgain(t) \/ AddItem(t)
      PROVE  BlockInv'
  <2>1. CASE PutEarliestFrame(t)
    BY <2>1, PutEarliestKeeps
  <2>2. CASE LoopEnds(t)
    BY <2>2, LoopEndsKeeps
  <2>3. CASE CheckStopped(t)
    BY <2>3, CheckStoppedKeeps
  <2>4. CASE Enter(t)
    BY <2>4, EnterKeeps
  <2>5. CASE NoSpace(t)
    BY <2>5, NoSpaceKeeps
  <2>6. CASE WakeUp(t)
    BY <2>6, WakeUpKeeps
  <2>7. CASE PackageEofr(t)
    BY <2>7, PackageEofrKeeps
  <2>8. CASE PackageFrame(t)
    BY <2>8, PackageFrameKeeps
  <2>9. CASE LockAgain(t)
    <3>1. mode' = mode
      BY <2>9 DEF LockAgain
    <3> QED BY <2>9, <3>1, LockAgainKeeps, LockAgainGoes, MovesKeep DEF BlockInv
  <2>10. CASE AddItem(t)
    BY <2>10, AddItemKeeps
  <2> QED BY <1>9, <2>1, <2>2, <2>3, <2>4, <2>5, <2>6, <2>7, <2>8, <2>9, <2>10
<1>10. CASE UNCHANGED vars
  <2>1. /\ call' = call /\ mode' = mode /\ gen' = gen /\ view' = view /\ hist' = hist /\ str' = str
    BY <1>10 DEF vars
  <2> QED BY <2>1, SameKeeps
<1>11. CASE EmptyView
  BY <1>11, EmptyViewKeeps
<1> QED BY <1>1, <1>2, <1>3, <1>4, <1>5, <1>6, <1>7, <1>8, <1>9, <1>10, <1>11 DEF Next

\* A block follows the cluster it is relative to (mkvgenPackageFrame, contentViewAddItem),
\* for any modes, any limits and any number of puts, failures, resets and stops: as long
\* as no fragment start has been lost on its way into the view or been overtaken there.
THEOREM BlocksFollow == Spec => []BlockHasItsCluster
<1>1. Init => BlockInv
  BY BlockInit
<1>2. BlockInv /\ [Next]_vars => BlockInv'
  BY BlockNext
<1>3. BlockInv => BlockHasItsCluster
  BY DEF BlockInv, ClusterInv
<1> QED BY <1>1, <1>2, <1>3, PTL DEF Spec
-----------------------------------------------------------------------------
(* The scan of getEarliestTrack over the tracks.                           *)

LEMMA LeastExists ==
    ASSUME NEW S \in SUBSET Nat, S # {}
    PROVE  \E x \in S : \A y \in S : x <= y
<1>1. PICK x \in S : \A y \in S : ~(<<y, x>> \in OpToRel(<, Nat))
  BY NatLessThanWellFounded, WFMin
<1>2. x \in Nat /\ \A y \in S : y \in Nat /\ ~(y < x)
  BY <1>1 DEF OpToRel
<1>3. \A y \in S : x <= y
  BY <1>2
<1> QED BY <1>3

\* One step of the scan: track k is compared with the earliest so far.
Start0(c) == CHOOSE k \in WithFrame(c) : \A l \in WithFrame(c) : k <= l
Compared(c, types, order, s, k) ==
    IF k <= Start0(c) THEN [min |-> Start0(c), q |-> c.q]
    ELSE IF k \notin WithFrame(c) THEN s
    ELSE LET r == audioVideoFrameTimestampComparator(s.q, types, order, s.min, k)
         IN [min |-> IF r.first THEN s.min ELSE k, q |-> r.q]

Scans(c, types, order, f, n) == f = [k \in 0..n |-> Compared(c, types, order, f[k - 1], k)]

LEMMA ScanExists ==
    ASSUME NEW c, NEW types, NEW order, Start0(c) \in Nat, NEW n \in Nat
    PROVE  \E f : Scans(c, types, order, f, n)
<1> DEFINE C(s, k) == Compared(c, types, order, s, k)
           bad == {m \in Nat : ~ \E f : Scans(c, types, order, f, m)}
<1>0. \A s, u : C(s, 0) = C(u, 0)
  BY DEF Compared
<1> SUFFICES ASSUME bad # {} PROVE FALSE
  OBVIOUS
<1>1. PICK m \in bad : \A y \in bad : m <= y
  BY LeastExists
<1>2. m \in Nat /\ ~ \E f : Scans(c, types, order, f, m)
  BY <1>1
<1> HIDE DEF C
<1>3. CASE m = 0
  <2> DEFINE f == [k \in 0..0 |-> C(0, 0)]
  <2>1. f = [k \in 0..0 |-> C(f[k - 1], k)]
    BY <1>0
  <2>2. Scans(c, types, order, f, 0)
    BY <2>1 DEF Scans, C
  <2> QED BY <1>2, <1>3, <2>2
<1>4. CASE m # 0
  <2>1. m - 1 \in Nat /\ m - 1 \notin bad
    BY <1>1, <1>2, <1>4
  <2>2. PICK f : Scans(c, types, order, f, m - 1)
    BY <2>1
  <2>3. f = [k \in 0..(m - 1) |-> C(f[k - 1], k)]
    BY <2>2 DEF Scans, C
  <2>4. \A k \in 0..(m - 1) : f[k] = C(f[k - 1], k)
    BY <2>3
  <2> DEFINE g == [k \in 0..m |-> IF k <= m - 1 THEN f[k] ELSE C(f[m - 1], m)]
  <2>5. ASSUME NEW k \in 0..m
        PROVE  g[k] = C(g[k - 1], k)
    <3>1. CASE k = 0
      <4>1. g[k] = f[0] /\ f[0] = C(f[0 - 1], 0)
        BY <2>1, <2>4, <3>1
      <4> QED BY <1>0, <3>1, <4>1
    <3>2. CASE k \in 1..(m - 1)
      <4>1. k - 1 \in 0..(m - 1) /\ k \in 0..(m - 1)
        BY <1>2, <3>2
      <4>2. g[k] = f[k] /\ g[k - 1] = f[k - 1]
        BY <1>2, <4>1
      <4> QED BY <2>4, <4>1, <4>2
    <3>3. CASE k = m
      <4>1. m - 1 \in 0..m /\ ~(m <= m - 1) /\ m - 1 <= m - 1
        BY <1>2, <2>1
      <4>2. g[m] = C(f[m - 1], m) /\ g[m - 1] = f[m - 1]
        BY <1>2, <4>1
      <4> QED BY <3>3, <4>2
    <3> QED BY <1>2, <1>4, <3>1, <3>2, <3>3
  <2>6. g = [k \in 0..m |-> C(g[k - 1], k)]
    BY <2>5
  <2>7. Scans(c, types, order, g, m)
    BY <2>6 DEF Scans, C
  <2> QED BY <1>2, <2>7
<1> QED BY <1>3, <1>4

\* getEarliestTrack is the last value of a scan.
LEMMA EarliestScans ==
    ASSUME NEW c, NEW types, NEW order, Start0(c) \in Nat, Len(types) \in Nat
    PROVE  \E f : Scans(c, types, order, f, Len(types)) /\ getEarliestTrack(c, types, order) = f[Len(types)]
<1> DEFINE f == CHOOSE f : Scans(c, types, order, f, Len(types))
<1>1. Scans(c, types, order, f, Len(types))
  BY ScanExists
<1>2. getEarliestTrack(c, types, order) = f[Len(types)]
  BY DEF getEarliestTrack, Scans, Compared, Start0
<1> QED BY <1>1, <1>2

-----------------------------------------------------------------------------
(* What the scan leaves of the queues.                                     *)

FrameSet == [track : Int, dts : Int, pts : Int, key : BOOLEAN, eofr : BOOLEAN]
Queues(K) == [K -> Seq(FrameSet)]

\* Only the pts of a frame is ever moved, and only at the head of its queue.
SameFrame(a, b) == b.track = a.track /\ b.dts = a.dts /\ b.key = a.key /\ b.eofr = a.eofr
SameBut(K, q, r) ==
    /\ r \in Queues(K)
    /\ \A k \in K : Len(r[k]) = Len(q[k])
    /\ \A k \in K : \A x \in 1..Len(q[k]) : SameFrame(q[k][x], r[k][x]) /\ (x # 1 => r[k][x] = q[k][x])

LEMMA SameButReflexive ==
    ASSUME NEW K, NEW q \in Queues(K)
    PROVE  SameBut(K, q, q)
  BY DEF SameBut, SameFrame

LEMMA SameButTransitive ==
    ASSUME NEW K, NEW q, NEW r, NEW s, SameBut(K, q, r), SameBut(K, r, s)
    PROVE  SameBut(K, q, s)
  BY DEF SameBut, SameFrame

LEMMA QueueIs ==
    ASSUME NEW K, NEW q \in Queues(K), NEW k \in K
    PROVE  /\ q[k] \in Seq(FrameSet) /\ Len(q[k]) \in Nat /\ DOMAIN q[k] = 1..Len(q[k])
           /\ \A x \in 1..Len(q[k]) : q[k][x] \in FrameSet
           /\ q[k] # << >> <=> Len(q[k]) # 0
           /\ q[k] # << >> => 1 \in 1..Len(q[k]) /\ Head(q[k]) = q[k][1]
<1>1. q[k] \in Seq(FrameSet)
  BY DEF Queues
<1>2. Len(q[k]) \in Nat /\ DOMAIN q[k] = 1..Len(q[k]) /\ (\A x \in 1..Len(q[k]) : q[k][x] \in FrameSet)
  BY <1>1, LenProperties, ElementOfSeq
<1>3. q[k] # << >> <=> Len(q[k]) # 0
  BY <1>1, EmptySeq
<1> QED BY <1>1, <1>2, <1>3

\* The head of a queue is moved by one time code.
Raise(q, m) == [q EXCEPT ![m][1].pts = @ + 1]

LEMMA Moving ==
    ASSUME NEW K, NEW q \in Queues(K), NEW m \in K, q[m] # << >>
    PROVE  /\ SameBut(K, q, Raise(q, m)) /\ Raise(q, m)[m][1].pts = q[m][1].pts + 1
           /\ \A k \in K \ {m} : Raise(q, m)[k] = q[k]
<1> DEFINE a == q[m][1]
           b == [a EXCEPT !.pts = @ + 1]
           s == [q[m] EXCEPT ![1] = b]
           r == [q EXCEPT ![m] = s]
<1>1. q[m] \in Seq(FrameSet) /\ 1 \in 1..Len(q[m]) /\ a \in FrameSet
  BY QueueIs
<1>0. a.pts + 1 \in Int
  BY <1>1 DEF FrameSet
<1>8. b \in FrameSet
  BY <1>0, <1>1, Zenon DEF FrameSet
<1>9. SameFrame(a, b)
  BY <1>1 DEF FrameSet, SameFrame
<1>10. b.pts = a.pts + 1
  BY <1>1 DEF FrameSet
<1>2. b \in FrameSet /\ SameFrame(a, b) /\ b.pts = a.pts + 1
  BY <1>8, <1>9, <1>10
<1> HIDE DEF b
<1>3. s \in Seq(FrameSet) /\ Len(s) = Len(q[m]) /\ \A x \in 1..Len(q[m]) : s[x] = IF x = 1 THEN b ELSE q[m][x]
  BY <1>1, <1>2, ExceptSeq
<1>4. Raise(q, m) = r
  BY DEF b, Raise
<1> HIDE DEF s
<1>5. r \in Queues(K) /\ r[m] = s /\ \A k \in K \ {m} : r[k] = q[k]
  BY <1>3 DEF Queues
<1> HIDE DEF r
<1>6. SameBut(K, q, r)
  <2>1. ASSUME NEW k \in K
        PROVE  /\ Len(r[k]) = Len(q[k])
               /\ \A x \in 1..Len(q[k]) : SameFrame(q[k][x], r[k][x]) /\ (x # 1 => r[k][x] = q[k][x])
    <3>1. CASE k = m
      BY <1>2, <1>3, <1>5, <3>1 DEF SameFrame
    <3>2. CASE k # m
      BY <1>5, <3>2 DEF SameFrame
    <3> QED BY <3>1, <3>2
  <2> QED BY <1>5, <2>1 DEF SameBut
<1>7. r[m][1].pts = a.pts + 1
  BY <1>1, <1>2, <1>3, <1>5
<1> QED BY <1>4, <1>5, <1>6, <1>7

\* One comparison.
LEMMA Comparing ==
    ASSUME NEW K, NEW q \in Queues(K), NEW types, NEW order, NEW i \in K, NEW j \in K,
           q[i] # << >>, q[j] # << >>
    PROVE  SameBut(K, q, audioVideoFrameTimestampComparator(q, types, order, i, j).q)
<1> DEFINE r == audioVideoFrameTimestampComparator(q, types, order, i, j).q
<1>1. r = q \/ (\E m \in {i, j} : r = Raise(q, m))
  <2> DEFINE tie == order # "av" /\ MkvTimestamp(order, Head(q[i])) = MkvTimestamp(order, Head(q[j])) /\ types[i] # types[j]
             moved == IF ~Head(q[i]).key /\ Head(q[j]).key THEN i ELSE j
  <2>1. r = IF tie THEN Raise(q, moved) ELSE q
    BY DEF audioVideoFrameTimestampComparator, Raise
  <2>2. moved \in {i, j}
    OBVIOUS
  <2> HIDE DEF moved, tie, r
  <2> QED BY <2>1, <2>2
<1> HIDE DEF r
<1>2. ASSUME r = q
      PROVE  SameBut(K, q, r)
  <2>1. SameBut(K, q, q)
    BY SameButReflexive
  <2> QED BY <1>2, <2>1
<1>3. ASSUME NEW m \in {i, j}, r = Raise(q, m)
      PROVE  SameBut(K, q, r)
  <2>1. m \in K /\ q[m] # << >>
    OBVIOUS
  <2>2. SameBut(K, q, Raise(q, m))
    BY <2>1, Moving
  <2> QED BY <1>3, <2>2
<1>4. SameBut(K, q, r)
  BY <1>1, <1>2, <1>3
<1> QED BY <1>4 DEF r

\* The queues of a coordinator of n tracks, and the same with a frame in one of them.
HasQueues(c, n) == c.q \in Queues(1..n)
Offers(c, n) == HasQueues(c, n) /\ WithFrame(c) # {}

LEMMA Offering ==
    ASSUME NEW n \in Nat, NEW c, Offers(c, n)
    PROVE  /\ WithFrame(c) \in SUBSET (1..n) /\ Start0(c) \in WithFrame(c)
           /\ Start0(c) \in Nat /\ \A l \in WithFrame(c) : Start0(c) <= l
           /\ \A k \in 1..n : k \in WithFrame(c) <=> c.q[k] # << >>
<1>1. DOMAIN c.q = 1..n
  BY DEF Offers, HasQueues, Queues
<1>2. WithFrame(c) \in SUBSET (1..n) /\ \A k \in 1..n : k \in WithFrame(c) <=> c.q[k] # << >>
  BY <1>1 DEF WithFrame
<1>3. WithFrame(c) \in SUBSET Nat /\ WithFrame(c) # {}
  BY <1>2 DEF Offers
<1>4. PICK x \in WithFrame(c) : \A l \in WithFrame(c) : x <= l
  BY <1>3, LeastExists
<1>5. Start0(c) \in WithFrame(c) /\ \A l \in WithFrame(c) : Start0(c) <= l
  BY <1>4 DEF Start0
<1> QED BY <1>2, <1>3, <1>5

LEMMA Scanning ==
    ASSUME NEW n \in Nat, NEW c, Offers(c, n), NEW types, NEW order, NEW f, Scans(c, types, order, f, n),
           NEW k \in 0..n
    PROVE  f[k].min \in WithFrame(c) /\ SameBut(1..n, c.q, f[k].q)
<1> DEFINE good(m) == f[m].min \in WithFrame(c) /\ SameBut(1..n, c.q, f[m].q)
           bad == {m \in 0..n : ~good(m)}
<1> SUFFICES ASSUME bad # {} PROVE FALSE
  OBVIOUS
<1>0. bad \in SUBSET Nat
  OBVIOUS
<1> HIDE DEF bad
<1>1. PICK m \in bad : \A y \in bad : m <= y
  BY <1>0, LeastExists
<1> USE DEF bad
<1>2. m \in 0..n /\ ~good(m) /\ m \in Nat
  BY <1>1
<1>3. f[m] = Compared(c, types, order, f[m - 1], m)
  BY <1>2 DEF Scans
<1>4. c.q \in Queues(1..n)
  BY DEF Offers, HasQueues
<1>5. CASE m <= Start0(c)
  <2>1. f[m] = [min |-> Start0(c), q |-> c.q]
    BY <1>3, <1>5 DEF Compared
  <2>2. f[m].min = Start0(c) /\ f[m].q = c.q
    BY <2>1
  <2>3. good(m)
    BY <1>4, <2>2, Offering, SameButReflexive
  <2> QED BY <1>2, <2>3
<1>6. CASE ~(m <= Start0(c))
  <2>1. m # 0 /\ m - 1 \in 0..n /\ m - 1 \notin bad
    BY <1>1, <1>2, <1>6, Offering
  <2>2. good(m - 1)
    BY <2>1
  <2> DEFINE s == f[m - 1]
  <2> HIDE DEF good
  <2>3. CASE m \notin WithFrame(c)
    <3>1. f[m] = s
      BY <1>3, <1>6, <2>3 DEF Compared
    <3>2. good(m)
      BY <2>2, <3>1 DEF good
    <3> QED BY <1>2, <3>2
  <2>4. CASE m \in WithFrame(c)
    <3> DEFINE r == audioVideoFrameTimestampComparator(s.q, types, order, s.min, m)
    <3>1. f[m] = [min |-> IF r.first THEN s.min ELSE m, q |-> r.q]
      BY <1>3, <1>6, <2>4 DEF Compared
    <3>2. s.min \in WithFrame(c) /\ SameBut(1..n, c.q, s.q)
      BY <2>2 DEF good
    <3>3. s.q \in Queues(1..n) /\ s.min \in 1..n /\ m \in 1..n
      BY <2>4, <3>2, Offering DEF SameBut
    <3>4. s.q[s.min] # << >> /\ s.q[m] # << >>
      <4>1. \A k2 \in 1..n : Len(s.q[k2]) = Len(c.q[k2])
        BY <3>2 DEF SameBut
      <4>2. \A k2 \in 1..n : c.q[k2] # << >> => s.q[k2] # << >>
        BY <1>4, <3>3, <4>1, QueueIs
      <4> QED BY <2>4, <3>2, <3>3, <4>2, Offering
    <3>5. SameBut(1..n, s.q, r.q)
      BY <3>3, <3>4, Comparing
    <3> HIDE DEF r, s
    <3>6. SameBut(1..n, c.q, r.q)
      BY <3>2, <3>5, SameButTransitive
    <3>7. f[m].min \in {s.min, m} /\ f[m].q = r.q
      BY <3>1
    <3>8. good(m)
      BY <2>4, <3>2, <3>6, <3>7 DEF good
    <3> QED BY <1>2, <3>8
  <2> QED BY <2>3, <2>4
<1> QED BY <1>5, <1>6

LEMMA EarliestIs ==
    ASSUME NEW n \in Nat, NEW c, Offers(c, n), NEW types, Len(types) = n, NEW order
    PROVE  /\ getEarliestTrack(c, types, order).min \in WithFrame(c)
           /\ SameBut(1..n, c.q, getEarliestTrack(c, types, order).q)
<1>1. Start0(c) \in Nat
  BY Offering
<1>2. PICK f : Scans(c, types, order, f, n) /\ getEarliestTrack(c, types, order) = f[n]
  BY <1>1, EarliestScans
<1> QED BY <1>2, Scanning

\* The frame that leaves takes nothing from the other queues.
LEMMA Dequeuing ==
    ASSUME NEW n \in Nat, NEW c, DOMAIN c = {"q", "eofrPut", "keyFrameDetected"}, Offers(c, n),
           NEW types, Len(types) = n, NEW order
    PROVE  LET d == dequeueEarliest(c, types, order).c IN
           /\ DOMAIN d = DOMAIN c /\ HasQueues(d, n)
           /\ \A k \in 1..n : Len(d.q[k]) <= Len(c.q[k])
<1> DEFINE e == getEarliestTrack(c, types, order)
           d == dequeueEarliest(c, types, order).c
           r == e.q
           m == e.min
<1>1. m \in WithFrame(c) /\ SameBut(1..n, c.q, r)
  BY EarliestIs
<1>2. d = [c EXCEPT !.q = [r EXCEPT ![m] = Tail(@)], !.eofrPut = FALSE]
  BY DEF dequeueEarliest
<1> HIDE DEF d, e, r, m
<1>3. DOMAIN d = DOMAIN c /\ d.q = [r EXCEPT ![m] = Tail(r[m])]
  BY <1>2
<1>4. r \in Queues(1..n) /\ c.q \in Queues(1..n) /\ m \in 1..n /\ \A k \in 1..n : Len(r[k]) = Len(c.q[k])
  BY <1>1, Offering DEF SameBut, Offers, HasQueues
<1>5. r[m] # << >> /\ r[m] \in Seq(FrameSet)
  BY <1>1, <1>4, Offering, QueueIs
<1>6. Tail(r[m]) \in Seq(FrameSet) /\ Len(Tail(r[m])) = Len(r[m]) - 1 /\ Len(r[m]) \in Nat
  BY <1>4, <1>5, HeadTailProperties, QueueIs
<1>7. d.q \in Queues(1..n)
  BY <1>3, <1>4, <1>6 DEF Queues
<1>8. \A k \in 1..n : d.q[k] = IF k = m THEN Tail(r[m]) ELSE r[k]
  BY <1>3, <1>4 DEF Queues
<1>9. \A k \in 1..n : Len(d.q[k]) <= Len(c.q[k])
  <2> TAKE k \in 1..n
  <2>1. Len(r[k]) \in Nat /\ Len(r[k]) = Len(c.q[k])
    BY <1>4, QueueIs
  <2>2. CASE k = m
    <3>1. d.q[k] = Tail(r[m]) /\ Len(r[m]) = Len(c.q[k]) /\ Len(r[m]) \in Nat
      BY <1>8, <2>1, <2>2
    <3> QED BY <1>6, <3>1
  <2>3. CASE k # m
    BY <1>8, <2>1, <2>3
  <2> QED BY <2>2, <2>3
<1>10. HasQueues(d, n)
  BY <1>7 DEF HasQueues
<1>11. DOMAIN d = DOMAIN c /\ HasQueues(d, n) /\ \A k \in 1..n : Len(d.q[k]) <= Len(c.q[k])
  BY <1>3, <1>9, <1>10
<1> QED BY <1>11 DEF d

-----------------------------------------------------------------------------
(* The coordinator holds nothing back that it could release.               *)

NTracks == Len(mode.types)

\* With no put under way some track is empty, unless the last put broke off.
Released == mode.order # "pass" /\ ~hist.broke => ~AllWithFrame(foc) \/ call["producer"].op = "put"

ReleaseInv ==
    /\ mode \in Modes /\ hist.broke \in BOOLEAN
    /\ DOMAIN foc = {"q", "eofrPut", "keyFrameDetected"} /\ HasQueues(foc, NTracks)
    /\ \A k \in 1..NTracks : Len(foc.q[k]) <= MaxQueue + 1
    /\ Released

LEMMA TracksAre ==
    ASSUME mode \in Modes
    PROVE  NTracks \in Nat \ {0} /\ Tracks = 1..NTracks
<1>1. mode.types \in Seq({"video", "audio"}) /\ mode.types # << >>
  BY IngestAssumption
<1> QED BY <1>1, LenProperties, EmptySeq DEF NTracks, Tracks

\* A step that leaves the queues alone.
Steady(t) ==
    /\ mode' = mode /\ Other(t) /\ DOMAIN foc' = DOMAIN foc /\ foc'.q = foc.q
    /\ hist'.broke \in BOOLEAN /\ (hist.broke => hist'.broke)
    /\ call[t].op = "put" => call'[t].op = "put" \/ hist'.broke

LEMMA SteadyKeeps ==
    ASSUME ReleaseInv, NEW t \in Threads, Steady(t)
    PROVE  ReleaseInv'
<1>1. AllWithFrame(foc') = AllWithFrame(foc)
  BY DEF Steady, AllWithFrame, WithFrame
<1>2. hist.broke \/ hist'.broke \/ (call["producer"].op = "put" => call'["producer"].op = "put")
  BY Distinct DEF Steady, Other
<1>3. Released'
  BY <1>1, <1>2 DEF Steady, ReleaseInv, Released
<1> QED BY <1>3 DEF Steady, ReleaseInv, HasQueues, NTracks

\* A put that breaks off.
LEMMA BreakIsSteady ==
    ASSUME CallInv, ReleaseInv, NEW t \in Threads, Failed(t), mode' = mode,
           hist'.broke = (hist.broke \/ call[t].op = "put")
    PROVE  ReleaseInv'
<1>1. Moves(t) /\ foc' = foc
  BY Failing
<1>2. Steady(t)
  BY <1>1 DEF Steady, Moves, ReleaseInv
<1> QED BY <1>2, SteadyKeeps

LEMMA FailureIsSteady ==
    ASSUME BlockInv, ReleaseInv, NEW t \in Threads, Failed(t), mode' = mode,
           NEW item, NEW refused, hist' = AfterFailure(t, item, refused)
    PROVE  ReleaseInv'
<1>1. hist'.broke = (hist.broke \/ call[t].op = "put")
  BY AfterFailing DEF BlockInv, ClusterInv
<1> QED BY <1>1, BreakIsSteady DEF BlockInv

LEMMA SuccessIsSteady ==
    ASSUME CallInv, ReleaseInv, NEW t \in Threads, call[t].pc \in Putting, Succeed(t), mode' = mode,
           hist'.broke = hist.broke
    PROVE  ReleaseInv'
<1>1. /\ Moves(t) /\ DOMAIN foc' = DOMAIN foc /\ \A x \in DOMAIN foc : x # "eofrPut" => foc'[x] = foc[x]
      /\ call[t].op # "direct" => call'[t].op = call[t].op
  BY Succeeding
<1>2. foc'.q = foc.q
  BY <1>1 DEF ReleaseInv
<1>3. Steady(t)
  BY <1>1, <1>2 DEF Steady, Moves, ReleaseInv
<1> QED BY <1>3, SteadyKeeps

LEMMA StageIsSteady ==
    ASSUME ReleaseInv, NEW t \in Threads, NEW pc, NEW locked, Goes(t, pc, locked), mode' = mode, foc' = foc,
           hist'.broke = hist.broke
    PROVE  ReleaseInv'
<1>1. Steady(t)
  BY DEF Steady, Goes, ReleaseInv
<1> QED BY <1>1, SteadyKeeps

LEMMA ElsewhereIsSteady ==
    ASSUME ReleaseInv, NEW t \in Threads, t # "producer" \/ call[t] = Idle, Other(t), mode' = mode, foc' = foc,
           hist'.broke = hist.broke, CallInv
    PROVE  ReleaseInv'
<1>1. call[t].op # "put"
  <2>1. CASE call[t] = Idle
    BY <2>1, IdleIs
  <2>2. CASE t # "producer"
    BY <2>2 DEF CallInv, Owned
  <2> QED BY <2>1, <2>2
<1>2. Steady(t)
  BY <1>1 DEF Steady, ReleaseInv
<1> QED BY <1>2, SteadyKeeps

LEMMA PutEarliestReleases ==
    ASSUME BlockInv, ReleaseInv, NEW t \in Threads, PutEarliestFrame(t)
    PROVE  ReleaseInv'
<1> DEFINE n == NTracks
           d == dequeueEarliest(foc, mode.types, mode.order).c
<1>1. LoopGoesOn(t) /\ foc' = d /\ mode' = mode /\ hist' = hist
  BY DEF PutEarliestFrame
<1>2. n \in Nat /\ n # 0 /\ Len(mode.types) = n
  BY TracksAre DEF ReleaseInv, NTracks
<1>3. Moves(t) /\ call'[t].op = call[t].op
  BY PutEarliestMoves DEF BlockInv
<1>4. DOMAIN foc.q = 1..n
  BY DEF ReleaseInv, HasQueues, Queues
<1>5. WithFrame(foc) # {}
  <2>1. 1 \in 1..n
    BY <1>2
  <2>2. AllWithFrame(foc) => WithFrame(foc) = 1..n
    BY <1>4 DEF AllWithFrame
  <2>3. AllWithFrame(foc) \/ WithFrame(foc) # {}
    BY <1>1 DEF LoopGoesOn
  <2> QED BY <2>1, <2>2, <2>3
<1>6. DOMAIN d = DOMAIN foc /\ HasQueues(d, n) /\ \A k \in 1..n : Len(d.q[k]) <= Len(foc.q[k])
  BY <1>2, <1>5, Dequeuing DEF ReleaseInv, Offers
<1> HIDE DEF d
<1>7. \A k \in 1..n : Len(d.q[k]) \in Nat /\ Len(foc.q[k]) \in Nat /\ (d.q[k] # << >> => foc.q[k] # << >>)
  <2> TAKE k \in 1..n
  <2>1. /\ Len(d.q[k]) \in Nat /\ (d.q[k] # << >> <=> Len(d.q[k]) # 0)
        /\ Len(foc.q[k]) \in Nat /\ (foc.q[k] # << >> <=> Len(foc.q[k]) # 0)
    BY <1>6, QueueIs DEF HasQueues, ReleaseInv
  <2> QED BY <1>6, <2>1
<1>8. AllWithFrame(d) => AllWithFrame(foc)
  <2>1. DOMAIN d.q = 1..n
    BY <1>6 DEF HasQueues, Queues
  <2> QED BY <1>4, <1>7, <2>1 DEF AllWithFrame, WithFrame
<1>9. \A k \in 1..n : Len(d.q[k]) <= MaxQueue + 1
  BY <1>6, <1>7, IngestAssumption DEF ReleaseInv
<1>10. call'["producer"].op = call["producer"].op
  BY <1>3, Distinct DEF Moves, Other
<1>11. Released'
  BY <1>1, <1>8, <1>10 DEF Released, ReleaseInv
<1>12. HasQueues(foc', n) /\ n' = n
  BY <1>1, <1>6 DEF NTracks
<1> QED BY <1>1, <1>6, <1>9, <1>11, <1>12 DEF ReleaseInv

LEMMA PutFrameReleases ==
    ASSUME BlockInv, ReleaseInv, NEW k \in Tracks, NEW ts \in Int, NEW key \in BOOLEAN, PutFrame(k, ts, key)
    PROVE  ReleaseInv'
<1> DEFINE f == [track |-> k, dts |-> ts, pts |-> ts, key |-> key, eofr |-> FALSE]
           n == NTracks
<1>1. call["producer"] = Idle /\ mode' = mode /\ hist' = hist
  BY DEF PutFrame
<1>2. CASE foc' = foc
  <2>1. call' = call \/ Moves("producer")
    BY PutFrameMoves DEF BlockInv
  <2>2. Other("producer")
    BY <2>1 DEF Other, Moves
  <2> QED BY <1>1, <1>2, <2>2, ElsewhereIsSteady, Distinct DEF BlockInv
<1>3. CASE /\ mode.order # "pass" /\ Len(foc.q[k]) <= MaxQueue
           /\ foc' = [foc EXCEPT !.q[k] = Append(@, f), !.keyFrameDetected = @ \/ key]
           /\ Start("producer", "put", "next", NoFrame, 1)
  <2>1. call'["producer"].op = "put"
    BY <1>3, Starting, Distinct DEF BlockInv
  <2>2. n \in Nat /\ Tracks = 1..n /\ k \in 1..n
    BY TracksAre DEF ReleaseInv
  <2>3. foc.q[k] \in Seq(FrameSet) /\ Len(foc.q[k]) \in Nat
    BY <2>2, QueueIs DEF ReleaseInv, HasQueues
  <2>4. f \in FrameSet
    <3>1. k \in Int
      BY <2>2
    <3> QED BY <3>1, Zenon DEF FrameSet
  <2> HIDE DEF f
  <2>5. Append(foc.q[k], f) \in Seq(FrameSet) /\ Len(Append(foc.q[k], f)) = Len(foc.q[k]) + 1
    BY <2>3, <2>4, AppendProperties
  <2>6. DOMAIN foc' = DOMAIN foc /\ foc'.q = [foc.q EXCEPT ![k] = Append(foc.q[k], f)]
    BY <1>3 DEF ReleaseInv
  <2>7. foc'.q \in Queues(1..n)
    BY <2>5, <2>6 DEF ReleaseInv, HasQueues, Queues
  <2>8. \A j \in 1..n : Len(foc'.q[j]) <= MaxQueue + 1
    <3> TAKE j \in 1..n
    <3>1. CASE j = k
      <4>1. foc'.q[j] = Append(foc.q[k], f)
        BY <2>2, <2>6, <3>1 DEF ReleaseInv, HasQueues, Queues
      <4> QED BY <1>3, <2>3, <2>5, <4>1, IngestAssumption
    <3>2. CASE j # k
      <4>1. foc'.q[j] = foc.q[j]
        BY <2>2, <2>6, <3>2 DEF ReleaseInv, HasQueues, Queues
      <4> QED BY <4>1 DEF ReleaseInv
    <3> QED BY <3>1, <3>2
  <2>9. n' = n
    BY <1>1 DEF NTracks
  <2> QED BY <1>1, <2>1, <2>6, <2>7, <2>8, <2>9 DEF ReleaseInv, Released, HasQueues
<1> QED BY <1>2, <1>3 DEF PutFrame

LEMMA LoopEndsReleases ==
    ASSUME BlockInv, ReleaseInv, NEW t \in Threads, LoopEnds(t)
    PROVE  ReleaseInv'
<1>1. /\ ~LoopGoesOn(t) /\ mode' = mode /\ foc' = foc
      /\ hist' = [hist EXCEPT !.broke = @ /\ call[t].op # "put" /\ AllWithFrame(foc)]
  BY DEF LoopEnds
<1>2. ~AllWithFrame(foc)
  <2>1. DOMAIN foc.q = 1..NTracks /\ 1 \in 1..NTracks
    BY TracksAre DEF ReleaseInv, HasQueues, Queues
  <2>2. AllWithFrame(foc) => WithFrame(foc) # {}
    BY <2>1 DEF AllWithFrame
  <2> QED BY <1>1, <2>2 DEF LoopGoesOn
<1>3. hist'.broke = (hist.broke /\ call[t].op # "put" /\ AllWithFrame(foc))
  BY <1>1 DEF BlockInv, ClusterInv, Shapes
<1>4. hist'.broke \in BOOLEAN
  BY <1>3
<1> QED BY <1>1, <1>2, <1>4 DEF ReleaseInv, Released, HasQueues, NTracks

LEMMA CallsRelease ==
    ASSUME BlockInv, ReleaseInv,
           \/ PutEofr \/ TimerEofr \/ BeginStop \/ Stop \/ AppendMetadata
           \/ (\E what \in {"oneShot", "persistent", "note", "both"} : BeginMetadata(what))
           \/ (\E skip \in BOOLEAN : AskForReset(skip))
    PROVE  ReleaseInv'
<1>0. DOMAIN hist = {"latest", "lost", "refused", "flushed", "broke", "placed", "dead", "written"}
  BY DEF BlockInv, ClusterInv, Shapes
<1>1. CASE PutEofr
  <2>1. call["producer"] = Idle /\ mode' = mode /\ foc' = foc /\ hist'.broke = hist.broke
    BY <1>0, <1>1 DEF PutEofr
  <2>2. Other("producer")
    BY <1>1, PutEofrMoves DEF BlockInv, Moves
  <2> QED BY <2>1, <2>2, ElsewhereIsSteady, Distinct DEF BlockInv
<1>2. CASE TimerEofr
  <2>1. mode' = mode /\ foc' = foc /\ hist'.broke = hist.broke
    BY <1>0, <1>2 DEF TimerEofr
  <2>2. Other("timer")
    BY <1>2, TimerEofrMoves DEF BlockInv, Moves
  <2> QED BY <2>1, <2>2, ElsewhereIsSteady, Distinct DEF BlockInv
<1>3. CASE BeginStop
  <2>1. mode' = mode /\ foc' = foc /\ hist'.broke = hist.broke
    BY <1>0, <1>3 DEF BeginStop
  <2>2. Other("stopper")
    BY <1>3, BeginStopMoves DEF BlockInv, Moves
  <2> QED BY <2>1, <2>2, ElsewhereIsSteady, Distinct DEF BlockInv
<1>4. CASE Stop
  <2>1. mode' = mode /\ foc' = foc /\ Becomes("stopper", Idle)
    BY <1>4 DEF Stop, Becomes
  <2>2. Other("stopper")
    BY <2>1, Becoming, Distinct DEF BlockInv
  <2>3. hist'.broke = hist.broke
    <3> DEFINE h == Place(hist, NotSent(meta))
    <3>1. DOMAIN h = DOMAIN hist /\ h.broke = hist.broke
      BY <1>0, Placing
    <3> HIDE DEF h
    <3>2. hist' = hist \/ hist' = [h EXCEPT !.written = NotSent(meta)]
      BY <1>4 DEF Stop, h
    <3> QED BY <1>0, <3>1, <3>2
  <2> QED BY <2>1, <2>2, <2>3, ElsewhereIsSteady, Distinct DEF BlockInv
<1>5. CASE AppendMetadata
  <2>1. mode' = mode /\ foc' = foc /\ hist' = hist /\ Becomes("metadata", Idle)
    BY <1>5 DEF AppendMetadata, Becomes
  <2>2. Other("metadata")
    BY <2>1, Becoming, Distinct DEF BlockInv
  <2> QED BY <2>1, <2>2, ElsewhereIsSteady, Distinct DEF BlockInv
<1>6. CASE \E what \in {"oneShot", "persistent", "note", "both"} : BeginMetadata(what)
  <2> PICK what \in {"oneShot", "persistent", "note", "both"} : BeginMetadata(what)
    BY <1>6
  <2>1. mode' = mode /\ foc' = foc /\ hist' = hist
    BY DEF BeginMetadata
  <2>2. Other("metadata")
    BY BeginMetadataMoves DEF BlockInv, Moves
  <2> QED BY <2>1, <2>2, ElsewhereIsSteady, Distinct DEF BlockInv
<1>7. CASE \E skip \in BOOLEAN : AskForReset(skip)
  <2>1. mode' = mode /\ foc' = foc /\ hist' = hist /\ call' = call
    BY <1>7 DEF AskForReset
  <2>2. Other("metadata")
    BY <2>1 DEF Other
  <2> QED BY <2>1, <2>2, ElsewhereIsSteady, Distinct DEF BlockInv
<1> QED BY <1>1, <1>2, <1>3, <1>4, <1>5, <1>6, <1>7

LEMMA PutsRelease ==
    ASSUME BlockInv, ReleaseInv, NEW t \in Threads,
           \/ CheckStopped(t) \/ Enter(t) \/ NoSpace(t) \/ WakeUp(t) \/ LockAgain(t)
    PROVE  ReleaseInv'
<1>0. mode' = mode
  BY DEF CheckStopped, Enter, NoSpace, WakeUp, LockAgain
<1>1. CASE \E refused : Failed(t) /\ hist' = AfterFailure(t, NoItem, refused)
  BY <1>0, <1>1, FailureIsSteady
<1>2. CASE CheckStopped(t) /\ call' = [call EXCEPT ![t].pc = "enter"] /\ foc' = foc /\ hist' = hist
  <2>1. Goes(t, "enter", FALSE)
    BY <1>2, CheckGoes DEF BlockInv, CheckStopped, At
  <2> QED BY <1>0, <1>2, <2>1, StageIsSteady
<1>3. CASE Enter(t) /\ Succeed(t) /\ hist' = hist
  <2>1. call[t].pc \in Putting
    BY <1>3 DEF Enter, At, Putting
  <2> QED BY <1>0, <1>3, <2>1, SuccessIsSteady DEF BlockInv
<1>4. CASE /\ Enter(t) /\ foc' = foc /\ hist' = hist
           /\ \E size : call' = [call EXCEPT ![t].pc = "space", ![t].locked = TRUE, ![t].need = size]
  <2>1. Goes(t, "space", TRUE)
    BY <1>4, EnterGoes DEF BlockInv, Enter, At
  <2> QED BY <1>0, <1>4, <2>1, StageIsSteady
<1>5. CASE NoSpace(t) /\ call' = [call EXCEPT ![t].pc = "wait", ![t].locked = FALSE] /\ foc' = foc /\ hist' = hist
  <2>1. Goes(t, "wait", FALSE)
    BY <1>5, WaitGoes DEF BlockInv, NoSpace, At
  <2> QED BY <1>0, <1>5, <2>1, StageIsSteady
<1>6. CASE WakeUp(t) /\ call' = [call EXCEPT ![t].pc = "space", ![t].locked = TRUE] /\ foc' = foc /\ hist' = hist
  <2>1. Goes(t, "space", TRUE)
    BY <1>6, SpaceGoes DEF BlockInv, WakeUp, At
  <2> QED BY <1>0, <1>6, <2>1, StageIsSteady
<1>7. CASE LockAgain(t)
  <2>1. Goes(t, "add", TRUE) /\ foc' = foc /\ hist' = hist
    BY <1>7, LockAgainGoes DEF BlockInv, LockAgain
  <2> QED BY <1>0, <2>1, StageIsSteady
<1>8. CASE Enter(t)
  BY <1>1, <1>3, <1>4, <1>8 DEF Enter
<1>9. CASE CheckStopped(t)
  BY <1>1, <1>2, <1>9 DEF CheckStopped
<1>10. CASE NoSpace(t)
  BY <1>1, <1>5, <1>10 DEF NoSpace
<1>11. CASE WakeUp(t)
  BY <1>1, <1>6, <1>11 DEF WakeUp
<1> QED BY <1>7, <1>8, <1>9, <1>10, <1>11

LEMMA PackageEofrReleases ==
    ASSUME BlockInv, ReleaseInv, NEW t \in Threads, PackageEofr(t)
    PROVE  ReleaseInv'
<1> DEFINE p == packageStreamMetadata(meta, TRUE, call[t].need)
           item == [kind |-> "end", cluster |-> Closed, dts |-> view.dts + 1, pts |-> view.pts + 1, tags |-> p.written]
<1>0. call[t].pc = "space" /\ mode' = mode
  BY DEF PackageEofr, At
<1>1. DOMAIN hist = {"latest", "lost", "refused", "flushed", "broke", "placed", "dead", "written"}
  BY DEF BlockInv, ClusterInv, Shapes
<1>2. CASE /\ call' = [call EXCEPT ![t].pc = "add", ![t].item = item] /\ foc' = foc
           /\ hist' = [hist EXCEPT !.written = p.written]
  <2> HIDE DEF item, p
  <2>1. Goes(t, "add", TRUE)
    BY <1>0, <1>2, AddGoes DEF BlockInv
  <2>2. hist'.broke = hist.broke
    BY <1>1, <1>2
  <2> QED BY <1>0, <1>2, <2>1, <2>2, StageIsSteady
<1>3. CASE /\ Failed(t)
           /\ hist' = [AfterFailure(t, item, FALSE) EXCEPT !.written = p.written, !.dead = @ \cup p.gone]
  <2> DEFINE h == AfterFailure(t, item, FALSE)
  <2>0. h.broke = (hist.broke \/ call[t].op = "put") /\ Loses(h, Fresh(item))
    BY AfterFailing DEF BlockInv, ClusterInv
  <2>1. h.broke = (hist.broke \/ call[t].op = "put") /\ DOMAIN h = DOMAIN hist
    BY <2>0 DEF Loses
  <2>2. hist' = [h EXCEPT !.written = p.written, !.dead = @ \cup p.gone]
    BY <1>3
  <2> HIDE DEF h, item, p
  <2>3. hist'.broke = (hist.broke \/ call[t].op = "put")
    BY <1>1, <2>1, <2>2
  <2> QED BY <1>0, <1>3, <2>3, BreakIsSteady DEF BlockInv
<1> QED BY <1>2, <1>3 DEF PackageEofr

LEMMA PackageFrameReleases ==
    ASSUME BlockInv, ReleaseInv, NEW t \in Threads, PackageFrame(t)
    PROVE  ReleaseInv'
<1> DEFINE r == Packaged(gen, call[t].f)
           room == call[t].need
           p == IF room # 0 /\ Fresh(r.info) THEN packageStreamMetadata(meta, FALSE, room)
                ELSE [ok |-> TRUE, written |-> << >>, done |-> << >>, gone |-> {}, q |-> meta]
           item == [kind |-> r.info.kind, cluster |-> r.info.cluster, dts |-> r.info.dts, pts |-> r.info.pts, tags |-> p.written]
           wrote(h) == [h EXCEPT !.written = IF p.written = << >> THEN @ ELSE p.written,
                                 !.latest = IF Fresh(item) THEN item.cluster ELSE @]
           fails == hist.broke \/ call[t].op = "put"
<1>0. call[t].pc = "space" /\ mode' = mode
  BY DEF PackageFrame, At
<1>1. DOMAIN hist = {"latest", "lost", "refused", "flushed", "broke", "placed", "dead", "written"}
  BY DEF BlockInv, ClusterInv, Shapes
<1>2. \A h : DOMAIN h = DOMAIN hist => DOMAIN wrote(h) = DOMAIN hist /\ wrote(h).broke = h.broke
  BY <1>1
<1>3. CASE Failed(t) /\ hist' = AfterFailure(t, NoItem, FALSE)
  BY <1>0, <1>3, FailureIsSteady
<1> HIDE DEF item, r
<1>4. AfterFailure(t, item, FALSE).broke = fails /\ DOMAIN AfterFailure(t, item, FALSE) = DOMAIN hist
  <2>1. Loses(AfterFailure(t, item, FALSE), Fresh(item)) /\ AfterFailure(t, item, FALSE).broke = fails
    BY AfterFailing DEF BlockInv, ClusterInv
  <2> QED BY <2>1 DEF Loses
<1>5. CASE Failed(t) /\ hist' = wrote([AfterFailure(t, item, FALSE) EXCEPT !.dead = @ \cup p.gone])
  <2> DEFINE h == AfterFailure(t, item, FALSE)
             k == [h EXCEPT !.dead = @ \cup p.gone]
  <2>0. DOMAIN h = DOMAIN hist /\ h.broke = fails
    BY <1>4
  <2>1. hist' = wrote(k)
    BY <1>5
  <2> HIDE DEF h, fails
  <2>2. DOMAIN k = DOMAIN hist /\ k.broke = fails
    BY <1>1, <2>0
  <2> HIDE DEF k
  <2>3. hist'.broke = fails
    BY <1>2, <2>1, <2>2
  <2> QED BY <1>0, <1>5, <2>3, BreakIsSteady DEF BlockInv, fails
<1>6. CASE Failed(t) /\ hist' = wrote(AfterFailure(t, item, FALSE))
  <2> DEFINE h == AfterFailure(t, item, FALSE)
  <2>0. DOMAIN h = DOMAIN hist /\ h.broke = fails /\ hist' = wrote(h)
    BY <1>4, <1>6
  <2> HIDE DEF h, fails
  <2>1. hist'.broke = fails
    BY <1>2, <2>0
  <2> QED BY <1>0, <1>6, <2>1, BreakIsSteady DEF BlockInv, fails
<1>7. CASE /\ hist' = wrote(hist) /\ foc' = foc
           /\ \/ call' = [call EXCEPT ![t].pc = "add", ![t].item = item]
              \/ call' = [call EXCEPT ![t].pc = "logged", ![t].item = item, ![t].locked = FALSE,
                                      ![t].depth = IF @ = 0 THEN 0 ELSE @ - 1]
  <2>1. hist'.broke = hist.broke
    BY <1>2, <1>7
  <2>2. Goes(t, "add", TRUE) \/ Goes(t, "logged", FALSE)
    BY <1>0, <1>7, AddGoes, LoggedGoes DEF BlockInv
  <2> QED BY <1>0, <1>7, <2>1, <2>2, StageIsSteady
<1> QED BY <1>3, <1>5, <1>6, <1>7 DEF PackageFrame, item, r

LEMMA AddItemReleases ==
    ASSUME BlockInv, ReleaseInv, NEW t \in Threads, AddItem(t)
    PROVE  ReleaseInv'
<1> DEFINE i == call[t].item
           overtaken == \E u \in Threads \ {t} : At(u, "logged")
           lost == IF Fresh(i) THEN i.cluster # hist.latest ELSE hist.lost \/ overtaken
           placed == Place(hist, i.tags)
           h == [placed EXCEPT !.lost = lost, !.written = << >>]
<1>0. call[t].pc \in Putting /\ mode' = mode
  BY DEF AddItem, At, Putting
<1>1. DOMAIN hist = {"latest", "lost", "refused", "flushed", "broke", "placed", "dead", "written"}
  BY DEF BlockInv, ClusterInv, Shapes
<1>2. CASE Failed(t) /\ hist' = AfterFailure(t, i, TRUE)
  BY <1>0, <1>2, FailureIsSteady
<1>3. DOMAIN placed = DOMAIN hist /\ placed.broke = hist.broke
  BY <1>1, Placing
<1> HIDE DEF placed, lost
<1>4. DOMAIN h = DOMAIN hist /\ h.broke = hist.broke
  BY <1>1, <1>3
<1> HIDE DEF h
<1>5. CASE Succeed(t) /\ hist' = h
  <2>1. hist'.broke = hist.broke
    BY <1>4, <1>5
  <2> QED BY <1>0, <1>5, <2>1, SuccessIsSteady DEF BlockInv
<1>6. CASE Failed(t) /\ hist' = [h EXCEPT !.broke = @ \/ call[t].op = "put"]
  <2>1. hist'.broke = (hist.broke \/ call[t].op = "put")
    BY <1>1, <1>4, <1>6
  <2> QED BY <1>0, <1>6, <2>1, BreakIsSteady DEF BlockInv
<1> QED BY <1>2, <1>5, <1>6 DEF AddItem, h, placed, lost

LEMMA ReleaseInit == Init => ReleaseInv
<1> SUFFICES ASSUME Init PROVE ReleaseInv
  OBVIOUS
<1> DEFINE n == NTracks
<1>1. mode \in Modes /\ hist.broke = FALSE
  BY DEF Init
<1>2. n \in Nat \ {0} /\ Tracks = 1..n
  BY <1>1, TracksAre
<1>3. /\ DOMAIN foc = {"q", "eofrPut", "keyFrameDetected"}
      /\ foc.q = [k \in 1..n |-> << >>]
  BY <1>2 DEF Init, createFrameOrderCoordinator
<1>4. HasQueues(foc, n)
  BY <1>3, EmptySeq DEF HasQueues, Queues
<1>5. \A k \in 1..n : Len(foc.q[k]) <= MaxQueue + 1
  BY <1>3, EmptySeq, IngestAssumption
<1>6. ~AllWithFrame(foc)
  <2>1. 1 \in 1..n /\ DOMAIN foc.q = 1..n
    BY <1>2, <1>3
  <2> QED BY <1>3, <2>1 DEF AllWithFrame, WithFrame
<1> QED BY <1>1, <1>3, <1>4, <1>5, <1>6 DEF ReleaseInv, Released

LEMMA ReleaseNext == BlockInv /\ ReleaseInv /\ [Next]_vars => ReleaseInv'
<1> SUFFICES ASSUME BlockInv, ReleaseInv, [Next]_vars PROVE ReleaseInv'
  OBVIOUS
<1>1. CASE \E k \in Tracks, ts \in 1..mode.maxTs, key \in BOOLEAN : PutFrame(k, ts, key)
  <2> PICK k \in Tracks, ts \in 1..mode.maxTs, key \in BOOLEAN : PutFrame(k, ts, key)
    BY <1>1
  <2>1. ts \in Int
    OBVIOUS
  <2> QED BY <2>1, PutFrameReleases
<1>2. CASE \/ PutEofr \/ TimerEofr \/ BeginStop \/ Stop \/ AppendMetadata
           \/ (\E what \in {"oneShot", "persistent", "note", "both"} : BeginMetadata(what))
           \/ (\E skip \in BOOLEAN : AskForReset(skip))
  BY <1>2, CallsRelease
<1>3. ASSUME NEW t \in Threads,
             \/ PutEarliestFrame(t) \/ LoopEnds(t) \/ CheckStopped(t) \/ Enter(t) \/ NoSpace(t)
             \/ WakeUp(t) \/ PackageEofr(t) \/ PackageFrame(t) \/ LockAgain(t) \/ AddItem(t)
      PROVE  ReleaseInv'
  <2>1. CASE PutEarliestFrame(t)
    BY <2>1, PutEarliestReleases
  <2>2. CASE LoopEnds(t)
    BY <2>2, LoopEndsReleases
  <2>3. CASE CheckStopped(t) \/ Enter(t) \/ NoSpace(t) \/ WakeUp(t) \/ LockAgain(t)
    BY <2>3, PutsRelease
  <2>4. CASE PackageEofr(t)
    BY <2>4, PackageEofrReleases
  <2>5. CASE PackageFrame(t)
    BY <2>5, PackageFrameReleases
  <2>6. CASE AddItem(t)
    BY <2>6, AddItemReleases
  <2> QED BY <1>3, <2>1, <2>2, <2>3, <2>4, <2>5, <2>6
<1>4. CASE EmptyView \/ UNCHANGED vars
  <2>1. call' = call /\ mode' = mode /\ foc' = foc /\ hist' = hist
    BY <1>4 DEF EmptyView, vars
  <2>2. Other("metadata")
    BY <2>1 DEF Other
  <2> QED BY <2>1, <2>2, ElsewhereIsSteady, Distinct DEF BlockInv
<1> QED BY <1>1, <1>2, <1>3, <1>4 DEF Next

\* The coordinator keeps no frame it could release (frameOrderCoordinatorPutFrame), for any
\* modes, any number of tracks and any queue limit, and no queue grows past the limit by
\* more than one frame.
THEOREM CoordinatorHoldsNothing == Spec => []CoordinatorReleases
<1>1. Init => BlockInv /\ ReleaseInv
  BY BlockInit, ReleaseInit
<1>2. BlockInv /\ ReleaseInv /\ [Next]_vars => (BlockInv /\ ReleaseInv)'
  BY BlockNext, ReleaseNext
<1>3. ReleaseInv => CoordinatorReleases
  <2> SUFFICES ASSUME ReleaseInv PROVE CoordinatorReleases
    OBVIOUS
  <2>1. Tracks = 1..NTracks
    BY TracksAre DEF ReleaseInv
  <2>2. call["producer"] = Idle => call["producer"].op # "put"
    BY IdleIs
  <2> QED BY <2>1, <2>2 DEF CoordinatorReleases, ReleaseInv, Released
<1> QED BY <1>1, <1>2, <1>3, PTL DEF Spec

-----------------------------------------------------------------------------
(* The merge of two tracks.                                                *)

\* Where MergedInOrder says something.
Merges ==
    /\ mode.order \notin {"pass", "av"} /\ ~hist.flushed /\ \A k \in mode.keys : k = 1
    /\ NTracks <= 2 /\ mode.gap >= 2

\* Without a flush the frames in the view are the producer's.
OnlyProducer ==
    /\ call["timer"] = Idle /\ call["stopper"] = Idle /\ call["metadata"].pc \in {"none", "append"}
    /\ call["producer"].op \in {"none", "put"}

Frames(k) == 1..Len(foc.q[k])

\* The frames of the first track all come at least two time codes after d.
FirstTrackAfter(d) == d <= app.sent[1] /\ \A x \in Frames(1) : d + 2 <= foc.q[1][x].dts

\* The queues are in order, and a frame that has been moved is the head of the second
\* track, past the frame it was moved away from.
FrameInOrder(k, x) ==
    LET f == foc.q[k][x] IN
    /\ 0 <= f.dts /\ f.dts <= app.sent[k] /\ f.pts \in {f.dts, f.dts + 1}
    /\ ~f.eofr /\ (f.key => k = 1)
    /\ f.pts # f.dts => k = 2 /\ x = 1 /\ FirstTrackAfter(f.dts)
QueueInOrder(k) ==
    /\ 0 <= app.sent[k] /\ \A x \in Frames(k) : FrameInOrder(k, x)
    /\ \A x, y \in Frames(k) : x < y => foc.q[k][x].dts + 2 <= foc.q[k][y].dts
InOrder == \A k \in 1..NTracks : QueueInOrder(k)

\* Nothing that is queued or still to come lies before these time stamps.
Below(d, p) ==
    /\ d \in Nat /\ p \in {d, d + 1}
    /\ \A k \in 1..NTracks : d <= app.sent[k] /\ \A x \in Frames(k) : d <= foc.q[k][x].dts /\ p <= foc.q[k][x].pts
HeadsBelow == Below(gen.dts, gen.pts) /\ Below(view.dts, view.dts)

OnTheWay == {"check", "enter", "space", "wait", "logged", "add"}
\* The frame on its way comes after what the generator and the view have.
Carries(c) ==
    /\ c.pc \in OnTheWay =>
        /\ ~c.f.eofr /\ Below(c.f.dts, c.f.pts)
        /\ view.dts <= c.f.dts /\ gen.dts <= c.f.dts /\ gen.pts <= c.f.pts
    /\ c.pc \in {"logged", "add"} => c.item.dts = c.f.dts

MergeTypes ==
    /\ DOMAIN app = {"sent", "puts", "ids", "once", "fails", "events"} /\ app.sent \in [1..NTracks -> Int]
    /\ hist.flushed \in BOOLEAN /\ hist.refused \in BOOLEAN
MergeInv ==
    /\ MergeTypes
    /\ Merges => /\ ~hist.refused /\ OnlyProducer /\ ~foc.eofrPut
                 /\ InOrder /\ HeadsBelow /\ Carries(call["producer"])

\* Below, of the queues after a step.
StaysBelow(d, p) ==
    /\ d \in Nat /\ p \in {d, d + 1}
    /\ \A k \in 1..(NTracks') : d <= app'.sent[k] /\ \A x \in 1..Len(foc'.q[k]) : d <= foc'.q[k][x].dts /\ p <= foc'.q[k][x].pts

\* A step that leaves the queues and the time stamps of the producer alone.
Unmoved == mode' = mode /\ foc'.q = foc.q /\ app'.sent = app.sent

LEMMA UnmovedKeeps ==
    ASSUME Unmoved
    PROVE  /\ NTracks' = NTracks /\ InOrder' = InOrder
           /\ \A d, p : Below(d, p) => StaysBelow(d, p)
<1>1. NTracks' = NTracks
  BY DEF Unmoved, NTracks
<1>2. \A k : Frames(k)' = Frames(k)
  BY DEF Unmoved, Frames
<1>3. \A d : FirstTrackAfter(d)' <=> FirstTrackAfter(d)
  BY <1>2 DEF Unmoved, FirstTrackAfter
<1>4. \A k, x : FrameInOrder(k, x)' <=> FrameInOrder(k, x)
  BY <1>3 DEF Unmoved, FrameInOrder
<1>5. \A k : QueueInOrder(k)' <=> QueueInOrder(k)
  BY <1>2, <1>4 DEF Unmoved, QueueInOrder
<1>6. InOrder' = InOrder
  BY <1>1, <1>5 DEF InOrder
<1>7. \A d, p : Below(d, p) => StaysBelow(d, p)
  BY <1>1, <1>2 DEF Unmoved, Below, StaysBelow, Frames
<1> QED BY <1>1, <1>6, <1>7

\* Nothing is below the start of the time line.
LEMMA BelowAll ==
    ASSUME ReleaseInv, MergeTypes, InOrder
    PROVE  Below(0, 0)
<1> SUFFICES ASSUME NEW k \in 1..NTracks
             PROVE  0 <= app.sent[k] /\ \A x \in Frames(k) : 0 <= foc.q[k][x].dts /\ 0 <= foc.q[k][x].pts
  BY DEF Below
<1>1. QueueInOrder(k)
  BY DEF InOrder
<1>2. ASSUME NEW x \in Frames(k)
      PROVE  0 <= foc.q[k][x].dts /\ 0 <= foc.q[k][x].pts
  <2>1. foc.q[k][x] \in FrameSet
    BY QueueIs DEF ReleaseInv, HasQueues, Frames
  <2>2. 0 <= foc.q[k][x].dts /\ foc.q[k][x].pts \in {foc.q[k][x].dts, foc.q[k][x].dts + 1}
    BY <1>1 DEF QueueInOrder, FrameInOrder
  <2>3. foc.q[k][x].dts \in Int
    BY <2>1 DEF FrameSet
  <2> QED BY <2>2, <2>3
<1> QED BY <1>1, <1>2 DEF QueueInOrder

\* Types and what a step does to the parts that are no part of the merge.
Aside ==
    /\ mode' = mode /\ DOMAIN app' = DOMAIN app /\ app'.sent = app.sent
    /\ hist'.flushed \in BOOLEAN /\ hist'.refused \in BOOLEAN /\ (hist.flushed => hist'.flushed)

\* What the producer's call may become while the merge stands still.
Follows(c, d) ==
    /\ d.pc \in OnTheWay => c.pc \in OnTheWay /\ d.f = c.f
    /\ d.pc \in {"logged", "add"} => c.pc \in {"logged", "add"} /\ d.item = c.item

\* The producer's call d after a step.
CarriesOn(d) ==
    /\ d.pc \in OnTheWay =>
        /\ ~d.f.eofr /\ Below(d.f.dts, d.f.pts)
        /\ view'.dts <= d.f.dts /\ gen'.dts <= d.f.dts /\ gen'.pts <= d.f.pts
    /\ d.pc \in {"logged", "add"} => d.item.dts = d.f.dts

\* The queues stand as they are while the producer goes on.
Stands ==
    /\ ~hist'.refused /\ OnlyProducer' /\ ~foc'.eofrPut /\ foc'.q = foc.q
    /\ Below(view'.dts, view'.dts) /\ Below(gen'.dts, gen'.pts)
    /\ CarriesOn(call'["producer"])

LEMMA MergeStands ==
    ASSUME ReleaseInv, MergeInv, Aside, Merges /\ ~hist'.flushed => Stands
    PROVE  MergeInv'
<1>1. MergeTypes'
  BY DEF MergeInv, MergeTypes, Aside, NTracks
<1> SUFFICES ASSUME Merges'
             PROVE  /\ ~hist'.refused /\ OnlyProducer' /\ ~foc'.eofrPut
                    /\ InOrder' /\ HeadsBelow' /\ Carries(call["producer"])'
  BY <1>1 DEF MergeInv
<1>2. Merges /\ ~hist'.flushed
  BY DEF Merges, Aside, NTracks, MergeInv, MergeTypes
<1>3. Stands /\ Unmoved
  BY <1>2 DEF Aside, Unmoved, Stands
<1>4. InOrder' /\ \A d, p : Below(d, p) => StaysBelow(d, p)
  BY <1>2, <1>3, UnmovedKeeps DEF MergeInv
<1>5. HeadsBelow'
  <2>1. StaysBelow(gen'.dts, gen'.pts) /\ StaysBelow(view'.dts, view'.dts)
    BY <1>3, <1>4 DEF Stands
  <2> QED BY <2>1 DEF HeadsBelow, Below, StaysBelow, Frames
<1>6. Carries(call["producer"])'
  <2> DEFINE d == call'["producer"]
  <2>1. CarriesOn(d)
    BY <1>3 DEF Stands
  <2>2. d.pc \in OnTheWay => StaysBelow(d.f.dts, d.f.pts)
    BY <1>4, <2>1 DEF CarriesOn
  <2> QED BY <2>1, <2>2 DEF CarriesOn, Carries, Below, StaysBelow, Frames, OnTheWay
<1> QED BY <1>3, <1>4, <1>5, <1>6 DEF Stands

\* Nothing but the stage of the producer changes, and the generator may be reset.
Still ==
    /\ ~hist'.refused /\ OnlyProducer' /\ ~foc'.eofrPut /\ foc'.q = foc.q /\ view'.dts = view.dts
    /\ \/ gen'.dts = gen.dts /\ gen'.pts = gen.pts
       \/ gen'.dts = 0 /\ gen'.pts = 0
    /\ LET c == call["producer"] d == call'["producer"] IN
       /\ d.pc \in OnTheWay => c.pc \in OnTheWay /\ d.f = c.f
       /\ d.pc \in {"logged", "add"} => c.pc \in {"logged", "add"} /\ d.item = c.item

LEMMA StillStands ==
    ASSUME ReleaseInv, MergeInv, Merges, Still
    PROVE  Stands
<1> DEFINE c == call["producer"]
           d == call'["producer"]
<1>1. Below(0, 0)
  BY BelowAll DEF MergeInv
<1>2. Below(gen.dts, gen.pts) /\ Below(view.dts, view.dts) /\ Carries(c)
  BY DEF MergeInv, HeadsBelow
<1>3. Below(gen'.dts, gen'.pts) /\ Below(view'.dts, view'.dts)
  BY <1>1, <1>2 DEF Still
<1>4. /\ d.pc \in OnTheWay => c.pc \in OnTheWay /\ d.f = c.f
      /\ d.pc \in {"logged", "add"} => c.pc \in {"logged", "add"} /\ d.item = c.item
  BY DEF Still
<1>5. d.pc \in {"logged", "add"} => d.item.dts = d.f.dts
  BY <1>2, <1>4 DEF Carries, OnTheWay
<1>6. ASSUME d.pc \in OnTheWay
      PROVE  /\ ~d.f.eofr /\ Below(d.f.dts, d.f.pts)
             /\ view'.dts <= d.f.dts /\ gen'.dts <= d.f.dts /\ gen'.pts <= d.f.pts
  <2>1. /\ d.f = c.f /\ ~c.f.eofr /\ Below(c.f.dts, c.f.pts)
        /\ view.dts <= c.f.dts /\ gen.dts <= c.f.dts /\ gen.pts <= c.f.pts
    BY <1>2, <1>4, <1>6 DEF Carries
  <2>2. 0 <= c.f.dts /\ 0 <= c.f.pts
    BY <2>1 DEF Below
  <2> QED BY <2>1, <2>2 DEF Still
<1>7. CarriesOn(d)
  BY <1>5, <1>6 DEF CarriesOn
<1> QED BY <1>3, <1>7 DEF Still, Stands

\* A thread within a put is the producer.
LEMMA PutterIs ==
    ASSUME CallInv, MergeInv, Merges, NEW t \in Threads, call[t].pc \in Putting \cup {"logged"}
    PROVE  t = "producer" /\ call[t].op = "put"
<1>1. OnlyProducer
  BY DEF MergeInv
<1>2. t = "producer"
  BY <1>1, Distinct, IdleIs DEF OnlyProducer, Putting
<1>3. call[t].op \in {"put", "eofr", "stop", "direct"}
  BY DEF CallInv, Owned
<1> QED BY <1>1, <1>2, <1>3 DEF OnlyProducer

LEMMA StaysProducer ==
    ASSUME MergeInv, Merges, Other("producer"), call'["producer"].op \in {"none", "put"}
    PROVE  OnlyProducer'
<1>1. call'["timer"] = call["timer"] /\ call'["stopper"] = call["stopper"] /\ call'["metadata"] = call["metadata"]
  BY Distinct DEF Other
<1> QED BY <1>1 DEF OnlyProducer, MergeInv, Idle, NoFrame, NoItem, Closed

LEMMA AfterRefusing ==
    ASSUME Shapes, NEW t \in Threads, NEW item, NEW refused
    PROVE  /\ DOMAIN AfterFailure(t, item, refused) = DOMAIN hist
           /\ AfterFailure(t, item, refused).flushed = hist.flushed
           /\ AfterFailure(t, item, refused).refused = (hist.refused \/ refused)
  BY DEF AfterFailure, Shapes

LEMMA PlacingMore ==
    ASSUME NEW h, DOMAIN h = {"latest", "lost", "refused", "flushed", "broke", "placed", "dead", "written"}, NEW s
    PROVE  Place(h, s).refused = h.refused /\ Place(h, s).flushed = h.flushed
  BY DEF Place

\* The frame is off its way, put or lost.
Lands == ~hist'.refused /\ Below(view'.dts, view'.dts) /\ Below(gen'.dts, gen'.pts)

LEMMA MergeFails ==
    ASSUME CallInv, ReleaseInv, MergeInv, NEW t \in Threads, call[t].pc \in Putting, Failed(t), Aside,
           Merges => Lands
    PROVE  MergeInv'
<1> SUFFICES ASSUME Merges PROVE Stands
  BY MergeStands
<1>1. t = "producer" /\ call[t].op = "put"
  BY PutterIs
<1>2. foc' = foc /\ Moves(t) /\ call'[t] = Idle
  BY <1>1, Failing
<1>3. OnlyProducer'
  BY <1>1, <1>2, IdleIs, StaysProducer DEF Moves
<1>4. CarriesOn(call'["producer"])
  BY <1>1, <1>2, IdleIs DEF CarriesOn, OnTheWay
<1> QED BY <1>2, <1>3, <1>4 DEF Stands, Lands, MergeInv

LEMMA MergeSucceeds ==
    ASSUME CallInv, ReleaseInv, MergeInv, NEW t \in Threads, call[t].pc \in Putting, Succeed(t), Aside,
           Merges => Lands
    PROVE  MergeInv'
<1> SUFFICES ASSUME Merges PROVE Stands
  BY MergeStands
<1>1. t = "producer" /\ call[t].op = "put"
  BY PutterIs
<1>2. foc' = foc /\ Moves(t) /\ call'[t].op = "put" /\ call'[t].pc \in {"none", "next"}
  BY <1>1, Succeeding
<1>3. OnlyProducer'
  BY <1>1, <1>2, StaysProducer DEF Moves
<1>4. CarriesOn(call'["producer"])
  BY <1>1, <1>2 DEF CarriesOn, OnTheWay
<1> QED BY <1>2, <1>3, <1>4 DEF Stands, Lands, MergeInv

LEMMA MergeGoes ==
    ASSUME CallInv, ReleaseInv, MergeInv, NEW t \in Threads, call[t].pc \in OnTheWay,
           NEW pc, NEW locked, Goes(t, pc, locked), Aside, foc' = foc, hist' = hist, view' = view,
           pc \in {"logged", "add"} => call[t].pc \in {"logged", "add"} /\ call'[t].item = call[t].item,
           Merges => \/ gen'.dts = gen.dts /\ gen'.pts = gen.pts
                     \/ gen'.dts = 0 /\ gen'.pts = 0
    PROVE  MergeInv'
<1> SUFFICES ASSUME Merges PROVE Stands
  BY MergeStands
<1>1. t = "producer" /\ call[t].op = "put"
  BY PutterIs DEF OnTheWay, Putting
<1>2. call'[t].op = "put" /\ Other(t) /\ call'[t].pc = pc /\ call'[t].f = call[t].f
  BY <1>1 DEF Goes
<1>3. OnlyProducer'
  BY <1>1, <1>2, StaysProducer
<1>4. Still
  BY <1>1, <1>2, <1>3 DEF Still, MergeInv
<1> QED BY <1>4, StillStands

\* A step of another thread, or of nobody, or one that flushes.
LEMMA MergeElsewhere ==
    ASSUME ReleaseInv, MergeInv, Aside, NEW t \in Threads, Other(t),
           Merges /\ ~hist'.flushed =>
               /\ ~hist'.refused /\ foc' = foc /\ view'.dts = view.dts /\ gen' = gen
               /\ \/ t = "metadata" /\ call'[t].pc \in {"none", "append"}
                  \/ t = "producer" /\ call'[t].op \in {"none", "put"} /\ call'[t].pc \notin OnTheWay
                  \/ call'[t] = call[t]
    PROVE  MergeInv'
<1> SUFFICES ASSUME Merges, ~hist'.flushed PROVE Still
  BY MergeStands, StillStands
<1>1. /\ ~hist'.refused /\ foc' = foc /\ view'.dts = view.dts /\ gen' = gen
      /\ \/ t = "metadata" /\ call'[t].pc \in {"none", "append"}
         \/ t = "producer" /\ call'[t].op \in {"none", "put"} /\ call'[t].pc \notin OnTheWay
         \/ call'[t] = call[t]
  OBVIOUS
<1>2. \A u \in Threads : u # t => call'[u] = call[u]
  BY DEF Other
<1>3. OnlyProducer'
  BY <1>1, <1>2, Distinct DEF OnlyProducer, MergeInv, Idle, NoFrame, NoItem, Closed
<1>4. call'["producer"] = call["producer"] \/ call'["producer"].pc \notin OnTheWay
  BY <1>1, <1>2, Distinct
<1> QED BY <1>1, <1>3, <1>4 DEF Still, MergeInv, OnTheWay

LEMMA FlushesMerge ==
    ASSUME BlockInv, ReleaseInv, MergeInv, PutEofr \/ TimerEofr \/ BeginStop
    PROVE  MergeInv'
<1>0. DOMAIN hist = {"latest", "lost", "refused", "flushed", "broke", "placed", "dead", "written"}
  BY DEF BlockInv, ClusterInv, Shapes
<1>1. mode' = mode /\ app' = app /\ (hist' = [hist EXCEPT !.flushed = TRUE] \/ (hist' = hist /\ mode.order = "pass"))
  BY DEF PutEofr, TimerEofr, BeginStop
<1>2. hist'.refused = hist.refused /\ (hist'.flushed = TRUE \/ (hist'.flushed = hist.flushed /\ mode.order = "pass"))
  BY <1>0, <1>1
<1>3. hist.refused \in BOOLEAN /\ hist.flushed \in BOOLEAN
  BY DEF MergeInv, MergeTypes
<1>4. Aside
  BY <1>1, <1>2, <1>3 DEF Aside
<1>5. ~(Merges /\ ~hist'.flushed)
  BY <1>2 DEF Merges
<1> QED BY <1>4, <1>5, MergeStands

LEMMA AppendingAside ==
    ASSUME MergeInv, AppendMetadata
    PROVE  DOMAIN app' = DOMAIN app /\ app'.sent = app.sent
<1>1. DOMAIN app = {"sent", "puts", "ids", "once", "fails", "events"}
  BY DEF MergeInv, MergeTypes
<1>2. \A nodes, q : Accept(nodes, q) => DOMAIN app' = DOMAIN app /\ app'.sent = app.sent
  BY <1>1 DEF Accept
<1>3. app' = app \/ \E nodes, q : Accept(nodes, q)
  BY DEF AppendMetadata, putFragmentMetadata, putEventMetadata
<1> QED BY <1>2, <1>3

LEMMA OthersMerge ==
    ASSUME BlockInv, ReleaseInv, MergeInv,
           \/ Stop \/ AppendMetadata
           \/ (\E what \in {"oneShot", "persistent", "note", "both"} : BeginMetadata(what))
           \/ (\E skip \in BOOLEAN : AskForReset(skip))
           \/ EmptyView \/ UNCHANGED vars
    PROVE  MergeInv'
<1>0. DOMAIN hist = {"latest", "lost", "refused", "flushed", "broke", "placed", "dead", "written"}
  BY DEF BlockInv, ClusterInv, Shapes
<1>1. /\ hist.refused \in BOOLEAN /\ hist.flushed \in BOOLEAN
      /\ DOMAIN app = {"sent", "puts", "ids", "once", "fails", "events"} /\ (Merges => ~hist.refused)
  BY DEF MergeInv, MergeTypes
<1>2. CASE Stop
  <2>0. app' = app \/ app' = [app EXCEPT !.events = Cleared(@, meta)]
    BY <1>2 DEF Stop
  <2>1. /\ mode' = mode /\ Becomes("stopper", Idle) /\ call["stopper"].pc = "stop"
        /\ DOMAIN app' = DOMAIN app /\ app'.sent = app.sent
    BY <1>1, <1>2, <2>0 DEF Stop, Becomes, At
  <2>2. hist'.refused = hist.refused /\ hist'.flushed = hist.flushed
    <3> DEFINE h == Place(hist, NotSent(meta))
    <3>1. DOMAIN h = DOMAIN hist /\ h.refused = hist.refused /\ h.flushed = hist.flushed
      BY <1>0, Placing, PlacingMore
    <3> HIDE DEF h
    <3>2. hist' = hist \/ hist' = [h EXCEPT !.written = NotSent(meta)]
      BY <1>2 DEF Stop, h
    <3> QED BY <1>0, <3>1, <3>2
  <2>3. ~Merges
    BY <2>1, IdleIs DEF MergeInv, OnlyProducer
  <2>4. Aside
    BY <1>1, <2>1, <2>2 DEF Aside
  <2> QED BY <2>3, <2>4, MergeStands
<1>3. CASE AppendMetadata
  <2>1. /\ mode' = mode /\ foc' = foc /\ hist' = hist /\ view' = view /\ gen' = gen
        /\ Becomes("metadata", Idle)
    BY <1>3 DEF AppendMetadata, Becomes
  <2>2. Other("metadata") /\ call'["metadata"] = Idle
    BY <2>1, Becoming, Distinct DEF BlockInv
  <2>3. Aside
    BY <1>1, <1>3, <2>1, AppendingAside DEF Aside
  <2> QED BY <1>1, <2>1, <2>2, <2>3, MergeElsewhere, Distinct, IdleIs
<1>4. CASE \E what \in {"oneShot", "persistent", "note", "both"} : BeginMetadata(what)
  <2> PICK what \in {"oneShot", "persistent", "note", "both"} : BeginMetadata(what)
    BY <1>4
  <2>1. /\ mode' = mode /\ foc' = foc /\ hist' = hist /\ view' = view /\ gen' = gen
        /\ app' = [app EXCEPT !.puts = @ + 1]
    BY DEF BeginMetadata
  <2>2. Other("metadata") /\ call'["metadata"].pc = "append"
    BY BeginMetadataMoves DEF BlockInv, Moves
  <2>3. Aside
    BY <1>1, <2>1 DEF Aside
  <2> QED BY <1>1, <2>1, <2>2, <2>3, MergeElsewhere, Distinct
<1>5. CASE (\E skip \in BOOLEAN : AskForReset(skip)) \/ EmptyView \/ UNCHANGED vars
  <2>0. view' = view \/ view' = [view EXCEPT !.any = FALSE]
    BY <1>5 DEF AskForReset, EmptyView, vars
  <2>1. /\ mode' = mode /\ foc' = foc /\ hist' = hist /\ gen' = gen /\ app' = app /\ call' = call
        /\ view'.dts = view.dts
    BY <1>5, <2>0 DEF AskForReset, EmptyView, vars, BlockInv, ClusterInv, Shapes
  <2>2. Other("metadata") /\ call'["metadata"] = call["metadata"]
    BY <2>1 DEF Other
  <2>3. Aside
    BY <1>1, <2>1 DEF Aside
  <2> QED BY <1>1, <2>1, <2>2, <2>3, MergeElsewhere, Distinct
<1> QED BY <1>2, <1>3, <1>4, <1>5

LEMMA LoopEndsMerge ==
    ASSUME BlockInv, ReleaseInv, MergeInv, NEW t \in Threads, LoopEnds(t)
    PROVE  MergeInv'
<1>1. DOMAIN hist = {"latest", "lost", "refused", "flushed", "broke", "placed", "dead", "written"}
  BY DEF BlockInv, ClusterInv, Shapes
<1>2. /\ mode' = mode /\ app' = app /\ foc' = foc /\ view' = view /\ gen' = gen
      /\ hist' = [hist EXCEPT !.broke = @ /\ call[t].op # "put" /\ AllWithFrame(foc)]
      /\ call[t].pc \in Putting
  BY DEF LoopEnds, At, Putting
<1>3. hist'.refused = hist.refused /\ hist'.flushed = hist.flushed
  BY <1>1, <1>2
<1>4. Moves(t) /\ (call[t].op = "put" => call'[t] = Idle)
  BY LoopEndsMoves DEF BlockInv
<1>5. Aside
  BY <1>2, <1>3 DEF Aside, MergeInv, MergeTypes
<1>6. Merges => t = "producer" /\ call'[t] = Idle /\ ~hist.refused
  BY <1>2, <1>4, PutterIs DEF BlockInv, MergeInv
<1> QED BY <1>2, <1>3, <1>4, <1>5, <1>6, MergeElsewhere, IdleIs DEF Moves, OnTheWay

\* What the merge keeps in every state.
LEMMA MergeHas ==
    ASSUME BlockInv, ReleaseInv, MergeInv
    PROVE  /\ DOMAIN hist = {"latest", "lost", "refused", "flushed", "broke", "placed", "dead", "written"}
           /\ hist.refused \in BOOLEAN /\ hist.flushed \in BOOLEAN
           /\ DOMAIN app = {"sent", "puts", "ids", "once", "fails", "events"}
           /\ Merges => /\ ~hist.refused /\ Below(gen.dts, gen.pts) /\ Below(view.dts, view.dts) /\ Below(0, 0)
  BY BelowAll DEF BlockInv, ClusterInv, Shapes, MergeInv, MergeTypes, HeadsBelow

\* The frame of a put on its way.
LEMMA CarriedIs ==
    ASSUME CallInv, ReleaseInv, MergeInv, Merges, NEW t \in Threads, call[t].pc \in OnTheWay
    PROVE  LET f == call[t].f IN
           /\ ~f.eofr /\ Below(f.dts, f.pts) /\ Below(f.dts, f.dts)
           /\ f.dts \in Nat /\ f.pts \in {f.dts, f.dts + 1}
           /\ view.dts <= f.dts /\ gen.dts <= f.dts /\ gen.pts <= f.pts
           /\ call[t].pc \in {"logged", "add"} => call[t].item.dts = f.dts
<1> DEFINE f == call[t].f
<1>1. t = "producer"
  BY PutterIs DEF OnTheWay, Putting
<1>2. /\ ~f.eofr /\ Below(f.dts, f.pts) /\ view.dts <= f.dts /\ gen.dts <= f.dts /\ gen.pts <= f.pts
      /\ call[t].pc \in {"logged", "add"} => call[t].item.dts = f.dts
  BY <1>1 DEF MergeInv, Carries
<1>3. f.dts \in Nat /\ f.pts \in {f.dts, f.dts + 1}
  BY <1>2 DEF Below
<1> HIDE DEF f
<1>4. Below(f.dts, f.dts)
  <2> SUFFICES ASSUME NEW k \in 1..NTracks, NEW x \in Frames(k), Below(f.dts, f.pts), InOrder
               PROVE  f.dts <= foc.q[k][x].pts
    BY <1>2, <1>3 DEF Below, MergeInv
  <2>1. f.dts <= foc.q[k][x].dts /\ f.pts <= foc.q[k][x].pts
    BY DEF Below
  <2>2. FrameInOrder(k, x)
    BY DEF InOrder, QueueInOrder
  <2>3. foc.q[k][x].pts \in {foc.q[k][x].dts, foc.q[k][x].dts + 1} /\ 0 <= foc.q[k][x].dts
    BY <2>2 DEF FrameInOrder
  <2>4. foc.q[k][x].dts \in Int
    BY QueueIs DEF ReleaseInv, HasQueues, Frames, FrameSet
  <2> QED BY <1>3, <2>1, <2>3, <2>4
<1>5. /\ ~f.eofr /\ Below(f.dts, f.pts) /\ Below(f.dts, f.dts)
      /\ f.dts \in Nat /\ f.pts \in {f.dts, f.dts + 1}
      /\ view.dts <= f.dts /\ gen.dts <= f.dts /\ gen.pts <= f.pts
      /\ call[t].pc \in {"logged", "add"} => call[t].item.dts = f.dts
  BY <1>2, <1>3, <1>4
<1> QED BY <1>5 DEF f

LEMMA FailureMerges ==
    ASSUME BlockInv, ReleaseInv, MergeInv, NEW t \in Threads, call[t].pc \in Putting, Failed(t),
           mode' = mode, DOMAIN app' = DOMAIN app, app'.sent = app.sent, view' = view,
           hist'.flushed = hist.flushed, hist'.refused \in BOOLEAN,
           Merges => ~hist'.refused /\ Below(gen'.dts, gen'.pts)
    PROVE  MergeInv'
<1>1. Aside
  BY MergeHas DEF Aside
<1>2. Merges => Lands
  BY MergeHas DEF Lands
<1> QED BY <1>1, <1>2, MergeFails DEF BlockInv

\* A put that fails of its own accord leaves the generator and the queues alone.
LEMMA PlainFailureMerges ==
    ASSUME BlockInv, ReleaseInv, MergeInv, NEW t \in Threads, call[t].pc \in Putting, Failed(t),
           mode' = mode, app' = app \/ MayFail, view' = view, gen' = gen,
           NEW item, hist' = AfterFailure(t, item, FALSE)
    PROVE  MergeInv'
<1>1. DOMAIN app' = DOMAIN app /\ app'.sent = app.sent
  BY MergeHas DEF MayFail
<1>2. hist'.flushed = hist.flushed /\ hist'.refused = (hist.refused \/ FALSE)
  BY AfterRefusing DEF BlockInv, ClusterInv
<1>3. hist'.refused = hist.refused
  BY <1>2, MergeHas
<1> QED BY <1>1, <1>2, <1>3, MergeHas, FailureMerges

LEMMA EnterMerges ==
    ASSUME BlockInv, ReleaseInv, MergeInv, NEW t \in Threads, Enter(t)
    PROVE  MergeInv'
<1> DEFINE f == call[t].f
           skip == str.skip \/ str.eofr
           g == IF str.resetKey /\ f.key THEN mkvgenResetGenerator(gen) ELSE gen
           go(size) == call' = [call EXCEPT ![t].pc = "space", ![t].locked = TRUE, ![t].need = size]
<1>0. call[t].pc = "enter" /\ StreamFree /\ mode' = mode /\ view' = view
  BY DEF Enter, At
<1>1. call[t].pc \in Putting /\ call[t].pc \in OnTheWay
  BY <1>0 DEF Putting, OnTheWay
<1>2. DOMAIN gen = {"state", "pts", "dts"}
  BY DEF BlockInv, ClusterInv, Shapes
<1>3. (g.dts = gen.dts /\ g.pts = gen.pts) \/ (g.dts = 0 /\ g.pts = 0)
  BY <1>2 DEF mkvgenResetGenerator
<1>4. Aside \/ hist' # hist \/ app' # app
  BY <1>0, MergeHas DEF Aside
<1>5. CASE Failed(t) /\ gen' = gen /\ (app' = app \/ MayFail) /\ hist' = AfterFailure(t, NoItem, FALSE)
  BY <1>0, <1>1, <1>5, PlainFailureMerges
<1>6. CASE Succeed(t) /\ gen' = gen /\ app' = app /\ hist' = hist
  <2>1. Merges => Lands
    BY <1>0, <1>6, MergeHas DEF Lands
  <2> QED BY <1>1, <1>4, <1>6, <2>1, MergeSucceeds DEF BlockInv
<1>7. CASE /\ \E size : go(size)
           /\ gen' = gen \/ gen' = g
           /\ app' = app /\ foc' = foc /\ hist' = hist
  <2>1. Goes(t, "space", TRUE)
    BY <1>0, <1>7, EnterGoes DEF BlockInv
  <2>2. (gen'.dts = gen.dts /\ gen'.pts = gen.pts) \/ (gen'.dts = 0 /\ gen'.pts = 0)
    BY <1>3, <1>7
  <2> QED BY <1>0, <1>1, <1>4, <1>7, <2>1, <2>2, MergeGoes DEF BlockInv
<1>8. CASE /\ gen' = g /\ ~mkvgenValidateFrame(g, f) /\ app' = app
           /\ Failed(t) /\ hist' = AfterFailure(t, NoItem, TRUE)
  <2>1. ~Merges
    <3> SUFFICES ASSUME Merges PROVE FALSE
      OBVIOUS
    <3>1. /\ f.dts \in Nat /\ f.pts \in {f.dts, f.dts + 1} /\ gen.dts <= f.dts /\ gen.pts <= f.pts
      BY <1>1, CarriedIs DEF BlockInv
    <3>2. gen.dts \in Nat /\ gen.pts \in Nat
      BY MergeHas DEF Below
    <3> HIDE DEF f, g
    <3>3. g.dts <= f.dts /\ g.pts <= f.pts /\ g.dts \in Nat /\ g.pts \in Nat
      BY <1>3, <3>1, <3>2
    <3> QED BY <1>8, <3>1, <3>3 DEF mkvgenValidateFrame
  <2>2. hist'.flushed = hist.flushed /\ hist'.refused = (hist.refused \/ TRUE)
    BY <1>8, AfterRefusing DEF BlockInv, ClusterInv
  <2> QED BY <1>0, <1>1, <1>8, <2>1, <2>2, FailureMerges
<1>9. CASE gen' = g /\ MayFail /\ Failed(t) /\ hist' = AfterFailure(t, NoItem, FALSE)
  <2>1. Merges => Below(gen'.dts, gen'.pts)
    BY <1>3, <1>9, MergeHas
  <2>2. DOMAIN app' = DOMAIN app /\ app'.sent = app.sent
    BY <1>9, MergeHas DEF MayFail
  <2>3. hist'.flushed = hist.flushed /\ hist'.refused = (hist.refused \/ FALSE)
    BY <1>9, AfterRefusing DEF BlockInv, ClusterInv
  <2>4. hist'.refused = hist.refused
    BY <2>3, MergeHas
  <2> HIDE DEF g
  <2> QED BY <1>0, <1>1, <1>9, <2>1, <2>2, <2>3, <2>4, MergeHas, FailureMerges
<1> QED BY <1>5, <1>6, <1>7, <1>8, <1>9 DEF Enter

LEMMA StagesMerge ==
    ASSUME BlockInv, ReleaseInv, MergeInv, NEW t \in Threads,
           CheckStopped(t) \/ NoSpace(t) \/ WakeUp(t) \/ LockAgain(t) \/ PackageEofr(t)
    PROVE  MergeInv'
<1>0. PackageEofr(t) \/ app' = app \/ MayFail
  BY DEF CheckStopped, NoSpace, WakeUp, LockAgain
<1>1. /\ mode' = mode /\ view' = view /\ gen' = gen
      /\ call[t].pc \in OnTheWay /\ (call[t].pc = "logged" \/ call[t].pc \in Putting)
  BY DEF CheckStopped, NoSpace, WakeUp, LockAgain, PackageEofr, At, Putting, OnTheWay
<1>2. app' = app /\ hist' = hist => Aside
  BY <1>1, MergeHas DEF Aside
<1>3. CASE CheckStopped(t)
  <2>1. CASE Failed(t) /\ hist' = AfterFailure(t, NoItem, FALSE)
    BY <1>1, <1>3, <2>1, PlainFailureMerges DEF CheckStopped, At, Putting
  <2>2. CASE call' = [call EXCEPT ![t].pc = "enter"] /\ foc' = foc /\ hist' = hist
    <3>1. Goes(t, "enter", FALSE) /\ app' = app
      BY <1>3, <2>2, CheckGoes DEF BlockInv, CheckStopped, At
    <3> QED BY <1>1, <1>2, <2>2, <3>1, MergeGoes DEF BlockInv
  <2> QED BY <1>3, <2>1, <2>2 DEF CheckStopped
<1>4. CASE NoSpace(t)
  <2>1. CASE Failed(t) /\ hist' = AfterFailure(t, NoItem, FALSE)
    <3>1. app' = app \/ MayFail
      BY <1>4 DEF NoSpace
    <3> QED BY <1>1, <1>4, <2>1, <3>1, PlainFailureMerges DEF NoSpace, At, Putting
  <2>2. CASE call' = [call EXCEPT ![t].pc = "wait", ![t].locked = FALSE] /\ app' = app /\ foc' = foc /\ hist' = hist
    <3>1. Goes(t, "wait", FALSE)
      BY <1>4, <2>2, WaitGoes DEF BlockInv, NoSpace, At
    <3> QED BY <1>1, <1>2, <2>2, <3>1, MergeGoes DEF BlockInv
  <2> QED BY <1>4, <2>1, <2>2 DEF NoSpace
<1>5. CASE WakeUp(t)
  <2>1. CASE Failed(t) /\ hist' = AfterFailure(t, NoItem, FALSE)
    BY <1>1, <1>5, <2>1, PlainFailureMerges DEF WakeUp, At, Putting
  <2>2. CASE call' = [call EXCEPT ![t].pc = "space", ![t].locked = TRUE] /\ foc' = foc /\ hist' = hist
    <3>1. Goes(t, "space", TRUE) /\ app' = app
      BY <1>5, <2>2, SpaceGoes DEF BlockInv, WakeUp, At
    <3> QED BY <1>1, <1>2, <2>2, <3>1, MergeGoes DEF BlockInv
  <2> QED BY <1>5, <2>1, <2>2 DEF WakeUp
<1>6. CASE LockAgain(t)
  <2>1. Goes(t, "add", TRUE) /\ call'[t].item = call[t].item
    BY <1>6, LockAgainGoes DEF BlockInv
  <2>2. app' = app /\ foc' = foc /\ hist' = hist /\ call[t].pc = "logged"
    BY <1>6 DEF LockAgain, At
  <2> QED BY <1>1, <1>2, <2>1, <2>2, MergeGoes DEF BlockInv
<1>7. CASE PackageEofr(t)
  <2>1. ~Merges
    <3>1. call[t].f.eofr
      BY <1>7 DEF PackageEofr
    <3> QED BY <1>1, <3>1, CarriedIs DEF BlockInv
  <2> DEFINE p == packageStreamMetadata(meta, TRUE, call[t].need)
             item == [kind |-> "end", cluster |-> Closed, dts |-> view.dts + 1, pts |-> view.pts + 1, tags |-> p.written]
             h == AfterFailure(t, item, FALSE)
  <2>2. \/ hist' = [hist EXCEPT !.written = p.written]
        \/ hist' = [h EXCEPT !.written = p.written, !.dead = @ \cup p.gone]
    BY <1>7 DEF PackageEofr
  <2> HIDE DEF p, item
  <2>3. DOMAIN h = DOMAIN hist /\ h.flushed = hist.flushed /\ h.refused = (hist.refused \/ FALSE)
    BY AfterRefusing DEF BlockInv, ClusterInv
  <2> HIDE DEF h
  <2>4. hist'.flushed = hist.flushed /\ hist'.refused \in BOOLEAN
    BY <2>2, <2>3, MergeHas
  <2>5. DOMAIN app' = DOMAIN app /\ app'.sent = app.sent
    <3>1. \E e : app' = [app EXCEPT !.events = e]
      BY <1>7 DEF PackageEofr
    <3> QED BY <3>1, MergeHas
  <2>6. Aside
    BY <1>1, <2>4, <2>5, MergeHas DEF Aside
  <2> QED BY <2>1, <2>6, MergeStands
<1> QED BY <1>3, <1>4, <1>5, <1>6, <1>7

\* The generator after a frame, and the time stamps of the item.
LEMMA PackagedStamps ==
    ASSUME NEW f
    PROVE  LET r == Packaged(gen, f) IN
           /\ r.info.dts = f.dts
           /\ r.gen = gen \/ (r.gen.dts = f.dts /\ r.gen.pts = f.pts)
  BY DEF Packaged, mkvgenPackageFrame

LEMMA PackageFrameMerges ==
    ASSUME BlockInv, ReleaseInv, MergeInv, NEW t \in Threads, PackageFrame(t)
    PROVE  MergeInv'
<1> DEFINE f == call[t].f
           r == Packaged(gen, f)
           room == call[t].need
           p == IF room # 0 /\ Fresh(r.info) THEN packageStreamMetadata(meta, FALSE, room)
                ELSE [ok |-> TRUE, written |-> << >>, done |-> << >>, gone |-> {}, q |-> meta]
           item == [kind |-> r.info.kind, cluster |-> r.info.cluster, dts |-> r.info.dts, pts |-> r.info.pts, tags |-> p.written]
           wrote(h) == [h EXCEPT !.written = IF p.written = << >> THEN @ ELSE p.written,
                                 !.latest = IF Fresh(item) THEN item.cluster ELSE @]
           failure == AfterFailure(t, item, FALSE)
           same(h) == DOMAIN h = DOMAIN hist /\ h.flushed = hist.flushed /\ h.refused = hist.refused
<1>0. call[t].pc = "space" /\ mode' = mode /\ view' = view /\ call[t].pc \in Putting /\ call[t].pc \in OnTheWay
  BY DEF PackageFrame, At, Putting, OnTheWay
<1>1. DOMAIN hist = {"latest", "lost", "refused", "flushed", "broke", "placed", "dead", "written"}
  BY MergeHas
<1>2. \A h : same(h) => same(wrote(h))
  BY <1>1
<1>3. item.dts = f.dts /\ (r.gen = gen \/ (r.gen.dts = f.dts /\ r.gen.pts = f.pts))
  <2>1. item.dts = r.info.dts
    OBVIOUS
  <2>2. r.info.dts = f.dts /\ (r.gen = gen \/ (r.gen.dts = f.dts /\ r.gen.pts = f.pts))
    BY PackagedStamps
  <2> HIDE DEF item, r, f
  <2> QED BY <2>1, <2>2
<1>4. DOMAIN app' = DOMAIN app /\ app'.sent = app.sent
  <2>1. \/ app' = app \/ (\E e : app' = [app EXCEPT !.events = e])
        \/ \E e : app' = [app EXCEPT !.fails = @ + 1, !.events = e]
    BY DEF PackageFrame
  <2> QED BY <2>1, MergeHas
<1> HIDE DEF r, item, p
<1>5. CASE Failed(t) /\ hist' = AfterFailure(t, NoItem, FALSE) /\ gen' = gen /\ app' = app
  BY <1>0, <1>5, PlainFailureMerges
<1>6. Merges => /\ ~f.eofr /\ Below(f.dts, f.pts)
                /\ view.dts <= f.dts /\ gen.dts <= f.dts /\ gen.pts <= f.pts /\ f.dts \in Nat /\ f.pts \in Nat
  <2>1. Merges => /\ ~f.eofr /\ Below(f.dts, f.pts) /\ f.dts \in Nat /\ f.pts \in {f.dts, f.dts + 1}
                  /\ view.dts <= f.dts /\ gen.dts <= f.dts /\ gen.pts <= f.pts
    BY <1>0, CarriedIs DEF BlockInv
  <2> HIDE DEF f
  <2> QED BY <2>1
<1>7. Merges /\ gen' = r.gen => Below(gen'.dts, gen'.pts) /\ gen'.dts <= f.dts /\ gen'.pts <= f.pts
  <2> SUFFICES ASSUME Merges, gen' = r.gen
               PROVE  Below(gen'.dts, gen'.pts) /\ gen'.dts <= f.dts /\ gen'.pts <= f.pts
    OBVIOUS
  <2>1. CASE gen' = gen
    BY <1>6, <2>1, MergeHas
  <2>2. CASE gen'.dts = f.dts /\ gen'.pts = f.pts
    BY <1>6, <2>2
  <2> QED BY <1>3, <2>1, <2>2
<1>8. same(failure)
  <2>1. DOMAIN failure = DOMAIN hist /\ failure.flushed = hist.flushed /\ failure.refused = (hist.refused \/ FALSE)
    BY AfterRefusing DEF BlockInv, ClusterInv
  <2> HIDE DEF failure
  <2> QED BY <2>1, MergeHas
<1>9. same([failure EXCEPT !.dead = @ \cup p.gone])
  <2> HIDE DEF failure
  <2> QED BY <1>1, <1>8
<1>10. CASE /\ gen' = r.gen /\ Failed(t)
            /\ hist' = wrote([failure EXCEPT !.dead = @ \cup p.gone]) \/ hist' = wrote(failure)
  <2> HIDE DEF wrote, failure
  <2>1. same(hist')
    <3>1. CASE hist' = wrote([failure EXCEPT !.dead = @ \cup p.gone])
      BY <1>2, <1>9, <3>1
    <3>2. CASE hist' = wrote(failure)
      BY <1>2, <1>8, <3>2
    <3> QED BY <1>10, <3>1, <3>2
  <2> QED BY <1>0, <1>4, <1>7, <1>10, <2>1, MergeHas, FailureMerges
<1>11. CASE /\ gen' = r.gen /\ hist' = wrote(hist) /\ foc' = foc
            /\ \/ call' = [call EXCEPT ![t].pc = "add", ![t].item = item]
               \/ call' = [call EXCEPT ![t].pc = "logged", ![t].item = item, ![t].locked = FALSE,
                                       ![t].depth = IF @ = 0 THEN 0 ELSE @ - 1]
  <2>1. same(hist')
    BY <1>2, <1>11
  <2>2. /\ call'[t].item = item /\ call'[t].f = f /\ call'[t].op = call[t].op /\ Other(t)
        /\ call'[t].pc \in {"add", "logged"}
    <3>1. call'[t].item = item /\ (Goes(t, "add", TRUE) \/ Goes(t, "logged", FALSE))
      BY <1>0, <1>11, AddGoes, LoggedGoes DEF BlockInv
    <3> QED BY <3>1 DEF Goes
  <2>3. Aside
    BY <1>0, <1>4, <2>1, MergeHas DEF Aside
  <2> SUFFICES ASSUME Merges PROVE Stands
    BY <2>3, MergeStands
  <2>4. t = "producer" /\ call[t].op = "put"
    BY <1>0, PutterIs DEF BlockInv
  <2>5. OnlyProducer'
    BY <2>2, <2>4, StaysProducer
  <2>6. CarriesOn(call'["producer"])
    BY <1>0, <1>3, <1>6, <1>7, <1>11, <2>2, <2>4 DEF CarriesOn
  <2> QED BY <1>0, <1>7, <1>11, <2>1, <2>5, <2>6, MergeHas DEF Stands, MergeInv
<1> QED BY <1>5, <1>10, <1>11 DEF PackageFrame, item, r, p

LEMMA AddItemMerges ==
    ASSUME BlockInv, ReleaseInv, MergeInv, NEW t \in Threads, AddItem(t)
    PROVE  MergeInv'
<1> DEFINE i == call[t].item
           f == call[t].f
           overtaken == \E u \in Threads \ {t} : At(u, "logged")
           lost == IF Fresh(i) THEN i.cluster # hist.latest ELSE hist.lost \/ overtaken
           placed == Place(hist, i.tags)
           h == [placed EXCEPT !.lost = lost, !.written = << >>]
           same(g) == DOMAIN g = DOMAIN hist /\ g.flushed = hist.flushed /\ g.refused = hist.refused
<1>0. /\ call[t].pc \in Putting /\ call[t].pc \in OnTheWay /\ call[t].pc \in {"logged", "add"}
      /\ mode' = mode /\ gen' = gen
  BY DEF AddItem, At, Putting, OnTheWay
<1>1. DOMAIN hist = {"latest", "lost", "refused", "flushed", "broke", "placed", "dead", "written"}
  BY MergeHas
<1>2. Merges => /\ i.dts = f.dts /\ f.dts \in Nat /\ view.dts <= f.dts /\ Below(f.dts, f.dts)
                /\ view.dts \in Nat
  <2>1. Merges => i.dts = f.dts /\ f.dts \in Nat /\ view.dts <= f.dts /\ Below(f.dts, f.dts)
    BY <1>0, CarriedIs DEF BlockInv
  <2>2. Merges => view.dts \in Nat
    BY MergeHas DEF Below
  <2> QED BY <2>1, <2>2
<1>3. CASE i.dts < view.dts /\ Failed(t) /\ hist' = AfterFailure(t, i, TRUE) /\ app' = app /\ view' = view
  <2>1. ~Merges
    <3> HIDE DEF i, f
    <3> QED BY <1>2, <1>3
  <2>2. hist'.flushed = hist.flushed /\ hist'.refused = (hist.refused \/ TRUE)
    BY <1>3, AfterRefusing DEF BlockInv, ClusterInv
  <2> QED BY <1>0, <1>3, <2>1, <2>2, FailureMerges
<1>4. same(placed)
  BY <1>1, Placing, PlacingMore
<1> HIDE DEF placed, lost
<1>5. same(h)
  BY <1>1, <1>4
<1> HIDE DEF h
<1>6. CASE /\ view' = [any |-> TRUE, dts |-> i.dts, pts |-> i.pts, cluster |-> i.cluster,
                       open |-> CASE Fresh(i) -> i.cluster [] i.kind = "end" -> Closed [] OTHER -> view.open]
           /\ \/ Succeed(t) /\ hist' = h /\ app' = app
              \/ MayFail /\ Failed(t) /\ hist' = [h EXCEPT !.broke = @ \/ call[t].op = "put"]
  <2>1. view'.dts = i.dts
    BY <1>6
  <2>2. same(hist')
    BY <1>1, <1>5, <1>6
  <2>3. DOMAIN app' = DOMAIN app /\ app'.sent = app.sent
    BY <1>6, MergeHas DEF MayFail
  <2>4. Aside
    BY <1>0, <2>2, <2>3, MergeHas DEF Aside
  <2>5. Merges => Lands
    <3> SUFFICES ASSUME Merges PROVE Lands
      OBVIOUS
    <3>1. Below(view'.dts, view'.dts)
      BY <1>2, <2>1
    <3>2. ~hist'.refused /\ Below(gen'.dts, gen'.pts)
      BY <1>0, <2>2, MergeHas
    <3> QED BY <3>1, <3>2 DEF Lands
  <2>6. CASE Succeed(t)
    BY <1>0, <2>4, <2>5, <2>6, MergeSucceeds DEF BlockInv
  <2>7. CASE Failed(t)
    BY <1>0, <2>4, <2>5, <2>7, MergeFails DEF BlockInv
  <2> QED BY <1>6, <2>6, <2>7
<1> QED BY <1>3, <1>6 DEF AddItem, h, placed, lost

-----------------------------------------------------------------------------
(* A frame comes.                                                          *)

\* The queues and the time stamps of the input when a frame f of track k has come; a
\* full queue turns it away.
Comes(k, f) ==
    /\ mode' = mode /\ DOMAIN app' = DOMAIN app
    /\ app'.sent = [app.sent EXCEPT ![k] = f.dts]
    /\ \A j \in 1..NTracks : j # k => foc'.q[j] = foc.q[j]
    /\ foc'.q[k] = foc.q[k] \/ foc'.q[k] = Append(foc.q[k], f)
IsNext(k, f) ==
    /\ f \in FrameSet /\ f.pts = f.dts /\ app.sent[k] + 2 <= f.dts /\ ~f.eofr /\ (f.key => k = 1)

LEMMA ComingIs ==
    ASSUME ReleaseInv, MergeTypes, NEW k \in 1..NTracks, NEW f, Comes(k, f), IsNext(k, f), NEW j \in 1..NTracks
    PROVE  /\ app'.sent[j] = IF j = k THEN f.dts ELSE app.sent[j]
           /\ app.sent[j] \in Int /\ f.dts \in Int /\ app.sent[j] <= app'.sent[j]
           /\ \A x \in 1..Len(foc'.q[j]) :
                 \/ x \in Frames(j) /\ foc'.q[j][x] = foc.q[j][x] /\ foc.q[j][x] \in FrameSet
                 \/ j = k /\ x = Len(foc.q[j]) + 1 /\ foc'.q[j][x] = f
<1>1. app'.sent[j] = (IF j = k THEN f.dts ELSE app.sent[j]) /\ app.sent[j] \in Int /\ app.sent[k] \in Int
  BY DEF Comes, MergeTypes
<1>2. f.dts \in Int /\ f \in FrameSet
  BY DEF IsNext, FrameSet
<1>3. app.sent[j] <= app'.sent[j]
  BY <1>1, <1>2 DEF IsNext
<1>4. foc.q[j] \in Seq(FrameSet) /\ Len(foc.q[j]) \in Nat /\ \A x \in 1..Len(foc.q[j]) : foc.q[j][x] \in FrameSet
  BY QueueIs DEF ReleaseInv, HasQueues
<1>5. ASSUME NEW x \in 1..Len(foc'.q[j])
      PROVE  \/ x \in Frames(j) /\ foc'.q[j][x] = foc.q[j][x] /\ foc.q[j][x] \in FrameSet
             \/ j = k /\ x = Len(foc.q[j]) + 1 /\ foc'.q[j][x] = f
  <2>1. CASE foc'.q[j] = foc.q[j]
    BY <1>4, <2>1 DEF Frames
  <2>2. CASE j = k /\ foc'.q[j] = Append(foc.q[j], f)
    <3>1. Len(foc'.q[j]) = Len(foc.q[j]) + 1 /\ (x \in 1..Len(foc.q[j]) => foc'.q[j][x] = foc.q[j][x])
      BY <1>2, <1>4, <2>2, AppendProperties
    <3>2. foc'.q[j][Len(foc.q[j]) + 1] = f
      BY <1>2, <1>4, <2>2, AppendProperties
    <3> QED BY <1>4, <2>2, <3>1, <3>2 DEF Frames
  <2> QED BY <2>1, <2>2 DEF Comes
<1> QED BY <1>1, <1>2, <1>3, <1>5

LEMMA ComingBelow ==
    ASSUME ReleaseInv, MergeTypes, NEW k \in 1..NTracks, NEW f, Comes(k, f), IsNext(k, f),
           NEW d, NEW p, Below(d, p)
    PROVE  StaysBelow(d, p)
<1>1. d \in Nat /\ p \in {d, d + 1} /\ NTracks' = NTracks
  BY DEF Below, Comes, NTracks
<1> SUFFICES ASSUME NEW j \in 1..NTracks
             PROVE  d <= app'.sent[j] /\ \A x \in 1..Len(foc'.q[j]) : d <= foc'.q[j][x].dts /\ p <= foc'.q[j][x].pts
  BY <1>1 DEF StaysBelow
<1>2. /\ app.sent[j] \in Int /\ app.sent[j] <= app'.sent[j] /\ f.dts \in Int
      /\ app'.sent[j] = IF j = k THEN f.dts ELSE app.sent[j]
  BY ComingIs
<1>3. d <= app.sent[j] /\ \A x \in Frames(j) : d <= foc.q[j][x].dts /\ p <= foc.q[j][x].pts
  BY DEF Below
<1>4. d <= app'.sent[j]
  BY <1>1, <1>2, <1>3 DEF IsNext
<1>5. ASSUME NEW x \in 1..Len(foc'.q[j])
      PROVE  d <= foc'.q[j][x].dts /\ p <= foc'.q[j][x].pts
  <2>1. \/ x \in Frames(j) /\ foc'.q[j][x] = foc.q[j][x]
        \/ j = k /\ foc'.q[j][x] = f
    BY ComingIs
  <2>2. CASE x \in Frames(j) /\ foc'.q[j][x] = foc.q[j][x]
    BY <1>3, <2>2
  <2>3. CASE j = k /\ foc'.q[j][x] = f
    <3>1. app.sent[j] + 2 <= f.dts /\ f.pts = f.dts
      BY <2>3 DEF IsNext
    <3>2. d <= f.dts /\ p <= f.dts
      BY <1>1, <1>2, <1>3, <3>1
    <3> QED BY <2>3, <3>1, <3>2
  <2> QED BY <2>1, <2>2, <2>3
<1> QED BY <1>4, <1>5

\* FirstTrackAfter, of the queues after a step.
FirstStaysAfter(d) == d <= app'.sent[1] /\ \A x \in 1..Len(foc'.q[1]) : d + 2 <= foc'.q[1][x].dts

LEMMA ComingInOrder ==
    ASSUME ReleaseInv, MergeTypes, InOrder, NEW k \in 1..NTracks, NEW f, Comes(k, f), IsNext(k, f)
    PROVE  InOrder'
<1>0. NTracks' = NTracks /\ 1 \in 1..NTracks
  BY TracksAre DEF Comes, NTracks, ReleaseInv
<1> SUFFICES ASSUME NEW j \in 1..NTracks PROVE QueueInOrder(j)'
  BY <1>0 DEF InOrder
<1>1. /\ app.sent[j] \in Int /\ app.sent[j] <= app'.sent[j] /\ f.dts \in Int
      /\ app'.sent[j] = IF j = k THEN f.dts ELSE app.sent[j]
  BY ComingIs
<1>2. QueueInOrder(j) /\ Len(foc.q[j]) \in Nat /\ \A x \in Frames(j) : foc.q[j][x].dts \in Int
  BY QueueIs DEF ReleaseInv, HasQueues, InOrder, Frames, FrameSet
<1>3. 0 <= app'.sent[j]
  BY <1>1, <1>2 DEF QueueInOrder, IsNext
<1>4. ASSUME NEW d \in Int, FirstTrackAfter(d)
      PROVE  FirstStaysAfter(d)
  <2>1. app.sent[1] \in Int /\ app.sent[1] <= app'.sent[1] /\ (app'.sent[1] = IF 1 = k THEN f.dts ELSE app.sent[1])
    BY <1>0, ComingIs
  <2>2. d <= app'.sent[1]
    BY <1>1, <1>4, <2>1 DEF FirstTrackAfter, IsNext
  <2>3. ASSUME NEW x \in 1..Len(foc'.q[1])
        PROVE  d + 2 <= foc'.q[1][x].dts
    <3>1. \/ x \in Frames(1) /\ foc'.q[1][x] = foc.q[1][x]
          \/ 1 = k /\ foc'.q[1][x] = f
      BY <1>0, ComingIs
    <3>2. CASE x \in Frames(1) /\ foc'.q[1][x] = foc.q[1][x]
      BY <1>4, <3>2 DEF FirstTrackAfter
    <3>3. CASE 1 = k /\ foc'.q[1][x] = f
      <4>1. app.sent[1] + 2 <= f.dts /\ d <= app.sent[1]
        BY <1>4, <3>3 DEF IsNext, FirstTrackAfter
      <4>2. d + 2 <= f.dts
        BY <1>1, <2>1, <4>1
      <4> QED BY <3>3, <4>2
    <3> QED BY <3>1, <3>2, <3>3
  <2> QED BY <2>2, <2>3 DEF FirstStaysAfter
<1>5. ASSUME NEW x \in 1..Len(foc'.q[j])
      PROVE  FrameInOrder(j, x)'
  <2>1. \/ x \in Frames(j) /\ foc'.q[j][x] = foc.q[j][x]
        \/ j = k /\ foc'.q[j][x] = f
    BY ComingIs
  <2>2. CASE x \in Frames(j) /\ foc'.q[j][x] = foc.q[j][x]
    <3> DEFINE g == foc.q[j][x]
    <3>1. FrameInOrder(j, x) /\ g.dts \in Int
      BY <1>2, <2>2 DEF QueueInOrder
    <3>2. /\ 0 <= g.dts /\ g.dts <= app.sent[j] /\ g.pts \in {g.dts, g.dts + 1}
          /\ ~g.eofr /\ (g.key => j = 1)
          /\ g.pts # g.dts => j = 2 /\ x = 1 /\ FirstTrackAfter(g.dts)
      BY <3>1 DEF FrameInOrder
    <3> HIDE DEF g
    <3>3. g.dts <= app'.sent[j]
      BY <1>1, <3>1, <3>2 DEF IsNext
    <3>4. g.pts # g.dts => FirstStaysAfter(g.dts)
      BY <1>4, <3>1, <3>2
    <3>5. foc'.q[j][x] = g
      BY <2>2 DEF g
    <3> QED BY <3>2, <3>3, <3>4, <3>5 DEF FrameInOrder, FirstTrackAfter, FirstStaysAfter, Frames
  <2>3. CASE j = k /\ foc'.q[j][x] = f
    <3>1. f.dts \in Int /\ f.pts = f.dts /\ ~f.eofr /\ (f.key => j = 1) /\ app.sent[j] + 2 <= f.dts
      BY <1>1, <2>3 DEF IsNext
    <3>2. 0 <= f.dts /\ f.dts <= app'.sent[j]
      BY <1>1, <1>2, <2>3, <3>1 DEF QueueInOrder
    <3> QED BY <2>3, <3>1, <3>2 DEF FrameInOrder
  <2> QED BY <2>1, <2>2, <2>3
<1>6. ASSUME NEW x \in 1..Len(foc'.q[j]), NEW y \in 1..Len(foc'.q[j]), x < y
      PROVE  foc'.q[j][x].dts + 2 <= foc'.q[j][y].dts
  <2>1. /\ \/ x \in Frames(j) /\ foc'.q[j][x] = foc.q[j][x]
           \/ j = k /\ x = Len(foc.q[j]) + 1 /\ foc'.q[j][x] = f
        /\ \/ y \in Frames(j) /\ foc'.q[j][y] = foc.q[j][y]
           \/ j = k /\ y = Len(foc.q[j]) + 1 /\ foc'.q[j][y] = f
    BY ComingIs
  <2>2. x \in Frames(j) /\ foc'.q[j][x] = foc.q[j][x]
    BY <1>2, <1>6, <2>1 DEF Frames
  <2>3. CASE y \in Frames(j) /\ foc'.q[j][y] = foc.q[j][y]
    BY <1>2, <1>6, <2>2, <2>3 DEF QueueInOrder
  <2>4. CASE j = k /\ foc'.q[j][y] = f
    <3>1. foc.q[j][x].dts <= app.sent[j] /\ foc.q[j][x].dts \in Int
      BY <1>2, <2>2 DEF QueueInOrder, FrameInOrder
    <3>2. app.sent[j] + 2 <= f.dts
      BY <2>4 DEF IsNext
    <3>3. foc.q[j][x].dts + 2 <= f.dts
      BY <1>1, <3>1, <3>2
    <3> QED BY <2>2, <2>4, <3>3
  <2> QED BY <2>1, <2>3, <2>4
<1> QED BY <1>3, <1>5, <1>6 DEF QueueInOrder, Frames

LEMMA PutFrameMerges ==
    ASSUME BlockInv, ReleaseInv, MergeInv, NEW k \in Tracks, NEW ts \in Int, NEW key \in BOOLEAN, PutFrame(k, ts, key)
    PROVE  MergeInv'
<1> DEFINE f == [track |-> k, dts |-> ts, pts |-> ts, key |-> key, eofr |-> FALSE]
<1>1. /\ call["producer"] = Idle /\ mode' = mode /\ hist' = hist /\ gen' = gen /\ view' = view
      /\ app' = [app EXCEPT !.sent[k] = ts]
      /\ ts \in {app.sent[k] + mode.gap, app.sent[k] + mode.gap + 1} /\ (key => k \in mode.keys)
  BY DEF PutFrame
<1>2. k \in 1..NTracks /\ NTracks' = NTracks /\ mode \in Modes
  BY <1>1, TracksAre DEF ReleaseInv, NTracks
<1>3. MergeTypes
  BY DEF MergeInv
<1>4. DOMAIN app' = DOMAIN app /\ app'.sent = [app.sent EXCEPT ![k] = ts]
  BY <1>1, MergeHas
<1>5. MergeTypes'
  BY <1>1, <1>2, <1>3, <1>4 DEF MergeTypes
<1> SUFFICES ASSUME Merges, MergeInv
             PROVE  /\ ~hist'.refused /\ OnlyProducer' /\ ~foc'.eofrPut
                    /\ InOrder' /\ HeadsBelow' /\ Carries(call["producer"])'
  BY <1>1, <1>2, <1>5 DEF MergeInv, Merges
<1>6. mode.order # "pass" /\ mode.gap >= 2 /\ \A j \in mode.keys : j = 1
  BY DEF Merges
<1>7. f.dts = ts /\ f.pts = ts /\ f.key = key /\ ~f.eofr
  OBVIOUS
<1>8. f \in FrameSet
  <2>1. k \in Int
    BY <1>2
  <2> QED BY <2>1, Zenon DEF FrameSet
<1>9. \/ foc' = foc /\ call' = call
      \/ /\ foc' = [foc EXCEPT !.q[k] = Append(@, f), !.keyFrameDetected = @ \/ key]
         /\ Start("producer", "put", "next", NoFrame, 1)
  BY <1>6 DEF PutFrame
<1> HIDE DEF f
<1>10. DOMAIN foc = {"q", "eofrPut", "keyFrameDetected"} /\ DOMAIN foc.q = 1..NTracks
  BY DEF ReleaseInv, HasQueues, Queues
<1>11. foc'.eofrPut = foc.eofrPut /\ (foc'.q = foc.q \/ foc'.q = [foc.q EXCEPT ![k] = Append(foc.q[k], f)])
  BY <1>9, <1>10
<1>12. Comes(k, f)
  <2>1. app'.sent = [app.sent EXCEPT ![k] = f.dts]
    BY <1>4, <1>7
  <2>2. \A j \in 1..NTracks : j # k => foc'.q[j] = foc.q[j]
    BY <1>2, <1>10, <1>11
  <2>3. foc'.q[k] = foc.q[k] \/ foc'.q[k] = Append(foc.q[k], f)
    BY <1>2, <1>10, <1>11
  <2> QED BY <1>1, <1>4, <2>1, <2>2, <2>3 DEF Comes
<1>13. app.sent[k] + 2 <= f.dts
  <2>1. app.sent[k] \in Int /\ mode.gap \in Nat
    BY <1>2, <1>3, IngestAssumption DEF MergeTypes
  <2> QED BY <1>1, <1>6, <1>7, <2>1
<1>14. IsNext(k, f)
  BY <1>1, <1>6, <1>7, <1>8, <1>13 DEF IsNext
<1>15. InOrder'
  BY <1>2, <1>3, <1>12, <1>14, ComingInOrder DEF MergeInv
<1>16. HeadsBelow'
  <2>1. StaysBelow(gen.dts, gen.pts) /\ StaysBelow(view.dts, view.dts)
    BY <1>2, <1>3, <1>12, <1>14, ComingBelow, MergeHas
  <2> QED BY <1>1, <2>1 DEF HeadsBelow, Below, StaysBelow, Frames
<1>17. /\ Other("producer") /\ call'["producer"].op \in {"none", "put"} /\ call'["producer"].pc \in {"none", "next"}
  <2>1. CASE call' = call
    BY <1>1, <2>1, IdleIs DEF Other
  <2>2. CASE Start("producer", "put", "next", NoFrame, 1)
    BY <2>2, Starting, Distinct DEF BlockInv
  <2> QED BY <1>9, <2>1, <2>2
<1>18. OnlyProducer'
  BY <1>17, StaysProducer
<1>19. Carries(call["producer"])'
  BY <1>17 DEF Carries, OnTheWay
<1> QED BY <1>1, <1>11, <1>15, <1>16, <1>18, <1>19 DEF MergeInv

-----------------------------------------------------------------------------
(* A frame leaves.                                                         *)

\* All tracks have a frame, so that the scan starts with the first.
LEMMA StartsFirst ==
    ASSUME NEW n \in Nat \ {0}, NEW c, HasQueues(c, n), AllWithFrame(c)
    PROVE  /\ Offers(c, n) /\ WithFrame(c) = 1..n /\ Start0(c) = 1
           /\ \A k \in 1..n : c.q[k] # << >> /\ Len(c.q[k]) \in Nat \ {0} /\ Head(c.q[k]) = c.q[k][1]
<1>1. DOMAIN c.q = 1..n /\ WithFrame(c) = 1..n /\ 1 \in 1..n
  BY DEF HasQueues, Queues, AllWithFrame
<1>2. Offers(c, n)
  BY <1>1 DEF Offers
<1>3. Start0(c) \in 1..n /\ \A l \in 1..n : Start0(c) <= l
  BY <1>1, <1>2, Offering
<1>4. Start0(c) = 1
  BY <1>1, <1>3
<1>5. \A k \in 1..n : c.q[k] # << >>
  BY <1>1 DEF WithFrame
<1>6. \A k \in 1..n : Len(c.q[k]) \in Nat \ {0} /\ Head(c.q[k]) = c.q[k][1]
  BY <1>5, QueueIs DEF HasQueues
<1> QED BY <1>1, <1>2, <1>4, <1>5, <1>6

LEMMA EarliestOfOne ==
    ASSUME NEW c, HasQueues(c, 1), AllWithFrame(c), NEW types, Len(types) = 1, NEW order
    PROVE  getEarliestTrack(c, types, order).min = 1 /\ getEarliestTrack(c, types, order).q = c.q
<1>1. Start0(c) = 1
  BY StartsFirst
<1>2. PICK f : Scans(c, types, order, f, 1) /\ getEarliestTrack(c, types, order) = f[1]
  <2>1. Start0(c) \in Nat /\ Len(types) \in Nat
    BY <1>1
  <2>2. \E f : Scans(c, types, order, f, Len(types)) /\ getEarliestTrack(c, types, order) = f[Len(types)]
    BY <2>1, EarliestScans
  <2> QED BY <2>2
<1>3. f[1] = Compared(c, types, order, f[0], 1)
  BY <1>2 DEF Scans
<1>4. f[1] = [min |-> 1, q |-> c.q]
  BY <1>1, <1>3 DEF Compared
<1> QED BY <1>2, <1>4

\* Two tracks: the heads are compared, and on a tie that of the second is moved.
Stamp(c, order, k) == MkvTimestamp(order, c.q[k][1])
Tie(c, types, order) == Stamp(c, order, 1) = Stamp(c, order, 2) /\ types[1] # types[2]

LEMMA EarliestOfTwo ==
    ASSUME NEW c, HasQueues(c, 2), AllWithFrame(c), NEW types, Len(types) = 2, NEW order, order # "av", ~c.q[2][1].key
    PROVE  /\ getEarliestTrack(c, types, order).min = IF Stamp(c, order, 1) <= Stamp(c, order, 2) THEN 1 ELSE 2
           /\ getEarliestTrack(c, types, order).q = IF Tie(c, types, order) THEN Raise(c.q, 2) ELSE c.q
<1> DEFINE r == audioVideoFrameTimestampComparator(c.q, types, order, 1, 2)
<1>1. /\ Start0(c) = 1 /\ WithFrame(c) = 1..2
      /\ Head(c.q[1]) = c.q[1][1] /\ Head(c.q[2]) = c.q[2][1]
  BY StartsFirst
<1>2. PICK f : Scans(c, types, order, f, 2) /\ getEarliestTrack(c, types, order) = f[2]
  <2>1. Start0(c) \in Nat /\ Len(types) \in Nat
    BY <1>1
  <2>2. \E f : Scans(c, types, order, f, Len(types)) /\ getEarliestTrack(c, types, order) = f[Len(types)]
    BY <2>1, EarliestScans
  <2> QED BY <2>2
<1>3. \A k \in 0..2 : f[k] = Compared(c, types, order, f[k - 1], k)
  BY <1>2 DEF Scans
<1>4. f[1] = Compared(c, types, order, f[0], 1) /\ f[2] = Compared(c, types, order, f[1], 2)
  BY <1>3
<1>5. f[1] = [min |-> 1, q |-> c.q]
  BY <1>1, <1>4 DEF Compared
<1>6. f[1].min = 1 /\ f[1].q = c.q
  BY <1>5
<1>7. f[2] = [min |-> IF r.first THEN 1 ELSE 2, q |-> r.q]
  <2>1. ~(2 <= Start0(c)) /\ 2 \in WithFrame(c)
    BY <1>1
  <2> HIDE DEF r
  <2>2. Compared(c, types, order, f[1], 2) = [min |-> IF r.first THEN 1 ELSE 2, q |-> r.q]
    BY <1>6, <2>1 DEF Compared, r
  <2> QED BY <1>4, <2>2
<1>8. r.first = (Stamp(c, order, 1) <= Stamp(c, order, 2))
  BY <1>1 DEF audioVideoFrameTimestampComparator, Stamp
<1>9. r.q = IF Tie(c, types, order) THEN Raise(c.q, 2) ELSE c.q
  BY <1>1 DEF audioVideoFrameTimestampComparator, Stamp, Tie, Raise
<1> HIDE DEF r
<1>10. f[2].min = (IF r.first THEN 1 ELSE 2) /\ f[2].q = r.q
  BY <1>7
<1> QED BY <1>2, <1>8, <1>9, <1>10

\* The head f of track m leaves, and the head of the second track is moved if up.
From(m, k, x) == IF k = m THEN x + 1 ELSE x
Leaves(m, f, up) ==
    /\ mode' = mode /\ app' = app /\ NTracks \in {1, 2} /\ m \in 1..NTracks
    /\ f.dts = foc.q[m][1].dts /\ f.pts = foc.q[m][1].pts /\ f.eofr = foc.q[m][1].eofr
    /\ \A k \in 1..NTracks : 1 \in Frames(k)
    /\ \A k \in 1..NTracks : \A x \in 1..Len(foc'.q[k]) :
          /\ From(m, k, x) \in Frames(k) /\ SameFrame(foc.q[k][From(m, k, x)], foc'.q[k][x])
          /\ foc'.q[k][x].pts = foc.q[k][From(m, k, x)].pts + IF up /\ k = 2 /\ x = 1 THEN 1 ELSE 0
    /\ \/ m = 1 /\ ~up /\ (NTracks = 2 => foc.q[1][1].dts <= foc.q[2][1].dts)
       \/ m = 1 /\ up /\ NTracks = 2 /\ foc.q[1][1].dts = foc.q[2][1].dts /\ foc.q[2][1].pts = foc.q[2][1].dts
       \/ m = 2 /\ ~up /\ foc.q[2][1].dts < foc.q[1][1].dts

\* The frames of a queue in order.
LEMMA QueuedIs ==
    ASSUME ReleaseInv, MergeTypes, InOrder, NEW k \in 1..NTracks, NEW x \in Frames(k)
    PROVE  /\ foc.q[k][x].dts \in Nat /\ foc.q[k][x].pts \in {foc.q[k][x].dts, foc.q[k][x].dts + 1}
           /\ app.sent[k] \in Int /\ foc.q[k][x].dts <= app.sent[k] /\ FrameInOrder(k, x)
           /\ 1 \in Frames(k) /\ foc.q[k][1].dts <= foc.q[k][x].dts
           /\ x # 1 => foc.q[k][1].dts + 2 <= foc.q[k][x].dts
           /\ x # 1 \/ k = 1 => foc.q[k][x].pts = foc.q[k][x].dts
<1>1. QueueInOrder(k) /\ app.sent[k] \in Int
  BY DEF InOrder, MergeTypes
<1>2. FrameInOrder(k, x)
  BY <1>1 DEF QueueInOrder
<1>3. foc.q[k] \in Seq(FrameSet) /\ Len(foc.q[k]) \in Nat /\ \A y \in Frames(k) : foc.q[k][y].dts \in Int
  BY QueueIs DEF ReleaseInv, HasQueues, Frames, FrameSet
<1>4. foc.q[k][x].dts \in Nat /\ foc.q[k][x].pts \in {foc.q[k][x].dts, foc.q[k][x].dts + 1}
  BY <1>2, <1>3 DEF FrameInOrder
<1>5. 1 \in Frames(k) /\ (x # 1 => 1 < x)
  BY <1>3 DEF Frames
<1>6. x # 1 => foc.q[k][1].dts + 2 <= foc.q[k][x].dts
  BY <1>1, <1>5 DEF QueueInOrder
<1>7. foc.q[k][1].dts <= foc.q[k][x].dts
  BY <1>3, <1>4, <1>5, <1>6
<1>8. x # 1 \/ k = 1 => foc.q[k][x].pts = foc.q[k][x].dts
  BY <1>2 DEF FrameInOrder
<1> QED BY <1>1, <1>2, <1>4, <1>5, <1>6, <1>7, <1>8 DEF FrameInOrder

LEMMA LeavingBelow ==
    ASSUME ReleaseInv, MergeTypes, InOrder, NEW m, NEW f, NEW up, Leaves(m, f, up), NEW d, NEW p, Below(d, p)
    PROVE  StaysBelow(d, p) /\ d <= f.dts /\ p <= f.pts
<1>1. d \in Nat /\ p \in {d, d + 1} /\ NTracks' = NTracks
  BY DEF Below, Leaves, NTracks
<1>2. \A k \in 1..NTracks : d <= app.sent[k] /\ \A x \in Frames(k) : d <= foc.q[k][x].dts /\ p <= foc.q[k][x].pts
  BY DEF Below
<1>3. ASSUME NEW j \in 1..NTracks, NEW x \in 1..Len(foc'.q[j])
      PROVE  d <= foc'.q[j][x].dts /\ p <= foc'.q[j][x].pts
  <2> DEFINE y == From(m, j, x)
             raise == IF up /\ j = 2 /\ x = 1 THEN 1 ELSE 0
  <2>1. /\ y \in Frames(j) /\ foc'.q[j][x].dts = foc.q[j][y].dts
        /\ foc'.q[j][x].pts = foc.q[j][y].pts + raise
    BY DEF Leaves, SameFrame
  <2>2. raise \in {0, 1}
    OBVIOUS
  <2> HIDE DEF y, raise
  <2>3. foc.q[j][y].dts \in Nat /\ foc.q[j][y].pts \in {foc.q[j][y].dts, foc.q[j][y].dts + 1}
    BY <2>1, QueuedIs
  <2>4. d <= foc.q[j][y].dts /\ p <= foc.q[j][y].pts
    BY <1>2, <2>1
  <2>5. foc.q[j][y].pts \in Nat /\ p \in Nat
    <3>1. foc.q[j][y].pts \in Nat
      BY <2>3
    <3>2. p \in Nat
      BY <1>1
    <3> QED BY <3>1, <3>2
  <2>6. p <= foc.q[j][y].pts + raise
    BY <2>2, <2>4, <2>5
  <2> QED BY <2>1, <2>4, <2>6
<1>4. StaysBelow(d, p)
  BY <1>1, <1>2, <1>3 DEF StaysBelow, Leaves
<1> QED BY <1>2, <1>4 DEF Leaves

LEMMA LeavingFrame ==
    ASSUME ReleaseInv, MergeTypes, InOrder, NEW m, NEW f, NEW up, Leaves(m, f, up)
    PROVE  ~f.eofr /\ StaysBelow(f.dts, f.pts)
<1>1. m \in 1..NTracks /\ 1 \in Frames(m) /\ 1 \in 1..NTracks /\ NTracks' = NTracks
  BY DEF Leaves, NTracks
<1>2. /\ f.dts \in Nat /\ f.pts \in {f.dts, f.dts + 1} /\ ~f.eofr /\ (m = 1 => f.pts = f.dts)
      /\ f.dts = foc.q[m][1].dts /\ f.dts <= app.sent[m]
  BY <1>1, QueuedIs DEF Leaves, FrameInOrder
<1>3. \A j \in 1..NTracks : 1 \in Frames(j)
  BY DEF Leaves
\* every frame of the queues lies after f, or behind it
<1>4. ASSUME NEW j \in 1..NTracks, NEW y \in Frames(j), j = m => y # 1
      PROVE  f.dts <= foc.q[j][y].dts /\ f.pts <= foc.q[j][y].pts
  <2>1. /\ foc.q[j][y].dts \in Nat /\ foc.q[j][y].pts \in {foc.q[j][y].dts, foc.q[j][y].dts + 1}
        /\ foc.q[j][1].dts \in Nat /\ foc.q[j][1].dts <= foc.q[j][y].dts
        /\ y # 1 => foc.q[j][1].dts + 2 <= foc.q[j][y].dts
    BY <1>3, QueuedIs
  <2>2. CASE j = m
    BY <1>2, <1>4, <2>1, <2>2
  <2>3. CASE j # m
    <3>1. NTracks = 2 /\ ((m = 1 /\ j = 2) \/ (m = 2 /\ j = 1))
      BY <1>1, <2>3 DEF Leaves
    <3>2. CASE m = 1 /\ j = 2
      <4>1. foc.q[1][1].dts <= foc.q[2][1].dts
        BY <2>1, <3>1, <3>2 DEF Leaves
      <4> QED BY <1>2, <2>1, <3>2, <4>1
    <3>3. CASE m = 2 /\ j = 1
      <4>1. foc.q[2][1].dts < foc.q[1][1].dts
        BY <3>3 DEF Leaves
      <4> QED BY <1>2, <2>1, <3>3, <4>1
    <3> QED BY <3>1, <3>2, <3>3
  <2> QED BY <2>2, <2>3
<1>5. \A j \in 1..NTracks : f.dts <= app.sent[j]
  <2> TAKE j \in 1..NTracks
  <2>1. CASE j = m
    BY <1>2, <2>1
  <2>2. CASE j # m
    <3>1. f.dts <= foc.q[j][1].dts /\ foc.q[j][1].dts <= app.sent[j] /\ app.sent[j] \in Int /\ foc.q[j][1].dts \in Nat
      BY <1>3, <1>4, <2>2, QueuedIs
    <3> QED BY <1>2, <3>1
  <2> QED BY <2>1, <2>2
<1>6. ASSUME NEW j \in 1..NTracks, NEW x \in 1..Len(foc'.q[j])
      PROVE  f.dts <= foc'.q[j][x].dts /\ f.pts <= foc'.q[j][x].pts
  <2> DEFINE y == From(m, j, x)
             raise == IF up /\ j = 2 /\ x = 1 THEN 1 ELSE 0
  <2>1. /\ y \in Frames(j) /\ foc'.q[j][x].dts = foc.q[j][y].dts
        /\ foc'.q[j][x].pts = foc.q[j][y].pts + raise
    BY DEF Leaves, SameFrame
  <2>2. raise \in {0, 1} /\ (j = m => y # 1)
    BY DEF From
  <2> HIDE DEF y, raise
  <2>3. foc.q[j][y].dts \in Nat /\ foc.q[j][y].pts \in {foc.q[j][y].dts, foc.q[j][y].dts + 1}
    BY <2>1, QueuedIs
  <2>4. f.dts <= foc.q[j][y].dts /\ f.pts <= foc.q[j][y].pts
    BY <1>4, <2>1, <2>2
  <2>5. foc.q[j][y].pts \in Nat /\ f.pts \in Nat
    <3>1. foc.q[j][y].pts \in Nat
      BY ONLY <2>3
    <3>2. f.dts \in Nat /\ (f.pts = f.dts \/ f.pts = f.dts + 1)
      BY <1>2
    <3>3. f.pts \in Nat
      BY ONLY <3>2
    <3> QED BY <3>1, <3>3
  <2>6. f.pts <= foc.q[j][y].pts + raise
    BY <2>2, <2>4, <2>5
  <2> QED BY <2>1, <2>4, <2>6
<1>7. StaysBelow(f.dts, f.pts)
  BY <1>1, <1>2, <1>5, <1>6 DEF StaysBelow, Leaves
<1> QED BY <1>2, <1>7

LEMMA LeavingInOrder ==
    ASSUME ReleaseInv, MergeTypes, InOrder, NEW m, NEW f, NEW up, Leaves(m, f, up)
    PROVE  InOrder'
<1>0. NTracks' = NTracks /\ 1 \in 1..NTracks /\ app' = app /\ \A k \in 1..NTracks : 1 \in Frames(k)
  BY DEF Leaves, NTracks
<1> SUFFICES ASSUME NEW j \in 1..NTracks PROVE QueueInOrder(j)'
  BY <1>0 DEF InOrder
<1>1. \A k \in 1..NTracks : \A x \in 1..Len(foc'.q[k]) :
          From(m, k, x) \in Frames(k) /\ foc'.q[k][x].dts = foc.q[k][From(m, k, x)].dts
  BY DEF Leaves, SameFrame
<1>2. QueueInOrder(j)
  BY DEF InOrder
<1>3. ASSUME NEW d, FirstTrackAfter(d)
      PROVE  FirstStaysAfter(d)
  BY <1>0, <1>1, <1>3 DEF FirstStaysAfter, FirstTrackAfter
<1>4. ASSUME NEW x \in 1..Len(foc'.q[j])
      PROVE  FrameInOrder(j, x)'
  <2> DEFINE y == From(m, j, x)
             o == foc.q[j][y]
             g == foc'.q[j][x]
             raised == up /\ j = 2 /\ x = 1
  <2>1. y \in Frames(j) /\ SameFrame(o, g) /\ g.pts = o.pts + IF raised THEN 1 ELSE 0
    BY DEF Leaves
  <2>2. /\ 0 <= o.dts /\ o.dts <= app.sent[j] /\ o.pts \in {o.dts, o.dts + 1}
        /\ ~o.eofr /\ (o.key => j = 1)
        /\ o.pts # o.dts => j = 2 /\ y = 1 /\ FirstTrackAfter(o.dts)
    BY <2>1, QueuedIs DEF FrameInOrder
  <2>3. o.dts \in Nat /\ (y = 1 => x = 1)
    BY <2>1, QueuedIs DEF From
  <2>4. CASE ~raised
    <3> HIDE DEF o, y, raised
    <3>1. g.pts = o.pts
      BY <2>1, <2>2, <2>3, <2>4
    <3>2. /\ 0 <= g.dts /\ g.dts <= app.sent[j] /\ g.pts \in {g.dts, g.dts + 1}
          /\ ~g.eofr /\ (g.key => j = 1)
          /\ g.pts # g.dts => j = 2 /\ x = 1 /\ FirstStaysAfter(g.dts)
      BY <1>3, <2>1, <2>2, <2>3, <3>1 DEF SameFrame
    <3> QED BY <1>0, <3>2 DEF FrameInOrder, FirstTrackAfter, FirstStaysAfter, Frames
  <2>5. CASE raised
    <3>1. /\ m = 1 /\ j = 2 /\ x = 1 /\ y = 1 /\ foc.q[1][1].dts = foc.q[2][1].dts /\ o.pts = o.dts
      BY <2>5 DEF Leaves, From
    <3>2. foc.q[1][1].dts = o.dts
      BY <3>1
    <3>3. o.dts <= app'.sent[1]
      <4>1. foc.q[1][1].dts <= app.sent[1]
        BY <1>0, QueuedIs
      <4> QED BY <1>0, <3>2, <4>1
    <3>4. ASSUME NEW z \in 1..Len(foc'.q[1])
          PROVE  o.dts + 2 <= foc'.q[1][z].dts
      <4>1. From(m, 1, z) \in Frames(1) /\ foc'.q[1][z].dts = foc.q[1][From(m, 1, z)].dts
        BY <1>0, <1>1
      <4>2. From(m, 1, z) # 1
        BY <3>1 DEF From
      <4> QED BY <1>0, <3>2, <4>1, <4>2, QueuedIs
    <3>5. FirstStaysAfter(o.dts)
      BY <3>3, <3>4 DEF FirstStaysAfter
    <3> HIDE DEF o, y, raised
    <3>6. g.pts = g.dts + 1 /\ g.dts = o.dts
      BY <2>1, <2>3, <2>5, <3>1 DEF SameFrame
    <3>7. /\ 0 <= g.dts /\ g.dts <= app.sent[j] /\ g.pts \in {g.dts, g.dts + 1}
          /\ ~g.eofr /\ (g.key => j = 1)
          /\ g.pts # g.dts => j = 2 /\ x = 1 /\ FirstStaysAfter(g.dts)
      BY <2>1, <2>2, <3>1, <3>5, <3>6 DEF SameFrame
    <3> QED BY <1>0, <3>7 DEF FrameInOrder, FirstTrackAfter, FirstStaysAfter, Frames
  <2> QED BY <2>4, <2>5
<1>5. ASSUME NEW x \in 1..Len(foc'.q[j]), NEW y \in 1..Len(foc'.q[j]), x < y
      PROVE  foc'.q[j][x].dts + 2 <= foc'.q[j][y].dts
  <2>1. From(m, j, x) < From(m, j, y)
    BY <1>5 DEF From
  <2> QED BY <1>1, <1>2, <2>1 DEF QueueInOrder
<1> QED BY <1>0, <1>2, <1>4, <1>5 DEF QueueInOrder, Frames

\* The queues without the head of track m, after the move if there was one.
Moved(q, up) == IF up THEN Raise(q, 2) ELSE q
Dequeued(q, m, up) == [Moved(q, up) EXCEPT ![m] = Tail(Moved(q, up)[m])]

Filled(q, n) == \A k \in 1..n : q[k] # << >>
MayMove(n, m, up) == m \in 1..n /\ up \in BOOLEAN /\ (up => 2 \in 1..n /\ m = 1)
TakenFrom(q, r, n, m, up) ==
    \A k \in 1..n : \A x \in 1..Len(r[k]) :
       /\ From(m, k, x) \in 1..Len(q[k]) /\ SameFrame(q[k][From(m, k, x)], r[k][x])
       /\ r[k][x].pts = q[k][From(m, k, x)].pts + IF up /\ k = 2 /\ x = 1 THEN 1 ELSE 0

LEMMA DequeuedIs ==
    ASSUME NEW n \in Nat, NEW q \in Queues(1..n), NEW m, NEW up, Filled(q, n), MayMove(n, m, up)
    PROVE  Head(Moved(q, up)[m]) = q[m][1] /\ TakenFrom(q, Dequeued(q, m, up), n, m, up)
<1>0. m \in 1..n /\ up \in BOOLEAN /\ (up => 2 \in 1..n /\ m = 1) /\ \A k \in 1..n : q[k] # << >>
  BY DEF MayMove, Filled
<1> DEFINE r == Moved(q, up)
           s == Dequeued(q, m, up)
<1>1. SameBut(1..n, q, r) /\ (\A k \in 1..n : k # 2 \/ ~up => r[k] = q[k]) /\ (up => r[2][1].pts = q[2][1].pts + 1)
  <2>1. CASE up
    <3>1. 2 \in 1..n /\ q[2] # << >> /\ r = Raise(q, 2)
      BY <2>1, <1>0 DEF Moved
    <3> HIDE DEF r
    <3> QED BY <1>0, <2>1, <3>1, Moving
  <2>2. CASE ~up
    <3>1. r = q
      BY <2>2 DEF Moved
    <3> HIDE DEF r
    <3> QED BY <2>2, <3>1, SameButReflexive
  <2> QED BY <1>0, <2>1, <2>2
<1>2. s = [r EXCEPT ![m] = Tail(r[m])]
  BY DEF Dequeued
<1> HIDE DEF r, s
<1>3. r \in Queues(1..n) /\ \A k \in 1..n : Len(r[k]) = Len(q[k]) /\ Len(r[k]) \in Nat /\ Len(r[k]) # 0
  <2>1. r \in Queues(1..n) /\ \A k \in 1..n : Len(r[k]) = Len(q[k])
    BY <1>1 DEF SameBut
  <2>2. \A k \in 1..n : Len(q[k]) \in Nat /\ Len(q[k]) # 0
    BY <1>0, QueueIs
  <2> QED BY <2>1, <2>2
<1>4. r[m] \in Seq(FrameSet) /\ r[m] # << >> /\ Head(r[m]) = r[m][1]
  BY <1>0, <1>3, QueueIs
<1>5. r[m] = q[m]
  BY <1>0, <1>1
<1>6. ASSUME NEW k \in 1..n, NEW y \in 1..Len(q[k])
      PROVE  /\ SameFrame(q[k][y], r[k][y])
             /\ r[k][y].pts = q[k][y].pts + IF up /\ k = 2 /\ y = 1 THEN 1 ELSE 0
  <2>1. SameFrame(q[k][y], r[k][y]) /\ (y # 1 => r[k][y] = q[k][y])
    BY <1>1 DEF SameBut
  <2>2. q[k][y].pts \in Int
    BY <1>0, QueueIs DEF FrameSet
  <2>3. CASE up /\ k = 2 /\ y = 1
    BY <1>0, <1>1, <2>1, <2>3
  <2>4. CASE ~(up /\ k = 2 /\ y = 1)
    <3>1. r[k][y] = q[k][y]
      BY <1>0, <1>1, <2>1, <2>4
    <3> QED BY <2>1, <2>2, <2>4, <3>1
  <2> QED BY <2>3, <2>4
<1>7. ASSUME NEW k \in 1..n, NEW x \in 1..Len(s[k])
      PROVE  From(m, k, x) \in 1..Len(q[k]) /\ s[k][x] = r[k][From(m, k, x)]
  <2>1. CASE k = m
    <3>1. s[k] = Tail(r[m])
      BY <1>0, <1>2, <1>3, <2>1 DEF Queues
    <3>2. Len(Tail(r[m])) = Len(r[m]) - 1 /\ \A i \in 1..Len(Tail(r[m])) : Tail(r[m])[i] = r[m][i + 1]
      BY <1>4, HeadTailProperties
    <3>3. x + 1 \in 1..Len(q[k]) /\ s[k][x] = r[m][x + 1]
      BY <1>0, <1>3, <2>1, <3>1, <3>2
    <3> QED BY <2>1, <3>3 DEF From
  <2>2. CASE k # m
    <3>1. s[k] = r[k]
      BY <1>0, <1>2, <1>3, <2>2 DEF Queues
    <3> QED BY <1>3, <2>2, <3>1 DEF From
  <2> QED BY <2>1, <2>2
<1>8. ASSUME NEW k \in 1..n, NEW x \in 1..Len(s[k])
      PROVE  /\ From(m, k, x) \in 1..Len(q[k]) /\ SameFrame(q[k][From(m, k, x)], s[k][x])
             /\ s[k][x].pts = q[k][From(m, k, x)].pts + IF up /\ k = 2 /\ x = 1 THEN 1 ELSE 0
  <2> DEFINE y == From(m, k, x)
             raise(z) == IF up /\ k = 2 /\ z = 1 THEN 1 ELSE 0
  <2>1. y \in 1..Len(q[k]) /\ s[k][x] = r[k][y]
    BY <1>7
  <2>2. up /\ k = 2 => y = x
    BY <1>0 DEF From
  <2> HIDE DEF y
  <2>3. SameFrame(q[k][y], r[k][y]) /\ r[k][y].pts = q[k][y].pts + raise(y)
    BY <1>6, <2>1
  <2>4. raise(y) = raise(x)
    BY <2>2
  <2> HIDE DEF raise
  <2>5. y \in 1..Len(q[k]) /\ SameFrame(q[k][y], s[k][x]) /\ s[k][x].pts = q[k][y].pts + raise(x)
    BY <2>1, <2>3, <2>4
  <2> QED BY <2>5 DEF y, raise
<1>9. Head(r[m]) = q[m][1]
  BY <1>4, <1>5
<1> QED BY <1>8, <1>9 DEF r, s, TakenFrom

\* What the scan picks of one or two queues in order.
Picks(m, up) ==
    /\ m \in 1..NTracks /\ up \in BOOLEAN /\ (up => 2 \in 1..NTracks /\ m = 1)
    /\ getEarliestTrack(foc, mode.types, mode.order).min = m
    /\ getEarliestTrack(foc, mode.types, mode.order).q = Moved(foc.q, up)
    /\ \/ m = 1 /\ ~up /\ (NTracks = 2 => foc.q[1][1].dts <= foc.q[2][1].dts)
       \/ m = 1 /\ up /\ NTracks = 2 /\ foc.q[1][1].dts = foc.q[2][1].dts /\ foc.q[2][1].pts = foc.q[2][1].dts
       \/ m = 2 /\ ~up /\ foc.q[2][1].dts < foc.q[1][1].dts

LEMMA Picking ==
    ASSUME ReleaseInv, MergeTypes, InOrder, NTracks <= 2, mode.order # "av", AllWithFrame(foc)
    PROVE  \E m, up : Picks(m, up)
<1> DEFINE e == getEarliestTrack(foc, mode.types, mode.order)
           a == foc.q[1][1]
           b == foc.q[2][1]
<1>1. NTracks \in {1, 2} /\ Len(mode.types) = NTracks /\ HasQueues(foc, NTracks) /\ NTracks \in Nat \ {0}
  <2>1. NTracks \in Nat \ {0}
    BY TracksAre DEF ReleaseInv
  <2>2. NTracks \in {1, 2}
    BY <2>1
  <2>3. HasQueues(foc, NTracks)
    BY DEF ReleaseInv
  <2>4. Len(mode.types) = NTracks
    BY DEF NTracks
  <2> QED BY <2>1, <2>2, <2>3, <2>4
<1>2. \A k \in 1..NTracks : 1 \in Frames(k)
  <2>1. \A k \in 1..NTracks : Len(foc.q[k]) \in Nat \ {0}
    BY <1>1, StartsFirst
  <2> QED BY <2>1 DEF Frames
<1>3. CASE NTracks = 1
  <2>1. e.min = 1 /\ e.q = foc.q
    BY <1>1, <1>3, EarliestOfOne
  <2> HIDE DEF e
  <2>2. Picks(1, FALSE)
    BY <1>3, <2>1 DEF Picks, Moved, e
  <2> QED BY <2>2
<1>4. CASE NTracks = 2
  <2>1. 1 \in Frames(1) /\ 1 \in Frames(2) /\ 1 \in 1..NTracks /\ 2 \in 1..NTracks
    BY <1>2, <1>4
  <2>2. /\ a.dts \in Nat /\ a.pts = a.dts /\ b.dts \in Nat /\ b.pts \in {b.dts, b.dts + 1}
        /\ FrameInOrder(2, 1)
    BY <2>1, QueuedIs
  <2>3. ~b.key /\ (b.pts # b.dts => b.dts + 2 <= a.dts)
    BY <2>1, <2>2 DEF FrameInOrder, FirstTrackAfter
  <2>4. /\ e.min = IF Stamp(foc, mode.order, 1) <= Stamp(foc, mode.order, 2) THEN 1 ELSE 2
        /\ e.q = IF Tie(foc, mode.types, mode.order) THEN Raise(foc.q, 2) ELSE foc.q
    BY <1>1, <1>4, <2>3, EarliestOfTwo
  <2>5. Stamp(foc, mode.order, 1) = a.dts /\ Stamp(foc, mode.order, 2) \in {b.dts, b.pts}
    BY <2>2 DEF Stamp, MkvTimestamp
  <2> DEFINE i == Stamp(foc, mode.order, 1)
             j == Stamp(foc, mode.order, 2)
             tie == Tie(foc, mode.types, mode.order)
  <2>6. tie => i = j
    BY DEF Tie
  <2> HIDE DEF e, i, j, tie, a, b
  <2>7. CASE i <= j /\ ~tie
    <3>1. a.dts <= b.dts
      BY <2>2, <2>3, <2>5, <2>7 DEF i, j
    <3>2. e.min = 1 /\ e.q = foc.q
      BY <2>4, <2>7 DEF i, j, tie
    <3>3. Picks(1, FALSE)
      BY <1>4, <2>1, <3>1, <3>2 DEF Picks, Moved, e, a, b
    <3> QED BY <3>3
  <2>8. CASE tie
    <3>0. i = j /\ i = a.dts /\ j \in {b.dts, b.pts}
      BY <2>5, <2>6, <2>8 DEF i, j
    <3>1. a.dts = b.dts /\ b.pts = b.dts
      BY <2>2, <2>3, <3>0
    <3>2. i <= j
      BY <2>2, <3>0
    <3>3. e.min = 1 /\ e.q = Raise(foc.q, 2)
      BY <2>4, <2>8, <3>2 DEF i, j, tie
    <3>4. Picks(1, TRUE)
      BY <1>4, <2>1, <3>1, <3>3 DEF Picks, Moved, e, a, b
    <3> QED BY <3>4
  <2>9. CASE ~(i <= j)
    <3>0. i = a.dts /\ j \in {b.dts, b.pts}
      BY <2>5 DEF i, j
    <3>1. b.dts < a.dts /\ i # j
      BY <2>2, <2>3, <2>9, <3>0
    <3>2. e.min = 2 /\ e.q = foc.q
      BY <2>4, <2>6, <2>9, <3>1 DEF i, j, tie
    <3>3. Picks(2, FALSE)
      BY <1>4, <2>1, <3>1, <3>2 DEF Picks, Moved, e, a, b
    <3> QED BY <3>3
  <2> QED BY <2>7, <2>8, <2>9
<1> QED BY <1>1, <1>3, <1>4

LEMMA Leaving ==
    ASSUME BlockInv, ReleaseInv, MergeInv, Merges, NEW t \in Threads, PutEarliestFrame(t)
    PROVE  /\ t = "producer" /\ ~foc'.eofrPut
           /\ \E m, up : Leaves(m, call'[t].f, up)
<1> DEFINE d == dequeueEarliest(foc, mode.types, mode.order)
           e == getEarliestTrack(foc, mode.types, mode.order)
           f == d.frame
<1>1. /\ call[t].pc = "next" /\ LoopGoesOn(t) /\ mode' = mode /\ app' = app
      /\ foc' = d.c /\ call' = [call EXCEPT ![t].f = f, ![t].pc = "check"]
  BY DEF PutEarliestFrame, At
<1>2. t = "producer" /\ call[t].op = "put"
  BY <1>1, PutterIs DEF BlockInv, Putting
<1>3. AllWithFrame(foc)
  BY <1>1, <1>2 DEF LoopGoesOn
<1>4. NTracks \in {1, 2} /\ NTracks \in Nat \ {0} /\ HasQueues(foc, NTracks) /\ foc.q \in Queues(1..NTracks)
  BY TracksAre DEF ReleaseInv, Merges, HasQueues
<1>5. /\ \A k \in 1..NTracks : foc.q[k] # << >> /\ 1 \in Frames(k)
  BY <1>3, <1>4, StartsFirst DEF Frames
<1>6. PICK m, up : Picks(m, up)
  BY <1>3, Picking DEF MergeInv, Merges
<1>7. e.min = m /\ e.q = Moved(foc.q, up) /\ m \in 1..NTracks /\ up \in BOOLEAN /\ (up => 2 \in 1..NTracks /\ m = 1)
  BY <1>6 DEF Picks
<1>8. /\ f = [Head(e.q[e.min]) EXCEPT !.key = @ \/ foc.eofrPut]
      /\ d.c = [foc EXCEPT !.q = [e.q EXCEPT ![e.min] = Tail(@)], !.eofrPut = FALSE]
  BY DEF dequeueEarliest
<1> HIDE DEF d, e
<1>9. call'[t].f = f
  <2> HIDE DEF f
  <2> QED BY <1>1 DEF BlockInv, CallInv, IsCall
<1> HIDE DEF f
<1>10. foc'.q = Dequeued(foc.q, m, up) /\ foc'.eofrPut = FALSE
  <2>1. DOMAIN foc = {"q", "eofrPut", "keyFrameDetected"}
    BY DEF ReleaseInv
  <2>2. foc'.q = [e.q EXCEPT ![e.min] = Tail(e.q[e.min])] /\ foc'.eofrPut = FALSE
    BY <1>1, <1>8, <2>1
  <2> QED BY <1>7, <2>2 DEF Dequeued
<1>11. Head(Moved(foc.q, up)[m]) = foc.q[m][1] /\ TakenFrom(foc.q, Dequeued(foc.q, m, up), NTracks, m, up)
  <2>1. NTracks \in Nat /\ Filled(foc.q, NTracks)
    BY <1>4, <1>5 DEF Filled
  <2>2. MayMove(NTracks, m, up)
    BY <1>7 DEF MayMove
  <2> QED BY <1>4, <2>1, <2>2, DequeuedIs
<1>12. f.dts = foc.q[m][1].dts /\ f.pts = foc.q[m][1].pts /\ f.eofr = foc.q[m][1].eofr
  <2>1. foc.q[m][1] \in FrameSet
    BY <1>4, <1>5, <1>7, QueueIs DEF Frames
  <2>2. f = [foc.q[m][1] EXCEPT !.key = @ \/ foc.eofrPut]
    BY <1>7, <1>8, <1>11
  <2> QED BY <2>1, <2>2 DEF FrameSet
<1>13. \A k \in 1..NTracks : \A x \in 1..Len(foc'.q[k]) :
          /\ From(m, k, x) \in Frames(k) /\ SameFrame(foc.q[k][From(m, k, x)], foc'.q[k][x])
          /\ foc'.q[k][x].pts = foc.q[k][From(m, k, x)].pts + IF up /\ k = 2 /\ x = 1 THEN 1 ELSE 0
  <2>1. TakenFrom(foc.q, foc'.q, NTracks, m, up)
    BY <1>10, <1>11
  <2> QED BY <2>1 DEF TakenFrom, Frames
<1>14. Leaves(m, f, up)
  BY <1>1, <1>4, <1>5, <1>6, <1>7, <1>12, <1>13 DEF Leaves, Picks
<1>15. \E mm, uu : Leaves(mm, call'[t].f, uu)
  BY <1>9, <1>14
<1> QED BY <1>2, <1>10, <1>15

LEMMA PutEarliestMerges ==
    ASSUME BlockInv, ReleaseInv, MergeInv, NEW t \in Threads, PutEarliestFrame(t)
    PROVE  MergeInv'
<1>1. /\ mode' = mode /\ app' = app /\ hist' = hist /\ gen' = gen /\ view' = view
      /\ call[t].pc \in Putting
  BY DEF PutEarliestFrame, At, Putting
<1>2. MergeTypes'
  BY <1>1 DEF MergeInv, MergeTypes, NTracks
<1> SUFFICES ASSUME Merges, MergeInv
             PROVE  /\ ~hist'.refused /\ OnlyProducer' /\ ~foc'.eofrPut
                    /\ InOrder' /\ HeadsBelow' /\ Carries(call["producer"])'
  BY <1>1, <1>2 DEF MergeInv, Merges, NTracks
<1> DEFINE f == call'[t].f
<1>3. t = "producer" /\ ~foc'.eofrPut /\ \E m, up : Leaves(m, f, up)
  BY Leaving
<1> HIDE DEF f
<1>4. PICK m, up : Leaves(m, f, up)
  BY <1>3
<1>5. MergeTypes /\ InOrder /\ Below(gen.dts, gen.pts) /\ Below(view.dts, view.dts)
  BY DEF MergeInv, HeadsBelow
<1>6. /\ StaysBelow(gen.dts, gen.pts) /\ gen.dts <= f.dts /\ gen.pts <= f.pts
      /\ StaysBelow(view.dts, view.dts) /\ view.dts <= f.dts
  BY <1>4, <1>5, LeavingBelow
<1>7. ~f.eofr /\ StaysBelow(f.dts, f.pts)
  BY <1>4, <1>5, LeavingFrame
<1>8. InOrder'
  BY <1>4, <1>5, LeavingInOrder
<1>9. HeadsBelow'
  BY <1>1, <1>6 DEF HeadsBelow, Below, StaysBelow, Frames
<1>10. Other(t) /\ call'[t].pc = "check" /\ call'[t].op = call[t].op
  BY PutEarliestMoves DEF Moves, BlockInv
<1>11. call[t].op = "put"
  BY <1>1, PutterIs DEF BlockInv
<1>12. OnlyProducer'
  BY <1>3, <1>10, <1>11, StaysProducer
<1>13. Carries(call["producer"])'
  <2> DEFINE d == call'["producer"]
  <2>1. d.pc = "check" /\ d.f = f
    BY <1>3, <1>10 DEF f
  <2>2. /\ ~d.f.eofr /\ StaysBelow(d.f.dts, d.f.pts)
        /\ view'.dts <= d.f.dts /\ gen'.dts <= d.f.dts /\ gen'.pts <= d.f.pts
    BY <1>1, <1>6, <1>7, <2>1
  <2> QED BY <2>1, <2>2 DEF Carries, Below, StaysBelow, Frames, OnTheWay
<1> QED BY <1>1, <1>3, <1>8, <1>9, <1>12, <1>13 DEF MergeInv

LEMMA MergeInit == Init => MergeInv
<1> SUFFICES ASSUME Init PROVE MergeInv
  OBVIOUS
<1>1. ReleaseInv /\ mode \in Modes
  BY ReleaseInit DEF Init
<1>2. NTracks \in Nat \ {0} /\ Tracks = 1..NTracks
  BY <1>1, TracksAre
<1>3. /\ foc.q = [k \in 1..NTracks |-> << >>] /\ foc.eofrPut = FALSE
  BY <1>2 DEF Init, createFrameOrderCoordinator
<1>4. DOMAIN app = {"sent", "puts", "ids", "once", "fails", "events"} /\ app.sent = [k \in 1..NTracks |-> 0]
  BY <1>2 DEF Init
<1>5. hist.flushed = FALSE /\ hist.refused = FALSE /\ view.dts = 0 /\ gen.dts = 0 /\ gen.pts = 0
  BY DEF Init, NewGenerator
<1>6. MergeTypes
  <2>1. app.sent \in [1..NTracks -> Int]
    BY <1>4
  <2>2. hist.flushed \in BOOLEAN /\ hist.refused \in BOOLEAN
    BY <1>5
  <2> QED BY <1>4, <2>1, <2>2 DEF MergeTypes
<1>7. \A k \in 1..NTracks : app.sent[k] = 0 /\ Frames(k) = {}
  <2>1. \A k \in 1..NTracks : Len(foc.q[k]) = 0
    BY <1>3
  <2> QED BY <1>4, <2>1 DEF Frames
<1>8. InOrder
  BY <1>7 DEF InOrder, QueueInOrder
<1>9. Below(0, 0)
  BY <1>7 DEF Below
<1>10. HeadsBelow
  BY <1>5, <1>9 DEF HeadsBelow
<1>11. \A t \in Threads : call[t] = Idle
  BY DEF Init
<1>12. OnlyProducer /\ Carries(call["producer"])
  BY <1>11, IdleIs, Distinct DEF OnlyProducer, Carries, OnTheWay
<1> QED BY <1>3, <1>5, <1>6, <1>8, <1>10, <1>12 DEF MergeInv

LEMMA MergeNext == BlockInv /\ ReleaseInv /\ MergeInv /\ [Next]_vars => MergeInv'
<1> SUFFICES ASSUME BlockInv, ReleaseInv, MergeInv, [Next]_vars PROVE MergeInv'
  OBVIOUS
<1>1. CASE \E k \in Tracks, ts \in 1..mode.maxTs, key \in BOOLEAN : PutFrame(k, ts, key)
  <2> PICK k \in Tracks, ts \in 1..mode.maxTs, key \in BOOLEAN : PutFrame(k, ts, key)
    BY <1>1
  <2>1. ts \in Int
    OBVIOUS
  <2> QED BY <2>1, PutFrameMerges
<1>2. CASE PutEofr \/ TimerEofr \/ BeginStop
  BY <1>2, FlushesMerge
<1>3. CASE \/ Stop \/ AppendMetadata
           \/ (\E what \in {"oneShot", "persistent", "note", "both"} : BeginMetadata(what))
           \/ (\E skip \in BOOLEAN : AskForReset(skip)) \/ EmptyView \/ UNCHANGED vars
  BY <1>3, OthersMerge
<1>4. ASSUME NEW t \in Threads,
             \/ PutEarliestFrame(t) \/ LoopEnds(t) \/ CheckStopped(t) \/ Enter(t) \/ NoSpace(t)
             \/ WakeUp(t) \/ PackageEofr(t) \/ PackageFrame(t) \/ LockAgain(t) \/ AddItem(t)
      PROVE  MergeInv'
  <2>1. CASE PutEarliestFrame(t)
    BY <2>1, PutEarliestMerges
  <2>2. CASE LoopEnds(t)
    BY <2>2, LoopEndsMerge
  <2>3. CASE CheckStopped(t) \/ NoSpace(t) \/ WakeUp(t) \/ LockAgain(t) \/ PackageEofr(t)
    BY <2>3, StagesMerge
  <2>4. CASE Enter(t)
    BY <2>4, EnterMerges
  <2>5. CASE PackageFrame(t)
    BY <2>5, PackageFrameMerges
  <2>6. CASE AddItem(t)
    BY <2>6, AddItemMerges
  <2> QED BY <1>4, <2>1, <2>2, <2>3, <2>4, <2>5, <2>6
<1> QED BY <1>1, <1>2, <1>3, <1>4 DEF Next

\* frameOrderCoordinatorPutFrame and what follows it: with one or two tracks, the key
\* frames in the first, frames at least two time codes apart and no flush before its
\* time, the generator and the view refuse no frame for its time stamp - whatever the
\* limits, the spans between frames and the interleaving of the threads.
THEOREM MergeOrdered == Spec => []MergedInOrder
<1>1. Init => BlockInv /\ ReleaseInv /\ MergeInv
  BY BlockInit, ReleaseInit, MergeInit
<1>2. BlockInv /\ ReleaseInv /\ MergeInv /\ [Next]_vars => (BlockInv /\ ReleaseInv /\ MergeInv)'
  BY BlockNext, ReleaseNext, MergeNext
<1>3. ReleaseInv /\ MergeInv => MergedInOrder
  <2> SUFFICES ASSUME ReleaseInv, MergeInv, hist.refused,
                      ~(\/ mode.order \in {"pass", "av"} \/ hist.flushed \/ (\E k \in mode.keys : k # 1)
                        \/ Len(mode.types) > 2 \/ mode.gap < 2)
               PROVE  FALSE
    BY DEF MergedInOrder
  <2>1. NTracks \in Nat /\ mode.gap \in Nat
    BY TracksAre, IngestAssumption DEF ReleaseInv
  <2>2. Len(mode.types) = NTracks
    BY DEF NTracks
  <2>3. Merges
    BY <2>1, <2>2 DEF Merges
  <2> QED BY <2>3 DEF MergeInv
<1> QED BY <1>1, <1>2, <1>3, PTL DEF Spec
=============================================================================
