---------------------------- MODULE LifecycleProofs ----------------------------
(***************************************************************************)
(* Nothing of a freed stream or a freed client is in use unless a drain has *)
(* timed out (FreedUnused), for every set of threads and configurations.    *)
(*                                                                         *)
(* The argument.  A stream is shut down under the list lock of the client,  *)
(* so that one free at a time goes from the flag over the broadcast to the   *)
(* drain (Shutdowns).  When none is on its way and the flag is set, the      *)
(* semaphore of the stream is locked and was seen without holders: no call   *)
(* enters any more, and none is inside (Drained).  A sleeper of a blocking   *)
(* call holds a permit of the stream, and a thread that holds a lock one of   *)
(* the client (Entered); the timer, which holds none, is waited for by the     *)
(* shutdown of its queue.                                                    *)
(***************************************************************************)
EXTENDS Lifecycle, SequenceTheorems, TLAPS

Places == {"run", "sleep", "asleep", "woken"}
ThreadTypes ==
    /\ TypeOK
    /\ mode \in Modes /\ timedOut \in BOOLEAN
    /\ th \in [Everyone -> [op : Operations \cup {"none"}, pc : Nat, at : Places]]
    /\ \A t \in Everyone : th[t].op # "none" => th[t].pc > 0

\* The timer runs its callback and no other thread does; one thread frees the client.
Roles ==
    /\ th[Timer].op \in {"callback", "none"}
    /\ \A t \in Threads : th[t].op # "callback"
    /\ \A t, u \in Threads : Calls(t, "freeAll") /\ Calls(u, "freeAll") => t = u

\* What a thread has taken on its way: the permit of the client first, that of the
\* stream before a blocking call works and sleeps, and no lock before the permit.
Entered ==
    /\ \A t \in Threads : th[t].op \notin {"none", "freeAll"} /\ th[t].pc > 1 => t \in sem["csem"].held
    /\ \A t \in Threads : th[t].op \in Blocking /\ th[t].pc > 2 => t \in sem["ssem"].held
    /\ \A t \in Everyone : th[t].at # "run" => th[t].op \in Blocking /\ th[t].pc > 3
    /\ \A t \in Threads, l \in Locks :
        lock[l] = t => \/ Calls(t, "freeAll")
                       \/ th[t].op # "none" /\ th[t].pc > 1
    /\ \A t \in Threads, l \in Locks :
        lock[l] = t /\ Calls(t, "create") => th[t].pc > 3 /\ l = "stream"
    /\ th[Timer].op = "none" => \A l \in Locks : lock[l] # Timer

Shutting(t) == Stages(t, 2) \/ Stages(t, 3)
\* A free of the stream goes on under the list lock.
Shutdowns ==
    /\ \A t \in Threads : Calls(t, "free") /\ th[t].pc > 2 => lock["list"] = t
    /\ \A t \in Threads : Calls(t, "freeAll") /\ th[t].pc \in {2, 3, 4, 8, 9} => lock["list"] = t
    /\ \A t \in Threads : Calls(t, "free") /\ th[t].pc > 3 => st.shutdown
    /\ \A t \in Threads : Calls(t, "freeAll") /\ th[t].pc > 2 => st.shutdown
    /\ \A t \in Threads : Stages(t, 3) => sem["ssem"].locked

Clear(s) == sem[s].locked /\ sem[s].held = {}
\* What a shutdown leaves behind when no time-out strikes.
Drained ==
    /\ ~st.alive => st.shutdown /\ \A t \in Threads : ~Shutting(t)
    /\ \A t \in Threads : Calls(t, "freeAll") /\ th[t].pc > 8 => ~st.alive
    /\ ~timedOut =>
        /\ st.shutdown /\ (\A t \in Threads : ~Shutting(t)) => Clear("ssem")
        /\ ~st.alive => lock["coord"] = Nobody /\ lock["stream"] = Nobody
        /\ \A t \in Threads : Calls(t, "freeAll") /\ th[t].pc > 5 => Clear("csem")
        /\ \A t \in Threads : Calls(t, "freeAll") /\ th[t].pc > 6 => th[Timer].op = "none"
\* What a client leaves behind that has been freed.
ClientGone ==
    ~cl.alive =>
        /\ ~st.alive /\ \A t \in Threads : th[t].op # "freeAll"
        /\ ~timedOut => /\ Clear("csem") /\ th[Timer].op = "none"
                        /\ \A l \in Locks : lock[l] = Nobody

LifecycleInv == ThreadTypes /\ Roles /\ Entered /\ Shutdowns /\ Drained /\ ClientGone


-----------------------------------------------------------------------------
(* The resources of the calls *)

Resource == Sems \cup Locks
LEMMA InsideIsSeq ==
    ASSUME NEW c \in BOOLEAN
    PROVE  Inside(c) \in Seq(Resource) /\ Len(Inside(c)) \in {1, 2}
<1>1. CASE c
    <2>1. Inside(c) = <<"coord", "stream">>  BY <1>1 DEF Inside
    <2> QED  BY <2>1 DEF Resource, Locks
<1>2. CASE ~c
    <2>1. Inside(c) = <<"stream">>  BY <1>2 DEF Inside
    <2> QED  BY <2>1 DEF Resource, Locks
<1> QED  BY <1>1, <1>2

LEMMA Prefixed ==
    ASSUME NEW c \in BOOLEAN, NEW s \in Seq(Resource)
    PROVE  /\ Len(s \o Inside(c)) \in Nat
           /\ Len(s \o Inside(c)) >= Len(s) + 1
           /\ \A i \in 1..Len(s) : (s \o Inside(c))[i] = s[i]
<1>1. Inside(c) \in Seq(Resource) /\ Len(Inside(c)) \in {1, 2}  BY InsideIsSeq
<1>2. /\ Len(s \o Inside(c)) = Len(s) + Len(Inside(c))
      /\ \A i \in 1 .. Len(s) + Len(Inside(c)) :
            (s \o Inside(c))[i] = IF i <= Len(s) THEN s[i] ELSE Inside(c)[i - Len(s)]
    BY <1>1, ConcatProperties
<1>3. Len(s) \in Nat  BY LenProperties
<1>4. Len(s \o Inside(c)) \in Nat /\ Len(s \o Inside(c)) >= Len(s) + 1
    <2>1. Len(s \o Inside(c)) = Len(s) + Len(Inside(c))  BY <1>2
    <2>2. Len(Inside(c)) = 1 \/ Len(Inside(c)) = 2  BY <1>1
    <2> HIDE DEF Inside
    <2> QED  BY <2>1, <2>2, <1>3
<1>5. ASSUME NEW i \in 1..Len(s)  PROVE (s \o Inside(c))[i] = s[i]
    <2>1. i \in 1 .. Len(s) + Len(Inside(c)) /\ i <= Len(s)  BY <1>1, <1>3
    <2> QED  BY <2>1, <1>2
<1> QED  BY <1>4, <1>5

\* Every call of the application and of the network layer asks for the client's permit
\* first, and a blocking one for that of the stream next.
LEMMA Resources ==
    ASSUME NEW c \in BOOLEAN, NEW o \in Operations, NEW p, p = Program[c][o]
    PROVE  /\ Len(p) \in Nat
           /\ o \notin {"callback", "freeAll"} => p[1] = "csem"
           /\ o \in Blocking => Len(p) > 2 /\ p[2] = "ssem"
           /\ o = "create" => Len(p) = 3 /\ p[3] = "stream"
           /\ o = "free" => Len(p) = 2 /\ p[2] = "list"
           /\ o = "freeAll" => Len(p) = 0
<1>1. CASE o = "put"
    <2>1. p = <<"csem", "ssem", "putFrame">> \o Inside(c)  BY <1>1 DEF Program, PutCall
    <2>2. <<"csem", "ssem", "putFrame">> \in Seq(Resource)  BY DEF Resource, Sems, Locks
    <2> QED  BY <1>1, <2>1, <2>2, Prefixed
<1>2. CASE o = "stop"
    <2>1. p = <<"csem", "ssem">> \o Inside(c)  BY <1>2 DEF Program, StopCall
    <2>2. <<"csem", "ssem">> \in Seq(Resource)  BY DEF Resource, Sems, Locks
    <2> QED  BY <1>2, <2>1, <2>2, Prefixed DEF Blocking
<1>3. CASE o = "stopAll"
    <2>1. p = <<"csem", "list", "ssem">> \o Inside(c)  BY <1>3 DEF Program, StopAllCall
    <2>2. <<"csem", "list", "ssem">> \in Seq(Resource)  BY DEF Resource, Sems, Locks
    <2> QED  BY <1>3, <2>1, <2>2, Prefixed DEF Blocking
<1>4. CASE o = "stopSync"
    <2>1. p = <<"csem", "ssem", "list">> \o Inside(c)  BY <1>4 DEF Program, StopSyncCall
    <2>2. <<"csem", "ssem", "list">> \in Seq(Resource)  BY DEF Resource, Sems, Locks
    <2> QED  BY <1>4, <2>1, <2>2, Prefixed
<1>5. CASE o = "callback"
    <2>1. p = <<"putFrame", "list">> \o Inside(c)  BY <1>5 DEF Program, TimerCall
    <2>2. <<"putFrame", "list">> \in Seq(Resource)  BY DEF Resource, Sems, Locks
    <2> QED  BY <1>5, <2>1, <2>2, Prefixed DEF Blocking
<1>6. CASE o \in {"create", "event", "free", "freeAll"}
    BY <1>6 DEF Program, CreateCall, EventCall, FreeCall, FreeAllCall, Blocking
<1> QED  BY <1>1, <1>2, <1>3, <1>4, <1>5, <1>6 DEF Operations


-----------------------------------------------------------------------------
(* What a step does, seen by the invariant *)

\* The other threads stay where they are; a sleeper may be woken.
Others(t) == \A u \in Everyone \ {t} : /\ th'[u].op = th[u].op /\ th'[u].pc = th[u].pc
                                       /\ th'[u].at = "run" <=> th[u].at = "run"
\* No object is freed and none is being shut down.
Objects == /\ mode' = mode /\ timedOut' = timedOut /\ cl'.alive = cl.alive
           /\ st'.alive = st.alive /\ st'.shutdown = st.shutdown
\* t comes back from its call.
Back(t) ==
    /\ Others(t) /\ th'[t].op = "none" /\ th'[t].at = "run"
    /\ \A l \in Locks : lock'[l] = IF lock[l] = t THEN Nobody ELSE lock[l]
    /\ \A s \in Sems : sem'[s].locked = sem[s].locked /\ sem'[s].held = sem[s].held \ {t}
\* t sleeps, is about to, or has come back to look again.
Waits(t) ==
    /\ Others(t) /\ th'[t].op = th[t].op /\ th'[t].pc = th[t].pc
    /\ th[t].op \in Blocking /\ th[t].pc > 3
    /\ \A l \in Locks \ {"stream"} : lock'[l] = lock[l]
    /\ \/ lock'["stream"] \in {Nobody, lock["stream"]}
       \/ th[t].at # "run" /\ lock'["stream"] = t
    /\ \A s \in Sems : sem'[s].locked = sem[s].locked /\ sem'[s].held = sem[s].held
\* t has failed to create a stream and frees it.
Undoes(t) ==
    /\ Others(t) /\ Calls(t, "create") /\ th'[t].op = "free" /\ th'[t].pc = 1 /\ th'[t].at = "run"
    /\ \A l \in Locks : lock[l] # t /\ lock'[l] = lock[l]
    /\ \A s \in Sems : sem'[s].locked = sem[s].locked
    /\ sem'["csem"].held = sem["csem"].held /\ sem'["ssem"].held = sem["ssem"].held \ {t}
\* t has a permit or a lock more.
Advances(t, r) ==
    /\ Others(t) /\ Taking(t) /\ Needs(t)[th[t].pc] = r
    /\ th'[t].op = th[t].op /\ th'[t].pc = th[t].pc + 1 /\ th'[t].at = th[t].at
    /\ \A l \in Locks : lock'[l] = IF l = r THEN t ELSE lock[l]
    /\ \A s \in Sems : /\ sem'[s].locked = sem[s].locked
                       /\ sem'[s].held = IF s = r THEN sem[s].held \cup {t} ELSE sem[s].held
    /\ r \in Sems => ~sem[r].locked
    /\ r \in Locks => lock[r] \in {Nobody, t} /\ (r \in {"coord", "stream"} => st.alive)

LEMMA NeedsFacts ==
    ASSUME ThreadTypes, NEW t \in Everyone, th[t].op # "none"
    PROVE  /\ th[t].op \in Operations /\ th[t].pc \in Nat /\ th[t].pc > 0
           /\ Len(Needs(t)) \in Nat
           /\ th[t].op \notin {"callback", "freeAll"} => Needs(t)[1] = "csem"
           /\ th[t].op \in Blocking => Len(Needs(t)) > 2 /\ Needs(t)[2] = "ssem"
           /\ Calls(t, "create") => Len(Needs(t)) = 3 /\ Needs(t)[3] = "stream"
           /\ Calls(t, "free") => Len(Needs(t)) = 2 /\ Needs(t)[2] = "list"
           /\ Calls(t, "freeAll") => Len(Needs(t)) = 0
<1>1. mode.coordinated \in BOOLEAN  BY LifecycleAssumption DEF ThreadTypes
<1>2. th[t].op \in Operations /\ th[t].pc \in Nat /\ th[t].pc > 0  BY DEF ThreadTypes
<1>3. Needs(t) = Program[mode.coordinated][th[t].op]  BY DEF Needs
<1> HIDE DEF Needs, Program, Blocking, Operations
<1> QED  BY <1>1, <1>2, <1>3, Resources DEF Calls

\* The stages of a free.
LEMMA StageFacts ==
    ASSUME ThreadTypes, Roles, NEW t \in Everyone, NEW n \in 1..8, Stages(t, n)
    PROVE  /\ t \in Threads
           /\ \/ Calls(t, "free") /\ th[t].pc = n + 2
              \/ Calls(t, "freeAll") /\ th[t].pc = n + 1
<1>1. th[t].pc \in Nat  BY DEF ThreadTypes
<1>2. th[t].op \in {"free", "freeAll"}  BY DEF Stages, Calls
<1>3. t \in Threads  BY <1>2 DEF Roles, Everyone
<1>4. CASE Calls(t, "free")  BY <1>1, <1>3, <1>4 DEF Stages, Stage, Calls
<1>5. CASE Calls(t, "freeAll")  BY <1>1, <1>3, <1>5 DEF Stages, Stage, Calls
<1> QED  BY <1>2, <1>4, <1>5 DEF Calls

LEMMA ShuttingFacts ==
    ASSUME NEW t \in Threads, ThreadTypes
    PROVE  Shutting(t) <=> \/ Calls(t, "free") /\ th[t].pc \in {4, 5}
                           \/ Calls(t, "freeAll") /\ th[t].pc \in {3, 4}
BY DEF Shutting, Stages, Stage, Calls, ThreadTypes, Everyone


\* Nothing of the invariant is disturbed by a thread that comes back ...
LEMMA BackKeeps ==
    ASSUME LifecycleInv, ThreadTypes', NEW t \in Everyone, Back(t), Objects,
           t \in Threads => ~Shutting(t)
    PROVE  LifecycleInv'
<1> USE DEF LifecycleInv
<1>1. ASSUME NEW u \in Threads
      PROVE  /\ Shutting(u)' => Shutting(u) /\ u # t
             /\ Shutting(u) => Shutting(u)'
    BY <1>1, ShuttingFacts DEF Back, Others, Calls, Everyone, Shutting, Stages, Stage
<1>2. Roles'  BY DEF Roles, Back, Others, Calls, Everyone
<1>3. Entered'
    BY LifecycleAssumption DEF Entered, Back, Others, Calls, Everyone, Nobody, Locks, Sems, Blocking
<1>4. Shutdowns'  BY DEF Shutdowns, Back, Others, Objects, Calls, Everyone, Locks, Sems, Stages, Stage
<1>5. Drained'
    BY <1>1 DEF Drained, Back, Others, Objects, Calls, Everyone, Clear, Locks, Sems
<1>6. ClientGone'
    BY LifecycleAssumption DEF ClientGone, Back, Others, Objects, Calls, Everyone, Clear, Locks, Sems, Nobody
<1> QED  BY <1>2, <1>3, <1>4, <1>5, <1>6

\* ... nor by one that sleeps or wakes ...
LEMMA WaitsKeeps ==
    ASSUME LifecycleInv, ThreadTypes', NEW t \in Threads, Waits(t), Objects
    PROVE  LifecycleInv'
<1> USE DEF LifecycleInv
<1>1. ASSUME NEW u \in Threads  PROVE Shutting(u)' <=> Shutting(u)
    BY <1>1 DEF Waits, Others, Calls, Everyone, Shutting, Stages, Stage
<1>2. Roles'  BY DEF Roles, Waits, Others, Calls, Everyone
<1>3. /\ \A u \in Everyone : /\ th'[u].op = th[u].op /\ th'[u].pc = th[u].pc /\ th[u].pc \in Nat
                             /\ u # t => (th'[u].at = "run" <=> th[u].at = "run")
      /\ \A s \in Sems : sem'[s].locked = sem[s].locked /\ sem'[s].held = sem[s].held
      /\ lock'["list"] = lock["list"]
    BY DEF Waits, Others, ThreadTypes, Locks
<1>4. ASSUME NEW u \in Everyone, NEW l \in Locks, lock'[l] = u, u # Nobody
      PROVE  lock[l] = u \/ (l = "stream" /\ u = t)
    BY <1>4 DEF Waits
<1>5. th[t].op \in Blocking /\ th[t].pc > 3 /\ th[t].op # "none" /\ t # Timer
    BY LifecycleAssumption DEF Waits, Blocking
<1>6. Entered'
    <2>1. \A u \in Threads, l \in Locks :
            lock'[l] = u => \/ th'[u].op = "freeAll"
                            \/ th'[u].op # "none" /\ th'[u].pc > 1
        BY <1>3, <1>4, <1>5, LifecycleAssumption DEF Entered, Calls, Nobody, Everyone
    <2>2. \A u \in Threads, l \in Locks :
            lock'[l] = u /\ th'[u].op = "create" => th'[u].pc > 3 /\ l = "stream"
        BY <1>3, <1>4, <1>5, LifecycleAssumption DEF Entered, Calls, Nobody, Everyone
    <2>3. \A u \in Everyone : th'[u].at # "run" => th'[u].op \in Blocking /\ th'[u].pc > 3
        BY <1>3, <1>5 DEF Entered
    <2>4. th'[Timer].op = "none" => \A l \in Locks : lock'[l] # Timer
        BY <1>3, <1>4, <1>5, LifecycleAssumption DEF Entered, Nobody, Everyone
    <2> QED  BY <1>3, <2>1, <2>2, <2>3, <2>4 DEF Entered, Calls, Everyone, Sems
<1>7. Shutdowns'
    <2>1. \A u \in Threads : Stages(u, 3)' <=> Stages(u, 3)  BY <1>3 DEF Everyone, Calls, Stages, Stage
    <2>2. \A u \in Threads : \A o : Calls(u, o)' <=> Calls(u, o)  BY <1>3 DEF Everyone, Calls
    <2> QED  BY <1>3, <2>1, <2>2 DEF Shutdowns, Objects, Everyone, Sems
<1>8. t \in sem["ssem"].held  BY <1>3, <1>5 DEF Entered, Everyone
<1>9. Drained'
    BY <1>1, <1>8 DEF Drained, Waits, Others, Objects, Calls, Everyone, Clear, Locks, Sems
<1>10. ClientGone'
    BY <1>8 DEF ClientGone, Drained, Waits, Others, Objects, Calls, Everyone, Clear, Locks, Sems, Nobody
<1> QED  BY <1>2, <1>6, <1>7, <1>9, <1>10

\* ... nor by a failed creation ...
LEMMA UndoesKeeps ==
    ASSUME LifecycleInv, ThreadTypes', NEW t \in Threads, Undoes(t), Objects
    PROVE  LifecycleInv'
<1> USE DEF LifecycleInv
<1>1. ASSUME NEW u \in Threads  PROVE Shutting(u)' <=> Shutting(u)
    BY <1>1 DEF Undoes, Others, Calls, Everyone, Shutting, Stages, Stage
<1>2. Roles'  BY DEF Roles, Undoes, Others, Calls, Everyone
<1>3. Entered'
    BY LifecycleAssumption DEF Entered, Undoes, Others, Calls, Everyone, Nobody, Locks, Sems, Blocking
<1>4. Shutdowns'  BY DEF Shutdowns, Undoes, Others, Objects, Calls, Everyone, Locks, Sems, Stages, Stage
<1>5. Drained'
    BY <1>1 DEF Drained, Undoes, Others, Objects, Calls, Everyone, Clear, Locks, Sems
<1>6. ClientGone'
    BY DEF ClientGone, Undoes, Others, Objects, Calls, Everyone, Clear, Locks, Sems, Nobody
<1> QED  BY <1>2, <1>3, <1>4, <1>5, <1>6


\* ... nor by one that gets a permit or a lock: a permit of a semaphore that is not
\* locked, a lock only behind the client's permit.
LEMMA AdvancesKeeps ==
    ASSUME LifecycleInv, ThreadTypes', NEW t \in Everyone, NEW r \in Sems \cup Locks,
           Advances(t, r), Objects
    PROVE  LifecycleInv'
<1> USE DEF LifecycleInv
<1>1. /\ th[t].op \in Operations /\ th[t].op # "none" /\ th[t].op # "freeAll"
      /\ th[t].pc \in Nat /\ th[t].pc > 0
      /\ Calls(t, "free") => th[t].pc <= 2
      /\ Calls(t, "create") => th[t].pc <= 3
      /\ t \in Threads /\ th[t].pc = 1 => r = "csem"
      /\ th[t].op \in Blocking /\ th[t].pc = 2 => r = "ssem"
      /\ Calls(t, "create") /\ th[t].pc = 3 => r = "stream"
      /\ Calls(t, "free") /\ th[t].pc = 2 => r = "list"
    <2>1. th[t].op # "none"  BY DEF Advances, Taking
    <2>2. t \in Threads => th[t].op # "callback"  BY DEF Roles
    <2>3. th[t].pc <= Len(Needs(t)) /\ Needs(t)[th[t].pc] = r  BY DEF Advances, Taking
    <2>4. th[t].op # "freeAll"
        <3>1. CASE Calls(t, "freeAll")
            <4>1. Len(Needs(t)) = 0 /\ th[t].pc > 0 /\ th[t].pc \in Nat  BY <2>1, <3>1, NeedsFacts
            <4> QED  BY <4>1, <2>3
        <3> QED  BY <3>1 DEF Calls
    <2> HIDE DEF LifecycleInv
    <2>5. ThreadTypes  BY DEF LifecycleInv
    <2> QED  BY <2>1, <2>2, <2>3, <2>4, <2>5, NeedsFacts DEF Operations
<1>2. /\ \A u \in Everyone : /\ th'[u].op = th[u].op /\ (u # t => th'[u].pc = th[u].pc)
                             /\ th[u].pc \in Nat /\ (th'[u].at = "run" <=> th[u].at = "run")
      /\ th'[t].pc = th[t].pc + 1
      /\ \A l \in Locks : lock'[l] = IF l = r THEN t ELSE lock[l]
      /\ \A s \in Sems : /\ sem'[s].locked = sem[s].locked
                         /\ sem'[s].held = IF s = r THEN sem[s].held \cup {t} ELSE sem[s].held
      /\ r \in Sems => ~sem[r].locked
      /\ r \in Locks => lock[r] \in {Nobody, t} /\ (r \in {"coord", "stream"} => st.alive)
    BY DEF Advances, Others, ThreadTypes
<1>3. ASSUME NEW u \in Threads  PROVE Shutting(u)' <=> Shutting(u)
    BY <1>1, <1>2, <1>3, ShuttingFacts DEF Calls, Everyone, Shutting, Stages, Stage
<1>4. Roles'  BY <1>2 DEF Roles, Calls, Everyone
<1>5. Entered'
    <2>1. \A u \in Threads : th'[u].op \notin {"none", "freeAll"} /\ th'[u].pc > 1 => u \in sem'["csem"].held
        BY <1>1, <1>2 DEF Entered, Everyone, Sems
    <2>2. \A u \in Threads : th'[u].op \in Blocking /\ th'[u].pc > 2 => u \in sem'["ssem"].held
        BY <1>1, <1>2 DEF Entered, Everyone, Sems
    <2>3. \A u \in Everyone : th'[u].at # "run" => th'[u].op \in Blocking /\ th'[u].pc > 3
        BY <1>1, <1>2 DEF Entered
    <2>4. \A u \in Threads, l \in Locks :
            lock'[l] = u => \/ th'[u].op = "freeAll"
                            \/ th'[u].op # "none" /\ th'[u].pc > 1
        BY <1>1, <1>2, LifecycleAssumption DEF Entered, Calls, Nobody, Everyone
    <2>5. \A u \in Threads, l \in Locks :
            lock'[l] = u /\ th'[u].op = "create" => th'[u].pc > 3 /\ l = "stream"
        BY <1>1, <1>2, LifecycleAssumption DEF Entered, Calls, Nobody, Everyone, Blocking, Sems, Locks
    <2>6. th'[Timer].op = "none" => \A l \in Locks : lock'[l] # Timer
        BY <1>1, <1>2, LifecycleAssumption DEF Entered, Nobody, Everyone
    <2> QED  BY <2>1, <2>2, <2>3, <2>4, <2>5, <2>6 DEF Entered, Calls
<1>6. Shutdowns'
    <2>1. \A u \in Threads : lock["list"] = u => lock'["list"] = u
        BY <1>2, LifecycleAssumption DEF Locks, Nobody, Everyone
    <2>2. \A u \in Threads : Calls(u, "free") /\ th'[u].pc > 2 => lock'["list"] = u
        BY <1>1, <1>2, <2>1 DEF Shutdowns, Everyone, Locks, Calls
    <2>3. \A u \in Threads : Stages(u, 3)' => Stages(u, 3)
        BY <1>1, <1>2 DEF Stages, Stage, Calls, Everyone
    <2>4. ASSUME NEW u \in Threads, Calls(u, "free"), th'[u].pc > 3  PROVE st.shutdown
        BY <1>1, <1>2, <2>4 DEF Shutdowns, Everyone, Calls
    <2> QED
        BY <1>1, <1>2, <2>1, <2>2, <2>3, <2>4 DEF Shutdowns, Objects, Calls, Everyone, Sems
<1>7. Drained'
    BY <1>1, <1>2, <1>3 DEF Drained, Objects, Calls, Everyone, Clear, Locks, Sems
<1>8. ClientGone'
    BY <1>1, <1>2 DEF ClientGone, Entered, Objects, Calls, Everyone, Clear, Locks, Sems, Nobody
<1> QED  BY <1>4, <1>5, <1>6, <1>7, <1>8


-----------------------------------------------------------------------------
(* Types *)

Thread == [op : Operations \cup {"none"}, pc : Nat, at : Places]
Semaphores == [Sems -> [locked : BOOLEAN, held : SUBSET Everyone]]
LockTable == [Locks -> Everyone \cup {Nobody}]
ThreadOK(r) == r \in Thread /\ (r.op # "none" => r.pc > 0)

LEMMA TypesAre ==
    ThreadTypes <=> /\ cl \in [alive : BOOLEAN, shutdown : BOOLEAN]
                    /\ st \in [alive : BOOLEAN, shutdown : BOOLEAN, stopped : BOOLEAN,
                               closed : BOOLEAN, ready : BOOLEAN, space : BOOLEAN]
                    /\ sem \in Semaphores /\ lock \in LockTable /\ mode \in Modes /\ timedOut \in BOOLEAN
                    /\ th \in [Everyone -> Thread] /\ \A t \in Everyone : ThreadOK(th[t])
BY DEF ThreadTypes, TypeOK, Semaphores, LockTable, Thread, ThreadOK

LEMMA TablesKeepTypes ==
    ASSUME sem \in Semaphores, lock \in LockTable, NEW t \in Everyone
    PROVE  /\ Returned(t, sem) \in Semaphores /\ NoneHeld(t, lock) \in LockTable
           /\ \A s \in Sems : /\ Returned(t, sem)[s].locked = sem[s].locked
                              /\ Returned(t, sem)[s].held = sem[s].held \ {t}
           /\ \A l \in Locks : NoneHeld(t, lock)[l] = IF lock[l] = t THEN Nobody ELSE lock[l]
BY DEF Semaphores, LockTable, Returned, NoneHeld

LEMMA WokenType ==
    ASSUME th \in [Everyone -> Thread], NEW ops, \A u \in Everyone : ThreadOK(th[u])
    PROVE  /\ Woken(ops) \in [Everyone -> Thread]
           /\ \A u \in Everyone : /\ ThreadOK(Woken(ops)[u]) /\ Woken(ops)[u].op = th[u].op
                                  /\ Woken(ops)[u].pc = th[u].pc
                                  /\ Woken(ops)[u].at = "run" <=> th[u].at = "run"
<1>1. ASSUME NEW u \in Everyone
      PROVE  LET w == IF th[u].at = "asleep" /\ th[u].op \in ops THEN [th[u] EXCEPT !.at = "woken"] ELSE th[u]
             IN  /\ w \in Thread /\ ThreadOK(w) /\ w.op = th[u].op /\ w.pc = th[u].pc
                 /\ (w.at = "run" <=> th[u].at = "run")
    BY <1>1 DEF Thread, ThreadOK, Places
<1> QED  BY <1>1 DEF Woken

\* A thread table in which t is r and the others are as in T.
LEMMA PutThread ==
    ASSUME NEW T \in [Everyone -> Thread], \A u \in Everyone : ThreadOK(T[u]),
           NEW t \in Everyone, NEW r, ThreadOK(r)
    PROVE  /\ [T EXCEPT ![t] = r] \in [Everyone -> Thread]
           /\ \A u \in Everyone : ThreadOK([T EXCEPT ![t] = r][u])
           /\ [T EXCEPT ![t] = r][t] = r
           /\ \A u \in Everyone \ {t} : [T EXCEPT ![t] = r][u] = T[u]
BY DEF ThreadOK

LEMMA RecordsOK ==
    /\ ThreadOK(Idle)
    /\ \A o \in Operations : ThreadOK([op |-> o, pc |-> 1, at |-> "run"])
    /\ \A r : ThreadOK(r) => /\ \A a \in Places : ThreadOK([r EXCEPT !.at = a])
                             /\ \A k \in Nat \ {0} : ThreadOK([r EXCEPT !.pc = k])
<1>1. ThreadOK(Idle)  BY DEF ThreadOK, Thread, Idle, Places
<1>2. \A o \in Operations : ThreadOK([op |-> o, pc |-> 1, at |-> "run"])
    BY DEF ThreadOK, Thread, Places
<1>3. ASSUME NEW r, ThreadOK(r), NEW a \in Places  PROVE ThreadOK([r EXCEPT !.at = a])
    BY <1>3 DEF ThreadOK, Thread
<1>4. ASSUME NEW r, ThreadOK(r), NEW k \in Nat \ {0}  PROVE ThreadOK([r EXCEPT !.pc = k])
    BY <1>4 DEF ThreadOK, Thread
<1> QED  BY <1>1, <1>2, <1>3, <1>4


Streams == [alive : BOOLEAN, shutdown : BOOLEAN, stopped : BOOLEAN,
            closed : BOOLEAN, ready : BOOLEAN, space : BOOLEAN]
\* A table in which every thread is where it is in th; sleepers may be woken.
Alike(T) == /\ T \in [Everyone -> Thread]
            /\ \A u \in Everyone : /\ ThreadOK(T[u]) /\ T[u].op = th[u].op /\ T[u].pc = th[u].pc
                                   /\ T[u].at = "run" <=> th[u].at = "run"
\* The step leaves the flags of the objects alone.
Untouched == /\ mode' = mode /\ timedOut' = timedOut /\ cl' = cl
             /\ st' \in Streams /\ st'.alive = st.alive /\ st'.shutdown = st.shutdown

LEMMA AlikeTables ==
    ASSUME ThreadTypes
    PROVE  Alike(th) /\ \A ops : Alike(Woken(ops))
BY TypesAre, WokenType DEF Alike

LEMMA ReturnIsBack ==
    ASSUME ThreadTypes, NEW t \in Everyone, NEW T, Alike(T), th' = [T EXCEPT ![t] = Idle],
           lock' = NoneHeld(t, lock), sem' = Returned(t, sem), Untouched
    PROVE  ThreadTypes' /\ Back(t) /\ Objects
<1>1. /\ th' \in [Everyone -> Thread] /\ \A u \in Everyone : ThreadOK(th'[u])
      /\ th'[t] = Idle /\ \A u \in Everyone \ {t} : th'[u] = T[u]
    BY PutThread, RecordsOK DEF Alike
<1>2. sem' \in Semaphores /\ lock' \in LockTable
    BY TypesAre, TablesKeepTypes
<1>3. ThreadTypes'
    BY <1>1, <1>2, TypesAre DEF ThreadTypes, Untouched, Streams, TypeOK, Semaphores, LockTable, Thread, ThreadOK
<1>4. Others(t) /\ th'[t].op = "none" /\ th'[t].at = "run"
    BY <1>1 DEF Others, Alike, Idle
<1>5. Back(t)  BY <1>4, TypesAre, TablesKeepTypes DEF Back
<1> QED  BY <1>3, <1>5 DEF Objects, Untouched

LEMMA BackInStep ==
    ASSUME LifecycleInv, NEW t \in Everyone, NEW T, Alike(T), th' = [T EXCEPT ![t] = Idle],
           lock' = NoneHeld(t, lock), sem' = Returned(t, sem), Untouched,
           t \in Threads => ~Shutting(t)
    PROVE  LifecycleInv'
BY ReturnIsBack, BackKeeps DEF LifecycleInv

LEMMA FailedCreation ==
    ASSUME LifecycleInv, NEW t \in Threads, FreeOnError(t), Calls(t, "create"),
           \A l \in Locks : lock[l] # t, Untouched
    PROVE  LifecycleInv'
<1>1. ThreadTypes /\ t \in Everyone /\ Alike(th)  BY AlikeTables DEF LifecycleInv, Everyone
<1>2. /\ th' \in [Everyone -> Thread] /\ \A u \in Everyone : ThreadOK(th'[u])
      /\ th'[t] = [op |-> "free", pc |-> 1, at |-> "run"] /\ \A u \in Everyone \ {t} : th'[u] = th[u]
    BY <1>1, PutThread, RecordsOK DEF Alike, FreeOnError, Operations
<1>3. /\ sem' \in Semaphores /\ \A s \in Sems : sem'[s].locked = sem[s].locked
      /\ sem'["csem"].held = sem["csem"].held /\ sem'["ssem"].held = sem["ssem"].held \ {t}
    BY <1>1, TypesAre DEF FreeOnError, Semaphores, Sems
<1>4. ThreadTypes'
    BY <1>1, <1>2, <1>3, TypesAre
       DEF FreeOnError, ThreadTypes, Untouched, Streams, TypeOK, Semaphores, LockTable, Thread, ThreadOK
<1>5. Undoes(t)  BY <1>1, <1>2, <1>3 DEF Undoes, Others, FreeOnError
<1> QED  BY <1>4, <1>5, UndoesKeeps DEF Objects, Untouched


-----------------------------------------------------------------------------
(* The actions *)

LEMMA BeginKeeps ==
    ASSUME LifecycleInv, NEW t \in Everyone, NEW op \in Operations, Begin(t, op)
    PROVE  LifecycleInv'
<1> USE DEF LifecycleInv
<1>1. /\ th' \in [Everyone -> Thread] /\ \A u \in Everyone : ThreadOK(th'[u])
      /\ th'[t] = [op |-> op, pc |-> 1, at |-> "run"] /\ \A u \in Everyone \ {t} : th'[u] = th[u]
    BY TypesAre, PutThread, RecordsOK DEF Begin
<1>2. ThreadTypes'
    BY <1>1, TypesAre DEF Begin, ThreadTypes, TypeOK, Semaphores, LockTable, Thread, ThreadOK
<1>3. th[t].op = "none" /\ th[t].at = "run" /\ cl.alive  BY DEF Begin, Idle
<1>4. /\ t = Timer => op = "callback" /\ ~\E u \in Threads : Calls(u, "freeAll") /\ th[u].pc > 6
      /\ t # Timer => t \in Threads /\ op # "callback" /\ ~\E u \in Threads : Calls(u, "freeAll")
    BY LifecycleAssumption DEF Begin, Everyone, ThreadTypes
<1>5. /\ UNCHANGED <<mode, cl, st, sem, lock, timedOut>>
    BY DEF Begin
<1>6. \A l \in Locks : lock[l] # t
    BY <1>3, LifecycleAssumption DEF Entered, Calls, Everyone
<1>7. ASSUME NEW u \in Threads  PROVE Shutting(u)' <=> Shutting(u)
    BY <1>1, <1>2, <1>3, <1>7, ShuttingFacts DEF Shutting, Stages, Stage, Calls, Everyone
<1>8. Roles'  BY <1>1, <1>4, LifecycleAssumption DEF Roles, Calls, Everyone, Operations
<1>9. Entered'  BY <1>1, <1>4, <1>5, <1>6, LifecycleAssumption DEF Entered, Calls, Everyone, Operations
<1>10. Shutdowns'
    <2>1. \A u \in Threads : Stages(u, 3)' => Stages(u, 3)
        BY <1>1 DEF Stages, Stage, Calls, Everyone
    <2> QED  BY <1>1, <1>5, <2>1 DEF Shutdowns, Calls, Everyone
<1>11. Drained'
    BY <1>1, <1>4, <1>5, <1>7, LifecycleAssumption DEF Drained, Clear, Calls, Everyone
<1>12. ClientGone'  BY <1>3, <1>5 DEF ClientGone
<1> QED  BY <1>2, <1>8, <1>9, <1>10, <1>11, <1>12

\* A thread that is not in a free is not on its way through a shutdown.
LEMMA NotShutting ==
    ASSUME NEW t \in Threads, th[t].op \notin {"free", "freeAll"} \/ Taking(t), ThreadTypes
    PROVE  ~Shutting(t)
<1>1. CASE th[t].op \notin {"free", "freeAll"}
    BY <1>1 DEF Shutting, Stages, Calls
<1>2. CASE Taking(t)
    <2>1. th[t].op # "none" /\ th[t].pc <= Len(Needs(t)) /\ t \in Everyone  BY <1>2 DEF Taking, Everyone
    <2>2. /\ Calls(t, "free") => Len(Needs(t)) = 2
          /\ Calls(t, "freeAll") => Len(Needs(t)) = 0
          /\ th[t].pc \in Nat
        BY <2>1, NeedsFacts
    <2>3. Calls(t, "free") => th[t].pc <= 2  BY <2>1, <2>2
    <2>4. Calls(t, "freeAll") => th[t].pc <= 0  BY <2>1, <2>2
    <2> QED  BY <2>2, <2>3, <2>4, ShuttingFacts
<1> QED  BY <1>1, <1>2

LEMMA LeaveKeeps ==
    ASSUME LifecycleInv, NEW t \in Everyone, Leave(t), Untouched, t \in Threads => ~Shutting(t)
    PROVE  LifecycleInv'
BY AlikeTables, BackInStep DEF Leave, LifecycleInv

\* The record of t with another resource number, in the place of the old one.
LEMMA MovesOn ==
    ASSUME ThreadTypes, NEW t \in Everyone, NEW T, Alike(T), NEW k \in Nat \ {0},
           th' = [T EXCEPT ![t].pc = k]
    PROVE  /\ th' \in [Everyone -> Thread] /\ \A u \in Everyone : ThreadOK(th'[u])
           /\ Others(t) /\ th'[t].op = th[t].op /\ th'[t].pc = k
           /\ th'[t].at = T[t].at
<1> DEFINE r == [T[t] EXCEPT !.pc = k]
<1>1. ThreadOK(r) /\ T[t] \in Thread  BY RecordsOK DEF Alike, ThreadOK
<1>2. th' = [T EXCEPT ![t] = r]  OBVIOUS
<1>3. r.op = T[t].op /\ r.pc = k /\ r.at = T[t].at  BY <1>1 DEF Thread
<1> HIDE DEF r
<1>4. /\ th' \in [Everyone -> Thread] /\ \A u \in Everyone : ThreadOK(th'[u])
      /\ th'[t] = r /\ \A u \in Everyone \ {t} : th'[u] = T[u]
    <2>1. T \in [Everyone -> Thread] /\ \A u \in Everyone : ThreadOK(T[u])  BY DEF Alike
    <2>2. /\ [T EXCEPT ![t] = r] \in [Everyone -> Thread]
          /\ \A u \in Everyone : ThreadOK([T EXCEPT ![t] = r][u])
          /\ [T EXCEPT ![t] = r][t] = r
          /\ \A u \in Everyone \ {t} : [T EXCEPT ![t] = r][u] = T[u]
        BY <1>1, <2>1, PutThread
    <2> QED  BY <1>2, <2>2
<1> QED  BY <1>3, <1>4 DEF Others, Alike


\* The record of t with another place in a wait.
LEMMA WaitsOn ==
    ASSUME ThreadTypes, NEW t \in Everyone, NEW T, Alike(T), NEW a \in Places,
           th' = [T EXCEPT ![t] = [@ EXCEPT !.at = a]]
    PROVE  /\ th' \in [Everyone -> Thread] /\ \A u \in Everyone : ThreadOK(th'[u])
           /\ Others(t) /\ th'[t].op = th[t].op /\ th'[t].pc = th[t].pc /\ th'[t].at = a
<1> DEFINE r == [T[t] EXCEPT !.at = a]
<1>1. ThreadOK(r) /\ T[t] \in Thread  BY RecordsOK DEF Alike, ThreadOK
<1>2. th' = [T EXCEPT ![t] = r]  OBVIOUS
<1>3. r.op = T[t].op /\ r.pc = T[t].pc /\ r.at = a  BY <1>1 DEF Thread
<1> HIDE DEF r
<1>4. /\ th' \in [Everyone -> Thread] /\ \A u \in Everyone : ThreadOK(th'[u])
      /\ th'[t] = r /\ \A u \in Everyone \ {t} : th'[u] = T[u]
    <2>1. T \in [Everyone -> Thread] /\ \A u \in Everyone : ThreadOK(T[u])  BY DEF Alike
    <2>2. /\ [T EXCEPT ![t] = r] \in [Everyone -> Thread]
          /\ \A u \in Everyone : ThreadOK([T EXCEPT ![t] = r][u])
          /\ [T EXCEPT ![t] = r][t] = r
          /\ \A u \in Everyone \ {t} : [T EXCEPT ![t] = r][u] = T[u]
        BY <1>1, <2>1, PutThread
    <2> QED  BY <1>2, <2>2
<1> QED  BY <1>3, <1>4 DEF Others, Alike

LEMMA UnchangedFlags ==
    ASSUME ThreadTypes, UNCHANGED <<mode, cl, st, timedOut>>
    PROVE  Untouched
BY TypesAre DEF Untouched, Streams

\* An advance, its tables typed.
LEMMA TablesAdvance ==
    ASSUME LifecycleInv, NEW t \in Everyone, NEW r \in Sems \cup Locks, Taking(t), Needs(t)[th[t].pc] = r,
           th' = [th EXCEPT ![t].pc = @ + 1], UNCHANGED <<mode, cl, st, timedOut>>,
           sem' \in Semaphores, lock' \in LockTable,
           \A l \in Locks : lock'[l] = IF l = r THEN t ELSE lock[l],
           \A s \in Sems : /\ sem'[s].locked = sem[s].locked
                           /\ sem'[s].held = IF s = r THEN sem[s].held \cup {t} ELSE sem[s].held,
           r \in Sems => ~sem[r].locked,
           r \in Locks => lock[r] \in {Nobody, t} /\ (r \in {"coord", "stream"} => st.alive)
    PROVE  LifecycleInv'
<1> USE DEF LifecycleInv
<1>1. th[t].pc + 1 \in Nat \ {0} /\ Alike(th) /\ th[t].pc \in Nat
    BY AlikeTables DEF ThreadTypes
<1>2. th' = [th EXCEPT ![t].pc = th[t].pc + 1]  OBVIOUS
<1> HIDE DEF LifecycleInv
<1>3. /\ th' \in [Everyone -> Thread] /\ \A u \in Everyone : ThreadOK(th'[u])
      /\ Others(t) /\ th'[t].op = th[t].op /\ th'[t].pc = th[t].pc + 1 /\ th'[t].at = th[t].at
    BY <1>1, <1>2, MovesOn DEF LifecycleInv
<1>4. ThreadTypes'
    BY <1>3, TypesAre DEF LifecycleInv, ThreadTypes, TypeOK, Semaphores, LockTable, Thread, ThreadOK
<1>5. Advances(t, r) /\ Objects  BY <1>3 DEF Advances, Objects
<1> QED  BY <1>4, <1>5, AdvancesKeeps

LEMMA AcquireKeeps ==
    ASSUME LifecycleInv, NEW t \in Everyone, Acquire(t)
    PROVE  LifecycleInv'
<1> DEFINE s == Needs(t)[th[t].pc]
<1>1. Taking(t) /\ s \in Sems /\ UNCHANGED <<mode, cl, st, timedOut>>  BY DEF Acquire
<1>2. ThreadTypes /\ Untouched  BY <1>1, UnchangedFlags DEF LifecycleInv
<1>3. t \in Threads => ~Shutting(t)  BY <1>1, <1>2, NotShutting
<1>4. CASE sem[s].locked /\ Leave(t)  BY <1>2, <1>3, <1>4, LeaveKeeps
<1>5. CASE sem[s].locked /\ Calls(t, "create") /\ s = "ssem" /\ FreeOnError(t)
    <2>1. t \in Threads  BY <1>5 DEF Calls, LifecycleInv, Roles, Everyone
    <2>2. th[t].op # "none" /\ th[t].pc <= Len(Needs(t)) /\ Needs(t)[th[t].pc] = "ssem"
        BY <1>1, <1>5 DEF Taking
    <2>3. /\ Len(Needs(t)) = 3 /\ Needs(t)[3] = "stream" /\ th[t].pc \in Nat
        BY <1>2, <1>5, <2>2, NeedsFacts
    <2>4. th[t].pc <= 3  BY <2>2, <2>3
    <2>5. \A l \in Locks : lock[l] # t
        BY <1>5, <2>1, <2>3, <2>4 DEF LifecycleInv, Entered
    <2> QED  BY <1>2, <1>5, <2>1, <2>5, FailedCreation
<1>6. CASE /\ ~sem[s].locked /\ sem' = [sem EXCEPT ![s].held = @ \cup {t}]
           /\ th' = [th EXCEPT ![t].pc = @ + 1] /\ UNCHANGED lock
    <2> HIDE DEF s
    <2>1. /\ sem' \in Semaphores
          /\ \A x \in Sems : /\ sem'[x].locked = sem[x].locked
                             /\ sem'[x].held = IF x = s THEN sem[x].held \cup {t} ELSE sem[x].held
        BY <1>1, <1>2, <1>6, TypesAre DEF Semaphores
    <2>2. lock' \in LockTable /\ \A l \in Locks : l # s /\ lock'[l] = lock[l]
        BY <1>1, <1>2, <1>6, TypesAre DEF Sems, Locks
    <2>3. s \notin Locks /\ s \in Sems \cup Locks  BY <1>1 DEF Sems, Locks
    <2>4. Needs(t)[th[t].pc] = s  BY DEF s
    <2> QED  BY <1>1, <1>6, <2>1, <2>2, <2>3, <2>4, TablesAdvance
<1> QED  BY <1>4, <1>5, <1>6 DEF Acquire

LEMMA TakeLockKeeps ==
    ASSUME LifecycleInv, NEW t \in Everyone, TakeLock(t)
    PROVE  LifecycleInv'
<1> DEFINE l == Needs(t)[th[t].pc]
<1>1. /\ Taking(t) /\ l \in Locks /\ UNCHANGED <<mode, cl, st, sem, timedOut>>
      /\ l \in {"coord", "stream"} => st.alive
      /\ lock[l] \in {Nobody, t} /\ lock' = [lock EXCEPT ![l] = t] /\ th' = [th EXCEPT ![t].pc = @ + 1]
    BY DEF TakeLock
<1>2. ThreadTypes  BY DEF LifecycleInv
<1>3. Needs(t)[th[t].pc] = l  OBVIOUS
<1> HIDE DEF l
<1>4. lock' \in LockTable /\ \A k \in Locks : lock'[k] = IF k = l THEN t ELSE lock[k]
    BY <1>1, <1>2, TypesAre DEF LockTable
<1>5. l \notin Sems /\ l \in Sems \cup Locks /\ \A s \in Sems : s # l  BY <1>1 DEF Sems, Locks
<1>6. sem' \in Semaphores /\ \A s \in Sems : sem'[s].locked = sem[s].locked /\ sem'[s].held = sem[s].held
    BY <1>1, <1>2, TypesAre
<1>7. \A s \in Sems : sem'[s].held = IF s = l THEN sem[s].held \cup {t} ELSE sem[s].held
    BY <1>5, <1>6
<1>8. l \in Sems => ~sem[l].locked  BY <1>5
<1>9. UNCHANGED <<mode, cl, st, timedOut>>  BY <1>1
<1>10. l \in Locks => lock[l] \in {Nobody, t} /\ (l \in {"coord", "stream"} => st.alive)  BY <1>1
<1>11. Taking(t) /\ th' = [th EXCEPT ![t].pc = @ + 1]  BY <1>1
<1>12. \A s \in Sems : /\ sem'[s].locked = sem[s].locked
                       /\ sem'[s].held = IF s = l THEN sem[s].held \cup {t} ELSE sem[s].held
    BY <1>6, <1>7
<1> QED  BY <1>3, <1>4, <1>5, <1>6, <1>8, <1>9, <1>10, <1>11, <1>12, TablesAdvance


LEMMA WaitsInStep ==
    ASSUME LifecycleInv, NEW t \in Everyone, NEW T, Alike(T), NEW a \in Places,
           th' = [T EXCEPT ![t] = [@ EXCEPT !.at = a]],
           th[t].op \in Blocking, th[t].pc > 3, sem' = sem, Untouched,
           lock' \in LockTable, \A l \in Locks \ {"stream"} : lock'[l] = lock[l],
           lock'["stream"] \in {Nobody, lock["stream"]} \/ (th[t].at # "run" /\ lock'["stream"] = t)
    PROVE  LifecycleInv'
<1>1. t \in Threads /\ ThreadTypes  BY DEF LifecycleInv, Roles, Everyone, Blocking
<1>2. /\ th' \in [Everyone -> Thread] /\ \A u \in Everyone : ThreadOK(th'[u])
      /\ Others(t) /\ th'[t].op = th[t].op /\ th'[t].pc = th[t].pc /\ th'[t].at = a
    BY <1>1, WaitsOn
<1>3. ThreadTypes'
    BY <1>1, <1>2, TypesAre
       DEF ThreadTypes, Untouched, Streams, TypeOK, Semaphores, LockTable, Thread, ThreadOK
<1>4. Waits(t) /\ Objects  BY <1>2 DEF Waits, Objects, Untouched
<1> QED  BY <1>1, <1>3, <1>4, WaitsKeeps

LEMMA WorkingFacts ==
    ASSUME ThreadTypes, NEW t \in Everyone, Working(t), th[t].op \in Blocking
    PROVE  th[t].pc > 3 /\ th[t].op \notin {"free", "freeAll", "none"}
<1>1. th[t].op # "none" /\ th[t].pc = Len(Needs(t)) + 1  BY DEF Working
<1>2. Len(Needs(t)) > 2 /\ Len(Needs(t)) \in Nat  BY <1>1, NeedsFacts
<1> QED  BY <1>1, <1>2 DEF Blocking

LEMMA LookKeeps ==
    ASSUME LifecycleInv, NEW t \in Everyone, Look(t)
    PROVE  LifecycleInv'
<1> DEFINE T == IF Calls(t, "stopSync") THEN Woken({"put"}) ELSE th
           ends == Done(th[t].op) \/ (Calls(t, "put") /\ st.stopped)
<1>1. /\ Working(t) /\ th[t].op \in Blocking /\ mode' = mode /\ cl' = cl /\ timedOut' = timedOut
      /\ st' = [st EXCEPT !.stopped = @ \/ Calls(t, "stopSync"), !.space = @ /\ ~Calls(t, "put")]
      /\ th' = [T EXCEPT ![t] = IF ends THEN Idle ELSE [@ EXCEPT !.at = "sleep"]]
      /\ lock' = IF ends THEN NoneHeld(t, lock) ELSE lock
      /\ sem' = IF ends THEN Returned(t, sem) ELSE sem
    BY DEF Look
<1>2. ThreadTypes /\ Alike(T)  BY AlikeTables DEF LifecycleInv
<1> HIDE DEF T, ends
<1>3. Untouched
    <2>1. st \in Streams  BY <1>2, TypesAre DEF Streams
    <2>2. (st.stopped \/ Calls(t, "stopSync")) \in BOOLEAN /\ (st.space /\ ~Calls(t, "put")) \in BOOLEAN
        BY <2>1, Zenon DEF Streams, Calls
    <2>3. st' = [st EXCEPT !.stopped = (st.stopped \/ Calls(t, "stopSync")),
                           !.space = (st.space /\ ~Calls(t, "put"))]
        BY <1>1
    <2>4. st' \in Streams /\ st'.alive = st.alive /\ st'.shutdown = st.shutdown
        BY <2>1, <2>2, <2>3 DEF Streams
    <2> QED  BY <1>1, <2>4 DEF Untouched
<1>4. th[t].pc > 3 /\ th[t].op \notin {"free", "freeAll", "none"}  BY <1>1, <1>2, WorkingFacts
<1>5. CASE ends
    <2>1. th' = [T EXCEPT ![t] = Idle] /\ lock' = NoneHeld(t, lock) /\ sem' = Returned(t, sem)
        BY <1>1, <1>5
    <2>2. t \in Threads => ~Shutting(t)  BY <1>2, <1>4, NotShutting
    <2> QED  BY <1>2, <1>3, <2>1, <2>2, BackInStep
<1>6. CASE ~ends
    <2>1. th' = [T EXCEPT ![t] = [@ EXCEPT !.at = "sleep"]] /\ lock' = lock /\ sem' = sem
        BY <1>1, <1>6
    <2>2. "sleep" \in Places /\ lock \in LockTable /\ "stream" \in Locks
        BY <1>2, TypesAre DEF Places, Locks
    <2> QED  BY <1>1, <1>2, <1>3, <1>4, <2>1, <2>2, WaitsInStep
<1> QED  BY <1>5, <1>6

LEMMA SleepKeeps ==
    ASSUME LifecycleInv, NEW t \in Everyone, Sleep(t)
    PROVE  LifecycleInv'
<1>1. /\ th[t].at = "sleep" /\ th' = [th EXCEPT ![t].at = "asleep"]
      /\ lock' = [lock EXCEPT !["stream"] = Nobody] /\ UNCHANGED <<mode, cl, st, timedOut>> /\ sem' = sem
    BY DEF Sleep
<1>2. ThreadTypes /\ Alike(th) /\ Untouched  BY <1>1, AlikeTables, UnchangedFlags DEF LifecycleInv
<1>3. th[t].op \in Blocking /\ th[t].pc > 3  BY <1>1 DEF LifecycleInv, Entered
<1>4. "asleep" \in Places /\ th' = [th EXCEPT ![t] = [@ EXCEPT !.at = "asleep"]]  BY <1>1 DEF Places
<1>5. /\ lock' \in LockTable /\ lock'["stream"] = Nobody
      /\ \A l \in Locks \ {"stream"} : lock'[l] = lock[l]
    BY <1>1, <1>2, TypesAre DEF LockTable, Locks
<1> QED  BY <1>1, <1>2, <1>3, <1>4, <1>5, WaitsInStep

LEMMA WakeKeeps ==
    ASSUME LifecycleInv, NEW t \in Everyone, Wake(t)
    PROVE  LifecycleInv'
<1>1. /\ th[t].at = "woken" /\ mode' = mode /\ cl' = cl /\ timedOut' = timedOut
      /\ st' = [st EXCEPT !.space = IF Calls(t, "put") /\ ~Interrupted("put") THEN FALSE ELSE @]
      /\ \/ Leave(t)
         \/ /\ th' = [th EXCEPT ![t].at = "sleep"]
            /\ lock' = [lock EXCEPT !["stream"] = t] /\ UNCHANGED sem
    BY DEF Wake
<1>2. ThreadTypes /\ Alike(th)  BY AlikeTables DEF LifecycleInv
<1>3. Untouched
    <2>1. st \in Streams  BY <1>2, TypesAre DEF Streams
    <2>2. st' = st \/ st' = [st EXCEPT !.space = FALSE]  BY <1>1, <2>1 DEF Streams
    <2>3. st' \in Streams /\ st'.alive = st.alive /\ st'.shutdown = st.shutdown
        BY <2>1, <2>2 DEF Streams
    <2> QED  BY <1>1, <2>3 DEF Untouched
<1>4. th[t].op \in Blocking /\ th[t].pc > 3  BY <1>1 DEF LifecycleInv, Entered
<1>5. CASE Leave(t)
    <2>1. t \in Threads => ~Shutting(t)  BY <1>2, <1>4, NotShutting DEF Blocking
    <2> QED  BY <1>3, <1>5, <2>1, LeaveKeeps
<1>6. CASE /\ th' = [th EXCEPT ![t].at = "sleep"]
           /\ lock' = [lock EXCEPT !["stream"] = t] /\ sem' = sem
    <2>1. "sleep" \in Places /\ th' = [th EXCEPT ![t] = [@ EXCEPT !.at = "sleep"]]  BY <1>6 DEF Places
    <2>2. /\ lock' \in LockTable /\ lock'["stream"] = t
          /\ \A l \in Locks \ {"stream"} : lock'[l] = lock[l]
        BY <1>6, <1>2, TypesAre DEF LockTable, Locks
    <2> QED  BY <1>1, <1>2, <1>3, <1>4, <1>6, <2>1, <2>2, WaitsInStep
<1> QED  BY <1>1, <1>5, <1>6

LEMMA WaitTimeoutKeeps ==
    ASSUME LifecycleInv, NEW t \in Threads, WaitTimeout(t)
    PROVE  LifecycleInv'
<1>1. /\ th[t].at = "asleep" /\ lock["stream"] = Nobody /\ UNCHANGED <<mode, cl, st, timedOut>>
      /\ IF Calls(t, "create") THEN FreeOnError(t) ELSE Leave(t)
    BY DEF WaitTimeout
<1>2. ThreadTypes /\ Untouched /\ t \in Everyone  BY <1>1, UnchangedFlags DEF LifecycleInv, Everyone
<1>3. th[t].op \in Blocking  BY <1>1, <1>2 DEF LifecycleInv, Entered
<1>4. CASE Calls(t, "create")
    <2>1. \A l \in Locks : lock[l] # t
        BY <1>1, <1>4, LifecycleAssumption DEF LifecycleInv, Entered, Nobody
    <2> QED  BY <1>1, <1>2, <1>4, <2>1, FailedCreation
<1>5. CASE ~Calls(t, "create")
    <2>1. ~Shutting(t)  BY <1>2, <1>3, NotShutting DEF Blocking
    <2> QED  BY <1>1, <1>2, <1>5, <2>1, LeaveKeeps
<1> QED  BY <1>4, <1>5


LEMMA StopWorkKeeps ==
    ASSUME LifecycleInv, NEW t \in Everyone, StopWork(t)
    PROVE  LifecycleInv'
<1>1. /\ th[t].op \in {"stop", "stopAll"} /\ mode' = mode /\ cl' = cl /\ timedOut' = timedOut
      /\ st' = [st EXCEPT !.stopped = TRUE] /\ th' = [Woken({"put"}) EXCEPT ![t] = Idle]
      /\ lock' = NoneHeld(t, lock) /\ sem' = Returned(t, sem)
    BY DEF StopWork
<1>2. ThreadTypes /\ Alike(Woken({"put"}))  BY AlikeTables DEF LifecycleInv
<1>3. st \in Streams  BY <1>2, TypesAre DEF Streams
<1>4. Untouched  BY <1>1, <1>3 DEF Untouched, Streams
<1>5. t \in Threads => ~Shutting(t)  BY <1>1, <1>2, NotShutting
<1> QED  BY <1>1, <1>2, <1>4, <1>5, BackInStep

LEMMA EventKeeps ==
    ASSUME LifecycleInv, NEW t \in Everyone,
           ResultEvent(t) \/ SessionEvent(t) \/ AckEvent(t) \/ OtherCall(t)
    PROVE  LifecycleInv'
<1>1. ThreadTypes  BY DEF LifecycleInv
<1>2. st \in Streams  BY <1>1, TypesAre DEF Streams
<1>3. PICK s \in Streams : /\ s.alive = st.alive /\ s.shutdown = st.shutdown
                           /\ \E ops : EventEnds(t, s, ops)
    <2>1. \A x \in BOOLEAN : /\ [st EXCEPT !.ready = x] \in Streams /\ [st EXCEPT !.closed = x] \in Streams
                            /\ [st EXCEPT !.space = x] \in Streams
                            /\ [st EXCEPT !.ready = x].alive = st.alive
                            /\ [st EXCEPT !.ready = x].shutdown = st.shutdown
                            /\ [st EXCEPT !.closed = x].alive = st.alive
                            /\ [st EXCEPT !.closed = x].shutdown = st.shutdown
                            /\ [st EXCEPT !.space = x].alive = st.alive
                            /\ [st EXCEPT !.space = x].shutdown = st.shutdown
        BY <1>2 DEF Streams
    <2> HIDE DEF Streams
    <2>2. CASE ResultEvent(t)
        <3>1. EventEnds(t, [st EXCEPT !.ready = TRUE], {"create"})  BY <2>2 DEF ResultEvent
        <3> QED  BY <2>1, <3>1, Zenon
    <2>3. CASE SessionEvent(t)
        <3>1. EventEnds(t, [st EXCEPT !.closed = TRUE], {"stopSync"})  BY <2>3 DEF SessionEvent
        <3> QED  BY <2>1, <3>1, Zenon
    <2>4. CASE AckEvent(t)
        <3>1. EventEnds(t, [st EXCEPT !.space = TRUE], {"put"})  BY <2>4 DEF AckEvent
        <3> QED  BY <2>1, <3>1, Zenon
    <2>5. CASE OtherCall(t)
        <3>1. EventEnds(t, st, {})  BY <2>5 DEF OtherCall
        <3> QED  BY <1>2, <3>1, Zenon
    <2> QED  BY <2>2, <2>3, <2>4, <2>5
<1>8. PICK ops : EventEnds(t, s, ops)  BY <1>3
<1>4. /\ Calls(t, "event") /\ mode' = mode /\ cl' = cl /\ timedOut' = timedOut /\ st' = s
      /\ th' = [Woken(ops) EXCEPT ![t] = Idle]
      /\ lock' = NoneHeld(t, lock) /\ sem' = Returned(t, sem)
    BY <1>8 DEF EventEnds
<1>5. Alike(Woken(ops))  BY <1>1, AlikeTables
<1>6. Untouched  BY <1>3, <1>4 DEF Untouched
<1>7. t \in Threads => ~Shutting(t)  BY <1>1, <1>4, NotShutting DEF Calls
<1> QED  BY <1>4, <1>5, <1>6, <1>7, BackInStep

LEMMA CallbackKeeps ==
    ASSUME LifecycleInv, CallbackWork \/ CallbackEmpty
    PROVE  LifecycleInv'
<1>1. Leave(Timer) /\ UNCHANGED <<mode, cl, st, timedOut>>  BY DEF CallbackWork, CallbackEmpty
<1>2. ThreadTypes /\ Untouched /\ Timer \in Everyone /\ Timer \notin Threads
    BY <1>1, UnchangedFlags, LifecycleAssumption DEF LifecycleInv, Everyone
<1> QED  BY <1>1, <1>2, LeaveKeeps

-----------------------------------------------------------------------------
(* The stages of the frees *)

\* The free moves on to stage k; nothing else of the threads changes.
StageMoves(t, k) ==
    /\ \A u \in Everyone \ {t} : th'[u].op = th[u].op /\ th'[u].pc = th[u].pc
    /\ \A u \in Everyone : (th'[u].at = "run" <=> th[u].at = "run")
    /\ th'[t].op = th[t].op /\ th'[t].pc = k

LEMMA StageInStep ==
    ASSUME LifecycleInv, NEW t \in Everyone, NEW T, Alike(T), NEW k \in Nat \ {0},
           th' = [T EXCEPT ![t].pc = k]
    PROVE  /\ th' \in [Everyone -> Thread] /\ \A u \in Everyone : ThreadOK(th'[u])
           /\ StageMoves(t, k)
<1>1. ThreadTypes  BY DEF LifecycleInv
<1>2. /\ th' \in [Everyone -> Thread] /\ \A u \in Everyone : ThreadOK(th'[u])
      /\ Others(t) /\ th'[t].op = th[t].op /\ th'[t].pc = k /\ th'[t].at = T[t].at
    BY <1>1, MovesOn
<1> QED  BY <1>2 DEF StageMoves, Others, Alike

LEMMA NextInStep ==
    ASSUME LifecycleInv, NEW t \in Everyone, NEW T, Alike(T), th' = [T EXCEPT ![t].pc = @ + 1]
    PROVE  /\ th' \in [Everyone -> Thread] /\ \A u \in Everyone : ThreadOK(th'[u])
           /\ StageMoves(t, th[t].pc + 1)
<1>1. th[t].pc \in Nat /\ T[t].pc = th[t].pc  BY DEF LifecycleInv, ThreadTypes, Alike
<1>2. th' = [T EXCEPT ![t].pc = th[t].pc + 1] /\ th[t].pc + 1 \in Nat \ {0}  BY <1>1
<1> QED  BY <1>2, StageInStep

LEMMA TypesNext ==
    ASSUME th' \in [Everyone -> Thread], \A u \in Everyone : ThreadOK(th'[u]),
           cl' \in [alive : BOOLEAN, shutdown : BOOLEAN], st' \in Streams,
           sem' \in Semaphores, lock' \in LockTable, mode' \in Modes, timedOut' \in BOOLEAN
    PROVE  ThreadTypes'
BY DEF ThreadTypes, Streams, TypeOK, Semaphores, LockTable, Thread, ThreadOK

LEMMA ClientShutdownKeeps ==
    ASSUME LifecycleInv, NEW t \in Everyone, ClientShutdown(t)
    PROVE  LifecycleInv'
<1>0. LifecycleInv /\ ThreadTypes /\ Roles  BY DEF LifecycleInv
<1>1. /\ Calls(t, "freeAll") /\ th[t].pc = 1 /\ lock["list"] = Nobody
      /\ cl' = [cl EXCEPT !.shutdown = TRUE] /\ lock' = [lock EXCEPT !["list"] = t]
      /\ th' = [th EXCEPT ![t].pc = @ + 1] /\ UNCHANGED <<mode, st, sem, timedOut>>
    <2>1. Calls(t, "freeAll") /\ th[t].pc - 1 = 0 /\ th[t].pc \in Nat
        BY <1>0 DEF ClientShutdown, Stages, Stage, Calls, ThreadTypes
    <2> QED  BY <2>1 DEF ClientShutdown, NextStage
<1>2. t \in Threads  BY <1>0, <1>1 DEF Roles, Calls, Everyone
<1>3. Alike(th)  BY <1>0, AlikeTables
<1>4. /\ th' \in [Everyone -> Thread] /\ \A u \in Everyone : ThreadOK(th'[u])
      /\ StageMoves(t, 2)
    <2>1. /\ th' \in [Everyone -> Thread] /\ \A u \in Everyone : ThreadOK(th'[u])
          /\ StageMoves(t, th[t].pc + 1)
        BY <1>0, <1>1, <1>3, NextInStep
    <2>2. th[t].pc + 1 = 2  BY <1>1
    <2> QED  BY <2>1, <2>2
<1>5. lock' \in LockTable /\ \A l \in Locks : lock'[l] = IF l = "list" THEN t ELSE lock[l]
    BY <1>0, <1>1, TypesAre DEF LockTable, Locks
<1>6. cl' \in [alive : BOOLEAN, shutdown : BOOLEAN] /\ cl'.alive = cl.alive
    BY <1>0, <1>1, TypesAre
<1>7. ThreadTypes'
    BY <1>0, <1>1, <1>4, <1>5, <1>6, TypesAre, TypesNext DEF Streams
<1>8. /\ \A u \in Everyone : /\ th'[u].op = th[u].op /\ (u # t => th'[u].pc = th[u].pc)
                             /\ (th'[u].at = "run" <=> th[u].at = "run")
      /\ th'[t].pc = 2
    BY <1>4 DEF StageMoves
<1>9. ASSUME NEW u \in Threads  PROVE Shutting(u)' <=> Shutting(u)
    BY <1>1, <1>8, <1>9 DEF Shutting, Stages, Stage, Calls, Everyone
<1> USE <1>0 DEF LifecycleInv
<1>10. Roles'  BY <1>8 DEF Roles, Calls, Everyone
<1>11. Entered'
    BY <1>1, <1>2, <1>5, <1>8, LifecycleAssumption DEF Entered, Calls, Everyone, Blocking
<1>12. Shutdowns'
    <2>1. \A u \in Threads : Stages(u, 3)' => Stages(u, 3)
        BY <1>1, <1>8 DEF Stages, Stage, Calls, Everyone
    <2>2. \A u \in Threads : lock["list"] # u  BY <1>1, LifecycleAssumption DEF Nobody
    <2> QED  BY <1>1, <1>2, <1>5, <1>8, <2>1, <2>2 DEF Shutdowns, Calls, Everyone, Locks
<1>13. Drained'
    BY <1>1, <1>2, <1>5, <1>8, <1>9 DEF Drained, Clear, Calls, Everyone, Locks
<1>14. ClientGone'  BY <1>1, <1>2, <1>6 DEF ClientGone, Calls
<1> QED  BY <1>7, <1>10, <1>11, <1>12, <1>13, <1>14


\* What every stage of a free does to the roles and to the resources taken on the way.
LEMMA StageKeepsEntered ==
    ASSUME LifecycleInv, NEW t \in Threads, th[t].op \in {"free", "freeAll"}, th[t].pc > 1,
           NEW k \in Nat, k > 1, StageMoves(t, k), ThreadTypes',
           \A s \in Sems : sem'[s].held = sem[s].held,
           \A l \in Locks : lock'[l] \in {lock[l], Nobody, t}
    PROVE  /\ Roles' /\ Entered'
           /\ \A u \in Threads : u # t => /\ (Shutting(u)' <=> Shutting(u))
                                         /\ \A n \in 1..8 : Stages(u, n)' <=> Stages(u, n)
<1>1. /\ \A u \in Everyone : /\ th'[u].op = th[u].op /\ (u # t => th'[u].pc = th[u].pc)
                             /\ (th'[u].at = "run" <=> th[u].at = "run")
      /\ th'[t].pc = k
    BY DEF StageMoves
<1>2. Roles'  BY <1>1 DEF LifecycleInv, Roles, Calls, Everyone
<1>3. th[t].op \notin Blocking /\ th[t].op # "none" /\ th[t].op # "create" /\ th[t].at = "run"
    BY DEF Blocking, LifecycleInv, Entered, Everyone
<1>4. \A u \in Threads, l \in Locks : lock'[l] = u => lock[l] = u \/ u = t
    BY LifecycleAssumption DEF Nobody
<1>5. \A l \in Locks : lock'[l] = Timer => lock[l] = Timer
    BY LifecycleAssumption DEF Nobody
<1>6. Entered'
    <2>1. \A u \in Threads, l \in Locks :
            lock'[l] = u => \/ th'[u].op = "freeAll"
                            \/ th'[u].op # "none" /\ th'[u].pc > 1
        BY <1>1, <1>3, <1>4 DEF LifecycleInv, Entered, Calls, Everyone
    <2>2. \A u \in Threads, l \in Locks :
            lock'[l] = u /\ th'[u].op = "create" => th'[u].pc > 3 /\ l = "stream"
        BY <1>1, <1>3, <1>4 DEF LifecycleInv, Entered, Calls, Everyone
    <2>3. th'[Timer].op = "none" => \A l \in Locks : lock'[l] # Timer
        BY <1>1, <1>5 DEF LifecycleInv, Entered, Everyone
    <2>4. \A u \in Everyone : th'[u].at # "run" => th'[u].op \in Blocking /\ th'[u].pc > 3
        BY <1>1, <1>3 DEF LifecycleInv, Entered
    <2>5. \A u \in Threads : th'[u].op \notin {"none", "freeAll"} /\ th'[u].pc > 1 => u \in sem'["csem"].held
        BY <1>1 DEF LifecycleInv, Entered, Everyone, Sems
    <2>6. \A u \in Threads : th'[u].op \in Blocking /\ th'[u].pc > 2 => u \in sem'["ssem"].held
        BY <1>1, <1>3 DEF LifecycleInv, Entered, Everyone, Sems
    <2> QED  BY <2>1, <2>2, <2>3, <2>4, <2>5, <2>6 DEF Entered, Calls
<1>7. \A u \in Threads : u # t => \A n \in 1..8 : Stages(u, n)' <=> Stages(u, n)
    BY <1>1 DEF Stages, Stage, Calls, Everyone
<1>8. \A u \in Threads : u # t => (Shutting(u)' <=> Shutting(u))
    BY <1>7 DEF Shutting
<1> QED  BY <1>2, <1>6, <1>7, <1>8

\* Where t is in the free that takes the step, and what the invariant says of it.
LEMMA StageGuards ==
    ASSUME LifecycleInv, NEW t \in Everyone, NEW n \in 1..8, Stages(t, n)
    PROVE  /\ t \in Threads /\ th[t].op \in {"free", "freeAll"} /\ th[t].pc > 1 /\ th[t].pc \in Nat
           /\ \/ th[t].op = "free" /\ th[t].pc = n + 2
              \/ th[t].op = "freeAll" /\ th[t].pc = n + 1
           /\ th[t].op = "freeAll" => cl.alive
           /\ Shutting(t) <=> n \in {2, 3}
<1>1. ThreadTypes /\ Roles  BY DEF LifecycleInv
<1>2. /\ t \in Threads
      /\ \/ Calls(t, "free") /\ th[t].pc = n + 2
         \/ Calls(t, "freeAll") /\ th[t].pc = n + 1
    BY <1>1, StageFacts
<1>3. Shutting(t) <=> \/ Calls(t, "free") /\ th[t].pc \in {4, 5}
                      \/ Calls(t, "freeAll") /\ th[t].pc \in {3, 4}
    BY <1>1, <1>2, ShuttingFacts
<1>4. th[t].op = "freeAll" => cl.alive  BY <1>2 DEF LifecycleInv, ClientGone
<1> QED  BY <1>2, <1>3, <1>4 DEF Calls


\* A step that takes the free of t to stage k, as the shutdowns and drains see it.
Moved(t, k) ==
    /\ ThreadTypes' /\ Roles' /\ Entered' /\ th'[t].pc = k /\ th'[Timer].op = th[Timer].op
    /\ \A u \in Threads : th'[u].op = th[u].op
    /\ \A u \in Threads : u # t => /\ th'[u].pc = th[u].pc /\ (Shutting(u)' <=> Shutting(u))
                                  /\ \A n \in 1..8 : Stages(u, n)' <=> Stages(u, n)

LEMMA StageStep ==
    ASSUME LifecycleInv, NEW t \in Everyone, NEW n \in 1..8, Stages(t, n), NEW T, Alike(T),
           NEW k \in Nat, k > 1, th' = [T EXCEPT ![t].pc = k],
           mode' = mode, cl' = cl, st' \in Streams, timedOut' \in BOOLEAN,
           sem' \in Semaphores, \A s \in Sems : sem'[s].held = sem[s].held,
           lock' \in LockTable, \A l \in Locks : lock'[l] \in {lock[l], Nobody, t}
    PROVE  Moved(t, k)
<1>1. t \in Threads /\ th[t].op \in {"free", "freeAll"} /\ th[t].pc > 1  BY StageGuards
<1>2. ThreadTypes /\ k \in Nat \ {0}  BY DEF LifecycleInv
<1>3. /\ th' \in [Everyone -> Thread] /\ \A u \in Everyone : ThreadOK(th'[u])
      /\ StageMoves(t, k)
    BY <1>2, StageInStep
<1>4. ThreadTypes'  BY <1>2, <1>3, TypesAre, TypesNext
<1>5. /\ Roles' /\ Entered'
      /\ \A u \in Threads : u # t => /\ (Shutting(u)' <=> Shutting(u))
                                    /\ \A m \in 1..8 : Stages(u, m)' <=> Stages(u, m)
    BY <1>1, <1>3, <1>4, StageKeepsEntered
<1> QED  BY <1>1, <1>3, <1>4, <1>5, LifecycleAssumption DEF Moved, StageMoves, Everyone

\* The same for the stage after this one.
LEMMA NextStep ==
    ASSUME LifecycleInv, NEW t \in Everyone, NEW n \in 1..8, Stages(t, n), NEW T, Alike(T),
           th' = [T EXCEPT ![t].pc = @ + 1],
           mode' = mode, cl' = cl, st' \in Streams, timedOut' \in BOOLEAN,
           sem' \in Semaphores, \A s \in Sems : sem'[s].held = sem[s].held,
           lock' \in LockTable, \A l \in Locks : lock'[l] \in {lock[l], Nobody, t}
    PROVE  Moved(t, th[t].pc + 1)
<1>1. th[t].pc \in Nat /\ th[t].pc > 1 /\ T[t].pc = th[t].pc  BY StageGuards DEF Alike
<1>2. th' = [T EXCEPT ![t].pc = th[t].pc + 1] /\ th[t].pc + 1 \in Nat /\ th[t].pc + 1 > 1  BY <1>1
<1> QED  BY <1>2, StageStep

LEMMA InvTypes ==
    ASSUME LifecycleInv
    PROVE  /\ ThreadTypes /\ Alike(th) /\ sem \in Semaphores /\ lock \in LockTable /\ st \in Streams
           /\ timedOut \in BOOLEAN /\ mode \in Modes /\ cl \in [alive : BOOLEAN, shutdown : BOOLEAN]
BY TypesAre, AlikeTables DEF LifecycleInv, Streams

\* A stream that nobody frees yet: its flag goes up, and the free is the only one between
\* the flag and the drain.
LEMMA FlagGoesUp ==
    ASSUME LifecycleInv, NEW t \in Everyone, Stages(t, 1), st.alive, ~st.shutdown,
           st' = [st EXCEPT !.shutdown = TRUE], th' = [th EXCEPT ![t].pc = @ + 1],
           UNCHANGED <<mode, cl, sem, lock, timedOut>>
    PROVE  LifecycleInv'
<1>1. /\ t \in Threads /\ th[t].pc \in Nat
      /\ \/ th[t].op = "free" /\ th[t].pc = 3
         \/ th[t].op = "freeAll" /\ th[t].pc = 2
    BY StageGuards
<1>2. /\ Alike(th) /\ timedOut' \in BOOLEAN /\ sem' \in Semaphores /\ lock' \in LockTable
      /\ \A s \in Sems : sem'[s].held = sem[s].held
      /\ \A l \in Locks : lock'[l] \in {lock[l], Nobody, t}
    BY InvTypes
<1>3. st' \in Streams /\ st'.alive /\ st'.shutdown  BY InvTypes DEF Streams
<1>4. Moved(t, th[t].pc + 1)
    <2>1. 1 \in 1..8 /\ mode' = mode /\ cl' = cl  OBVIOUS
    <2> QED  BY <1>2, <1>3, <2>1, NextStep
<1>5. Shutting(t)' /\ ~Stages(t, 3)'
    BY <1>1, <1>4 DEF Moved, Shutting, Stages, Stage, Calls
<1>6. Shutdowns'
    BY <1>1, <1>3, <1>4, <1>5 DEF Moved, LifecycleInv, Shutdowns, Calls
<1>7. Drained'
    BY <1>1, <1>3, <1>4, <1>5 DEF Moved, LifecycleInv, Drained, Calls, Clear
<1>8. ClientGone'  BY <1>3 DEF LifecycleInv, ClientGone
<1> QED  BY <1>4, <1>6, <1>7, <1>8 DEF LifecycleInv, Moved

\* A stream that is gone or being shut down: this free waits behind the other one, and
\* goes on to the end when it has the list lock.
LEMMA FlagIsUp ==
    ASSUME LifecycleInv, NEW t \in Everyone, Stages(t, 1), ~(st.alive /\ ~st.shutdown),
           th' = [th EXCEPT ![t].pc = IF Calls(t, "free") THEN 9 ELSE 5],
           lock' = IF Calls(t, "free") THEN lock ELSE NoneHeld(t, lock),
           UNCHANGED <<mode, cl, st, sem, timedOut>>
    PROVE  LifecycleInv'
<1> DEFINE k == IF Calls(t, "free") THEN 9 ELSE 5
<1>1. /\ t \in Threads /\ th[t].pc \in Nat /\ ~Shutting(t)
      /\ \/ th[t].op = "free" /\ th[t].pc = 3 /\ k = 9
         \/ th[t].op = "freeAll" /\ th[t].pc = 2 /\ k = 5
    BY StageGuards DEF Calls
<1>2. ThreadTypes /\ Alike(th)  BY AlikeTables DEF LifecycleInv
<1>3. th' = [th EXCEPT ![t].pc = k] /\ k \in Nat /\ k > 1  OBVIOUS
<1>4. st \in Streams /\ st.shutdown  BY <1>2, TypesAre DEF Streams, LifecycleInv, Drained
<1>5. /\ lock' \in LockTable /\ \A l \in Locks : lock'[l] \in {lock[l], Nobody, t}
      /\ \A l \in Locks : lock'[l] = lock[l] \/ (lock[l] = t /\ lock'[l] = Nobody)
      /\ th[t].op = "free" => lock' = lock
    BY <1>2, TypesAre, TablesKeepTypes DEF Calls
<1> HIDE DEF k
<1>6. Moved(t, k)
    <2>1. 1 \in 1..8 /\ mode' = mode /\ cl' = cl /\ st' \in Streams  BY <1>4
    <2>2. timedOut' \in BOOLEAN /\ sem' \in Semaphores /\ \A s \in Sems : sem'[s].held = sem[s].held
        BY InvTypes
    <2> QED  BY <1>2, <1>3, <1>5, <2>1, <2>2, StageStep
<1>7. ~Shutting(t)' /\ ~Stages(t, 3)'
    BY <1>1, <1>6 DEF Moved, Shutting, Stages, Stage, Calls
<1>8. Shutdowns'
    BY <1>1, <1>4, <1>5, <1>6, <1>7 DEF Moved, LifecycleInv, Shutdowns, Calls, Locks
<1>9. Drained'
    BY <1>1, <1>4, <1>5, <1>6, <1>7 DEF Moved, LifecycleInv, Drained, Calls, Clear, Locks
<1>10. ClientGone'
    BY <1>5, <1>6 DEF Moved, LifecycleInv, ClientGone, Clear
<1> QED  BY <1>6, <1>8, <1>9, <1>10 DEF LifecycleInv, Moved

LEMMA ShutdownFlagKeeps ==
    ASSUME LifecycleInv, NEW t \in Everyone, ShutdownFlag(t)
    PROVE  LifecycleInv'
<1>1. CASE st.alive /\ ~st.shutdown  BY <1>1, FlagGoesUp DEF ShutdownFlag, NextStage
<1>2. CASE ~(st.alive /\ ~st.shutdown)  BY <1>2, FlagIsUp DEF ShutdownFlag
<1> QED  BY <1>1, <1>2


\* The broadcast locks the semaphore of the stream: nobody enters any more.
LEMMA ShutdownBroadcastKeeps ==
    ASSUME LifecycleInv, NEW t \in Everyone, ShutdownBroadcast(t)
    PROVE  LifecycleInv'
<1>1. /\ Stages(t, 2) /\ sem' = [sem EXCEPT !["ssem"].locked = TRUE]
      /\ th' = [Woken(Blocking) EXCEPT ![t].pc = @ + 1] /\ UNCHANGED <<mode, cl, st, lock, timedOut>>
    BY DEF ShutdownBroadcast
<1>2. /\ t \in Threads /\ th[t].pc \in Nat /\ Shutting(t)
      /\ \/ th[t].op = "free" /\ th[t].pc = 4
         \/ th[t].op = "freeAll" /\ th[t].pc = 3
    BY <1>1, StageGuards
<1>3. st.alive /\ st.shutdown
    BY <1>2 DEF LifecycleInv, Drained, Shutdowns, Calls
<1>4. /\ sem' \in Semaphores /\ sem'["ssem"].locked /\ sem'["csem"] = sem["csem"]
      /\ \A s \in Sems : sem'[s].held = sem[s].held
    BY <1>1, InvTypes DEF Semaphores, Sems
<1>5. Moved(t, th[t].pc + 1)
    <2>1. 2 \in 1..8 /\ mode' = mode /\ cl' = cl /\ timedOut' \in BOOLEAN  BY <1>1, InvTypes
    <2>2. /\ st' \in Streams /\ lock' \in LockTable
          /\ \A l \in Locks : lock'[l] \in {lock[l], Nobody, t}
        BY <1>1, InvTypes
    <2>3. Alike(Woken(Blocking))  BY InvTypes, AlikeTables
    <2> QED  BY <1>1, <1>4, <2>1, <2>2, <2>3, NextStep
<1>6. Shutting(t)'
    BY <1>2, <1>5 DEF Moved, Shutting, Stages, Stage, Calls
<1>7. Shutdowns'
    BY <1>1, <1>2, <1>3, <1>4, <1>5 DEF Moved, LifecycleInv, Shutdowns, Calls
<1>8. Drained'
    BY <1>1, <1>2, <1>3, <1>4, <1>5, <1>6 DEF Moved, LifecycleInv, Drained, Calls, Clear
<1>9. ClientGone'  BY <1>1, <1>3 DEF LifecycleInv, ClientGone
<1> QED  BY <1>5, <1>7, <1>8, <1>9 DEF LifecycleInv, Moved

\* The drain: unless it times out, nobody is left in a call of the stream.
LEMMA ShutdownDrainedKeeps ==
    ASSUME LifecycleInv, NEW t \in Everyone, ShutdownDrained(t)
    PROVE  LifecycleInv'
<1> DEFINE k == IF Calls(t, "free") THEN 9 ELSE 5
<1>1. /\ Stages(t, 3) /\ timedOut' = (timedOut \/ sem["ssem"].held # {})
      /\ th' = [th EXCEPT ![t].pc = IF Calls(t, "free") THEN 9 ELSE @ + 1]
      /\ lock' = IF Calls(t, "free") THEN lock ELSE NoneHeld(t, lock)
      /\ UNCHANGED <<mode, cl, st, sem>>
    BY DEF ShutdownDrained
<1>2. /\ t \in Threads /\ th[t].pc \in Nat /\ Shutting(t)
      /\ \/ th[t].op = "free" /\ th[t].pc = 5 /\ k = 9
         \/ th[t].op = "freeAll" /\ th[t].pc = 4 /\ k = 5
    BY <1>1, StageGuards DEF Calls
<1>3. st.alive /\ st.shutdown /\ sem["ssem"].locked
    BY <1>1, <1>2 DEF LifecycleInv, Drained, Shutdowns, Calls
<1>4. th' = [th EXCEPT ![t].pc = k] /\ k \in Nat /\ k > 1
    <2>1. CASE Calls(t, "free")  BY <1>1, <2>1
    <2>2. CASE ~Calls(t, "free")
        <3>1. th[t].pc + 1 = 5 /\ k = 5  BY <1>2, <2>2 DEF Calls
        <3>2. th' = [th EXCEPT ![t].pc = th[t].pc + 1]  BY <1>1, <2>2
        <3> HIDE DEF k
        <3>3. k = th[t].pc + 1 /\ k \in Nat /\ k > 1  BY <3>1
        <3> QED  BY <3>2, <3>3
    <2> QED  BY <2>1, <2>2
<1>5. /\ lock' \in LockTable /\ \A l \in Locks : lock'[l] \in {lock[l], Nobody, t}
      /\ \A l \in Locks : lock'[l] = lock[l] \/ (lock[l] = t /\ lock'[l] = Nobody)
      /\ th[t].op = "free" => lock' = lock
    BY <1>1, InvTypes, TablesKeepTypes DEF Calls
<1> HIDE DEF k
<1>6. Moved(t, k)
    <2>1. /\ 3 \in 1..8 /\ mode' = mode /\ cl' = cl /\ st' \in Streams /\ sem' \in Semaphores
          /\ \A s \in Sems : sem'[s].held = sem[s].held
        BY <1>1, InvTypes
    <2>2. timedOut' \in BOOLEAN  BY <1>1
    <2>3. Alike(th)  BY InvTypes
    <2> QED  BY <1>1, <1>4, <1>5, <2>1, <2>2, <2>3, StageStep
<1>7. ~Shutting(t)' /\ ~Stages(t, 3)'
    BY <1>2, <1>6 DEF Moved, Shutting, Stages, Stage, Calls
<1>8. Shutdowns'
    BY <1>1, <1>2, <1>3, <1>5, <1>6, <1>7 DEF Moved, LifecycleInv, Shutdowns, Calls, Locks
<1>9. ~timedOut' => ~timedOut /\ Clear("ssem")'
    BY <1>1, <1>3 DEF Clear
<1>10. Drained'
    BY <1>1, <1>2, <1>3, <1>6, <1>7, <1>9 DEF Moved, LifecycleInv, Drained, Calls, Clear
<1>11. ClientGone'  BY <1>1, <1>3 DEF LifecycleInv, ClientGone
<1> QED  BY <1>6, <1>8, <1>10, <1>11 DEF LifecycleInv, Moved

\* The same for the client, in two steps.
LEMMA ClientDrainedKeeps ==
    ASSUME LifecycleInv, NEW t \in Everyone, ClientDrained(t)
    PROVE  LifecycleInv'
<1>1. Stages(t, 4) /\ Calls(t, "freeAll") /\ UNCHANGED <<mode, cl, st, lock>>
    BY DEF ClientDrained
<1>2. /\ t \in Threads /\ th[t].pc = 5 /\ cl.alive /\ ~Shutting(t)
    BY <1>1, StageGuards DEF Calls
<1>3. CASE sem["csem"].locked
    <2>1. /\ timedOut' = (timedOut \/ sem["csem"].held # {}) /\ sem' = sem
          /\ th' = [th EXCEPT ![t].pc = @ + 1]
        BY <1>3 DEF ClientDrained, NextStage
    <2>2. Moved(t, th[t].pc + 1)
        <3>1. /\ 4 \in 1..8 /\ mode' = mode /\ cl' = cl /\ st' \in Streams /\ sem' \in Semaphores
              /\ \A s \in Sems : sem'[s].held = sem[s].held
            BY <1>1, <2>1, InvTypes
        <3>2. timedOut' \in BOOLEAN  BY <2>1
        <3>3. Alike(th) /\ lock' \in LockTable /\ \A l \in Locks : lock'[l] \in {lock[l], Nobody, t}
            BY <1>1, InvTypes
        <3> QED  BY <1>1, <2>1, <3>1, <3>2, <3>3, NextStep
    <2>3. th[t].pc + 1 = 6  BY <1>2
    <2>4. ~Shutting(t)' /\ ~Stages(t, 3)'
        BY <1>1, <2>2, <2>3 DEF Moved, Shutting, Stages, Stage, Calls
    <2>5. Shutdowns'
        BY <1>1, <1>2, <2>1, <2>2, <2>3, <2>4 DEF Moved, LifecycleInv, Shutdowns, Calls
    <2>6. ~timedOut' => ~timedOut /\ Clear("csem")'
        BY <1>3, <2>1 DEF Clear
    <2>7. Drained'
        BY <1>1, <1>2, <2>1, <2>2, <2>3, <2>4, <2>6 DEF Moved, LifecycleInv, Drained, Calls, Clear
    <2>8. ClientGone'  BY <1>1, <1>2 DEF LifecycleInv, ClientGone
    <2> QED  BY <2>2, <2>5, <2>7, <2>8 DEF LifecycleInv, Moved
<1>4. CASE ~sem["csem"].locked
    <2>1. sem' = [sem EXCEPT !["csem"].locked = TRUE] /\ th' = th /\ timedOut' = timedOut
        BY <1>4 DEF ClientDrained
    <2>2. /\ sem' \in Semaphores /\ sem'["ssem"] = sem["ssem"] /\ sem'["csem"].locked
          /\ \A s \in Sems : sem'[s].held = sem[s].held
        BY <2>1, InvTypes DEF Semaphores, Sems
    <2>3. ThreadTypes'
        BY <1>1, <2>1, <2>2, InvTypes, TypesAre, TypesNext
    <2>4. \A u \in Threads : Shutting(u)' <=> Shutting(u)  BY <2>1 DEF Shutting, Stages, Stage, Calls
    <2>5. Roles' /\ Entered'
        BY <1>1, <2>1, <2>2 DEF LifecycleInv, Roles, Entered, Calls, Sems
    <2>6. Shutdowns'
        BY <1>1, <2>1, <2>2 DEF LifecycleInv, Shutdowns, Calls, Stages, Stage
    <2>7. Drained'
        BY <1>1, <2>1, <2>2, <2>4 DEF LifecycleInv, Drained, Calls, Clear, Sems
    <2>8. ClientGone'  BY <1>1, <1>2 DEF LifecycleInv, ClientGone
    <2> QED  BY <2>3, <2>5, <2>6, <2>7, <2>8 DEF LifecycleInv
<1> QED  BY <1>3, <1>4


\* The shutdown of the timer queue: unless it times out, the callback is not running.
LEMMA TimersDoneKeeps ==
    ASSUME LifecycleInv, NEW t \in Everyone, TimersDone(t)
    PROVE  LifecycleInv'
<1>1. /\ Stages(t, 5) /\ Calls(t, "freeAll") /\ UNCHANGED <<mode, cl, st, sem, lock>>
      /\ timedOut' = (timedOut \/ th[Timer] # Idle) /\ th' = [th EXCEPT ![t].pc = @ + 1]
    BY DEF TimersDone, NextStage
<1>2. /\ t \in Threads /\ th[t].pc = 6 /\ cl.alive /\ ~Shutting(t)
    BY <1>1, StageGuards DEF Calls
<1>3. Moved(t, th[t].pc + 1)
    <2>1. /\ 5 \in 1..8 /\ mode' = mode /\ cl' = cl /\ st' \in Streams /\ sem' \in Semaphores
          /\ \A s \in Sems : sem'[s].held = sem[s].held
        BY <1>1, InvTypes
    <2>2. timedOut' \in BOOLEAN  BY <1>1
    <2>3. Alike(th) /\ lock' \in LockTable /\ \A l \in Locks : lock'[l] \in {lock[l], Nobody, t}
        BY <1>1, InvTypes
    <2> QED  BY <1>1, <2>1, <2>2, <2>3, NextStep
<1>4. th[t].pc + 1 = 7  BY <1>2
<1>5. ~Shutting(t)' /\ ~Stages(t, 3)'
    BY <1>1, <1>3, <1>4 DEF Moved, Shutting, Stages, Stage, Calls
<1>6. Shutdowns'
    BY <1>1, <1>2, <1>3, <1>4, <1>5 DEF Moved, LifecycleInv, Shutdowns, Calls
<1>7. ~timedOut' => ~timedOut /\ th'[Timer].op = "none"
    <2>1. ~timedOut' => ~timedOut /\ th[Timer] = Idle  BY <1>1, Zenon
    <2>2. th'[Timer].op = th[Timer].op  BY <1>3 DEF Moved
    <2>3. Idle.op = "none"  BY DEF Idle
    <2> QED  BY <2>1, <2>2, <2>3
<1>8. Drained'
    BY <1>1, <1>2, <1>3, <1>4, <1>5, <1>7 DEF Moved, LifecycleInv, Drained, Calls, Clear
<1>9. ClientGone'  BY <1>1, <1>2 DEF LifecycleInv, ClientGone
<1> QED  BY <1>3, <1>6, <1>8, <1>9 DEF LifecycleInv, Moved

LEMMA ListAgainKeeps ==
    ASSUME LifecycleInv, NEW t \in Everyone, ListAgain(t)
    PROVE  LifecycleInv'
<1>1. /\ Stages(t, 6) /\ Calls(t, "freeAll") /\ lock["list"] = Nobody /\ lock' = [lock EXCEPT !["list"] = t]
      /\ UNCHANGED <<mode, cl, st, sem, timedOut>> /\ th' = [th EXCEPT ![t].pc = @ + 1]
    BY DEF ListAgain, NextStage
<1>2. /\ t \in Threads /\ th[t].pc = 7 /\ cl.alive /\ ~Shutting(t)
    BY <1>1, StageGuards DEF Calls
<1>3. lock' \in LockTable /\ \A l \in Locks : lock'[l] = IF l = "list" THEN t ELSE lock[l]
    BY <1>1, InvTypes DEF LockTable, Locks
<1>4. Moved(t, th[t].pc + 1)
    <2>1. /\ 6 \in 1..8 /\ mode' = mode /\ cl' = cl /\ st' \in Streams /\ sem' \in Semaphores
          /\ \A s \in Sems : sem'[s].held = sem[s].held
        BY <1>1, InvTypes
    <2>2. timedOut' \in BOOLEAN /\ Alike(th)  BY <1>1, InvTypes
    <2>3. \A l \in Locks : lock'[l] \in {lock[l], Nobody, t}  BY <1>3
    <2> QED  BY <1>1, <1>3, <2>1, <2>2, <2>3, NextStep
<1>5. th[t].pc + 1 = 8  BY <1>2
<1>6. ~Shutting(t)' /\ ~Stages(t, 3)'
    BY <1>1, <1>4, <1>5 DEF Moved, Shutting, Stages, Stage, Calls
<1>7. \A u \in Threads : lock["list"] # u  BY <1>1, LifecycleAssumption DEF Nobody
<1>8. Shutdowns'
    BY <1>1, <1>2, <1>3, <1>4, <1>5, <1>6, <1>7 DEF Moved, LifecycleInv, Shutdowns, Calls, Locks
<1>9. Drained'
    BY <1>1, <1>2, <1>3, <1>4, <1>5, <1>6 DEF Moved, LifecycleInv, Drained, Calls, Clear, Locks
<1>10. ClientGone'  BY <1>1, <1>2 DEF LifecycleInv, ClientGone
<1> QED  BY <1>4, <1>8, <1>9, <1>10 DEF LifecycleInv, Moved


\* The end of a stream.  Nobody shuts it down any more, since this free has the list
\* lock: unless a drain timed out, nobody is in a call of it.
LEMMA FreeStreamKeeps ==
    ASSUME LifecycleInv, NEW t \in Everyone, FreeStream(t)
    PROVE  LifecycleInv'
<1>1. /\ Stages(t, 7) /\ UNCHANGED <<mode, cl, timedOut>> /\ st' = [st EXCEPT !.alive = FALSE]
      /\ st.alive => lock["stream"] = Nobody /\ lock["coord"] = Nobody
      /\ IF Calls(t, "free") THEN Leave(t) ELSE NextStage(t) /\ UNCHANGED <<lock, sem>>
    BY DEF FreeStream
<1>2. /\ t \in Threads /\ th[t].pc \in Nat /\ ~Shutting(t)
      /\ \/ th[t].op = "free" /\ th[t].pc = 9
         \/ th[t].op = "freeAll" /\ th[t].pc = 8 /\ cl.alive
    BY <1>1, StageGuards
<1>3. lock["list"] = t /\ st.shutdown
    BY <1>2 DEF LifecycleInv, Shutdowns, Calls
<1>4. \A u \in Threads : ~Shutting(u)
    <2>1. ASSUME NEW u \in Threads, Shutting(u)  PROVE FALSE
        <3>1. \/ Calls(u, "free") /\ th[u].pc \in {4, 5}
              \/ Calls(u, "freeAll") /\ th[u].pc \in {3, 4}
            BY <2>1, ShuttingFacts DEF LifecycleInv
        <3>2. lock["list"] = u  BY <3>1 DEF LifecycleInv, Shutdowns
        <3> QED  BY <1>2, <1>3, <2>1, <3>2
    <2> QED  BY <2>1
<1>5. st' \in Streams /\ ~st'.alive /\ st'.shutdown = st.shutdown  BY <1>1, InvTypes DEF Streams
<1>6. ~timedOut => /\ Clear("ssem") /\ lock["coord"] = Nobody /\ lock["stream"] = Nobody
    BY <1>1, <1>3, <1>4 DEF LifecycleInv, Drained
<1>7. CASE Calls(t, "free")
    <2>1. th' = [th EXCEPT ![t] = Idle] /\ lock' = NoneHeld(t, lock) /\ sem' = Returned(t, sem)
        BY <1>1, <1>7 DEF Leave
    <2>2. /\ th' \in [Everyone -> Thread] /\ \A u \in Everyone : ThreadOK(th'[u])
          /\ th'[t] = Idle /\ \A u \in Everyone \ {t} : th'[u] = th[u]
        BY <2>1, PutThread, RecordsOK, InvTypes DEF Alike
    <2>3. /\ sem' \in Semaphores /\ lock' \in LockTable
          /\ \A l \in Locks : lock'[l] = IF lock[l] = t THEN Nobody ELSE lock[l]
          /\ \A s \in Sems : sem'[s].locked = sem[s].locked /\ sem'[s].held = sem[s].held \ {t}
        BY <2>1, InvTypes, TablesKeepTypes
    <2>4. ThreadTypes'  BY <1>1, <1>5, <2>2, <2>3, InvTypes, TypesNext
    <2>5. th'[t].op = "none" /\ th'[t].at = "run"  BY <2>2 DEF Idle
    <2>6. \A u \in Threads : ~Shutting(u)'
        BY <1>4, <2>2, <2>5 DEF Shutting, Stages, Stage, Calls, Everyone
    <2>7. Roles'
        BY <2>2, <2>5, <1>2, LifecycleAssumption DEF LifecycleInv, Roles, Calls, Everyone
    <2>8. Entered'
        BY <2>2, <2>3, <2>5, <1>2, LifecycleAssumption
           DEF LifecycleInv, Entered, Calls, Everyone, Nobody, Locks, Sems, Blocking
    <2>9. Shutdowns'
        BY <1>2, <1>5, <2>2, <2>3, <2>5, <2>6 DEF LifecycleInv, Shutdowns, Calls, Everyone, Locks, Sems, Shutting
    <2>10. Drained'
        BY <1>1, <1>2, <1>3, <1>5, <1>6, <2>2, <2>3, <2>5, <2>6, LifecycleAssumption
           DEF LifecycleInv, Drained, Calls, Everyone, Clear, Locks, Sems
    <2>11. ClientGone'
        BY <1>1, <1>2, <1>5, <2>2, <2>3, <2>5, LifecycleAssumption
           DEF LifecycleInv, ClientGone, Calls, Everyone, Clear, Sems
    <2> QED  BY <2>4, <2>7, <2>8, <2>9, <2>10, <2>11 DEF LifecycleInv
<1>8. CASE ~Calls(t, "free")
    <2>1. th' = [th EXCEPT ![t].pc = @ + 1] /\ UNCHANGED <<lock, sem>>
        BY <1>1, <1>8 DEF NextStage
    <2>2. Moved(t, th[t].pc + 1)
        <3>1. /\ 7 \in 1..8 /\ mode' = mode /\ cl' = cl /\ sem' \in Semaphores /\ timedOut' \in BOOLEAN
              /\ \A s \in Sems : sem'[s].held = sem[s].held
            BY <1>1, <2>1, InvTypes
        <3>2. Alike(th) /\ lock' \in LockTable /\ \A l \in Locks : lock'[l] \in {lock[l], Nobody, t}
            BY <2>1, InvTypes
        <3> QED  BY <1>1, <1>5, <2>1, <3>1, <3>2, NextStep
    <2>3. th[t].op = "freeAll" /\ th[t].pc + 1 = 9 /\ th[t].pc = 8 /\ cl.alive  BY <1>2, <1>8 DEF Calls
    <2>4. ~Shutting(t)' /\ ~Stages(t, 3)'
        BY <2>2, <2>3 DEF Moved, Shutting, Stages, Stage, Calls
    <2>5. Shutdowns'
        BY <1>2, <1>3, <1>5, <2>1, <2>2, <2>3, <2>4 DEF Moved, LifecycleInv, Shutdowns, Calls
    <2>6. Drained'
        BY <1>1, <1>2, <1>3, <1>4, <1>5, <1>6, <2>1, <2>2, <2>3, <2>4
           DEF Moved, LifecycleInv, Drained, Calls, Clear
    <2>7. ClientGone'  BY <1>1, <2>3 DEF LifecycleInv, ClientGone
    <2> QED  BY <2>2, <2>5, <2>6, <2>7 DEF LifecycleInv, Moved
<1> QED  BY <1>7, <1>8


\* The end of the client: the calls are out of its semaphore, and so hold no lock.
LEMMA FreeClientKeeps ==
    ASSUME LifecycleInv, NEW t \in Everyone, FreeClient(t)
    PROVE  LifecycleInv'
<1>1. /\ Stages(t, 8) /\ Calls(t, "freeAll") /\ UNCHANGED <<mode, st, timedOut>>
      /\ cl' = [cl EXCEPT !.alive = FALSE] /\ Leave(t)
    BY DEF FreeClient
<1>2. /\ t \in Threads /\ th[t].pc = 9 /\ ~Shutting(t)
    BY <1>1, StageGuards DEF Calls
<1>3. /\ th' = [th EXCEPT ![t] = Idle] /\ lock' = NoneHeld(t, lock) /\ sem' = Returned(t, sem)
    BY <1>1 DEF Leave
<1>4. /\ th' \in [Everyone -> Thread] /\ \A u \in Everyone : ThreadOK(th'[u])
      /\ th'[t] = Idle /\ \A u \in Everyone \ {t} : th'[u] = th[u]
    BY <1>3, PutThread, RecordsOK, InvTypes DEF Alike
<1>5. /\ sem' \in Semaphores /\ lock' \in LockTable
      /\ \A l \in Locks : lock'[l] = IF lock[l] = t THEN Nobody ELSE lock[l]
      /\ \A s \in Sems : sem'[s].locked = sem[s].locked /\ sem'[s].held = sem[s].held \ {t}
    BY <1>3, InvTypes, TablesKeepTypes
<1>6. cl' \in [alive : BOOLEAN, shutdown : BOOLEAN]  BY <1>1, InvTypes
<1>7. ThreadTypes'  BY <1>1, <1>4, <1>5, <1>6, InvTypes, TypesNext
<1>8. th'[t].op = "none" /\ th'[t].at = "run"  BY <1>4 DEF Idle
<1>9. ASSUME NEW u \in Threads  PROVE (Shutting(u)' <=> Shutting(u)) /\ (Stages(u, 3)' => Stages(u, 3))
    BY <1>1, <1>2, <1>4, <1>8, <1>9 DEF Shutting, Stages, Stage, Calls, Everyone
<1>10. Roles'
    BY <1>2, <1>4, <1>8, LifecycleAssumption DEF LifecycleInv, Roles, Calls, Everyone
<1>11. Entered'
    BY <1>2, <1>4, <1>5, <1>8, LifecycleAssumption
       DEF LifecycleInv, Entered, Calls, Everyone, Nobody, Locks, Sems, Blocking
<1>12. Shutdowns'
    BY <1>1, <1>2, <1>4, <1>5, <1>8, <1>9 DEF LifecycleInv, Shutdowns, Calls, Everyone, Locks, Sems
<1>13. Drained'
    BY <1>1, <1>2, <1>4, <1>5, <1>8, <1>9, LifecycleAssumption
       DEF LifecycleInv, Drained, Calls, Everyone, Clear, Locks, Sems
<1>14. ~st.alive /\ (~timedOut => Clear("csem") /\ th[Timer].op = "none")
    BY <1>1, <1>2 DEF LifecycleInv, Drained
<1>15. \A u \in Threads : th'[u].op # "freeAll"
    BY <1>1, <1>2, <1>4, <1>8 DEF LifecycleInv, Roles, Calls, Everyone
<1>16. ASSUME ~timedOut, NEW l \in Locks  PROVE lock'[l] = Nobody
    <2>1. ASSUME NEW u \in Threads, lock[l] = u, u # t  PROVE FALSE
        <3>1. ~Calls(u, "freeAll")  BY <1>1, <1>2, <2>1 DEF LifecycleInv, Roles
        <3>2. u \in sem["csem"].held  BY <2>1, <3>1 DEF LifecycleInv, Entered, Calls
        <3> QED  BY <1>14, <1>16, <3>2 DEF Clear
    <2>2. lock[l] # Timer  BY <1>14, <1>16 DEF LifecycleInv, Entered
    <2>3. lock[l] \in Everyone \cup {Nobody}  BY InvTypes DEF LockTable
    <2> QED  BY <1>5, <2>1, <2>2, <2>3 DEF Everyone
<1>17. ClientGone'
    <2>1. ~timedOut => Clear("csem")' /\ th'[Timer].op = "none"
        BY <1>2, <1>4, <1>5, <1>14, LifecycleAssumption DEF Clear, Sems, Everyone
    <2> QED  BY <1>1, <1>14, <1>15, <1>16, <2>1 DEF ClientGone
<1> QED  BY <1>7, <1>10, <1>11, <1>12, <1>13, <1>17 DEF LifecycleInv

-----------------------------------------------------------------------------
(* The theorem *)

LEMMA LifecycleInit == Init => LifecycleInv
<1> SUFFICES ASSUME Init PROVE LifecycleInv  OBVIOUS
<1>1. th \in [Everyone -> Thread] /\ \A t \in Everyone : th[t] = Idle  BY RecordsOK DEF Init, ThreadOK
<1>2. \A t \in Everyone : th[t].op = "none" /\ th[t].pc = 0 /\ th[t].at = "run"  BY <1>1 DEF Idle
<1>3. ThreadTypes
    BY <1>1, <1>2 DEF Init, ThreadTypes, TypeOK, Thread
<1>4. Roles  BY <1>2 DEF Roles, Calls, Everyone
<1>5. Entered  BY <1>2, LifecycleAssumption DEF Init, Entered, Calls, Everyone, Nobody
<1>6. \A t \in Threads : ~Shutting(t) /\ ~Stages(t, 3)  BY <1>2 DEF Shutting, Stages, Calls, Everyone
<1>7. Shutdowns  BY <1>2, <1>6 DEF Shutdowns, Calls, Everyone
<1>8. Drained  BY <1>2, <1>6 DEF Init, Drained, Calls, Everyone
<1>9. ClientGone  BY DEF Init, ClientGone
<1> QED  BY <1>3, <1>4, <1>5, <1>7, <1>8, <1>9 DEF LifecycleInv

LEMMA LifecycleStep == LifecycleInv /\ [Next]_vars => LifecycleInv'
<1> SUFFICES ASSUME LifecycleInv, [Next]_vars PROVE LifecycleInv'  OBVIOUS
<1>1. ASSUME NEW t \in Everyone, NEW op \in Operations, Begin(t, op)  PROVE LifecycleInv'
    BY <1>1, BeginKeeps
<1>2. ASSUME NEW t \in Everyone, Step(t)  PROVE LifecycleInv'
    <2>1. CASE Freeing(t)
        BY <2>1, ClientShutdownKeeps, ShutdownFlagKeeps, ShutdownBroadcastKeeps, ShutdownDrainedKeeps,
           ClientDrainedKeeps, TimersDoneKeeps, ListAgainKeeps, FreeStreamKeeps, FreeClientKeeps DEF Freeing
    <2>2. CASE ~Freeing(t)
        BY <1>2, <2>2, AcquireKeeps, TakeLockKeeps, LookKeeps, SleepKeeps, WakeKeeps, StopWorkKeeps,
           EventKeeps DEF Step
    <2> QED  BY <2>1, <2>2
<1>3. ASSUME NEW t \in Threads, WaitTimeout(t)  PROVE LifecycleInv'
    BY <1>3, WaitTimeoutKeeps
<1>4. CASE CallbackWork \/ CallbackEmpty  BY <1>4, CallbackKeeps
<1>5. CASE UNCHANGED vars
    <2>1. UNCHANGED <<mode, cl, st, sem, lock, th, timedOut>>  BY <1>5 DEF vars
    <2>2. \A t : (Shutting(t)' <=> Shutting(t)) /\ (Stages(t, 3)' <=> Stages(t, 3))
        BY <2>1 DEF Shutting, Stages, Stage, Calls
    <2>3. ThreadTypes' /\ Roles' /\ Entered'
        BY <2>1 DEF LifecycleInv, ThreadTypes, TypeOK, Roles, Entered, Calls
    <2>4. Shutdowns' /\ Drained' /\ ClientGone'
        BY <2>1, <2>2 DEF LifecycleInv, Shutdowns, Drained, ClientGone, Calls, Clear
    <2> QED  BY <2>3, <2>4 DEF LifecycleInv
<1> QED  BY <1>1, <1>2, <1>3, <1>4, <1>5 DEF Next

LEMMA LifecycleImplies == LifecycleInv => FreedUnused
<1> SUFFICES ASSUME LifecycleInv PROVE FreedUnused  OBVIOUS
<1>1. TypeOK  BY DEF LifecycleInv, ThreadTypes
<1>2. ASSUME ~timedOut, ~st.alive, NEW t \in Everyone  PROVE ~UsesStream(t)
    <2>1. Clear("ssem") /\ lock["coord"] = Nobody /\ lock["stream"] = Nobody
        BY <1>2 DEF LifecycleInv, Drained
    <2>2. lock["coord"] # t /\ lock["stream"] # t  BY <2>1, LifecycleAssumption DEF Nobody, Everyone
    <2>3. th[t].at = "run"
        <3>1. ASSUME th[t].at # "run"  PROVE FALSE
            <4>1. th[t].op \in Blocking /\ th[t].pc > 3 /\ th[t].pc \in Nat
                BY <3>1 DEF LifecycleInv, Entered, ThreadTypes
            <4>2. t \in Threads  BY <4>1 DEF LifecycleInv, Roles, Everyone, Blocking
            <4>3. th[t].pc > 2  BY <4>1
            <4>4. t \in sem["ssem"].held  BY <4>1, <4>2, <4>3 DEF LifecycleInv, Entered
            <4> QED  BY <2>1, <4>4 DEF Clear
        <3> QED  BY <3>1
    <2> QED  BY <2>1, <2>2, <2>3 DEF UsesStream, Held, Clear
<1>3. ASSUME ~timedOut, ~cl.alive, NEW t \in Everyone
      PROVE  Held(t) = {} /\ \A s \in Sems : t \notin sem[s].held
    <2>1. ~st.alive /\ Clear("csem") /\ \A l \in Locks : lock[l] = Nobody
        BY <1>3 DEF LifecycleInv, ClientGone
    <2>2. Clear("ssem")  BY <1>3, <2>1 DEF LifecycleInv, Drained
    <2> QED  BY <2>1, <2>2, LifecycleAssumption DEF Held, Clear, Sems, Nobody, Everyone
<1> QED  BY <1>1, <1>2, <1>3 DEF FreedUnused

\* Nothing of a freed stream or client is in use unless a drain timed out, whichever of
\* freeKinesisVideoStream, a failed creation and freeKinesisVideoClient frees it, for every
\* set of threads and configurations (shutdownStream, freeStream, freeKinesisVideoClientInternal).
THEOREM LifecycleSafety == Spec => []FreedUnused
<1>1. Init => LifecycleInv  BY LifecycleInit
<1>2. LifecycleInv /\ [Next]_vars => LifecycleInv'  BY LifecycleStep
<1>3. LifecycleInv => FreedUnused  BY LifecycleImplies
<1> QED  BY <1>1, <1>2, <1>3, PTL DEF Spec
=============================================================================
