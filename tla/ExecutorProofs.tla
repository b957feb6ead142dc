---------------------------- MODULE ExecutorProofs ----------------------------
(***************************************************************************)
(* The safety of the two executors of utils, for any number of threads,    *)
(* tasks and timers.                                                       *)
(*                                                                         *)
(* The pool: PoolInv is inductive.  That nobody touches a freed pool       *)
(* follows from two things it adds to what the run checks: a thread that   *)
(* lives is in the list or has been told to end (Known), and the           *)
(* termination tasks that are queued or taken account for the difference   *)
(* between those sent and those finished (TasksLedger).                    *)
(***************************************************************************)
EXTENDS TimerQueue, ThreadPool, FiniteSetTheorems, SequenceTheorems, TLAPS

PoolSpec == PoolInit /\ [][PoolNext]_poolVars

\* The actors that wait at the queue, and those that have a termination task.
Waiting == {a \in Actors : actor[a].pc \in {"deq", "pop"}}
Terminating == {a \in Actors : actor[a].task = "term"}

Places == {"gone", "start", "loop", "deq", "pop", "run", "after", "list", "exit"}
\* threadpoolFree has cleared the queue: the tasks in it are its own.
Cleared == owner \notin {"open", "clear"}

\* Types beyond PoolTypeOK.
PoolTypes ==
    /\ actor \in [Actors -> [pc : Places, terminate : BOOLEAN, task : {NoTask, "user", "term"}]]
    /\ list \in Seq(Actors) /\ permits \in Nat /\ avail \in Nat /\ signals \in 0 .. MaxThreads
    /\ owner \in {"open", "clear", "iterate", "sleep", "drain", "help", "acquire", "relock", "freed"}
    /\ sent \in Nat /\ finished \in Nat
    /\ items \in Seq(IF Cleared THEN {"term"} ELSE {"user"})

\* threadpoolFree marks only actors whose mutex it could take.
Told == \A a \in Actors :
    /\ actor[a].terminate => actor[a].pc \notin DataLocked
    /\ actor[a].task # NoTask => actor[a].pc = "run"

\* A thread that lives and is not on its way out is in the list, or told to end.
Known == \A a \in Actors :
    actor[a].pc \in {"gone", "exit"} \/ a \in Listed \/ actor[a].terminate

\* Nobody is inside threadpoolPush once threadpoolFree runs; no thread has been told
\* to end before, and all have at the end.
Phases ==
    /\ terminated <=> owner # "open"
    /\ owner = "open" => \A a \in Actors : ~actor[a].terminate
    /\ owner # "open" => \A c \in Callers : Calls(c, "idle")
    /\ owner \in {"drain", "help", "acquire", "relock", "freed"} => list = << >>

\* availableThreads counts the waiting; the termination tasks are all accounted for.
TasksLedger ==
    /\ avail = Cardinality(Waiting)
    /\ sent = finished + Cardinality(Terminating) + (IF Cleared THEN Len(items) ELSE 0)
    /\ owner = "freed" => finished >= sent

PoolInv == PoolTypes /\ Told /\ Known /\ Phases /\ TasksLedger


-----------------------------------------------------------------------------
(* The pool.                                                               *)

(* The actors are finitely many, so both counts are natural numbers.       *)
LEMMA ActorsFinite ==
    ASSUME NEW S \in SUBSET Actors
    PROVE  IsFiniteSet(S) /\ Cardinality(S) \in Nat /\ (Cardinality(S) = 0 <=> S = {})
<1>1. IsFiniteSet(S)
  BY FS_Subset, PoolAssumption
<1> QED
  BY <1>1, FS_CardinalityType, FS_EmptySet

(* One actor joins a set of actors, or leaves it.                          *)
LEMMA OneJoins ==
    ASSUME NEW S \in SUBSET Actors, NEW a \in Actors, a \notin S
    PROVE  Cardinality(S \cup {a}) = Cardinality(S) + 1
BY ActorsFinite, FS_AddElement

LEMMA OneLeaves ==
    ASSUME NEW S \in SUBSET Actors, NEW a \in S
    PROVE  Cardinality(S \ {a}) = Cardinality(S) - 1
BY ActorsFinite, FS_RemoveElement

(* What stackQueueRemoveItem leaves of a list that holds the actor: a      *)
(* list of actors without none of the others.                              *)
LEMMA WithoutKeepsOthers ==
    ASSUME NEW s \in Seq(Actors), NEW a \in Actors, \E k \in DOMAIN s : s[k] = a
    PROVE  /\ Without(s, a) \in Seq(Actors)
           /\ \A k \in DOMAIN s : s[k] = a \/ \E j \in DOMAIN Without(s, a) : Without(s, a)[j] = s[k]
<1> DEFINE k == CHOOSE k \in DOMAIN s : s[k] = a
           w == [j \in 1 .. Len(s) - 1 |-> s[IF j < k THEN j ELSE j + 1]]
<1>1. k \in DOMAIN s /\ s[k] = a /\ Without(s, a) = w
  BY DEF Without
<1>2. Len(s) \in Nat /\ DOMAIN s = 1 .. Len(s) /\ k \in 1 .. Len(s)
  BY <1>1
<1> HIDE DEF k
<1>3. \A j \in 1 .. Len(s) - 1 : (IF j < k THEN j ELSE j + 1) \in 1 .. Len(s)
  BY <1>2
<1>4. w \in [1 .. Len(s) - 1 -> Actors]
  BY <1>2, <1>3
<1>5. w \in Seq(Actors)
  <2>1. Len(s) - 1 \in Nat
    BY <1>2
  <2> QED
    BY <1>4, <2>1, SeqDef
<1>6. ASSUME NEW i \in DOMAIN s, s[i] # a
      PROVE  \E j \in DOMAIN w : w[j] = s[i]
  <2>1. i \in 1 .. Len(s) /\ i # k
    BY <1>1, <1>2, <1>6
  <2>2. CASE i < k
    BY <1>2, <2>1, <2>2
  <2>3. CASE k < i
    <3>1. i - 1 \in 1 .. Len(s) - 1 /\ ~(i - 1 < k) /\ i - 1 + 1 = i
      BY <1>2, <2>1, <2>3
    <3>2. w[i - 1] = s[i]
      BY <3>1
    <3> QED
      BY <3>1, <3>2
  <2> QED
    BY <1>2, <2>1, <2>2, <2>3
<1> QED
  BY <1>1, <1>5, <1>6

(* The counts after a step that moves one actor.                           *)
LEMMA ActorMoves ==
    ASSUME NEW a \in Actors, \A b \in Actors \ {a} : actor'[b] = actor[b]
    PROVE  /\ Cardinality(Waiting') = Cardinality(Waiting)
                + (IF actor'[a].pc \in {"deq", "pop"} THEN 1 ELSE 0)
                - (IF actor[a].pc \in {"deq", "pop"} THEN 1 ELSE 0)
           /\ Cardinality(Terminating') = Cardinality(Terminating)
                + (IF actor'[a].task = "term" THEN 1 ELSE 0)
                - (IF actor[a].task = "term" THEN 1 ELSE 0)
           /\ Cardinality(Waiting) \in Nat /\ Cardinality(Terminating) \in Nat
<1>1. Waiting \in SUBSET Actors /\ Terminating \in SUBSET Actors
  BY DEF Waiting, Terminating
<1>2. Cardinality(Waiting) \in Nat /\ Cardinality(Terminating) \in Nat
  BY <1>1, ActorsFinite
<1>3. a \in Waiting <=> actor[a].pc \in {"deq", "pop"}
  BY DEF Waiting
<1>4. a \in Terminating <=> actor[a].task = "term"
  BY DEF Terminating
<1>5. Waiting' = IF actor'[a].pc \in {"deq", "pop"} THEN Waiting \cup {a} ELSE Waiting \ {a}
  BY DEF Waiting
<1>6. Terminating' = IF actor'[a].task = "term" THEN Terminating \cup {a} ELSE Terminating \ {a}
  BY DEF Terminating
<1>7. ASSUME NEW S \in SUBSET Actors
      PROVE  /\ a \in S => Cardinality(S \ {a}) = Cardinality(S) - 1 /\ S \cup {a} = S
             /\ a \notin S => Cardinality(S \cup {a}) = Cardinality(S) + 1 /\ S \ {a} = S
  BY OneJoins, OneLeaves
<1>8. /\ a \in Waiting => Cardinality(Waiting \ {a}) = Cardinality(Waiting) - 1 /\ Waiting \cup {a} = Waiting
      /\ a \notin Waiting => Cardinality(Waiting \cup {a}) = Cardinality(Waiting) + 1 /\ Waiting \ {a} = Waiting
  BY <1>1, <1>7
<1>9. /\ a \in Terminating => Cardinality(Terminating \ {a}) = Cardinality(Terminating) - 1
                              /\ Terminating \cup {a} = Terminating
      /\ a \notin Terminating => Cardinality(Terminating \cup {a}) = Cardinality(Terminating) + 1
                                 /\ Terminating \ {a} = Terminating
  BY <1>1, <1>7
<1>10. Cardinality(Waiting') = Cardinality(Waiting)
                + (IF actor'[a].pc \in {"deq", "pop"} THEN 1 ELSE 0)
                - (IF actor[a].pc \in {"deq", "pop"} THEN 1 ELSE 0)
  <2>1. CASE actor'[a].pc \in {"deq", "pop"}
    <3>1. Cardinality(Waiting') = IF a \in Waiting THEN Cardinality(Waiting) ELSE Cardinality(Waiting) + 1
      BY <1>5, <1>8, <2>1
    <3> QED
      BY <1>2, <1>3, <2>1, <3>1
  <2>2. CASE actor'[a].pc \notin {"deq", "pop"}
    <3>1. Cardinality(Waiting') = IF a \in Waiting THEN Cardinality(Waiting) - 1 ELSE Cardinality(Waiting)
      BY <1>5, <1>8, <2>2
    <3> QED
      BY <1>2, <1>3, <2>2, <3>1
  <2> QED
    BY <2>1, <2>2
<1>11. Cardinality(Terminating') = Cardinality(Terminating)
                + (IF actor'[a].task = "term" THEN 1 ELSE 0)
                - (IF actor[a].task = "term" THEN 1 ELSE 0)
  <2>1. CASE actor'[a].task = "term"
    <3>1. Cardinality(Terminating') =
            IF a \in Terminating THEN Cardinality(Terminating) ELSE Cardinality(Terminating) + 1
      BY <1>6, <1>9, <2>1
    <3> QED
      BY <1>2, <1>4, <2>1, <3>1
  <2>2. CASE actor'[a].task # "term"
    <3>1. Cardinality(Terminating') =
            IF a \in Terminating THEN Cardinality(Terminating) - 1 ELSE Cardinality(Terminating)
      BY <1>6, <1>9, <2>2
    <3> QED
      BY <1>2, <1>4, <2>2, <3>1
  <2> QED
    BY <2>1, <2>2
<1> QED
  BY <1>2, <1>10, <1>11


(* threadpoolCreate finds as many identities as it starts threads.         *)
LEMMA PoolInitInv ==
    PoolInit => PoolInv
<1> SUFFICES ASSUME PoolInit PROVE PoolInv
  OBVIOUS
<1>1. \E q \in [1 .. MinThreads -> Actors] : \A j, k \in 1 .. MinThreads : q[j] = q[k] => j = k
  <2>1. Cardinality(Actors) \in Nat /\ MinThreads \in 1 .. Cardinality(Actors)
    BY PoolAssumption, FS_CardinalityType
  <2>2. PICK f \in Bijection(1 .. Cardinality(Actors), Actors) : TRUE
    BY PoolAssumption, FS_CardinalityType DEF ExistsBijection
  <2>3. /\ f \in [1 .. Cardinality(Actors) -> Actors]
        /\ \A j, k \in 1 .. Cardinality(Actors) : f[j] = f[k] => j = k
    BY <2>2 DEF Bijection, Injection, IsInjective
  <2>4. 1 .. MinThreads \subseteq 1 .. Cardinality(Actors)
    BY <2>1
  <2> DEFINE q == [j \in 1 .. MinThreads |-> f[j]]
  <2>5. q \in [1 .. MinThreads -> Actors] /\ \A j, k \in 1 .. MinThreads : q[j] = q[k] => j = k
    BY <2>3, <2>4
  <2> QED
    BY <2>5
<1>2. list \in [1 .. MinThreads -> Actors]
  BY <1>1 DEF PoolInit
<1>3. list \in Seq(Actors)
  BY <1>2, SeqDef, PoolAssumption
<1>4. PoolTypes
  BY <1>3, PoolAssumption DEF PoolInit, PoolTypes, Cleared, New, Gone, Places, NoTask
<1>5. Told /\ Known /\ Phases
  BY DEF PoolInit, Told, Known, Phases, New, Gone, NoTask, DataLocked, Calls, IdleCaller
<1>6. Waiting = {} /\ Terminating = {}
  BY DEF PoolInit, Waiting, Terminating, New, Gone, NoTask
<1>7. TasksLedger
  BY <1>6, FS_EmptySet DEF PoolInit, TasksLedger, Cleared
<1> QED
  BY <1>4, <1>5, <1>7 DEF PoolInv

(* An actor that moves from one place to another without a task, and       *)
(* neither to nor from the queue, and stays known.                         *)
LEMMA ActorSteps ==
    ASSUME PoolInv, NEW a \in Actors, NEW p \in Places \ {"deq", "pop"}, actor[a].pc \notin {"deq", "pop", "run"},
           actor' = [actor EXCEPT ![a].pc = p],
           actor[a].terminate => p \notin DataLocked,
           p \in {"gone", "exit"} \/ (actor[a].pc \notin {"gone", "exit"} /\ list' = list),
           list' \in Seq(Actors), \A b \in Actors \ {a} : b \in Listed => b \in Listed', list = << >> => list' = list,
           UNCHANGED <<items, permits, avail>>, UNCHANGED OfOwner
    PROVE  PoolInv'
<1>1. /\ \A b \in Actors \ {a} : actor'[b] = actor[b]
      /\ actor'[a] = [actor[a] EXCEPT !.pc = p]
      /\ actor'[a].pc = p /\ actor'[a].task = actor[a].task /\ actor'[a].terminate = actor[a].terminate
  BY DEF PoolInv, PoolTypes
<1>2. actor[a].task = NoTask
  BY DEF PoolInv, Told
<1>3. PoolTypes'
  BY DEF PoolInv, PoolTypes, OfOwner, Cleared
<1>4. Told'
  BY <1>1, <1>2 DEF PoolInv, Told
<1>5. Known'
  BY <1>1 DEF PoolInv, Known, Listed
<1>6. Phases'
  BY <1>1 DEF PoolInv, Phases, OfOwner, Calls
<1>7. Cardinality(Waiting') = Cardinality(Waiting) /\ Cardinality(Terminating') = Cardinality(Terminating)
  BY <1>1, <1>2, ActorMoves, SMTT(20) DEF NoTask
<1>8. TasksLedger'
  BY <1>7 DEF PoolInv, TasksLedger, OfOwner, Cleared
<1> QED
  BY <1>3, <1>4, <1>5, <1>6, <1>8 DEF PoolInv

LEMMA ActorStartStep ==
    ASSUME PoolInv, NEW a \in Actors, ActorStart(a)
    PROVE  PoolInv'
BY ActorSteps DEF ActorStart, Is, To, Places, DataLocked, PoolInv, PoolTypes, Listed

LEMMA ActorAfterStep ==
    ASSUME PoolInv, NEW a \in Actors, ActorAfter(a)
    PROVE  PoolInv'
BY ActorSteps DEF ActorAfter, Is, To, Places, DataLocked, PoolInv, PoolTypes, Listed

LEMMA ActorExitStep ==
    ASSUME PoolInv, NEW a \in Actors, ActorExit(a)
    PROVE  PoolInv'
<1>1. /\ \A b \in Actors \ {a} : actor'[b] = actor[b]
      /\ actor'[a] = Gone /\ actor[a].pc = "exit" /\ actor[a].task = NoTask
  BY DEF PoolInv, PoolTypes, Told, ActorExit, Is
<1>2. PoolTypes'
  BY DEF PoolInv, PoolTypes, ActorExit, OfOwner, Cleared, Gone, Places, NoTask
<1>3. Told' /\ Known'
  BY <1>1 DEF PoolInv, Told, Known, Listed, ActorExit, Gone, DataLocked
<1>4. Phases'
  BY <1>1 DEF PoolInv, Phases, ActorExit, OfOwner, Calls, Gone
<1>5. Cardinality(Waiting') = Cardinality(Waiting) /\ Cardinality(Terminating') = Cardinality(Terminating)
  BY <1>1, ActorMoves DEF NoTask, Gone
<1>6. TasksLedger'
  BY <1>5 DEF PoolInv, TasksLedger, ActorExit, OfOwner, Cleared
<1> QED
  BY <1>2, <1>3, <1>4, <1>6 DEF PoolInv

(* An actor that is not needed leaves the list together with its place.    *)
LEMMA ActorListStep ==
    ASSUME PoolInv, NEW a \in Actors, ActorList(a)
    PROVE  PoolInv'
<1>1. actor[a].pc = "list" /\ ~actor[a].terminate /\ a \in Listed
  BY DEF ActorList, Is, PoolInv, Told, Known, DataLocked
<1>2. CASE list' = list
  <2>1. PICK p \in {"exit", "loop"} : actor' = [actor EXCEPT ![a].pc = p]
    BY DEF ActorList, To
  <2>2. p \in Places \ {"deq", "pop"} /\ p \notin DataLocked
    BY DEF Places, DataLocked
  <2>3. list' \in Seq(Actors) /\ \A b \in Actors \ {a} : b \in Listed => b \in Listed'
    BY <1>2 DEF PoolInv, PoolTypes, Listed
  <2>4. UNCHANGED <<items, permits, avail>> /\ UNCHANGED OfOwner
    BY DEF ActorList
  <2> QED
    BY <1>1, <1>2, <2>1, <2>2, <2>3, <2>4, ActorSteps
<1>3. CASE list' # list
  <2>1. list' = Without(list, a) /\ actor' = [actor EXCEPT ![a].pc = "exit"]
    BY <1>3 DEF ActorList, To
  <2>2. \E k \in DOMAIN list : list[k] = a
    BY <1>1 DEF Listed
  <2>3. list' \in Seq(Actors) /\ \A b \in Actors \ {a} : b \in Listed => b \in Listed'
    BY <2>1, <2>2, WithoutKeepsOthers DEF Listed, PoolInv, PoolTypes
  <2>4. list # << >>
    BY <2>2
  <2> QED
    BY <1>1, <2>1, <2>3, <2>4, ActorSteps DEF ActorList, Places, DataLocked, PoolInv, PoolTypes
<1> QED
  BY <1>2, <1>3


(* The waiting are counted when they come to the queue and when they go.   *)
LEMMA ActorLoopStep ==
    ASSUME PoolInv, NEW a \in Actors, ActorLoop(a)
    PROVE  PoolInv'
<1>1. CASE actor[a].terminate
  <2>1. /\ actor' = [actor EXCEPT ![a].pc = "exit"] /\ list' = list /\ actor[a].pc = "loop"
        /\ UNCHANGED <<items, permits, avail>> /\ UNCHANGED OfOwner
    BY <1>1 DEF ActorLoop, Is, To
  <2>2. "exit" \in Places \ {"deq", "pop"} /\ "exit" \notin DataLocked
    BY DEF Places, DataLocked
  <2>3. list' \in Seq(Actors) /\ \A b \in Actors \ {a} : b \in Listed => b \in Listed'
    BY <2>1 DEF PoolInv, PoolTypes, Listed
  <2> QED
    BY <2>1, <2>2, <2>3, ActorSteps
<1>2. CASE ~actor[a].terminate
  <2>1. /\ \A b \in Actors \ {a} : actor'[b] = actor[b]
        /\ actor' = [actor EXCEPT ![a].pc = "deq"] /\ avail' = avail + 1
        /\ actor'[a].pc = "deq" /\ actor'[a].task = actor[a].task /\ actor'[a].terminate = actor[a].terminate
        /\ actor[a].pc = "loop" /\ actor[a].task = NoTask
    BY <1>2 DEF PoolInv, PoolTypes, Told, ActorLoop, Is, To
  <2>2. PoolTypes'
    BY <2>1 DEF PoolInv, PoolTypes, ActorLoop, OfOwner, Cleared, Places
  <2>3. Told' /\ Known'
    BY <1>2, <2>1 DEF PoolInv, Told, Known, Listed, ActorLoop
  <2>4. Phases'
    BY <2>1 DEF PoolInv, Phases, ActorLoop, OfOwner, Calls
  <2>5. Cardinality(Waiting') = Cardinality(Waiting) + 1 /\ Cardinality(Terminating') = Cardinality(Terminating)
    BY <2>1, ActorMoves DEF NoTask
  <2>6. TasksLedger'
    BY <2>1, <2>5 DEF PoolInv, TasksLedger, ActorLoop, OfOwner, Cleared
  <2> QED
    BY <2>2, <2>3, <2>4, <2>6 DEF PoolInv
<1> QED
  BY <1>1, <1>2

(* An actor that waits has not been told to end.                           *)
LEMMA ActorPermitStep ==
    ASSUME PoolInv, NEW a \in Actors, ActorPermit(a)
    PROVE  PoolInv'
<1>1. /\ \A b \in Actors \ {a} : actor'[b] = actor[b]
      /\ actor' = [actor EXCEPT ![a].pc = "pop"]
      /\ actor'[a].pc = "pop" /\ actor'[a].task = actor[a].task /\ actor'[a].terminate = actor[a].terminate
      /\ actor[a].pc = "deq" /\ actor[a].task = NoTask
  BY DEF PoolInv, PoolTypes, Told, ActorPermit, Is, To
<1>2. PoolTypes'
  BY <1>1 DEF PoolInv, PoolTypes, ActorPermit, OfOwner, Cleared, Places
<1>3. Told' /\ Known'
  BY <1>1 DEF PoolInv, Told, Known, Listed, ActorPermit, DataLocked
<1>4. Phases'
  BY <1>1 DEF PoolInv, Phases, ActorPermit, OfOwner, Calls
<1>5. Cardinality(Waiting') = Cardinality(Waiting) /\ Cardinality(Terminating') = Cardinality(Terminating)
  BY <1>1, ActorMoves DEF NoTask
<1>6. TasksLedger'
  BY <1>5 DEF PoolInv, TasksLedger, ActorPermit, OfOwner, Cleared
<1> QED
  BY <1>2, <1>3, <1>4, <1>6 DEF PoolInv

(* The first task of the queue: a termination task once the queue has      *)
(* been cleared, a task of a user before.                                  *)
LEMMA HeadTask ==
    ASSUME PoolInv, items # << >>
    PROVE  /\ Head(items) = IF Cleared THEN "term" ELSE "user"
           /\ Tail(items) \in Seq(IF Cleared THEN {"term"} ELSE {"user"})
           /\ Len(Tail(items)) = Len(items) - 1 /\ Len(items) \in Nat \ {0}
<1> DEFINE S == IF Cleared THEN {"term"} ELSE {"user"}
<1>1. items \in Seq(S)
  BY DEF PoolInv, PoolTypes
<1>2. Head(items) \in S /\ Tail(items) \in Seq(S) /\ Len(Tail(items)) = Len(items) - 1
  BY <1>1, HeadTailProperties
<1>3. Len(items) \in Nat \ {0}
  BY <1>1, EmptySeq
<1> QED
  BY <1>2, <1>3

LEMMA ActorDequeueStep ==
    ASSUME PoolInv, NEW a \in Actors, ActorDequeue(a)
    PROVE  PoolInv'
<1> DEFINE got == items # << >>
<1>1. /\ \A b \in Actors \ {a} : actor'[b] = actor[b]
      /\ actor'[a].pc = (IF got THEN "run" ELSE "after") /\ actor'[a].terminate = actor[a].terminate
      /\ actor'[a].task = (IF got THEN Head(items) ELSE NoTask)
      /\ actor[a].pc = "pop" /\ actor[a].task = NoTask /\ ~actor[a].terminate
  BY DEF PoolInv, PoolTypes, Told, ActorDequeue, Is, To, DataLocked
<1>2. Cardinality(Waiting') = Cardinality(Waiting) - 1 /\ Cardinality(Waiting) \in Nat
  BY <1>1, ActorMoves DEF NoTask
<1>3. /\ Cardinality(Waiting') \in Nat /\ Cardinality(Terminating) \in Nat
      /\ Cardinality(Terminating') = Cardinality(Terminating) + (IF got /\ Cleared THEN 1 ELSE 0)
  <2>1. Waiting' \in SUBSET Actors
    BY DEF Waiting
  <2>2. Cardinality(Waiting') \in Nat
    BY <2>1, ActorsFinite
  <2>3. actor'[a].task = "term" <=> got /\ Cleared
    BY <1>1, HeadTask DEF NoTask
  <2> QED
    BY <1>1, <2>2, <2>3, ActorMoves DEF NoTask
<1>4. PoolTypes'
  <2>1. items' \in Seq(IF Cleared THEN {"term"} ELSE {"user"})
    BY HeadTask DEF ActorDequeue, PoolInv, PoolTypes
  <2>2. avail' \in Nat
    BY <1>2, <1>3 DEF ActorDequeue, PoolInv, TasksLedger
  <2>3. actor' \in [Actors -> [pc : Places, terminate : BOOLEAN, task : {NoTask, "user", "term"}]]
    BY HeadTask DEF ActorDequeue, PoolInv, PoolTypes, To, Places
  <2> QED
    BY <2>1, <2>2, <2>3 DEF PoolInv, PoolTypes, ActorDequeue, OfOwner, Cleared
<1>5. Told'
  BY <1>1 DEF PoolInv, Told, DataLocked
<1>6. Known'
  BY <1>1 DEF PoolInv, Known, Listed, ActorDequeue
<1>7. Phases'
  BY <1>1 DEF PoolInv, Phases, ActorDequeue, OfOwner, Calls
<1>8. TasksLedger'
  <2>3. Cleared' = Cleared /\ sent' = sent /\ finished' = finished /\ owner' = owner
    BY DEF ActorDequeue, OfOwner, Cleared
  <2>1. CASE got
    <3>1. items' = Tail(items) /\ avail' = avail - 1
      BY <2>1 DEF ActorDequeue
    <3>2. Len(items') = Len(items) - 1 /\ Len(items) \in Nat
      BY <2>1, <3>1, HeadTask
    <3> QED
      BY <2>1, <2>3, <1>2, <1>3, <3>1, <3>2 DEF PoolInv, PoolTypes, TasksLedger
  <2>2. CASE ~got
    BY <2>2, <1>2, <1>3 DEF PoolInv, PoolTypes, TasksLedger, ActorDequeue, OfOwner, Cleared
  <2> QED
    BY <2>1, <2>2
<1> QED
  BY <1>4, <1>5, <1>6, <1>7, <1>8 DEF PoolInv

(* A task ends; a termination task has been accounted for.                 *)
LEMMA UserTaskEndsStep ==
    ASSUME PoolInv, NEW a \in Actors, UserTaskEnds(a)
    PROVE  PoolInv'
<1>1. /\ \A b \in Actors \ {a} : actor'[b] = actor[b]
      /\ actor' = [actor EXCEPT ![a].pc = "after", ![a].task = NoTask]
      /\ actor'[a].pc = "after" /\ actor'[a].task = NoTask /\ actor'[a].terminate = actor[a].terminate
      /\ actor[a].pc = "run" /\ actor[a].task = "user"
  BY DEF PoolInv, PoolTypes, UserTaskEnds, Is
<1>2. PoolTypes'
  BY <1>1 DEF PoolInv, PoolTypes, UserTaskEnds, OfOwner, Cleared, Places
<1>3. Told' /\ Known'
  BY <1>1 DEF PoolInv, Told, Known, Listed, UserTaskEnds, DataLocked
<1>4. Phases'
  BY <1>1 DEF PoolInv, Phases, UserTaskEnds, OfOwner, Calls
<1>5. Cardinality(Waiting') = Cardinality(Waiting) /\ Cardinality(Terminating') = Cardinality(Terminating)
  <2>1. /\ actor[a].pc \notin {"deq", "pop"} /\ actor'[a].pc \notin {"deq", "pop"}
        /\ actor[a].task # "term" /\ actor'[a].task # "term"
    BY <1>1 DEF NoTask
  <2>2. /\ Cardinality(Waiting') = Cardinality(Waiting)
             + (IF actor'[a].pc \in {"deq", "pop"} THEN 1 ELSE 0)
             - (IF actor[a].pc \in {"deq", "pop"} THEN 1 ELSE 0)
        /\ Cardinality(Terminating') = Cardinality(Terminating)
             + (IF actor'[a].task = "term" THEN 1 ELSE 0)
             - (IF actor[a].task = "term" THEN 1 ELSE 0)
        /\ Cardinality(Waiting) \in Nat /\ Cardinality(Terminating) \in Nat
    BY <1>1, ActorMoves
  <2> QED
    BY <2>1, <2>2
<1>6. TasksLedger'
  BY <1>5 DEF PoolInv, TasksLedger, UserTaskEnds, OfOwner, Cleared
<1> QED
  BY <1>2, <1>3, <1>4, <1>6 DEF PoolInv

LEMMA ActorTerminationStep ==
    ASSUME PoolInv, NEW a \in Actors, ActorTermination(a)
    PROVE  PoolInv'
<1>1. /\ \A b \in Actors \ {a} : actor'[b] = actor[b]
      /\ actor' = [actor EXCEPT ![a].pc = "after", ![a].task = NoTask]
      /\ actor'[a].pc = "after" /\ actor'[a].task = NoTask /\ actor'[a].terminate = actor[a].terminate
      /\ actor[a].pc = "run" /\ actor[a].task = "term"
  BY DEF PoolInv, PoolTypes, ActorTermination, Is
<1>2. signals' \in 0 .. MaxThreads /\ finished' = finished + 1
  BY PoolAssumption DEF PoolInv, PoolTypes, ActorTermination, Terminate, TerminationReleases
<1>3. PoolTypes'
  <2>1. actor' \in [Actors -> [pc : Places, terminate : BOOLEAN, task : {NoTask, "user", "term"}]]
    BY <1>1 DEF PoolInv, PoolTypes, Places
  <2> QED
    BY <1>2, <2>1 DEF PoolInv, PoolTypes, ActorTermination, Cleared
<1>4. Told' /\ Known'
  BY <1>1 DEF PoolInv, Told, Known, Listed, ActorTermination, DataLocked
<1>5. Phases'
  BY <1>1 DEF PoolInv, Phases, ActorTermination, Calls
<1>6. /\ Cardinality(Waiting') = Cardinality(Waiting) /\ Cardinality(Terminating') = Cardinality(Terminating) - 1
      /\ Cardinality(Terminating) \in Nat
  <2>1. /\ actor[a].pc \notin {"deq", "pop"} /\ actor'[a].pc \notin {"deq", "pop"}
        /\ actor[a].task = "term" /\ actor'[a].task # "term"
    BY <1>1 DEF NoTask
  <2>2. /\ Cardinality(Waiting') = Cardinality(Waiting)
             + (IF actor'[a].pc \in {"deq", "pop"} THEN 1 ELSE 0)
             - (IF actor[a].pc \in {"deq", "pop"} THEN 1 ELSE 0)
        /\ Cardinality(Terminating') = Cardinality(Terminating)
             + (IF actor'[a].task = "term" THEN 1 ELSE 0)
             - (IF actor[a].task = "term" THEN 1 ELSE 0)
        /\ Cardinality(Waiting) \in Nat /\ Cardinality(Terminating) \in Nat
    BY <1>1, ActorMoves
  <2> QED
    BY <2>1, <2>2
<1>7. TasksLedger'
  <2>1. Cleared' = Cleared /\ sent' = sent /\ owner' = owner /\ items' = items /\ avail' = avail
    BY DEF ActorTermination, Cleared
  <2>2. Len(items) \in Nat
    BY LenProperties DEF PoolInv, PoolTypes
  <2>3. finished \in Nat /\ sent \in Nat /\ avail \in Nat
    BY DEF PoolInv, PoolTypes
  <2>4. TasksLedger
    BY DEF PoolInv
  <2>5. owner' = "freed" => finished' >= sent'
    BY <1>2, <2>1, <2>3, <2>4 DEF TasksLedger
  <2>6. sent' = finished' + Cardinality(Terminating') + (IF Cleared' THEN Len(items') ELSE 0)
    BY <1>2, <1>6, <2>1, <2>2, <2>3, <2>4 DEF TasksLedger
  <2> QED
    BY <1>6, <2>1, <2>4, <2>5, <2>6 DEF TasksLedger
<1> QED
  BY <1>3, <1>4, <1>5, <1>7 DEF PoolInv


-----------------------------------------------------------------------------
(* threadpoolTryAdd and threadpoolPush.                                    *)

(* A step of a caller that leaves the actors, the list and the queue alone.*)
LEMMA CallerSteps ==
    ASSUME PoolInv, owner = "open", UNCHANGED <<actor, list, items>>, permits' \in Nat, UNCHANGED OfPool
    PROVE  PoolInv'
<1>1. PoolTypes'
  BY DEF PoolInv, PoolTypes, OfPool, Cleared
<1>2. Told' /\ Known' /\ Phases'
  BY DEF PoolInv, Told, Known, Phases, Listed, OfPool
<1>3. TasksLedger'
  BY DEF PoolInv, TasksLedger, Waiting, Terminating, OfPool, Cleared
<1> QED
  BY <1>1, <1>2, <1>3 DEF PoolInv

(* A caller that is inside has come before the free.                       *)
LEMMA InsideOpen ==
    ASSUME PoolInv, NEW c \in Callers, ~Calls(c, "idle")
    PROVE  owner = "open"
BY DEF PoolInv, Phases

LEMMA CanCreateThreadStep ==
    ASSUME PoolInv, NEW c \in Callers, NEW try \in BOOLEAN, CanCreateThread(c, try)
    PROVE  PoolInv'
BY CallerSteps DEF CanCreateThread, PoolInv, PoolTypes

LEMMA InactiveThreadCountStep ==
    ASSUME PoolInv, NEW c \in Callers, InactiveThreadCount(c)
    PROVE  PoolInv'
<1>1. owner = "open"
  BY InsideOpen DEF InactiveThreadCount, Calls
<1> QED
  BY <1>1, CallerSteps DEF InactiveThreadCount, PoolInv, PoolTypes

LEMMA ReleaseTaskStep ==
    ASSUME PoolInv, NEW c \in Callers, ReleaseTask(c)
    PROVE  PoolInv'
<1>1. owner = "open"
  BY InsideOpen DEF ReleaseTask, Calls
<1> QED
  BY <1>1, CallerSteps DEF ReleaseTask, PoolInv, PoolTypes

(* The tasks of the callers are not of the queue's ledger.                 *)
LEMMA CreateTaskStep ==
    ASSUME PoolInv, NEW c \in Callers, CreateTask(c)
    PROVE  PoolInv'
<1>1. owner = "open" /\ ~Cleared
  BY InsideOpen DEF CreateTask, Calls, Cleared
<1>2. items' \in Seq({"user"})
  BY <1>1 DEF CreateTask, PoolInv, PoolTypes
<1>3. PoolTypes'
  BY <1>1, <1>2 DEF PoolInv, PoolTypes, CreateTask, OfPool, Cleared
<1>4. Told' /\ Known' /\ Phases'
  BY <1>1 DEF PoolInv, Told, Known, Phases, Listed, CreateTask, OfPool
<1>5. TasksLedger'
  BY <1>1 DEF PoolInv, TasksLedger, Waiting, Terminating, CreateTask, OfPool, Cleared
<1> QED
  BY <1>3, <1>4, <1>5 DEF PoolInv

(* An entry without a thread makes the list longer and nobody unknown.     *)
LEMMA CreateThreadFailsStep ==
    ASSUME PoolInv, NEW c \in Callers, CreateThreadFails(c)
    PROVE  PoolInv'
<1>1. owner = "open"
  BY InsideOpen DEF CreateThreadFails, Calls
<1>2. PICK a \in Actors : list' = Append(list, a)
  BY DEF CreateThreadFails
<1>3. list \in Seq(Actors) /\ list' \in Seq(Actors)
  BY <1>2 DEF PoolInv, PoolTypes
<1>4. Listed \subseteq Listed'
  <2>1. /\ DOMAIN list = 1 .. Len(list) /\ DOMAIN list' = 1 .. Len(list) + 1
        /\ Len(list) \in Nat /\ \A k \in 1 .. Len(list) : list'[k] = list[k]
    BY <1>2, <1>3
  <2> QED
    BY <2>1 DEF Listed
<1>5. PoolTypes'
  BY <1>3 DEF PoolInv, PoolTypes, CreateThreadFails, OfPool, Cleared
<1>6. Told' /\ Known'
  BY <1>4 DEF PoolInv, Told, Known, CreateThreadFails
<1>7. Phases'
  BY <1>1 DEF PoolInv, Phases, CreateThreadFails, OfPool
<1>8. TasksLedger'
  BY DEF PoolInv, TasksLedger, Waiting, Terminating, CreateThreadFails, OfPool, Cleared
<1> QED
  BY <1>5, <1>6, <1>7, <1>8 DEF PoolInv

(* A new thread is known: it is in the list before it runs.                *)
LEMMA CreateThreadStep ==
    ASSUME PoolInv, NEW c \in Callers, CreateThread(c)
    PROVE  PoolInv'
<1> DEFINE a == CHOOSE x \in Actors : Is(x, "gone")
<1>1. owner = "open"
  BY InsideOpen DEF CreateThread, Calls
<1>2. a \in Actors /\ actor[a].pc = "gone"
  BY DEF CreateThread, Is
<1>3. actor' = [actor EXCEPT ![a] = New] /\ list' = Append(list, a)
  BY DEF CreateThread
<1> HIDE DEF a
<1>4. /\ \A b \in Actors \ {a} : actor'[b] = actor[b]
      /\ actor'[a] = New
  BY <1>2, <1>3 DEF PoolInv, PoolTypes
<1>5. actor[a].task = NoTask
  BY <1>2 DEF PoolInv, Told
<1>6. list \in Seq(Actors) /\ list' \in Seq(Actors)
  BY <1>2, <1>3 DEF PoolInv, PoolTypes
<1>7. Listed \subseteq Listed' /\ a \in Listed'
  <2>1. /\ DOMAIN list = 1 .. Len(list) /\ DOMAIN list' = 1 .. Len(list) + 1
        /\ Len(list) \in Nat
        /\ \A k \in 1 .. Len(list) : list'[k] = list[k]
        /\ list'[Len(list) + 1] = a
    BY <1>2, <1>3, <1>6
  <2> QED
    BY <2>1 DEF Listed
<1>8. PoolTypes'
  <2>1. actor' \in [Actors -> [pc : Places, terminate : BOOLEAN, task : {NoTask, "user", "term"}]]
    BY <1>2, <1>3 DEF PoolInv, PoolTypes, New, Places
  <2> QED
    BY <1>6, <2>1 DEF PoolInv, PoolTypes, CreateThread, OfPool, Cleared
<1>9. Told' /\ Known'
  BY <1>4, <1>7 DEF PoolInv, Told, Known, New, DataLocked
<1>10. Phases'
  BY <1>1, <1>4 DEF PoolInv, Phases, CreateThread, OfPool, New
<1>11. Cardinality(Waiting') = Cardinality(Waiting) /\ Cardinality(Terminating') = Cardinality(Terminating)
  BY <1>2, <1>4, <1>5, ActorMoves DEF NoTask, New
<1>12. TasksLedger'
  BY <1>11 DEF PoolInv, TasksLedger, CreateThread, OfPool, Cleared
<1> QED
  BY <1>8, <1>9, <1>10, <1>12 DEF PoolInv


-----------------------------------------------------------------------------
(* threadpoolFree.                                                         *)

(* A step of the owner that leaves the actors, the list, the queue and the *)
(* account of the termination tasks alone.                                 *)
LEMMA OwnerSteps ==
    ASSUME PoolInv, UNCHANGED <<actor, list, items, sent, finished, avail, caller>>, signals' \in 0 .. MaxThreads,
           permits' \in Nat, owner \notin {"open", "clear", "freed"}, terminated' = terminated,
           owner' \in {"iterate", "sleep", "drain", "help", "acquire", "relock", "freed"},
           owner' \in {"iterate", "sleep"} \/ list = << >>, owner' = "freed" => finished >= sent
    PROVE  PoolInv'
<1>1. Cleared' /\ Cleared
  BY DEF Cleared
<1>2. PoolTypes'
  BY <1>1 DEF PoolInv, PoolTypes
<1>3. Told' /\ Known' /\ Phases'
  BY DEF PoolInv, Told, Known, Phases, Listed, Calls
<1>4. TasksLedger'
  BY <1>1 DEF PoolInv, TasksLedger, Waiting, Terminating
<1> QED
  BY <1>2, <1>3, <1>4 DEF PoolInv

LEMMA FreeQuietSteps ==
    ASSUME PoolInv, FreeLockList \/ FreeListDone \/ FreeDrain \/ FreeAcquire \/ FreeRelock \/ FreeEnd
    PROVE  PoolInv'
<1>1. CASE FreeLockList
  BY <1>1, OwnerSteps DEF FreeLockList, Owner, OfActors, PoolInv, PoolTypes
<1>2. CASE FreeListDone
  BY <1>2, OwnerSteps DEF FreeListDone, Owner, OfActors, PoolInv, PoolTypes
<1>3. CASE FreeDrain
  BY <1>3, OwnerSteps DEF FreeDrain, Owner, OfActors, PoolInv, PoolTypes, Phases
<1>4. CASE FreeAcquire
  <2>1. signals' \in 0 .. MaxThreads
    BY <1>4, PoolAssumption DEF FreeAcquire, PoolInv, PoolTypes
  <2> QED
    BY <1>4, <2>1, OwnerSteps DEF FreeAcquire, Owner, OfActors, PoolInv, PoolTypes, Phases
<1>5. CASE FreeRelock
  BY <1>5, OwnerSteps DEF FreeRelock, Owner, OfActors, PoolInv, PoolTypes, Phases
<1>6. CASE FreeEnd
  BY <1>6, OwnerSteps DEF FreeEnd, Owner, OfActors, PoolInv, PoolTypes, Phases
<1> QED
  BY <1>1, <1>2, <1>3, <1>4, <1>5, <1>6

(* The free begins, and clears the queue: no termination task is in it yet.*)
LEMMA FreeBeginStep ==
    ASSUME PoolInv, FreeBegin
    PROVE  PoolInv'
<1>1. owner = "open" /\ owner' = "clear" /\ ~Cleared /\ ~Cleared'
  BY DEF FreeBegin, Owner, Cleared
<1>2. PoolTypes'
  BY <1>1 DEF PoolInv, PoolTypes, FreeBegin, OfActors
<1>3. Told' /\ Known'
  BY DEF PoolInv, Told, Known, Listed, FreeBegin, OfActors
<1>4. Phases'
  BY <1>1 DEF PoolInv, Phases, FreeBegin, OfActors, Calls
<1>5. TasksLedger'
  BY <1>1 DEF PoolInv, TasksLedger, FreeBegin, OfActors, Waiting, Terminating
<1> QED
  BY <1>2, <1>3, <1>4, <1>5 DEF PoolInv

LEMMA FreeClearStep ==
    ASSUME PoolInv, FreeClear
    PROVE  PoolInv'
<1>1. owner = "clear" /\ owner' = "sleep" /\ ~Cleared /\ Cleared' /\ items' = << >> /\ Len(items') = 0
  BY DEF FreeClear, Owner, Cleared
<1>2. permits' \in Nat
  BY DEF PoolInv, PoolTypes, FreeClear
<1>3. PoolTypes'
  BY <1>1, <1>2 DEF PoolInv, PoolTypes, FreeClear, OfActors
<1>4. Told' /\ Known'
  BY DEF PoolInv, Told, Known, Listed, FreeClear, OfActors
<1>5. Phases'
  BY <1>1 DEF PoolInv, Phases, FreeClear, OfActors, Calls
<1>6. TasksLedger'
  BY <1>1 DEF PoolInv, TasksLedger, FreeClear, OfActors, Waiting, Terminating
<1> QED
  BY <1>3, <1>4, <1>5, <1>6 DEF PoolInv

(* An actor goes off the list only when it has been told to end.           *)
LEMMA FreeMarkStep ==
    ASSUME PoolInv, FreeMark
    PROVE  PoolInv'
<1> DEFINE a == Head(list)
<1>1. list \in Seq(Actors) /\ list # << >>
  BY DEF FreeMark, PoolInv, PoolTypes
<1>2. a \in Actors /\ Tail(list) \in Seq(Actors)
  BY <1>1, HeadTailProperties
<1>3. \A b \in Listed : b = a \/ b \in Listed'
  <2>1. ASSUME NEW k \in DOMAIN list PROVE list[k] = a \/ list[k] \in Listed'
    <3>1. /\ k \in 1 .. Len(list) /\ Len(list) \in Nat /\ list' = Tail(list)
          /\ Len(Tail(list)) = Len(list) - 1 /\ DOMAIN Tail(list) = 1 .. Len(list) - 1
          /\ \A i \in 1 .. Len(list) - 1 : Tail(list)[i] = list[i + 1]
          /\ a = list[1]
      BY <1>1, <1>2 DEF FreeMark
    <3>2. CASE k = 1
      BY <3>1, <3>2
    <3>3. CASE k # 1
      <4>1. k - 1 \in 1 .. Len(list) - 1 /\ k - 1 + 1 = k
        BY <3>1, <3>3
      <4>2. list'[k - 1] = list[k] /\ k - 1 \in DOMAIN list'
        BY <3>1, <4>1
      <4> QED
        BY <4>2 DEF Listed
    <3> QED
      BY <3>2, <3>3
  <2> QED
    BY <2>1 DEF Listed
<1>4. actor' = [actor EXCEPT ![a].terminate = TRUE] /\ list' = Tail(list) /\ actor[a].pc \notin DataLocked
  BY DEF FreeMark
<1> HIDE DEF a
<1>5. /\ \A b \in Actors \ {a} : actor'[b] = actor[b]
      /\ actor'[a].pc = actor[a].pc /\ actor'[a].task = actor[a].task
      /\ actor'[a].terminate = TRUE
  BY <1>2, <1>4 DEF PoolInv, PoolTypes
<1>6. PoolTypes'
  <2>1. actor' \in [Actors -> [pc : Places, terminate : BOOLEAN, task : {NoTask, "user", "term"}]]
    BY <1>2, <1>4 DEF PoolInv, PoolTypes
  <2> QED
    BY <1>2, <1>4, <2>1 DEF PoolInv, PoolTypes, FreeMark, OfActors, Cleared
<1>7. Told'
  BY <1>4, <1>5 DEF PoolInv, Told
<1>8. Known'
  BY <1>3, <1>5 DEF PoolInv, Known
<1>9. Phases'
  BY DEF PoolInv, Phases, FreeMark, OfActors, Calls
<1>10. Cardinality(Waiting') = Cardinality(Waiting) /\ Cardinality(Terminating') = Cardinality(Terminating)
  BY <1>2, <1>5, ActorMoves, SMTT(20)
<1>11. TasksLedger'
  BY <1>10 DEF PoolInv, TasksLedger, FreeMark, OfActors, Cleared
<1> QED
  BY <1>6, <1>7, <1>8, <1>9, <1>11 DEF PoolInv

(* The termination tasks that are sent are queued.                         *)
LEMMA FreeBusyStep ==
    ASSUME PoolInv, FreeBusy
    PROVE  PoolInv'
<1> DEFINE n == IF sent + Len(list) <= MaxSent THEN Len(list) ELSE 0
           q == [k \in 1 .. n |-> "term"]
<1>1. owner = "iterate" /\ owner' = "sleep" /\ Cleared /\ Cleared'
  BY DEF FreeBusy, Owner, Cleared
<1>2. n \in Nat
  BY DEF PoolInv, PoolTypes
<1>3. items' = items \o q /\ permits' = permits + n /\ sent' = sent + n
  BY DEF FreeBusy
<1>4. q \in Seq({"term"}) /\ Len(q) = n
  BY <1>2
<1> HIDE DEF n, q
<1>5. items \in Seq({"term"})
  BY <1>1 DEF PoolInv, PoolTypes
<1>6. items' \in Seq({"term"}) /\ Len(items') = Len(items) + n /\ Len(items) \in Nat
  BY <1>3, <1>4, <1>5, ConcatProperties, LenProperties
<1>7. PoolTypes'
  BY <1>1, <1>2, <1>3, <1>6 DEF PoolInv, PoolTypes, FreeBusy, OfActors
<1>8. Told' /\ Known'
  BY DEF PoolInv, Told, Known, Listed, FreeBusy, OfActors
<1>9. Phases'
  BY <1>1 DEF PoolInv, Phases, FreeBusy, OfActors, Calls
<1>10. TasksLedger'
  <2>1. Waiting' = Waiting /\ Terminating' = Terminating /\ finished' = finished /\ avail' = avail
    BY DEF FreeBusy, OfActors, Waiting, Terminating
  <2>2. finished \in Nat /\ sent \in Nat /\ Cardinality(Terminating) \in Nat
    BY ActorsFinite DEF PoolInv, PoolTypes, Terminating
  <2> QED
    BY <1>1, <1>2, <1>3, <1>6, <2>1, <2>2 DEF PoolInv, TasksLedger
<1> QED
  BY <1>7, <1>8, <1>9, <1>10 DEF PoolInv

(* The owner finishes one of the tasks itself.                             *)
LEMMA FreeHelpStep ==
    ASSUME PoolInv, FreeHelp
    PROVE  PoolInv'
<1>1. owner = "help" /\ owner' = "acquire" /\ Cleared /\ Cleared' /\ list = << >>
  BY DEF FreeHelp, Owner, Cleared, PoolInv, Phases
<1>2. CASE QueueCount = 0
  BY <1>1, <1>2, OwnerSteps DEF FreeHelp, OfActors, PoolInv, PoolTypes
<1>3. CASE QueueCount # 0
  <2>1. items \in Seq({"term"}) /\ items # << >>
    BY <1>1, <1>3 DEF PoolInv, PoolTypes, QueueCount
  <2>2. items' = Tail(items) /\ permits > 0 /\ permits' = permits - 1 /\ Terminate(1)
    BY <1>3 DEF FreeHelp
  <2>3. items' \in Seq({"term"}) /\ Len(items') = Len(items) - 1 /\ Len(items) \in Nat \ {0}
    BY <1>1, <2>1, <2>2, HeadTask
  <2>4. signals' \in 0 .. MaxThreads /\ finished' = finished + 1
    BY <2>2, PoolAssumption DEF PoolInv, PoolTypes, Terminate, TerminationReleases
  <2>5. PoolTypes'
    <3>1. permits' \in Nat /\ finished' \in Nat
      BY <2>2, <2>4 DEF PoolInv, PoolTypes
    <3> QED
      BY <1>1, <2>3, <2>4, <3>1 DEF PoolInv, PoolTypes, FreeHelp, OfActors
  <2>6. Told' /\ Known'
    BY DEF PoolInv, Told, Known, Listed, FreeHelp, OfActors
  <2>7. Phases'
    BY <1>1 DEF PoolInv, Phases, FreeHelp, OfActors, Calls
  <2>8. TasksLedger'
    <3>1. Waiting' = Waiting /\ Terminating' = Terminating /\ sent' = sent /\ avail' = avail
      BY DEF FreeHelp, OfActors, Waiting, Terminating
    <3>2. finished \in Nat /\ sent \in Nat /\ Cardinality(Terminating) \in Nat
      BY ActorsFinite DEF PoolInv, PoolTypes, Terminating
    <3> QED
      BY <1>1, <2>3, <2>4, <3>1, <3>2 DEF PoolInv, TasksLedger
  <2> QED
    BY <2>5, <2>6, <2>7, <2>8 DEF PoolInv
<1> QED
  BY <1>2, <1>3


-----------------------------------------------------------------------------
(* Every step of the pool keeps the invariant.                             *)
LEMMA PoolStep ==
    ASSUME PoolInv, [PoolNext]_poolVars
    PROVE  PoolInv'
<1>1. CASE UNCHANGED poolVars
  BY <1>1 DEF poolVars, PoolInv, PoolTypes, Told, Known, Phases, TasksLedger, Waiting, Terminating,
              Cleared, Listed, Calls
<1>2. ASSUME NEW a \in Actors, ActorStep(a) \/ UserTaskEnds(a)
      PROVE  PoolInv'
  BY <1>2, ActorStartStep, ActorLoopStep, ActorPermitStep, ActorDequeueStep, ActorTerminationStep,
     ActorAfterStep, ActorListStep, ActorExitStep, UserTaskEndsStep
  DEF ActorStep
<1>3. ASSUME NEW c \in Callers, (\E try \in BOOLEAN : CanCreateThread(c, try)) \/ CallerStep(c)
      PROVE  PoolInv'
  BY <1>3, CanCreateThreadStep, InactiveThreadCountStep, CreateTaskStep, ReleaseTaskStep, CreateThreadStep,
     CreateThreadFailsStep
  DEF CallerStep
<1>4. CASE FreeBegin \/ OwnerStep
  BY <1>4, FreeBeginStep, FreeClearStep, FreeMarkStep, FreeBusyStep, FreeHelpStep, FreeQuietSteps
  DEF OwnerStep
<1> QED
  BY <1>1, <1>2, <1>3, <1>4 DEF PoolNext

(* PoolInv says that nobody can touch what threadpoolFree has destroyed:   *)
(* the list is empty, so that every thread that lives has been told to end *)
(* and keeps away from the queue, and no termination task is left.         *)
LEMMA PoolInvSafe ==
    PoolInv => FreedPoolUntouched
<1> SUFFICES ASSUME PoolInv PROVE FreedPoolUntouched
  OBVIOUS
<1>1. PoolTypeOK
  BY DEF PoolInv, PoolTypes, PoolTypeOK, Places, Listed
<1>2. ASSUME owner = "freed", NEW a \in Actors
      PROVE  /\ actor[a].pc \notin DataLocked /\ actor[a].task # "term"
             /\ actor[a].pc \in {"start", "loop", "run", "after"} => actor[a].terminate
  <2>1. Listed = {} /\ Cleared
    BY <1>2 DEF PoolInv, Phases, Listed, Cleared
  <2>2. actor[a].pc \in {"gone", "exit"} \/ (actor[a].terminate /\ actor[a].pc \notin DataLocked)
    BY <2>1 DEF PoolInv, Known, Told
  <2>3. Terminating = {}
    <3>1. Cardinality(Terminating) \in Nat /\ (Cardinality(Terminating) = 0 <=> Terminating = {})
      BY ActorsFinite DEF Terminating
    <3>2. Len(items) \in Nat /\ finished \in Nat /\ sent \in Nat
      BY LenProperties DEF PoolInv, PoolTypes
    <3>3. sent = finished + Cardinality(Terminating) + Len(items) /\ finished >= sent
      BY <1>2, <2>1 DEF PoolInv, TasksLedger
    <3> QED
      BY <3>1, <3>2, <3>3
  <2> QED
    BY <2>2, <2>3 DEF Terminating, DataLocked
<1> QED
  BY <1>1, <1>2 DEF FreedPoolUntouched

(* The thread pool, its queue and the mutex of the termination tasks are   *)
(* not touched once threadpoolFree has destroyed them, whatever actors and *)
(* callers were on their way (Threadpool.c:79-105, 108, 366-374, 412-450). *)
THEOREM PoolSafety ==
    PoolSpec => []FreedPoolUntouched
<1>1. PoolInv /\ [PoolNext]_poolVars => PoolInv'
  BY PoolStep
<1> QED
  BY PoolInitInv, <1>1, PoolInvSafe, PTL DEF PoolSpec


-----------------------------------------------------------------------------
(* The timer queue.                                                        *)

TimerSpec == TimerInit /\ [][TimerNext]_timerVars

\* The executor is in the middle of looking at the timers, or was killed there:
\* activeTimerCount and invokeTime are not up to date.
Evaluating == {"scan", "call", "killed"}

TimerEntries == [fn : TimerData \cup {NoData}, at : 0 .. Never, period : Periods \cup {0}]
ExecStates == [pc : LockFree \cup Evaluating \cup {"top"}, i : 0 .. MaxTimers, index : Nat,
               cur : 0 .. MaxNow, removed : Nat, until : 0 .. Never]

TimerTypes ==
    /\ slots \in [Slots -> TimerEntries]
    /\ active \in 0 .. MaxTimers /\ next \in 0 .. Never /\ now \in 0 .. MaxNow
    /\ exec \in ExecStates
    /\ shut \in {"open", "shutdown", "done"} /\ kicked \subseteq Slots
    /\ upd = NoUpdate \/ upd \in [slot : Slots, period : Periods]

\* activeTimerCount is the number of timers, and of those that the executor has
\* taken off since it began to look at them.
CountKept ==
    /\ active = Cardinality(Set(slots)) + (IF exec.pc \in Evaluating THEN exec.removed ELSE 0)
    /\ exec.pc = "call" => exec.i \in Set(slots)

\* invokeTime is the time of the earliest timer or before it, but for a kick; the
\* executor that waits does so until invokeTime; it kills the queue on shutdown only.
WakesInTime ==
    /\ exec.pc \notin Evaluating => \A s \in Set(slots) \ kicked : next <= slots[s].at
    /\ exec.pc = "wait" => exec.until = next
    /\ exec.pc = "killed" => shut = "done"

TimerInv == TimerTypes /\ CountKept /\ WakesInTime


(* A non-empty set of naturals has a least element, a finite one also a    *)
(* greatest: the model's Min and Max.                                      *)
LEMMA LeastNatural ==
    ASSUME NEW S \in SUBSET Nat, S # {}
    PROVE  Min(S) \in S /\ \A y \in S : Min(S) <= y
<1>1. PICK x \in S : \A y \in S : ~(<<y, x>> \in OpToRel(<, Nat))
  BY NatLessThanWellFounded, WFMin
<1>2. \A y \in S : ~(y < x)
  BY <1>1 DEF OpToRel
<1>3. x \in Nat /\ \A y \in S : y \in Nat
  OBVIOUS
<1>4. \A y \in S : x <= y
  BY <1>2, <1>3
<1> QED
  BY <1>4 DEF Min

LEMMA GreatestNatural ==
    ASSUME NEW S \in SUBSET Nat, S # {}, IsFiniteSet(S)
    PROVE  Max(S) \in S /\ \A y \in S : y <= Max(S)
<1> DEFINE Topless == {T \in SUBSET S : T # {} /\ ~\E x \in T : \A y \in T : y <= x}
<1>1. CASE Topless = {}
  <2>1. PICK x \in S : \A y \in S : y <= x
    BY <1>1
  <2> QED
    BY <2>1 DEF Max
<1>2. CASE Topless # {}
  <2>1. Topless \subseteq FiniteSubsetsOf(S)
    BY FS_FiniteSubsetsOfFinite
  <2>2. PICK T \in Topless : \A U \in Topless : ~(<<U, T>> \in StrictSubsetOrdering(S))
    <3> HIDE DEF Topless
    <3> QED
      BY <1>2, <2>1, FS_StrictSubsetOrderingWellFounded, WFMin
  <2>3. PICK x \in T : TRUE
    BY <2>2
  <2> DEFINE U == T \ {x}
  <2>4. U \in SUBSET S /\ U # T /\ U \subseteq T /\ T \in SUBSET S
    BY <2>3
  <2>5. U \notin Topless
    BY <2>2, <2>4 DEF StrictSubsetOrdering
  <2>6. CASE U = {}
    <3>1. \A y \in T : y = x /\ y <= x
      BY <2>4, <2>6
    <3> QED
      BY <2>2, <2>3, <3>1
  <2>7. CASE U # {}
    <3>1. PICK z \in U : \A y \in U : y <= z
      BY <2>4, <2>5, <2>7
    <3>2. x \in Nat /\ z \in Nat /\ \A y \in T : y \in Nat
      BY <2>3, <2>4, <3>1
    <3>3. CASE x <= z
      <4>1. z \in T /\ \A y \in T : y <= z
        BY <3>1, <3>2, <3>3
      <4> QED
        BY <2>2, <4>1
    <3>4. CASE z <= x
      <4>1. x \in T /\ \A y \in T : y <= x
        BY <3>1, <3>2, <3>4
      <4> QED
        BY <2>2, <4>1
    <3> QED
      BY <3>2, <3>3, <3>4
  <2> QED
    BY <2>6, <2>7
<1> QED
  BY <1>1, <1>2

(* MAX_UINT64 is beyond every time that the clock and a delay can give.    *)
LEMMA NeverBeyond ==
    /\ Never \in Nat
    /\ \A t \in 0 .. MaxNow, d \in Delays \cup Periods \cup {0} : t + d \in 0 .. Never
<1> DEFINE D == Delays \cup Periods \cup {0}
<1>1. D \in SUBSET Nat /\ D # {}
  BY TimerAssumption
<1>2. IsFiniteSet(D)
  BY TimerAssumption, FS_AddElement
<1>3. Max(D) \in D /\ \A y \in D : y <= Max(D)
  BY <1>1, <1>2, GreatestNatural
<1>4. Never = MaxNow + Max(D) + 1 /\ MaxNow \in Nat
  BY TimerAssumption DEF Never
<1> HIDE DEF D
<1> QED
  BY <1>1, <1>3, <1>4 DEF D

(* The slots are finitely many.                                            *)
LEMMA SlotsFinite ==
    /\ IsFiniteSet(Slots) /\ Cardinality(Slots) = MaxTimers /\ Slots \subseteq Nat
    /\ \A S \in SUBSET Slots : /\ IsFiniteSet(S) /\ Cardinality(S) \in Nat /\ Cardinality(S) <= MaxTimers
                               /\ Cardinality(S) = MaxTimers => S = Slots
<1>1. MaxTimers \in Nat \ {0} /\ 0 \in Int /\ MaxTimers - 1 \in Int
  BY TimerAssumption
<1>2. IsFiniteSet(Slots) /\ Cardinality(Slots) = IF 0 > MaxTimers - 1 THEN 0 ELSE MaxTimers - 1 - 0 + 1
  BY <1>1, FS_Interval DEF Slots
<1>3. Cardinality(Slots) = MaxTimers
  BY <1>1, <1>2
<1>4. Slots \subseteq Nat
  BY DEF Slots
<1> QED
  BY <1>2, <1>3, <1>4, FS_Subset, FS_CardinalityType

(* A count below the range of the counter is itself.                       *)
LEMMA CountFits ==
    ASSUME NEW n \in 0 .. MaxTimers
    PROVE  n % CountRange = n
BY TimerAssumption

(* timerQueueEvaluateNextInvocation: a loop bounded by a count that is not *)
(* too low sees every timer.                                               *)
LEMMA Evaluated ==
    ASSUME NEW sl, \A s \in Slots : sl[s].at \in 0 .. Never,
           NEW n \in Nat, Cardinality(Set(sl)) <= n
    PROVE  /\ EvaluateNextInvocation(sl, n) \in 0 .. Never
           /\ \A s \in Set(sl) : EvaluateNextInvocation(sl, n) <= sl[s].at
<1> DEFINE T == {sl[s].at : s \in FirstSet(sl, n)} \cup {Never}
<1>1. Set(sl) \in SUBSET Slots
  BY DEF Set
<1>2. ASSUME NEW s \in Set(sl)
      PROVE  s \in FirstSet(sl, n)
  <2> DEFINE B == {r \in Set(sl) : r < s}
  <2>0. s \in Nat /\ ~(s < s)
    BY <1>1 DEF Slots
  <2>1. B \in SUBSET Set(sl) /\ s \notin B /\ IsFiniteSet(Set(sl))
    BY <1>1, <2>0, SlotsFinite
  <2>2. Cardinality(B) <= Cardinality(Set(sl)) /\ Cardinality(B) # Cardinality(Set(sl))
    BY <2>1, FS_Subset
  <2>3. Cardinality(B) \in Nat /\ Cardinality(Set(sl)) \in Nat
    BY <1>1, <2>1, SlotsFinite
  <2>4. Cardinality(B) < n
    BY <2>2, <2>3
  <2> QED
    BY <2>4 DEF FirstSet
<1>3. FirstSet(sl, n) = Set(sl)
  BY <1>2 DEF FirstSet
<1>4. T \in SUBSET Nat /\ T # {} /\ Never \in T /\ Never \in Nat
  BY <1>1, <1>3, NeverBeyond
<1>5. Min(T) \in T /\ \A y \in T : Min(T) <= y
  BY <1>4, LeastNatural
<1>6. EvaluateNextInvocation(sl, n) = Min(T)
  BY DEF EvaluateNextInvocation
<1>7. \A s \in Set(sl) : sl[s].at \in T
  BY <1>3
<1>8. Min(T) \in 0 .. Never
  <2> HIDE DEF T
  <2>1. Min(T) \in Nat /\ Min(T) <= Never
    BY <1>4, <1>5
  <2> QED
    BY <1>4, <2>1
<1>9. \A s \in Set(sl) : Min(T) <= sl[s].at
  BY <1>5, <1>7
<1> QED
  BY <1>6, <1>8, <1>9


(* The condition variable wakes an executor that waits and does nothing to *)
(* one that does not.                                                      *)
LEMMA SignalledWakes ==
    ASSUME TimerTypes
    PROVE  LET e == Signalled(exec) IN
           /\ e \in ExecStates
           /\ e.pc = (IF exec.pc = "wait" THEN "awake" ELSE exec.pc)
           /\ e.i = exec.i /\ e.removed = exec.removed /\ e.until = exec.until
BY DEF TimerTypes, TimerEntries, ExecStates, Signalled, LockFree

LEMMA TimerInitInv ==
    TimerInit => TimerInv
<1> SUFFICES ASSUME TimerInit PROVE TimerInv
  OBVIOUS
<1>1. Never \in Nat /\ MaxNow \in Nat /\ MaxTimers \in Nat
  BY NeverBeyond, TimerAssumption
<1>2. Set(slots) = {}
  BY DEF TimerInit, Set
<1>3. TimerTypes
  BY <1>1 DEF TimerInit, TimerTypes, TimerEntries, ExecStates, LockFree
<1>4. CountKept
  BY <1>2, FS_EmptySet DEF TimerInit, CountKept, Evaluating
<1>5. WakesInTime
  BY <1>2 DEF TimerInit, WakesInTime
<1> QED
  BY <1>3, <1>4, <1>5 DEF TimerInv

(* A step of another thread or of a callback that leaves the timers alone  *)
(* and at most signals.                                                    *)
LEMMA QuietSteps ==
    ASSUME TimerInv, UNCHANGED <<slots, active, next, kicked>>, now' \in 0 .. MaxNow,
           upd' = NoUpdate \/ upd' \in [slot : Slots, period : Periods],
           shut' \in {"open", "shutdown", "done"}, shut = "done" => shut' = "done",
           exec' = exec \/ exec' = Signalled(exec)
    PROVE  TimerInv'
<1>1. /\ exec' \in ExecStates
      /\ exec'.pc = exec.pc \/ (exec.pc = "wait" /\ exec'.pc = "awake")
      /\ exec'.i = exec.i /\ exec'.removed = exec.removed /\ exec'.until = exec.until
  BY SignalledWakes DEF TimerInv, TimerTypes, TimerEntries, ExecStates
<1>2. TimerTypes'
  BY <1>1 DEF TimerInv, TimerTypes, TimerEntries, ExecStates
<1>3. CountKept'
  BY <1>1 DEF TimerInv, CountKept, Evaluating, Set
<1>4. WakesInTime'
  BY <1>1 DEF TimerInv, WakesInTime, Evaluating, Set
<1> QED
  BY <1>2, <1>3, <1>4 DEF TimerInv

(* A new timer takes a free slot: there is one as long as the count allows.*)
LEMMA AddTimerStep ==
    ASSUME TimerInv, NEW d \in TimerData, NEW start \in Delays, NEW p \in Periods, AddTimer(d, start, p)
    PROVE  TimerInv'
<1> DEFINE s == Min(Slots \ Set(slots))
           t == now + start
<1>1. Set(slots) \in SUBSET Slots
  BY DEF Set
<1>2. active < MaxTimers /\ Cardinality(Set(slots)) <= active /\ Cardinality(Set(slots)) \in Nat /\ active \in Nat
  BY <1>1, SlotsFinite DEF AddTimer, TimerInv, TimerTypes, TimerEntries, ExecStates, CountKept
<1>3. Slots \ Set(slots) # {}
  <2>1. Set(slots) # Slots
    BY <1>2, SlotsFinite, TimerAssumption
  <2> QED
    BY <1>1, <2>1
<1>4. s \in Slots /\ s \notin Set(slots)
  <2>1. Slots \ Set(slots) \in SUBSET Nat
    BY DEF Slots
  <2> QED
    BY <1>3, <2>1, LeastNatural
<1>5. t \in 0 .. Never
  BY NeverBeyond DEF TimerInv, TimerTypes, TimerEntries, ExecStates
<1>6. /\ slots' = [slots EXCEPT ![s] = [fn |-> d, at |-> t, period |-> p]]
      /\ active' = active + 1 /\ kicked' = kicked \ {s}
      /\ next' = (IF t < next THEN t ELSE next)
      /\ exec' = (IF t < next THEN Signalled(exec) ELSE exec)
      /\ UNCHANGED <<now, shut, upd>>
  BY DEF AddTimer
<1> HIDE DEF s, t
<1>7. /\ \A r \in Slots \ {s} : slots'[r] = slots[r]
      /\ slots'[s].fn = d /\ slots'[s].at = t /\ d # NoData
  BY <1>4, <1>6, DataAssumption DEF TimerInv, TimerTypes, TimerEntries, ExecStates
<1>8. Set(slots') = Set(slots) \cup {s}
  BY <1>4, <1>7 DEF Set
<1>9. Cardinality(Set(slots')) = Cardinality(Set(slots)) + 1
  BY <1>1, <1>4, <1>8, SlotsFinite, FS_AddElement
<1>10. /\ exec' \in ExecStates
       /\ exec'.pc = exec.pc \/ (exec.pc = "wait" /\ exec'.pc = "awake")
       /\ exec'.pc = "wait" => ~(t < next)
       /\ exec'.i = exec.i /\ exec'.removed = exec.removed /\ exec'.until = exec.until
  BY <1>6, SignalledWakes DEF TimerInv, TimerTypes, TimerEntries, ExecStates
<1>11. next' \in 0 .. Never /\ next' <= next /\ next' <= t
  BY <1>5, <1>6 DEF TimerInv, TimerTypes, TimerEntries, ExecStates
<1>12. TimerTypes'
  <2>1. slots' \in [Slots -> TimerEntries]
    BY <1>4, <1>5, <1>6 DEF TimerInv, TimerTypes, TimerEntries, ExecStates
  <2>2. active' \in 0 .. MaxTimers
    BY <1>2, <1>6, TimerAssumption
  <2> QED
    BY <1>6, <1>10, <1>11, <2>1, <2>2 DEF TimerInv, TimerTypes, TimerEntries, ExecStates
<1>13. CountKept'
  <2>1. exec.pc \in Evaluating <=> exec'.pc \in Evaluating
    BY <1>10 DEF Evaluating
  <2>2. active = Cardinality(Set(slots)) + (IF exec.pc \in Evaluating THEN exec.removed ELSE 0)
    BY DEF TimerInv, CountKept
  <2>3. exec.removed \in Nat
    BY DEF TimerInv, TimerTypes, TimerEntries, ExecStates
  <2>4. active' = Cardinality(Set(slots')) + (IF exec'.pc \in Evaluating THEN exec'.removed ELSE 0)
    <3>1. exec'.removed = exec.removed
      BY <1>10
    <3>2. CASE exec.pc \in Evaluating
      BY <1>2, <1>6, <1>9, <2>1, <2>2, <2>3, <3>1, <3>2
    <3>3. CASE exec.pc \notin Evaluating
      BY <1>2, <1>6, <1>9, <2>1, <2>2, <3>3
    <3> QED
      BY <3>2, <3>3
  <2>5. exec'.pc = "call" => exec'.i \in Set(slots')
    BY <1>8, <1>10 DEF TimerInv, CountKept
  <2> QED
    BY <2>4, <2>5 DEF CountKept
<1>14. WakesInTime'
  <2>1. ASSUME exec'.pc \notin Evaluating, NEW r \in Set(slots') \ kicked'
        PROVE  next' <= slots'[r].at
    <3>1. CASE r = s
      BY <1>7, <1>11, <3>1
    <3>2. CASE r # s
      <4>1. r \in Set(slots) \ kicked /\ r \in Slots /\ exec.pc \notin Evaluating /\ slots'[r] = slots[r]
        BY <1>1, <1>6, <1>7, <1>8, <1>10, <2>1, <3>2 DEF Evaluating
      <4>2. next <= slots[r].at /\ next \in Nat /\ slots[r].at \in Nat /\ next' \in Nat
        BY <1>11, <4>1 DEF TimerInv, WakesInTime, TimerTypes, TimerEntries, ExecStates
      <4> QED
        BY <1>11, <4>1, <4>2
    <3> QED
      BY <3>1, <3>2
  <2>2. exec'.pc = "wait" => exec'.until = next'
    BY <1>6, <1>10 DEF TimerInv, WakesInTime
  <2>3. exec'.pc = "killed" => shut' = "done"
    BY <1>6, <1>10 DEF TimerInv, WakesInTime
  <2> QED
    BY <2>1, <2>2, <2>3 DEF WakesInTime
<1> QED
  BY <1>12, <1>13, <1>14 DEF TimerInv


(* The cancellation of timers, none of which is the one whose callback     *)
(* runs: the count goes down by their number, and when the executor        *)
(* planned to wake up for one of them it is woken and plans anew.          *)
LEMMA CancelledStep ==
    ASSUME TimerInv, NEW S \in SUBSET Set(slots), Cancelled(S), ~OwnTimer(S), UNCHANGED <<now, shut, upd, kicked>>
    PROVE  TimerInv'
<1> DEFINE sl == [s \in Slots |-> IF s \in S THEN [slots[s] EXCEPT !.fn = NoData] ELSE slots[s]]
           m == active - Cardinality(S)
           hit == \E s \in S : slots[s].at = next
<1>1. Set(slots) \in SUBSET Slots /\ S \in SUBSET Slots
  BY DEF Set
<1>2. sl \in [Slots -> TimerEntries]
  BY DEF TimerInv, TimerTypes, TimerEntries, ExecStates
<1>3. Set(sl) = Set(slots) \ S
  BY <1>1 DEF Set, TimerInv, TimerTypes, TimerEntries, ExecStates
<1>4. Cardinality(Set(sl)) = Cardinality(Set(slots)) - Cardinality(S) /\ Cardinality(S) <= Cardinality(Set(slots))
  <2>1. Set(slots) \cap S = S /\ IsFiniteSet(Set(slots))
    BY <1>1, SlotsFinite
  <2> QED
    BY <1>3, <2>1, FS_Difference, FS_Subset
<1>5. /\ Cardinality(Set(slots)) <= active /\ Cardinality(Set(slots)) \in Nat /\ Cardinality(S) \in Nat
      /\ active \in 0 .. MaxTimers /\ MaxTimers \in Nat
  BY <1>1, SlotsFinite, TimerAssumption DEF TimerInv, TimerTypes, TimerEntries, ExecStates, CountKept
<1>6. m \in 0 .. MaxTimers /\ Cardinality(Set(sl)) <= m
  BY <1>4, <1>5
<1>7. /\ slots' = sl /\ active' = m % CountRange
      /\ next' = (IF hit THEN EvaluateNextInvocation(sl, m % CountRange) ELSE next)
      /\ exec' = (IF hit THEN Signalled(exec) ELSE exec)
  BY DEF Cancelled
<1>8. m % CountRange = m
  BY <1>6, CountFits
<1>9. /\ EvaluateNextInvocation(sl, m) \in 0 .. Never
      /\ \A s \in Set(sl) : EvaluateNextInvocation(sl, m) <= sl[s].at
  <2> HIDE DEF sl, m
  <2>1. \A s \in Slots : sl[s].at \in 0 .. Never
    BY <1>2 DEF TimerEntries
  <2>2. m \in Nat
    BY <1>6
  <2> QED
    BY <1>6, <2>1, <2>2, Evaluated
<1>10. /\ exec' \in ExecStates
       /\ exec'.pc = exec.pc \/ (exec.pc = "wait" /\ exec'.pc = "awake")
       /\ exec'.pc = "wait" => ~hit
       /\ exec'.i = exec.i /\ exec'.removed = exec.removed /\ exec'.until = exec.until
  <2> HIDE DEF hit
  <2> QED
    BY <1>7, SignalledWakes DEF TimerInv, TimerTypes, TimerEntries, ExecStates
<1>11. \A s \in Set(sl) : s \in Set(slots) /\ sl[s].at = slots[s].at
  BY <1>1, <1>3
<1> HIDE DEF sl, hit
<1>12. slots' = sl /\ active' = m /\ next' = IF hit THEN EvaluateNextInvocation(sl, m) ELSE next
  BY <1>7, <1>8
<1> HIDE DEF m
<1>13. TimerTypes'
  BY <1>2, <1>6, <1>9, <1>10, <1>12 DEF TimerInv, TimerTypes, TimerEntries, ExecStates
<1>14. CountKept'
  <2>1. exec.pc \in Evaluating <=> exec'.pc \in Evaluating
    BY <1>10 DEF Evaluating
  <2>2. active = Cardinality(Set(slots)) + (IF exec.pc \in Evaluating THEN exec.removed ELSE 0) /\ exec.removed \in Nat
    BY DEF TimerInv, CountKept, TimerTypes, TimerEntries, ExecStates
  <2>4. active' = Cardinality(Set(slots')) + (IF exec'.pc \in Evaluating THEN exec'.removed ELSE 0)
    <3>1. exec'.removed = exec.removed /\ active' = active - Cardinality(S)
      BY <1>10, <1>12 DEF m
    <3>2. Cardinality(Set(slots')) = Cardinality(Set(slots)) - Cardinality(S)
      BY <1>4, <1>12
    <3>3. CASE exec.pc \in Evaluating
      BY <1>5, <2>1, <2>2, <3>1, <3>2, <3>3
    <3>4. CASE exec.pc \notin Evaluating
      BY <1>5, <2>1, <2>2, <3>1, <3>2, <3>4
    <3> QED
      BY <3>3, <3>4
  <2>5. exec'.pc = "call" => exec'.i \in Set(slots')
    <3>1. exec'.pc = "call" => exec.pc = "call" /\ exec.i \in Set(slots) /\ exec.i \notin S /\ exec'.i = exec.i
      BY <1>10 DEF TimerInv, CountKept, OwnTimer
    <3> QED
      BY <1>3, <1>12, <3>1
  <2> QED
    BY <2>4, <2>5 DEF CountKept
<1>15. WakesInTime'
  <2>1. ASSUME exec'.pc \notin Evaluating, NEW r \in Set(slots') \ kicked'
        PROVE  next' <= slots'[r].at
    <3>1. CASE hit
      BY <1>9, <1>12, <2>1, <3>1
    <3>2. CASE ~hit
      <4>1. r \in Set(slots) \ kicked /\ exec.pc \notin Evaluating /\ sl[r].at = slots[r].at
        BY <1>10, <1>11, <1>12, <2>1 DEF Evaluating
      <4> QED
        BY <1>12, <3>2, <4>1 DEF TimerInv, WakesInTime
    <3> QED
      BY <3>1, <3>2
  <2>2. exec'.pc = "wait" => exec'.until = next'
    BY <1>10, <1>12 DEF TimerInv, WakesInTime
  <2>3. exec'.pc = "killed" => shut' = "done"
    BY <1>10 DEF TimerInv, WakesInTime
  <2> QED
    BY <2>1, <2>2, <2>3 DEF WakesInTime
<1> QED
  BY <1>13, <1>14, <1>15 DEF TimerInv

LEMMA CancelSteps ==
    ASSUME TimerInv, ~SelfCancel,
           (\E s \in Slots : CancelTimer(s)) \/ (\E d \in TimerData : CancelTimersWithCustomData(d)) \/ CancelAllTimers
    PROVE  TimerInv'
<1>1. ASSUME NEW s \in Slots, CancelTimer(s)
      PROVE  TimerInv'
  <2>1. {s} \in SUBSET Set(slots)
    BY <1>1 DEF CancelTimer
  <2> QED
    BY <1>1, <2>1, CancelledStep DEF CancelTimer
<1>2. ASSUME NEW d \in TimerData, CancelTimersWithCustomData(d)
      PROVE  TimerInv'
  <2>1. GetTimersWithCustomData(d) \in SUBSET Set(slots)
    BY DataAssumption DEF GetTimersWithCustomData, Set
  <2> QED
    BY <1>2, <2>1, CancelledStep DEF CancelTimersWithCustomData
<1>3. CASE CancelAllTimers
  BY <1>3, CancelledStep DEF CancelAllTimers
<1> QED
  BY <1>1, <1>2, <1>3


(* A new period moves the timer, and the planned wake-up is computed anew:  *)
(* for an executor that waits or is to look, or by the callback it runs.   *)
LEMMA PeriodUpdatedStep ==
    ASSUME TimerInv, NEW s \in Slots, NEW p \in Periods, exec.pc \in LockFree \cup {"call"},
           PeriodUpdated(s, p), UNCHANGED <<active, now, shut>>,
           upd' = NoUpdate \/ upd' \in [slot : Slots, period : Periods]
    PROVE  TimerInv'
<1>1. /\ slots' = [slots EXCEPT ![s] = [@ EXCEPT !.period = p, !.at = now + p]]
      /\ next' = EvaluateNextInvocation(slots', active) /\ exec' = Signalled(exec)
      /\ kicked' = kicked \ {s} /\ UNCHANGED <<active, now, shut>>
  BY DEF PeriodUpdated
<1>2. now + p \in 0 .. Never
  BY <1>1, NeverBeyond DEF TimerInv, TimerTypes, TimerEntries, ExecStates
<1>3. slots' \in [Slots -> TimerEntries]
  <2>1. slots[s] \in TimerEntries
    BY DEF TimerInv, TimerTypes
  <2>2. [slots[s] EXCEPT !.period = p, !.at = now + p] \in TimerEntries
    BY <1>2, <2>1 DEF TimerEntries
  <2> QED
    BY <1>1, <2>2 DEF TimerInv, TimerTypes
<1>4. Set(slots') = Set(slots)
  <2>1. \A r \in Slots : slots'[r].fn = slots[r].fn
    BY <1>1, <1>3 DEF TimerInv, TimerTypes, TimerEntries, ExecStates
  <2> QED
    BY <2>1 DEF Set
<1>5. active \in Nat /\ Cardinality(Set(slots')) <= active
  <2>1. Cardinality(Set(slots)) \in Nat
    BY SlotsFinite DEF Set
  <2>2. active \in Nat /\ exec.removed \in Nat
    BY DEF TimerInv, TimerTypes, TimerEntries, ExecStates
  <2>3. active = Cardinality(Set(slots)) + (IF exec.pc \in Evaluating THEN exec.removed ELSE 0)
    BY DEF TimerInv, CountKept
  <2> QED
    BY <1>4, <2>1, <2>2, <2>3
<1>6. next' \in 0 .. Never /\ \A r \in Set(slots') : next' <= slots'[r].at
  <2>1. \A r \in Slots : slots'[r].at \in 0 .. Never
    BY <1>3 DEF TimerEntries
  <2> QED
    BY <1>1, <1>5, <2>1, Evaluated
<1>7. /\ exec' \in ExecStates /\ exec'.removed = exec.removed /\ exec'.i = exec.i
      /\ exec'.pc = (IF exec.pc = "wait" THEN "awake" ELSE exec.pc)
      /\ exec'.pc # "wait" /\ exec'.pc # "killed"
  <2>1. exec.pc # "killed"
    BY DEF LockFree
  <2> QED
    BY <1>1, <2>1, SignalledWakes DEF TimerInv
<1>8. TimerTypes'
  BY <1>1, <1>3, <1>6, <1>7 DEF TimerInv, TimerTypes, TimerEntries, ExecStates
<1>9. CountKept'
  <2>1. exec'.pc \in Evaluating <=> exec.pc \in Evaluating
    BY <1>7 DEF Evaluating
  <2> QED
    BY <1>1, <1>4, <1>7, <2>1 DEF TimerInv, CountKept
<1>10. WakesInTime'
  BY <1>6, <1>7 DEF WakesInTime
<1> QED
  BY <1>8, <1>9, <1>10 DEF TimerInv

LEMMA UpdateTimerPeriodStep ==
    ASSUME TimerInv,
           \/ UpdateTimerPeriod
           \/ \E s \in Slots, d \in TimerData, p \in Periods : UpdateFromCallback(s, d, p)
    PROVE  TimerInv'
<1>1. CASE UpdateTimerPeriod
  <2>1. upd.slot \in Slots /\ upd.period \in Periods /\ PeriodUpdated(upd.slot, upd.period)
    BY <1>1 DEF UpdateTimerPeriod, TimerInv, TimerTypes
  <2>2. exec.pc \in LockFree /\ UNCHANGED <<active, now, shut>> /\ upd' = NoUpdate
    BY <1>1 DEF UpdateTimerPeriod
  <2> QED
    BY <2>1, <2>2, PeriodUpdatedStep
<1>2. ASSUME NEW s \in Slots, NEW d \in TimerData, NEW p \in Periods, UpdateFromCallback(s, d, p)
      PROVE  TimerInv'
  <2>1. exec.pc = "call" /\ PeriodUpdated(s, p) /\ UNCHANGED <<active, now, shut, upd>>
    BY <1>2 DEF UpdateFromCallback
  <2>2. upd' = NoUpdate \/ upd' \in [slot : Slots, period : Periods]
    BY <2>1 DEF TimerInv, TimerTypes
  <2> QED
    BY <2>1, <2>2, PeriodUpdatedStep
<1> QED
  BY <1>1, <1>2

(* A kick moves a timer before the planned wake-up: it is remembered until *)
(* the executor, which it wakes, looks at all the timers.                  *)
LEMMA KickStep ==
    ASSUME TimerInv, NEW s \in Slots, Kick(s)
    PROVE  TimerInv'
<1>1. /\ slots' = [slots EXCEPT ![s].at = 0] /\ exec' = Signalled(exec) /\ kicked' = kicked \cup {s}
      /\ UNCHANGED <<active, next, now, shut, upd>>
  BY DEF Kick
<1>2. Set(slots') = Set(slots) /\ \A r \in Slots \ {s} : slots'[r] = slots[r]
  BY <1>1 DEF Set, TimerInv, TimerTypes, TimerEntries, ExecStates
<1>3. /\ exec' \in ExecStates
      /\ exec'.pc = (IF exec.pc = "wait" THEN "awake" ELSE exec.pc)
      /\ exec'.i = exec.i /\ exec'.removed = exec.removed /\ exec'.until = exec.until
  BY <1>1, SignalledWakes DEF TimerInv
<1>4. TimerTypes'
  <2>1. 0 \in 0 .. Never
    BY NeverBeyond
  <2> QED
    BY <1>1, <1>3, <2>1 DEF TimerInv, TimerTypes, TimerEntries, ExecStates
<1>5. CountKept'
  BY <1>1, <1>2, <1>3 DEF TimerInv, CountKept, Evaluating
<1>6. WakesInTime'
  <2>1. ASSUME exec'.pc \notin Evaluating, NEW r \in Set(slots') \ kicked'
        PROVE  next' <= slots'[r].at
    <3>1. r \in Set(slots) \ kicked /\ r \in Slots \ {s} /\ exec.pc \notin Evaluating
      BY <1>1, <1>2, <1>3, <2>1 DEF Evaluating, Set
    <3> QED
      BY <1>1, <1>2, <3>1 DEF TimerInv, WakesInTime
  <2> QED
    BY <1>1, <1>3, <2>1 DEF TimerInv, WakesInTime
<1> QED
  BY <1>4, <1>5, <1>6 DEF TimerInv

(* The steps of the owner and of the clock, and the check of an update.    *)
LEMMA OwnerTimerSteps ==
    ASSUME TimerInv,
           \/ \E s \in Slots, d \in TimerData, p \in Periods : UpdateTimerPeriodCheck(s, d, p)
           \/ TimerShutdown \/ TimerShutdownReturns \/ TimerShutdownTimeout \/ Tick
    PROVE  TimerInv'
<1>1. ASSUME NEW s \in Slots, NEW d \in TimerData, NEW p \in Periods, UpdateTimerPeriodCheck(s, d, p)
      PROVE  TimerInv'
  BY <1>1, QuietSteps DEF UpdateTimerPeriodCheck, TimerInv, TimerTypes, TimerEntries, ExecStates
<1>2. CASE TimerShutdown
  BY <1>2, QuietSteps DEF TimerShutdown, TimerInv, TimerTypes, TimerEntries, ExecStates
<1>3. CASE TimerShutdownReturns
  BY <1>3, QuietSteps DEF TimerShutdownReturns, TimerInv, TimerTypes, TimerEntries, ExecStates
<1>4. CASE Tick
  <2>1. now' \in 0 .. MaxNow
    BY <1>4, TimerAssumption DEF Tick, TimerInv, TimerTypes, TimerEntries, ExecStates
  <2> QED
    BY <1>4, <2>1, QuietSteps DEF Tick, TimerInv, TimerTypes, TimerEntries, ExecStates
<1>5. CASE TimerShutdownTimeout
  <2>1. /\ exec.pc = "call" /\ shut' = "done" /\ exec' = [exec EXCEPT !.pc = "killed"]
        /\ UNCHANGED <<slots, active, next, now, upd, kicked>>
    BY <1>5 DEF TimerShutdownTimeout
  <2>2. exec'.pc = "killed" /\ exec'.removed = exec.removed
    BY <2>1 DEF TimerInv, TimerTypes, TimerEntries, ExecStates
  <2>3. TimerTypes'
    BY <2>1 DEF TimerInv, TimerTypes, TimerEntries, ExecStates, Evaluating
  <2>4. CountKept'
    BY <2>1, <2>2 DEF TimerInv, CountKept, Evaluating
  <2>5. WakesInTime'
    BY <2>1, <2>2 DEF WakesInTime, Evaluating
  <2> QED
    BY <2>3, <2>4, <2>5 DEF TimerInv
<1> QED
  BY <1>1, <1>2, <1>3, <1>4, <1>5


(* The executor moves on without touching the timers: outside of its loop  *)
(* over them, and inside.                                                  *)
LEMMA ExecQuietSteps ==
    ASSUME TimerInv, ExecStart \/ ExecTop \/ ExecTimeout \/ ExecSkip \/ ExecCall \/ ExecExit
    PROVE  TimerInv'
<1>1. /\ UNCHANGED <<slots, active, next, now, shut, upd, kicked>>
  BY DEF ExecStart, ExecTop, ExecTimeout, ExecSkip, ExecCall, ExecExit, Rest
<1>2. /\ exec' \in ExecStates
      /\ exec'.pc \in Evaluating <=> exec.pc \in Evaluating
      /\ exec'.removed = exec.removed
      /\ exec'.pc = "wait" => exec'.until = next
      /\ exec'.pc = "call" => slots[exec'.i].fn # NoData /\ exec'.i \in Slots
      /\ exec'.pc # "killed"
  <2>1. CASE ExecStart \/ ExecTimeout \/ ExecExit
    BY <2>1 DEF ExecStart, ExecTimeout, ExecExit, Go, TimerInv, TimerTypes, TimerEntries, ExecStates, LockFree, Evaluating
  <2>2. CASE ExecTop
    BY <2>2 DEF ExecTop, Go, TimerInv, TimerTypes, TimerEntries, ExecStates, LockFree, Evaluating
  <2>3. CASE ExecSkip \/ ExecCall
    <3>1. exec.pc = "scan" /\ exec.i \in 0 .. MaxTimers /\ exec.i < MaxTimers /\ exec.index \in Nat
      BY <2>3 DEF ExecSkip, ExecCall, Scanning, TimerInv, TimerTypes, TimerEntries, ExecStates
    <3>2. exec.i \in Slots /\ exec.i + 1 \in 0 .. MaxTimers
      BY <3>1, TimerAssumption DEF Slots
    <3>3. exec \in ExecStates /\ next \in 0 .. Never
      BY DEF TimerInv, TimerTypes
    <3>4. CASE ExecSkip
      <4> DEFINE n == IF slots[exec.i].fn = NoData THEN exec.index ELSE exec.index + 1
      <4>1. exec' = [exec EXCEPT !.i = exec.i + 1, !.index = n]
        BY <3>4 DEF ExecSkip
      <4>2. n \in Nat
        BY <3>1
      <4> HIDE DEF n
      <4> QED
        BY <3>1, <3>2, <3>3, <4>1, <4>2 DEF ExecStates, LockFree, Evaluating
    <3>5. CASE ExecCall
      <4>1. exec' = [exec EXCEPT !.pc = "call", !.index = exec.index + 1] /\ slots[exec.i].fn # NoData
        BY <3>5 DEF ExecCall
      <4>2. exec.index + 1 \in Nat
        BY <3>1
      <4>3. exec' \in ExecStates /\ exec'.pc = "call" /\ exec'.i = exec.i /\ exec'.removed = exec.removed
        BY <3>3, <4>1, <4>2 DEF ExecStates, Evaluating
      <4> QED
        BY <3>1, <3>2, <4>1, <4>3 DEF ExecStates, Evaluating
    <3> QED
      BY <2>3, <3>4, <3>5
  <2> QED
    BY <2>1, <2>2, <2>3
<1>3. TimerTypes'
  BY <1>1, <1>2 DEF TimerInv, TimerTypes, TimerEntries, ExecStates
<1>4. CountKept'
  BY <1>1, <1>2 DEF TimerInv, CountKept, Set
<1>5. WakesInTime'
  BY <1>1, <1>2 DEF TimerInv, WakesInTime, Set
<1> QED
  BY <1>3, <1>4, <1>5 DEF TimerInv

(* The look at all the timers begins with nothing removed.                 *)
LEMMA ExecAwakeStep ==
    ASSUME TimerInv, ExecAwake
    PROVE  TimerInv'
<1>1. exec.pc = "awake" /\ UNCHANGED <<slots, active, next, now, shut, upd>>
  BY DEF ExecAwake
<1>2. CASE shut = "open"
  <2>1. /\ kicked' = {}
        /\ exec' = [exec EXCEPT !.pc = "scan", !.i = 0, !.index = 0, !.cur = now, !.removed = 0]
    BY <1>2 DEF ExecAwake
  <2>2. exec'.pc = "scan" /\ exec'.removed = 0
    BY <2>1 DEF TimerInv, TimerTypes, TimerEntries, ExecStates
  <2>3. TimerTypes'
    <3>1. 0 \in 0 .. MaxTimers /\ now \in 0 .. MaxNow /\ exec \in ExecStates
      BY TimerAssumption DEF TimerInv, TimerTypes
    <3>2. exec' \in ExecStates
      BY <2>1, <3>1 DEF ExecStates, Evaluating
    <3> QED
      BY <1>1, <2>1, <3>2 DEF TimerInv, TimerTypes
  <2>4. CountKept'
    BY <1>1, <2>2 DEF TimerInv, CountKept, Evaluating, Set
  <2>5. WakesInTime'
    BY <2>2 DEF WakesInTime, Evaluating
  <2> QED
    BY <2>3, <2>4, <2>5 DEF TimerInv
<1>3. CASE shut # "open"
  <2>1. kicked' = kicked /\ exec' = [exec EXCEPT !.pc = "top"]
    BY <1>3 DEF ExecAwake, Go
  <2>2. exec'.pc = "top"
    BY <2>1 DEF TimerInv, TimerTypes, TimerEntries, ExecStates
  <2>3. TimerTypes'
    BY <1>1, <2>1 DEF TimerInv, TimerTypes, TimerEntries, ExecStates
  <2>4. CountKept'
    BY <1>1, <2>2 DEF TimerInv, CountKept, Evaluating, Set
  <2>5. WakesInTime'
    BY <1>1, <2>1, <2>2 DEF TimerInv, WakesInTime, Evaluating, Set
  <2> QED
    BY <2>3, <2>4, <2>5 DEF TimerInv
<1> QED
  BY <1>2, <1>3

(* A callback returns; its timer goes, or gets its next time.              *)
LEMMA ExecReturnStep ==
    ASSUME TimerInv, NEW stop \in BOOLEAN, ExecReturn(stop)
    PROVE  TimerInv'
<1> DEFINE s == exec.i
           gone == stop \/ slots[s].period = SINGLE
           v == [fn |-> IF gone THEN NoData ELSE slots[s].fn,
                 at |-> exec.cur + slots[s].period, period |-> slots[s].period]
<1>1. /\ exec.pc = "call" /\ UNCHANGED <<active, next, now, shut, upd, kicked>>
      /\ exec' = [exec EXCEPT !.pc = "scan", !.i = @ + 1, !.removed = IF gone THEN @ + 1 ELSE @]
  BY DEF ExecReturn
<1>0. slots' = [slots EXCEPT ![s] = v]
  BY DEF ExecReturn
<1>2. s \in Set(slots) /\ s \in Slots
  BY <1>1 DEF TimerInv, CountKept, Set
<1> HIDE DEF gone
<1>3. exec.cur + slots[s].period \in 0 .. Never
  <2>1. exec.cur \in 0 .. MaxNow /\ slots[s].period \in Periods \cup {0}
    BY <1>2 DEF TimerInv, TimerTypes, TimerEntries, ExecStates
  <2> QED
    BY <2>1, NeverBeyond
<1>4. slots' \in [Slots -> TimerEntries]
  <2>1. slots[s] \in TimerEntries
    BY <1>2 DEF TimerInv, TimerTypes
  <2>2. v \in TimerEntries
    BY <1>3, <2>1 DEF TimerEntries
  <2> HIDE DEF v
  <2> QED
    BY <1>0, <2>2 DEF TimerInv, TimerTypes
<1>5. s + 1 \in 0 .. MaxTimers
  BY <1>2, TimerAssumption DEF Slots
<1>6. exec'.pc = "scan" /\ exec'.removed = (IF gone THEN exec.removed + 1 ELSE exec.removed) /\ exec.removed \in Nat
  BY <1>1 DEF TimerInv, TimerTypes, TimerEntries, ExecStates
<1>7. TimerTypes'
  <2>1. exec' \in ExecStates
    <3>1. exec \in ExecStates
      BY DEF TimerInv, TimerTypes
    <3> DEFINE r == IF gone THEN exec.removed + 1 ELSE exec.removed
    <3>2. exec' = [exec EXCEPT !.pc = "scan", !.i = exec.i + 1, !.removed = r]
      BY <1>1
    <3>3. r \in Nat
      BY <1>6
    <3> HIDE DEF r
    <3> QED
      BY <1>5, <3>1, <3>2, <3>3 DEF ExecStates, Evaluating
  <2> QED
    BY <1>1, <1>4, <2>1 DEF TimerInv, TimerTypes
<1>8. Set(slots') = IF gone THEN Set(slots) \ {s} ELSE Set(slots)
  <2>0. v.fn = IF gone THEN NoData ELSE slots[s].fn
    OBVIOUS
  <2> HIDE DEF v
  <2>1. \A r \in Slots : slots'[r].fn = IF r = s /\ gone THEN NoData ELSE slots[r].fn
    BY <1>0, <1>2, <2>0 DEF TimerInv, TimerTypes
  <2>2. CASE gone
    BY <1>2, <2>1, <2>2 DEF Set
  <2>3. CASE ~gone
    BY <1>2, <2>1, <2>3 DEF Set
  <2> QED
    BY <2>2, <2>3
<1>9. /\ Cardinality(Set(slots)) \in Nat
      /\ Cardinality(Set(slots')) = IF gone THEN Cardinality(Set(slots)) - 1 ELSE Cardinality(Set(slots))
  <2>1. IsFiniteSet(Set(slots)) /\ Cardinality(Set(slots)) \in Nat
    BY SlotsFinite DEF Set
  <2> QED
    BY <1>2, <1>8, <2>1, FS_RemoveElement
<1>10. CountKept'
  <2>1. active = Cardinality(Set(slots)) + exec.removed
    BY <1>1 DEF TimerInv, CountKept, Evaluating
  <2>2. active' = Cardinality(Set(slots')) + exec'.removed
    BY <1>1, <1>6, <1>9, <2>1
  <2> QED
    BY <1>6, <2>2 DEF CountKept, Evaluating
<1>11. WakesInTime'
  BY <1>6 DEF WakesInTime, Evaluating
<1> QED
  BY <1>7, <1>10, <1>11 DEF TimerInv

(* All timers have been looked at: count and wake-up are up to date again. *)
LEMMA ExecScannedStep ==
    ASSUME TimerInv, ExecScanned
    PROVE  TimerInv'
<1> DEFINE m == active - exec.removed
<1>1. /\ exec.pc = "scan" /\ exec' = [exec EXCEPT !.pc = "top"] /\ active' = m % CountRange
      /\ next' = EvaluateNextInvocation(slots, active') /\ UNCHANGED <<slots, now, shut, upd, kicked>>
  BY DEF ExecScanned, Go
<1>2. m = Cardinality(Set(slots)) /\ m \in 0 .. MaxTimers
  <2>1. Cardinality(Set(slots)) \in Nat /\ Cardinality(Set(slots)) <= MaxTimers
    BY SlotsFinite DEF Set
  <2>2. active = Cardinality(Set(slots)) + exec.removed /\ exec.removed \in Nat
    BY <1>1 DEF TimerInv, CountKept, TimerTypes, TimerEntries, ExecStates, Evaluating
  <2> QED
    BY <2>1, <2>2, TimerAssumption
<1> HIDE DEF m
<1>3. active' = m
  BY <1>1, <1>2, CountFits
<1>4. next' \in 0 .. Never /\ \A s \in Set(slots) : next' <= slots[s].at
  <2>1. \A s \in Slots : slots[s].at \in 0 .. Never
    BY DEF TimerInv, TimerTypes, TimerEntries, ExecStates
  <2>2. m \in Nat /\ Cardinality(Set(slots)) <= m
    BY <1>2
  <2>3. next' = EvaluateNextInvocation(slots, m)
    BY <1>1, <1>3
  <2> QED
    BY <2>1, <2>2, <2>3, Evaluated
<1>5. exec'.pc = "top"
  BY <1>1 DEF TimerInv, TimerTypes, TimerEntries, ExecStates
<1>6. TimerTypes'
  BY <1>1, <1>2, <1>3, <1>4 DEF TimerInv, TimerTypes, TimerEntries, ExecStates
<1>7. CountKept'
  <2>1. active' = Cardinality(Set(slots')) + 0
    BY <1>1, <1>2, <1>3
  <2> QED
    BY <1>5, <2>1 DEF CountKept, Evaluating
<1>8. WakesInTime'
  BY <1>1, <1>4, <1>5 DEF WakesInTime, Evaluating
<1> QED
  BY <1>6, <1>7, <1>8 DEF TimerInv

(* Every step of the timer queue keeps the invariant, as long as callbacks *)
(* do not cancel their own timer.                                          *)
LEMMA TimerStep ==
    ASSUME TimerInv, ~SelfCancel, [TimerNext]_timerVars
    PROVE  TimerInv'
<1>1. CASE UNCHANGED timerVars
  BY <1>1, QuietSteps DEF timerVars, TimerInv, TimerTypes, TimerEntries, ExecStates
<1>2. ASSUME NEW d \in TimerData, NEW t \in Delays, NEW p \in Periods, AddTimer(d, t, p)
      PROVE  TimerInv'
  BY <1>2, AddTimerStep
<1>3. ASSUME NEW s \in Slots, Kick(s)
      PROVE  TimerInv'
  BY <1>3, KickStep
<1>4. CASE Executor
  BY <1>4, ExecQuietSteps, ExecAwakeStep, ExecReturnStep, ExecScannedStep DEF Executor
<1> QED
  BY <1>1, <1>2, <1>3, <1>4, CancelSteps, UpdateTimerPeriodStep, OwnerTimerSteps DEF TimerNext

LEMMA TimerInvSafe ==
    TimerInv => SleepsUntilEarliest
<1> SUFFICES ASSUME TimerInv PROVE SleepsUntilEarliest
  OBVIOUS
<1>1. TimerTypeOK
  <2>1. slots \in [Slots -> [fn : TimerData \cup {NoData}, at : 0 .. Never, period : Nat]]
    <3>1. Periods \cup {0} \subseteq Nat
      BY TimerAssumption
    <3>2. TimerEntries \subseteq [fn : TimerData \cup {NoData}, at : 0 .. Never, period : Nat]
      BY <3>1 DEF TimerEntries
    <3> HIDE DEF TimerEntries
    <3> QED
      BY <3>2 DEF TimerInv, TimerTypes
  <2>2. active \in 0 .. CountRange - 1
    BY TimerAssumption DEF TimerInv, TimerTypes
  <2>3. exec.pc \in {"new", "top", "wait", "awake", "scan", "call", "exit", "done", "killed"}
    BY DEF TimerInv, TimerTypes, ExecStates, LockFree, Evaluating
  <2> QED
    BY <2>1, <2>2, <2>3 DEF TimerInv, TimerTypes, TimerTypeOK
<1>2. exec.pc = "wait" => \A s \in Set(slots) \ kicked : exec.until <= slots[s].at
  BY DEF TimerInv, WakesInTime, Evaluating
<1>3. exec.pc \in LockFree => GetTimerCount = Cardinality(Set(slots))
  <2>1. Cardinality(Set(slots)) \in Nat
    BY SlotsFinite DEF Set
  <2>2. exec.pc \in LockFree => active = Cardinality(Set(slots)) + 0
    BY DEF TimerInv, CountKept, LockFree, Evaluating
  <2> QED
    BY <2>1, <2>2 DEF GetTimerCount
<1> QED
  BY <1>1, <1>2, <1>3 DEF SleepsUntilEarliest

(* As long as no callback cancels its own timer (see TimerQueue.c:596 for  *)
(* what happens then), the executor never sleeps past the time of a timer, *)
(* and the active count is the number of timers whenever another thread    *)
(* can see it (TimerQueue.c:70-94, 133-139, 303, 530, 572).                *)
THEOREM TimersSafety ==
    ~SelfCancel => (TimerSpec => []SleepsUntilEarliest)
<1> SUFFICES ASSUME ~SelfCancel PROVE TimerSpec => []SleepsUntilEarliest
  OBVIOUS
<1>1. TimerInv /\ [TimerNext]_timerVars => TimerInv'
  BY TimerStep
<1> QED
  BY TimerInitInv, <1>1, TimerInvSafe, PTL DEF TimerSpec
=============================================================================
