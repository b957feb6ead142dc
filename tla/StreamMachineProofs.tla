------------------------ MODULE StreamMachineProofs ------------------------
(***************************************************************************)
(* Proofs about the state machine of a stream (module StreamMachine).      *)
(*                                                                         *)
(* The machine implements the supply of sessions of module SessionSupply:  *)
(* PutMedia is called only with an endpoint and with a credential granted  *)
(* after the last refusal of one.  The code keeps neither fact; where the  *)
(* machine may go depends on the state, the streamState and the result of  *)
(* the last call alone.  The invariant says for which of them the endpoint *)
(* is known (EndpointKnown) and the credential good (CredentialGood), and  *)
(* what the machine's own variables tell about each other (Orderly).       *)
(*                                                                         *)
(* Nobody waits for a call that was not made.  Whether an answer is owed   *)
(* depends on the state, streamState and the queue of the upload handles   *)
(* together; the invariant says what a machine that rests has (Resting),   *)
(* what a step out of PUT_STREAM finds (Stepping), that streamState does   *)
(* not claim a call that was not made (PutCalled), and that an event frees *)
(* no handle that is in the queue (Putting, Clean).                        *)
(***************************************************************************)
EXTENDS StreamMachine, TLAPS, SequenceTheorems

Histories == [failed : BOOLEAN, endpoint : BOOLEAN, granted : BOOLEAN, refused : BOOLEAN,
              unheard : BOOLEAN, crossed : BOOLEAN, preempted : BOOLEAN]

ClientResults == {"OK", "NOT_SET", "AUTH_FAILURE", "NOT_FOUND", "TIMEOUT", "UNKNOWN",
                  "NOT_AUTHORIZED"}

MachineTypes ==
    /\ pc \in {"none", "idle", "step", "client", "client2", "call", "return"}
    /\ state \in StreamStates
    /\ streamState \in {"NEW", "READY", "PUT_STREAM", "STREAMING", "STOPPED"}
    /\ calls \in [CallStates -> Nat]
    /\ history \in Histories
    /\ ready \in BOOLEAN
    /\ client \in [state : ClientStates, count : Int, result : ClientResults, ready : BOOLEAN]

Good == history.granted \/ history.crossed \/ history.preempted

(* The machine is about to leave STOPPED, or to be sent there. *)
Stopping == pc = "step" /\ (state = "STOPPED" \/ streamState = "STOPPED")
Going(s) == pc = "step" /\ state = s /\ streamState # "STOPPED"
Parked == pc # "step" /\ state = "STOPPED"

(* What the variables of the machine tell about each other. *)
Orderly ==
    /\ streamState = "STOPPED" => pc = "step"
    /\ state = "NEW" => pc \in {"none", "step"}
    /\ pc = "none" => state = "NEW"
    /\ pc \in {"client", "client2", "call"} => state \in CallStates
    /\ pc = "return" /\ ret = "TAG_STREAM_CALL_FAILED" => state = "TAG"
    /\ clientStatus # "TAG_STREAM_CALL_FAILED"

(* PutMedia has been called only by a machine that has been ready; before  *)
(* it is, streamState is NEW.                                              *)
ReadyFirst ==
    /\ state \in {"READY", "PUT_STREAM", "STREAMING"} => ready
    /\ calls["PUT_STREAM"] > 0 \/ handles # <<>> => ready
    /\ streamState = "NEW" /\ state # "STOPPED" =>
         handles = <<>> /\ calls["PUT_STREAM"] = 0

EndpointKnown ==
    /\ ready \/ state = "GET_TOKEN" \/ calls["GET_TOKEN"] > 0 => history.endpoint
    /\ Going("GET_ENDPOINT") /\ result = "OK" => history.endpoint
    /\ setup.recover /\ Stopping /\ result \in {"TIMEOUT", "NOT_AUTHORIZED"} => history.endpoint
    /\ setup.recover /\ Parked => history.endpoint

CredentialGood ==
    /\ Going("GET_TOKEN") /\ result = "OK" => Good
    /\ Going("READY") \/ Going("STREAMING") => Good
    /\ Going("PUT_STREAM") /\ result # "NOT_AUTHORIZED" => Good
    /\ setup.recover /\ Stopping /\ result = "TIMEOUT" => Good
    /\ setup.recover /\ Parked => Good
    /\ pc # "step" /\ state \in {"PUT_STREAM", "STREAMING"} => Good
    /\ streamState = "NEW" /\ state # "STOPPED" /\ ready => Good

SupplyInv == MachineTypes /\ Orderly /\ ReadyFirst /\ EndpointKnown /\ CredentialGood

-----------------------------------------------------------------------------
(* The tables.                                                             *)

(* What stepStateMachine makes of a next state: it enters it, or reports   *)
(* that state's own error and stays.                                       *)
LEMMA Entering ==
    ASSUME NEW cur \in StreamStates, NEW n, NEW next \in StreamStates,
           NEW to, to = Transition(StreamTable, cur, n, next)
    PROVE  /\ to.status = "OK" => to.state = next
           /\ to.status = "TAG_STREAM_CALL_FAILED" => cur = "TAG"
           /\ cur # next /\ cur \in StreamTable[next].acceptStates => to.status = "OK"
<1>1. MaxRetryCount \in Nat
  BY MachineBounds
<1>2. StreamTable[next].maxLocalStateRetryCount \in {Unlimited, MaxRetryCount}
  BY DEF StreamTable, StateEntry, StreamStates
<1>3. StreamTable[next].status = "TAG_STREAM_CALL_FAILED" => next = "TAG"
  BY DEF StreamTable, StateEntry, StreamStates
<1>4. StreamTable[next].status # "OK"
  BY DEF StreamTable, StateEntry, StreamStates
<1> DEFINE entry == StreamTable[next]
           limit == entry.maxLocalStateRetryCount
           again == IF next # cur THEN 0 ELSE IF n <= limit THEN n + 1 ELSE n
<1>5. to = IF cur \notin entry.acceptStates
           THEN [status |-> "INVALID_STREAM_STATE", state |-> cur, count |-> n]
           ELSE IF limit # Unlimited /\ again > limit
           THEN [status |-> entry.status, state |-> cur, count |-> again]
           ELSE [status |-> "OK", state |-> next, count |-> again]
  BY DEF Transition
<1>6. next # cur => ~(limit # Unlimited /\ again > limit)
  BY <1>1, <1>2
<1> HIDE DEF again, limit, entry
<1>7. to.status = "OK" => to.state = next
  BY <1>4, <1>5 DEF entry
<1>8. to.status = "TAG_STREAM_CALL_FAILED" => cur = "TAG"
  BY <1>3, <1>5, <1>6 DEF entry
<1>9. cur # next /\ cur \in entry.acceptStates => to.status = "OK"
  BY <1>5, <1>6
<1> QED BY <1>7, <1>8, <1>9 DEF entry

(* The ways that are always open. *)
LEMMA Accepting ==
    /\ StreamTable["STOPPED"].acceptStates = StreamStates
    /\ "NEW" \in StreamTable["DESCRIBE"].acceptStates
    /\ \A s \in {"NEW", "DESCRIBE", "GET_ENDPOINT", "GET_TOKEN", "READY"} :
         "STOPPED" \in StreamTable[s].acceptStates
    /\ "PUT_STREAM" \in StreamTable["GET_TOKEN"].acceptStates
BY DEF StreamTable, StateEntry, StreamStates

(* The client reports errors of its own. *)
LEMMA ClientErrors ==
    ASSUME NEW cur \in ClientStates, NEW n \in Int, NEW next \in ClientStates,
           NEW to, to = Transition(ClientTable, cur, n, next)
    PROVE  to.state \in ClientStates /\ to.count \in Int /\ to.status # "TAG_STREAM_CALL_FAILED"
<1>1. ClientTable[next].status # "TAG_STREAM_CALL_FAILED"
  BY DEF ClientTable, StateEntry, ClientStates
<1>2. ClientTable[next].maxLocalStateRetryCount \in Int
  BY MachineBounds DEF ClientTable, StateEntry, ClientStates, Unlimited
<1> QED BY <1>1, <1>2 DEF Transition

-----------------------------------------------------------------------------
(* Where the machine goes.                                                 *)

LEMMA Directions ==
    ASSUME MachineTypes
    PROVE  /\ FromStreamState \in StreamStates \cup {"ERROR"}
           /\ state # "STOPPED" /\ streamState = "STOPPED" => FromStreamState = "STOPPED"
           /\ state = "STOPPED" /\ setup.recover =>
                /\ FromStreamState \in {"NEW", "DESCRIBE", "GET_ENDPOINT", "GET_TOKEN", "READY"}
                /\ FromStreamState = "GET_TOKEN" => result = "NOT_AUTHORIZED"
                /\ FromStreamState = "READY" => result = "TIMEOUT"
           /\ state = "STOPPED" /\ ~setup.recover => FromStreamState \in {"NEW", "ERROR"}
           /\ state # "STOPPED" /\ streamState # "STOPPED" =>
                /\ state = "NEW" => FromStreamState = "DESCRIBE"
                /\ state = "DESCRIBE" =>
                     /\ FromStreamState \in {"ERROR", "TAG", "GET_ENDPOINT", "CREATE", "STOPPED", "DESCRIBE"}
                     /\ FromStreamState = "STOPPED" => result = "NOT_FOUND"
                /\ state \in {"CREATE", "TAG"} => FromStreamState \in {"CREATE", "TAG", "GET_ENDPOINT"}
                /\ state = "GET_ENDPOINT" => \/ FromStreamState = "GET_ENDPOINT"
                                             \/ result = "OK" /\ FromStreamState = "GET_TOKEN"
                /\ state = "GET_TOKEN" => \/ FromStreamState = "GET_TOKEN"
                                          \/ result = "OK" /\ FromStreamState = "READY"
                /\ state = "READY" => FromStreamState = "PUT_STREAM"
                /\ state = "PUT_STREAM" =>
                     /\ FromStreamState \in {"STREAMING", "GET_ENDPOINT", "GET_TOKEN", "DESCRIBE"}
                     /\ FromStreamState = "STREAMING" => result = "OK"
                     /\ result = "NOT_AUTHORIZED" => FromStreamState = "GET_TOKEN"
                /\ state = "STREAMING" => FromStreamState = "STREAMING"
<1> USE DEF MachineTypes
<1>1. CASE state = "STOPPED"
  <2>1. FromStreamState = fromStoppedStreamState
    BY <1>1 DEF FromStreamState
  <2>2. /\ serviceCallResultCheck(result) = "NOT_AUTHORIZED" => result = "NOT_AUTHORIZED"
        /\ serviceCallResultCheck(result) = "TIMEOUT" => result = "TIMEOUT"
    BY DEF serviceCallResultCheck
  <2>3. setup.recover =>
          /\ fromStoppedStreamState \in {"NEW", "DESCRIBE", "GET_ENDPOINT", "GET_TOKEN", "READY"}
          /\ fromStoppedStreamState = "GET_TOKEN" => result = "NOT_AUTHORIZED"
          /\ fromStoppedStreamState = "READY" => result = "TIMEOUT"
    BY <2>2 DEF fromStoppedStreamState
  <2>4. ~setup.recover => fromStoppedStreamState \in {"NEW", "ERROR"}
    BY DEF fromStoppedStreamState
  <2> QED BY <1>1, <2>1, <2>3, <2>4 DEF StreamStates
<1>2. CASE state # "STOPPED" /\ streamState = "STOPPED"
  BY <1>2 DEF FromStreamState, StreamStates
<1>3. CASE state # "STOPPED" /\ streamState # "STOPPED"
  <2>1. state = "NEW" => FromStreamState = "DESCRIBE"
    BY <1>3 DEF FromStreamState
  <2>2. state = "DESCRIBE" =>
          /\ FromStreamState \in {"ERROR", "TAG", "GET_ENDPOINT", "CREATE", "STOPPED", "DESCRIBE"}
          /\ FromStreamState = "STOPPED" => result = "NOT_FOUND"
    BY <1>3 DEF FromStreamState, fromDescribeStreamState
  <2>3. state \in {"CREATE", "TAG"} => FromStreamState \in {"CREATE", "TAG", "GET_ENDPOINT"}
    BY <1>3 DEF FromStreamState, fromCallState
  <2>4. state = "GET_ENDPOINT" => \/ FromStreamState = "GET_ENDPOINT"
                                  \/ result = "OK" /\ FromStreamState = "GET_TOKEN"
    BY <1>3 DEF FromStreamState, fromCallState
  <2>5. state = "GET_TOKEN" => \/ FromStreamState = "GET_TOKEN"
                               \/ result = "OK" /\ FromStreamState = "READY"
    BY <1>3 DEF FromStreamState, fromCallState
  <2>6. state = "READY" => FromStreamState = "PUT_STREAM"
    BY <1>3 DEF FromStreamState
  <2>7. state = "PUT_STREAM" =>
          /\ FromStreamState \in {"STREAMING", "GET_ENDPOINT", "GET_TOKEN", "DESCRIBE"}
          /\ FromStreamState = "STREAMING" => result = "OK"
          /\ result = "NOT_AUTHORIZED" => FromStreamState = "GET_TOKEN"
    BY <1>3 DEF FromStreamState, fromPutStreamState
  <2>8. state = "STREAMING" => FromStreamState = "STREAMING"
    BY <1>3 DEF FromStreamState
  <2> HIDE DEF MachineTypes
  <2>9. state \in StreamStates
    BY DEF MachineTypes
  <2> QED BY <1>3, <2>1, <2>2, <2>3, <2>4, <2>5, <2>6, <2>7, <2>8, <2>9 DEF StreamStates
<1> QED BY <1>1, <1>2, <1>3

-----------------------------------------------------------------------------
(* The invariant holds at the start and is kept by the client.             *)

LEMMA SupplyInitially == Init => SupplyInv
<1> SUFFICES ASSUME Init PROVE SupplyInv
  OBVIOUS
<1> USE DEF Init, ClientInit
<1>1. MachineTypes
  <2>1. calls \in [CallStates -> Nat]
    OBVIOUS
  <2>2. history \in Histories
    BY DEF Histories
  <2>3. client \in [state : ClientStates, count : Int, result : ClientResults, ready : BOOLEAN]
    BY DEF ClientStates, ClientResults
  <2> QED BY <2>1, <2>2, <2>3 DEF MachineTypes, StreamStates
<1>2. Orderly /\ ReadyFirst /\ EndpointKnown /\ CredentialGood
  BY DEF Orderly, ReadyFirst, EndpointKnown, CredentialGood, Going, Stopping, Parked, CallStates
<1> QED BY <1>1, <1>2 DEF SupplyInv

(* Only the client and what it reports are not the stream's. *)
LEMMA ClientAlone ==
    ASSUME SupplyInv, UNCHANGED <<setup, streamVars>>,
           client' \in [state : ClientStates, count : Int, result : ClientResults, ready : BOOLEAN],
           clientStatus' # "TAG_STREAM_CALL_FAILED"
    PROVE  SupplyInv'
<1>1. UNCHANGED <<setup, pc, ret, state, streamState, result, ready, handles, calls, history>>
  BY DEF streamVars
<1>2. MachineTypes'
  BY <1>1 DEF SupplyInv, MachineTypes
<1>3. Orderly' /\ ReadyFirst' /\ EndpointKnown' /\ CredentialGood'
  BY <1>1 DEF SupplyInv, Orderly, ReadyFirst, EndpointKnown, CredentialGood, Going, Stopping,
              Parked, Good
<1> QED BY <1>2, <1>3 DEF SupplyInv

LEMMA ClientDirections ==
    ASSUME MachineTypes PROVE FromClientState \in ClientStates \cup {"ERROR"}
<1> USE DEF ClientStates
<1>1. client.state \in ClientStates
  BY DEF MachineTypes
<1>2. /\ fromAuthClientState \in {"ERROR", "PROVISION", "AUTH", "GET_TOKEN", "READY", "CREATE"}
      /\ fromProvisionClientState \in {"PROVISION", "GET_TOKEN", "CREATE"}
      /\ fromGetTokenClientState \in {"READY", "CREATE", "GET_TOKEN"}
      /\ fromCreateClientState \in {"CREATE", "TAG", "READY"}
      /\ fromTagClientState \in {"READY", "TAG"}
      /\ fromReadyClientState \in {"AUTH", "READY"}
  BY DEF fromAuthClientState, fromProvisionClientState, fromGetTokenClientState,
         fromCreateClientState, fromTagClientState, fromReadyClientState
<1> QED BY <1>1, <1>2 DEF FromClientState

LEMMA ClientKeeps ==
    ASSUME SupplyInv, ClientNext, UNCHANGED <<setup, streamVars>> PROVE SupplyInv'
<1> DEFINE Clients == [state : ClientStates, count : Int, result : ClientResults, ready : BOOLEAN]
<1>1. client \in Clients /\ clientStatus # "TAG_STREAM_CALL_FAILED"
  BY DEF SupplyInv, MachineTypes, Orderly
<1> SUFFICES client' \in Clients /\ clientStatus' # "TAG_STREAM_CALL_FAILED"
  BY ClientAlone
<1>2. ASSUME NEW r \in ClientResults PROVE [client EXCEPT !.result = r] \in Clients
  BY <1>1
<1>3. ASSUME NEW next \in ClientStates \cup {"ERROR"}, NEW locked, EnterClientState(next, locked)
      PROVE  client' \in Clients /\ clientStatus' # "TAG_STREAM_CALL_FAILED"
  <2> DEFINE to == Transition(ClientTable, client.state, client.count, next)
             c == [client EXCEPT !.state = to.state, !.count = to.count]
  <2>1. CASE next = "ERROR"
    BY <2>1, <1>1, <1>3 DEF EnterClientState, ClientReturns
  <2>2. CASE next # "ERROR"
    <3>1. next \in ClientStates
      BY <2>2
    <3>2. to.state \in ClientStates /\ to.count \in Int /\ to.status # "TAG_STREAM_CALL_FAILED"
      BY <1>1, <3>1, ClientErrors
    <3>3. c \in Clients
      <4> HIDE DEF to
      <4> QED BY <1>1, <3>2
    <3>4. \A r \in ClientResults : [c EXCEPT !.result = r] \in Clients
      <4> HIDE DEF c
      <4> QED BY <3>3
    <3>5. [c EXCEPT !.ready = TRUE] \in Clients
      <4> HIDE DEF c
      <4> QED BY <3>3
    <3>6. CASE to.status # "OK"
      BY <1>1, <3>2, <3>3, <3>6, <2>2, <1>3 DEF EnterClientState, ClientReturns
    <3>7. CASE to.status = "OK"
      <4>1. \/ executeAuthClientState(c, locked) \/ executeProvisionClientState(c, locked)
            \/ executeClientCall(c, locked) \/ executeTagClientState(c, locked)
            \/ executeReadyClientState(c, locked)
        BY <3>7, <2>2, <1>3 DEF EnterClientState
      <4> HIDE DEF c
      <4>2. CASE executeAuthClientState(c, locked)
        BY <4>2, <1>1, <3>4 DEF executeAuthClientState, getAuthInfo, ClientReturns, ClientGoesOn, ClientResults
      <4>3. CASE executeProvisionClientState(c, locked)
        BY <4>3, <1>1, <3>3 DEF executeProvisionClientState, ClientReturns, ClientGoesOn
      <4>4. CASE executeClientCall(c, locked)
        BY <4>4, <1>1, <3>4 DEF executeClientCall, ClientReturns, ClientResults
      <4>5. CASE executeTagClientState(c, locked)
        BY <4>5, <1>1, <3>4 DEF executeTagClientState, ClientGoesOn, ClientResults
      <4>6. CASE executeReadyClientState(c, locked)
        BY <4>6, <1>1, <3>5 DEF executeReadyClientState, ClientReturns
      <4> QED BY <4>1, <4>2, <4>3, <4>4, <4>5, <4>6
    <3> QED BY <3>6, <3>7
  <2> QED BY <2>1, <2>2
<1>7. FromClientState \in ClientStates \cup {"ERROR"}
  BY ClientDirections DEF SupplyInv
<1>8. CASE StepClient
  BY <1>3, <1>7, <1>8 DEF StepClient
<1>9. CASE StepUnlocked
  BY <1>3, <1>9 DEF StepUnlocked
<1>10. CASE ChooseUnlocked \/ AnotherStream
  BY <1>1, <1>10 DEF ChooseUnlocked, AnotherStream
<1>4. CASE \E r \in {"OK", "TIMEOUT", "NOT_AUTHORIZED"} : createDeviceResult(r)
  BY <1>4, <1>1, <1>2 DEF createDeviceResult, ClientResults
<1>5. CASE \E r \in {"OK", "TIMEOUT"}, type \in {"STS", "NONE"} : deviceCertToTokenResult(r, type)
  BY <1>5, <1>1, <1>2 DEF deviceCertToTokenResult, ClientResults
<1>6. CASE TokenAges
  BY <1>6, <1>1 DEF TokenAges
<1> QED BY <1>4, <1>5, <1>6, <1>8, <1>9, <1>10 DEF ClientNext

-----------------------------------------------------------------------------
(* One iteration of the stream's machine.                                  *)

LEMMA HandlesFrom == HandlesAfterFrom # <<>> => handles # <<>>
<1> SUFFICES ASSUME handles = <<>> PROVE HandlesAfterFrom = <<>>
  OBVIOUS
<1>1. Len(handles) = 0
  OBVIOUS
<1>2. InState({"NEW"}) = {}
  BY <1>1 DEF InState, Visible
<1> QED BY <1>2 DEF HandlesAfterFrom

(* A step that enters no state, and one that enters the next. *)
LEMMA StepStreamCases ==
    ASSUME SupplyInv, StepStream
    PROVE  LET next == FromStreamState
               ss == IF state = "STOPPED" THEN "READY" ELSE streamState
           IN  /\ pc = "step"
               /\ \/ /\ pc' = "return" /\ ret' # "OK" /\ streamState' = ss /\ UNCHANGED <<state, ready>>
                     /\ ret' = "TAG_STREAM_CALL_FAILED" => state = "TAG"
                     /\ \/ next = "ERROR"
                        \/ next = state \/ state \notin StreamTable[next].acceptStates
                  \/ next \in StreamStates /\ state' = next /\ ExecuteStreamState(next, ss)
               /\ UNCHANGED <<setup, client, clientStatus, result, calls, history>>
               /\ handles' # <<>> => handles # <<>>
<1> DEFINE next == FromStreamState
           ss == IF state = "STOPPED" THEN "READY" ELSE streamState
           to == Transition(StreamTable, state, count, next)
<1>1. state \in StreamStates /\ next \in StreamStates \cup {"ERROR"}
  BY Directions DEF SupplyInv, MachineTypes
<1>2. handles' # <<>> => handles # <<>>
  BY HandlesFrom DEF StepStream
<1>3. next # "ERROR" => /\ to.status = "OK" => to.state = next
                        /\ to.status = "TAG_STREAM_CALL_FAILED" => state = "TAG"
                        /\ state # next /\ state \in StreamTable[next].acceptStates => to.status = "OK"
  BY <1>1, Entering
<1>4. /\ pc = "step" /\ UNCHANGED <<setup, client, clientStatus, result, calls, history>>
      /\ IF next = "ERROR" \/ to.status # "OK"
         THEN /\ Returns(IF next = "ERROR" THEN "STREAM_ERROR" ELSE to.status)
              /\ streamState' = ss /\ UNCHANGED <<state, ready>>
         ELSE state' = to.state /\ ExecuteStreamState(to.state, ss)
  BY DEF StepStream
<1> HIDE DEF next, ss, to
<1>5. CASE next = "ERROR"
  BY <1>1, <1>2, <1>4, <1>5 DEF Returns, next, ss
<1>6. CASE next # "ERROR" /\ to.status # "OK"
  BY <1>1, <1>2, <1>3, <1>4, <1>6 DEF Returns, next, ss
<1>7. CASE next # "ERROR" /\ to.status = "OK"
  BY <1>1, <1>2, <1>3, <1>4, <1>7 DEF next, ss
<1> QED BY <1>5, <1>6, <1>7

LEMMA StepStreamKeeps ==
    ASSUME SupplyInv, StepStream PROVE SupplyInv'
<1> DEFINE next == FromStreamState
           ss == IF state = "STOPPED" THEN "READY" ELSE streamState
<1>1. /\ pc = "step" /\ UNCHANGED <<setup, client, clientStatus, result, calls, history>>
      /\ handles' # <<>> => handles # <<>>
  BY StepStreamCases
<1>2. \/ /\ pc' = "return" /\ streamState' = ss /\ UNCHANGED <<state, ready>>
         /\ ret' = "TAG_STREAM_CALL_FAILED" => state = "TAG"
         /\ next = "ERROR" \/ next = state \/ state \notin StreamTable[next].acceptStates
      \/ next \in StreamStates /\ state' = next /\ ExecuteStreamState(next, ss)
  BY StepStreamCases
<1>3. /\ state # "STOPPED" /\ streamState = "STOPPED" => next = "STOPPED"
      /\ state = "STOPPED" /\ setup.recover =>
           /\ next \in {"NEW", "DESCRIBE", "GET_ENDPOINT", "GET_TOKEN", "READY"}
           /\ next = "GET_TOKEN" => result = "NOT_AUTHORIZED"
           /\ next = "READY" => result = "TIMEOUT"
      /\ state = "STOPPED" /\ ~setup.recover => next \in {"NEW", "ERROR"}
  BY Directions DEF SupplyInv
<1>4. state # "STOPPED" /\ streamState # "STOPPED" =>
        /\ state = "NEW" => next = "DESCRIBE"
        /\ state = "DESCRIBE" =>
             /\ next \in {"ERROR", "TAG", "GET_ENDPOINT", "CREATE", "STOPPED", "DESCRIBE"}
             /\ next = "STOPPED" => result = "NOT_FOUND"
        /\ state \in {"CREATE", "TAG"} => next \in {"CREATE", "TAG", "GET_ENDPOINT"}
        /\ state = "GET_ENDPOINT" => next = "GET_ENDPOINT" \/ (result = "OK" /\ next = "GET_TOKEN")
        /\ state = "GET_TOKEN" => next = "GET_TOKEN" \/ (result = "OK" /\ next = "READY")
        /\ state = "READY" => next = "PUT_STREAM"
        /\ state = "PUT_STREAM" =>
             /\ next \in {"STREAMING", "GET_ENDPOINT", "GET_TOKEN", "DESCRIBE"}
             /\ next = "STREAMING" => result = "OK"
             /\ result = "NOT_AUTHORIZED" => next = "GET_TOKEN"
        /\ state = "STREAMING" => next = "STREAMING"
  BY Directions DEF SupplyInv
<1>5. /\ MachineTypes /\ Orderly /\ ReadyFirst /\ EndpointKnown /\ CredentialGood
      /\ state \in StreamStates
  BY DEF SupplyInv, MachineTypes
<1>6. /\ ss = "STOPPED" => next = "STOPPED" /\ streamState = "STOPPED"
      /\ ss = "NEW" => streamState = "NEW" /\ state # "STOPPED"
      /\ ss \in {"NEW", "READY", "PUT_STREAM", "STREAMING", "STOPPED"}
  BY <1>3, <1>5 DEF MachineTypes
<1>7. Good' <=> Good
  BY <1>1 DEF Good
<1> HIDE DEF next, ss
(* It stays where it is. *)
<1>8. CASE /\ pc' = "return" /\ streamState' = ss /\ UNCHANGED <<state, ready>>
           /\ ret' = "TAG_STREAM_CALL_FAILED" => state = "TAG"
           /\ next = "ERROR" \/ next = state \/ state \notin StreamTable[next].acceptStates
  <2>1. streamState' # "STOPPED"
    BY <1>1, <1>3, <1>5, <1>6, <1>8, Accepting DEF Orderly, ss
  <2>2. streamState # "STOPPED" \/ state = "STOPPED"
    BY <2>1, <1>8 DEF ss
  <2>3. ~(setup.recover /\ state = "STOPPED")
    BY <1>3, <1>8, Accepting
  <2>4. state # "NEW"
    BY <2>2, <1>4, <1>8, Accepting
  <2>5. state = "PUT_STREAM" => result # "NOT_AUTHORIZED"
    BY <2>2, <1>4, <1>8, Accepting
  <2>6. MachineTypes'
    BY <1>1, <1>5, <1>6, <1>8 DEF MachineTypes
  <2>7. Orderly'
    BY <1>1, <1>5, <1>8, <2>1, <2>4 DEF Orderly
  <2>8. ReadyFirst'
    BY <1>1, <1>5, <1>6, <1>8 DEF ReadyFirst
  <2>9. EndpointKnown'
    BY <1>1, <1>5, <1>8, <2>3 DEF EndpointKnown, Going, Stopping, Parked
  <2>10. CredentialGood'
    BY <1>1, <1>5, <1>6, <1>7, <1>8, <2>2, <2>3, <2>5
       DEF CredentialGood, Going, Stopping, Parked
  <2> QED BY <2>6, <2>7, <2>8, <2>9, <2>10 DEF SupplyInv
(* It enters the next state. *)
<1>9. CASE next \in StreamStates /\ state' = next /\ ExecuteStreamState(next, ss)
  <2>1. MachineTypes'
    BY <1>1, <1>5, <1>6, <1>9
       DEF MachineTypes, ExecuteStreamState, executeReadyStreamState, executeStoppedStreamState, Returns
  <2>2. next \in {"GET_TOKEN", "READY", "PUT_STREAM", "STREAMING"} => history.endpoint
    BY <1>1, <1>3, <1>4, <1>5 DEF EndpointKnown, ReadyFirst, Going, Stopping, StreamStates
  <2>3. next \in {"READY", "PUT_STREAM", "STREAMING"} => Good
    BY <1>1, <1>3, <1>4, <1>5 DEF CredentialGood, Going, Stopping, StreamStates
  <2>4. next \in {"PUT_STREAM", "STREAMING"} => ready
    BY <1>1, <1>3, <1>4, <1>5 DEF ReadyFirst, StreamStates
  <2>5. CASE next = "NEW"
    <3>1. pc' = "step" /\ streamState' = ss /\ UNCHANGED ready
      BY <2>5, <1>9 DEF ExecuteStreamState, CallStates
    <3>2. ss = "READY"
      BY <2>5, <1>3, <1>4, <1>5 DEF StreamStates, ss
    <3> QED BY <1>1, <1>5, <1>7, <1>9, <2>1, <2>5, <3>1, <3>2
            DEF SupplyInv, Orderly, ReadyFirst, EndpointKnown, CredentialGood, Going, Stopping, Parked
  <2>6. CASE next = "READY"
    <3>1. ready' = TRUE /\ streamState' = ss /\ pc' \in {"step", "return"}
      BY <2>6, <1>9 DEF ExecuteStreamState, executeReadyStreamState, Returns, CallStates
    <3>2. pc' = "return" => ret' \in {"OK", "CALLBACK_ERROR"}
      BY <2>6, <1>1, <1>9 DEF ExecuteStreamState, executeReadyStreamState, Returns, CallStates
    <3> QED BY <1>1, <1>5, <1>6, <1>7, <1>9, <2>1, <2>2, <2>3, <2>6, <3>1, <3>2
            DEF SupplyInv, Orderly, ReadyFirst, EndpointKnown, CredentialGood, Going, Stopping, Parked
  <2>7. CASE next = "STOPPED"
    <3>1. /\ UNCHANGED ready
          /\ \/ result = "TIMEOUT" /\ streamState' = "NEW" /\ pc' = "return" /\ ret' = "OK"
             \/ streamState' = ss /\ pc' = "step"
      BY <2>7, <1>9 DEF ExecuteStreamState, executeStoppedStreamState, Returns, CallStates
    <3>2. state # "STOPPED" /\ (streamState = "STOPPED" \/ result = "NOT_FOUND")
      BY <2>7, <1>3, <1>4, <1>5 DEF StreamStates
    <3>3. EndpointKnown'
      BY <1>1, <1>5, <1>9, <2>7, <3>1, <3>2 DEF EndpointKnown, Going, Stopping, Parked
    <3>4. CredentialGood'
      BY <1>1, <1>5, <1>7, <1>9, <2>7, <3>1, <3>2 DEF CredentialGood, Going, Stopping, Parked
    <3> QED BY <1>1, <1>5, <1>6, <1>9, <2>1, <2>7, <3>1, <3>3, <3>4
            DEF SupplyInv, Orderly, ReadyFirst
  <2>8. CASE next = "STREAMING"
    <3>1. streamState' = "STREAMING" /\ pc' = "return" /\ ret' = "OK" /\ UNCHANGED ready
      BY <2>8, <1>9 DEF ExecuteStreamState, Returns, CallStates
    <3> QED BY <1>1, <1>5, <1>7, <1>9, <2>1, <2>2, <2>3, <2>4, <2>8, <3>1
            DEF SupplyInv, Orderly, ReadyFirst, EndpointKnown, CredentialGood, Going, Stopping, Parked
  <2>9. CASE next \in CallStates
    <3>1. pc' = "client" /\ streamState' = ss /\ UNCHANGED ready
      BY <2>9, <1>9 DEF ExecuteStreamState, CallStates
    <3>2. next \notin {"NEW", "STOPPED", "READY", "STREAMING"}
      BY <2>9 DEF CallStates
    <3>3. ReadyFirst'
      BY <1>1, <1>5, <1>6, <1>9, <2>4, <3>1, <3>2 DEF ReadyFirst
    <3>4. Orderly'
      BY <1>1, <1>5, <1>6, <1>9, <2>9, <3>1, <3>2 DEF Orderly
    <3>5. EndpointKnown'
      BY <1>1, <1>5, <1>9, <2>2, <3>1, <3>2 DEF EndpointKnown, Going, Stopping, Parked
    <3>6. CredentialGood'
      BY <1>1, <1>5, <1>6, <1>7, <1>9, <2>3, <3>1, <3>2 DEF CredentialGood, Going, Stopping, Parked
    <3> QED BY <2>1, <3>3, <3>4, <3>5, <3>6 DEF SupplyInv
  <2> QED BY <1>9, <2>5, <2>6, <2>7, <2>8, <2>9 DEF StreamStates, CallStates
<1> QED BY <1>2, <1>8, <1>9

LEMMA NoticeFailsKeeps ==
    ASSUME SupplyInv, NoticeFails
    PROVE  SupplyInv' /\ UNCHANGED calls /\ history' = [history EXCEPT !.unheard = TRUE]
<1>1. /\ pc = "step" /\ state = "PUT_STREAM" /\ streamState # "STOPPED" /\ result = "OK"
      /\ pc' = "return" /\ ret' = "CALLBACK_ERROR"
      /\ history' = [history EXCEPT !.unheard = TRUE]
      /\ UNCHANGED <<setup, client, clientStatus, state, streamState, result, ready, calls>>
      /\ handles' # <<>> => handles # <<>>
  BY HandlesFrom DEF NoticeFails, Returns, clientVars
<1>2. MachineTypes /\ Orderly /\ ReadyFirst /\ EndpointKnown /\ CredentialGood
  BY DEF SupplyInv
<1>3. /\ history' \in Histories
      /\ \A f \in {"endpoint", "granted", "refused", "crossed", "preempted"} : history'[f] = history[f]
  BY <1>1, <1>2 DEF MachineTypes, Histories
<1>4. Good' <=> Good
  BY <1>3 DEF Good
<1>5. MachineTypes' /\ Orderly' /\ ReadyFirst'
  BY <1>1, <1>2, <1>3 DEF MachineTypes, Orderly, ReadyFirst, CallStates
<1>6. EndpointKnown' /\ CredentialGood'
  BY <1>1, <1>2, <1>3, <1>4 DEF EndpointKnown, CredentialGood, Going, Stopping, Parked
<1> QED BY <1>1, <1>5, <1>6 DEF SupplyInv

-----------------------------------------------------------------------------
(* The other steps of an iteration.                                        *)

LEMMA ClientSteppedKeeps ==
    ASSUME SupplyInv, ClientStepped PROVE SupplyInv' /\ UNCHANGED <<calls, history>>
<1>1. /\ pc \in {"client", "client2"} /\ pc' \in {"call", "client2", "return"}
      /\ pc' = "return" => ret' # "TAG_STREAM_CALL_FAILED"
      /\ UNCHANGED <<setup, client, clientStatus, state, streamState, result, ready, handles, calls,
                     history>>
  BY DEF ClientStepped, Returns, SupplyInv, Orderly
<1>2. MachineTypes' /\ Orderly' /\ ReadyFirst'
  BY <1>1 DEF SupplyInv, MachineTypes, Orderly, ReadyFirst, StreamStates, CallStates
<1>3. EndpointKnown' /\ CredentialGood'
  BY <1>1 DEF SupplyInv, EndpointKnown, CredentialGood, Going, Stopping, Parked, Good
<1> QED BY <1>1, <1>2, <1>3 DEF SupplyInv

(* The one step that calls PutMedia is the one the supply restricts. *)
LEMMA ServiceCallKeeps ==
    ASSUME SupplyInv, ServiceCall
    PROVE  /\ SupplyInv' /\ UNCHANGED history
           /\ \/ UNCHANGED calls
              \/ calls' = [calls EXCEPT !["PUT_STREAM"] = @ + 1] /\ history.endpoint /\ Good
              \/ \E k \in CallStates \ {"PUT_STREAM"} : calls' = [calls EXCEPT ![k] = @ + 1]
<1>1. /\ pc = "call" /\ pc' = "return" /\ ret' # "TAG_STREAM_CALL_FAILED"
      /\ UNCHANGED <<setup, client, clientStatus, state, ready, handles, history>>
  BY DEF ServiceCall, Returns, clientVars
<1>2. state \in CallStates
  BY <1>1 DEF SupplyInv, Orderly
<1>3. \/ UNCHANGED <<streamState, calls>>
      \/ /\ calls' = [calls EXCEPT ![state] = @ + 1]
         /\ streamState' = IF state = "PUT_STREAM" THEN "PUT_STREAM" ELSE streamState
  BY DEF ServiceCall
<1>4. /\ MachineTypes /\ Orderly /\ ReadyFirst /\ EndpointKnown /\ CredentialGood
      /\ calls \in [CallStates -> Nat]
  BY DEF SupplyInv, MachineTypes
<1>5. calls' \in [CallStates -> Nat]
  BY <1>2, <1>3, <1>4
<1>6. \A k \in CallStates : k # state => calls'[k] = calls[k]
  BY <1>2, <1>3, <1>4
<1>7. MachineTypes'
  BY <1>1, <1>3, <1>4, <1>5 DEF MachineTypes
<1>8. Orderly'
  BY <1>1, <1>2, <1>3, <1>4 DEF Orderly, CallStates
<1>9. ReadyFirst'
  <2>1. CASE state = "PUT_STREAM"
    BY <1>1, <1>3, <1>4, <2>1 DEF ReadyFirst
  <2>2. CASE state # "PUT_STREAM"
    <3>1. calls'["PUT_STREAM"] = calls["PUT_STREAM"] /\ UNCHANGED streamState
      BY <1>3, <1>6, <2>2 DEF CallStates
    <3> QED BY <1>1, <1>4, <3>1 DEF ReadyFirst
  <2> QED BY <2>1, <2>2
<1>10. EndpointKnown'
  <2>1. calls'["GET_TOKEN"] = calls["GET_TOKEN"] \/ state = "GET_TOKEN"
    BY <1>6 DEF CallStates
  <2> QED BY <1>1, <1>2, <1>4, <2>1 DEF EndpointKnown, Going, Stopping, Parked, CallStates
<1>11. CredentialGood'
  BY <1>1, <1>2, <1>3, <1>4 DEF CredentialGood, Going, Stopping, Parked, Good, CallStates
<1>12. state = "PUT_STREAM" => history.endpoint /\ Good
  BY <1>1, <1>4 DEF ReadyFirst, EndpointKnown, CredentialGood
<1>13. \/ UNCHANGED calls
       \/ calls' = [calls EXCEPT !["PUT_STREAM"] = @ + 1] /\ history.endpoint /\ Good
       \/ \E k \in CallStates \ {"PUT_STREAM"} : calls' = [calls EXCEPT ![k] = @ + 1]
  BY <1>2, <1>3, <1>12
<1> QED BY <1>1, <1>7, <1>8, <1>9, <1>10, <1>11, <1>13 DEF SupplyInv

LEMMA EventReturnsKeeps ==
    ASSUME SupplyInv, EventReturns
    PROVE  SupplyInv' /\ UNCHANGED calls /\ history' \in {history, [history EXCEPT !.failed = TRUE]}
<1> DEFINE override == event = "tag" /\ ret = "TAG_STREAM_CALL_FAILED"
           prime == event = "grace" /\ ret = "OK" /\ streamState = "NEW" /\ ready
<1>1. /\ pc = "return" /\ pc' = IF override \/ prime THEN "step" ELSE "idle"
      /\ result' = IF override THEN "OK" ELSE result
      /\ history' = [history EXCEPT !.failed = @ \/ (ret # "OK" /\ ~override)]
      /\ UNCHANGED <<setup, client, clientStatus, ret, state, streamState, ready, calls>>
  BY DEF EventReturns, clientVars
<1>2. MachineTypes /\ Orderly /\ ReadyFirst /\ EndpointKnown /\ CredentialGood
  BY DEF SupplyInv
<1>3. handles = <<>> => handles' = <<>>
  BY DEF EventReturns
<1>4. /\ history' \in Histories
      /\ \A f \in {"endpoint", "granted", "refused", "crossed", "preempted"} : history'[f] = history[f]
  BY <1>1, <1>2 DEF MachineTypes, Histories
<1>5. history' \in {history, [history EXCEPT !.failed = TRUE]}
  BY <1>1, <1>2 DEF MachineTypes, Histories
<1>6. override => state = "TAG"
  BY <1>1, <1>2 DEF Orderly
<1>7. Good' <=> Good
  BY <1>4 DEF Good
<1>8. MachineTypes'
  BY <1>1, <1>2, <1>4 DEF MachineTypes
<1>9. Orderly' /\ ReadyFirst'
  BY <1>1, <1>2, <1>3 DEF Orderly, ReadyFirst
<1>10. streamState # "STOPPED" /\ state # "NEW"
  BY <1>1, <1>2 DEF Orderly
<1>11. EndpointKnown'
  BY <1>1, <1>2, <1>4, <1>6, <1>10 DEF EndpointKnown, Going, Stopping, Parked
<1>12. CredentialGood'
  BY <1>1, <1>2, <1>6, <1>7, <1>10 DEF CredentialGood, Going, Stopping, Parked
<1> QED BY <1>1, <1>5, <1>8, <1>9, <1>11, <1>12 DEF SupplyInv

-----------------------------------------------------------------------------
(* How a step of the machine looks to the supply of sessions.              *)

LEMMA Mapping ==
    ASSUME history \in Histories, history' \in Histories,
           history.crossed => history.crossed', history.preempted => history.preempted',
           \/ /\ UNCHANGED <<calls["PUT_STREAM"], history.granted>>
              /\ history.endpoint => history.endpoint'
           \/ UNCHANGED <<calls["PUT_STREAM"], history.endpoint>>
           \/ /\ calls["PUT_STREAM"] > 0 /\ calls["PUT_STREAM"]' = calls["PUT_STREAM"] - 1
              /\ UNCHANGED history.endpoint
              /\ history.granted' => history.granted
    PROVE  [Supply!Next]_(Supply!vars)
<1> DEFINE e == history.endpoint
           c == history.granted
           o == calls["PUT_STREAM"]
           x == history.crossed \/ history.preempted
<1>1. /\ e \in BOOLEAN /\ c \in BOOLEAN /\ x \in BOOLEAN
      /\ e' \in BOOLEAN /\ c' \in BOOLEAN /\ x' \in BOOLEAN
  BY DEF Histories
<1>2. x' \in {x, TRUE}
  BY DEF Histories
<1>3. \/ UNCHANGED <<o, c>> /\ (e => e')
      \/ UNCHANGED <<o, e>>
      \/ o > 0 /\ o' = o - 1 /\ UNCHANGED e /\ (c' => c)
  OBVIOUS
<1>4. CASE UNCHANGED <<o, c>> /\ (e => e')
  <2>1. CASE e' = e
    <3>1. CASE x' = x
      BY <1>4, <2>1, <3>1 DEF Supply!vars
    <3>2. CASE x' = TRUE
      BY <1>4, <2>1, <3>2 DEF Supply!Next, Supply!LoseTrack
    <3> QED BY <1>2, <3>1, <3>2
  <2>2. CASE e' = TRUE
    BY <1>2, <1>4, <2>2 DEF Supply!Next, Supply!LearnEndpoint
  <2> HIDE DEF e
  <2> QED BY <1>1, <1>4, <2>1, <2>2
<1>5. CASE UNCHANGED <<o, e>>
  <2>1. CASE c' = TRUE
    BY <1>2, <1>5, <2>1 DEF Supply!Next, Supply!GrantCredential
  <2>2. CASE c' = FALSE
    BY <1>2, <1>5, <2>2 DEF Supply!Next, Supply!Refuse
  <2> HIDE DEF c
  <2> QED BY <1>1, <2>1, <2>2
<1>6. CASE o > 0 /\ o' = o - 1 /\ UNCHANGED e /\ (c' => c)
  <2>1. c' \in {c, FALSE}
    BY <1>1, <1>6
  <2> QED BY <1>2, <1>6, <2>1 DEF Supply!Next, Supply!Answered
<1> QED BY <1>3, <1>4, <1>5, <1>6

-----------------------------------------------------------------------------
(* The answers.                                                            *)

(* What the answer of a call of kind k may change without breaking the     *)
(* invariant.                                                              *)
LEMMA AnswerKeeps ==
    ASSUME SupplyInv, NEW k \in CallStates, Answer(k),
           UNCHANGED <<setup, client, clientStatus, state, streamState, ready>>,
           history' \in Histories, history.endpoint => history.endpoint',
           pc' \in {"idle", "step"},
           handles = <<>> /\ k # "PUT_STREAM" => handles' = <<>>,
           Good => Good' \/ (k = "PUT_STREAM" /\ pc' = "step" /\ result' = "NOT_AUTHORIZED"),
           pc' = "step" =>
               /\ state \in StreamTable[k].acceptStates
               /\ state # k => history.crossed'
               /\ k = "GET_ENDPOINT" /\ result' = "OK" => history.endpoint'
               /\ k = "GET_TOKEN" /\ result' = "OK" => history.granted'
    PROVE  SupplyInv'
<1>1. /\ MachineTypes /\ Orderly /\ ReadyFirst /\ EndpointKnown /\ CredentialGood
      /\ calls \in [CallStates -> Nat]
  BY DEF SupplyInv, MachineTypes
<1>2. /\ pc = "idle" /\ calls[k] > 0 /\ calls' \in [CallStates -> Nat]
      /\ \A j \in CallStates : calls'[j] > 0 => calls[j] > 0
      /\ calls'["PUT_STREAM"] <= calls["PUT_STREAM"]
  BY <1>1 DEF Answer, CallStates
<1>3. streamState # "STOPPED" /\ state # "NEW"
  BY <1>1, <1>2 DEF Orderly
<1>4. k = "PUT_STREAM" => ready /\ ~(streamState = "NEW" /\ state # "STOPPED")
  BY <1>1, <1>2 DEF ReadyFirst
<1>5. /\ state = "STOPPED" /\ pc' = "step" => k # "PUT_STREAM"
      /\ state = "GET_ENDPOINT" /\ pc' = "step" => k \in {"GET_ENDPOINT", "GET_TOKEN"}
      /\ state = "GET_TOKEN" /\ pc' = "step" => k = "GET_TOKEN"
      /\ state \in {"READY", "STREAMING"} => state # k
  BY DEF StreamTable, StateEntry, StreamStates, CallStates
<1>6. MachineTypes'
  BY <1>1, <1>2 DEF MachineTypes
<1>7. Orderly'
  BY <1>1, <1>2, <1>3 DEF Orderly
<1>8. ReadyFirst'
  <2>1. calls'["PUT_STREAM"] > 0 => calls["PUT_STREAM"] > 0
    BY <1>2 DEF CallStates
  <2>2. calls["PUT_STREAM"] = 0 => calls'["PUT_STREAM"] = 0
    BY <1>2 DEF CallStates
  <2> QED BY <1>1, <1>4, <2>1, <2>2 DEF ReadyFirst
<1>9. EndpointKnown'
  <2>1. calls'["GET_TOKEN"] > 0 => calls["GET_TOKEN"] > 0
    BY <1>2 DEF CallStates
  <2>2. k = "GET_TOKEN" => history.endpoint
    BY <1>1, <1>2 DEF EndpointKnown
  <2> QED BY <1>1, <1>2, <1>3, <1>5, <2>1, <2>2 DEF EndpointKnown, Going, Stopping, Parked
<1>10. CredentialGood'
  <2>1. history.crossed' \/ history.granted' => Good'
    BY DEF Good
  <2> QED BY <1>1, <1>2, <1>3, <1>4, <1>5, <2>1 DEF CredentialGood, Going, Stopping, Parked
<1> QED BY <1>6, <1>7, <1>8, <1>9, <1>10 DEF SupplyInv

(* What the history recalls of an answer. *)
LEMMA RecalledKeeps ==
    ASSUME history \in Histories, NEW k \in CallStates,
           \/ history' = [history EXCEPT !.failed = @ \/ Accepts(StreamTable, state, k)]
           \/ history' \in {Recalled(k), [Recalled(k) EXCEPT !.failed = TRUE]}
    PROVE  /\ history' \in Histories
           /\ UNCHANGED <<history.endpoint, history.granted, history.preempted>>
           /\ history.crossed => history.crossed'
           /\ history' \in {Recalled(k), [Recalled(k) EXCEPT !.failed = TRUE]} /\ state # k
                => history.crossed'
BY DEF Histories, Recalled, Accepts

AnswerFrame == UNCHANGED <<setup, clientVars, ret, state, count, streamState, ready, data>>

(* The answers that tell nothing of an endpoint or a credential. *)
LEMMA PlainAnswer ==
    ASSUME SupplyInv, AnswerFrame, NEW k \in {"DESCRIBE", "CREATE", "TAG"}, Answer(k),
           UNCHANGED handles,
           \/ /\ UNCHANGED pc
              /\ \/ history' = [history EXCEPT !.failed = @ \/ Accepts(StreamTable, state, k)]
                 \/ history' = [Recalled(k) EXCEPT !.failed = TRUE]
           \/ pc' = "step" /\ Accepts(StreamTable, state, k) /\ history' = Recalled(k)
    PROVE  SupplyInv' /\ [Supply!Next]_(Supply!vars)
<1>1. history \in Histories /\ calls \in [CallStates -> Nat] /\ k \in CallStates
  BY DEF SupplyInv, MachineTypes, CallStates
<1>2. /\ history' \in Histories
      /\ UNCHANGED <<history.endpoint, history.granted, history.preempted>>
      /\ history.crossed => history.crossed'
      /\ history' \in {Recalled(k), [Recalled(k) EXCEPT !.failed = TRUE]} /\ state # k
           => history.crossed'
  BY <1>1, RecalledKeeps
<1>3. Good => Good'
  BY <1>2 DEF Good
<1>4. pc = "idle" /\ UNCHANGED calls["PUT_STREAM"]
  BY <1>1 DEF Answer, CallStates
<1>5. SupplyInv'
  BY <1>1, <1>2, <1>3, <1>4, AnswerKeeps DEF AnswerFrame, clientVars, Accepts
<1>6. [Supply!Next]_(Supply!vars)
  BY <1>1, <1>2, <1>4, Mapping
<1> QED BY <1>5, <1>6

LEMMA PlainAnswers ==
    ASSUME SupplyInv, AnswerFrame, NEW r,
           \/ \E s : describeStreamResult(r, s)
           \/ createStreamResult(r) \/ tagStreamResult(r)
    PROVE  SupplyInv' /\ [Supply!Next]_(Supply!vars)
<1>1. CASE \E s : describeStreamResult(r, s)
  BY <1>1, PlainAnswer DEF describeStreamResult, Taken, Refused, Iterate
<1>2. CASE createStreamResult(r)
  BY <1>2, PlainAnswer DEF createStreamResult, Taken, Refused, Iterate
<1>3. CASE tagStreamResult(r)
  BY <1>3, PlainAnswer DEF tagStreamResult, Taken, Refused, Iterate
<1> QED BY <1>1, <1>2, <1>3

LEMMA EndpointAnswer ==
    ASSUME SupplyInv, AnswerFrame, NEW r, getStreamingEndpointResult(r)
    PROVE  SupplyInv' /\ [Supply!Next]_(Supply!vars)
<1> DEFINE k == "GET_ENDPOINT"
<1>1. history \in Histories /\ calls \in [CallStates -> Nat] /\ k \in CallStates
  BY DEF SupplyInv, MachineTypes, CallStates
<1>2. /\ Answer(k) /\ UNCHANGED handles
      /\ \/ /\ UNCHANGED pc
            /\ history' = [history EXCEPT !.failed = @ \/ Accepts(StreamTable, state, k)]
         \/ /\ pc' = "step" /\ Accepts(StreamTable, state, k) /\ result' = r
            /\ history' = [Recalled(k) EXCEPT !.endpoint = @ \/ r = "OK"]
  BY DEF getStreamingEndpointResult, Taken, Refused, Iterate
<1>3. /\ history' \in Histories
      /\ UNCHANGED <<history.granted, history.preempted>>
      /\ history.crossed => history.crossed'
      /\ history.endpoint => history.endpoint'
      /\ pc' = "step" /\ ~UNCHANGED pc => (state # k => history.crossed') /\ (r = "OK" => history.endpoint')
  BY <1>1, <1>2 DEF Histories, Recalled, Accepts
<1>4. Good => Good'
  BY <1>3 DEF Good
<1>5. pc = "idle" /\ UNCHANGED calls["PUT_STREAM"]
  BY <1>1, <1>2 DEF Answer, CallStates
<1>6. SupplyInv'
  BY <1>1, <1>2, <1>3, <1>4, <1>5, AnswerKeeps DEF AnswerFrame, clientVars, Accepts
<1>7. [Supply!Next]_(Supply!vars)
  BY <1>1, <1>3, <1>5, Mapping
<1> QED BY <1>6, <1>7

LEMMA TokenAnswer ==
    ASSUME SupplyInv, AnswerFrame, NEW r, NEW long \in BOOLEAN, getStreamingTokenResult(r, long)
    PROVE  SupplyInv' /\ [Supply!Next]_(Supply!vars)
<1> DEFINE k == "GET_TOKEN"
<1>1. history \in Histories /\ calls \in [CallStates -> Nat] /\ k \in CallStates
  BY DEF SupplyInv, MachineTypes, CallStates
<1>2. /\ Answer(k) /\ UNCHANGED handles
      /\ \/ /\ UNCHANGED pc
            /\ \/ history' = [history EXCEPT !.failed = @ \/ Accepts(StreamTable, state, k)]
               \/ history' = [Recalled(k) EXCEPT !.failed = TRUE]
         \/ /\ pc' = "step" /\ Accepts(StreamTable, state, k) /\ result' = r
            /\ history' = [Recalled(k) EXCEPT !.granted = @ \/ r = "OK"]
  BY DEF getStreamingTokenResult, Taken, Refused, Iterate
<1>3. /\ history' \in Histories
      /\ UNCHANGED <<history.endpoint, history.preempted>>
      /\ history.crossed => history.crossed'
      /\ history.granted => history.granted'
      /\ pc' = "step" /\ ~UNCHANGED pc => (state # k => history.crossed') /\ (r = "OK" => history.granted')
  BY <1>1, <1>2 DEF Histories, Recalled, Accepts
<1>4. Good => Good'
  BY <1>3 DEF Good
<1>5. pc = "idle" /\ UNCHANGED calls["PUT_STREAM"]
  BY <1>1, <1>2 DEF Answer, CallStates
<1>6. SupplyInv'
  BY <1>1, <1>2, <1>3, <1>4, <1>5, AnswerKeeps DEF AnswerFrame, clientVars, Accepts
<1>7. [Supply!Next]_(Supply!vars)
  BY <1>1, <1>3, <1>5, Mapping
<1> QED BY <1>6, <1>7

LEMMA PutAnswer ==
    ASSUME SupplyInv, AnswerFrame, NEW r, putStreamResult(r)
    PROVE  SupplyInv' /\ [Supply!Next]_(Supply!vars)
<1> DEFINE k == "PUT_STREAM"
<1>1. history \in Histories /\ calls \in [CallStates -> Nat] /\ k \in CallStates
  BY DEF SupplyInv, MachineTypes, CallStates
<1>2. /\ Answer(k)
      /\ \/ /\ UNCHANGED pc
            /\ history' = [history EXCEPT !.failed = @ \/ Accepts(StreamTable, state, k)]
         \/ /\ pc' = "step" /\ Accepts(StreamTable, state, k) /\ result' = r
            /\ history' = [Recalled(k) EXCEPT !.refused = @ \/ r # "OK",
                                              !.granted = @ /\ r # "NOT_AUTHORIZED"]
  BY DEF putStreamResult, Taken, Refused, Iterate
<1>3. /\ history' \in Histories
      /\ UNCHANGED <<history.endpoint, history.preempted>>
      /\ history.crossed => history.crossed'
      /\ history.granted' => history.granted
      /\ history.granted => history.granted' \/ (pc' = "step" /\ result' = "NOT_AUTHORIZED")
      /\ pc' = "step" /\ ~UNCHANGED pc => (state # k => history.crossed')
  BY <1>1, <1>2 DEF Histories, Recalled, Accepts
<1>4. Good => Good' \/ (pc' = "step" /\ result' = "NOT_AUTHORIZED")
  BY <1>3 DEF Good
<1>5. pc = "idle" /\ calls["PUT_STREAM"] > 0 /\ calls["PUT_STREAM"]' = calls["PUT_STREAM"] - 1
  BY <1>1, <1>2 DEF Answer, CallStates
<1>6. SupplyInv'
  BY <1>1, <1>2, <1>3, <1>4, <1>5, AnswerKeeps DEF AnswerFrame, clientVars, Accepts
<1>7. [Supply!Next]_(Supply!vars)
  BY <1>1, <1>3, <1>5, Mapping
<1> QED BY <1>6, <1>7

LEMMA ResultEventKeeps ==
    ASSUME SupplyInv, ResultEvent PROVE SupplyInv' /\ [Supply!Next]_(Supply!vars)
<1>1. AnswerFrame
  BY DEF ResultEvent, AnswerFrame
<1>2. PICK r \in Results \cup {"OK"} :
         \/ \E s \in {"ACTIVE", "CREATING", "DELETING"} : describeStreamResult(r, s)
         \/ createStreamResult(r) \/ tagStreamResult(r) \/ getStreamingEndpointResult(r)
         \/ \E long \in BOOLEAN : getStreamingTokenResult(r, long)
         \/ putStreamResult(r)
  BY DEF ResultEvent
<1> QED BY <1>1, <1>2, PlainAnswers, EndpointAnswer, TokenAnswer, PutAnswer

-----------------------------------------------------------------------------
(* Sessions that end, resets, frames.                                      *)

LEMMA SomeVisible == \A i \in Visible : handles # <<>>
<1> SUFFICES ASSUME handles = <<>> PROVE Visible = {}
  OBVIOUS
<1>1. Len(handles) = 0
  OBVIOUS
<1> QED BY <1>1 DEF Visible

LEMMA TerminatedKeeps ==
    ASSUME SupplyInv, NEW i, NEW r, NEW alive, streamTerminatedEvent(i, r, alive)
    PROVE  SupplyInv' /\ [Supply!Next]_(Supply!vars)
<1> DEFINE others == {j \in Visible \ {i} : handles[j] \in Active}
<1>1. /\ pc = "idle" /\ handles # <<>>
      /\ UNCHANGED <<setup, client, clientStatus, ret, state, ready, calls>>
      /\ SpawnSession(r, others = {})
      /\ history' = [history EXCEPT !.granted = @ /\ (r # "NOT_AUTHORIZED" \/ others # {}),
                                    !.preempted = @ \/ (others = {} /\ pc' = "step" /\ OnItsWay)]
  BY SomeVisible DEF streamTerminatedEvent, clientVars
<1>2. /\ MachineTypes /\ Orderly /\ ReadyFirst /\ EndpointKnown /\ CredentialGood
      /\ history \in Histories
  BY DEF SupplyInv, MachineTypes
<1> HIDE DEF others
<1>3. /\ history' \in Histories
      /\ UNCHANGED <<history.endpoint, history.crossed>>
      /\ history.preempted => history.preempted'
      /\ others = {} /\ pc' = "step" /\ OnItsWay => history.preempted'
      /\ r # "NOT_AUTHORIZED" \/ others # {} => (history.granted => history.granted')
  BY <1>1, <1>2 DEF Histories
<1>4. r # "NOT_AUTHORIZED" \/ others # {} => (Good => Good')
  BY <1>3 DEF Good
<1>5. [Supply!Next]_(Supply!vars)
  BY <1>1, <1>2, <1>3, Mapping
<1>6. streamState # "STOPPED" /\ state \notin {"NEW"} /\ ready
  BY <1>1, <1>2 DEF Orderly, ReadyFirst
<1>7. CASE UNCHANGED <<pc, event, streamState, result>> /\ (others # {} \/ OnItsWay)
  <2>1. MachineTypes'
    BY <1>1, <1>2, <1>3, <1>7 DEF MachineTypes
  <2>2. Orderly' /\ ReadyFirst'
    BY <1>1, <1>2, <1>6, <1>7 DEF Orderly, ReadyFirst
  <2>3. EndpointKnown'
    BY <1>1, <1>2, <1>3, <1>7 DEF EndpointKnown, Going, Stopping, Parked
  <2>4. CredentialGood'
    BY <1>1, <1>2, <1>4, <1>7 DEF CredentialGood, ReadyFirst, Going, Stopping, Parked, OnItsWay
  <2> QED BY <1>5, <2>1, <2>2, <2>3, <2>4 DEF SupplyInv
<1>8. CASE streamState' = "STOPPED" /\ result' = r /\ pc' = "step" /\ others = {}
  <2>1. MachineTypes'
    BY <1>1, <1>2, <1>3, <1>8 DEF MachineTypes
  <2>2. Orderly' /\ ReadyFirst'
    BY <1>1, <1>2, <1>6, <1>8 DEF Orderly, ReadyFirst
  <2>3. EndpointKnown'
    BY <1>1, <1>2, <1>3, <1>6, <1>8 DEF EndpointKnown, Going, Stopping, Parked
  <2>4. r = "TIMEOUT" /\ setup.recover => Good'
    <3>1. OnItsWay => Good'
      BY <1>3, <1>8 DEF Good
    <3>2. state \in {"PUT_STREAM", "STREAMING", "STOPPED"} /\ setup.recover => Good
      BY <1>1, <1>2 DEF CredentialGood, Parked
    <3>3. OnItsWay \/ state \in {"PUT_STREAM", "STREAMING", "STOPPED"}
      BY <1>2, <1>6 DEF OnItsWay, MachineTypes, StreamStates
    <3> QED BY <1>4, <3>1, <3>2, <3>3
  <2>5. CredentialGood'
    BY <1>1, <1>8, <2>4 DEF CredentialGood, Going, Stopping, Parked
  <2> QED BY <1>5, <2>1, <2>2, <2>3, <2>5 DEF SupplyInv
<1> QED BY <1>1, <1>7, <1>8 DEF SpawnSession, Iterate

LEMMA ResetConnectionKeeps ==
    ASSUME SupplyInv, ResetConnection PROVE SupplyInv' /\ UNCHANGED <<calls, history>>
<1>1. /\ pc = "idle"
      /\ \/ UNCHANGED <<pc, streamState, result>>
         \/ streamState' = "STOPPED" /\ result' = "OK" /\ pc' = "step"
      /\ UNCHANGED <<setup, client, clientStatus, ret, state, ready, calls, history>>
  BY DEF ResetConnection, SpawnSession, Iterate, clientVars
<1>2. handles = <<>> => handles' = <<>>
  <2> SUFFICES ASSUME handles = <<>> PROVE handles' = <<>>
    OBVIOUS
  <2>1. 1 .. Len(handles) = {}
    OBVIOUS
  <2> QED BY <2>1 DEF ResetConnection
<1>3. MachineTypes /\ Orderly /\ ReadyFirst /\ EndpointKnown /\ CredentialGood
  BY DEF SupplyInv
<1>4. MachineTypes' /\ Orderly' /\ ReadyFirst'
  BY <1>1, <1>2, <1>3 DEF MachineTypes, Orderly, ReadyFirst
<1>5. EndpointKnown' /\ CredentialGood'
  BY <1>1, <1>3 DEF EndpointKnown, CredentialGood, Going, Stopping, Parked, Good
<1> QED BY <1>1, <1>4, <1>5 DEF SupplyInv

LEMMA PutFrameKeeps ==
    ASSUME SupplyInv, PutFrame PROVE SupplyInv' /\ UNCHANGED <<calls, history>>
<1>1. /\ pc = "idle"
      /\ \/ pc' = "return" /\ ret' = "OK" /\ UNCHANGED <<streamState, result>>
         \/ pc' = "step" /\ streamState' = "STOPPED" /\ result' = "GRACE" /\ UNCHANGED ret
         \/ pc' = "step" /\ streamState = "NEW" /\ ready /\ UNCHANGED <<streamState, result>>
         \/ UNCHANGED <<pc, ret, streamState, result>>
      /\ UNCHANGED <<setup, client, clientStatus, state, ready, handles, calls, history>>
  BY DEF PutFrame, Returns, Iterate, clientVars
<1>2. MachineTypes /\ Orderly /\ ReadyFirst /\ EndpointKnown /\ CredentialGood
  BY DEF SupplyInv
<1>3. MachineTypes' /\ Orderly' /\ ReadyFirst'
  BY <1>1, <1>2 DEF MachineTypes, Orderly, ReadyFirst
<1>4. EndpointKnown' /\ CredentialGood'
  BY <1>1, <1>2 DEF Orderly, EndpointKnown, CredentialGood, Going, Stopping, Parked, Good
<1> QED BY <1>1, <1>3, <1>4 DEF SupplyInv

LEMMA ResetStreamKeeps ==
    ASSUME SupplyInv, resetStream PROVE SupplyInv' /\ [Supply!Next]_(Supply!vars)
<1>1. /\ pc = "idle" /\ pc' = "step" /\ handles' = <<>> /\ result' = "NOT_SET"
      /\ \/ ready /\ streamState' = "STOPPED" /\ UNCHANGED state
         \/ ~ready /\ streamState' = "NEW" /\ state' = "NEW"
      /\ client' = [client EXCEPT !.count = 0]
      /\ calls' \in {calls, [k \in CallStates |-> 0]}
      /\ history' = [history EXCEPT !.failed = FALSE, !.refused = FALSE, !.unheard = FALSE,
                                    !.crossed = FALSE, !.preempted = FALSE]
      /\ UNCHANGED <<setup, clientStatus, ret, ready>>
  BY DEF resetStream, Iterate
<1>2. /\ MachineTypes /\ Orderly /\ ReadyFirst /\ EndpointKnown /\ CredentialGood
      /\ history \in Histories /\ calls \in [CallStates -> Nat]
  BY DEF SupplyInv, MachineTypes
<1>3. /\ history' \in Histories /\ UNCHANGED <<history.endpoint, history.granted>>
      /\ history'.crossed = FALSE /\ history'.preempted = FALSE
  BY <1>1, <1>2 DEF Histories
<1>4. /\ calls' \in [CallStates -> Nat]
      /\ calls'["PUT_STREAM"] \in {calls["PUT_STREAM"], 0}
      /\ calls'["GET_TOKEN"] \in {calls["GET_TOKEN"], 0}
  BY <1>1, <1>2 DEF CallStates
<1>5. MachineTypes'
  <2>1. client' \in [state : ClientStates, count : Int, result : ClientResults, ready : BOOLEAN]
    BY <1>1, <1>2 DEF MachineTypes
  <2> QED BY <1>1, <1>2, <1>3, <1>4, <2>1 DEF MachineTypes, StreamStates
<1>6. Orderly'
  BY <1>1, <1>2 DEF Orderly
<1>7. ReadyFirst'
  <2>1. ~ready => calls["PUT_STREAM"] = 0 /\ state \notin {"READY", "PUT_STREAM", "STREAMING"}
    BY <1>2 DEF ReadyFirst, CallStates
  <2>2. CASE ready
    BY <1>1, <2>2 DEF ReadyFirst
  <2>3. CASE ~ready
    BY <1>1, <1>4, <2>1, <2>3 DEF ReadyFirst
  <2> QED BY <1>1, <2>2, <2>3
<1>8. EndpointKnown' /\ CredentialGood'
  BY <1>1, <1>2, <1>3, <1>4 DEF EndpointKnown, CredentialGood, Going, Stopping, Parked
<1>9. [Supply!Next]_(Supply!vars)
  BY <1>3, <1>4 DEF Supply!Next, Supply!Reset
<1> QED BY <1>5, <1>6, <1>7, <1>8, <1>9 DEF SupplyInv

LEMMA OthersKeep ==
    ASSUME SupplyInv, createStream \/ Sessions \/ StreamingTokenAges
    PROVE  SupplyInv' /\ UNCHANGED <<calls, history>>
<1>1. /\ pc' = pc \/ (pc = "none" /\ pc' = "step")
      /\ UNCHANGED <<setup, client, clientStatus, ret, state, streamState, result, ready, calls, history>>
  BY DEF createStream, Sessions, StreamingTokenAges, Iterate, clientVars
<1>2. handles' # <<>> => handles # <<>>
  BY SomeVisible DEF createStream, Sessions, StreamingTokenAges
<1>3. MachineTypes /\ Orderly /\ ReadyFirst /\ EndpointKnown /\ CredentialGood
  BY DEF SupplyInv
<1>4. MachineTypes' /\ Orderly' /\ ReadyFirst'
  BY <1>1, <1>2, <1>3 DEF MachineTypes, Orderly, ReadyFirst
<1>5. EndpointKnown' /\ CredentialGood'
  BY <1>1, <1>3 DEF Orderly, EndpointKnown, CredentialGood, Going, Stopping, Parked, Good
<1> QED BY <1>1, <1>4, <1>5 DEF SupplyInv

-----------------------------------------------------------------------------
(* Whether PutMedia was called is not all the supply restricts: its steps  *)
(* are those of the machine, seen from outside.                            *)
LEMMA SupplyStep ==
    ASSUME SupplyInv, [Next]_vars PROVE SupplyInv' /\ [Supply!Next]_(Supply!vars)
<1>1. ASSUME UNCHANGED <<calls, history>> PROVE [Supply!Next]_(Supply!vars)
  BY <1>1 DEF Supply!vars
<1>2. ASSUME ClientNext, UNCHANGED <<setup, streamVars>>
      PROVE  SupplyInv' /\ UNCHANGED <<calls, history>>
  BY <1>2, ClientKeeps DEF streamVars
<1>3. ASSUME StepStream PROVE SupplyInv' /\ UNCHANGED <<calls, history>>
  BY <1>3, StepStreamKeeps DEF StepStream
<1>4. ASSUME ServiceCall PROVE SupplyInv' /\ [Supply!Next]_(Supply!vars)
  <2>1. /\ SupplyInv' /\ UNCHANGED history
        /\ \/ UNCHANGED calls
           \/ calls' = [calls EXCEPT !["PUT_STREAM"] = @ + 1] /\ history.endpoint /\ Good
           \/ \E k \in CallStates \ {"PUT_STREAM"} : calls' = [calls EXCEPT ![k] = @ + 1]
    BY <1>4, ServiceCallKeeps
  <2>2. calls \in [CallStates -> Nat]
    BY DEF SupplyInv, MachineTypes
  <2>3. CASE calls' = [calls EXCEPT !["PUT_STREAM"] = @ + 1] /\ history.endpoint /\ Good
    <3>1. calls'["PUT_STREAM"] = calls["PUT_STREAM"] + 1
      BY <2>2, <2>3 DEF CallStates
    <3> QED BY <2>1, <2>3, <3>1 DEF Supply!Next, Supply!Open, Good
  <2>4. CASE UNCHANGED calls["PUT_STREAM"]
    BY <2>1, <2>4 DEF Supply!vars
  <2> QED BY <2>1, <2>2, <2>3, <2>4 DEF CallStates
<1>5. ASSUME EventReturns PROVE SupplyInv' /\ [Supply!Next]_(Supply!vars)
  <2>1. SupplyInv' /\ UNCHANGED calls /\ history' \in {history, [history EXCEPT !.failed = TRUE]}
    BY <1>5, EventReturnsKeeps
  <2>2. history \in Histories
    BY DEF SupplyInv, MachineTypes
  <2>3. UNCHANGED <<history.endpoint, history.granted, history.crossed, history.preempted>>
    BY <2>1, <2>2 DEF Histories
  <2> QED BY <2>1, <2>3 DEF Supply!vars
<1>8. ASSUME NoticeFails PROVE SupplyInv' /\ [Supply!Next]_(Supply!vars)
  <2>1. SupplyInv' /\ UNCHANGED calls /\ history' = [history EXCEPT !.unheard = TRUE]
    BY <1>8, NoticeFailsKeeps
  <2>2. history \in Histories
    BY DEF SupplyInv, MachineTypes
  <2>3. UNCHANGED <<history.endpoint, history.granted, history.crossed, history.preempted>>
    BY <2>1, <2>2 DEF Histories
  <2> QED BY <2>1, <2>3 DEF Supply!vars
<1>6. CASE UNCHANGED vars
  <2>1. UNCHANGED <<setup, streamVars, clientVars>>
    BY <1>6 DEF vars
  <2>2. client \in [state : ClientStates, count : Int, result : ClientResults, ready : BOOLEAN]
        /\ clientStatus # "TAG_STREAM_CALL_FAILED"
    BY DEF SupplyInv, MachineTypes, Orderly
  <2> QED BY <1>1, <2>1, <2>2, ClientAlone DEF clientVars, streamVars
<1>7. CASE Next
  BY <1>1, <1>2, <1>3, <1>4, <1>5, <1>7, <1>8, ClientSteppedKeeps, ResultEventKeeps, TerminatedKeeps,
     ResetConnectionKeeps, ResetStreamKeeps, PutFrameKeeps, OthersKeep
     DEF Next, Step, Environment
<1> QED BY <1>6, <1>7

(* For any setups, retry limit and results of the service, and whether or  *)
(* not late answers come: PutMedia is called only with an endpoint and a   *)
(* credential granted after the last refusal, until an answer is taken for *)
(* another call's or a termination cuts a refresh short.                   *)
THEOREM SessionsSupplied == Spec => SuppliesSessions
<1>1. Init => SupplyInv /\ Supply!Init
  BY SupplyInitially DEF Init, Supply!Init, CallStates
<1>2. SupplyInv /\ [Next]_vars => SupplyInv' /\ [Supply!Next]_(Supply!vars)
  BY SupplyStep
<1> QED BY <1>1, <1>2, PTL DEF Spec, SuppliesSessions, Supply!Spec

-----------------------------------------------------------------------------
(* The queue of the upload handles.                                        *)

Entries == {"NULL", "FREED", "TERMINATED"} \cup Active
Has(set) == \E i \in 1 .. Len(handles) : handles[i] \in set

LEMMA RemoveAtProperties ==
    ASSUME NEW S, NEW s \in Seq(S), NEW i \in 1 .. Len(s)
    PROVE  /\ RemoveAt(s, i) \in Seq(S) /\ Len(RemoveAt(s, i)) = Len(s) - 1
           /\ \A j \in 1 .. Len(s) - 1 : RemoveAt(s, i)[j] = IF j < i THEN s[j] ELSE s[j + 1]
<1> DEFINE a == SubSeq(s, 1, i - 1)
           b == SubSeq(s, i + 1, Len(s))
<1>1. Len(s) \in Nat /\ \A j \in 1 .. Len(s) : s[j] \in S
  BY LenProperties, ElementOfSeq
<1>2. /\ a \in Seq(S) /\ Len(a) = i - 1
      /\ \A j \in 1 .. i - 1 : a[j] = s[j]
  <2>1. i - 1 \in Int /\ \A j \in 1 .. i - 1 : s[j] \in S
    BY <1>1
  <2>2. /\ a \in Seq(S) /\ Len(a) = IF 1 <= i - 1 THEN i - 1 - 1 + 1 ELSE 0
        /\ \A j \in 1 .. i - 1 - 1 + 1 : a[j] = s[1 + j - 1]
    BY <2>1, SubSeqProperties
  <2> HIDE DEF a
  <2>3. Len(a) = i - 1
    BY <2>2
  <2>4. \A j \in 1 .. i - 1 : a[j] = s[j]
    BY <2>2
  <2> QED BY <2>2, <2>3, <2>4
<1>3. /\ b \in Seq(S) /\ Len(b) = Len(s) - i
      /\ \A j \in 1 .. Len(s) - i : b[j] = s[i + j]
  <2>1. i + 1 \in Int /\ Len(s) \in Int /\ \A j \in i + 1 .. Len(s) : s[j] \in S
    BY <1>1
  <2>2. /\ b \in Seq(S) /\ Len(b) = IF i + 1 <= Len(s) THEN Len(s) - (i + 1) + 1 ELSE 0
        /\ \A j \in 1 .. Len(s) - (i + 1) + 1 : b[j] = s[i + 1 + j - 1]
    BY <2>1, SubSeqProperties
  <2> HIDE DEF b
  <2>3. Len(b) = Len(s) - i
    BY <1>1, <2>2
  <2>4. \A j \in 1 .. Len(s) - i : b[j] = s[i + j]
    <3> TAKE j \in 1 .. Len(s) - i
    <3>1. j \in 1 .. Len(s) - (i + 1) + 1 /\ i + 1 + j - 1 = i + j
      BY <1>1
    <3> QED BY <2>2, <3>1
  <2> QED BY <2>2, <2>3, <2>4
<1>4. RemoveAt(s, i) = a \o b
  BY DEF RemoveAt
<1> HIDE DEF a, b
<1>5. /\ a \o b \in Seq(S) /\ Len(a \o b) = Len(a) + Len(b)
      /\ \A j \in 1 .. Len(a) + Len(b) : (a \o b)[j] = IF j <= Len(a) THEN a[j] ELSE b[j - Len(a)]
  BY <1>2, <1>3, ConcatProperties
<1>6. ASSUME NEW j \in 1 .. Len(s) - 1
      PROVE  (a \o b)[j] = IF j < i THEN s[j] ELSE s[j + 1]
  <2>1. j \in 1 .. Len(a) + Len(b) /\ (j <= Len(a) <=> j < i)
    BY <1>1, <1>2, <1>3
  <2>2. CASE j < i
    BY <1>2, <1>5, <2>1, <2>2
  <2>3. CASE ~(j < i)
    <3>1. j - Len(a) \in 1 .. Len(s) - i /\ i + (j - Len(a)) = j + 1
      BY <1>1, <1>2, <2>3
    <3> QED BY <1>3, <1>5, <2>1, <2>3, <3>1
  <2> QED BY <2>2, <2>3
<1> QED BY <1>1, <1>2, <1>3, <1>4, <1>5, <1>6

(* A queue with one entry less has no entries it has not had, and has lost *)
(* one at most.                                                            *)
LEMMA Removing ==
    ASSUME handles \in Seq(Entries), Len(handles) <= MaxHandles,
           NEW i \in 1 .. Len(handles), handles' = RemoveAt(handles, i)
    PROVE  /\ handles' \in Seq(Entries) /\ Len(handles') <= MaxHandles
           /\ \A set : Has(set)' => Has(set)
           /\ \A set : (\E j \in 1 .. Len(handles) : j # i /\ handles[j] \in set) => Has(set)'
<1>1. /\ handles' \in Seq(Entries) /\ Len(handles') = Len(handles) - 1 /\ Len(handles) \in Nat
      /\ \A j \in 1 .. Len(handles) - 1 : handles'[j] = IF j < i THEN handles[j] ELSE handles[j + 1]
  BY RemoveAtProperties, LenProperties
<1>2. Len(handles') <= MaxHandles
  BY <1>1, StreamBounds
<1>3. ASSUME NEW set, Has(set)' PROVE Has(set)
  <2>1. PICK j \in 1 .. Len(handles) - 1 : handles'[j] \in set
    BY <1>1, <1>3 DEF Has
  <2>2. j \in 1 .. Len(handles) /\ j + 1 \in 1 .. Len(handles)
    BY <1>1
  <2> QED BY <1>1, <2>1, <2>2 DEF Has
<1>4. ASSUME NEW set, NEW j \in 1 .. Len(handles), j # i, handles[j] \in set PROVE Has(set)'
  <2>1. CASE j < i
    <3>1. j \in 1 .. Len(handles) - 1
      BY <1>1, <2>1
    <3> QED BY <1>1, <1>4, <2>1, <3>1 DEF Has
  <2>2. CASE i < j
    <3>1. j - 1 \in 1 .. Len(handles) - 1 /\ ~(j - 1 < i) /\ (j - 1) + 1 = j
      BY <1>1, <2>2
    <3>2. handles'[j - 1] = handles[j]
      BY <1>1, <3>1
    <3> QED BY <1>1, <1>4, <3>1, <3>2 DEF Has
  <2> QED BY <1>4, <2>1, <2>2
<1> QED BY <1>1, <1>2, <1>3, <1>4

-----------------------------------------------------------------------------
(* Types, with the bounds of the model.                                    *)

Counts == 0 .. MaxRetryCount + 1
QueueTypes == handles \in Seq(Entries) /\ Len(handles) <= MaxHandles
CallTypes == \A k \in CallStates : calls[k] \in 0 .. MaxCalls
OtherTypes ==
    /\ setup \in Setups /\ faults \in 0 .. MaxFaults
    /\ client.state \in ClientStates /\ client.count \in Counts
    /\ client.result \in {"OK", "NOT_SET", "AUTH_FAILURE", "TIMEOUT"} \cup Results
    /\ event \in {"other", "tag", "put", "grace", "frame"}
    /\ count \in Counts
    /\ result \in {"OK", "GRACE", "NOT_SET"} \cup Results
    /\ token \in {"none", "valid", "near"}
TypesInv == SupplyInv /\ OtherTypes /\ QueueTypes /\ CallTypes

LEMMA TypesImply == TypesInv => TypeOK
BY DEF TypesInv, SupplyInv, MachineTypes, OtherTypes, QueueTypes, CallTypes, TypeOK, Counts, Entries

LEMMA TypesInitially == Init => TypesInv
<1> SUFFICES ASSUME Init PROVE TypesInv
  OBVIOUS
<1>1. 0 \in Counts /\ 0 \in 0 .. MaxFaults /\ 0 \in 0 .. MaxCalls
  BY MachineBounds DEF Counts
<1>2. OtherTypes
  BY <1>1 DEF OtherTypes, Init, ClientInit, ClientStates
<1>3. QueueTypes
  BY StreamBounds, EmptySeq DEF QueueTypes, Init
<1>4. CallTypes
  BY <1>1 DEF CallTypes, Init
<1> QED BY <1>2, <1>3, <1>4, SupplyInitially DEF TypesInv

(* The retry count stays in its bounds, whatever the table's limits are.   *)
LEMMA Counting ==
    ASSUME NEW table, NEW cur, NEW n \in Counts, NEW next,
           table[next].maxLocalStateRetryCount \in {Unlimited, MaxRetryCount}
    PROVE  Transition(table, cur, n, next).count \in Counts
<1>1. MaxRetryCount \in Nat
  BY MachineBounds
<1> DEFINE limit == table[next].maxLocalStateRetryCount
           again == IF next # cur THEN 0 ELSE IF n <= limit THEN n + 1 ELSE n
<1>2. limit \in {-1, MaxRetryCount}
  BY DEF Unlimited
<1> HIDE DEF limit
<1>3. again \in Counts
  BY <1>1, <1>2 DEF Counts
<1> HIDE DEF again
<1>4. Transition(table, cur, n, next).count \in {n, again}
  BY DEF Transition, limit, again
<1> QED BY <1>3, <1>4

LEMMA Limits ==
    /\ \A s \in StreamStates : StreamTable[s].maxLocalStateRetryCount \in {Unlimited, MaxRetryCount}
    /\ \A s \in ClientStates : ClientTable[s].maxLocalStateRetryCount \in {Unlimited, MaxRetryCount}
BY DEF StreamTable, ClientTable, StateEntry, StreamStates, ClientStates

(* A failure stays within its bound. *)
LEMMA Failing ==
    ASSUME faults \in 0 .. MaxFaults, Fault \/ NoFault PROVE faults' \in 0 .. MaxFaults
BY MachineBounds DEF Fault, CanFail, NoFault

LEMMA ClientTypes ==
    ASSUME TypesInv, ClientNext, UNCHANGED <<setup, streamVars>> PROVE TypesInv'
<1>1. SupplyInv' /\ QueueTypes' /\ CallTypes'
  BY ClientKeeps DEF TypesInv, QueueTypes, CallTypes, streamVars
<1>2. /\ OtherTypes /\ MachineTypes
      /\ client \in [state : ClientStates, count : Int, result : ClientResults, ready : BOOLEAN]
      /\ client' \in [state : ClientStates, count : Int, result : ClientResults, ready : BOOLEAN]
  BY <1>1 DEF TypesInv, SupplyInv, MachineTypes
<1> DEFINE Known(r) == r \in {"OK", "NOT_SET", "AUTH_FAILURE", "TIMEOUT"} \cup Results
<1> SUFFICES faults' \in 0 .. MaxFaults /\ client'.count \in Counts /\ Known(client'.result)
  BY <1>1, <1>2 DEF OtherTypes, TypesInv, streamVars
<1>3. client.count \in Counts /\ Known(client.result) /\ faults \in 0 .. MaxFaults
  BY <1>2 DEF OtherTypes
<1>4. ASSUME NEW next \in ClientStates \cup {"ERROR"}, NEW locked, EnterClientState(next, locked)
      PROVE  faults' \in 0 .. MaxFaults /\ client'.count \in Counts /\ Known(client'.result)
  <2> DEFINE to == Transition(ClientTable, client.state, client.count, next)
             c == [client EXCEPT !.state = to.state, !.count = to.count]
  <2>1. CASE next = "ERROR"
    BY <2>1, <1>3, <1>4, Failing DEF EnterClientState
  <2>2. CASE next # "ERROR"
    <3>1. next \in ClientStates
      BY <2>2
    <3>2. to.count \in Counts
      BY <1>3, <3>1, Counting, Limits
    <3>3. c.count \in Counts /\ c.result = client.result
      <4> HIDE DEF to
      <4> QED BY <1>2, <3>2
    <3>4. \A r : [c EXCEPT !.result = r].count = c.count /\ [c EXCEPT !.result = r].result = r
      <4> HIDE DEF to
      <4> QED BY <1>2
    <3>5. [c EXCEPT !.ready = TRUE].count = c.count /\ [c EXCEPT !.ready = TRUE].result = c.result
      <4> HIDE DEF to
      <4> QED BY <1>2
    <3>6. CASE to.status # "OK"
      BY <1>3, <1>4, <2>2, <3>3, <3>6, Failing DEF EnterClientState
    <3>7. CASE to.status = "OK"
      <4>1. \/ executeAuthClientState(c, locked) \/ executeProvisionClientState(c, locked)
            \/ executeClientCall(c, locked) \/ executeTagClientState(c, locked)
            \/ executeReadyClientState(c, locked)
        BY <1>4, <2>2, <3>7 DEF EnterClientState
      <4> HIDE DEF c, to
      <4>2. faults' \in 0 .. MaxFaults
        BY <1>3, <4>1, Failing
           DEF executeAuthClientState, executeProvisionClientState, executeClientCall,
               executeTagClientState, executeReadyClientState, getAuthInfo
      <4>3. \/ \E r \in {"OK", "AUTH_FAILURE", "NOT_SET"} : client' = [c EXCEPT !.result = r]
            \/ client' = [c EXCEPT !.ready = TRUE]
            \/ client' = c
        BY <4>1 DEF executeAuthClientState, executeProvisionClientState, executeClientCall,
                    executeTagClientState, executeReadyClientState, getAuthInfo
      <4> QED BY <1>3, <3>3, <3>4, <3>5, <4>2, <4>3
    <3> QED BY <3>6, <3>7
  <2> QED BY <2>1, <2>2
<1>9. FromClientState \in ClientStates \cup {"ERROR"}
  BY <1>2, ClientDirections
<1>10. CASE StepClient
  BY <1>4, <1>9, <1>10 DEF StepClient
<1>11. CASE StepUnlocked
  BY <1>4, <1>11 DEF StepUnlocked
<1>12. CASE ChooseUnlocked \/ AnotherStream
  BY <1>3, <1>12, Failing DEF ChooseUnlocked, AnotherStream
<1>5. ASSUME NEW r, client' \in {client, [client EXCEPT !.result = r]}, r \in {"OK", "TIMEOUT"} \/ client' = client
      PROVE  client'.count \in Counts /\ Known(client'.result)
  BY <1>2, <1>3, <1>5
<1>6. CASE \E r \in {"OK", "TIMEOUT", "NOT_AUTHORIZED"} : createDeviceResult(r)
  <2>1. PICK r \in {"OK", "TIMEOUT", "NOT_AUTHORIZED"} : createDeviceResult(r)
    BY <1>6
  <2>2. Fault \/ NoFault
    BY <2>1 DEF createDeviceResult
  <2>3. client' = client \/ (client' = [client EXCEPT !.result = r] /\ r \in {"OK", "TIMEOUT"})
    BY <2>1 DEF createDeviceResult
  <2> QED BY <1>3, <1>5, <2>2, <2>3, Failing
<1>7. CASE \E r \in {"OK", "TIMEOUT"}, type \in {"STS", "NONE"} : deviceCertToTokenResult(r, type)
  <2>1. PICK r \in {"OK", "TIMEOUT"}, type \in {"STS", "NONE"} : deviceCertToTokenResult(r, type)
    BY <1>7
  <2>2. Fault \/ NoFault
    BY <2>1 DEF deviceCertToTokenResult
  <2>3. client' = client \/ client' = [client EXCEPT !.result = r]
    BY <2>1 DEF deviceCertToTokenResult
  <2> QED BY <1>3, <1>5, <2>1, <2>2, <2>3, Failing
<1>8. CASE TokenAges
  BY <1>3, <1>8, Failing DEF TokenAges
<1> QED BY <1>6, <1>7, <1>8, <1>10, <1>11, <1>12 DEF ClientNext

(* An entry that is replaced, if there is one at i. *)
LEMMA Updating ==
    ASSUME QueueTypes, NEW i, NEW e \in Entries, handles' = [handles EXCEPT ![i] = e]
    PROVE  /\ QueueTypes'
           /\ \A set : Has(set)' => Has(set) \/ e \in set
           /\ \A set : e \in set /\ Has(set) => Has(set)'
<1>1. /\ Len(handles) \in Nat /\ handles \in [1 .. Len(handles) -> Entries]
      /\ DOMAIN handles = 1 .. Len(handles)
  BY LenProperties DEF QueueTypes
<1>2. CASE i \in 1 .. Len(handles)
  <2>1. /\ [handles EXCEPT ![i] = e] \in Seq(Entries)
        /\ Len([handles EXCEPT ![i] = e]) = Len(handles)
        /\ \A j \in 1 .. Len(handles) :
              [handles EXCEPT ![i] = e][j] = IF j = i THEN e ELSE handles[j]
    BY <1>2, ExceptSeq DEF QueueTypes
  <2>2. /\ handles' \in Seq(Entries) /\ Len(handles') = Len(handles)
        /\ \A j \in 1 .. Len(handles) : handles'[j] = IF j = i THEN e ELSE handles[j]
    BY <2>1
  <2>3. QueueTypes'
    BY <2>2 DEF QueueTypes
  <2>4. \A set : Has(set)' => Has(set) \/ e \in set
    BY <2>2 DEF Has
  <2>5. \A set : e \in set /\ Has(set) => Has(set)'
    BY <2>2 DEF Has
  <2> QED BY <2>3, <2>4, <2>5
<1>3. CASE i \notin 1 .. Len(handles)
  <2>1. handles' = handles
    BY <1>1, <1>3
  <2> QED BY <2>1 DEF QueueTypes, Has
<1> QED BY <1>2, <1>3

(* What a step may do to the queue while it makes no entry useless. *)
QueueKept == QueueTypes' /\ \A x \in {"NULL", "FREED"} : Has({x})' => Has({x})

LEMMA QueueUntouched == ASSUME QueueTypes, UNCHANGED handles PROVE QueueKept
BY DEF QueueTypes, QueueKept, Has

LEMMA FromQueue ==
    ASSUME QueueTypes, handles' = HandlesAfterFrom
    PROVE  QueueKept /\ (Has({"NEW"}) => Has(Active)')
<1> DEFINE i == CHOOSE i \in InState({"NEW"}) : \A j \in InState({"NEW"}) : i <= j
<1>1. CASE handles' = handles
  <2>1. \A j : handles[j] \in {"NEW"} => handles[j] \in Active
    BY DEF Active, NotInUse
  <2> QED BY <1>1, <2>1, QueueUntouched DEF Has
<1>2. CASE handles' = [handles EXCEPT ![i] = "READY"]
  <2> HIDE DEF i
  <2>1. "READY" \in Entries /\ "READY" \in Active /\ "NEW" \in Active
    BY DEF Entries, Active, NotInUse
  <2>2. /\ QueueTypes'
        /\ \A set : Has(set)' => Has(set) \/ "READY" \in set
        /\ \A set : "READY" \in set /\ Has(set) => Has(set)'
    BY <1>2, <2>1, Updating
  <2>3. \A x \in {"NULL", "FREED"} : Has({x})' => Has({x})
    BY <2>2
  <2>4. Has({"NEW"}) => Has(Active)
    BY <2>1 DEF Has
  <2> QED BY <2>1, <2>2, <2>3, <2>4 DEF QueueKept
<1> QED BY <1>1, <1>2 DEF HandlesAfterFrom

-----------------------------------------------------------------------------
(* What each step of the stream's machine leaves.                          *)

LEMMA StepTypes ==
    ASSUME TypesInv, StepStream PROVE TypesInv'
<1>1. SupplyInv' /\ MachineTypes
  BY StepStreamKeeps DEF TypesInv, SupplyInv
<1>2. QueueTypes'
  BY FromQueue DEF TypesInv, StepStream, QueueKept
<1>3. /\ UNCHANGED <<setup, client, event, result, token, calls>>
      /\ OtherTypes /\ CallTypes /\ faults \in 0 .. MaxFaults
  BY DEF StepStream, TypesInv, OtherTypes
<1>6. faults' \in 0 .. MaxFaults
  <2>1. Fault \/ NoFault
    BY DEF StepStream, ExecuteStreamState, executeReadyStreamState
  <2> QED BY <1>3, <2>1, Failing
<1>4. count' \in Counts
  <2> DEFINE next == FromStreamState
             to == Transition(StreamTable, state, count, next)
  <2>1. next \in StreamStates \cup {"ERROR"}
    BY <1>1, Directions
  <2>2. next # "ERROR" => to.count \in Counts
    BY <1>3, <2>1, Counting, Limits DEF OtherTypes
  <2>3. count' \in {count, to.count} /\ (next = "ERROR" => count' = count)
    BY DEF StepStream
  <2> HIDE DEF next, to
  <2> QED BY <1>3, <2>2, <2>3 DEF OtherTypes
<1>5. OtherTypes' /\ CallTypes'
  BY <1>3, <1>4, <1>6 DEF OtherTypes, CallTypes
<1> QED BY <1>1, <1>2, <1>5 DEF TypesInv

LEMMA NoticeTypes ==
    ASSUME TypesInv, NoticeFails PROVE TypesInv'
<1>1. SupplyInv'
  BY NoticeFailsKeeps DEF TypesInv
<1>2. QueueTypes'
  BY FromQueue DEF TypesInv, NoticeFails, QueueKept
<1>3. /\ UNCHANGED <<setup, client, event, count, result, token, calls>> /\ Fault
      /\ OtherTypes /\ CallTypes
  BY DEF NoticeFails, TypesInv, clientVars
<1>4. faults' \in 0 .. MaxFaults
  BY <1>3, Failing DEF OtherTypes
<1> QED BY <1>1, <1>2, <1>3, <1>4 DEF TypesInv, OtherTypes, CallTypes

LEMMA IterationTypes ==
    ASSUME TypesInv, ClientStepped \/ ServiceCall \/ EventReturns PROVE TypesInv'
<1>1. /\ OtherTypes /\ QueueTypes /\ CallTypes /\ MachineTypes /\ Orderly
      /\ calls \in [CallStates -> Nat]
  BY DEF TypesInv, SupplyInv, MachineTypes
<1>2. SupplyInv'
  BY ClientSteppedKeeps, ServiceCallKeeps, EventReturnsKeeps DEF TypesInv
<1>3. CASE ClientStepped
  <2>1. UNCHANGED <<setup, faults, client, event, count, result, token, handles, calls>>
    BY <1>3 DEF ClientStepped
  <2> QED BY <1>1, <1>2, <2>1 DEF TypesInv, OtherTypes, QueueTypes, CallTypes
<1>4. CASE ServiceCall
  <2>1. /\ UNCHANGED <<setup, client, event, count, token, handles>>
        /\ Fault \/ NoFault
        /\ result' \in {result, "NOT_SET"}
        /\ calls' = calls \/ (calls[state] < MaxCalls /\ calls' = [calls EXCEPT ![state] = @ + 1])
    BY <1>4 DEF ServiceCall, clientVars
  <2>2. state \in CallStates
    BY <1>1, <1>4 DEF ServiceCall, Orderly
  <2>3. CallTypes'
    BY <1>1, <2>1, <2>2, MachineBounds DEF CallTypes
  <2> QED BY <1>1, <1>2, <2>1, <2>3, Failing DEF TypesInv, OtherTypes, QueueTypes
<1>5. CASE EventReturns
  <2>1. /\ UNCHANGED <<setup, faults, client, count, token, calls>>
        /\ result' \in {result, "OK"} /\ event' \in {"frame", "other"}
        /\ handles' = handles \/ handles' = [handles EXCEPT ![Len(handles)] = "FREED"]
    BY <1>5 DEF EventReturns, clientVars
  <2>2. QueueTypes'
    BY <1>1, <2>1, Updating, QueueUntouched DEF Entries, QueueKept
  <2> QED BY <1>1, <1>2, <2>1, <2>2 DEF TypesInv, OtherTypes, CallTypes
<1> QED BY <1>3, <1>4, <1>5

(* An answer takes its call off, keeps to the results there are and adds   *)
(* one entry at most.                                                      *)
LEMMA AnswerChanges ==
    ASSUME ResultEvent
    PROVE  \E r \in Results \cup {"OK"}, k \in CallStates :
              /\ Answer(k) /\ (Fault \/ NoFault)
              /\ result' \in {result, r} /\ event' \in {event, "other", "tag", "put"}
              /\ token' \in {token, "valid"}
              /\ \/ UNCHANGED handles
                 \/ /\ k = "PUT_STREAM" /\ Len(handles) < MaxHandles
                    /\ handles' = Append(handles, IF r = "OK" THEN "NEW" ELSE "NULL")
<1> PICK r \in Results \cup {"OK"} :
         \/ \E s \in {"ACTIVE", "CREATING", "DELETING"} : describeStreamResult(r, s)
         \/ createStreamResult(r) \/ tagStreamResult(r) \/ getStreamingEndpointResult(r)
         \/ \E long \in BOOLEAN : getStreamingTokenResult(r, long)
         \/ putStreamResult(r)
  BY DEF ResultEvent
<1> USE DEF Refused, Iterate, CallStates
<1>1. ASSUME NEW s, describeStreamResult(r, s)
      PROVE  /\ Answer("DESCRIBE") /\ (Fault \/ NoFault) /\ UNCHANGED <<handles, token>>
             /\ result' \in {result, r} /\ event' \in {event, "other"}
  BY <1>1 DEF describeStreamResult
<1>2. ASSUME createStreamResult(r)
      PROVE  /\ Answer("CREATE") /\ (Fault \/ NoFault) /\ UNCHANGED <<handles, token>>
             /\ result' \in {result, r} /\ event' \in {event, "other"}
  BY <1>2 DEF createStreamResult
<1>3. ASSUME tagStreamResult(r)
      PROVE  /\ Answer("TAG") /\ (Fault \/ NoFault) /\ UNCHANGED <<handles, token>>
             /\ result' \in {result, r} /\ event' \in {event, "tag"}
  BY <1>3 DEF tagStreamResult
<1>4. ASSUME getStreamingEndpointResult(r)
      PROVE  /\ Answer("GET_ENDPOINT") /\ (Fault \/ NoFault) /\ UNCHANGED <<handles, token>>
             /\ result' \in {result, r} /\ event' \in {event, "other"}
  BY <1>4 DEF getStreamingEndpointResult
<1>5. ASSUME NEW long, getStreamingTokenResult(r, long)
      PROVE  /\ Answer("GET_TOKEN") /\ (Fault \/ NoFault) /\ UNCHANGED handles
             /\ result' \in {result, r} /\ event' \in {event, "other"}
             /\ token' \in {token, "valid"}
  BY <1>5 DEF getStreamingTokenResult
<1>6. ASSUME putStreamResult(r)
      PROVE  /\ Answer("PUT_STREAM") /\ (Fault \/ NoFault) /\ UNCHANGED token
             /\ result' \in {result, r} /\ event' \in {event, "other", "put"}
             /\ \/ UNCHANGED handles
                \/ /\ Len(handles) < MaxHandles
                   /\ handles' = Append(handles, IF r = "OK" THEN "NEW" ELSE "NULL")
  BY <1>6 DEF putStreamResult
<1> QED BY <1>1, <1>2, <1>3, <1>4, <1>5, <1>6

LEMMA Appending ==
    ASSUME QueueTypes, Len(handles) < MaxHandles, NEW e \in Entries, handles' = Append(handles, e)
    PROVE  /\ QueueTypes' /\ (\A set : Has(set)' => Has(set) \/ e \in set)
           /\ \A set : e \in set \/ Has(set) => Has(set)'
<1>1. /\ handles' \in Seq(Entries) /\ Len(handles') = Len(handles) + 1 /\ Len(handles) \in Nat
      /\ \A j \in 1 .. Len(handles) : handles'[j] = handles[j]
      /\ handles'[Len(handles) + 1] = e
  BY AppendProperties, LenProperties DEF QueueTypes
<1>2. QueueTypes'
  BY <1>1, StreamBounds DEF QueueTypes
<1>3. ASSUME NEW set, Has(set)' PROVE Has(set) \/ e \in set
  <2>1. PICK j \in 1 .. Len(handles) + 1 : handles'[j] \in set
    BY <1>1, <1>3 DEF Has
  <2>2. j \in 1 .. Len(handles) \/ j = Len(handles) + 1
    BY <1>1
  <2> QED BY <1>1, <2>1, <2>2 DEF Has
<1>4. Len(handles) + 1 \in 1 .. Len(handles') /\ \A j \in 1 .. Len(handles) : j \in 1 .. Len(handles')
  BY <1>1
<1>5. \A set : e \in set \/ Has(set) => Has(set)'
  BY <1>1, <1>4 DEF Has
<1> QED BY <1>2, <1>3, <1>5

LEMMA AnswerTypes ==
    ASSUME TypesInv, ResultEvent PROVE TypesInv'
<1>1. PICK r \in Results \cup {"OK"}, k \in CallStates :
              /\ Answer(k) /\ (Fault \/ NoFault)
              /\ result' \in {result, r} /\ event' \in {event, "other", "tag", "put"}
              /\ token' \in {token, "valid"}
              /\ \/ UNCHANGED handles
                 \/ /\ k = "PUT_STREAM" /\ Len(handles) < MaxHandles
                    /\ handles' = Append(handles, IF r = "OK" THEN "NEW" ELSE "NULL")
  BY AnswerChanges
<1>2. /\ OtherTypes /\ QueueTypes /\ CallTypes /\ calls \in [CallStates -> Nat]
      /\ UNCHANGED <<setup, client, count>>
  BY DEF TypesInv, SupplyInv, MachineTypes, ResultEvent, clientVars
<1>3. SupplyInv'
  BY ResultEventKeeps DEF TypesInv
<1>4. faults' \in 0 .. MaxFaults
  BY <1>1, <1>2, Failing DEF OtherTypes
<1>5. OtherTypes'
  BY <1>1, <1>2, <1>4 DEF OtherTypes
<1>6. CallTypes'
  BY <1>1, <1>2, MachineBounds DEF CallTypes, Answer
<1>7. QueueTypes'
  <2>1. "NEW" \in Entries /\ "NULL" \in Entries
    BY DEF Entries, Active, NotInUse
  <2> QED BY <1>1, <1>2, <2>1, Appending, QueueUntouched DEF QueueKept
<1> QED BY <1>3, <1>5, <1>6, <1>7 DEF TypesInv

(* Sessions are told to end, or end. *)
LEMMA EndingQueue ==
    ASSUME QueueTypes,
           \/ \E i, r, alive : streamTerminatedEvent(i, r, alive)
           \/ ResetConnection \/ Sessions
    PROVE  QueueKept
<1>1. /\ Visible \subseteq 1 .. Len(handles)
      /\ handles \in Seq(Entries) /\ Len(handles) <= MaxHandles /\ Len(handles) \in Nat
      /\ handles \in [1 .. Len(handles) -> Entries]
      /\ {"TERMINATED", "STREAMING"} \subseteq Entries
  BY LenProperties DEF Visible, QueueTypes, Entries, Active, NotInUse
<1>2. ASSUME NEW i \in Visible, handles' = RemoveAt(handles, i) PROVE QueueKept
  BY <1>1, <1>2, Removing DEF QueueKept, QueueTypes
<1>3. ASSUME NEW i, NEW e \in {"TERMINATED", "STREAMING"}, handles' = [handles EXCEPT ![i] = e]
      PROVE QueueKept
  <2>1. e \in Entries
    BY <1>1
  <2>2. QueueTypes' /\ \A set : Has(set)' => Has(set) \/ e \in set
    BY <1>3, <2>1, Updating
  <2>3. \A x \in {"NULL", "FREED"} : Has({x})' => Has({x})
    BY <2>2
  <2> QED BY <2>2, <2>3 DEF QueueKept
<1>4. CASE \E i, r, alive : streamTerminatedEvent(i, r, alive)
  BY <1>2, <1>3, <1>4 DEF streamTerminatedEvent
<1>5. CASE Sessions
  <2>1. \E i \in Visible : \/ handles' = [handles EXCEPT ![i] = "STREAMING"]
                           \/ handles' = handles \/ handles' = RemoveAt(handles, i)
    BY <1>5 DEF Sessions
  <2> QED BY <1>2, <1>3, <2>1, QueueUntouched
<1>6. CASE ResetConnection
  <2> DEFINE h == [i \in 1 .. Len(handles) |-> IF i \in Visible THEN "TERMINATED" ELSE handles[i]]
  <2>1. handles' = h
    BY <1>6 DEF ResetConnection
  <2>2. h \in [1 .. Len(handles) -> Entries]
    BY <1>1
  <2>3. h \in Seq(Entries)
    BY <1>1, <2>2, SeqDef
  <2>4. Len(h) = Len(handles)
    <3>1. DOMAIN h = 1 .. Len(h) /\ DOMAIN h = 1 .. Len(handles) /\ Len(h) \in Nat
      BY <2>3, LenProperties
    <3>2. \A a, b \in Nat : 1 .. a = 1 .. b => a = b
      OBVIOUS
    <3> HIDE DEF h
    <3> QED BY <1>1, <3>1, <3>2
  <2>5. \A x \in {"NULL", "FREED"} : Has({x})' => Has({x})
    <3> SUFFICES ASSUME NEW x \in {"NULL", "FREED"}, NEW i \in 1 .. Len(h), h[i] = x PROVE Has({x})
      BY <2>1 DEF Has
    <3>1. i \in 1 .. Len(handles) /\ handles[i] = x
      <4>1. i \in 1 .. Len(handles)
        BY <2>4
      <4> QED BY <4>1
    <3> QED BY <3>1 DEF Has
  <2> QED BY <1>1, <2>1, <2>3, <2>4, <2>5 DEF QueueKept, QueueTypes
<1> QED BY <1>4, <1>5, <1>6

LEMMA EnvironmentTypes ==
    ASSUME TypesInv,
           \/ \E i \in 1 .. MaxHandles, r \in Results \cup {"OK"}, alive \in BOOLEAN :
                streamTerminatedEvent(i, r, alive)
           \/ ResetConnection \/ resetStream \/ StreamingTokenAges
           \/ createStream \/ PutFrame \/ Sessions
    PROVE  TypesInv'
<1>1. SupplyInv'
  BY TerminatedKeeps, ResetConnectionKeeps, ResetStreamKeeps, PutFrameKeeps, OthersKeep DEF TypesInv
<1>2. /\ OtherTypes /\ QueueTypes /\ CallTypes
      /\ client \in [state : ClientStates, count : Int, result : ClientResults, ready : BOOLEAN]
  BY DEF TypesInv, SupplyInv, MachineTypes
<1>3. QueueTypes'
  <2>1. CASE resetStream
    BY <2>1, EmptySeq, StreamBounds DEF resetStream, QueueTypes
  <2>2. CASE StreamingTokenAges \/ createStream \/ PutFrame
    BY <1>2, <2>2 DEF StreamingTokenAges, createStream, PutFrame, QueueTypes
  <2> QED BY <1>2, <2>1, <2>2, EndingQueue DEF QueueKept
<1>4. CallTypes'
  <2>1. CASE resetStream
    <3>1. calls' \in {calls, [k \in CallStates |-> 0]}
      BY <2>1 DEF resetStream
    <3> QED BY <1>2, <3>1, MachineBounds DEF CallTypes
  <2>2. CASE ~resetStream
    BY <1>2, <2>2 DEF streamTerminatedEvent, ResetConnection, StreamingTokenAges, createStream,
                      PutFrame, Sessions, CallTypes
  <2> QED BY <2>1, <2>2
<1>5. OtherTypes'
  <2> USE DEF OtherTypes
  <2>1. CASE \E i \in 1 .. MaxHandles, r \in Results \cup {"OK"}, alive \in BOOLEAN :
               streamTerminatedEvent(i, r, alive)
    BY <1>2, <2>1, Failing DEF streamTerminatedEvent, SpawnSession, Iterate, clientVars
  <2>2. CASE ResetConnection
    BY <1>2, <2>2, Failing DEF ResetConnection, SpawnSession, Iterate, clientVars
  <2>3. CASE resetStream
    <3>1. 0 \in Counts
      BY MachineBounds DEF Counts
    <3>2. client'.state = client.state /\ client'.count = 0 /\ client'.result = client.result
      BY <1>2, <2>3 DEF resetStream
    <3> QED BY <1>2, <2>3, <3>1, <3>2, Failing DEF resetStream, Iterate
  <2>4. CASE StreamingTokenAges
    BY <1>2, <2>4, Failing DEF StreamingTokenAges, clientVars
  <2>5. CASE createStream
    BY <1>2, <2>5 DEF createStream, Iterate, clientVars
  <2>6. CASE PutFrame
    BY <1>2, <2>6 DEF PutFrame, Iterate, clientVars
  <2>7. CASE Sessions
    BY <1>2, <2>7 DEF Sessions, clientVars
  <2> QED BY <2>1, <2>2, <2>3, <2>4, <2>5, <2>6, <2>7
<1> QED BY <1>1, <1>3, <1>4, <1>5 DEF TypesInv

LEMMA TypesKept ==
    ASSUME TypesInv, [Next]_vars PROVE TypesInv'
<1>1. CASE UNCHANGED vars
  <2>1. SupplyInv'
    BY SupplyStep DEF TypesInv
  <2>2. OtherTypes' /\ QueueTypes' /\ CallTypes'
    BY <1>1 DEF TypesInv, OtherTypes, QueueTypes, CallTypes, vars, clientVars, streamVars
  <2> QED BY <2>1, <2>2 DEF TypesInv
<1>2. CASE Next
  BY <1>2, ClientTypes, StepTypes, NoticeTypes, IterationTypes, AnswerTypes, EnvironmentTypes
     DEF Next, Step, Environment
<1> QED BY <1>1, <1>2
-----------------------------------------------------------------------------
(* Every rest is at an answer to come, or at a session.                    *)

(* The iteration has made its call, or was not needed. *)
Rests == pc = "idle" \/ (pc = "return" /\ ret = "OK")
Calling == pc \in {"client", "client2", "call"}

(* The event of an accepted PutMedia goes straight to STREAMING, so that   *)
(* it does not fail, unless the application refuses the notice of its data. *)
Putting ==
    event = "put" =>
      /\ pc \notin {"none", "idle"}
      /\ ~history.crossed =>
           \/ pc = "step" /\ state = "PUT_STREAM" /\ result = "OK" /\ streamState # "STOPPED"
           \/ pc = "return" /\ (ret = "OK" \/ history.unheard)

Clean == /\ ~(history.crossed \/ history.unheard) => ~Has({"FREED"})
         /\ ~history.refused => ~Has({"NULL"})

Resting ==
    ~Excepted /\ Rests =>
      /\ state \in CallStates => calls[state] > 0
      /\ state = "PUT_STREAM" => streamState = "PUT_STREAM"
      /\ state = "STREAMING" => streamState = "STREAMING" /\ Has(Active)

(* A step from PUT_STREAM goes to STREAMING with a new handle, and nothing *)
(* steps from STREAMING but a stop.                                        *)
Stepping ==
    ~Excepted /\ pc = "step" /\ streamState # "STOPPED" =>
      /\ state = "PUT_STREAM" => result = "OK" /\ Has({"NEW"})
      /\ state # "STREAMING"

(* PutMedia is not taken for called before it is. *)
PutCalled == ~Excepted /\ streamState = "PUT_STREAM" => state = "PUT_STREAM" /\ ~Calling

AnswerInv == Putting /\ Clean /\ Resting /\ Stepping /\ PutCalled

LEMMA AnswerImplies == TypesInv /\ AnswerInv => WaitsForAnAnswer
<1> SUFFICES ASSUME TypesInv, AnswerInv PROVE WaitsForAnAnswer
  OBVIOUS
<1> USE DEF AnswerInv
<1>1. ~history.refused => Visible = 1 .. Len(handles)
  BY DEF Clean, Has, Visible, TypesInv, QueueTypes
<1>2. pc = "idle" /\ state = "STREAMING" /\ ~Excepted => InState(Active) # {}
  BY <1>1 DEF Resting, Rests, Excepted, InState, Has
<1>3. pc = "idle" /\ state \in CallStates /\ ~Excepted => calls[state] > 0
  BY DEF Resting, Rests
<1>4. ~(history.crossed \/ history.unheard) => \A i \in 1 .. Len(handles) : handles[i] # "FREED"
  BY DEF Clean, Has
<1> QED BY <1>2, <1>3, <1>4, TypesImply DEF WaitsForAnAnswer

LEMMA AnswerInitially == Init => AnswerInv
<1> SUFFICES ASSUME Init PROVE AnswerInv
  OBVIOUS
<1>1. Len(handles) = 0
  BY DEF Init
<1>2. \A set : ~Has(set)
  BY <1>1 DEF Has
<1> QED BY <1>2 DEF Init, AnswerInv, Putting, Clean, Resting, Rests, Stepping, PutCalled, CallStates

(* What a step that keeps the queue leaves of Clean. *)
LEMMA CleanKept ==
    ASSUME Clean, QueueKept, history'.crossed = history.crossed, history'.refused = history.refused,
           history.unheard => history'.unheard
    PROVE  Clean'
BY DEF Clean, QueueKept

(* After a success PUT_STREAM goes on to STREAMING. *)
LEMMA PutGoesOn ==
    state = "PUT_STREAM" /\ streamState # "STOPPED" /\ result = "OK" =>
      FromStreamState = "STREAMING" /\ state \in StreamTable["STREAMING"].acceptStates
BY DEF FromStreamState, fromPutStreamState, StreamTable, StateEntry, StreamStates

LEMMA StepAnswers ==
    ASSUME TypesInv, AnswerInv, StepStream PROVE AnswerInv'
<1> DEFINE next == FromStreamState
           ss == IF state = "STOPPED" THEN "READY" ELSE streamState
<1>1. /\ pc = "step" /\ UNCHANGED <<event, result, calls, history>>
      /\ handles' = HandlesAfterFrom
  BY DEF StepStream
<1>2. \/ /\ pc' = "return" /\ ret' # "OK" /\ streamState' = ss /\ UNCHANGED state
         /\ next = "ERROR" \/ next = state \/ state \notin StreamTable[next].acceptStates
      \/ next \in StreamStates /\ state' = next /\ ExecuteStreamState(next, ss)
  BY StepStreamCases DEF TypesInv
<1>3. /\ state # "STOPPED" /\ streamState = "STOPPED" => next = "STOPPED"
      /\ next = "STREAMING" => state \in {"PUT_STREAM", "STREAMING"}
  BY Directions DEF TypesInv, SupplyInv, MachineTypes, StreamStates
<1>4. state = "PUT_STREAM" /\ streamState # "STOPPED" /\ result = "OK" =>
        next = "STREAMING" /\ state \in StreamTable[next].acceptStates
  BY PutGoesOn
<1>5. /\ Putting /\ Clean /\ Resting /\ Stepping /\ PutCalled
  BY DEF AnswerInv
<1>6. Clean' /\ (Has({"NEW"}) => Has(Active)')
  BY <1>1, <1>5, FromQueue, CleanKept DEF TypesInv
<1>7. Excepted' <=> Excepted
  BY <1>1 DEF Excepted
<1>8. ~Excepted /\ ss = "PUT_STREAM" => next = "STREAMING" /\ state = "PUT_STREAM"
  BY <1>1, <1>4, <1>5 DEF PutCalled, Stepping
<1> HIDE DEF next, ss
<1>9. CASE /\ pc' = "return" /\ ret' # "OK" /\ streamState' = ss /\ UNCHANGED state
           /\ next = "ERROR" \/ next = state \/ state \notin StreamTable[next].acceptStates
  <2>1. Putting'
    BY <1>1, <1>4, <1>5, <1>9 DEF Putting
  <2>2. Resting' /\ Stepping'
    BY <1>9 DEF Resting, Rests, Stepping
  <2>3. PutCalled'
    BY <1>7, <1>8, <1>9 DEF PutCalled, Calling
  <2> QED BY <1>6, <2>1, <2>2, <2>3 DEF AnswerInv
<1>10. CASE next \in StreamStates /\ state' = next /\ ExecuteStreamState(next, ss)
  <2>1. CASE next = "STREAMING"
    <3>1. streamState' = "STREAMING" /\ pc' = "return" /\ ret' = "OK"
      BY <1>10, <2>1 DEF ExecuteStreamState, Returns, CallStates
    <3>2. ~Excepted => Has(Active)'
      BY <1>1, <1>3, <1>5, <1>6, <2>1 DEF Stepping
    <3> QED BY <1>6, <1>7, <1>10, <2>1, <3>1, <3>2
            DEF AnswerInv, Putting, Resting, Stepping, PutCalled, CallStates
  <2>2. CASE next # "STREAMING"
    <3>1. /\ streamState' \in {ss, "NEW"} /\ pc' \in {"step", "return", "client"}
          /\ pc' = "return" => state' \in {"READY", "STOPPED"}
          /\ pc' = "step" => state' \notin {"PUT_STREAM", "STREAMING"}
      BY <1>10, <2>2 DEF ExecuteStreamState, executeReadyStreamState, executeStoppedStreamState,
                         Returns, StreamStates, CallStates
    <3>2. event = "put" => history.crossed
      BY <1>1, <1>4, <1>5, <2>2 DEF Putting
    <3>3. ~Excepted => streamState' # "PUT_STREAM"
      BY <1>8, <2>2, <3>1
    <3> QED BY <1>1, <1>6, <1>7, <1>10, <2>2, <3>1, <3>2, <3>3
            DEF AnswerInv, Putting, Resting, Rests, Stepping, PutCalled, CallStates
  <2> QED BY <2>1, <2>2
<1> QED BY <1>2, <1>9, <1>10

LEMMA NoticeAnswers ==
    ASSUME TypesInv, AnswerInv, NoticeFails PROVE AnswerInv'
<1>1. /\ pc = "step" /\ state = "PUT_STREAM" /\ pc' = "return" /\ ret' = "CALLBACK_ERROR"
      /\ handles' = HandlesAfterFrom /\ history' = [history EXCEPT !.unheard = TRUE]
      /\ UNCHANGED <<event, state, streamState, calls>>
  BY DEF NoticeFails, Returns
<1>2. /\ Putting /\ Clean /\ Stepping /\ PutCalled /\ history \in Histories
  BY DEF AnswerInv, TypesInv, SupplyInv, MachineTypes
<1>3. /\ history'.crossed = history.crossed /\ history'.refused = history.refused
      /\ history'.unheard /\ history'.failed = history.failed
  BY <1>1, <1>2 DEF Histories
<1>4. Clean'
  BY <1>1, <1>2, <1>3, FromQueue, CleanKept DEF TypesInv
<1> QED BY <1>1, <1>2, <1>3, <1>4
        DEF AnswerInv, Putting, Resting, Rests, Stepping, PutCalled, Calling, Excepted

LEMMA IterationAnswers ==
    ASSUME TypesInv, AnswerInv, ClientStepped \/ ServiceCall PROVE AnswerInv'
<1>1. /\ Putting /\ Clean /\ Resting /\ Stepping /\ PutCalled
      /\ UNCHANGED <<event, state, handles, history>>
  BY DEF AnswerInv, ClientStepped, ServiceCall
<1>2. Clean' /\ (Excepted' <=> Excepted)
  BY <1>1 DEF Clean, Has, Excepted
<1>3. Calling
  BY DEF ClientStepped, ServiceCall, Calling
<1>4. /\ event = "put" => history.crossed
      /\ ~Excepted => streamState # "PUT_STREAM"
  BY <1>1, <1>3 DEF Putting, PutCalled, Calling
<1>5. CASE ClientStepped
  <2>1. /\ pc' \in {"call", "client2", "return"} /\ (pc' = "return" => ret' # "OK")
        /\ UNCHANGED streamState
    BY <1>5 DEF ClientStepped, Returns
  <2> QED BY <1>1, <1>2, <1>4, <2>1
          DEF AnswerInv, Putting, Resting, Rests, Stepping, PutCalled
<1>6. CASE ServiceCall
  <2>1. /\ pc' = "return" /\ state \in CallStates /\ calls \in [CallStates -> Nat]
    BY <1>6 DEF ServiceCall, Returns, TypesInv, SupplyInv, Orderly, MachineTypes
  <2>2. \/ state = "PUT_STREAM" /\ streamState = "PUT_STREAM" /\ UNCHANGED streamState
        \/ ret' # "OK" /\ UNCHANGED streamState
        \/ /\ calls' = [calls EXCEPT ![state] = @ + 1]
           /\ streamState' = IF state = "PUT_STREAM" THEN "PUT_STREAM" ELSE streamState
    BY <1>6 DEF ServiceCall, Returns
  <2>3. calls' = [calls EXCEPT ![state] = @ + 1] => calls'[state] > 0
    BY <2>1
  <2>4. Resting'
    BY <1>1, <1>2, <1>4, <2>1, <2>2, <2>3 DEF Resting, Rests, CallStates
  <2> QED BY <1>1, <1>2, <1>4, <2>1, <2>2, <2>4
          DEF AnswerInv, Putting, Stepping, PutCalled, Calling
<1> QED BY <1>5, <1>6

LEMMA ReturnAnswers ==
    ASSUME TypesInv, AnswerInv, EventReturns PROVE AnswerInv'
<1> DEFINE override == event = "tag" /\ ret = "TAG_STREAM_CALL_FAILED"
           prime == event = "grace" /\ ret = "OK" /\ streamState = "NEW" /\ ready
<1>1. /\ pc = "return" /\ pc' = IF override \/ prime THEN "step" ELSE "idle"
      /\ event' \in {"frame", "other"}
      /\ handles' = IF event = "put" /\ ret # "OK"
                    THEN [handles EXCEPT ![Len(handles)] = "FREED"] ELSE handles
      /\ history' = [history EXCEPT !.failed = @ \/ (ret # "OK" /\ ~override)]
      /\ UNCHANGED <<state, streamState, calls>>
  BY DEF EventReturns, clientVars
<1>2. /\ Putting /\ Clean /\ Resting /\ Stepping /\ PutCalled /\ QueueTypes
      /\ history \in Histories /\ (override => state = "TAG")
  BY <1>1 DEF AnswerInv, TypesInv, SupplyInv, Orderly, MachineTypes
<1>3. /\ history'.failed <=> history.failed \/ (ret # "OK" /\ ~override)
      /\ history'.crossed = history.crossed /\ history'.refused = history.refused
      /\ history'.unheard = history.unheard
  BY <1>1, <1>2 DEF Histories
<1> HIDE DEF override, prime
<1>4. Clean'
  <2>1. CASE handles' = handles
    BY <1>2, <1>3, <2>1 DEF Clean, Has
  <2>2. CASE event = "put" /\ ret # "OK" /\ handles' = [handles EXCEPT ![Len(handles)] = "FREED"]
    <3>1. history.crossed \/ history.unheard
      BY <1>1, <1>2, <2>2 DEF Putting
    <3>2. "FREED" \in Entries /\ "FREED" \notin {"NULL"}
      BY DEF Entries
    <3>3. \A set : Has(set)' => Has(set) \/ "FREED" \in set
      BY <1>2, <2>2, <3>2, Updating
    <3>4. Has({"NULL"})' => Has({"NULL"})
      BY <3>2, <3>3
    <3> QED BY <1>2, <1>3, <3>1, <3>4 DEF Clean
  <2> QED BY <1>1, <2>1, <2>2
<1>5. ASSUME ~Excepted'
      PROVE  /\ ~Excepted /\ (override \/ (ret = "OK" /\ Rests))
             /\ (ret = "OK" => UNCHANGED handles) /\ (override => state = "TAG")
  BY <1>1, <1>2, <1>3, <1>5 DEF Excepted, Rests
<1>6. Resting'
  BY <1>1, <1>2, <1>5 DEF Resting, Rests, Has
<1>7. Stepping'
  BY <1>1, <1>2, <1>5 DEF Stepping, Resting, prime
<1>8. PutCalled'
  BY <1>1, <1>2, <1>5 DEF PutCalled, Calling
<1>9. Putting'
  BY <1>1 DEF Putting
<1> QED BY <1>4, <1>6, <1>7, <1>8, <1>9 DEF AnswerInv
(* An answer that changes nothing is an error the application is told of,  *)
(* unless the machine waits for another; one that is taken for another's   *)
(* crosses the calls; and an accepted PutMedia has its handle.             *)
LEMMA OneAnswer ==
    ASSUME TypesInv, AnswerInv, UNCHANGED <<state, streamState, ret>>,
           NEW k \in CallStates, Answer(k), Excepted => Excepted', Clean',
           \/ UNCHANGED <<pc, event, handles>> /\ (Excepted' \/ state # k)
           \/ /\ pc' = "step" /\ event' # "put"
              /\ Excepted' \/ state \notin {"PUT_STREAM", "STREAMING"}
           \/ /\ pc' = "step" /\ result' = "OK" /\ Has({"NEW"})'
              /\ history'.crossed \/ state = "PUT_STREAM"
    PROVE  AnswerInv'
<1>1. /\ Putting /\ Clean /\ Resting /\ Stepping /\ PutCalled
      /\ pc = "idle" /\ streamState # "STOPPED" /\ calls \in [CallStates -> Nat]
      /\ calls' = [calls EXCEPT ![k] = @ - 1]
      /\ history'.crossed => Excepted'
  BY DEF AnswerInv, TypesInv, SupplyInv, Orderly, MachineTypes, Answer, Excepted
<1>2. \A j \in CallStates : j # k => calls'[j] = calls[j]
  BY <1>1
<1>3. CASE UNCHANGED <<pc, event, handles>> /\ (Excepted' \/ state # k)
  <2>1. Putting'
    BY <1>1, <1>3 DEF Putting
  <2>2. Resting'
    BY <1>1, <1>2, <1>3 DEF Resting, Rests, Has
  <2>3. Stepping' /\ PutCalled'
    BY <1>1, <1>3 DEF Stepping, PutCalled, Calling
  <2> QED BY <2>1, <2>2, <2>3 DEF AnswerInv
<1>4. CASE /\ pc' = "step" /\ event' # "put"
           /\ Excepted' \/ state \notin {"PUT_STREAM", "STREAMING"}
  BY <1>1, <1>4 DEF AnswerInv, Putting, Resting, Rests, Stepping, PutCalled, Calling
<1>5. CASE /\ pc' = "step" /\ result' = "OK" /\ Has({"NEW"})'
           /\ history'.crossed \/ state = "PUT_STREAM"
  BY <1>1, <1>5 DEF AnswerInv, Putting, Resting, Rests, Stepping, PutCalled, Calling
<1> QED BY <1>3, <1>4, <1>5

(* What the history recalls of an answer that is, or is not, taken. *)
LEMMA Recalling ==
    ASSUME history \in Histories, NEW k \in CallStates
    PROVE  /\ history' = [history EXCEPT !.failed = @ \/ Accepts(StreamTable, state, k)] =>
                /\ UNCHANGED <<history.crossed, history.refused, history.unheard>> /\ (Excepted => Excepted')
                /\ Excepted' \/ state # k
           /\ history' = Recalled(k) =>
                /\ UNCHANGED <<history.refused, history.unheard>> /\ (history'.crossed <=> history.crossed \/ state # k)
                /\ Excepted => Excepted'
           /\ history' = [Recalled(k) EXCEPT !.failed = TRUE] =>
                /\ UNCHANGED <<history.refused, history.unheard>> /\ (history'.crossed <=> history.crossed \/ state # k)
                /\ Excepted'
<1>1. Accepts(StreamTable, k, k)
  BY DEF Accepts, StreamTable, StateEntry, StreamStates, CallStates
<1> QED BY <1>1 DEF Histories, Recalled, Excepted
(* The answers that do not touch the queue. *)
LEMMA PlainKept ==
    ASSUME TypesInv, AnswerInv, UNCHANGED <<state, streamState, ret, handles>>,
           NEW k \in CallStates \ {"PUT_STREAM"}, Answer(k),
           UNCHANGED <<history.refused, history.unheard>>, history.crossed => history'.crossed, Excepted => Excepted',
           \/ UNCHANGED <<pc, event>> /\ (Excepted' \/ state # k)
           \/ pc' = "step" /\ event' \in {"other", "tag"} /\ (history'.crossed \/ state = k)
    PROVE  AnswerInv'
<1>1. Clean'
  BY DEF AnswerInv, Clean, Has
<1>2. /\ k \in CallStates /\ k \notin {"PUT_STREAM", "STREAMING"}
      /\ history'.crossed => Excepted'
  BY DEF CallStates, Excepted
<1> QED BY <1>1, <1>2, OneAnswer

LEMMA AnswersKept ==
    ASSUME TypesInv, AnswerInv, ResultEvent PROVE AnswerInv'
<1> PICK r \in Results \cup {"OK"} :
         \/ \E s \in {"ACTIVE", "CREATING", "DELETING"} : describeStreamResult(r, s)
         \/ createStreamResult(r) \/ tagStreamResult(r) \/ getStreamingEndpointResult(r)
         \/ \E long \in BOOLEAN : getStreamingTokenResult(r, long)
         \/ putStreamResult(r)
  BY DEF ResultEvent
<1>1. /\ UNCHANGED <<state, streamState, ret>> /\ history \in Histories /\ Clean /\ QueueTypes
      /\ {"DESCRIBE", "CREATE", "TAG", "GET_ENDPOINT", "GET_TOKEN"} \subseteq CallStates \ {"PUT_STREAM"}
      /\ "PUT_STREAM" \in CallStates
  BY DEF ResultEvent, TypesInv, SupplyInv, MachineTypes, AnswerInv, CallStates
<1> DEFINE Unanswered(k) == history' = [history EXCEPT !.failed = @ \/ Accepts(StreamTable, state, k)]
           Failed(k) == history' = [Recalled(k) EXCEPT !.failed = TRUE]
           Same(k) == /\ UNCHANGED <<history.refused, history.unheard>> /\ (history'.crossed <=> history.crossed \/ state # k)
                      /\ Excepted => Excepted'
<1>2. ASSUME NEW k \in CallStates \ {"PUT_STREAM"}, Answer(k), UNCHANGED handles,
             \/ UNCHANGED <<pc, event>> /\ (Unanswered(k) \/ Failed(k))
             \/ pc' = "step" /\ event' \in {"other", "tag"} /\ Same(k)
      PROVE  AnswerInv'
  <2>1. /\ Unanswered(k) => /\ UNCHANGED <<history.crossed, history.refused, history.unheard>> /\ (Excepted => Excepted')
                            /\ Excepted' \/ state # k
        /\ Failed(k) => /\ UNCHANGED <<history.refused, history.unheard>> /\ (history.crossed => history'.crossed)
                        /\ Excepted'
    BY <1>1, Recalling
  <2> HIDE DEF Unanswered, Failed
  <2> QED BY <1>1, <1>2, <2>1, PlainKept
<1> HIDE DEF Failed, Unanswered
<1>3. ASSUME NEW k \in CallStates, history' = Recalled(k) PROVE Same(k)
  BY <1>1, <1>3, Recalling
<1>4. CASE \E s : describeStreamResult(r, s)
  BY <1>1, <1>2, <1>3, <1>4 DEF describeStreamResult, Refused, Iterate, Unanswered, Failed
<1>5. CASE createStreamResult(r)
  BY <1>1, <1>2, <1>3, <1>5 DEF createStreamResult, Refused, Iterate, Unanswered
<1>6. CASE tagStreamResult(r)
  BY <1>1, <1>2, <1>3, <1>6 DEF tagStreamResult, Refused, Iterate, Unanswered
<1>7. CASE getStreamingEndpointResult(r)
  <2>1. /\ Answer("GET_ENDPOINT") /\ UNCHANGED handles
        /\ \/ UNCHANGED <<pc, event>> /\ Unanswered("GET_ENDPOINT")
           \/ /\ pc' = "step" /\ event' = "other"
              /\ history' = [Recalled("GET_ENDPOINT") EXCEPT !.endpoint = @ \/ r = "OK"]
    BY <1>7 DEF getStreamingEndpointResult, Refused, Iterate, Unanswered
  <2>2. history' = [Recalled("GET_ENDPOINT") EXCEPT !.endpoint = @ \/ r = "OK"] => Same("GET_ENDPOINT")
    BY <1>1 DEF Histories, Recalled, Excepted
  <2> QED BY <1>1, <1>2, <2>1, <2>2
<1>8. CASE \E long \in BOOLEAN : getStreamingTokenResult(r, long)
  <2>1. /\ Answer("GET_TOKEN") /\ UNCHANGED handles
        /\ \/ UNCHANGED <<pc, event>> /\ (Unanswered("GET_TOKEN") \/ Failed("GET_TOKEN"))
           \/ /\ pc' = "step" /\ event' = "other"
              /\ history' = [Recalled("GET_TOKEN") EXCEPT !.granted = @ \/ r = "OK"]
    BY <1>8 DEF getStreamingTokenResult, Refused, Iterate, Unanswered, Failed
  <2>2. history' = [Recalled("GET_TOKEN") EXCEPT !.granted = @ \/ r = "OK"] => Same("GET_TOKEN")
    BY <1>1 DEF Histories, Recalled, Excepted
  <2> QED BY <1>1, <1>2, <2>1, <2>2
<1>9. CASE putStreamResult(r)
  <2>1. Answer("PUT_STREAM")
    BY <1>9 DEF putStreamResult
  <2>2. CASE UNCHANGED <<pc, event, handles>> /\ Unanswered("PUT_STREAM")
    <3>1. /\ UNCHANGED <<history.crossed, history.refused, history.unheard>> /\ (Excepted => Excepted')
          /\ Excepted' \/ state # "PUT_STREAM"
      BY <1>1, <2>2, Recalling DEF Unanswered
    <3>2. Clean'
      BY <1>1, <2>2, <3>1 DEF Clean, Has
    <3> QED BY <1>1, <2>1, <2>2, <3>1, <3>2, OneAnswer
  <2> DEFINE e == IF r = "OK" THEN "NEW" ELSE "NULL"
  <2>3. CASE /\ pc' = "step" /\ event' = (IF r = "OK" THEN "put" ELSE "other") /\ result' = r
             /\ Len(handles) < MaxHandles /\ handles' = Append(handles, e)
             /\ history' = [Recalled("PUT_STREAM") EXCEPT !.refused = @ \/ r # "OK",
                                                          !.granted = @ /\ r # "NOT_AUTHORIZED"]
    <3>1. /\ history'.refused <=> history.refused \/ r # "OK"
          /\ history'.crossed <=> history.crossed \/ state # "PUT_STREAM"
          /\ UNCHANGED history.unheard
          /\ Excepted => Excepted'
      BY <1>1, <2>3 DEF Histories, Recalled, Excepted
    <3>2. e \in Entries
      BY DEF Entries, Active, NotInUse
    <3>3. /\ \A set : Has(set)' => Has(set) \/ e \in set
          /\ \A set : e \in set \/ Has(set) => Has(set)'
      BY <1>1, <2>3, <3>2, Appending
    <3>4. /\ Has({"FREED"})' => Has({"FREED"})
          /\ r = "OK" => (Has({"NULL"})' => Has({"NULL"})) /\ Has({"NEW"})'
      BY <3>3
    <3>5. Clean'
      BY <1>1, <3>1, <3>4 DEF Clean
    <3>6. r # "OK" => Excepted'
      BY <3>1 DEF Excepted
    <3> QED BY <1>1, <2>1, <2>3, <3>1, <3>4, <3>5, <3>6, OneAnswer
  <2> QED BY <1>9, <2>2, <2>3 DEF putStreamResult, Refused, Iterate, Unanswered
<1> QED BY <1>4, <1>5, <1>6, <1>7, <1>8, <1>9
-----------------------------------------------------------------------------
(* Sessions end, frames come, the stream is reset.                         *)

(* A machine that is stopped is about to leave: nothing rests. *)
LEMMA StoppedAnswers ==
    ASSUME Clean', pc' = "step", streamState' = "STOPPED", event' # "put" PROVE AnswerInv'
BY DEF AnswerInv, Putting, Resting, Rests, Stepping, PutCalled

(* A machine left alone rests, if its sessions do. *)
LEMMA LeftAlone ==
    ASSUME AnswerInv, Clean', UNCHANGED <<pc, event, state, streamState, calls>>,
           pc = "idle", Excepted => Excepted',
           state = "STREAMING" /\ Has(Active) /\ ~Excepted' => Has(Active)'
    PROVE  AnswerInv'
BY DEF AnswerInv, Putting, Resting, Rests, Stepping, PutCalled, Calling

LEMMA TerminatedAnswers ==
    ASSUME TypesInv, AnswerInv, NEW i, NEW r, NEW alive, streamTerminatedEvent(i, r, alive)
    PROVE  AnswerInv'
<1> DEFINE others == {j \in Visible \ {i} : handles[j] \in Active}
<1>1. /\ pc = "idle" /\ i \in Visible
      /\ handles' = IF alive THEN [handles EXCEPT ![i] = "TERMINATED"] ELSE RemoveAt(handles, i)
      /\ SpawnSession(r, others = {})
      /\ UNCHANGED <<ret, state, calls>>
  BY DEF streamTerminatedEvent
<1>2. /\ QueueTypes /\ Clean /\ history \in Histories /\ Putting
  BY DEF TypesInv, SupplyInv, MachineTypes, AnswerInv
<1>3. UNCHANGED <<history.failed, history.crossed, history.refused, history.unheard>>
  BY <1>2 DEF streamTerminatedEvent, Histories
<1>4. Clean' /\ (Excepted => Excepted')
  BY <1>2, <1>3, EndingQueue, CleanKept DEF Excepted
<1>5. CASE streamState' = "STOPPED" /\ pc' = "step" /\ event' = "other"
  BY <1>4, <1>5, StoppedAnswers
<1>6. CASE ~(others = {}) \/ OnItsWay
  <2>1. ASSUME NEW j \in others PROVE Has(Active)'
    <3>1. j \in 1 .. Len(handles) /\ i \in 1 .. Len(handles) /\ j # i /\ handles[j] \in Active
      BY <1>1 DEF Visible
    <3>2. CASE handles' = [handles EXCEPT ![i] = "TERMINATED"]
      <4>1. "TERMINATED" \in Entries /\ Len(handles) \in Nat
        BY <1>2, LenProperties DEF Entries, QueueTypes
      <4>2. /\ Len(handles') = Len(handles) /\ handles'[j] = handles[j]
        BY <1>2, <3>1, <3>2, <4>1, ExceptSeq DEF QueueTypes
      <4> QED BY <3>1, <4>2 DEF Has
    <3>3. CASE handles' = RemoveAt(handles, i)
      BY <1>2, <3>1, <3>3, Removing DEF QueueTypes
    <3> QED BY <1>1, <3>2, <3>3
  <2>2. state = "STREAMING" => ~OnItsWay
    BY DEF OnItsWay
  <2>3. state = "STREAMING" => Has(Active)'
    BY <1>6, <2>1, <2>2
  <2>4. CASE UNCHANGED <<pc, event, streamState, result>>
    BY <1>1, <1>4, <2>3, <2>4, LeftAlone
  <2> QED BY <1>1, <1>5, <2>4 DEF SpawnSession, Iterate
<1>7. CASE ~(~(others = {}) \/ OnItsWay)
  BY <1>1, <1>5, <1>7 DEF SpawnSession, Iterate
<1> QED BY <1>6, <1>7

LEMMA ResetConnectionAnswers ==
    ASSUME TypesInv, AnswerInv, ResetConnection PROVE AnswerInv'
<1>1. /\ pc = "idle" /\ UNCHANGED <<ret, state, calls, history>>
      /\ IF Visible = 1 .. Len(handles)
         THEN SpawnSession("OK", TRUE)
         ELSE UNCHANGED <<pc, event, streamState, result>>
  BY DEF ResetConnection
<1>2. QueueTypes /\ Clean
  BY DEF TypesInv, AnswerInv
<1>3. Clean' /\ (Excepted' <=> Excepted)
  BY <1>1, <1>2, EndingQueue, CleanKept DEF Excepted
<1>4. Visible # 1 .. Len(handles) => Excepted
  <2>1. Visible # 1 .. Len(handles) => Has({"NULL"})
    <3>1. Len(handles) \in Nat
      BY <1>2, LenProperties DEF QueueTypes
    <3> QED BY <3>1 DEF Visible, Has
  <2> QED BY <1>2, <2>1 DEF Clean, Excepted
<1>5. CASE streamState' = "STOPPED" /\ pc' = "step" /\ event' = "other"
  BY <1>3, <1>5, StoppedAnswers
<1>6. CASE UNCHANGED <<pc, event, streamState, result>> /\ (Excepted \/ OnItsWay)
  BY <1>1, <1>3, <1>6, LeftAlone DEF OnItsWay
<1> QED BY <1>1, <1>4, <1>5, <1>6 DEF SpawnSession, Iterate

LEMMA SessionsAnswers ==
    ASSUME TypesInv, AnswerInv, Sessions PROVE AnswerInv'
<1>1. pc = "idle" /\ UNCHANGED <<pc, event, ret, state, streamState, calls, history>>
  BY DEF Sessions
<1>2. QueueTypes /\ Clean
  BY DEF TypesInv, AnswerInv
<1>3. Clean' /\ (Excepted' <=> Excepted)
  BY <1>1, <1>2, EndingQueue, CleanKept DEF Excepted
<1>4. ASSUME Has(Active) PROVE Has(Active)'
  <2>1. PICK i \in Visible :
          \/ handles' = [handles EXCEPT ![i] = "STREAMING"]
          \/ UNCHANGED handles
          \/ /\ \/ handles[i] = "TERMINATED"
                \/ \E j \in InState({"READY"}) : j > i
             /\ handles' = RemoveAt(handles, i)
    BY DEF Sessions
  <2>2. CASE handles' = [handles EXCEPT ![i] = "STREAMING"]
    <3>1. "STREAMING" \in Entries /\ "STREAMING" \in Active
      BY DEF Entries, Active
    <3> QED BY <1>2, <1>4, <2>2, <3>1, Updating
  <2>3. CASE handles' = RemoveAt(handles, i)
             /\ \E j \in 1 .. Len(handles) : j # i /\ handles[j] \in Active
    <3>1. i \in 1 .. Len(handles)
      BY DEF Visible
    <3> QED BY <1>2, <2>3, <3>1, Removing DEF QueueTypes
  <2>4. handles[i] = "TERMINATED" => \E j \in 1 .. Len(handles) : j # i /\ handles[j] \in Active
    BY <1>4 DEF Has, Active, NotInUse
  <2>5. (\E j \in InState({"READY"}) : j > i) => \E j \in 1 .. Len(handles) : j # i /\ handles[j] \in Active
    <3>1. \A j \in 1 .. Len(handles) : j > i => j # i
      BY DEF Visible
    <3> QED BY <3>1 DEF InState, Visible, Active, NotInUse
  <2> QED BY <1>4, <2>1, <2>2, <2>3, <2>4, <2>5 DEF Has
<1> QED BY <1>1, <1>3, <1>4, LeftAlone

LEMMA OtherAnswers ==
    ASSUME TypesInv, AnswerInv,
           PutFrame \/ resetStream \/ createStream \/ StreamingTokenAges
    PROVE  AnswerInv'
<1>1. /\ Putting /\ Clean /\ Resting /\ Stepping /\ PutCalled /\ Orderly /\ history \in Histories
  BY DEF AnswerInv, TypesInv, SupplyInv, MachineTypes
<1>2. CASE PutFrame
  <2>1. /\ pc = "idle" /\ UNCHANGED <<state, handles, calls, history>>
        /\ \/ /\ Returns("OK") /\ UNCHANGED streamState /\ event' = "grace"
           \/ pc' = "step" /\ streamState' = "STOPPED" /\ event' = "grace"
           \/ streamState = "NEW" /\ pc' = "step" /\ event' = "frame" /\ UNCHANGED streamState
           \/ UNCHANGED <<pc, event, ret, streamState>>
    BY <1>2 DEF PutFrame, Iterate
  <2>2. Clean' /\ (Excepted' <=> Excepted) /\ (Has(Active)' <=> Has(Active))
    BY <1>1, <2>1 DEF Clean, Has, Excepted
  <2>3. Resting'
    BY <1>1, <2>1, <2>2 DEF Resting, Rests, Returns
  <2>4. Stepping'
    BY <1>1, <2>1, <2>2 DEF Stepping, Resting, Rests, Returns
  <2>5. Putting' /\ PutCalled'
    BY <1>1, <2>1, <2>2 DEF Putting, PutCalled, Calling, Returns
  <2> QED BY <2>2, <2>3, <2>4, <2>5 DEF AnswerInv
<1>3. CASE resetStream
  <2>1. /\ handles' = <<>> /\ pc' = "step" /\ event' = "other"
        /\ streamState' = "STOPPED" \/ (streamState' = "NEW" /\ state' = "NEW")
    BY <1>3 DEF resetStream, Iterate
  <2>2. Clean'
    BY <2>1 DEF Clean, Has
  <2> QED BY <2>1, <2>2, StoppedAnswers
          DEF AnswerInv, Putting, Resting, Rests, Stepping, PutCalled
<1>4. CASE createStream
  <2>1. /\ pc = "none" /\ pc' = "step" /\ event' = "other"
        /\ UNCHANGED <<state, streamState, handles, calls, history>>
    BY <1>4 DEF createStream, Iterate
  <2>2. state = "NEW"
    BY <1>1, <2>1 DEF Orderly
  <2> QED BY <1>1, <2>1, <2>2
          DEF AnswerInv, Putting, Clean, Has, Excepted, Resting, Rests, Stepping, PutCalled, Calling
<1>5. CASE StreamingTokenAges
  BY <1>1, <1>5 DEF StreamingTokenAges, AnswerInv, Putting, Clean, Has, Excepted, Resting, Rests,
                    Stepping, PutCalled, Calling
<1> QED BY <1>2, <1>3, <1>4, <1>5

LEMMA AnswersStep ==
    ASSUME TypesInv, AnswerInv, [Next]_vars PROVE AnswerInv'
<1>1. CASE UNCHANGED vars \/ (ClientNext /\ UNCHANGED <<setup, streamVars>>)
  <2>1. UNCHANGED streamVars
    BY <1>1 DEF vars
  <2> QED BY <2>1 DEF streamVars, AnswerInv, Putting, Clean, Has, Excepted, Resting, Rests,
                      Stepping, PutCalled, Calling
<1>2. CASE Step
  BY <1>2, StepAnswers, NoticeAnswers, IterationAnswers, ReturnAnswers DEF Step
<1>3. CASE Environment \/ createStream \/ PutFrame \/ Sessions
  BY <1>3, AnswersKept, TerminatedAnswers, ResetConnectionAnswers, SessionsAnswers, OtherAnswers
     DEF Environment
<1> QED BY <1>1, <1>2, <1>3 DEF Next

-----------------------------------------------------------------------------
(* Nobody waits for a call that was not made: at every rest of the machine *)
(* the answer it waits for is outstanding, or it has a session, unless an  *)
(* error was returned, PutMedia refused or an answer taken for another's   *)
(* (executeXStreamState, streamTerminatedEvent, resetStream, putFrame).    *)
THEOREM AnswersAwaited == Spec => []WaitsForAnAnswer
<1>1. Init => TypesInv /\ AnswerInv
  BY TypesInitially, AnswerInitially
<1>2. TypesInv /\ AnswerInv /\ [Next]_vars => (TypesInv /\ AnswerInv)'
  BY TypesKept, AnswersStep
<1>3. TypesInv /\ AnswerInv => WaitsForAnAnswer
  BY AnswerImplies
<1> QED BY <1>1, <1>2, <1>3, PTL DEF Spec
=============================================================================
