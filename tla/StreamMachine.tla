--------------------------- MODULE StreamMachine ---------------------------
(***************************************************************************)
(* The stream's state machine (src/client/src/StreamState.c) with the      *)
(* result events that drive it (StreamEvent.c), the token check of         *)
(* putFrame, resetStream and the reset of the connection (Stream.c,        *)
(* Client.c), over the client's machine of module ClientMachine.           *)
(*                                                                         *)
(* The stream lock is held from an event to its return.  In between, one   *)
(* action is one stepStateMachine; a state that makes a service call first *)
(* steps the client (pc = "client") and makes the call when that returns   *)
(* (pc = "call").  `event' tells what the event does when the iteration of *)
(* the machine returns.                                                    *)
(*                                                                         *)
(* Abstractions.  A result stands for its class in serviceCallResultCheck. *)
(* The content view is `data': whether it holds bytes to send.  The upload *)
(* handles are the states of the queue's entries; what a session sends is  *)
(* the subject of module UploadSession.                                    *)
(***************************************************************************)
EXTENDS ClientMachine, SequencesExt

CONSTANTS
    MaxHandles,     \* bound: entries of pUploadInfoQueue
    Results,        \* the failures of a service call, classes of SERVICE_CALL_RESULT
    LateAnswers     \* whether the answer of a call made before resetStream may still come

ASSUME StreamBounds ==
    /\ MaxHandles \in Nat \ {0} /\ LateAnswers \in BOOLEAN
    /\ Results \subseteq {"TIMEOUT", "NOT_AUTHORIZED", "NOT_FOUND", "UNKNOWN", "LIMIT",
                          "IN_USE", "OTHER"}

VARIABLES
    pc,           \* "none" before createStream, "idle": the stream lock is free,
                  \* "step", "client", "client2" (the second try),
                  \* "call", "return": inside an iteration
    event,        \* the event that iterates the machine
    ret,          \* the status the iteration returns
    state, count, \* context.pCurrentState, context.localStateRetryCount
    streamState,  \* pKinesisVideoStream->streamState
    result,       \* base.result
    status,       \* streamStatus
    ready,        \* streamReady
    data,         \* the view has bytes to send
    token,        \* streamingAuthInfo: "none", "valid" or "near" its expiration
    grace,        \* gracePeriod
    handles,      \* pUploadInfoQueue: states of the handles, "NULL" or "FREED"
    calls,        \* service calls without an answer
    history       \* what the properties recall: [failed, endpoint, granted, refused,
                  \* unheard: the application refused the notice of a new session's data,
                  \* crossed: an answer was taken in a state that waits for another,
                  \* preempted: a termination cut short the way to a session]

streamVars == <<pc, event, ret, state, count, streamState, result, status, ready, data,
                token, grace, handles, calls, history>>
vars == <<setup, faults, clientVars, streamVars>>

StreamStates == {"NEW", "DESCRIBE", "CREATE", "TAG", "GET_ENDPOINT", "GET_TOKEN", "READY",
                 "PUT_STREAM", "STREAMING", "STOPPED"}
CallStates == {"DESCRIBE", "CREATE", "TAG", "GET_ENDPOINT", "GET_TOKEN", "PUT_STREAM"}

StreamTable ==
    [s \in StreamStates |->
      CASE s = "NEW" -> StateEntry({"NEW", "STOPPED"}, Unlimited, "INVALID_STREAM_READY_STATE")
        [] s = "DESCRIBE" -> StateEntry({"NEW", "STOPPED", "DESCRIBE", "PUT_STREAM"}, MaxRetryCount, "DESCRIBE_STREAM_CALL_FAILED")
        [] s = "CREATE" -> StateEntry({"DESCRIBE", "CREATE"}, MaxRetryCount, "CREATE_STREAM_CALL_FAILED")
        [] s = "TAG" -> StateEntry({"DESCRIBE", "CREATE", "TAG"}, MaxRetryCount, "TAG_STREAM_CALL_FAILED")
        [] s = "GET_ENDPOINT" -> StateEntry({"STOPPED", "DESCRIBE", "CREATE", "GET_ENDPOINT", "TAG"}, MaxRetryCount, "GET_STREAMING_ENDPOINT_CALL_FAILED")
        [] s = "GET_TOKEN" -> StateEntry({"STOPPED", "GET_ENDPOINT", "GET_TOKEN", "PUT_STREAM"}, MaxRetryCount, "GET_STREAMING_TOKEN_CALL_FAILED")
        [] s = "READY" -> StateEntry({"STOPPED", "GET_TOKEN", "READY", "PUT_STREAM", "STREAMING"}, MaxRetryCount, "STREAM_READY_CALLBACK_FAILED")
        [] s = "PUT_STREAM" -> StateEntry({"READY", "PUT_STREAM"}, Unlimited, "PUT_STREAM_CALL_FAILED")
        [] s = "STREAMING" -> StateEntry({"PUT_STREAM", "STREAMING"}, Unlimited, "PUT_STREAM_CALL_FAILED")
        [] s = "STOPPED" -> StateEntry(StreamStates, Unlimited, "PUT_STREAM_CALL_FAILED")]

(* serviceCallResultCheck: a result that is not set or not known is an     *)
(* unknown error, the grace period of the token is a success.              *)
serviceCallResultCheck(r) ==
    CASE r \in {"OK", "GRACE"} -> "OK"
      [] r \in {"NOT_SET", "UNKNOWN"} -> "UNKNOWN"
      [] OTHER -> r

-----------------------------------------------------------------------------
(* getStreamUploadInfoWithState: the search ends at a null entry. *)
Visible == {i \in 1 .. Len(handles) : \A j \in 1 .. i : handles[j] # "NULL"}
InState(set) == {i \in Visible : handles[i] \in set}
NotInUse == {"NEW", "READY"}
Active == NotInUse \cup {"STREAMING"}

\* Mutant: a refused credential is used again
fromStoppedStreamStateReuse ==
    IF serviceCallResultCheck(result) \in {"TIMEOUT", "NOT_AUTHORIZED"} THEN "READY" ELSE "DESCRIBE"
(* fromStoppedStreamState; without recovery an error is returned, after a  *)
(* success the machine starts again.                                       *)
fromStoppedStreamState ==
    LET checked == serviceCallResultCheck(result)
    IN  IF ~setup.recover THEN IF checked = "OK" THEN "NEW" ELSE "ERROR"
        ELSE CASE checked \in {"OK", "LIMIT"} -> "GET_ENDPOINT"
               [] checked = "NOT_AUTHORIZED" -> "GET_TOKEN"
               [] checked \in {"IN_USE", "UNKNOWN", "NOT_FOUND"} -> "DESCRIBE"
               [] checked = "TIMEOUT" -> "READY"
               [] OTHER -> "NEW"

fromDescribeStreamState ==
    CASE result = "OK" /\ status = "DELETING" -> "ERROR"
      [] result = "OK" /\ status = "ACTIVE" -> IF setup.tags THEN "TAG" ELSE "GET_ENDPOINT"
      [] result = "NOT_FOUND" -> IF setup.create THEN "CREATE" ELSE "STOPPED"
      [] OTHER -> "DESCRIBE"

(* fromCreateStreamState, fromTagStreamState, fromGetEndpointStreamState   *)
(* and fromGetTokenStreamState: go on after a success, call again if not.  *)
fromCallState ==
    IF result # "OK" THEN state
    ELSE CASE state = "CREATE" -> IF setup.tags THEN "TAG" ELSE "GET_ENDPOINT"
           [] state = "TAG" -> "GET_ENDPOINT"
           [] state = "GET_ENDPOINT" -> "GET_TOKEN"
           [] state = "GET_TOKEN" -> "READY"

fromPutStreamState ==
    CASE result = "OK" -> "STREAMING"
      [] result = "TIMEOUT" -> "GET_ENDPOINT"
      [] result = "NOT_AUTHORIZED" -> "GET_TOKEN"
      [] OTHER -> "DESCRIBE"

FromStreamState ==
    CASE state = "STOPPED" -> fromStoppedStreamState
      [] state # "STOPPED" /\ streamState = "STOPPED" -> "STOPPED"
      [] OTHER -> CASE state = "NEW" -> "DESCRIBE"
                    [] state = "DESCRIBE" -> fromDescribeStreamState
                    [] state = "READY" -> "PUT_STREAM"
                    [] state = "PUT_STREAM" -> fromPutStreamState
                    [] state = "STREAMING" -> "STREAMING"
                    [] OTHER -> fromCallState

(* fromPutStreamState also makes the new handle ready when the call has    *)
(* succeeded.                                                              *)
HandlesAfterFrom ==
    IF state = "PUT_STREAM" /\ streamState # "STOPPED" /\ result = "OK" /\ InState({"NEW"}) # {}
    THEN [handles EXCEPT ![CHOOSE i \in InState({"NEW"}) :
                               \A j \in InState({"NEW"}) : i <= j] = "READY"]
    ELSE handles

-----------------------------------------------------------------------------
Returns(s) == pc' = "return" /\ ret' = s

(* The state functions of the states that make no call, entered with       *)
(* streamState ss: they set the streamState or ask for another step.  The  *)
(* callbacks of READY, the broadcast and streamReadyFn, may fail.          *)
executeReadyStreamState(ss) ==
    /\ ready' = TRUE /\ streamState' = ss
    /\ \/ /\ NoFault
          /\ IF ss \in {"READY", "STOPPED"} \/ data THEN pc' = "step" /\ UNCHANGED ret ELSE Returns("OK")
       \/ Fault /\ Returns("CALLBACK_ERROR")

(* A connection that timed out with nothing left to send: the next putFrame *)
(* starts the machine, streamState NEW tells it to.                         *)
executeStoppedStreamState(ss) ==
    /\ IF result = "TIMEOUT" /\ ~data
       THEN streamState' = "NEW" /\ Returns("OK")
       ELSE streamState' = ss /\ pc' = "step" /\ UNCHANGED ret
    /\ UNCHANGED ready

ExecuteStreamState(next, ss) ==
    \/ next = "NEW" /\ pc' = "step" /\ streamState' = ss /\ NoFault /\ UNCHANGED <<ret, ready, caller>>
    \/ next = "READY" /\ executeReadyStreamState(ss) /\ UNCHANGED caller
    \/ next = "STOPPED" /\ executeStoppedStreamState(ss) /\ NoFault /\ UNCHANGED caller
    \/ next = "STREAMING" /\ streamState' = "STREAMING" /\ Returns("OK") /\ NoFault /\ UNCHANGED <<ready, caller>>
    \/ /\ next \in CallStates /\ caller = "none" /\ NoFault
       /\ pc' = "client" /\ caller' = "stream"
       /\ streamState' = ss /\ UNCHANGED <<ret, ready>>

(* One step of iterateStreamStateMachine. *)
StepStream ==
    /\ pc = "step"
    /\ LET next == FromStreamState
           to == Transition(StreamTable, state, count, next)
           ss == IF state = "STOPPED" THEN "READY" ELSE streamState
       IN  IF next = "ERROR" \/ to.status # "OK"
           THEN /\ Returns(IF next = "ERROR" THEN "STREAM_ERROR" ELSE to.status)
                /\ count' = IF next = "ERROR" THEN count ELSE to.count
                /\ streamState' = ss /\ NoFault
                /\ UNCHANGED <<state, ready, caller>>
           ELSE /\ state' = to.state /\ count' = to.count
                /\ ExecuteStreamState(to.state, ss)
    /\ handles' = HandlesAfterFrom
    /\ UNCHANGED <<setup, client, auth, clientCalls, unlocked, clientStatus, event, result, status,
                   data, token, grace, calls, history>>

(* fromPutStreamState tells the application of the data for a session that *)
(* has become ready while no other is at work.  When that fails, so does   *)
(* the step, and the session stays ready.                                  *)
NoticeFails ==
    /\ pc = "step" /\ state = "PUT_STREAM" /\ streamState # "STOPPED" /\ result = "OK"
    /\ InState({"NEW"}) # {} /\ InState({"STREAMING"}) = {}
    /\ Fault /\ Returns("CALLBACK_ERROR")
    /\ handles' = HandlesAfterFrom /\ history' = [history EXCEPT !.unheard = TRUE]
    /\ UNCHANGED <<setup, clientVars, event, state, count, streamState, result, status, ready, data,
                   token, grace, calls>>

(***************************************************************************)
(* The client has been stepped.  A failure ends the iteration.  For        *)
(* GET_ENDPOINT, a failed authentication steps the client once more, in a  *)
(* state that READY accepts and without the client lock, and goes on if    *)
(* that succeeds.                                                          *)
(***************************************************************************)
ClientStepped ==
    /\ \/ pc = "client" /\ caller # "stream"
       \/ pc = "client2" /\ unlocked = "none"
    /\ LET again == /\ pc = "client" /\ state = "GET_ENDPOINT"
                    /\ clientStatus = "CLIENT_AUTH_CALL_FAILED"
                    /\ Accepts(ClientTable, client.state, "READY")
       IN  \/ clientStatus = "OK" /\ pc' = "call" /\ UNCHANGED <<unlocked, ret>>
           \/ again /\ pc' = "client2" /\ unlocked' = "due" /\ UNCHANGED ret
           \/ clientStatus # "OK" /\ ~again /\ Returns(clientStatus) /\ UNCHANGED unlocked
    /\ UNCHANGED <<setup, faults, client, auth, clientCalls, caller, clientStatus, event, state, count,
                   streamState, result, status, ready, data, token, grace, handles, calls, history>>

(* The service call of the state.  PutMedia is called only when the stream *)
(* state is not PUT_STREAM already.  The callback itself may fail.         *)
ServiceCall ==
    /\ pc = "call"
    /\ IF state = "PUT_STREAM" /\ streamState = "PUT_STREAM"
       THEN UNCHANGED <<result, calls, streamState>> /\ Returns("OK") /\ NoFault
       ELSE /\ result' = "NOT_SET"
            /\ \/ Fault /\ Returns("CALLBACK_ERROR") /\ UNCHANGED <<calls, streamState>>
               \/ /\ NoFault /\ Returns("OK") /\ calls[state] < MaxCalls
                  /\ calls' = [calls EXCEPT ![state] = @ + 1]
                  /\ streamState' = IF state = "PUT_STREAM" THEN "PUT_STREAM" ELSE streamState
    /\ UNCHANGED <<setup, clientVars, event, state, count, status, ready, data, token, grace, handles,
                   history>>

\* Mutant: a failed tag call is only reported
EventReturnsNoOverride ==
    /\ pc = "return" /\ pc' = "idle"
    /\ history' = [history EXCEPT !.failed = @ \/ ret \notin {"OK", "TAG_STREAM_CALL_FAILED"}]
    /\ data' = (data \/ event \in {"grace", "frame"})
    /\ UNCHANGED <<setup, faults, clientVars, event, result, handles, grace, ret, state, count,
                   streamState, status, ready, token, calls>>
(***************************************************************************)
(* The iteration has returned to the event.  A tag call that failed too    *)
(* often is overridden and the machine goes on; a handle whose event fails *)
(* is freed, though it is in the queue; a failed rotation leaves the grace *)
(* period, a successful one goes on with putFrame, which steps the machine *)
(* if the connection has timed out, and puts the frame.                    *)
(***************************************************************************)
EventReturns ==
    /\ pc = "return"
    /\ LET override == event = "tag" /\ ret = "TAG_STREAM_CALL_FAILED"
           prime == event = "grace" /\ ret = "OK" /\ streamState = "NEW" /\ ready
       IN  /\ pc' = IF override \/ prime THEN "step" ELSE "idle"
           /\ event' = IF prime THEN "frame" ELSE "other"
           /\ result' = IF override THEN "OK" ELSE result
           /\ handles' = IF event = "put" /\ ret # "OK"
                         THEN [handles EXCEPT ![Len(handles)] = "FREED"] ELSE handles
           /\ grace' = (grace /\ ~(event = "grace" /\ ret # "OK"))
           /\ data' = (data \/ (event \in {"grace", "frame"} /\ ret = "OK" /\ ~prime))
           /\ history' = [history EXCEPT !.failed = @ \/ (ret # "OK" /\ ~override)]
    /\ UNCHANGED <<setup, faults, clientVars, ret, state, count, streamState, status, ready, token,
                   calls>>

-----------------------------------------------------------------------------
(* The answer to a call of kind k arrives. *)
Answer(k) == /\ pc = "idle" /\ calls[k] > 0
             /\ calls' = [calls EXCEPT ![k] = @ - 1]

(* The machine is in a state the event accepts, and the event lets the     *)
(* result r pass; otherwise the event returns an error and changes nothing. *)
Taken(k, r, allowed) == Accepts(StreamTable, state, k) /\ serviceCallResultCheck(r) \in allowed
Recalled(k) == [history EXCEPT !.crossed = @ \/ state # k]
Iterate(e) == pc' = "step" /\ event' = e
Refused(k) == /\ history' = [history EXCEPT !.failed = @ \/ Accepts(StreamTable, state, k)]
              /\ UNCHANGED <<pc, event, result, status, token, grace, handles>>

Common == {"OK", "TIMEOUT", "UNKNOWN", "NOT_AUTHORIZED"}

describeStreamResult(r, s) ==
    /\ Answer("DESCRIBE")
    /\ IF r = "OK" /\ s = "ACTIVE" THEN NoFault ELSE Fault
    /\ IF ~Taken("DESCRIBE", r, Common \cup {"NOT_FOUND"}) THEN Refused("DESCRIBE")
       ELSE /\ result' = r
            /\ IF r = "OK" /\ s = "DELETING"
               THEN /\ history' = [Recalled("DESCRIBE") EXCEPT !.failed = TRUE]
                    /\ UNCHANGED <<pc, event, status>>
               ELSE /\ status' = IF r = "OK" THEN s ELSE status
                    /\ Iterate("other") /\ history' = Recalled("DESCRIBE")
            /\ UNCHANGED <<token, grace, handles>>

createStreamResult(r) ==
    /\ Answer("CREATE")
    /\ IF r = "OK" THEN NoFault ELSE Fault
    /\ IF ~Taken("CREATE", r, Common) THEN Refused("CREATE")
       ELSE /\ result' = r /\ Iterate("other") /\ history' = Recalled("CREATE")
            /\ UNCHANGED <<status, token, grace, handles>>

tagStreamResult(r) ==
    /\ Answer("TAG")
    /\ IF r = "OK" THEN NoFault ELSE Fault
    /\ IF ~Taken("TAG", r, Common) THEN Refused("TAG")
       ELSE /\ result' = r /\ Iterate("tag") /\ history' = Recalled("TAG")
            /\ UNCHANGED <<status, token, grace, handles>>

getStreamingEndpointResult(r) ==
    /\ Answer("GET_ENDPOINT")
    /\ IF r = "OK" THEN NoFault ELSE Fault
    /\ IF ~Taken("GET_ENDPOINT", r, Common) THEN Refused("GET_ENDPOINT")
       ELSE /\ result' = r /\ Iterate("other")
            /\ history' = [Recalled("GET_ENDPOINT") EXCEPT !.endpoint = @ \/ r = "OK"]
            /\ UNCHANGED <<status, token, grace, handles>>

(* A token that expires too soon is an error; a good one ends the grace    *)
(* period.                                                                 *)
getStreamingTokenResult(r, long) ==
    /\ Answer("GET_TOKEN")
    /\ IF r = "OK" /\ long THEN NoFault ELSE Fault
    /\ IF ~Taken("GET_TOKEN", r, {"OK", "TIMEOUT", "UNKNOWN"}) THEN Refused("GET_TOKEN")
       ELSE /\ result' = r
            /\ IF r = "OK" /\ ~long
               THEN /\ history' = [Recalled("GET_TOKEN") EXCEPT !.failed = TRUE]
                    /\ UNCHANGED <<pc, event, token, grace>>
               ELSE /\ Iterate("other")
                    /\ history' = [Recalled("GET_TOKEN") EXCEPT !.granted = @ \/ r = "OK"]
                    /\ IF r = "OK"
                       THEN token' = "valid" /\ grace' = FALSE
                       ELSE UNCHANGED <<token, grace>>
            /\ UNCHANGED <<status, handles>>

(* A failure leaves a null entry in the queue of the upload handles. *)
putStreamResult(r) ==
    /\ Answer("PUT_STREAM")
    /\ IF r = "OK" THEN NoFault ELSE Fault
    /\ IF ~Taken("PUT_STREAM", r, Common) THEN Refused("PUT_STREAM")
       ELSE /\ Len(handles) < MaxHandles
            /\ result' = r
            /\ handles' = Append(handles, IF r = "OK" THEN "NEW" ELSE "NULL")
            /\ Iterate(IF r = "OK" THEN "put" ELSE "other")
            /\ history' = [Recalled("PUT_STREAM") EXCEPT !.refused = @ \/ r # "OK",
                                                        !.granted = @ /\ r # "NOT_AUTHORIZED"]
            /\ UNCHANGED <<status, token, grace>>

ResultEvent ==
    /\ \E r \in Results \cup {"OK"} :
         \/ \E s \in {"ACTIVE", "CREATING", "DELETING"} : describeStreamResult(r, s)
         \/ createStreamResult(r) \/ tagStreamResult(r) \/ getStreamingEndpointResult(r)
         \/ \E long \in BOOLEAN : getStreamingTokenResult(r, long)
         \/ putStreamResult(r)
    /\ UNCHANGED <<setup, clientVars, ret, state, count, streamState, ready, data>>

-----------------------------------------------------------------------------
\* Mutant: a machine that streams is left alone, too
SpawnSessionLate(r, needed) ==
    IF ~needed \/ state # "PUT_STREAM" THEN UNCHANGED <<pc, event, streamState, result>>
    ELSE streamState' = "STOPPED" /\ result' = r /\ Iterate("other")
(* The end of streamTerminatedEvent: unless the client's authentication    *)
(* has failed, a machine on its way to a session is left alone; otherwise  *)
(* it is stopped with the result r, if a session is needed.                *)
OnItsWay == state \in {"DESCRIBE", "CREATE", "TAG", "GET_TOKEN", "GET_ENDPOINT", "READY"}
SpawnSession(r, needed) ==
    IF ~needed \/ (client.result # "AUTH_FAILURE" /\ OnItsWay)
    THEN UNCHANGED <<pc, event, streamState, result>>
    ELSE streamState' = "STOPPED" /\ result' = r /\ Iterate("other")

(* streamTerminatedEvent for a handle of the queue whose connection is     *)
(* still `alive', or not; another active session goes on instead.          *)
streamTerminatedEvent(i, r, alive) ==
    /\ pc = "idle" /\ Fault
    /\ i \in Visible /\ handles[i] # "FREED"
    /\ handles' = IF alive THEN [handles EXCEPT ![i] = "TERMINATED"] ELSE RemoveAt(handles, i)
    /\ LET others == {j \in Visible \ {i} : handles[j] \in Active}
       IN  /\ SpawnSession(r, others = {})
           /\ history' = [history EXCEPT !.granted = @ /\ (r # "NOT_AUTHORIZED" \/ others # {}),
                                         !.preempted = @ \/ (others = {} /\ pc' = "step" /\ OnItsWay)]
    /\ UNCHANGED <<setup, clientVars, ret, state, count, status, ready, data, token, grace, calls>>

(* kinesisVideoStreamResetConnection: all the handles are terminated, up   *)
(* to a null entry, which is an error.                                     *)
ResetConnection ==
    /\ pc = "idle" /\ Fault
    /\ handles' = [i \in 1 .. Len(handles) |-> IF i \in Visible THEN "TERMINATED" ELSE handles[i]]
    /\ IF Visible = 1 .. Len(handles)
       THEN SpawnSession("OK", TRUE)
       ELSE UNCHANGED <<pc, event, streamState, result>>
    /\ UNCHANGED <<setup, clientVars, ret, state, count, status, ready, data, token, grace, calls,
                   history>>

\* Mutant: a frame does not prime the machine
PutFrameUnprimed ==
    /\ pc = "idle" /\ ~data /\ data' = TRUE
    /\ UNCHANGED <<setup, faults, clientVars, pc, event, ret, state, count, streamState, result,
                   status, ready, token, grace, handles, calls, history>>
(* putFrame up to the point where the frame is in the view: the check of   *)
(* the streaming token, then the step after a time-out.                    *)
PutFrame ==
    /\ pc = "idle"
    /\ \/ /\ token = "near" /\ ~grace /\ grace' = TRUE /\ event' = "grace"
          /\ IF client.result # "AUTH_FAILURE" /\ OnItsWay
             THEN Returns("OK") /\ UNCHANGED <<streamState, result>>
             ELSE pc' = "step" /\ streamState' = "STOPPED" /\ result' = "GRACE" /\ UNCHANGED ret
          /\ UNCHANGED data
       \/ /\ ~(token = "near" /\ ~grace) /\ streamState = "NEW" /\ ready
          /\ Iterate("frame") /\ UNCHANGED <<ret, streamState, result, grace, data>>
       \/ /\ ~(token = "near" /\ ~grace) /\ ~(streamState = "NEW" /\ ready) /\ ~data
          /\ data' = TRUE /\ UNCHANGED <<pc, event, ret, streamState, result, grace>>
    /\ UNCHANGED <<setup, faults, clientVars, state, count, status, ready, token, handles, calls, history>>

(***************************************************************************)
(* resetStream: the content and the sessions are dropped.  A stream that   *)
(* has been ready is stopped and goes to DESCRIBE, since a result that is  *)
(* not set counts as unknown; one that has not starts from NEW.  The       *)
(* application is asked to cancel the calls that wait; with LateAnswers,   *)
(* their answers may still come.                                           *)
(***************************************************************************)
resetStream ==
    /\ pc = "idle" /\ Fault
    /\ handles' = <<>> /\ data' = FALSE
    /\ result' = "NOT_SET" /\ status' = "CREATING" /\ token' = "none" /\ grace' = FALSE
    /\ IF ready THEN streamState' = "STOPPED" /\ UNCHANGED state
                ELSE streamState' = "NEW" /\ state' = "NEW"
    /\ count' = 0 /\ client' = [client EXCEPT !.count = 0]
    /\ calls' \in {[k \in CallStates |-> 0]} \cup (IF LateAnswers THEN {calls} ELSE {})
    /\ history' = [history EXCEPT !.failed = FALSE, !.refused = FALSE, !.unheard = FALSE,
                                  !.crossed = FALSE, !.preempted = FALSE]
    /\ Iterate("other")
    /\ UNCHANGED <<setup, auth, clientCalls, caller, unlocked, clientStatus, ret, ready>>

(* createStream, once the client is ready. *)
createStream ==
    /\ pc = "none" /\ client.ready /\ client.state = "READY" /\ caller = "none"
    /\ Iterate("other")
    /\ UNCHANGED <<setup, faults, clientVars, ret, state, count, streamState, result, status, ready,
                   data, token, grace, handles, calls, history>>

-----------------------------------------------------------------------------
(* What the sessions do to the queue: the first active handle sends, a     *)
(* rotated one gives way to the next, a terminated one is deleted when it  *)
(* reads its end of stream.                                                *)
Sessions ==
    /\ pc = "idle"
    /\ \E i \in Visible :
         \/ /\ handles[i] = "READY" /\ \A j \in InState(Active) : i <= j
            /\ handles' = [handles EXCEPT ![i] = "STREAMING"] /\ UNCHANGED data
         \/ handles[i] = "STREAMING" /\ data /\ data' = FALSE /\ UNCHANGED handles
         \/ /\ \/ handles[i] = "TERMINATED"
               \/ handles[i] = "STREAMING" /\ \E j \in InState({"READY"}) : j > i
            /\ handles' = RemoveAt(handles, i) /\ UNCHANGED data
    /\ UNCHANGED <<setup, faults, clientVars, pc, event, ret, state, count, streamState, result,
                   status, ready, token, grace, calls, history>>

StreamingTokenAges ==
    /\ pc = "idle" /\ token = "valid" /\ Fault /\ token' = "near"
    /\ UNCHANGED <<setup, clientVars, pc, event, ret, state, count, streamState, result, status,
                   ready, data, grace, handles, calls, history>>

Init ==
    /\ ClientInit
    /\ pc = "none" /\ event = "other" /\ ret = "OK"
    /\ state = "NEW" /\ count = 0 /\ streamState = "NEW"
    /\ result = "NOT_SET" /\ status = "CREATING"
    /\ ready = FALSE /\ data = FALSE /\ token = "none" /\ grace = FALSE
    /\ handles = <<>> /\ calls = [k \in CallStates |-> 0]
    /\ history = [failed |-> FALSE, endpoint |-> FALSE, granted |-> FALSE, refused |-> FALSE,
                  unheard |-> FALSE, crossed |-> FALSE, preempted |-> FALSE]

Step == StepStream \/ NoticeFails \/ ClientStepped \/ ServiceCall \/ EventReturns
Environment ==
    \/ ResultEvent
    \/ \E i \in 1 .. MaxHandles, r \in Results \cup {"OK"}, alive \in BOOLEAN :
         streamTerminatedEvent(i, r, alive)
    \/ ResetConnection \/ resetStream \/ StreamingTokenAges
Next ==
    \/ ClientNext /\ UNCHANGED <<setup, streamVars>>
    \/ Step \/ Environment \/ createStream \/ PutFrame \/ Sessions

(***************************************************************************)
(* Fairness: the thread that holds a lock goes on; the networking layer    *)
(* answers every call, and its sessions go on pulling; the application     *)
(* creates the stream and keeps putting frames.                            *)
(***************************************************************************)
Fairness ==
    /\ WF_vars(Step) /\ WF_vars(StepClient /\ UNCHANGED <<setup, streamVars>>)
    /\ WF_vars((ChooseUnlocked \/ StepUnlocked) /\ UNCHANGED <<setup, streamVars>>)
    /\ WF_vars(ClientNext /\ UNCHANGED <<setup, streamVars>>)
    /\ WF_vars(createStream) /\ WF_vars(PutFrame) /\ WF_vars(Sessions) /\ WF_vars(ResultEvent)
Spec == Init /\ [][Next]_vars /\ Fairness

-----------------------------------------------------------------------------
(* The variables have the values the code gives them. *)
TypeOK ==
    /\ setup \in Setups /\ faults \in 0 .. MaxFaults
    /\ client.state \in ClientStates /\ client.count \in 0 .. MaxRetryCount + 1
    /\ client.result \in {"OK", "NOT_SET", "AUTH_FAILURE", "TIMEOUT"} \cup Results
    /\ pc \in {"none", "idle", "step", "client", "client2", "call", "return"}
    /\ event \in {"other", "tag", "put", "grace", "frame"}
    /\ state \in StreamStates /\ count \in 0 .. MaxRetryCount + 1
    /\ streamState \in {"NEW", "READY", "PUT_STREAM", "STREAMING", "STOPPED"}
    /\ result \in {"OK", "GRACE", "NOT_SET"} \cup Results
    /\ token \in {"none", "valid", "near"}
    /\ handles \in Seq({"NULL", "FREED", "TERMINATED"} \cup Active) /\ Len(handles) <= MaxHandles
    /\ \A k \in CallStates : calls[k] \in 0 .. MaxCalls

(***************************************************************************)
(* Nobody waits for a call that was not made: when an event has released   *)
(* the stream lock in a state that waits for an answer, that call is       *)
(* outstanding; unless an event returned an error to the application;      *)
(* PutMedia was refused, which leaves streamState at PUT_STREAM: the next  *)
(* time executePutStreamState takes the call for made; or the accept masks *)
(* took the answer of an earlier call for this one's.  With the same       *)
(* exceptions a machine that rests in STREAMING has a session to send      *)
(* with; and no entry of the queue points to a handle that putStreamResult *)
(* has freed, as long as every answer has met the state that waits for it  *)
(* and the application has taken the notice of a new session's data.       *)
(***************************************************************************)
Excepted == history.failed \/ history.refused \/ history.crossed
WaitsForAnAnswer ==
    /\ TypeOK
    /\ pc = "idle" /\ state \in CallStates /\ ~Excepted => calls[state] > 0
    /\ pc = "idle" /\ state = "STREAMING" /\ ~Excepted => InState(Active) # {}
    /\ ~(history.crossed \/ history.unheard) => \A i \in 1 .. Len(handles) : handles[i] # "FREED"

(* Data that waits to be sent gets a session, or the application has been  *)
(* told of an error, with the exceptions above.                            *)
DataGetsSession ==
    data /\ pc = "idle" ~> InState({"STREAMING"}) # {} \/ Excepted

Supply == INSTANCE SessionSupply
              WITH endpoint <- history.endpoint, credential <- history.granted,
                   opening <- calls["PUT_STREAM"],
                   excused <- history.crossed \/ history.preempted
(* The machine implements the supply of sessions of module SessionSupply. *)
SuppliesSessions == Supply!Spec
=============================================================================
