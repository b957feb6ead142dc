--------------------------- MODULE ClientMachine ---------------------------
(***************************************************************************)
(* The client's state machine (src/client/src/ClientState.c), its          *)
(* authentication (AuthIntegration.c) and its events (ClientEvent.c).      *)
(*                                                                         *)
(* One action is one call of stepStateMachine; the execute functions of    *)
(* AUTH, PROVISION and TAG step again before they return, so the machine   *)
(* runs until a step returns and releases the client lock.  `caller' says  *)
(* for whom it runs: the creation of the client, an event, or a stream     *)
(* that steps the client before it makes a service call, perhaps another   *)
(* stream than the one of module StreamMachine.  A stream may also step    *)
(* the machine without the lock, while somebody else has it: the two runs  *)
(* interleave between their steps, and between the choice of the next      *)
(* state and the entry into it.                                            *)
(*                                                                         *)
(* Time is what the code compares: a token is "fresh", "near" its end      *)
(* (closer than MIN_STREAMING_TOKEN_EXPIRATION_DURATION) or "expired".     *)
(***************************************************************************)
EXTENDS StateMachine, Sequences

CONSTANTS
    MaxRetryCount,  \* SERVICE_CALL_MAX_RETRY_COUNT
    MaxFaults,      \* bound: failures of any kind in a behaviour
    MaxCalls,       \* bound: calls of one kind that wait for their answer
    Setups          \* the configurations of the application, see SetupType

ASSUME MachineBounds ==
    /\ MaxRetryCount \in Nat /\ MaxFaults \in Nat /\ MaxCalls \in Nat \ {0}

SetupType ==
    [auth   : {"token", "cert", "none"},  \* the callback that returns data, if any
     convert: BOOLEAN,   \* there is a deviceCertToTokenFn
     device : BOOLEAN,   \* the device has tags
     tags   : BOOLEAN,   \* the stream has tags
     create : BOOLEAN,   \* allowStreamCreation
     recover: BOOLEAN]   \* streamCaps.recoverOnError
ASSUME SetupsAssumption == Setups \subseteq SetupType

VARIABLES
    setup,        \* the configuration, chosen once
    faults,       \* failures so far
    client,       \* [state, count, result, ready]
    auth,         \* [token |-> type of tokenAuthInfo, end |-> its expiration, cert |-> BOOLEAN]
    clientCalls,  \* deviceCertToToken and createDevice calls without an answer
    caller,       \* who holds the client lock: "none" or the caller above
    unlocked,     \* a run without the lock: "none", "due" for a step, or the state it has chosen
    clientStatus  \* what the last run for a stream returned

clientVars == <<client, auth, clientCalls, caller, unlocked, clientStatus>>

ClientStates == {"NEW", "AUTH", "PROVISION", "GET_TOKEN", "CREATE", "TAG", "READY"}

ClientTable ==
    [s \in ClientStates |->
      CASE s = "NEW"       -> StateEntry({"NEW"}, Unlimited, "INVALID_CLIENT_READY_STATE")
        [] s = "AUTH"      -> StateEntry({"READY", "NEW", "AUTH"}, MaxRetryCount, "CLIENT_AUTH_CALL_FAILED")
        [] s = "GET_TOKEN" -> StateEntry({"AUTH", "PROVISION", "GET_TOKEN"}, MaxRetryCount, "GET_CLIENT_TOKEN_CALL_FAILED")
        [] s = "PROVISION" -> StateEntry({"AUTH", "PROVISION"}, MaxRetryCount, "CLIENT_PROVISION_CALL_FAILED")
        [] s = "CREATE"    -> StateEntry({"PROVISION", "GET_TOKEN", "AUTH", "CREATE"}, MaxRetryCount, "CREATE_CLIENT_CALL_FAILED")
        [] s = "TAG"       -> StateEntry({"CREATE", "TAG", "READY"}, MaxRetryCount, "TAG_CLIENT_CALL_FAILED")
        [] s = "READY"     -> StateEntry({"GET_TOKEN", "AUTH", "TAG", "CREATE", "READY"}, Unlimited, "CLIENT_READY_CALLBACK_FAILED")]

CanFail == faults < MaxFaults
Fault == CanFail /\ faults' = faults + 1
NoFault == UNCHANGED faults

-----------------------------------------------------------------------------
(* getCurrentAuthType: the token is looked at before the certificate. *)
AuthType == IF auth.token # "UNDEFINED" THEN auth.token
            ELSE IF auth.cert THEN "CERT" ELSE "UNDEFINED"

(* getCurrentAuthExpiration against the current time; without any          *)
(* authentication the expiration is 0.                                     *)
AuthExpired == auth.end = "expired" \/ AuthType = "UNDEFINED"

fromAuthClientState ==
    CASE AuthType = "UNDEFINED" -> IF client.ready THEN "ERROR" ELSE "PROVISION"
      [] AuthType = "STS" /\ auth.end # "fresh" -> "AUTH"
      [] AuthType = "CERT" -> "GET_TOKEN"
      [] OTHER -> IF client.ready THEN "READY" ELSE "CREATE"

fromProvisionClientState ==
    CASE AuthType = "UNDEFINED" -> "PROVISION"
      [] AuthType = "CERT" -> "GET_TOKEN"
      [] OTHER -> "CREATE"

fromGetTokenClientState ==
    IF client.result = "OK" /\ AuthType \in {"STS", "NONE"}
    THEN IF client.ready THEN "READY" ELSE "CREATE"
    ELSE "GET_TOKEN"

fromCreateClientState ==
    IF client.result # "OK" THEN "CREATE"
    ELSE IF setup.device THEN "TAG" ELSE "READY"

fromTagClientState == IF client.result = "OK" THEN "READY" ELSE "TAG"

fromReadyClientState == IF AuthExpired THEN "AUTH" ELSE "READY"

FromClientState ==
    CASE client.state = "NEW"       -> "AUTH"
      [] client.state = "AUTH"      -> fromAuthClientState
      [] client.state = "PROVISION" -> fromProvisionClientState
      [] client.state = "GET_TOKEN" -> fromGetTokenClientState
      [] client.state = "CREATE"    -> fromCreateClientState
      [] client.state = "TAG"       -> fromTagClientState
      [] client.state = "READY"     -> fromReadyClientState

(***************************************************************************)
(* getAuthInfo: the application's callbacks supply a security token, or a  *)
(* certificate, or nothing; or one of them fails.  A token may already be  *)
(* near its end.                                                           *)
(***************************************************************************)
getAuthInfo(c, ok) ==
    /\ client' = [c EXCEPT !.result = IF ok THEN "OK" ELSE "AUTH_FAILURE"]
    /\ \/ /\ ok /\ setup.auth = "token" /\ NoFault
          /\ auth' = [auth EXCEPT !.token = "STS", !.end = "fresh"]
       \/ /\ ok /\ setup.auth = "token" /\ Fault
          /\ auth' = [auth EXCEPT !.token = "STS", !.end = "near"]
       \/ /\ ok /\ setup.auth = "cert" /\ NoFault
          /\ auth' = [auth EXCEPT !.cert = TRUE]
       \/ /\ ok /\ setup.auth = "none" /\ NoFault /\ UNCHANGED auth
       \/ /\ ~ok /\ setup.auth # "none" /\ Fault /\ UNCHANGED auth

-----------------------------------------------------------------------------
(* The machine returns, with or without the lock, or takes another step; a *)
(* stream goes on from clientStatus.                                       *)
ClientReturns(locked, status) ==
    /\ IF locked THEN caller' = "none" /\ UNCHANGED unlocked
                 ELSE unlocked' = "none" /\ UNCHANGED caller
    /\ clientStatus' = IF locked /\ caller # "stream" THEN clientStatus ELSE status
ClientGoesOn(locked) ==
    /\ unlocked' = IF locked THEN unlocked ELSE "due"
    /\ UNCHANGED <<caller, clientStatus>>

(* The state functions, for the client record c that has entered the state. *)
executeAuthClientState(c, locked) ==
    /\ UNCHANGED clientCalls
    /\ \/ getAuthInfo(c, TRUE) /\ ClientGoesOn(locked)
       \/ getAuthInfo(c, FALSE) /\ ClientReturns(locked, "AUTH_ERROR")

(* Provisioning only reads the device fingerprint, whose callback may fail. *)
executeProvisionClientState(c, locked) ==
    /\ client' = c /\ UNCHANGED <<auth, clientCalls>>
    /\ \/ NoFault /\ ClientGoesOn(locked)
       \/ Fault /\ ClientReturns(locked, "PROVISION_ERROR")

(* executeGetTokenClientState and executeCreateClientState make the call;  *)
(* the callback may fail, and the one for a token may be missing.          *)
executeClientCall(c, locked) ==
    /\ client' = [c EXCEPT !.result = "NOT_SET"] /\ UNCHANGED auth
    /\ LET missing == c.state = "GET_TOKEN" /\ ~setup.convert
       IN  \/ /\ ~missing /\ clientCalls[c.state] < MaxCalls
              /\ clientCalls' = [clientCalls EXCEPT ![c.state] = @ + 1]
              /\ ClientReturns(locked, "OK") /\ NoFault
           \/ ~missing /\ ClientReturns(locked, "CALLBACK_ERROR") /\ Fault /\ UNCHANGED clientCalls
           \/ missing /\ ClientReturns(locked, "CALLBACKS_MISSING") /\ NoFault /\ UNCHANGED clientCalls

(* Tagging a device is not enabled: the state reports success and steps. *)
executeTagClientState(c, locked) ==
    /\ client' = [c EXCEPT !.result = "OK"]
    /\ ClientGoesOn(locked) /\ NoFault /\ UNCHANGED <<auth, clientCalls>>

executeReadyClientState(c, locked) ==
    /\ client' = [c EXCEPT !.ready = TRUE]
    /\ ClientReturns(locked, "OK") /\ NoFault /\ UNCHANGED <<auth, clientCalls>>

(* stepStateMachine of the client, once the next state is known.           *)
EnterClientState(next, locked) ==
    LET to == Transition(ClientTable, client.state, client.count, next)
        c == [client EXCEPT !.state = to.state, !.count = to.count]
    IN  IF next = "ERROR"
        THEN ClientReturns(locked, "INVALID_CLIENT_READY_STATE") /\ NoFault
             /\ UNCHANGED <<client, auth, clientCalls>>
        ELSE IF to.status # "OK"
        THEN ClientReturns(locked, to.status) /\ client' = c /\ NoFault
             /\ UNCHANGED <<auth, clientCalls>>
        ELSE \/ next = "AUTH" /\ executeAuthClientState(c, locked)
             \/ next = "PROVISION" /\ executeProvisionClientState(c, locked)
             \/ next \in {"GET_TOKEN", "CREATE"} /\ executeClientCall(c, locked)
             \/ next = "TAG" /\ executeTagClientState(c, locked)
             \/ next = "READY" /\ executeReadyClientState(c, locked)

(* One step under the client lock. *)
StepClient == caller # "none" /\ EnterClientState(FromClientState, TRUE)

(* One without it: it chooses, and others may step the machine before it   *)
(* enters what it has chosen.                                              *)
ChooseUnlocked ==
    /\ unlocked = "due" /\ unlocked' = FromClientState
    /\ UNCHANGED <<faults, client, auth, clientCalls, caller, clientStatus>>
StepUnlocked == unlocked \in ClientStates \cup {"ERROR"} /\ EnterClientState(unlocked, FALSE)

-----------------------------------------------------------------------------
(* createDeviceResult: the answer is checked against the mask of CREATE.   *)
createDeviceResult(r) ==
    /\ caller = "none" /\ clientCalls["CREATE"] > 0
    /\ clientCalls' = [clientCalls EXCEPT !["CREATE"] = @ - 1]
    /\ IF r = "OK" THEN NoFault ELSE Fault
    /\ IF Accepts(ClientTable, client.state, "CREATE")
          /\ r \in {"OK", "NOT_FOUND", "TIMEOUT", "UNKNOWN"}
       THEN client' = [client EXCEPT !.result = r] /\ caller' = "event"
       ELSE UNCHANGED <<client, caller>>
    /\ UNCHANGED <<auth, unlocked, clientStatus>>

(* deviceCertToTokenResult: a token, or the answer that none is needed. *)
deviceCertToTokenResult(r, type) ==
    /\ caller = "none" /\ clientCalls["GET_TOKEN"] > 0
    /\ clientCalls' = [clientCalls EXCEPT !["GET_TOKEN"] = @ - 1]
    /\ IF r = "OK" THEN NoFault ELSE Fault
    /\ IF Accepts(ClientTable, client.state, "GET_TOKEN") /\ r \in {"OK", "TIMEOUT", "UNKNOWN"}
       THEN /\ client' = [client EXCEPT !.result = r] /\ caller' = "event"
            /\ auth' = IF r = "OK" THEN [auth EXCEPT !.token = type, !.end = "fresh"] ELSE auth
       ELSE UNCHANGED <<client, caller, auth>>
    /\ UNCHANGED <<unlocked, clientStatus>>

(* Time passes: the token comes near its end, then expires. *)
TokenAges ==
    /\ auth.token # "UNDEFINED" /\ auth.end # "expired" /\ caller = "none"
    /\ Fault
    /\ auth' = [auth EXCEPT !.end = IF @ = "fresh" THEN "near" ELSE "expired"]
    /\ UNCHANGED <<client, clientCalls, caller, unlocked, clientStatus>>

(* Another stream of the client steps it before a service call of its own. *)
AnotherStream ==
    /\ client.ready /\ caller = "none" /\ Fault /\ caller' = "another"
    /\ UNCHANGED <<client, auth, clientCalls, unlocked, clientStatus>>

ClientInit ==
    /\ setup \in Setups
    /\ faults = 0
    /\ client = [state |-> "NEW", count |-> 0, result |-> "NOT_SET", ready |-> FALSE]
    /\ auth = [token |-> "UNDEFINED", end |-> "fresh", cert |-> FALSE]
    /\ clientCalls = [c \in {"GET_TOKEN", "CREATE"} |-> 0]
    /\ caller = "create" /\ unlocked = "none"
    /\ clientStatus = "OK"

ClientNext ==
    \/ StepClient \/ ChooseUnlocked \/ StepUnlocked
    \/ \E r \in {"OK", "TIMEOUT", "NOT_AUTHORIZED"} : createDeviceResult(r)
    \/ \E r \in {"OK", "TIMEOUT"}, type \in {"STS", "NONE"} : deviceCertToTokenResult(r, type)
    \/ TokenAges \/ AnotherStream
=============================================================================
