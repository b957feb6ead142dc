---------------------------- MODULE StateMachine ----------------------------
(***************************************************************************)
(* The generic state machine of src/state/src/State.c.  A machine is a     *)
(* table that gives every state the set of states it may be entered from   *)
(* (acceptStates), how often it may be re-entered from itself and the      *)
(* status returned when that is exceeded.                                  *)
(***************************************************************************)
EXTENDS Integers

(* INFINITE_RETRY_COUNT_SENTINEL *)
Unlimited == -1

StateEntry(accept, max, status) ==
    [acceptStates |-> accept, maxLocalStateRetryCount |-> max, status |-> status]

(* acceptStateMachineState with the mask of state `of'. *)
Accepts(table, current, of) == current \in table[of].acceptStates

(***************************************************************************)
(* stepStateMachine once getNextStateFn has named the next state: the      *)
(* status, and what becomes of the current state and of the retry count.   *)
(* The count is kept when the limit is exceeded; a state that does not     *)
(* accept the current one changes nothing.  The count saturates one above  *)
(* the limit, the only value it is compared with.  The wait time of the    *)
(* transition hook is not part of the model.                               *)
(***************************************************************************)
Transition(table, current, count, next) ==
    LET entry == table[next]
        limit == entry.maxLocalStateRetryCount
        again == IF next # current THEN 0 ELSE IF count <= limit THEN count + 1 ELSE count
    IN  IF current \notin entry.acceptStates
        THEN [status |-> "INVALID_STREAM_STATE", state |-> current, count |-> count]
        ELSE IF limit # Unlimited /\ again > limit
        THEN [status |-> entry.status, state |-> current, count |-> again]
        ELSE [status |-> "OK", state |-> next, count |-> again]
=============================================================================
