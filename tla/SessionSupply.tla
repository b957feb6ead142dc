--------------------------- MODULE SessionSupply ---------------------------
(***************************************************************************)
(* What the service and the networking layer rely on, whatever the steps   *)
(* of the state machine are: PutMedia is called only with an endpoint and  *)
(* with a credential that was granted after the last refusal of one,       *)
(* unless the machine has lost track of what it waits for.                 *)
(***************************************************************************)
EXTENDS Naturals

VARIABLES
    endpoint,    \* an endpoint is known
    credential,  \* a credential was granted and not refused since
    opening,     \* PutMedia calls that wait for their answer
    excused      \* an answer was taken for another call's, or a termination with
                 \* failed authentication has cut short a refresh

vars == <<endpoint, credential, opening, excused>>

Init == endpoint = FALSE /\ credential = FALSE /\ opening = 0 /\ excused = FALSE

(* Answers of the service; one that is taken for another call's excuses.   *)
LearnEndpoint == endpoint' = TRUE /\ excused' \in {excused, TRUE} /\ UNCHANGED <<credential, opening>>
GrantCredential == credential' = TRUE /\ excused' \in {excused, TRUE} /\ UNCHANGED <<endpoint, opening>>
Open ==
    /\ endpoint /\ (credential \/ excused)
    /\ opening' = opening + 1
    /\ UNCHANGED <<endpoint, credential, excused>>
(* An answer: the session is opened, or refused, perhaps for its credential. *)
Answered ==
    /\ opening > 0 /\ opening' = opening - 1
    /\ credential' \in {credential, FALSE} /\ excused' \in {excused, TRUE}
    /\ UNCHANGED endpoint
(* A session that was open is refused. *)
Refuse == credential' = FALSE /\ excused' \in {excused, TRUE} /\ UNCHANGED <<endpoint, opening>>
LoseTrack == excused' = TRUE /\ UNCHANGED <<endpoint, credential, opening>>
(* A reset starts afresh, and the calls that wait may be given up. *)
Reset == excused' = FALSE /\ opening' \in {opening, 0} /\ UNCHANGED <<endpoint, credential>>

Next == \/ LearnEndpoint \/ GrantCredential \/ Open \/ Answered \/ Refuse \/ LoseTrack
        \/ Reset
Spec == Init /\ [][Next]_vars
=============================================================================
