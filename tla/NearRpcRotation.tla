---------------------------- MODULE NearRpcRotation ---------------------------
(***************************************************************************)
(* NearRpc with a history: how long an endpoint in rotation has been       *)
(* passed over. The history decides nothing; without it the specification  *)
(* is NearRpc's. It starts again whenever an endpoint is asked or leaves   *)
(* the rotation.                                                           *)
(***************************************************************************)
EXTENDS NearRpc

VARIABLE waited  \* waited[e]: picks in a row that passed over e, in rotation

rotationVars == <<rpcVars, waited>>

RotationInit == Init /\ waited = [e \in Endpoints |-> 0]

(* A pick passes over the endpoints in rotation that it does not ask. *)
PickPasses(q) ==
    /\ Pick(q)
    /\ waited' = [e \in Endpoints |->
                    IF e \in InRotation(pool') \ {req'[q].at} THEN waited[e] + 1 ELSE 0]

(* An answer, or the time, passes over nobody. *)
NobodyPassed ==
    waited' = [e \in Endpoints |-> IF e \in InRotation(pool') THEN waited[e] ELSE 0]

RotationNext ==
    \/ \E q \in Requests :
          \/ PickPasses(q)
          \/ (Start(q) \/ Served(q)) /\ NobodyPassed
          \/ \E now \in BOOLEAN :
                (AnswersUnknown(q, now) \/ AttemptFails(q, now)) /\ NobodyPassed
    \/ \E e \in Endpoints : GrowsOld(e) /\ NobodyPassed

RotationSpec == RotationInit /\ [][RotationNext]_rotationVars

-------------------------------------------------------------------------------
(* Property. *)

(* The weights bias the rotation "without ever starving the weaker         *)
(* endpoints" (pickNextEndpoint's comment): an endpoint that stays in      *)
(* rotation is asked before its passed weight reaches twice the credit     *)
(* limit, whatever is blacklisted, expires or is reset meanwhile.          *)
NoStarvation ==
    \A e \in Endpoints : waited[e] * Weight[e] <= 2 * CreditLimit

===============================================================================
