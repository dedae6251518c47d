------------------------------- MODULE MCNearRpc ------------------------------
(***************************************************************************)
(* Small instances of NearRpc, with its history, for TLC.                  *)
(***************************************************************************)
EXTENDS NearRpcRotation, TLC

(* Endpoints in the order of NEAR_RPC_URLS: one heavy, two light.          *)
Pool3 == 1 .. 3
HeavyFirst == <<2, 1, 1>>
DrpcFirst == <<8, 1, 1>>

(* Request slots are interchangeable. *)
SlotSymmetry == Permutations(Requests)

===============================================================================
