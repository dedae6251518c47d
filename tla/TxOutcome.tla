------------------------------- MODULE TxOutcome ------------------------------
(***************************************************************************)
(* What the health collectors make of a transaction's status: classifyTx   *)
(* with its five outcomes and classifyTxGeneric with its three. A status   *)
(* is a record: receipts, a sequence of who executed a receipt with its    *)
(* status, and conversion, the status of the step from the transaction to  *)
(* its first receipt.                                                      *)
(***************************************************************************)
EXTENDS Sequences, SequencesExt

CONSTANTS MpcContracts,  \* mpcContractSet
          Nobody         \* no executor: null

ASSUME OutcomeAssumption == Nobody \notin MpcContracts

(* isFailureStatus: the variant's name says so, whatever its payload. *)
IsFailureStatus(status) == status \in {"Failure"}

(* Slip: the last failing receipt is kept, not the first. *)
LastFailing(walked, receipt) ==
    IF IsFailureStatus(receipt.status) THEN receipt.executor ELSE walked.failing

FirstFailing(walked, receipt) ==
    IF walked.failing = Nobody /\ IsFailureStatus(receipt.status)
    THEN receipt.executor ELSE walked.failing

(* One pass over the receipts. *)
Walk(receipts) ==
    FoldLeft(LAMBDA walked, receipt :
                 [reachedMpc |-> walked.reachedMpc \/ receipt.executor \in MpcContracts,
                  failing    |-> FirstFailing(walked, receipt)],
             [reachedMpc |-> FALSE, failing |-> Nobody], receipts)

FastAuthOutcome(status) ==
    LET walked == Walk(status.receipts)
    IN  CASE walked.failing = Nobody /\ ~IsFailureStatus(status.conversion) -> "success"
          [] walked.failing \in MpcContracts -> "mpc_failure"
          [] walked.failing \notin MpcContracts \union {Nobody} /\ walked.reachedMpc -> "other_failure"
          [] OTHER -> "guard_failure"

GenericOutcome(status) ==
    IF Walk(status.receipts).failing = Nobody /\ ~IsFailureStatus(status.conversion)
    THEN "success" ELSE "failure"

FastAuthVerdicts == {"success", "guard_failure", "mpc_failure", "other_failure"}
GenericVerdicts == {"success", "failure"}

-------------------------------------------------------------------------------
(* The comment above classifyTx, read as a definition: the failing receipt   *)
(* is the earliest one; its executor decides between the MPC contract and    *)
(* the rest; of the rest, only a transaction that got to the MPC contract is  *)
(* not the guard's failure.                                                  *)
Failing(status) == {i \in DOMAIN status.receipts : IsFailureStatus(status.receipts[i].status)}
FailsFirstAtMpc(status) ==
    \E i \in Failing(status) : /\ \A j \in Failing(status) : i <= j
                               /\ status.receipts[i].executor \in MpcContracts
GotToMpc(status) == \E i \in DOMAIN status.receipts : status.receipts[i].executor \in MpcContracts
Clean(status) == Failing(status) = {} /\ ~IsFailureStatus(status.conversion)

(* Both classifiers call the same transactions successful, and the split of  *)
(* the failures is the one the comment describes.                            *)
OutcomesAsDocumented(status) ==
    LET outcome == FastAuthOutcome(status)
    IN  /\ (outcome = "success") <=> Clean(status)
        /\ (GenericOutcome(status) = "success") <=> Clean(status)
        /\ (outcome = "mpc_failure") <=> FailsFirstAtMpc(status)
        /\ (outcome = "other_failure") <=>
              (Failing(status) # {} /\ ~FailsFirstAtMpc(status) /\ GotToMpc(status))
        /\ (outcome = "guard_failure") <=>
              (~Clean(status) /\ ~FailsFirstAtMpc(status)
                /\ (Failing(status) = {} \/ ~GotToMpc(status)))
===============================================================================
