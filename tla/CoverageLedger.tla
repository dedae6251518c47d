---------------------------- MODULE CoverageLedger ----------------------------
(***************************************************************************)
(* What block ingestion promises, with no word about how: there is a       *)
(* frontier (the scanned-height checkpoint) and a set of resolved heights  *)
(* (indexed, judged absent, or written to the missing-ranges ledger), and  *)
(* the frontier only ever rests on a height below which everything is      *)
(* resolved.                                                               *)
(*                                                                         *)
(* Spec lets the frontier move either way, which is all that overlapping   *)
(* writers can promise; MonotoneSpec also promises that it never falls.    *)
(***************************************************************************)
EXTENDS Integers

CONSTANTS BackfillStart,  \* the lowest height ingestion is responsible for
          MaxTip          \* the highest height of a behaviour (a bound)

VARIABLES resolved,       \* the heights nobody has to come back for
          frontier        \* the last height ingestion claims to have passed

vars == <<resolved, frontier>>

Heights == BackfillStart .. MaxTip

Init ==
    /\ resolved = {}
    /\ frontier = BackfillStart - 1

(* Heights get resolved, and a resolved height stays resolved. *)
Resolve ==
    /\ resolved' \in SUBSET Heights
    /\ resolved \subseteq resolved'
    /\ UNCHANGED frontier

(* The frontier moves to a height with nothing unresolved at or below it. *)
Move ==
    /\ frontier' \in Heights
    /\ BackfillStart .. frontier' \subseteq resolved
    /\ UNCHANGED resolved

Advance ==
    /\ frontier' > frontier
    /\ Move

Spec == Init /\ [][Resolve \/ Move]_vars

MonotoneSpec == Init /\ [][Resolve \/ Advance]_vars

-------------------------------------------------------------------------------

(* Nothing at or below the frontier is unresolved: the promise itself. *)
NoGap == BackfillStart .. frontier \subseteq resolved

===============================================================================
