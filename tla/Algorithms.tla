------------------------------- MODULE Algorithms -----------------------------
(***************************************************************************)
(* The algorithms that keep no state, each with what it promises of an     *)
(* input: the outcome classifiers, the payload decoder, the pricing of a   *)
(* transaction, and the progress of a range of missing blocks. `focus`     *)
(* says which one is evaluated and `input` on what; neither ever changes.  *)
(***************************************************************************)
EXTENDS TxOutcome, SignPayload, Pricing, MissingRanges

VARIABLES
    focus,  \* what is evaluated
    input   \* what it is evaluated on

(* An evaluation of the algorithm called name on one of the inputs. *)
Evaluates(name, inputs) ==
    focus = name /\ input \in inputs /\ [][FALSE]_<<focus, input>>

(* OutcomesAsDocumented on every status. *)
VerdictsAsDocumented == focus = "outcome" => OutcomesAsDocumented(input)

(* DecodesWhatIsEncoded on every message. *)
PayloadsDecode == focus = "payload" => DecodesWhatIsEncoded(input)

(* PricesAgree on every registry and transaction. *)
ValuesAgree == focus = "prices" => PricesAgree(input.tokens, input.actions, input.receiver)

(* RangesAgree on every range. *)
ProcessedIsExact == focus = "ranges" => RangesAgree(input)
===============================================================================
