------------------------------- MODULE IndexerDb ------------------------------
(***************************************************************************)
(* The durable state the block-ingestion writers share: the checkpoint     *)
(* rows, the missing-ranges ledger and the rows of the three indexed       *)
(* tables, and, outside the program, the chain whose heights they cover.   *)
(* Every process of the system (the worker's ingest runs, the boot guard,  *)
(* the operator's command line) reads and writes these and nothing else of *)
(* each other.                                                             *)
(***************************************************************************)
EXTENDS Integers

CONSTANTS BackfillStart,  \* NEAR_BACKFILL_START_HEIGHT
          MaxTip,         \* bound: the chain's head never passes this height
          Blocks,         \* the heights at which the chain produced a block
          Broken,         \* blocks one of whose chunks no endpoint serves
          Tables,         \* the tables a block's rows are inserted into
          NodeLag         \* how far an RPC node's final block may trail

(* The table the relayer mart aggregates. *)
SignEvents == "sign_events"

ASSUME ChainAssumption ==
    /\ BackfillStart \in Nat \ {0}
    /\ MaxTip \in Nat
    /\ BackfillStart <= MaxTip
    /\ Blocks \subseteq BackfillStart .. MaxTip
    /\ Broken \subseteq Blocks
    /\ SignEvents \in Tables
    /\ NodeLag \in Nat

VARIABLES tip,     \* the chain's latest final block (external)
          ckpt,    \* indexer_checkpoints
          ledger,  \* missing_block_ranges
          rows,    \* rows[h]: the tables that hold height h's rows
          absent   \* history: heights completed as "no such block" (no row is
                   \* written for them, so no table remembers the verdict)

dbVars == <<tip, ckpt, ledger, rows, absent>>

Heights == BackfillStart .. MaxTip

(* A checkpoint key with no row. No height is 0.                           *)
NoRow == 0

Reasons == {"force-reset", "wedged frontier", "skip-forward", "legacy"}

(* Keys of indexer_checkpoints. "hash" holds the height of the block whose *)
(* hash is stored. near_chain_head_hash is written wherever head is.       *)
CkptType == [scanned  : 0 .. MaxTip,       \* near_last_scanned_height
             height   : 0 .. MaxTip,       \* near_last_final_block_height
             hash     : 0 .. MaxTip,       \* near_last_final_block_hash
             head     : 0 .. MaxTip,       \* near_chain_head_height
             origin   : 0 .. MaxTip + 1]   \* near_backfill_start_origin

RangeType == [start : Nat, end : Nat, reason : Reasons]

DbTypeOK ==
    /\ tip \in Blocks
    /\ ckpt \in CkptType
    /\ ledger \subseteq RangeType
    /\ rows \in [Heights -> SUBSET Tables]
    /\ absent \subseteq Heights

DbInit ==
    /\ tip \in Blocks
    /\ ckpt = [scanned |-> NoRow, height |-> NoRow, hash |-> NoRow,
               head |-> NoRow, origin |-> NoRow]
    /\ ledger = {}
    /\ rows = [h \in Heights |-> {}]
    /\ absent = {}

(* The chain finalises its next block. *)
AdvanceTip ==
    /\ \E b \in Blocks :
          /\ b > tip
          /\ \A c \in Blocks : c > tip => b <= c
          /\ tip' = b
    /\ UNCHANGED <<ckpt, ledger, rows, absent>>

(* What fetchFinalBlock may answer: the final block of whichever node the  *)
(* pool picked, which trails the chain's by NodeLag at most.               *)
FinalBlocks == {b \in Blocks : b <= tip /\ tip <= b + NodeLag}

-------------------------------------------------------------------------------

Indexed(h) == rows[h] = Tables

Ledgered(h) == \E g \in ledger : g.start <= h /\ h <= g.end

(* Slip: a range that starts there is taken for the range looked for.      *)
HasRangeFrom(s, e) == e >= s /\ \E g \in ledger : g.start = s

(* A range with these ends is in the ledger: (start, end) is its unique key. *)
HasRange(s, e) == \E g \in ledger : g.start = s /\ g.end = e

(* The heights nobody has to come back for. *)
Resolved == {h \in Heights : Indexed(h) \/ h \in absent \/ Ledgered(h)}

(* Everything the backfill is responsible for up to height n is resolved.  *)
Covered(n) == BackfillStart .. n \subseteq Resolved

(* The scanned checkpoint as a frontier: before its first write, just      *)
(* below the first height of the backfill.                                 *)
Frontier == IF ckpt.scanned = NoRow THEN BackfillStart - 1 ELSE ckpt.scanned

-------------------------------------------------------------------------------

(* No height is silently lost: whoever moved the scanned checkpoint, and   *)
(* whatever failed on the way, each height at or below it is indexed in    *)
(* full, was reported absent, or is in the missing-ranges ledger for a     *)
(* later archival backfill. Ingestion never looks below the checkpoint     *)
(* again, so a height that is none of these is gone for good.              *)
NoSilentGap == Covered(ckpt.scanned)

===============================================================================
