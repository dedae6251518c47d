------------------------------ MODULE SkipForward -----------------------------
(***************************************************************************)
(* Skip-forward (SkipForwardService): write the range between the scanned  *)
(* checkpoint and a target below the tip to the missing-ranges ledger, and *)
(* move the checkpoints past it. Two processes run it: the worker's boot   *)
(* guard (autoSkipIfStranded, then run), before the worker does anything   *)
(* else, and the operator's command line (run alone), at any time.         *)
(*                                                                         *)
(* As in NearIngest an action is what lies between two awaits. Unlike the  *)
(* ingest run, which writes its checkpoints in one upsert, run issues one  *)
(* statement per key and waits for all of them.                            *)
(***************************************************************************)
EXTENDS IndexerDb

CONSTANTS Skippers,  \* the processes that may run skip-forward
          Guard,     \* the boot guard, one of them
          SkipLag,   \* hoursBack, as a number of blocks
          MaxLag     \* maxLagHours, as a number of blocks

ASSUME SkipAssumption ==
    /\ Guard \in Skippers
    /\ SkipLag \in Nat
    /\ MaxLag \in Nat

VARIABLE skip        \* skip[p]: the local variables of process p

(* The keys run writes. (near_chain_head_hash, a fifth, is not modelled.)  *)
SkipKeys == {"scanned", "height", "head", "hash"}

SkipSteps == {"done", "guardScanned", "guardFinal", "guardProbe",
              "scanned", "final", "find", "insert", "hash", "write"}

SkipType ==
    [pc     : SkipSteps,
     seen   : 0 .. MaxTip,        \* currentScannedHeight
     latest : 0 .. MaxTip,        \* latestHeight
     goal   : 0 .. MaxTip,        \* newScanned = gapEnd
     known  : BOOLEAN,            \* newScannedHash was fetched
     todo   : SUBSET SkipKeys,    \* checkpoint writes under way
     failed : BOOLEAN]            \* one of them has failed

IdleSkip == [pc |-> "done", seen |-> 0, latest |-> 0, goal |-> 0,
             known |-> FALSE, todo |-> {}, failed |-> FALSE]

SkipTypeOK == skip \in [Skippers -> SkipType]

(* Process p goes on with the local variables new. *)
Turns(p, new) == skip' = [skip EXCEPT ![p] = new]

(* Process p returns, or throws: its caller logs and goes on either way.   *)
Returns(p) == Turns(p, IdleSkip)

-------------------------------------------------------------------------------
(* autoSkipIfStranded: should the boot guard skip at all? *)

GuardReadScanned(p) ==
    /\ skip[p].pc = "guardScanned"
    /\ IF ckpt.scanned = NoRow
       THEN Returns(p)
       ELSE Turns(p, [skip[p] EXCEPT !.pc = "guardFinal", !.seen = ckpt.scanned])
    /\ UNCHANGED dbVars

(* Within the target window nothing is wrong; past MaxLag the free pool    *)
(* has no hope; in between it depends on the next height.                  *)
GuardFetchFinal(p) ==
    /\ skip[p].pc = "guardFinal"
    /\ \E l \in FinalBlocks :
          LET lag == l - skip[p].seen
          IN  \/ lag < SkipLag /\ Returns(p)
              \/ lag >= SkipLag /\ lag < MaxLag /\ Turns(p, [skip[p] EXCEPT !.pc = "guardProbe"])
              \/ lag >= MaxLag /\ lag >= SkipLag /\ Turns(p, [skip[p] EXCEPT !.pc = "scanned"])
    /\ UNCHANGED dbVars

(* The next height is reported missing (a chain may also have produced no  *)
(* block there), or it is served, or the answer is ambiguous.              *)
GuardProbe(p) ==
    /\ skip[p].pc = "guardProbe"
    /\ \/ Turns(p, [skip[p] EXCEPT !.pc = "scanned"])
       \/ Returns(p)
    /\ UNCHANGED dbVars

-------------------------------------------------------------------------------
(* run(confirm = true). It reads the checkpoint and the head afresh. *)

SkipReadScanned(p) ==
    /\ skip[p].pc = "scanned"
    /\ IF ckpt.scanned = NoRow
       THEN Returns(p)
       ELSE Turns(p, [skip[p] EXCEPT !.pc = "final", !.seen = ckpt.scanned])
    /\ UNCHANGED dbVars

(* Nothing to skip when the gap is empty. *)
SkipFetchFinal(p) ==
    /\ skip[p].pc = "final"
    /\ \E l \in FinalBlocks :
          LET gapEnd == l - SkipLag - 1
          IN  IF gapEnd > skip[p].seen
              THEN Turns(p, [skip[p] EXCEPT !.pc = "find", !.latest = l, !.goal = gapEnd])
              ELSE Returns(p)
    /\ UNCHANGED dbVars

(* Slip: on to the checkpoints without the ledger entry.                   *)
SkipUnledgered(p) ==
    /\ skip[p].pc = "find"
    /\ Turns(p, [skip[p] EXCEPT !.pc = "hash"])
    /\ UNCHANGED dbVars

SkipFind(p) ==
    /\ skip[p].pc = "find"
    /\ Turns(p, [skip[p] EXCEPT !.pc = IF HasRange(skip[p].seen + 1, skip[p].goal)
                                       THEN "hash" ELSE "insert"])
    /\ UNCHANGED dbVars

(* Slip: the range starts one height late.                                 *)
SkipInsertLate(p) ==
    /\ skip[p].pc = "insert"
    /\ ledger' = ledger \cup {[start  |-> skip[p].seen + 2,
                               end    |-> skip[p].goal,
                               reason |-> "skip-forward"]}
    /\ Turns(p, [skip[p] EXCEPT !.pc = "hash"])
    /\ UNCHANGED <<tip, ckpt, rows, absent>>

(* The unique index rejects a range that appeared since the look-up.       *)
SkipInsert(p) ==
    /\ skip[p].pc = "insert"
    /\ IF HasRange(skip[p].seen + 1, skip[p].goal)
       THEN Returns(p) /\ UNCHANGED ledger
       ELSE /\ ledger' = ledger \cup {[start  |-> skip[p].seen + 1,
                                       end    |-> skip[p].goal,
                                       reason |-> "skip-forward"]}
            /\ Turns(p, [skip[p] EXCEPT !.pc = "hash"])
    /\ UNCHANGED <<tip, ckpt, rows, absent>>

(* The hash of the block at the new checkpoint, if an endpoint serves it.  *)
SkipFetchHash(p) ==
    /\ skip[p].pc = "hash"
    /\ \E known \in {skip[p].goal \in Blocks, FALSE} :
          Turns(p, [skip[p] EXCEPT !.pc = "write", !.known = known, !.todo = SkipKeys])
    /\ UNCHANGED dbVars

(* Slip: scanned is moved to the head instead of the end of the gap.       *)
CkptAtHead(p, key) ==
    IF key = "scanned" THEN [ckpt EXCEPT !.scanned = skip[p].latest] ELSE ckpt

(* What the write of key leaves in the table; deleting the hash leaves     *)
(* no row.                                                                 *)
CkptWith(p, key) ==
    CASE key = "scanned"   -> [ckpt EXCEPT !.scanned = skip[p].goal]
      [] key = "height"    -> [ckpt EXCEPT !.height = skip[p].goal]
      [] key = "head"      -> [ckpt EXCEPT !.head = skip[p].latest]
      [] key = "hash"      -> [ckpt EXCEPT !.hash = IF skip[p].known
                                                    THEN skip[p].goal ELSE NoRow]

SkipWrite(p, key) ==
    /\ skip[p].pc = "write"
    /\ key \in skip[p].todo
    /\ ckpt' = CkptWith(p, key)
    /\ Turns(p, [skip[p] EXCEPT !.todo = @ \ {key}])
    /\ UNCHANGED <<tip, ledger, rows, absent>>

(* One statement fails. Promise.all rejects at once, so run returns; the   *)
(* other statements were issued with it and go on by themselves.           *)
SkipWriteFails(p, key) ==
    /\ skip[p].pc = "write"
    /\ key \in skip[p].todo
    /\ Turns(p, [skip[p] EXCEPT !.todo = @ \ {key}, !.failed = TRUE])
    /\ UNCHANGED dbVars

SkipDone(p) ==
    /\ skip[p].pc = "write"
    /\ skip[p].todo = {}
    /\ Returns(p)
    /\ UNCHANGED dbVars

(* The caller of run, or of the guard, has control again. *)
Returned(p) == skip[p].pc = "done" \/ skip[p].failed

-------------------------------------------------------------------------------

(* The operator starts the command. (Without --confirm it writes nothing.) *)
SkipStart(p) ==
    /\ skip[p].pc = "done"
    /\ Turns(p, [IdleSkip EXCEPT !.pc = "scanned"])
    /\ UNCHANGED dbVars

(* The request or statement process p waits for fails.                     *)
SkipFails(p) ==
    /\ skip[p].pc \notin {"done", "write"}
    /\ Returns(p)
    /\ UNCHANGED dbVars

SkipNext(p) ==
    \/ GuardReadScanned(p) \/ GuardFetchFinal(p) \/ GuardProbe(p)
    \/ SkipReadScanned(p) \/ SkipFetchFinal(p) \/ SkipFind(p) \/ SkipInsert(p)
    \/ SkipFetchHash(p)
    \/ \E key \in SkipKeys : SkipWrite(p, key) \/ SkipWriteFails(p, key)
    \/ SkipDone(p) \/ SkipFails(p)

(* Process p dies: only what it committed remains.                         *)
SkipDies(p) == skip' = [skip EXCEPT ![p] = IdleSkip]

===============================================================================
