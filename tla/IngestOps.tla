------------------------------- MODULE IngestOps ------------------------------
(***************************************************************************)
(* The worker and the operator's commands over the same tables: the worker *)
(* boots through the skip guard (BootSkipGuardService) before its crons    *)
(* and its HTTP port open, then runs block ingestion, while the command    *)
(* line may skip forward, or seed the ledger from a file, at any time.     *)
(***************************************************************************)
EXTENDS NearIngest, SkipForward

CONSTANT SeedFile  \* the ranges of data/missing-block-ranges.json

ASSUME SeedAssumption == SeedFile \subseteq [start : Nat, end : Nat]

VARIABLES up,    \* the worker has booted: crons are mounted, the port is open
          seed   \* the seed command: entries it has yet to deal with, and the
                 \* one it did not find and is going to insert

opsVars == <<ingestVars, skip, up, seed>>

IdleSeed == [todo |-> {}, missing |-> {}]
SeedTypeOK == seed \in [todo : SUBSET SeedFile, missing : SUBSET SeedFile]

(* onModuleInit of the boot guard starts with the worker process. *)
Booting == [IdleSkip EXCEPT !.pc = "guardScanned"]

OpsInit ==
    /\ Init
    /\ skip = [p \in Skippers |-> IF p = Guard THEN Booting ELSE IdleSkip]
    /\ up = FALSE
    /\ seed = IdleSeed

(* The guard never keeps the worker from booting: whatever it returns or   *)
(* throws, onModuleInit returns, and Nest goes on to mount the crons.      *)
WorkerBoots ==
    /\ ~up
    /\ Returned(Guard)
    /\ up' = TRUE
    /\ UNCHANGED <<ingestVars, skip, seed>>

WorkerRuns ==
    /\ up
    /\ \E r \in Runs : RunStep(r) \/ RunFault(r)
    /\ UNCHANGED <<skip, up, seed>>

Commands == Skippers \ {Guard}

GuardSteps ==
    /\ SkipNext(Guard)
    /\ UNCHANGED <<run, mem, mart, up, seed>>

CommandStarts ==
    /\ \E p \in Commands : SkipStart(p)
    /\ UNCHANGED <<run, mem, mart, up, seed>>

CommandSteps ==
    /\ \E p \in Commands : SkipNext(p)
    /\ UNCHANGED <<run, mem, mart, up, seed>>

(* The worker dies, with the guard's unfinished statements, and restarts.  *)
WorkerCrashes ==
    /\ Crash
    /\ skip' = [skip EXCEPT ![Guard] = Booting]
    /\ up' = FALSE
    /\ UNCHANGED seed

CommandDies ==
    /\ \E p \in Commands : skip[p].pc # "done" /\ SkipDies(p)
    /\ UNCHANGED <<ingestVars, up, seed>>

-------------------------------------------------------------------------------
(* SeedMissingRangesService.seed: each entry is looked up, then inserted, *)
(* one after the other; here in any order, not only that of the file.     *)

SeedStarts ==
    /\ seed = IdleSeed
    /\ seed' = [seed EXCEPT !.todo = SeedFile]
    /\ UNCHANGED <<ingestVars, skip, up>>

(* An entry whose ends are in the ledger is left as it is. *)
SeedFinds(g) ==
    /\ seed.missing = {} /\ g \in seed.todo
    /\ seed' = [todo    |-> seed.todo \ {g},
                missing |-> IF HasRange(g.start, g.end) THEN {} ELSE {g}]
    /\ UNCHANGED <<ingestVars, skip, up>>

(* The unique index rejects a range that appeared since, and seed throws. *)
SeedInserts(g) ==
    /\ g \in seed.missing
    /\ IF HasRange(g.start, g.end)
       THEN seed' = IdleSeed /\ UNCHANGED ledger
       ELSE /\ ledger' = ledger \cup {[start |-> g.start, end |-> g.end, reason |-> "legacy"]}
            /\ seed' = [seed EXCEPT !.missing = {}]
    /\ UNCHANGED <<tip, ckpt, rows, absent, run, mem, mart, skip, up>>

(* A statement fails, or the command is interrupted. *)
SeedDies ==
    /\ seed # IdleSeed
    /\ seed' = IdleSeed
    /\ UNCHANGED <<ingestVars, skip, up>>

SeedSteps == \E g \in SeedFile : SeedFinds(g) \/ SeedInserts(g)

Around == (ChainGrows \/ ThrottleElapses) /\ UNCHANGED <<skip, up, seed>>

OpsNext ==
    \/ WorkerBoots
    \/ WorkerRuns
    \/ WorkerCrashes
    \/ GuardSteps
    \/ CommandStarts \/ CommandSteps \/ CommandDies
    \/ SeedStarts \/ SeedSteps \/ SeedDies
    \/ Around

OpsSpec == OpsInit /\ [][OpsNext]_opsVars

-------------------------------------------------------------------------------
(* Properties. *)

(* What a skip's local variables say about the resolved heights S. *)
SkipOK(x, S) ==
    /\ x.pc \in {"guardFinal", "guardProbe", "final", "find", "insert", "hash", "write"} =>
          x.seen >= BackfillStart
    /\ x.pc \in {"final", "find", "insert"} => BackfillStart .. x.seen \subseteq S
    /\ x.pc \in {"find", "insert"} => x.seen < x.goal
    /\ x.pc \in {"hash", "write"} => x.goal >= BackfillStart /\ BackfillStart .. x.goal \subseteq S
    /\ x.failed => x.pc = "write"

(* The inductive invariant of the composition: ingestion's, and the same   *)
(* kind of knowledge in the skips. A skip that is overtaken by the worker, *)
(* or dies half-way through its checkpoint writes, still only ever writes  *)
(* a covered height.                                                       *)
OpsInv ==
    /\ CoverageInv
    /\ SkipTypeOK
    /\ SeedTypeOK
    /\ up \in BOOLEAN
    /\ \A p \in Skippers : SkipOK(skip[p], Resolved)

(* The step half of CoverageRefinement, which says something of an earlier *)
(* life's tables too: no skip, seed or run undoes a resolved height or     *)
(* moves the checkpoint onto uncovered ground (SkipForwardService.run).    *)
CoverageSteps == [][Coverage!Resolve \/ Coverage!Move]_(Coverage!vars)

(* The scanned checkpoint never moves back. The boot guard is there to     *)
(* have this: it "completes before" the first tick, "otherwise a           *)
(* near-ingest tick could fire mid-skip and write the old stranded         *)
(* checkpoint back" (boot-skip-guard.service.ts).                          *)
ScannedNeverRegresses == [][ckpt'.scanned >= ckpt.scanned]_opsVars

===============================================================================
