------------------------------ MODULE NearIngest ------------------------------
(***************************************************************************)
(* The block collector (NearIngestService.runOnce): pick a window above    *)
(* the scanned checkpoint, walk its heights concurrently, retry the holes, *)
(* advance the checkpoints over the contiguous prefix, and get unstuck by  *)
(* writing unfetchable heights to the missing-ranges ledger.               *)
(*                                                                         *)
(* An action is what runOnce does between two awaits, so every other       *)
(* process, and a crash, can come between any two of them. Runs is the set *)
(* of run slots of the worker: one when the scheduler's lock is the only   *)
(* way in, two when the HTTP trigger, which does not take that lock,       *)
(* starts a run beside the scheduled one. All runs of the worker share     *)
(* mem, the service's in-memory fields.                                    *)
(***************************************************************************)
EXTENDS IndexerDb

CONSTANTS Runs,                \* concurrent calls of runOnce
          MaxBlocksPerRun,     \* NEAR_MAX_BLOCKS_PER_RUN
          HoleRetryRounds,     \* NEAR_HOLE_RETRY_ROUNDS
          WedgeSkipAfterRuns,  \* NEAR_WEDGE_SKIP_AFTER_RUNS
          SkipTargetLag,       \* NEAR_SKIP_TARGET_LAG_BLOCKS
          ForceResetLag        \* NEAR_FORCE_RESET_LAG_BLOCKS

ASSUME IngestAssumption ==
    /\ MaxBlocksPerRun \in Nat \ {0}
    /\ HoleRetryRounds \in Nat
    /\ WedgeSkipAfterRuns \in Nat \ {0}
    /\ SkipTargetLag \in Nat
    /\ ForceResetLag \in Nat

VARIABLES run,       \* run[r]: the local variables of run slot r
          mem,       \* the service's fields, shared by its runs, lost in a crash
          mart       \* the relayer mart (see MartType)

ingestVars == <<tip, ckpt, ledger, rows, absent, run, mem, mart>>

(* Where a run is: the await it is in.                                     *)
Steps == {"idle", "range", "resetFind", "resetInsert", "resetCkpt", "origin",
          "head", "walk", "wedgeFind", "wedgeInsert", "persist",
          "martRead", "martWrite"}

RunType ==
    [pc        : Steps,
     latest    : 0 .. MaxTip,       \* latestHeight
     start     : 0 .. MaxTip + 1,   \* startHeight
     target    : 0 .. MaxTip,       \* targetHeight
     newOrigin : 0 .. MaxTip + 1,   \* origin to write, NoRow for none
     todo      : SUBSET Heights,    \* heights of the current round in flight
     failed    : SUBSET Heights,    \* failedHeights of the current round
     gone      : SUBSET Heights,    \* heightErrors that are "missing everywhere"
     completed : SUBSET Heights,    \* completedHeights
     round     : Nat,               \* the hole-retry round
     top       : 0 .. MaxTip,       \* latestPersistedHeight; NoRow while no
                                    \* block, hence no sign event, is persisted
     goal      : 0 .. MaxTip]       \* end of the advance or skip being written

IdleRun == [pc |-> "idle", latest |-> 0, start |-> 0, target |-> 0,
            newOrigin |-> NoRow, todo |-> {}, failed |-> {}, gone |-> {},
            completed |-> {}, round |-> 0, top |-> NoRow, goal |-> 0]

(* The run in slot r goes on with the local variables new. *)
Becomes(r, new) == run' = [run EXCEPT ![r] = new]

(* wedgeStuckRuns is only ever compared with NEAR_WEDGE_SKIP_AFTER_RUNS,   *)
(* so it stops counting there. mem.elapsed: RELAYER_MART_REBUILD_MIN_      *)
(* INTERVAL_MS has passed since lastMartRebuildAtMs.                       *)
MemType == [originObserved : BOOLEAN,
            wedgeFrontier  : 0 .. MaxTip + 1,   \* NoRow stands for -1
            wedgeStuckRuns : 0 .. WedgeSkipAfterRuns,
            martDirty      : BOOLEAN,
            elapsed        : BOOLEAN]

FreshMem == [originObserved |-> FALSE, wedgeFrontier |-> NoRow,
             wedgeStuckRuns |-> 0, martDirty |-> FALSE, elapsed |-> TRUE]

MartType == [fresh   : BOOLEAN,       \* it reflects every indexed sign event
             current : SUBSET Runs]   \* runs whose aggregates, read but not yet
                                      \* written, do

TypeOK ==
    /\ DbTypeOK
    /\ run \in [Runs -> RunType]
    /\ mem \in MemType
    /\ mart \in MartType

Init ==
    /\ DbInit
    /\ run = [r \in Runs |-> IdleRun]
    /\ mem = FreshMem
    /\ mart = [fresh |-> TRUE, current |-> {}]

MinOf(a, b) == IF a <= b THEN a ELSE b
MaxOf(a, b) == IF a >= b THEN a ELSE b

(* Slip: advance to the last completed height, whatever is missing below.  *)
EndsAtLast(n, start, target, S) ==
    /\ n \in start - 1 .. MaxOf(target, start - 1)
    /\ n \in S \/ n = start - 1
    /\ \A m \in n + 1 .. target : m \notin S

(* n ends the unbroken prefix of start .. target that lies in S. *)
EndsPrefix(n, start, target, S) ==
    /\ n \in start - 1 .. MaxOf(target, start - 1)
    /\ start .. n \subseteq S
    /\ n < target => n + 1 \notin S

-------------------------------------------------------------------------------
(* Choosing what to do: head, range, force-reset.                          *)

FetchFinal(r) ==
    /\ run[r].pc = "idle"
    /\ \E l \in FinalBlocks :
          Becomes(r, [IdleRun EXCEPT !.pc = "range", !.latest = l])
    /\ UNCHANGED <<dbVars, mem, mart>>

(* Slip: the scanned checkpoint is not read.                               *)
StartOver == BackfillStart

(* computeRange. A scanned checkpoint with no row reads as Number("") = 0, *)
(* which is finite, so the height checkpoint it also reads is never used.  *)
StartHeight == MaxOf(ckpt.scanned + 1, BackfillStart)

TargetHeight(l) == MinOf(l, StartHeight + MaxBlocksPerRun - 1)

MustReset(l) ==
    /\ l - (StartHeight - 1) >= ForceResetLag
    /\ l - SkipTargetLag > StartHeight

ReadRangeReset(r) ==
    /\ run[r].pc = "range"
    /\ MustReset(run[r].latest)
    /\ Becomes(r, [run[r] EXCEPT !.pc    = "resetFind",
                                 !.start = StartHeight,
                                 !.goal  = run[r].latest - SkipTargetLag - 1])
    /\ UNCHANGED <<dbVars, mem, mart>>

ReadRangeWalk(r) ==
    /\ run[r].pc = "range"
    /\ ~MustReset(run[r].latest)
    /\ Becomes(r, [run[r] EXCEPT !.pc     = IF mem.originObserved THEN "head" ELSE "origin",
                                 !.start  = StartHeight,
                                 !.target = TargetHeight(run[r].latest)])
    /\ UNCHANGED <<dbVars, mem, mart>>

(* recordSkippedRange, first half: look the range up. *)
FindRange(r, from, found, missing) ==
    /\ run[r].pc = from
    /\ Becomes(r, [run[r] EXCEPT !.pc = IF HasRange(run[r].start, run[r].goal)
                                                 THEN found ELSE missing])
    /\ UNCHANGED <<dbVars, mem, mart>>

(* recordSkippedRange, second half: insert it. The unique index rejects a  *)
(* range another run inserted since the look-up, and runOnce gives up.     *)
InsertRange(r, from, next, reason) ==
    /\ run[r].pc = from
    /\ IF HasRange(run[r].start, run[r].goal)
       THEN /\ Becomes(r, IdleRun)
            /\ UNCHANGED ledger
       ELSE /\ ledger' = ledger \cup {[start  |-> run[r].start,
                                       end    |-> run[r].goal,
                                       reason |-> reason]}
            /\ Becomes(r, [run[r] EXCEPT !.pc = next])
    /\ UNCHANGED <<tip, ckpt, rows, absent, mem, mart>>

(* Slip: the reset goes ahead without its ledger entry.                    *)
ResetUnledgered(r) ==
    /\ run[r].pc = "resetFind"
    /\ Becomes(r, [run[r] EXCEPT !.pc = "resetCkpt"])
    /\ UNCHANGED <<dbVars, mem, mart>>

ResetFind(r) == FindRange(r, "resetFind", "resetCkpt", "resetInsert")
ResetInsert(r) == InsertRange(r, "resetInsert", "resetCkpt", "force-reset")

(* The force-reset's one upsert. It leaves the hash checkpoint alone. *)
ResetCheckpoints(r) ==
    /\ run[r].pc = "resetCkpt"
    /\ ckpt' = [ckpt EXCEPT !.scanned = run[r].goal,
                            !.height  = run[r].goal,
                            !.head    = run[r].latest]
    /\ Becomes(r, IdleRun)
    /\ UNCHANGED <<tip, ledger, rows, absent, mem, mart>>

(* Slip: every process start writes an origin.                             *)
ForgetOrigin(r) ==
    /\ run[r].pc = "origin"
    /\ Becomes(r, [run[r] EXCEPT !.pc = "head", !.newOrigin = run[r].start])
    /\ mem' = [mem EXCEPT !.originObserved = TRUE]
    /\ UNCHANGED <<dbVars, mart>>

(* Once per process: is there a backfill origin? The flag is set here,     *)
(* before the upsert that writes a missing origin has been made.           *)
ReadOrigin(r) ==
    /\ run[r].pc = "origin"
    /\ Becomes(r, [run[r] EXCEPT !.pc = "head",
                                 !.newOrigin = IF ckpt.origin = NoRow
                                                 THEN run[r].start ELSE NoRow])
    /\ mem' = [mem EXCEPT !.originObserved = TRUE]
    /\ UNCHANGED <<dbVars, mart>>

WriteHead(r) ==
    /\ run[r].pc = "head"
    /\ ckpt' = [ckpt EXCEPT !.head   = run[r].latest,
                            !.origin = IF run[r].newOrigin = NoRow
                                       THEN @ ELSE run[r].newOrigin]
    /\ Becomes(r, [run[r] EXCEPT !.pc = "walk",
                                 !.todo = run[r].start .. run[r].target])
    /\ UNCHANGED <<tip, ledger, rows, absent, mem, mart>>

-------------------------------------------------------------------------------
(* The walk: processBlockHeight for every height of the window, in any     *)
(* order. Its outcomes, one action each:                                   *)

InFlight(r, h) == run[r].pc = "walk" /\ h \in run[r].todo

(* New sign events put the mart, and every aggregate read but not yet      *)
(* written, out of date.                                                   *)
MartAfter(newEvents) ==
    IF newEvents THEN [fresh |-> FALSE, current |-> {}] ELSE mart

(* Every row of the block is inserted, or was already (orIgnore). *)
PersistBlock(r, h) ==
    /\ InFlight(r, h)
    /\ h \in Blocks \ Broken
    /\ rows' = [rows EXCEPT ![h] = Tables]
    /\ mart' = MartAfter(SignEvents \notin rows[h])
    /\ Becomes(r, [run[r] EXCEPT !.todo      = @ \ {h},
                                 !.completed = @ \cup {h},
                                 !.top       = MaxOf(@, h)])
    /\ UNCHANGED <<tip, ckpt, ledger, absent, mem>>

(* Enough endpoints say there is no such block: completed, with no row     *)
(* anywhere. The latest height is never asked for, its payload is at hand. *)
JudgeAbsent(r, h) ==
    /\ InFlight(r, h)
    /\ h # run[r].latest
    /\ absent' = absent \cup {h}
    /\ Becomes(r, [run[r] EXCEPT !.todo      = @ \ {h},
                                 !.completed = @ \cup {h}])
    /\ UNCHANGED <<tip, ckpt, ledger, rows, mem, mart>>

FailHeight(r, h, goneNow) ==
    /\ InFlight(r, h)
    /\ Becomes(r, [run[r] EXCEPT !.todo   = @ \ {h},
                                 !.failed = @ \cup {h},
                                 !.gone   = IF goneNow THEN @ \cup {h} ELSE @ \ {h}])

(* The block is there, but the endpoints agree that one of its chunks is   *)
(* unknown: a failure with an "unfetchable everywhere" error.              *)
ChunkGone(r, h) ==
    /\ h \in Blocks
    /\ FailHeight(r, h, TRUE)
    /\ UNCHANGED <<dbVars, mem, mart>>

(* Any other failure: rate limits, timeouts, a payload with no header. *)
FetchFails(r, h) ==
    /\ FailHeight(r, h, FALSE)
    /\ UNCHANGED <<dbVars, mem, mart>>

(* Slip: the error of a failed insert is swallowed.                        *)
InsertErrorSwallowed(r, h, made) ==
    /\ InFlight(r, h)
    /\ h \in Blocks \ Broken
    /\ Becomes(r, [run[r] EXCEPT !.todo = @ \ {h}, !.completed = @ \cup {h}])
    /\ rows' = [rows EXCEPT ![h] = @ \cup made]
    /\ mart' = MartAfter(SignEvents \in made \ rows[h])
    /\ UNCHANGED <<tip, ckpt, ledger, absent, mem>>

(* The three inserts are separate statements: when one fails, the others   *)
(* may have been made, and the height counts as failed.                    *)
InsertFails(r, h, made) ==
    /\ h \in Blocks \ Broken
    /\ FailHeight(r, h, FALSE)
    /\ rows' = [rows EXCEPT ![h] = @ \cup made]
    /\ mart' = MartAfter(SignEvents \in made \ rows[h])
    /\ UNCHANGED <<tip, ckpt, ledger, absent, mem>>

(* A hole-retry round takes on exactly what the last round failed. *)
RetryHoles(r) ==
    /\ run[r].pc = "walk"
    /\ run[r].todo = {}
    /\ run[r].failed # {}
    /\ run[r].round < HoleRetryRounds
    /\ Becomes(r, [run[r] EXCEPT !.todo   = run[r].failed,
                                 !.failed = {},
                                 !.round  = @ + 1])
    /\ UNCHANGED <<dbVars, mem, mart>>

-------------------------------------------------------------------------------
(* The end of the walk: advance, or count a stuck run and maybe skip.      *)

WalkDone(r) ==
    /\ run[r].pc = "walk"
    /\ run[r].todo = {}
    /\ run[r].failed = {} \/ run[r].round = HoleRetryRounds

(* Slip: only this run's own sign events make the mart dirty.              *)
EndRunForgetful(r, m) ==
    LET dirty == run[r].top # NoRow
    IN  /\ mem' = [m EXCEPT !.martDirty = dirty]
        /\ Becomes(r, IF dirty /\ m.elapsed THEN [IdleRun EXCEPT !.pc = "martRead"]
                                           ELSE IdleRun)

(* The tail of runOnce, in the same stretch as what precedes it: mark the  *)
(* mart dirty if this run persisted sign events, and rebuild it if the     *)
(* throttle allows.                                                        *)
EndRun(r, m) ==
    LET dirty == m.martDirty \/ run[r].top # NoRow
    IN  /\ mem' = [m EXCEPT !.martDirty = dirty]
        /\ Becomes(r, IF dirty /\ m.elapsed THEN [IdleRun EXCEPT !.pc = "martRead"]
                                           ELSE IdleRun)

Unwedged(m) == [m EXCEPT !.wedgeFrontier = NoRow, !.wedgeStuckRuns = 0]

(* Contiguous progress: the wedge counter starts over. *)
Progress(r) ==
    /\ WalkDone(r)
    /\ \E n \in run[r].start .. run[r].target :
          /\ EndsPrefix(n, run[r].start, run[r].target, run[r].completed)
          /\ Becomes(r, [run[r] EXCEPT !.pc = "persist", !.goal = n])
    /\ mem' = Unwedged(mem)
    /\ UNCHANGED <<dbVars, mart>>

(* The window was empty: nothing above the checkpoint yet. *)
NothingToDo(r) ==
    /\ WalkDone(r)
    /\ run[r].start > run[r].target
    /\ EndRun(r, mem)
    /\ UNCHANGED <<dbVars, mart>>

NoProgress(r) ==
    /\ WalkDone(r)
    /\ run[r].start \in run[r].failed

(* Slip: the count starts over with every stuck run.                       *)
StuckAfresh(r) == [mem EXCEPT !.wedgeFrontier = run[r].start, !.wedgeStuckRuns = 1]

(* The fields after one more run stuck at this run's first height. *)
StuckAgain(r) ==
    [mem EXCEPT !.wedgeFrontier  = run[r].start,
                !.wedgeStuckRuns = IF mem.wedgeFrontier = run[r].start
                                   THEN MinOf(mem.wedgeStuckRuns + 1, WedgeSkipAfterRuns)
                                   ELSE 1]

(* Slip: any failure is as good as an unfetchable one.                     *)
EndsFailures(r, w) == EndsPrefix(w, run[r].start, run[r].target, run[r].failed)

(* w ends the leading failed heights whose last error is "unfetchable". *)
EndsWedge(r, w) ==
    EndsPrefix(w, run[r].start, run[r].target, run[r].failed \cap run[r].gone)

(* Stuck, and not to be skipped: not yet stuck for long enough, or the     *)
(* first height failed for a reason that may pass.                         *)
Stuck(r) ==
    /\ NoProgress(r)
    /\ \/ StuckAgain(r).wedgeStuckRuns < WedgeSkipAfterRuns
       \/ run[r].start \notin run[r].gone
    /\ EndRun(r, StuckAgain(r))
    /\ UNCHANGED <<dbVars, mart>>

StuckLongEnough(r) ==
    /\ NoProgress(r)
    /\ StuckAgain(r).wedgeStuckRuns >= WedgeSkipAfterRuns
    /\ \E w \in run[r].start .. run[r].target :
          /\ EndsWedge(r, w)
          /\ Becomes(r, [run[r] EXCEPT !.pc = "wedgeFind", !.goal = w])
    /\ mem' = StuckAgain(r)
    /\ UNCHANGED <<dbVars, mart>>

(* Once the range is in the ledger its heights count as completed, the     *)
(* prefix is extended over them, and the wedge counter starts over.        *)
AfterWedge(r) ==
    LET skipped == run[r].completed \cup (run[r].start .. run[r].goal)
    IN  \E n \in run[r].start .. run[r].target :
          /\ EndsPrefix(n, run[r].start, run[r].target, skipped)
          /\ Becomes(r, [run[r] EXCEPT !.pc        = "persist",
                                       !.completed = skipped,
                                       !.failed    = @ \ (run[r].start .. run[r].goal),
                                       !.goal      = n])

WedgeFind(r) ==
    /\ run[r].pc = "wedgeFind"
    /\ IF HasRange(run[r].start, run[r].goal)
       THEN AfterWedge(r) /\ mem' = Unwedged(mem)
       ELSE Becomes(r, [run[r] EXCEPT !.pc = "wedgeInsert"]) /\ UNCHANGED mem
    /\ UNCHANGED <<dbVars, mart>>

WedgeInsert(r) ==
    /\ run[r].pc = "wedgeInsert"
    /\ IF HasRange(run[r].start, run[r].goal)
       THEN /\ Becomes(r, IdleRun)
            /\ UNCHANGED <<ledger, mem>>
       ELSE /\ ledger' = ledger \cup {[start  |-> run[r].start,
                                       end    |-> run[r].goal,
                                       reason |-> "wedged frontier"]}
            /\ AfterWedge(r)
            /\ mem' = Unwedged(mem)
    /\ UNCHANGED <<tip, ckpt, rows, absent, mart>>

(* Slip: the checkpoint goes to the end of the window.                     *)
PersistTarget(r) ==
    /\ run[r].pc = "persist"
    /\ ckpt' = [ckpt EXCEPT !.scanned = run[r].target, !.height = run[r].target]
    /\ EndRun(r, mem)
    /\ UNCHANGED <<tip, ledger, rows, absent, mart>>

(* persistRunCheckpoints, one upsert; the hash goes along only when the    *)
(* block it belongs to is the one the checkpoint stops at.                 *)
PersistCheckpoints(r) ==
    /\ run[r].pc = "persist"
    /\ ckpt' = [ckpt EXCEPT !.scanned = run[r].goal,
                            !.height  = run[r].goal,
                            !.hash    = IF run[r].top = run[r].goal
                                        THEN run[r].goal ELSE @]
    /\ EndRun(r, mem)
    /\ UNCHANGED <<tip, ledger, rows, absent, mart>>

(* relayerMarts.rebuild: read the aggregates, then replace the mart in one *)
(* transaction.                                                            *)
ReadMart(r) ==
    /\ run[r].pc = "martRead"
    /\ Becomes(r, [run[r] EXCEPT !.pc = "martWrite"])
    /\ mart' = [mart EXCEPT !.current = @ \cup {r}]
    /\ UNCHANGED <<dbVars, mem>>

WriteMart(r) ==
    /\ run[r].pc = "martWrite"
    /\ mart' = [fresh |-> r \in mart.current, current |-> mart.current \ {r}]
    /\ mem' = [mem EXCEPT !.elapsed = FALSE, !.martDirty = FALSE]
    /\ Becomes(r, IdleRun)
    /\ UNCHANGED dbVars

(* The rebuild throttle's interval passes. *)
ThrottleElapses ==
    /\ ~mem.elapsed
    /\ mem' = [mem EXCEPT !.elapsed = TRUE]
    /\ UNCHANGED <<dbVars, run, mart>>

-------------------------------------------------------------------------------
(* What goes wrong around a run.                                           *)

(* The statement or request a run waits for fails: runOnce returns status  *)
(* "error". (In the walk a failure belongs to a height, not to the run.)   *)
RunFails(r) ==
    /\ run[r].pc \notin {"idle", "walk"}
    /\ Becomes(r, IdleRun)
    /\ mart' = [mart EXCEPT !.current = @ \ {r}]
    /\ UNCHANGED <<dbVars, mem>>

(* The worker process dies and comes back: the tables keep what was        *)
(* committed, the runs and the service's fields are gone.                  *)
Crash ==
    /\ run' = [r \in Runs |-> IdleRun]
    /\ mem' = FreshMem
    /\ mart' = [mart EXCEPT !.current = {}]
    /\ UNCHANGED dbVars

-------------------------------------------------------------------------------

(* A run's own progress when endpoints and database answer. *)
RunStep(r) ==
    \/ FetchFinal(r)
    \/ ReadRangeReset(r) \/ ReadRangeWalk(r)
    \/ ResetFind(r) \/ ResetInsert(r) \/ ResetCheckpoints(r)
    \/ ReadOrigin(r) \/ WriteHead(r)
    \/ \E h \in Heights : PersistBlock(r, h)
    \/ \E h \in Heights \ Blocks : JudgeAbsent(r, h)
    \/ \E h \in Broken : ChunkGone(r, h)
    \/ RetryHoles(r)
    \/ Progress(r) \/ NothingToDo(r) \/ Stuck(r) \/ StuckLongEnough(r)
    \/ WedgeFind(r) \/ WedgeInsert(r) \/ PersistCheckpoints(r)
    \/ ReadMart(r) \/ WriteMart(r)

(* What an endpoint or the database can do to a run. A produced block can  *)
(* be judged absent: enough of the pool's endpoints may have pruned it.    *)
RunFault(r) ==
    \/ \E h \in Blocks : JudgeAbsent(r, h)
    \/ \E h \in Blocks \ Broken : ChunkGone(r, h)
    \/ \E h \in Heights : FetchFails(r, h)
    \/ \E h \in Heights, made \in SUBSET Tables : InsertFails(r, h, made)
    \/ RunFails(r)

ChainGrows == AdvanceTip /\ UNCHANGED <<run, mem, mart>>

Next ==
    \/ \E r \in Runs : RunStep(r) \/ RunFault(r)
    \/ ChainGrows
    \/ ThrottleElapses
    \/ Crash

Spec == Init /\ [][Next]_ingestVars

-------------------------------------------------------------------------------
(* Properties.                                                             *)

(* What a run's local variables say about the resolved heights S: it       *)
(* starts right above resolved ground, everything it counts as completed   *)
(* is resolved, and what it is about to write the checkpoint to is too.    *)
RunOK(x, S) ==
    /\ x.completed \subseteq S
    /\ x.pc \notin {"idle", "range", "martRead", "martWrite"} =>
          x.start >= BackfillStart /\ BackfillStart .. x.start - 1 \subseteq S
    /\ x.pc \in {"resetFind", "resetInsert", "resetCkpt", "wedgeFind", "wedgeInsert",
                 "persist"} => x.start <= x.goal
    /\ x.pc = "resetCkpt" => x.start .. x.goal \subseteq S
    /\ x.pc = "persist" => x.start .. x.goal \subseteq x.completed

(* The inductive invariant behind NoSilentGap: a run that is past its read *)
(* of the checkpoint carries the coverage that read saw, and adds to it    *)
(* only what is already durable, so when its write comes, however late,    *)
(* it writes a covered height.                                             *)
CoverageInv ==
    /\ TypeOK
    /\ Covered(ckpt.scanned)
    /\ ckpt.scanned # NoRow => ckpt.scanned >= BackfillStart
    /\ \A r \in Runs : RunOK(run[r], Resolved)

Coverage == INSTANCE CoverageLedger WITH resolved <- Resolved,
                                         frontier <- Frontier

(* Whatever runs overlap and whatever fails, ingestion implements the      *)
(* abstract ledger: each write of the scanned checkpoint lands on a height *)
(* with nothing unresolved below, and nothing resolved is ever undone.     *)
CoverageRefinement == Coverage!Spec

(* With a single run at a time the checkpoint also never moves back, not   *)
(* even across a crash or a force-reset.                                   *)
MonotoneRefinement == Coverage!MonotoneSpec

(* The wedge skip only gives up on heights whose last attempt, in the run  *)
(* that gives up on them, ended in "unfetchable everywhere": a height that *)
(* fails on rate limits or timeouts is retried, never ledgered             *)
(* (NEAR_WEDGE_SKIP_AFTER_RUNS's comment).                                 *)
WedgeSkipsOnlyUnfetchable ==
    [][\A g \in ledger' \ ledger :
          g.reason = "wedged frontier" =>
             \E r \in Runs : g.start .. g.end \subseteq run[r].failed \cap run[r].gone
      ]_ingestVars

(* A backfill origin, once written, is never replaced: the dashboard       *)
(* measures indexing progress from it.                                     *)
OriginIsStable == [][ckpt.origin # NoRow => ckpt'.origin = ckpt.origin]_ingestVars

(* A force-reset stands: no later write moves the checkpoint back below    *)
(* the range it gave up. runOnce's comment has it that the reset "runs     *)
(* under this task's own re-entrancy lock, so there is no race with the    *)
(* checkpoint writes below".                                               *)
ForceResetStands ==
    [][\A g \in ledger :
          g.reason = "force-reset" /\ ckpt.scanned >= g.end => ckpt'.scanned >= g.end
      ]_ingestVars

===============================================================================
