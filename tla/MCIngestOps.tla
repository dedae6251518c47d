------------------------------ MODULE MCIngestOps -----------------------------
(***************************************************************************)
(* Small instances of IngestOps for TLC, and the histories its bounds need. *)
(***************************************************************************)
EXTENDS IngestOps

CONSTANTS MaxCrashes,   \* bound: restarts of the worker
          MaxCommands   \* bound: commands the operator gives

(* The range a skip-forward from the first height records, too. *)
OneEntry == {[start |-> 3, end |-> 3]}

VARIABLES crashes, commands

mcVars == <<opsVars, crashes, commands>>

(* What an earlier life of the worker left: nothing, or the first height   *)
(* indexed by an ordinary run (then a restart costs no crash).             *)
EarlierLife ==
    \/ DbInit
    \/ /\ tip \in Blocks
       /\ BackfillStart \in Blocks
       /\ ckpt = [scanned |-> BackfillStart, height |-> BackfillStart,
                  hash |-> BackfillStart, head |-> BackfillStart,
                  origin |-> BackfillStart]
       /\ rows = [h \in Heights |-> IF h = BackfillStart THEN Tables ELSE {}]
       /\ absent = {}
       /\ ledger = {}

MCInit ==
    /\ EarlierLife
    /\ run = [r \in Runs |-> IdleRun]
    /\ mem = FreshMem
    /\ mart = [fresh |-> TRUE, current |-> {}]
    /\ skip = [p \in Skippers |-> IF p = Guard THEN Booting ELSE IdleSkip]
    /\ up = FALSE
    /\ seed = IdleSeed
    /\ crashes = 0
    /\ commands = 0

(* Bound: the worker dies while it boots, the guard's writes half made.     *)
(* (MCNearIngest has the crashes of a worker that is up.)                  *)
CrashWindow == ~up

MCNext ==
    \/ /\ WorkerBoots \/ WorkerRuns \/ GuardSteps \/ CommandSteps \/ CommandDies
          \/ SeedSteps \/ SeedDies \/ Around
       /\ UNCHANGED <<crashes, commands>>
    \/ /\ CommandStarts \/ SeedStarts
       /\ commands < MaxCommands
       /\ commands' = commands + 1
       /\ UNCHANGED crashes
    \/ /\ WorkerCrashes
       /\ crashes < MaxCrashes
       /\ CrashWindow
       /\ crashes' = crashes + 1
       /\ UNCHANGED commands

MCSpec == MCInit /\ [][MCNext]_mcVars

===============================================================================
