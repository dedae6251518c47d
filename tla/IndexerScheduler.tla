--------------------------- MODULE IndexerScheduler ---------------------------
(***************************************************************************)
(* How the worker starts its five tasks (IndexerSchedulerService): a cron  *)
(* tick per task, a gate that holds the siblings of near-ingest back while *)
(* it is far behind, a lock per task and a cap on the tasks in flight;     *)
(* and, past all of these, the HTTP trigger (IndexerTriggerController).    *)
(*                                                                         *)
(* A task's run is opaque here: it is in flight, then it ends (NearIngest  *)
(* has what near-ingest does in between). The gate awaits two reads of the *)
(* checkpoint table; from its answer to the start of the run nothing else  *)
(* of the process comes between.                                           *)
(***************************************************************************)
EXTENDS Integers, FiniteSets

CONSTANTS Tasks,     \* the scheduler's tasks
          Ingest,    \* near-ingest, one of them
          Ticks,     \* cron invocations that may be pending at the same time
          TaskOf,    \* TaskOf[k]: the task invocation slot k is for
          Calls,     \* concurrent calls of the HTTP trigger
          Cap,       \* MAX_INFLIGHT_TASKS
          GateLag,   \* CATCHUP_GATE_LAG_BLOCKS
          MaxHeight  \* bound: the highest checkpoint value

ASSUME SchedulerAssumption ==
    /\ IsFiniteSet(Tasks)
    /\ Ingest \in Tasks
    /\ TaskOf \in [Ticks -> Tasks]
    /\ Cap \in Nat \ {0}
    /\ GateLag \in Nat
    /\ MaxHeight \in Nat

VARIABLES running,   \* running[t]: the scheduler's lock of task t
          inFlight,  \* the scheduler's count of tasks in flight
          tick,      \* tick[k]: where cron invocation k is
          call,      \* call[c]: the tasks trigger call c still waits for
          head,      \* checkpoint near_chain_head_height
          scanned    \* checkpoint near_last_scanned_height

schedulerVars == <<running, inFlight, tick, call, head, scanned>>

NoRow == 0
Unread == -1

TickType == [pc      : {"idle", "gate", "admitted", "deferred", "run"},
             head    : Unread .. MaxHeight,
             scanned : Unread .. MaxHeight]

IdleTick == [pc |-> "idle", head |-> Unread, scanned |-> Unread]
GateTick == [IdleTick EXCEPT !.pc = "gate"]
AdmittedTick == [IdleTick EXCEPT !.pc = "admitted"]
DeferredTick == [IdleTick EXCEPT !.pc = "deferred"]
RunTick  == [IdleTick EXCEPT !.pc = "run"]

TypeOK ==
    /\ running \in [Tasks -> BOOLEAN]
    /\ inFlight \in 0 .. Cap
    /\ tick \in [Ticks -> TickType]
    /\ call \in [Calls -> SUBSET Tasks]
    /\ head \in NoRow .. MaxHeight
    /\ scanned \in NoRow .. MaxHeight

Init ==
    /\ running = [t \in Tasks |-> FALSE]
    /\ inFlight = 0
    /\ tick = [k \in Ticks |-> IdleTick]
    /\ call = [c \in Calls |-> {}]
    /\ head \in NoRow .. MaxHeight
    /\ scanned \in NoRow .. MaxHeight

Turns(k, new) == tick' = [tick EXCEPT ![k] = new]

-------------------------------------------------------------------------------
(* Cron ticks. *)

(* Slip: the lock is not looked at.                                        *)
CanStartUnlocked(t) == t \in Tasks /\ inFlight < Cap

(* runWithLock: skip the tick when the task is running or the cap is       *)
(* reached, otherwise take both and start the run.                         *)
CanStart(t) == ~running[t] /\ inFlight < Cap

RunWithLock(k) ==
    IF CanStart(TaskOf[k])
    THEN /\ running' = [running EXCEPT ![TaskOf[k]] = TRUE]
         /\ inFlight' = inFlight + 1
         /\ Turns(k, RunTick)
    ELSE /\ Turns(k, IdleTick)
         /\ UNCHANGED <<running, inFlight>>

IngestTick(k) ==
    /\ TaskOf[k] = Ingest
    /\ tick[k].pc = "idle"
    /\ RunWithLock(k)
    /\ UNCHANGED <<call, head, scanned>>

(* A sibling's tick first asks whether the indexer is catching up.         *)
SiblingTick(k) ==
    /\ TaskOf[k] # Ingest
    /\ tick[k].pc = "idle"
    /\ Turns(k, GateTick)
    /\ UNCHANGED <<running, inFlight, call, head, scanned>>

(* Slip: a lag of exactly the threshold counts as catching up.             *)
CatchingUpAt(h, s) == h # NoRow /\ s # NoRow /\ h - s >= GateLag

(* isCatchingUp, of a head and a scanned height; not when a row is missing. *)
CatchingUp(h, s) == h # NoRow /\ s # NoRow /\ h - s > GateLag

(* Tick x with what it has read: once both reads have answered, the task   *)
(* is deferred to a later tick, or admitted.                               *)
Gated(x) ==
    IF x.head = Unread \/ x.scanned = Unread THEN x
    ELSE IF CatchingUp(x.head, x.scanned) THEN DeferredTick
    ELSE AdmittedTick

ReadHead(k) ==
    /\ tick[k].pc = "gate"
    /\ tick[k].head = Unread
    /\ Turns(k, Gated([tick[k] EXCEPT !.head = head]))
    /\ UNCHANGED <<running, inFlight, call, head, scanned>>

ReadScanned(k) ==
    /\ tick[k].pc = "gate"
    /\ tick[k].scanned = Unread
    /\ Turns(k, Gated([tick[k] EXCEPT !.scanned = scanned]))
    /\ UNCHANGED <<running, inFlight, call, head, scanned>>

Deferred(k) ==
    /\ tick[k].pc = "deferred"
    /\ Turns(k, IdleTick)
    /\ UNCHANGED <<running, inFlight, call, head, scanned>>

(* By the time the answers are handled another tick may hold the lock.     *)
Admitted(k) ==
    /\ tick[k].pc = "admitted"
    /\ RunWithLock(k)
    /\ UNCHANGED <<call, head, scanned>>

(* A read of the gate fails: the tick rejects before it took anything. *)
GateFails(k) ==
    /\ tick[k].pc = "gate"
    /\ Turns(k, IdleTick)
    /\ UNCHANGED <<running, inFlight, call, head, scanned>>

(* The run ends or throws; either way `finally` gives both back.           *)
RunEnds(k) ==
    /\ tick[k].pc = "run"
    /\ Turns(k, IdleTick)
    /\ running' = [running EXCEPT ![TaskOf[k]] = FALSE]
    /\ inFlight' = IF inFlight > 0 THEN inFlight - 1 ELSE 0
    /\ UNCHANGED <<call, head, scanned>>

-------------------------------------------------------------------------------
(* The HTTP trigger, and what an ingest run does to the checkpoints. *)

(* runAll: every task's runOnce at once, no lock and no count. *)
TriggerCalled(c) ==
    /\ call[c] = {}
    /\ call' = [call EXCEPT ![c] = Tasks]
    /\ UNCHANGED <<running, inFlight, tick, head, scanned>>

TriggeredRunEnds(c, t) ==
    /\ t \in call[c]
    /\ call' = [call EXCEPT ![c] = @ \ {t}]
    /\ UNCHANGED <<running, inFlight, tick, head, scanned>>

(* The runs of task t in progress, whoever started them. *)
ScheduledRuns(t) == {k \in Ticks : TaskOf[k] = t /\ tick[k].pc = "run"}
TriggeredRuns(t) == {c \in Calls : t \in call[c]}

(* An ingest run in progress writes the head, or both checkpoints.         *)
IngestWrites ==
    /\ ScheduledRuns(Ingest) # {} \/ TriggeredRuns(Ingest) # {}
    /\ head' \in 1 .. MaxHeight
    /\ scanned' \in {scanned} \cup 1 .. MaxHeight
    /\ UNCHANGED <<running, inFlight, tick, call>>

-------------------------------------------------------------------------------

TickStep(k) ==
    \/ IngestTick(k) \/ SiblingTick(k)
    \/ ReadHead(k) \/ ReadScanned(k) \/ Deferred(k) \/ Admitted(k)
    \/ RunEnds(k)

Next ==
    \/ \E k \in Ticks : TickStep(k) \/ GateFails(k)
    \/ \E c \in Calls : TriggerCalled(c) \/ \E t \in Tasks : TriggeredRunEnds(c, t)
    \/ IngestWrites

Spec == Init /\ [][Next]_schedulerVars

(* Cron keeps ticking, a read of the gate answers or fails, and every run  *)
(* comes to an end (each request in it has a timeout and a bounded number  *)
(* of attempts). Nothing is assumed of the trigger or of the checkpoints.  *)
FairSpec == Spec /\ \A k \in Ticks : WF_schedulerVars(TickStep(k))

-------------------------------------------------------------------------------
(* Properties. *)

(* However many ticks wait in the gate at once, and whatever fails, a      *)
(* task's lock is held exactly while one scheduled run of it is in         *)
(* progress, and the cap counts exactly the locks held: no task runs twice *)
(* beside itself, and no slot of the cap leaks. (With the trigger's own    *)
(* runs beside the scheduled one, this is what NearIngest's Runs is.)      *)
LockIsExact ==
    /\ \A t \in Tasks :
          Cardinality(ScheduledRuns(t)) = (IF running[t] THEN 1 ELSE 0)
    /\ inFlight = Cardinality({t \in Tasks : running[t]})

(* Checked as one invariant: with it, the values are of their types. *)
SchedulerInv == TypeOK /\ LockIsExact

(* Paused tasks "resume automatically once the lag drops back under the    *)
(* threshold": once the scanned height stays within it of every head to    *)
(* come, and the gate's reads answer, a task runs again and again, except  *)
(* while the cap itself is what is in its way. (The gate's two reads are   *)
(* not one: a head that moves on by more than the threshold between them   *)
(* would defer a task of an indexer that was never behind.)                *)
TasksResume ==
    /\ <>[](MaxHeight - scanned <= GateLag)
    /\ <>[][\A k \in Ticks : ~GateFails(k)]_schedulerVars
    => \A t \in Tasks : []<>(ScheduledRuns(t) # {} \/ inFlight >= Cap)

===============================================================================
