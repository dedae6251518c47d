------------------------ MODULE IndexerSchedulerProofs ------------------------
(***************************************************************************)
(* Proof about IndexerScheduler, for any tasks, any cap, any number of     *)
(* cron invocations pending at once and any trigger calls: the locks and   *)
(* the cap are exact.                                                      *)
(*                                                                         *)
(* The argument: only CanStart, which is evaluated in the same stretch as  *)
(* the lock is taken, lets an invocation run; so an invocation that runs   *)
(* holds a lock no other one holds, and gives back that one.               *)
(***************************************************************************)
EXTENDS IndexerScheduler, FiniteSetTheorems, TLAPS

Locked == {t \in Tasks : running[t]}

(* LockIsExact without cardinalities: who holds a lock. *)
OneHolder ==
    /\ \A t \in Tasks : running[t] => \E k \in Ticks : ScheduledRuns(t) = {k}
    /\ \A t \in Tasks : ~running[t] => ScheduledRuns(t) = {}

LocksInv == TypeOK /\ OneHolder /\ inFlight = Cardinality(Locked)

LEMMA TickShapes ==
    /\ IdleTick \in TickType /\ IdleTick.pc = "idle"
    /\ GateTick \in TickType /\ GateTick.pc = "gate"
    /\ AdmittedTick \in TickType /\ AdmittedTick.pc = "admitted"
    /\ DeferredTick \in TickType /\ DeferredTick.pc = "deferred"
    /\ RunTick \in TickType /\ RunTick.pc = "run"
<1>1. Unread \in Unread .. MaxHeight
  BY SchedulerAssumption DEF Unread
<1> QED
  BY <1>1 DEF IdleTick, GateTick, AdmittedTick, DeferredTick, RunTick, TickType

LEMMA InvariantMeansExact == LocksInv => SchedulerInv
<1> SUFFICES ASSUME LocksInv PROVE LockIsExact
  BY DEF LocksInv, SchedulerInv
<1>1. ASSUME NEW t \in Tasks
      PROVE  Cardinality(ScheduledRuns(t)) = (IF running[t] THEN 1 ELSE 0)
  <2>1. CASE running[t]
    <3>1. PICK k \in Ticks : ScheduledRuns(t) = {k}
      BY <2>1 DEF LocksInv, OneHolder
    <3> QED
      BY <2>1, <3>1, FS_Singleton
  <2>2. CASE ~running[t]
    <3>1. ScheduledRuns(t) = {}
      BY <2>2 DEF LocksInv, OneHolder
    <3> QED
      BY <2>2, <3>1, FS_EmptySet
  <2> QED
    BY <2>1, <2>2
<1> QED
  BY <1>1 DEF LockIsExact, LocksInv, Locked

-------------------------------------------------------------------------------
(* An invocation that neither takes nor gives back a lock. *)
LEMMA TurnKeeps ==
    ASSUME LocksInv, NEW k \in Ticks, NEW x \in TickType, Turns(k, x),
           tick[k].pc # "run", x.pc # "run",
           UNCHANGED <<running, inFlight, call, head, scanned>>
    PROVE  LocksInv'
<1>1. /\ tick' \in [Ticks -> TickType] /\ tick'[k] = x
      /\ \A j \in Ticks : j # k => tick'[j] = tick[j]
  BY DEF Turns, LocksInv, TypeOK
<1>2. TypeOK'
  BY <1>1 DEF LocksInv, TypeOK
<1>3. \A t \in Tasks : ScheduledRuns(t)' = ScheduledRuns(t)
  BY <1>1 DEF ScheduledRuns
<1>4. OneHolder'
  BY <1>3 DEF LocksInv, OneHolder
<1>5. inFlight' = Cardinality(Locked')
  BY DEF LocksInv, Locked
<1> QED
  BY <1>2, <1>4, <1>5 DEF LocksInv

(* Neither invocations nor locks are touched. *)
LEMMA ElsewhereKeeps ==
    ASSUME LocksInv, UNCHANGED <<running, inFlight, tick>>,
           call' \in [Calls -> SUBSET Tasks],
           head' \in NoRow .. MaxHeight, scanned' \in NoRow .. MaxHeight
    PROVE  LocksInv'
  BY DEF LocksInv, TypeOK, TickType, OneHolder, ScheduledRuns, Locked

LEMMA LockedIsFinite == IsFiniteSet(Locked)
<1>1. Locked \subseteq Tasks
  BY DEF Locked
<1> QED
  BY <1>1, SchedulerAssumption, FS_Subset

LEMMA RunWithLockKeeps ==
    ASSUME LocksInv, NEW k \in Ticks, tick[k].pc # "run", RunWithLock(k),
           UNCHANGED <<call, head, scanned>>
    PROVE  LocksInv'
<1> DEFINE task == TaskOf[k]
<1>1. CASE ~CanStart(task)
  BY <1>1, TickShapes, TurnKeeps DEF RunWithLock
<1>2. CASE CanStart(task)
  <2>1. /\ task \in Tasks /\ ~running[task] /\ inFlight < Cap
        /\ Cap \in Nat /\ inFlight \in Nat
        /\ running' = [running EXCEPT ![task] = TRUE]
        /\ inFlight' = inFlight + 1
        /\ Turns(k, RunTick)
    BY <1>2, SchedulerAssumption DEF RunWithLock, CanStart, LocksInv, TypeOK
  <2>2. /\ tick' \in [Ticks -> TickType] /\ tick'[k].pc = "run"
        /\ \A j \in Ticks : j # k => tick'[j] = tick[j]
    BY <2>1, TickShapes DEF Turns, LocksInv, TypeOK
  <2>3. /\ running' \in [Tasks -> BOOLEAN] /\ running'[task]
        /\ \A t \in Tasks : t # task => running'[t] = running[t]
    BY <2>1 DEF LocksInv, TypeOK
  <2>4. TypeOK'
    BY <2>1, <2>2, <2>3 DEF LocksInv, TypeOK
  <2>5. ScheduledRuns(task)' = {k}
    <3>1. ScheduledRuns(task) = {}
      BY <2>1 DEF LocksInv, OneHolder
    <3> QED
      BY <2>2, <3>1 DEF ScheduledRuns
  <2>6. \A t \in Tasks : t # task => ScheduledRuns(t)' = ScheduledRuns(t)
    BY <2>2 DEF ScheduledRuns
  <2>7. OneHolder'
    BY <2>3, <2>5, <2>6 DEF LocksInv, OneHolder
  <2>8. inFlight' = Cardinality(Locked')
    <3>1. Locked' = Locked \union {task} /\ task \notin Locked
      BY <2>1, <2>3 DEF Locked
    <3> QED
      BY <2>1, <3>1, LockedIsFinite, FS_AddElement DEF LocksInv
  <2> QED
    BY <2>4, <2>7, <2>8 DEF LocksInv
<1> QED
  BY <1>1, <1>2

(* finally gives back the lock and the slot of the cap, once each. *)
LEMMA RunEndsKeeps ==
    ASSUME LocksInv, NEW k \in Ticks, RunEnds(k) PROVE LocksInv'
<1> DEFINE task == TaskOf[k]
<1>1. /\ task \in Tasks /\ inFlight \in 0 .. Cap /\ Cap \in Nat
      /\ k \in ScheduledRuns(task)
      /\ running' = [running EXCEPT ![task] = FALSE]
      /\ inFlight' = (IF inFlight > 0 THEN inFlight - 1 ELSE 0)
      /\ Turns(k, IdleTick)
      /\ UNCHANGED <<call, head, scanned>>
  BY SchedulerAssumption DEF RunEnds, ScheduledRuns, LocksInv, TypeOK
<1>2. running[task] /\ ScheduledRuns(task) = {k}
  BY <1>1 DEF LocksInv, OneHolder
<1>3. /\ tick' \in [Ticks -> TickType] /\ tick'[k].pc = "idle"
      /\ \A j \in Ticks : j # k => tick'[j] = tick[j]
  BY <1>1, TickShapes DEF Turns, LocksInv, TypeOK
<1>4. /\ running' \in [Tasks -> BOOLEAN] /\ ~running'[task]
      /\ \A t \in Tasks : t # task => running'[t] = running[t]
  BY <1>1 DEF LocksInv, TypeOK
<1>5. TypeOK'
  BY <1>1, <1>3, <1>4 DEF LocksInv, TypeOK
<1>6. ScheduledRuns(task)' = {}
  BY <1>2, <1>3 DEF ScheduledRuns
<1>7. \A t \in Tasks : t # task => ScheduledRuns(t)' = ScheduledRuns(t)
  BY <1>3 DEF ScheduledRuns
<1>8. OneHolder'
  BY <1>4, <1>6, <1>7 DEF LocksInv, OneHolder
<1>9. inFlight' = Cardinality(Locked')
  <2>1. Locked' = Locked \ {task} /\ task \in Locked
    BY <1>1, <1>2, <1>4 DEF Locked
  <2>2. /\ Cardinality(Locked') = Cardinality(Locked) - 1
        /\ Cardinality(Locked) \in Nat /\ Cardinality(Locked') \in Nat
    BY <2>1, LockedIsFinite, FS_RemoveElement, FS_CardinalityType
  <2> QED
    BY <1>1, <2>2 DEF LocksInv
<1> QED
  BY <1>5, <1>8, <1>9 DEF LocksInv

(* A read of the gate answers: the invocation waits for the other one, or is *)
(* told to go on or to wait for a later tick.                                *)
LEMMA GatedType ==
    ASSUME NEW x \in TickType, x.pc = "gate" PROVE Gated(x) \in TickType /\ Gated(x).pc # "run"
  BY TickShapes DEF Gated

LEMMA TickKeeps ==
    ASSUME LocksInv, NEW k \in Ticks, TickStep(k) \/ GateFails(k) PROVE LocksInv'
<1> tick[k] \in TickType /\ head \in Unread .. MaxHeight /\ scanned \in Unread .. MaxHeight
  BY DEF LocksInv, TypeOK, NoRow, Unread
<1>1. CASE IngestTick(k)
  BY <1>1, RunWithLockKeeps DEF IngestTick
<1>2. CASE SiblingTick(k)
  BY <1>2, TickShapes, TurnKeeps DEF SiblingTick
<1>3. CASE ReadHead(k)
  <2>1. [tick[k] EXCEPT !.head = head] \in TickType /\ [tick[k] EXCEPT !.head = head].pc = "gate"
    BY <1>3 DEF ReadHead, TickType
  <2> QED
    BY <1>3, <2>1, GatedType, TurnKeeps DEF ReadHead
<1>4. CASE ReadScanned(k)
  <2>1. /\ [tick[k] EXCEPT !.scanned = scanned] \in TickType
        /\ [tick[k] EXCEPT !.scanned = scanned].pc = "gate"
    BY <1>4 DEF ReadScanned, TickType
  <2> QED
    BY <1>4, <2>1, GatedType, TurnKeeps DEF ReadScanned
<1>5. CASE Deferred(k) \/ GateFails(k)
  BY <1>5, TickShapes, TurnKeeps DEF Deferred, GateFails
<1>6. CASE Admitted(k)
  BY <1>6, RunWithLockKeeps DEF Admitted
<1>7. CASE RunEnds(k)
  BY <1>7, RunEndsKeeps
<1> QED
  BY <1>1, <1>2, <1>3, <1>4, <1>5, <1>6, <1>7 DEF TickStep

LEMMA TriggerKeeps ==
    ASSUME LocksInv, NEW c \in Calls,
           TriggerCalled(c) \/ \E t \in Tasks : TriggeredRunEnds(c, t)
    PROVE  LocksInv'
<1>1. /\ call' \in [Calls -> SUBSET Tasks]
      /\ UNCHANGED <<running, inFlight, tick, head, scanned>>
  BY DEF TriggerCalled, TriggeredRunEnds, LocksInv, TypeOK
<1>2. head' \in NoRow .. MaxHeight /\ scanned' \in NoRow .. MaxHeight
  BY <1>1 DEF LocksInv, TypeOK
<1> QED
  BY <1>1, <1>2, ElsewhereKeeps

LEMMA IngestKeeps == ASSUME LocksInv, IngestWrites PROVE LocksInv'
<1>1. /\ head' \in NoRow .. MaxHeight /\ scanned' \in NoRow .. MaxHeight
      /\ call' \in [Calls -> SUBSET Tasks]
      /\ UNCHANGED <<running, inFlight, tick>>
  BY SchedulerAssumption DEF IngestWrites, LocksInv, TypeOK, NoRow
<1> QED
  BY <1>1, ElsewhereKeeps

-------------------------------------------------------------------------------
LEMMA InitHolds == Init => LocksInv
<1> SUFFICES ASSUME Init PROVE LocksInv
  OBVIOUS
<1>1. TypeOK
  BY TickShapes, SchedulerAssumption DEF Init, TypeOK
<1>2. Locked = {} /\ \A t \in Tasks : ~running[t] /\ ScheduledRuns(t) = {}
  BY TickShapes DEF Init, Locked, ScheduledRuns
<1> QED
  BY <1>1, <1>2, FS_EmptySet DEF Init, LocksInv, OneHolder

LEMMA StepKeeps == LocksInv /\ [Next]_schedulerVars => LocksInv'
<1> SUFFICES ASSUME LocksInv, [Next]_schedulerVars PROVE LocksInv'
  OBVIOUS
<1>1. CASE UNCHANGED schedulerVars
  <2>1. UNCHANGED <<running, inFlight, tick, call, head, scanned>>
    BY <1>1 DEF schedulerVars
  <2> QED
    BY <2>1, ElsewhereKeeps DEF LocksInv, TypeOK
<1> QED
  BY <1>1, TickKeeps, TriggerKeeps, IngestKeeps DEF Next

(* However many invocations are pending, whatever the gate answers, whatever *)
(* fails and whatever the trigger starts beside them: runWithLock never has  *)
(* two scheduled runs of a task, never exceeds the cap and loses no slot.    *)
THEOREM LocksStayExact == Spec => []SchedulerInv
<1>1. Init => LocksInv
  BY InitHolds
<1>2. LocksInv /\ [Next]_schedulerVars => LocksInv'
  BY StepKeeps
<1>3. LocksInv => SchedulerInv
  BY InvariantMeansExact
<1> QED
  BY <1>1, <1>2, <1>3, PTL DEF Spec
===============================================================================
