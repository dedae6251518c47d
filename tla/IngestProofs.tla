----------------------------- MODULE IngestProofs -----------------------------
(***************************************************************************)
(* Proofs about NearIngest, for any chain, any window, retry, wedge and    *)
(* reset parameters and any number of overlapping runs, and about          *)
(* IngestOps, also for any number of skip-forward commands beside the boot *)
(* guard and any file the ledger is seeded from.                           *)
(*                                                                         *)
(* The argument for NearIngest: no action ever makes a resolved height     *)
(* unresolved (ResolvedGrows), so what a run once knew to be covered stays *)
(* covered (RunOKMonotone); an action changes the local variables of one   *)
(* run, so the others keep what they know (QuietStep, LocalStep); what is  *)
(* left is that the acting run's new locals are justified, one lemma per   *)
(* group of actions.                                                       *)
(*                                                                         *)
(* The argument for IngestOps: ingestion's own steps are those of          *)
(* NearIngest, whose lemmas say that they keep CoverageInv and resolve     *)
(* more, and what a skip knows about resolved heights survives that        *)
(* (SkipOKMonotone). The steps of a skip keep what the runs know for the   *)
(* same reason.                                                            *)
(***************************************************************************)
EXTENDS IngestOps, TLAPS

-------------------------------------------------------------------------------
(* NearIngest. *)

USE ChainAssumption, IngestAssumption

(* What a run knows about the resolved heights survives their growth. *)
LEMMA RunOKMonotone ==
    ASSUME NEW x, NEW S, NEW T, S \subseteq T, RunOK(x, S)
    PROVE  RunOK(x, T)
  BY DEF RunOK

(* A run that returned knows nothing and needs nothing. *)
LEMMA IdleRunType ==
    IdleRun \in RunType /\ [IdleRun EXCEPT !.pc = "martRead"] \in RunType
  BY DEF IdleRun, RunType, Steps, NoRow, Heights

LEMMA IdleRunOK ==
    ASSUME NEW S
    PROVE  RunOK(IdleRun, S) /\ RunOK([IdleRun EXCEPT !.pc = "martRead"], S)
  BY DEF IdleRun, RunOK, NoRow

LEMMA ResolvedGrows ==
    ASSUME \A h \in Heights : rows[h] = Tables => rows'[h] = Tables,
           absent \subseteq absent',
           ledger \subseteq ledger'
    PROVE  Resolved \subseteq Resolved'
  BY DEF Resolved, Indexed, Ledgered

(* A step of run r that leaves the tables alone. *)
LEMMA QuietStep ==
    ASSUME CoverageInv, UNCHANGED dbVars,
           NEW r \in Runs, NEW x \in RunType, Becomes(r, x),
           RunOK(x, Resolved), mem' \in MemType, mart' \in MartType
    PROVE  CoverageInv'
<1>1. Resolved' = Resolved
  BY DEF Resolved, Indexed, Ledgered, dbVars
<1>2. DbTypeOK'
  BY DEF DbTypeOK, dbVars, CoverageInv, TypeOK
<1>3. run' \in [Runs -> RunType] /\ \A s \in Runs : RunOK(run'[s], Resolved)
  BY DEF Becomes, CoverageInv, TypeOK
<1>4. Covered(ckpt.scanned)' /\ (ckpt.scanned # NoRow => ckpt.scanned >= BackfillStart)'
  BY <1>1 DEF CoverageInv, Covered, dbVars
<1> QED
  BY <1>1, <1>2, <1>3, <1>4 DEF CoverageInv, TypeOK

(* A step of run r that adds to the tables and leaves the checkpoints. *)
LEMMA LocalStep ==
    ASSUME CoverageInv, DbTypeOK', UNCHANGED ckpt, Resolved \subseteq Resolved',
           NEW r \in Runs, NEW x \in RunType, Becomes(r, x),
           RunOK(x, Resolved'), mem' \in MemType, mart' \in MartType
    PROVE  CoverageInv'
<1>1. \A s \in Runs : RunOK(run[s], Resolved')
  BY RunOKMonotone DEF CoverageInv
<1>2. run' \in [Runs -> RunType] /\ \A s \in Runs : RunOK(run'[s], Resolved')
  BY <1>1 DEF Becomes, CoverageInv, TypeOK
<1>3. Covered(ckpt.scanned)' /\ (ckpt.scanned # NoRow => ckpt.scanned >= BackfillStart)'
  BY DEF CoverageInv, Covered
<1> QED
  BY <1>2, <1>3 DEF CoverageInv, TypeOK

(* A step of run r that writes checkpoints: the scanned one stays put or   *)
(* moves to a covered height of the backfill.                              *)
LEMMA CheckpointStep ==
    ASSUME CoverageInv, UNCHANGED <<tip, ledger, rows, absent>>, ckpt' \in CkptType,
           \/ ckpt'.scanned = ckpt.scanned
           \/ ckpt'.scanned >= BackfillStart /\ BackfillStart .. ckpt'.scanned \subseteq Resolved,
           NEW r \in Runs, NEW x \in RunType, Becomes(r, x),
           RunOK(x, Resolved), mem' \in MemType, mart' \in MartType
    PROVE  CoverageInv'
<1>1. Resolved' = Resolved
  BY DEF Resolved, Indexed, Ledgered
<1>2. DbTypeOK'
  BY DEF DbTypeOK, CoverageInv, TypeOK
<1>3. run' \in [Runs -> RunType] /\ \A s \in Runs : RunOK(run'[s], Resolved)
  BY DEF Becomes, CoverageInv, TypeOK
<1>4. Covered(ckpt.scanned)' /\ (ckpt.scanned # NoRow => ckpt.scanned >= BackfillStart)'
  BY <1>1 DEF CoverageInv, Covered
<1> QED
  BY <1>1, <1>2, <1>3, <1>4 DEF CoverageInv, TypeOK
-------------------------------------------------------------------------------
(* Choosing what to do. *)

LEMMA RunFacts ==
    ASSUME CoverageInv, NEW r \in Runs
    PROVE  /\ run[r] \in RunType /\ RunOK(run[r], Resolved)
           /\ mem \in MemType /\ mart \in MartType
  BY DEF CoverageInv, TypeOK

LEMMA FetchFinalStep ==
    ASSUME CoverageInv, NEW r \in Runs, FetchFinal(r)
    PROVE  CoverageInv'
<1>1. PICK l \in Blocks : Becomes(r, [IdleRun EXCEPT !.pc = "range", !.latest = l])
  BY DEF FetchFinal, FinalBlocks
<1> DEFINE x == [IdleRun EXCEPT !.pc = "range", !.latest = l]
<1>a. l \in 0 .. MaxTip
  OBVIOUS
<1>2. x \in RunType
  BY <1>a, IdleRunType DEF RunType, Steps
<1>3. x.pc = "range" /\ x.completed = {}
  BY DEF IdleRun
<1>4. Becomes(r, x) /\ UNCHANGED <<dbVars, mem, mart>>
  BY <1>1 DEF FetchFinal
<1> HIDE DEF x
<1>5. RunOK(x, Resolved)
  BY <1>3 DEF RunOK
<1> QED
  BY <1>2, <1>4, <1>5, RunFacts, QuietStep

(* Where a run starts is right above covered ground. *)
LEMMA StartIsCovered ==
    ASSUME CoverageInv
    PROVE  /\ StartHeight \in 0 .. MaxTip + 1 /\ StartHeight >= BackfillStart
           /\ BackfillStart .. StartHeight - 1 \subseteq Resolved
<1>1. ckpt.scanned \in 0 .. MaxTip
  BY DEF CoverageInv, TypeOK, DbTypeOK, CkptType
<1> QED
  BY <1>1 DEF CoverageInv, Covered, StartHeight, MaxOf

LEMMA ReadRangeResetStep ==
    ASSUME CoverageInv, NEW r \in Runs, ReadRangeReset(r)
    PROVE  CoverageInv'
<1> DEFINE g == run[r].latest - SkipTargetLag - 1
           x == [run[r] EXCEPT !.pc = "resetFind", !.start = StartHeight, !.goal = g]
<1>1. run[r].latest \in 0 .. MaxTip
  BY RunFacts DEF RunType
<1>2. g \in 0 .. MaxTip /\ StartHeight <= g
  BY <1>1, StartIsCovered DEF ReadRangeReset, MustReset
<1>3. Becomes(r, x) /\ UNCHANGED <<dbVars, mem, mart>>
  BY DEF ReadRangeReset
<1> HIDE DEF g
<1>4. x \in RunType
  BY ZenonT(40), <1>2, StartIsCovered, RunFacts DEF RunType, Steps
<1>5. /\ x.pc = "resetFind" /\ x.start = StartHeight /\ x.goal = g
      /\ x.completed = run[r].completed
  BY RunFacts DEF RunType
<1> HIDE DEF x
<1>6. RunOK(x, Resolved)
  BY <1>2, <1>5, StartIsCovered, RunFacts DEF RunOK
<1> QED
  BY <1>3, <1>4, <1>6, RunFacts, QuietStep

LEMMA ReadRangeWalkStep ==
    ASSUME CoverageInv, NEW r \in Runs, ReadRangeWalk(r)
    PROVE  CoverageInv'
<1> DEFINE p == IF mem.originObserved THEN "head" ELSE "origin"
           t == TargetHeight(run[r].latest)
           x == [run[r] EXCEPT !.pc = p, !.start = StartHeight, !.target = t]
<1>1. run[r].latest \in 0 .. MaxTip
  BY RunFacts DEF RunType
<1>2. t \in 0 .. MaxTip
  BY <1>1, StartIsCovered DEF TargetHeight, MinOf
<1>3. p \in {"head", "origin"} /\ p \in Steps
  BY DEF Steps
<1>4. Becomes(r, x) /\ UNCHANGED <<dbVars, mem, mart>>
  BY DEF ReadRangeWalk
<1> HIDE DEF p, t
<1>5. x \in RunType
  BY <1>2, <1>3, StartIsCovered, RunFacts DEF RunType
<1>6. x.pc = p /\ x.start = StartHeight /\ x.completed = run[r].completed
  BY RunFacts DEF RunType
<1> HIDE DEF x
<1>7. RunOK(x, Resolved)
  BY <1>3, <1>6, StartIsCovered, RunFacts DEF RunOK
<1> QED
  BY <1>4, <1>5, <1>7, RunFacts, QuietStep

LEMMA ReadOriginStep ==
    ASSUME CoverageInv, NEW r \in Runs, ReadOrigin(r)
    PROVE  CoverageInv'
<1> DEFINE o == IF ckpt.origin = NoRow THEN run[r].start ELSE NoRow
           x == [run[r] EXCEPT !.pc = "head", !.newOrigin = o]
<1>1. o \in 0 .. MaxTip + 1
  BY RunFacts DEF RunType, NoRow
<1>2. Becomes(r, x) /\ UNCHANGED <<dbVars, mart>> /\ run[r].pc = "origin"
  BY DEF ReadOrigin
<1>3. mem' \in MemType
  BY RunFacts DEF ReadOrigin, MemType
<1> HIDE DEF o
<1>4. x \in RunType
  BY <1>1, RunFacts DEF RunType, Steps
<1>5. x.pc = "head" /\ x.start = run[r].start /\ x.completed = run[r].completed
  BY RunFacts DEF RunType
<1> HIDE DEF x
<1>6. RunOK(x, Resolved)
  BY <1>2, <1>5, RunFacts DEF RunOK
<1> QED
  BY <1>2, <1>3, <1>4, <1>6, RunFacts, QuietStep

LEMMA WriteHeadStep ==
    ASSUME CoverageInv, NEW r \in Runs, WriteHead(r)
    PROVE  CoverageInv'
<1> DEFINE w == run[r].start .. run[r].target
           x == [run[r] EXCEPT !.pc = "walk", !.todo = w]
<1>1. /\ run[r].pc = "head" /\ Becomes(r, x)
      /\ UNCHANGED <<tip, ledger, rows, absent, mem, mart>>
  BY DEF WriteHead
<1>2. w \in SUBSET Heights
  BY <1>1, RunFacts DEF RunType, RunOK, Heights
<1>3. ckpt' \in CkptType /\ ckpt'.scanned = ckpt.scanned
  <2>1. ckpt \in CkptType
    BY DEF CoverageInv, TypeOK, DbTypeOK
  <2>2. run[r].latest \in 0 .. MaxTip /\ run[r].newOrigin \in 0 .. MaxTip + 1
    BY RunFacts DEF RunType
  <2>3. ckpt.origin \in 0 .. MaxTip + 1
    BY <2>1 DEF CkptType
  <2> QED
    BY <2>1, <2>2, <2>3 DEF WriteHead, CkptType
<1> HIDE DEF w
<1>4. x \in RunType
  BY ZenonT(40), <1>2, RunFacts DEF RunType, Steps
<1>5. x.pc = "walk" /\ x.start = run[r].start /\ x.completed = run[r].completed
  BY RunFacts DEF RunType
<1> HIDE DEF x
<1>6. RunOK(x, Resolved)
  BY <1>1, <1>5, RunFacts DEF RunOK
<1> QED
  BY <1>1, <1>3, <1>4, <1>6, RunFacts, CheckpointStep

-------------------------------------------------------------------------------
(* The missing-ranges ledger and the force-reset. *)

(* A range in the ledger resolves its heights. *)
LEMMA RangeResolves ==
    ASSUME NEW s \in Nat, NEW e \in Nat, s >= BackfillStart, e <= MaxTip, HasRange(s, e)
    PROVE  s .. e \subseteq Resolved
  BY DEF HasRange, Resolved, Ledgered, Heights

(* The rows and the verdicts stay, the ledger gets one more range. *)
LEMMA LedgerInsert ==
    ASSUME CoverageInv, NEW s \in Nat, NEW e \in Nat, NEW reason \in Reasons,
           s >= BackfillStart, e <= MaxTip,
           ledger' = ledger \cup {[start |-> s, end |-> e, reason |-> reason]},
           UNCHANGED <<tip, ckpt, rows, absent>>
    PROVE  /\ DbTypeOK'
           /\ Resolved \subseteq Resolved'
           /\ s .. e \subseteq Resolved'
<1>1. DbTypeOK'
  BY DEF CoverageInv, TypeOK, DbTypeOK, RangeType
<1>2. Resolved \subseteq Resolved'
  BY ResolvedGrows
<1> DEFINE g == [start |-> s, end |-> e, reason |-> reason]
<1>3. g \in ledger' /\ g.start = s /\ g.end = e
  OBVIOUS
<1> HIDE DEF g
<1>4. s .. e \subseteq Resolved'
  <2> SUFFICES ASSUME NEW n \in s .. e PROVE n \in Resolved'
    OBVIOUS
  <2>1. n \in Heights
    BY DEF Heights
  <2>2. \E k \in ledger' : k.start <= n /\ n <= k.end
    BY <1>3
  <2> QED
    BY <2>1, <2>2 DEF Resolved, Ledgered
<1> QED
  BY <1>1, <1>2, <1>4

(* The ends of the range a run is about to record. *)
LEMMA RangeEnds ==
    ASSUME CoverageInv, NEW r \in Runs,
           run[r].pc \in {"resetFind", "resetInsert", "resetCkpt",
                          "wedgeFind", "wedgeInsert", "persist"}
    PROVE  /\ run[r].start \in Nat /\ run[r].goal \in Nat
           /\ BackfillStart <= run[r].start /\ run[r].start <= run[r].goal
           /\ run[r].goal <= MaxTip
           /\ BackfillStart .. run[r].start - 1 \subseteq Resolved
           /\ run[r].completed \subseteq Resolved
  BY RunFacts DEF RunType, RunOK

LEMMA ResetFindStep ==
    ASSUME CoverageInv, NEW r \in Runs, ResetFind(r)
    PROVE  CoverageInv'
<1> DEFINE known == HasRange(run[r].start, run[r].goal)
           p == IF known THEN "resetCkpt" ELSE "resetInsert"
           x == [run[r] EXCEPT !.pc = p]
<1>1. Becomes(r, x) /\ UNCHANGED <<dbVars, mem, mart>> /\ run[r].pc = "resetFind"
  BY DEF ResetFind, FindRange
<1>2. known => run[r].start .. run[r].goal \subseteq Resolved
  BY <1>1, RangeEnds, RangeResolves
<1>3. p \in {"resetCkpt", "resetInsert"} /\ p \in Steps /\ (p = "resetCkpt" => known)
  BY DEF Steps
<1> HIDE DEF p, known
<1>4. x \in RunType
  BY <1>3, RunFacts DEF RunType
<1>5. /\ x.pc = p /\ x.start = run[r].start /\ x.goal = run[r].goal
      /\ x.completed = run[r].completed
  BY RunFacts DEF RunType
<1> HIDE DEF x
<1>6. RunOK(x, Resolved)
  BY <1>1, <1>2, <1>3, <1>5, RangeEnds DEF RunOK
<1> QED
  BY <1>1, <1>4, <1>6, RunFacts, QuietStep

LEMMA ResetInsertStep ==
    ASSUME CoverageInv, NEW r \in Runs, ResetInsert(r)
    PROVE  CoverageInv'
<1>1. run[r].pc = "resetInsert" /\ UNCHANGED <<tip, ckpt, rows, absent, mem, mart>>
  BY DEF ResetInsert, InsertRange
<1>2. CASE HasRange(run[r].start, run[r].goal)
  <2>1. Becomes(r, IdleRun) /\ UNCHANGED dbVars
    BY <1>2 DEF ResetInsert, InsertRange, dbVars
  <2> QED
    BY <1>1, <2>1, IdleRunType, IdleRunOK, RunFacts, QuietStep
<1>3. CASE ~HasRange(run[r].start, run[r].goal)
  <2> DEFINE x == [run[r] EXCEPT !.pc = "resetCkpt"]
  <2>1. /\ ledger' = ledger \cup {[start |-> run[r].start, end |-> run[r].goal,
                                   reason |-> "force-reset"]}
        /\ Becomes(r, x)
    BY <1>3 DEF ResetInsert, InsertRange
  <2>2. /\ DbTypeOK' /\ Resolved \subseteq Resolved'
        /\ run[r].start .. run[r].goal \subseteq Resolved'
    BY <1>1, <2>1, RangeEnds, LedgerInsert DEF Reasons
  <2>3. x \in RunType
    BY RunFacts DEF RunType, Steps
  <2>4. /\ x.pc = "resetCkpt" /\ x.start = run[r].start /\ x.goal = run[r].goal
        /\ x.completed = run[r].completed
    BY RunFacts DEF RunType
  <2> HIDE DEF x
  <2>5. RunOK(x, Resolved')
    BY <1>1, <2>2, <2>4, RangeEnds DEF RunOK
  <2> QED
    BY <1>1, <2>1, <2>2, <2>3, <2>5, RunFacts, LocalStep
<1> QED
  BY <1>2, <1>3

LEMMA ResetCheckpointsStep ==
    ASSUME CoverageInv, NEW r \in Runs, ResetCheckpoints(r)
    PROVE  CoverageInv'
<1>1. /\ run[r].pc = "resetCkpt" /\ Becomes(r, IdleRun)
      /\ UNCHANGED <<tip, ledger, rows, absent, mem, mart>>
  BY DEF ResetCheckpoints
<1>2. run[r].goal >= BackfillStart /\ BackfillStart .. run[r].goal \subseteq Resolved
  <2>1. run[r].start .. run[r].goal \subseteq Resolved
    BY <1>1, RunFacts DEF RunOK
  <2> QED
    BY <1>1, <2>1, RangeEnds
<1>3. ckpt' \in CkptType /\ ckpt'.scanned = run[r].goal
  <2>1. ckpt \in CkptType
    BY DEF CoverageInv, TypeOK, DbTypeOK
  <2>2. run[r].latest \in 0 .. MaxTip /\ run[r].goal \in 0 .. MaxTip
    BY RunFacts DEF RunType
  <2> QED
    BY <2>1, <2>2 DEF ResetCheckpoints, CkptType
<1> QED
  BY <1>1, <1>2, <1>3, IdleRunType, IdleRunOK, RunFacts, CheckpointStep

-------------------------------------------------------------------------------
(* The walk. *)

(* A height of the window a run is walking. *)
LEMMA InFlightFacts ==
    ASSUME CoverageInv, NEW r \in Runs, NEW h, InFlight(r, h)
    PROVE  /\ h \in Heights /\ run[r].pc = "walk"
           /\ run[r].start >= BackfillStart
           /\ BackfillStart .. run[r].start - 1 \subseteq Resolved
           /\ run[r].completed \subseteq Resolved
  BY RunFacts DEF InFlight, RunType, RunOK

LEMMA MartAfterType ==
    ASSUME CoverageInv, NEW c
    PROVE  MartAfter(c) \in MartType
  BY DEF MartAfter, MartType, CoverageInv, TypeOK

(* New rows: complete or not, they only ever add to what is resolved. *)
LEMMA RowsGrow ==
    ASSUME CoverageInv, NEW h \in Heights, NEW made \in SUBSET Tables,
           rows' = [rows EXCEPT ![h] = @ \cup made],
           UNCHANGED <<tip, ckpt, ledger, absent>>
    PROVE  DbTypeOK' /\ Resolved \subseteq Resolved'
<1>1. rows \in [Heights -> SUBSET Tables]
  BY DEF CoverageInv, TypeOK, DbTypeOK
<1>2. rows' \in [Heights -> SUBSET Tables]
  BY <1>1
<1>3. DbTypeOK'
  BY <1>2 DEF CoverageInv, TypeOK, DbTypeOK
<1>4. \A k \in Heights : rows[k] = Tables => rows'[k] = Tables
  BY <1>1
<1> QED
  BY <1>3, <1>4, ResolvedGrows

LEMMA PersistBlockStep ==
    ASSUME CoverageInv, NEW r \in Runs, NEW h, PersistBlock(r, h)
    PROVE  CoverageInv'
<1> DEFINE t == run[r].todo \ {h}
           c == run[r].completed \cup {h}
           p == MaxOf(run[r].top, h)
           x == [run[r] EXCEPT !.todo = t, !.completed = c, !.top = p]
<1>1. /\ InFlight(r, h) /\ Becomes(r, x)
      /\ UNCHANGED <<tip, ckpt, ledger, absent, mem>>
      /\ mart' \in MartType
  BY MartAfterType DEF PersistBlock
<1>2. h \in Heights
  BY <1>1, InFlightFacts
<1>3. rows \in [Heights -> SUBSET Tables]
  BY DEF CoverageInv, TypeOK, DbTypeOK
<1>4. rows' = [rows EXCEPT ![h] = @ \cup Tables]
  BY <1>2, <1>3 DEF PersistBlock
<1>5. DbTypeOK' /\ Resolved \subseteq Resolved'
  BY <1>1, <1>2, <1>4, RowsGrow
<1>6. h \in Resolved'
  <2>1. rows'[h] = Tables
    BY <1>2, <1>3 DEF PersistBlock
  <2> QED
    BY <1>2, <2>1 DEF Resolved, Indexed
<1>7. /\ run[r].todo \in SUBSET Heights /\ run[r].completed \in SUBSET Heights
      /\ run[r].top \in 0 .. MaxTip
  BY RunFacts DEF RunType
<1>8. t \in SUBSET Heights /\ c \in SUBSET Heights /\ p \in 0 .. MaxTip
  BY <1>2, <1>7 DEF Heights, MaxOf
<1>9. c \subseteq Resolved'
  BY <1>1, <1>5, <1>6, InFlightFacts
<1> HIDE DEF t, c, p
<1>10. x \in RunType
  BY <1>8, RunFacts DEF RunType
<1>11. x.pc = run[r].pc /\ x.start = run[r].start /\ x.completed = c
  BY RunFacts DEF RunType
<1> HIDE DEF x
<1>12. RunOK(x, Resolved')
  BY <1>1, <1>5, <1>9, <1>11, InFlightFacts DEF RunOK
<1> QED
  BY <1>1, <1>5, <1>10, <1>12, RunFacts, LocalStep

LEMMA JudgeAbsentStep ==
    ASSUME CoverageInv, NEW r \in Runs, NEW h, JudgeAbsent(r, h)
    PROVE  CoverageInv'
<1> DEFINE t == run[r].todo \ {h}
           c == run[r].completed \cup {h}
           x == [run[r] EXCEPT !.todo = t, !.completed = c]
<1>1. /\ InFlight(r, h) /\ Becomes(r, x)
      /\ absent' = absent \cup {h}
      /\ UNCHANGED <<tip, ckpt, ledger, rows, mem, mart>>
  BY DEF JudgeAbsent
<1>2. h \in Heights
  BY <1>1, InFlightFacts
<1>3. DbTypeOK'
  BY <1>1, <1>2 DEF CoverageInv, TypeOK, DbTypeOK
<1>4. Resolved \subseteq Resolved'
  BY <1>1, ResolvedGrows
<1>5. h \in Resolved'
  BY <1>1, <1>2 DEF Resolved
<1>6. run[r].todo \in SUBSET Heights /\ run[r].completed \in SUBSET Heights
  BY RunFacts DEF RunType
<1>7. t \in SUBSET Heights /\ c \in SUBSET Heights
  BY <1>2, <1>6
<1>8. c \subseteq Resolved'
  BY <1>1, <1>4, <1>5, InFlightFacts
<1> HIDE DEF t, c
<1>9. x \in RunType
  BY <1>7, RunFacts DEF RunType
<1>10. x.pc = run[r].pc /\ x.start = run[r].start /\ x.completed = c
  BY RunFacts DEF RunType
<1> HIDE DEF x
<1>11. RunOK(x, Resolved')
  BY <1>1, <1>4, <1>8, <1>10, InFlightFacts DEF RunOK
<1> QED
  BY <1>1, <1>3, <1>4, <1>9, <1>11, RunFacts, LocalStep

(* A failed height changes nothing a run relies on. *)
LEMMA FailHeightRun ==
    ASSUME CoverageInv, NEW r \in Runs, NEW h, NEW goneNow, FailHeight(r, h, goneNow)
    PROVE  h \in Heights /\ \E x \in RunType : Becomes(r, x) /\ RunOK(x, Resolved)
<1> DEFINE t == run[r].todo \ {h}
           f == run[r].failed \cup {h}
           g == IF goneNow THEN run[r].gone \cup {h} ELSE run[r].gone \ {h}
           x == [run[r] EXCEPT !.todo = t, !.failed = f, !.gone = g]
<1>1. InFlight(r, h) /\ Becomes(r, x)
  BY DEF FailHeight
<1>2. h \in Heights
  BY <1>1, InFlightFacts
<1>3. /\ run[r].todo \in SUBSET Heights /\ run[r].failed \in SUBSET Heights
      /\ run[r].gone \in SUBSET Heights
  BY RunFacts DEF RunType
<1>4. t \in SUBSET Heights /\ f \in SUBSET Heights /\ g \in SUBSET Heights
  BY <1>2, <1>3
<1> HIDE DEF t, f, g
<1>5. x \in RunType
  BY <1>4, RunFacts DEF RunType
<1>6. x.pc = run[r].pc /\ x.start = run[r].start /\ x.completed = run[r].completed
  BY RunFacts DEF RunType
<1> HIDE DEF x
<1>7. RunOK(x, Resolved)
  BY <1>1, <1>6, InFlightFacts DEF RunOK
<1> QED
  BY <1>1, <1>2, <1>5, <1>7

LEMMA FetchFailsStep ==
    ASSUME CoverageInv, NEW r \in Runs, NEW h, ChunkGone(r, h) \/ FetchFails(r, h)
    PROVE  CoverageInv'
<1>1. UNCHANGED <<dbVars, mem, mart>> /\ \E x \in RunType : Becomes(r, x) /\ RunOK(x, Resolved)
  BY FailHeightRun DEF ChunkGone, FetchFails
<1> QED
  BY <1>1, RunFacts, QuietStep

LEMMA InsertFailsStep ==
    ASSUME CoverageInv, NEW r \in Runs, NEW h, NEW made \in SUBSET Tables,
           InsertFails(r, h, made)
    PROVE  CoverageInv'
<1>1. h \in Heights /\ \E x \in RunType : Becomes(r, x) /\ RunOK(x, Resolved)
  BY FailHeightRun DEF InsertFails
<1>2. DbTypeOK' /\ Resolved \subseteq Resolved'
  BY <1>1, RowsGrow DEF InsertFails
<1>3. mart' \in MartType /\ UNCHANGED <<ckpt, mem>>
  BY MartAfterType DEF InsertFails
<1>4. \E x \in RunType : Becomes(r, x) /\ RunOK(x, Resolved')
  BY <1>1, <1>2, RunOKMonotone
<1> QED
  BY <1>2, <1>3, <1>4, RunFacts, LocalStep

LEMMA RetryHolesStep ==
    ASSUME CoverageInv, NEW r \in Runs, RetryHoles(r)
    PROVE  CoverageInv'
<1> DEFINE t == run[r].failed
           k == run[r].round + 1
           x == [run[r] EXCEPT !.todo = t, !.failed = {}, !.round = k]
<1>1. Becomes(r, x) /\ UNCHANGED <<dbVars, mem, mart>> /\ run[r].pc = "walk"
  BY DEF RetryHoles
<1>a. t \in SUBSET Heights /\ k \in Nat
  BY RunFacts DEF RunType
<1> HIDE DEF t, k
<1>2. x \in RunType
  BY <1>a, RunFacts DEF RunType
<1>3. x.pc = run[r].pc /\ x.start = run[r].start /\ x.completed = run[r].completed
  BY RunFacts DEF RunType
<1> HIDE DEF x
<1>4. RunOK(x, Resolved)
  BY <1>1, <1>3, RunFacts DEF RunOK
<1> QED
  BY <1>1, <1>2, <1>4, RunFacts, QuietStep

-------------------------------------------------------------------------------
(* The end of the walk. *)

(* A run at the end of its walk, or past it. *)
LEMMA WalkedFacts ==
    ASSUME CoverageInv, NEW r \in Runs,
           run[r].pc \in {"walk", "wedgeFind", "wedgeInsert", "persist"}
    PROVE  /\ run[r].start \in Nat /\ run[r].target \in 0 .. MaxTip
           /\ BackfillStart <= run[r].start
           /\ BackfillStart .. run[r].start - 1 \subseteq Resolved
           /\ run[r].completed \subseteq Resolved
           /\ run[r].completed \in SUBSET Heights /\ run[r].failed \in SUBSET Heights
  BY RunFacts DEF RunType, RunOK

(* The tail of runOnce leaves a run that needs nothing. *)
LEMMA EndRunFacts ==
    ASSUME CoverageInv, NEW r \in Runs, NEW m \in MemType, EndRun(r, m)
    PROVE  /\ mem' \in MemType
           /\ \E x \in RunType : Becomes(r, x) /\ RunOK(x, Resolved)
<1> DEFINE dirty == m.martDirty \/ run[r].top # NoRow
<1>1. dirty \in BOOLEAN
  BY DEF MemType
<1>2. mem' = [m EXCEPT !.martDirty = dirty]
  BY DEF EndRun
<1>3. mem' \in MemType
  <2> HIDE DEF dirty
  <2> QED
    BY <1>1, <1>2 DEF MemType
<1>4. Becomes(r, IdleRun) \/ Becomes(r, [IdleRun EXCEPT !.pc = "martRead"])
  BY DEF EndRun
<1> QED
  BY <1>3, <1>4, IdleRunType, IdleRunOK

LEMMA StuckAgainType ==
    ASSUME CoverageInv, NEW r \in Runs
    PROVE  StuckAgain(r) \in MemType
<1> DEFINE k == IF mem.wedgeFrontier = run[r].start
                  THEN MinOf(mem.wedgeStuckRuns + 1, WedgeSkipAfterRuns) ELSE 1
<1>1. mem \in MemType /\ run[r].start \in 0 .. MaxTip + 1
  BY RunFacts DEF RunType
<1>2. mem.wedgeStuckRuns \in 0 .. WedgeSkipAfterRuns
  BY <1>1 DEF MemType
<1>3. k \in 0 .. WedgeSkipAfterRuns
  BY <1>2 DEF MinOf
<1>4. StuckAgain(r) = [mem EXCEPT !.wedgeFrontier = run[r].start, !.wedgeStuckRuns = k]
  BY DEF StuckAgain
<1> HIDE DEF k
<1> QED
  BY <1>1, <1>3, <1>4 DEF MemType

LEMMA UnwedgedType ==
    ASSUME NEW m \in MemType
    PROVE  Unwedged(m) \in MemType
<1>1. 0 \in 0 .. MaxTip + 1 /\ 0 \in 0 .. WedgeSkipAfterRuns
  OBVIOUS
<1>2. Unwedged(m) = [m EXCEPT !.wedgeFrontier = 0, !.wedgeStuckRuns = 0]
  BY DEF Unwedged, NoRow
<1> QED
  BY <1>1, <1>2 DEF MemType

LEMMA QuietEndStep ==
    ASSUME CoverageInv, NEW r \in Runs, NothingToDo(r) \/ Stuck(r)
    PROVE  CoverageInv'
<1>1. UNCHANGED <<dbVars, mart>> /\ \E m \in MemType : EndRun(r, m)
  BY RunFacts, StuckAgainType DEF NothingToDo, Stuck
<1> QED
  BY <1>1, EndRunFacts, RunFacts, QuietStep

(* The end of an unbroken prefix that has at least one height. *)
LEMMA PrefixFacts ==
    ASSUME CoverageInv, NEW r \in Runs, run[r].pc = "walk" \/ run[r].pc \in {"wedgeFind", "wedgeInsert"},
           NEW n \in run[r].start .. run[r].target, NEW S,
           EndsPrefix(n, run[r].start, run[r].target, S)
    PROVE  /\ n \in 0 .. MaxTip /\ run[r].start <= n
           /\ run[r].start .. n \subseteq S
  BY WalkedFacts DEF EndsPrefix

LEMMA ProgressStep ==
    ASSUME CoverageInv, NEW r \in Runs, Progress(r)
    PROVE  CoverageInv'
<1>1. PICK n \in run[r].start .. run[r].target :
         /\ EndsPrefix(n, run[r].start, run[r].target, run[r].completed)
         /\ Becomes(r, [run[r] EXCEPT !.pc = "persist", !.goal = n])
  BY DEF Progress
<1> DEFINE x == [run[r] EXCEPT !.pc = "persist", !.goal = n]
<1>2. run[r].pc = "walk" /\ UNCHANGED <<dbVars, mart>> /\ mem' \in MemType
  BY UnwedgedType, RunFacts DEF Progress, WalkDone
<1>3. n \in 0 .. MaxTip /\ run[r].start <= n /\ run[r].start .. n \subseteq run[r].completed
  BY <1>1, <1>2, PrefixFacts
<1>4. x \in RunType
  BY ZenonT(40), <1>3, RunFacts DEF RunType, Steps
<1>5. x.pc = "persist" /\ x.start = run[r].start /\ x.goal = n /\ x.completed = run[r].completed
  BY RunFacts DEF RunType
<1>6. Becomes(r, x)
  BY <1>1
<1> HIDE DEF x
<1>7. RunOK(x, Resolved)
  BY <1>2, <1>3, <1>5, WalkedFacts DEF RunOK
<1> QED
  BY <1>2, <1>4, <1>6, <1>7, RunFacts, QuietStep

LEMMA StuckLongEnoughStep ==
    ASSUME CoverageInv, NEW r \in Runs, StuckLongEnough(r)
    PROVE  CoverageInv'
<1>1. PICK w \in run[r].start .. run[r].target :
         /\ EndsWedge(r, w)
         /\ Becomes(r, [run[r] EXCEPT !.pc = "wedgeFind", !.goal = w])
  BY DEF StuckLongEnough
<1> DEFINE x == [run[r] EXCEPT !.pc = "wedgeFind", !.goal = w]
<1>2. run[r].pc = "walk" /\ UNCHANGED <<dbVars, mart>> /\ mem' \in MemType
  BY StuckAgainType DEF StuckLongEnough, NoProgress, WalkDone
<1>3. w \in 0 .. MaxTip /\ run[r].start <= w
  BY <1>1, <1>2, PrefixFacts DEF EndsWedge
<1>4. x \in RunType
  BY ZenonT(40), <1>3, RunFacts DEF RunType, Steps
<1>5. x.pc = "wedgeFind" /\ x.start = run[r].start /\ x.goal = w /\ x.completed = run[r].completed
  BY RunFacts DEF RunType
<1>6. Becomes(r, x)
  BY <1>1
<1> HIDE DEF x
<1>7. RunOK(x, Resolved)
  BY <1>2, <1>3, <1>5, WalkedFacts DEF RunOK
<1> QED
  BY <1>2, <1>4, <1>6, <1>7, RunFacts, QuietStep

(* Once the skipped range is durable, the prefix over it may be claimed. *)
LEMMA AfterWedgeFacts ==
    ASSUME CoverageInv, NEW r \in Runs, run[r].pc \in {"wedgeFind", "wedgeInsert"},
           NEW S, Resolved \subseteq S, run[r].start .. run[r].goal \subseteq S,
           AfterWedge(r)
    PROVE  \E x \in RunType : Becomes(r, x) /\ RunOK(x, S)
<1> DEFINE gone == run[r].start .. run[r].goal
           c == run[r].completed \cup gone
           f == run[r].failed \ gone
<1>1. PICK n \in run[r].start .. run[r].target :
         /\ EndsPrefix(n, run[r].start, run[r].target, c)
         /\ Becomes(r, [run[r] EXCEPT !.pc = "persist", !.completed = c,
                                      !.failed = f, !.goal = n])
  BY DEF AfterWedge
<1> DEFINE x == [run[r] EXCEPT !.pc = "persist", !.completed = c, !.failed = f, !.goal = n]
<1>2. n \in 0 .. MaxTip /\ run[r].start <= n /\ run[r].start .. n \subseteq c
  BY <1>1, PrefixFacts
<1>3. gone \subseteq Heights
  BY RangeEnds DEF Heights
<1>4. c \in SUBSET Heights /\ f \in SUBSET Heights /\ c \subseteq S
  BY <1>3, WalkedFacts
<1>5. Becomes(r, x)
  BY <1>1
<1> HIDE DEF c, f, gone
<1>6. x \in RunType
  BY ZenonT(40), <1>2, <1>4, RunFacts DEF RunType, Steps
<1>7. x.pc = "persist" /\ x.start = run[r].start /\ x.goal = n /\ x.completed = c
  BY RunFacts DEF RunType
<1> HIDE DEF x
<1>8. RunOK(x, S)
  BY <1>2, <1>4, <1>7, WalkedFacts DEF RunOK
<1> QED
  BY <1>5, <1>6, <1>8

LEMMA WedgeFindStep ==
    ASSUME CoverageInv, NEW r \in Runs, WedgeFind(r)
    PROVE  CoverageInv'
<1>1. run[r].pc = "wedgeFind" /\ UNCHANGED <<dbVars, mart>>
  BY DEF WedgeFind
<1>2. mem' \in MemType
  BY UnwedgedType, RunFacts DEF WedgeFind
<1>3. CASE HasRange(run[r].start, run[r].goal)
  <2>1. AfterWedge(r)
    BY <1>3 DEF WedgeFind
  <2>2. run[r].start .. run[r].goal \subseteq Resolved
    BY <1>1, <1>3, RangeEnds, RangeResolves
  <2>3. \E x \in RunType : Becomes(r, x) /\ RunOK(x, Resolved)
    BY <1>1, <2>1, <2>2, AfterWedgeFacts
  <2> QED
    BY <1>1, <1>2, <2>3, RunFacts, QuietStep
<1>4. CASE ~HasRange(run[r].start, run[r].goal)
  <2> DEFINE x == [run[r] EXCEPT !.pc = "wedgeInsert"]
  <2>1. Becomes(r, x)
    BY <1>4 DEF WedgeFind
  <2>2. x \in RunType
    BY RunFacts DEF RunType, Steps
  <2>3. /\ x.pc = "wedgeInsert" /\ x.start = run[r].start /\ x.goal = run[r].goal
        /\ x.completed = run[r].completed
    BY RunFacts DEF RunType
  <2> HIDE DEF x
  <2>4. RunOK(x, Resolved)
    BY <1>1, <2>3, RangeEnds DEF RunOK
  <2> QED
    BY <1>1, <1>2, <2>1, <2>2, <2>4, RunFacts, QuietStep
<1> QED
  BY <1>3, <1>4

LEMMA WedgeInsertStep ==
    ASSUME CoverageInv, NEW r \in Runs, WedgeInsert(r)
    PROVE  CoverageInv'
<1>1. run[r].pc = "wedgeInsert" /\ UNCHANGED <<tip, ckpt, rows, absent, mart>>
  BY DEF WedgeInsert
<1>2. mem' \in MemType
  BY UnwedgedType, RunFacts DEF WedgeInsert
<1>3. CASE HasRange(run[r].start, run[r].goal)
  <2>1. Becomes(r, IdleRun) /\ UNCHANGED dbVars
    BY <1>1, <1>3 DEF WedgeInsert, dbVars
  <2> QED
    BY <1>1, <1>2, <2>1, IdleRunType, IdleRunOK, RunFacts, QuietStep
<1>4. CASE ~HasRange(run[r].start, run[r].goal)
  <2>1. /\ ledger' = ledger \cup {[start |-> run[r].start, end |-> run[r].goal,
                                   reason |-> "wedged frontier"]}
        /\ AfterWedge(r)
    BY <1>4 DEF WedgeInsert
  <2>2. /\ DbTypeOK' /\ Resolved \subseteq Resolved'
        /\ run[r].start .. run[r].goal \subseteq Resolved'
    BY <1>1, <2>1, RangeEnds, LedgerInsert DEF Reasons
  <2>3. \E x \in RunType : Becomes(r, x) /\ RunOK(x, Resolved')
    BY <1>1, <2>1, <2>2, AfterWedgeFacts
  <2> QED
    BY <1>1, <1>2, <2>2, <2>3, RunFacts, LocalStep
<1> QED
  BY <1>3, <1>4

(* What a run that persists claims is covered. *)
LEMMA GoalIsCovered ==
    ASSUME CoverageInv, NEW r \in Runs, run[r].pc \in {"persist", "resetCkpt"}
    PROVE  /\ run[r].goal >= BackfillStart /\ run[r].goal \in 0 .. MaxTip
           /\ BackfillStart .. run[r].goal \subseteq Resolved
<1>1. run[r].start .. run[r].goal \subseteq Resolved
  BY RunFacts DEF RunOK
<1> QED
  BY <1>1, RangeEnds

LEMMA PersistCheckpointsStep ==
    ASSUME CoverageInv, NEW r \in Runs, PersistCheckpoints(r)
    PROVE  CoverageInv'
<1>1. /\ run[r].pc = "persist" /\ EndRun(r, mem)
      /\ UNCHANGED <<tip, ledger, rows, absent, mart>>
  BY DEF PersistCheckpoints
<1>2. ckpt' \in CkptType /\ ckpt'.scanned = run[r].goal
  <2>1. ckpt \in CkptType
    BY DEF CoverageInv, TypeOK, DbTypeOK
  <2>2. run[r].goal \in 0 .. MaxTip
    BY <1>1, GoalIsCovered
  <2> QED
    BY <2>1, <2>2 DEF PersistCheckpoints, CkptType
<1>3. mem' \in MemType /\ \E x \in RunType : Becomes(r, x) /\ RunOK(x, Resolved)
  BY <1>1, EndRunFacts, RunFacts
<1> QED
  BY <1>1, <1>2, <1>3, GoalIsCovered, RunFacts, CheckpointStep

LEMMA MartStep ==
    ASSUME CoverageInv, NEW r \in Runs, ReadMart(r) \/ WriteMart(r)
    PROVE  CoverageInv'
<1> DEFINE x == [run[r] EXCEPT !.pc = "martWrite"]
<1>1. UNCHANGED dbVars /\ mem' \in MemType
  BY RunFacts DEF ReadMart, WriteMart, MemType
<1>a. mart' \in MartType
  <2>1. mart \in MartType /\ mart.current \subseteq Runs /\ (r \in mart.current) \in BOOLEAN
    BY RunFacts DEF MartType
  <2>2. CASE ReadMart(r)
    BY <2>1, <2>2 DEF ReadMart, MartType
  <2>3. CASE WriteMart(r)
    BY <2>1, <2>3 DEF WriteMart, MartType
  <2> QED
    BY <2>2, <2>3
<1>2. x \in RunType
  BY RunFacts DEF RunType, Steps
<1>3. x.pc = "martWrite" /\ x.completed = run[r].completed
  BY RunFacts DEF RunType
<1>4. RunOK(x, Resolved)
  <2> HIDE DEF x
  <2> QED
    BY <1>3, RunFacts DEF RunOK
<1>5. Becomes(r, x) \/ Becomes(r, IdleRun)
  BY DEF ReadMart, WriteMart
<1> HIDE DEF x
<1> QED
  BY <1>1, <1>a, <1>2, <1>4, <1>5, IdleRunType, IdleRunOK, RunFacts, QuietStep

-------------------------------------------------------------------------------
(* What goes wrong around a run, and the world outside. *)

LEMMA RunFailsStep ==
    ASSUME CoverageInv, NEW r \in Runs, RunFails(r)
    PROVE  CoverageInv'
<1>1. /\ Becomes(r, IdleRun) /\ UNCHANGED <<dbVars, mem>>
      /\ mart' = [mart EXCEPT !.current = @ \ {r}]
  BY DEF RunFails
<1>2. mart' \in MartType
  BY <1>1, RunFacts DEF MartType
<1> QED
  BY <1>1, <1>2, IdleRunType, IdleRunOK, RunFacts, QuietStep

LEMMA AroundStep ==
    ASSUME CoverageInv, ThrottleElapses \/ Crash \/ ChainGrows
    PROVE  CoverageInv'
<1>1. UNCHANGED <<ckpt, ledger, rows, absent>> /\ tip' \in Blocks
  BY DEF ThrottleElapses, Crash, ChainGrows, AdvanceTip, dbVars, CoverageInv, TypeOK, DbTypeOK
<1>2. DbTypeOK' /\ Resolved' = Resolved
  BY <1>1 DEF CoverageInv, TypeOK, DbTypeOK, Resolved, Indexed, Ledgered
<1>3. mem' \in MemType /\ mart' \in MartType
  <2>1. mem \in MemType /\ mart \in MartType
    BY DEF CoverageInv, TypeOK
  <2>2. FreshMem \in MemType
    <3>1. 0 \in 0 .. MaxTip + 1 /\ 0 \in 0 .. WedgeSkipAfterRuns
      OBVIOUS
    <3> QED
      BY <3>1 DEF FreshMem, MemType, NoRow
  <2>3. CASE ThrottleElapses
    BY <2>1, <2>3 DEF ThrottleElapses, MemType
  <2>4. CASE Crash
    <3>1. mart' \in MartType
      BY <2>1, <2>4 DEF Crash, MartType
    <3> QED
      BY <2>2, <2>4, <3>1 DEF Crash
  <2>5. CASE ChainGrows
    BY <2>1, <2>5 DEF ChainGrows
  <2> QED
    BY <2>3, <2>4, <2>5
<1>4. \A r \in Runs : run'[r] = run[r] \/ run'[r] = IdleRun
  BY DEF ThrottleElapses, Crash, ChainGrows
<1>5. run' \in [Runs -> RunType]
  BY IdleRunType DEF ThrottleElapses, Crash, ChainGrows, CoverageInv, TypeOK
<1>6. \A r \in Runs : RunOK(run'[r], Resolved)
  BY <1>4, IdleRunOK DEF CoverageInv
<1> QED
  BY <1>1, <1>2, <1>3, <1>5, <1>6 DEF CoverageInv, TypeOK, Covered

-------------------------------------------------------------------------------
(* The invariant, and what follows from it. *)

LEMMA InitCoverage == Init => CoverageInv
<1> SUFFICES ASSUME Init PROVE CoverageInv
  OBVIOUS
<1>1. ckpt.scanned = 0 /\ ckpt \in CkptType
  BY DEF Init, DbInit, CkptType, NoRow
<1>2. DbTypeOK
  BY <1>1 DEF Init, DbInit, DbTypeOK
<1>3. FreshMem \in MemType
  <2>1. 0 \in 0 .. MaxTip + 1 /\ 0 \in 0 .. WedgeSkipAfterRuns
    OBVIOUS
  <2> QED
    BY <2>1 DEF FreshMem, MemType, NoRow
<1>4. mart \in MartType
  BY DEF Init, MartType
<1>5. run \in [Runs -> RunType] /\ \A r \in Runs : RunOK(run[r], Resolved)
  BY IdleRunType, IdleRunOK DEF Init
<1>6. Covered(ckpt.scanned)
  BY <1>1 DEF Covered
<1> QED
  BY <1>1, <1>2, <1>3, <1>4, <1>5, <1>6 DEF Init, CoverageInv, TypeOK, NoRow

LEMMA RunStepKeeps ==
    ASSUME CoverageInv, NEW r \in Runs, RunStep(r)
    PROVE  CoverageInv'
<1>1. CASE FetchFinal(r)               BY <1>1, FetchFinalStep
<1>2. CASE ReadRangeReset(r)           BY <1>2, ReadRangeResetStep
<1>3. CASE ReadRangeWalk(r)            BY <1>3, ReadRangeWalkStep
<1>4. CASE ResetFind(r)                BY <1>4, ResetFindStep
<1>5. CASE ResetInsert(r)              BY <1>5, ResetInsertStep
<1>6. CASE ResetCheckpoints(r)         BY <1>6, ResetCheckpointsStep
<1>7. CASE ReadOrigin(r)               BY <1>7, ReadOriginStep
<1>8. CASE WriteHead(r)                BY <1>8, WriteHeadStep
<1>9. CASE \E h \in Heights : PersistBlock(r, h)
  BY <1>9, PersistBlockStep
<1>10. CASE \E h \in Heights \ Blocks : JudgeAbsent(r, h)
  BY <1>10, JudgeAbsentStep
<1>11. CASE \E h \in Broken : ChunkGone(r, h)
  BY <1>11, FetchFailsStep
<1>12. CASE RetryHoles(r)              BY <1>12, RetryHolesStep
<1>13. CASE Progress(r)                BY <1>13, ProgressStep
<1>14. CASE NothingToDo(r) \/ Stuck(r) BY <1>14, QuietEndStep
<1>15. CASE StuckLongEnough(r)         BY <1>15, StuckLongEnoughStep
<1>16. CASE WedgeFind(r)               BY <1>16, WedgeFindStep
<1>17. CASE WedgeInsert(r)             BY <1>17, WedgeInsertStep
<1>18. CASE PersistCheckpoints(r)      BY <1>18, PersistCheckpointsStep
<1>19. CASE ReadMart(r) \/ WriteMart(r) BY <1>19, MartStep
<1> QED
  BY <1>1, <1>2, <1>3, <1>4, <1>5, <1>6, <1>7, <1>8, <1>9, <1>10, <1>11, <1>12,
     <1>13, <1>14, <1>15, <1>16, <1>17, <1>18, <1>19 DEF RunStep

LEMMA RunFaultKeeps ==
    ASSUME CoverageInv, NEW r \in Runs, RunFault(r)
    PROVE  CoverageInv'
<1>1. CASE \E h \in Blocks : JudgeAbsent(r, h)
  BY <1>1, JudgeAbsentStep
<1>2. CASE \E h : ChunkGone(r, h) \/ FetchFails(r, h)
  BY <1>2, FetchFailsStep
<1>3. CASE \E h \in Heights, made \in SUBSET Tables : InsertFails(r, h, made)
  BY <1>3, InsertFailsStep
<1>4. CASE RunFails(r)
  BY <1>4, RunFailsStep
<1> QED
  BY <1>1, <1>2, <1>3, <1>4 DEF RunFault

LEMMA StutterKeeps ==
    ASSUME CoverageInv, UNCHANGED ingestVars
    PROVE  CoverageInv'
<1>1. Resolved' = Resolved
  BY DEF ingestVars, Resolved, Indexed, Ledgered
<1>2. TypeOK'
  BY DEF ingestVars, CoverageInv, TypeOK, DbTypeOK
<1> QED
  BY <1>1, <1>2 DEF ingestVars, CoverageInv, Covered

LEMMA NextKeepsCoverage == CoverageInv /\ [Next]_ingestVars => CoverageInv'
<1> SUFFICES ASSUME CoverageInv, [Next]_ingestVars PROVE CoverageInv'
  OBVIOUS
<1>1. CASE \E r \in Runs : RunStep(r) \/ RunFault(r)
  BY <1>1, RunStepKeeps, RunFaultKeeps
<1>2. CASE ChainGrows \/ ThrottleElapses \/ Crash
  BY <1>2, AroundStep
<1>3. CASE UNCHANGED ingestVars
  BY <1>3, StutterKeeps
<1> QED
  BY <1>1, <1>2, <1>3 DEF Next

(* For any number of overlapping runs, every failure and every crash: the  *)
(* tables and the runs keep their types, and each run past its read of the *)
(* checkpoint knows only covered heights (near-ingest.service.ts, runOnce). *)
THEOREM CoverageInvariant == Spec => []CoverageInv
<1> QED
  BY InitCoverage, NextKeepsCoverage, PTL DEF Spec

(* No height at or below the scanned checkpoint is lost: each is indexed,  *)
(* judged absent, or ledgered, in every reachable state.                   *)
THEOREM NothingIsLost == Spec => []NoSilentGap
<1>1. CoverageInv => NoSilentGap
  BY DEF CoverageInv, NoSilentGap
<1> QED
  BY <1>1, CoverageInvariant, PTL

-------------------------------------------------------------------------------
(* Ingestion implements the abstract ledger. *)

(* A step that is not a checkpoint write of the scanned height. *)
TablesGrow ==
    /\ ckpt'.scanned = ckpt.scanned
    /\ \A h \in Heights : rows[h] = Tables => rows'[h] = Tables
    /\ absent \subseteq absent'
    /\ ledger \subseteq ledger'

(* A step that is one. *)
FrontierMoves(r) ==
    /\ run[r].pc \in {"persist", "resetCkpt"}
    /\ ckpt'.scanned = run[r].goal
    /\ UNCHANGED <<ledger, rows, absent>>

LEMMA RunStepIsOneOrTheOther ==
    ASSUME CoverageInv, NEW r \in Runs, RunStep(r) \/ RunFault(r)
    PROVE  TablesGrow \/ FrontierMoves(r)
<1>1. rows \in [Heights -> SUBSET Tables] /\ ckpt \in CkptType
  BY DEF CoverageInv, TypeOK, DbTypeOK
<1>2. CASE UNCHANGED dbVars
  BY <1>2 DEF dbVars, TablesGrow
<1>3. CASE ResetInsert(r) \/ WedgeInsert(r)
  BY <1>3 DEF ResetInsert, InsertRange, WedgeInsert, TablesGrow
<1>4. CASE WriteHead(r)
  BY <1>1, <1>4 DEF WriteHead, TablesGrow, CkptType
<1>5. CASE ResetCheckpoints(r) \/ PersistCheckpoints(r)
  BY <1>1, <1>5 DEF ResetCheckpoints, PersistCheckpoints, FrontierMoves, CkptType
<1>6. CASE \E h : PersistBlock(r, h)
  BY <1>1, <1>6 DEF PersistBlock, TablesGrow
<1>7. CASE \E h : JudgeAbsent(r, h)
  BY <1>7 DEF JudgeAbsent, TablesGrow
<1>8. CASE \E h \in Heights, made \in SUBSET Tables : InsertFails(r, h, made)
  BY <1>1, <1>8 DEF InsertFails, TablesGrow
<1> QED
  BY <1>2, <1>3, <1>4, <1>5, <1>6, <1>7, <1>8
     DEF RunStep, RunFault, FetchFinal, ReadRangeReset, ReadRangeWalk, ResetFind, FindRange,
         ReadOrigin, ChunkGone, FetchFails, RetryHoles, Progress, NothingToDo, Stuck,
         StuckLongEnough, WedgeFind, ReadMart, WriteMart, RunFails

LEMMA GrowthResolves == ASSUME TablesGrow PROVE Coverage!Resolve
<1>1. Resolved \subseteq Resolved'
  BY ResolvedGrows DEF TablesGrow
<1>2. Frontier' = Frontier
  BY DEF TablesGrow, Frontier
<1>3. Resolved' \in SUBSET Coverage!Heights
  BY DEF Resolved, Heights, Coverage!Heights
<1> QED
  BY <1>1, <1>2, <1>3 DEF Coverage!Resolve

LEMMA StepSimulates ==
    ASSUME CoverageInv, [Next]_ingestVars
    PROVE  [Coverage!Resolve \/ Coverage!Move]_(Coverage!vars)
<1>1. CASE TablesGrow
  BY <1>1, GrowthResolves
<1>2. CASE \E r \in Runs : FrontierMoves(r)
  <2>1. PICK r \in Runs : FrontierMoves(r)
    BY <1>2
  <2>2. /\ ckpt'.scanned >= BackfillStart /\ ckpt'.scanned \in 0 .. MaxTip
        /\ BackfillStart .. ckpt'.scanned \subseteq Resolved
    BY <2>1, GoalIsCovered DEF FrontierMoves
  <2>3. Frontier' = ckpt'.scanned
    BY <2>2 DEF Frontier, NoRow
  <2>4. Resolved' = Resolved
    BY <2>1 DEF FrontierMoves, Resolved, Indexed, Ledgered
  <2> QED
    BY <2>2, <2>3, <2>4 DEF Coverage!Move, Coverage!Heights
<1>3. CASE ~(\E r \in Runs : RunStep(r) \/ RunFault(r))
  <2>1. TablesGrow
    BY <1>3 DEF Next, ChainGrows, AdvanceTip, ThrottleElapses, Crash, dbVars, ingestVars,
                TablesGrow
  <2> QED
    BY <1>1, <2>1
<1> QED
  BY <1>1, <1>2, <1>3, RunStepIsOneOrTheOther

LEMMA InitSimulates == Init => Coverage!Init
<1> SUFFICES ASSUME Init PROVE Coverage!Init
  OBVIOUS
<1>1. Resolved = {}
  <2>1. \A h \in Heights : rows[h] = {} /\ h \notin absent /\ ~Ledgered(h)
    BY DEF Init, DbInit, Ledgered
  <2> QED
    BY <2>1 DEF Resolved, Indexed
<1>2. Frontier = BackfillStart - 1
  BY DEF Init, DbInit, Frontier
<1> QED
  BY <1>1, <1>2 DEF Coverage!Init

(* Block ingestion implements CoverageLedger however many runs overlap and *)
(* whatever fails: every write of the scanned checkpoint lands on a height *)
(* with nothing unresolved below it, and nothing resolved is undone.       *)
THEOREM ImplementsCoverage == Spec => CoverageRefinement
<1>1. Init => Coverage!Init
  BY InitSimulates
<1>2. CoverageInv /\ [Next]_ingestVars => [Coverage!Resolve \/ Coverage!Move]_(Coverage!vars)
  BY StepSimulates
<1> QED
  BY <1>1, <1>2, CoverageInvariant, PTL DEF Spec, CoverageRefinement, Coverage!Spec

-------------------------------------------------------------------------------
(* One run at a time, as the scheduler's lock has it. The checkpoints a run  *)
(* has read are then still as it read them when it writes.                   *)
OneRunSlot == \A r, q \in Runs : r = q

(* Where a run holds the range it computed from the checkpoint. *)
Ranged == {"resetFind", "resetInsert", "resetCkpt", "origin", "head", "walk",
           "wedgeFind", "wedgeInsert", "persist"}

SoloInv ==
    \A r \in Runs :
       /\ run[r].pc \in Ranged => run[r].start = StartHeight
       /\ run[r].pc \in {"range", "origin"} => run[r].newOrigin = NoRow
       /\ run[r].pc = "head" /\ run[r].newOrigin # NoRow => ckpt.origin = NoRow

(* The run is over, but perhaps for the mart. *)
Ends(r) == run'[r].pc \in {"idle", "martRead", "martWrite"}

(* The run goes on with the range it has; the scanned checkpoint stays. *)
Wedged == {"wedgeFind", "wedgeInsert"}
GoesOn(r) ==
    /\ run[r].pc \in Ranged
    /\ run'[r].pc \in Ranged \ {"origin", "head"}
    /\ run'[r].start = run[r].start
    /\ run'[r].pc \in Wedged => StuckLongEnough(r) \/ WedgeFind(r)
    /\ ckpt'.scanned = ckpt.scanned

LEMMA BecomesIs ==
    ASSUME CoverageInv, NEW r \in Runs, NEW x, Becomes(r, x)
    PROVE  run'[r] = x
  BY DEF Becomes, CoverageInv, TypeOK

LEMMA EndRunEnds ==
    ASSUME CoverageInv, NEW r \in Runs, NEW m, EndRun(r, m)
    PROVE  Ends(r)
<1>1. run'[r] \in {IdleRun, [IdleRun EXCEPT !.pc = "martRead"]}
  BY BecomesIs DEF EndRun
<1> QED
  BY <1>1 DEF Ends, IdleRun

LEMMA AfterWedgeGoesOn ==
    ASSUME CoverageInv, NEW r \in Runs, run[r].pc \in Ranged, UNCHANGED ckpt, AfterWedge(r)
    PROVE  GoesOn(r)
<1>1. PICK n, c, f :
         Becomes(r, [run[r] EXCEPT !.pc = "persist", !.completed = c, !.failed = f, !.goal = n])
  BY DEF AfterWedge
<1>2. run'[r] = [run[r] EXCEPT !.pc = "persist", !.completed = c, !.failed = f, !.goal = n]
  BY <1>1, BecomesIs
<1> QED
  BY <1>2, RunFacts DEF GoesOn, RunType, Ranged, Wedged

LEMMA HeightGoesOn ==
    ASSUME CoverageInv, NEW r \in Runs,
           \/ \E h \in Heights : PersistBlock(r, h) \/ JudgeAbsent(r, h)
                                \/ ChunkGone(r, h) \/ FetchFails(r, h)
           \/ \E h \in Heights, made \in SUBSET Tables : InsertFails(r, h, made)
    PROVE  GoesOn(r)
<1>1. run[r].pc = "walk" /\ UNCHANGED ckpt
  BY ZenonT(40)
     DEF PersistBlock, JudgeAbsent, ChunkGone,
         FetchFails, InsertFails, FailHeight, InFlight, dbVars
<1>2. run'[r].pc = run[r].pc /\ run'[r].start = run[r].start
  <2>1. CASE \E h \in Heights : PersistBlock(r, h)
    <3>1. PICK t, c, p : Becomes(r, [run[r] EXCEPT !.todo = t, !.completed = c, !.top = p])
      BY <2>1 DEF PersistBlock
    <3> QED
      BY <3>1, RunFacts, BecomesIs DEF RunType
  <2>2. CASE \E h \in Heights : JudgeAbsent(r, h)
    <3>1. PICK t, c : Becomes(r, [run[r] EXCEPT !.todo = t, !.completed = c])
      BY <2>2 DEF JudgeAbsent
    <3> QED
      BY <3>1, RunFacts, BecomesIs DEF RunType
  <2>3. CASE \E h \in Heights, goneNow \in BOOLEAN : FailHeight(r, h, goneNow)
    <3>1. PICK t, f, g : Becomes(r, [run[r] EXCEPT !.todo = t, !.failed = f, !.gone = g])
      BY <2>3 DEF FailHeight
    <3> QED
      BY <3>1, RunFacts, BecomesIs DEF RunType
  <2> QED
    BY <2>1, <2>2, <2>3 DEF ChunkGone, FetchFails, InsertFails
<1> QED
  BY SMTT(30), <1>1, <1>2 DEF GoesOn, Ranged, Wedged

LEMMA RangeGoesOn ==
    ASSUME CoverageInv, NEW r \in Runs,
           \/ ResetFind(r) \/ ResetInsert(r) \/ WriteHead(r) \/ RetryHoles(r)
           \/ Progress(r) \/ StuckLongEnough(r)
    PROVE  GoesOn(r) \/ Ends(r)
<1>1. CASE ResetFind(r)
  BY <1>1, RunFacts, BecomesIs DEF ResetFind, FindRange, GoesOn, RunType, Ranged, Wedged, dbVars
<1>2. CASE ResetInsert(r)
  BY <1>2, RunFacts, BecomesIs DEF ResetInsert, InsertRange, GoesOn, Ends, RunType, Ranged, Wedged, IdleRun
<1>3. CASE WriteHead(r)
  <2>1. ckpt'.scanned = ckpt.scanned
    BY <1>3 DEF WriteHead, CoverageInv, TypeOK, DbTypeOK, CkptType
  <2>2. PICK t : Becomes(r, [run[r] EXCEPT !.pc = "walk", !.todo = t])
    BY <1>3 DEF WriteHead
  <2>3. run'[r].pc = "walk" /\ run'[r].start = run[r].start
    BY <2>2, RunFacts, BecomesIs DEF RunType
  <2> QED
    BY <1>3, <2>1, <2>3 DEF WriteHead, GoesOn, Ranged, Wedged
<1>4. CASE RetryHoles(r)
  <2>1. PICK t, k : Becomes(r, [run[r] EXCEPT !.todo = t, !.failed = {}, !.round = k])
    BY <1>4 DEF RetryHoles
  <2>2. run'[r].pc = run[r].pc /\ run'[r].start = run[r].start
    BY ZenonT(40), <2>1, RunFacts, BecomesIs DEF RunType
  <2> QED
    BY <1>4, <2>2 DEF RetryHoles, GoesOn, Ranged, Wedged, dbVars
<1>5. CASE Progress(r) \/ StuckLongEnough(r)
  <2>1. PICK step \in {"persist", "wedgeFind"} :
           /\ \E n : Becomes(r, [run[r] EXCEPT !.pc = step, !.goal = n])
           /\ step = "wedgeFind" => StuckLongEnough(r)
    <3>1. CASE Progress(r)
      BY <3>1 DEF Progress
    <3>2. CASE StuckLongEnough(r)
      <4>1. \E n : Becomes(r, [run[r] EXCEPT !.pc = "wedgeFind", !.goal = n])
        BY <3>2 DEF StuckLongEnough
      <4> QED
        BY <3>2, <4>1
    <3> QED
      BY <1>5, <3>1, <3>2
  <2>2. run'[r].pc = step /\ run'[r].start = run[r].start
    BY ZenonT(40), <2>1, RunFacts, BecomesIs DEF RunType
  <2>3. run[r].pc = "walk" /\ UNCHANGED ckpt
    BY ZenonT(40), <1>5 DEF Progress, StuckLongEnough, NoProgress, WalkDone, dbVars
  <2> QED
    BY <2>1, <2>2, <2>3 DEF GoesOn, Ranged, Wedged
<1> QED
  BY <1>1, <1>2, <1>3, <1>4, <1>5

LEMMA WedgeGoesOn ==
    ASSUME CoverageInv, NEW r \in Runs, WedgeFind(r) \/ WedgeInsert(r)
    PROVE  GoesOn(r) \/ Ends(r)
<1>1. run[r].pc \in Ranged /\ UNCHANGED ckpt
  BY DEF WedgeFind, WedgeInsert, Ranged, Wedged, dbVars
<1>2. CASE AfterWedge(r)
  BY <1>1, <1>2, AfterWedgeGoesOn
<1>3. CASE Becomes(r, IdleRun)
  BY <1>3, BecomesIs DEF Ends, IdleRun
<1>4. CASE WedgeFind(r) /\ Becomes(r, [run[r] EXCEPT !.pc = "wedgeInsert"])
  BY <1>1, <1>4, RunFacts, BecomesIs DEF GoesOn, RunType, Ranged, Wedged
<1> QED
  BY <1>2, <1>3, <1>4 DEF WedgeFind, WedgeInsert

LEMMA RunEndsOrGoesOn ==
    ASSUME CoverageInv, NEW r \in Runs, RunStep(r) \/ RunFault(r),
           ~(FetchFinal(r) \/ ReadRangeReset(r) \/ ReadRangeWalk(r) \/ ReadOrigin(r))
    PROVE  GoesOn(r) \/ Ends(r)
<1>1. CASE ResetCheckpoints(r) \/ RunFails(r) \/ WriteMart(r)
  BY <1>1, BecomesIs DEF ResetCheckpoints, RunFails, WriteMart, Ends, IdleRun
<1>2. CASE ReadMart(r)
  BY <1>2, RunFacts, BecomesIs DEF ReadMart, Ends, RunType
<1>3. CASE NothingToDo(r) \/ Stuck(r) \/ PersistCheckpoints(r)
  BY <1>3, EndRunEnds DEF NothingToDo, Stuck, PersistCheckpoints
<1>4. Blocks \subseteq Heights /\ Broken \subseteq Heights
  BY DEF Heights
<1> QED
  BY <1>1, <1>2, <1>3, <1>4, HeightGoesOn, RangeGoesOn, WedgeGoesOn DEF RunStep, RunFault

LEMMA SoloRunKeeps ==
    ASSUME CoverageInv, SoloInv, OneRunSlot, NEW r \in Runs, RunStep(r) \/ RunFault(r)
    PROVE  SoloInv'
<1> SUFFICES /\ run'[r].pc \in Ranged => run'[r].start = StartHeight'
             /\ run'[r].pc \in {"range", "origin"} => run'[r].newOrigin = NoRow
             /\ run'[r].pc = "head" /\ run'[r].newOrigin # NoRow => ckpt'.origin = NoRow
  BY DEF OneRunSlot, SoloInv
<1>1. CASE FetchFinal(r)
  <2>1. run'[r].pc = "range" /\ run'[r].newOrigin = NoRow
    BY <1>1, BecomesIs DEF FetchFinal, IdleRun
  <2> QED
    BY <2>1 DEF Ranged
<1>2. CASE ReadRangeReset(r)
  <2>1. run'[r].pc = "resetFind" /\ run'[r].start = StartHeight /\ UNCHANGED ckpt
    BY <1>2, BecomesIs, RunFacts DEF ReadRangeReset, RunType, dbVars
  <2> QED
    BY <2>1 DEF StartHeight
<1>3. CASE ReadRangeWalk(r)
  <2>1. /\ run'[r].pc \in {"head", "origin"} /\ run'[r].start = StartHeight
        /\ run'[r].newOrigin = run[r].newOrigin /\ run[r].pc = "range" /\ UNCHANGED ckpt
    <3>1. PICK step \in {"head", "origin"} :
             \E t : Becomes(r, [run[r] EXCEPT !.pc = step, !.start = StartHeight, !.target = t])
      BY <1>3 DEF ReadRangeWalk
    <3>2. PICK t : Becomes(r, [run[r] EXCEPT !.pc = step, !.start = StartHeight, !.target = t])
      BY <3>1
    <3>3. run'[r] = [run[r] EXCEPT !.pc = step, !.start = StartHeight, !.target = t]
      BY <3>2, BecomesIs
    <3>4. run[r] \in RunType
      BY RunFacts
    <3>5. /\ run'[r].pc = step /\ run'[r].start = StartHeight
          /\ run'[r].newOrigin = run[r].newOrigin
      BY <3>3, <3>4 DEF RunType
    <3>6. run[r].pc = "range" /\ UNCHANGED ckpt
      BY <1>3 DEF ReadRangeWalk, dbVars
    <3> QED
      BY <3>1, <3>5, <3>6
  <2> QED
    BY <2>1 DEF StartHeight, SoloInv
<1>4. CASE ReadOrigin(r)
  <2>1. /\ run[r].pc = "origin" /\ run'[r].pc = "head" /\ run'[r].start = run[r].start
        /\ run'[r].newOrigin # NoRow => ckpt.origin = NoRow
        /\ UNCHANGED ckpt
    <3>1. PICK o : /\ Becomes(r, [run[r] EXCEPT !.pc = "head", !.newOrigin = o])
                   /\ o # NoRow => ckpt.origin = NoRow
      BY <1>4 DEF ReadOrigin
    <3>2. run'[r] = [run[r] EXCEPT !.pc = "head", !.newOrigin = o]
      BY <3>1, BecomesIs
    <3>3. run[r] \in RunType
      BY RunFacts
    <3>4. /\ run'[r].pc = "head" /\ run'[r].start = run[r].start
          /\ run'[r].newOrigin = o
      BY <3>2, <3>3 DEF RunType
    <3>5. run[r].pc = "origin" /\ UNCHANGED ckpt
      BY <1>4 DEF ReadOrigin, dbVars
    <3> QED
      BY <3>1, <3>4, <3>5
  <2> QED
    BY <2>1 DEF StartHeight, SoloInv, Ranged
<1>5. CASE Ends(r)
  BY <1>5 DEF Ends, Ranged
<1>6. CASE GoesOn(r)
  BY <1>6 DEF GoesOn, StartHeight, SoloInv, Ranged
<1> QED
  BY <1>1, <1>2, <1>3, <1>4, <1>5, <1>6, RunEndsOrGoesOn

LEMMA SoloKeeps ==
    ASSUME CoverageInv, SoloInv, OneRunSlot, [Next]_ingestVars PROVE SoloInv'
<1>1. CASE \E r \in Runs : RunStep(r) \/ RunFault(r)
  BY <1>1, SoloRunKeeps
<1>2. CASE Crash
  BY <1>2 DEF Crash, SoloInv, IdleRun, Ranged
<1>3. CASE ChainGrows \/ ThrottleElapses \/ UNCHANGED ingestVars
  BY <1>3 DEF ChainGrows, AdvanceTip, ThrottleElapses, ingestVars, dbVars, SoloInv, StartHeight
<1> QED
  BY <1>1, <1>2, <1>3 DEF Next

LEMMA SoloInit == Init => SoloInv
  BY DEF Init, SoloInv, IdleRun, Ranged

(* What a run writes the scanned checkpoint to lies above it. *)
LEMMA SoloAdvances ==
    ASSUME CoverageInv, SoloInv, NEW r \in Runs, FrontierMoves(r)
    PROVE  ckpt'.scanned > Frontier
<1>1. run[r].start = StartHeight /\ run[r].start <= run[r].goal /\ run[r].goal \in Nat
  BY RangeEnds DEF FrontierMoves, SoloInv, Ranged
<1>2. StartHeight > Frontier /\ StartHeight \in Nat /\ Frontier \in Int
  BY DEF StartHeight, Frontier, MaxOf, NoRow, CoverageInv, TypeOK, DbTypeOK, CkptType
<1> QED
  BY <1>1, <1>2 DEF FrontierMoves

LEMMA SoloSimulates ==
    ASSUME CoverageInv, SoloInv, [Next]_ingestVars
    PROVE  [Coverage!Resolve \/ Coverage!Advance]_(Coverage!vars)
<1>1. CASE \E r \in Runs : FrontierMoves(r)
  <2>1. PICK r \in Runs : FrontierMoves(r)
    BY <1>1
  <2>2. /\ ckpt'.scanned >= BackfillStart /\ ckpt'.scanned \in 0 .. MaxTip
        /\ BackfillStart .. ckpt'.scanned \subseteq Resolved
    BY <2>1, GoalIsCovered DEF FrontierMoves
  <2>3. Frontier' = ckpt'.scanned /\ Frontier' > Frontier
    BY <2>1, <2>2, SoloAdvances DEF Frontier, NoRow
  <2>4. Resolved' = Resolved
    BY <2>1 DEF FrontierMoves, Resolved, Indexed, Ledgered
  <2> QED
    BY <2>2, <2>3, <2>4 DEF Coverage!Advance, Coverage!Move, Coverage!Heights
<1>2. CASE ~\E r \in Runs : FrontierMoves(r)
  <2>1. TablesGrow
    BY <1>2, RunStepIsOneOrTheOther
       DEF Next, ChainGrows, AdvanceTip, ThrottleElapses, Crash, dbVars, ingestVars, TablesGrow
  <2>2. Resolved \subseteq Resolved' /\ Frontier' = Frontier
    BY <2>1, ResolvedGrows DEF TablesGrow, Frontier
  <2>3. Resolved' \in SUBSET Coverage!Heights
    BY DEF Resolved, Heights, Coverage!Heights
  <2> QED
    BY <2>2, <2>3 DEF Coverage!Resolve
<1> QED
  BY <1>1, <1>2

(* With one run at a time the checkpoint also never moves back, whatever     *)
(* fails, across every crash and every force-reset (computeRange starts      *)
(* above the checkpoint, and persistRunCheckpoints ends at or above that).   *)
THEOREM ImplementsMonotoneCoverage == OneRunSlot => (Spec => MonotoneRefinement)
<1> SUFFICES ASSUME OneRunSlot PROVE Spec => MonotoneRefinement
  OBVIOUS
<1>1. Init => Coverage!Init /\ SoloInv
  BY InitSimulates, SoloInit
<1>2. CoverageInv /\ SoloInv /\ [Next]_ingestVars => SoloInv'
  BY SoloKeeps
<1>3. CoverageInv /\ SoloInv /\ [Next]_ingestVars
         => [Coverage!Resolve \/ Coverage!Advance]_(Coverage!vars)
  BY SoloSimulates
<1> QED
  BY <1>1, <1>2, <1>3, CoverageInvariant, PTL DEF Spec, MonotoneRefinement, Coverage!MonotoneSpec

LEMMA SoloOriginStays ==
    ASSUME CoverageInv, SoloInv, [Next]_ingestVars, ckpt.origin # NoRow
    PROVE  ckpt'.origin = ckpt.origin
<1>1. ckpt \in CkptType
  BY DEF CoverageInv, TypeOK, DbTypeOK
<1>2. ASSUME NEW r \in Runs, WriteHead(r) PROVE ckpt'.origin = ckpt.origin
  <2>1. run[r].newOrigin = NoRow
    BY <1>2 DEF WriteHead, SoloInv
  <2> QED
    BY <1>1, <1>2, <2>1 DEF WriteHead, CkptType
<1>3. ASSUME NEW r \in Runs, ResetCheckpoints(r) \/ PersistCheckpoints(r)
      PROVE  ckpt'.origin = ckpt.origin
  BY <1>1, <1>3 DEF ResetCheckpoints, PersistCheckpoints, CkptType
<1>4. ASSUME NEW r \in Runs, RunStep(r) \/ RunFault(r),
             ~(WriteHead(r) \/ ResetCheckpoints(r) \/ PersistCheckpoints(r))
      PROVE  ckpt' = ckpt
  BY <1>4
     DEF RunStep, RunFault, FetchFinal, ReadRangeReset, ReadRangeWalk, ResetFind, FindRange,
         ResetInsert, InsertRange, ReadOrigin, PersistBlock, JudgeAbsent, ChunkGone, FetchFails,
         InsertFails, RetryHoles, Progress, NothingToDo, Stuck, StuckLongEnough, WedgeFind,
         WedgeInsert, ReadMart, WriteMart, RunFails, dbVars
<1> QED
  BY <1>2, <1>3, <1>4 DEF Next, ChainGrows, AdvanceTip, ThrottleElapses, Crash, dbVars, ingestVars

(* With one run at a time the backfill origin, once written, stays: neither  *)
(* a restart nor a failed run writes another (backfillOriginObserved).       *)
THEOREM OriginStands == OneRunSlot => (Spec => OriginIsStable)
<1> SUFFICES ASSUME OneRunSlot PROVE Spec => OriginIsStable
  OBVIOUS
<1>1. Init => SoloInv
  BY SoloInit
<1>2. CoverageInv /\ SoloInv /\ [Next]_ingestVars => SoloInv'
  BY SoloKeeps
<1>3. CoverageInv /\ SoloInv /\ [Next]_ingestVars
         => [ckpt.origin # NoRow => ckpt'.origin = ckpt.origin]_ingestVars
  BY SoloOriginStays
<1> QED
  BY <1>1, <1>2, <1>3, CoverageInvariant, PTL DEF Spec, OriginIsStable
-------------------------------------------------------------------------------
(* What a run about to record a wedge knows of it. *)
WedgeInv ==
    \A r \in Runs :
       run[r].pc \in Wedged =>
          run[r].start .. run[r].goal \subseteq run[r].failed \cap run[r].gone

LEMMA WedgeRunKeeps ==
    ASSUME CoverageInv, WedgeInv, NEW r \in Runs, RunStep(r) \/ RunFault(r)
    PROVE  run'[r].pc \in Wedged =>
              run'[r].start .. run'[r].goal \subseteq run'[r].failed \cap run'[r].gone
<1>1. CASE StuckLongEnough(r)
  <2>1. PICK w : /\ EndsWedge(r, w)
                 /\ Becomes(r, [run[r] EXCEPT !.pc = "wedgeFind", !.goal = w])
    BY <1>1 DEF StuckLongEnough
  <2>2. run[r].start .. w \subseteq run[r].failed \cap run[r].gone
    BY <2>1 DEF EndsWedge, EndsPrefix
  <2>3. /\ run'[r].start = run[r].start /\ run'[r].goal = w
        /\ run'[r].failed = run[r].failed /\ run'[r].gone = run[r].gone
    BY <2>1, RunFacts, BecomesIs DEF RunType
  <2> QED
    BY <2>2, <2>3
<1>2. CASE WedgeFind(r) /\ AfterWedge(r)
  <2>1. PICK n, c, f :
           Becomes(r, [run[r] EXCEPT !.pc = "persist", !.completed = c, !.failed = f, !.goal = n])
    BY <1>2 DEF AfterWedge
  <2>2. run'[r].pc = "persist"
    BY <2>1, RunFacts, BecomesIs DEF RunType
  <2> QED
    BY <2>2 DEF Wedged
<1>3. CASE WedgeFind(r) /\ ~AfterWedge(r)
  <2>1. Becomes(r, [run[r] EXCEPT !.pc = "wedgeInsert"]) /\ run[r].pc = "wedgeFind"
    BY <1>3 DEF WedgeFind
  <2>2. /\ run'[r].start = run[r].start /\ run'[r].goal = run[r].goal
        /\ run'[r].failed = run[r].failed /\ run'[r].gone = run[r].gone
    BY <2>1, RunFacts, BecomesIs DEF RunType
  <2> QED
    BY <2>1, <2>2 DEF WedgeInv, Wedged
<1>4. CASE FetchFinal(r) \/ ReadRangeReset(r) \/ ReadRangeWalk(r) \/ ReadOrigin(r)
  <2>1. run'[r].pc \in {"range", "resetFind", "head", "origin"}
    <3>1. CASE FetchFinal(r)
      BY <3>1, BecomesIs DEF FetchFinal, IdleRun
    <3>2. CASE ReadRangeReset(r)
      BY ZenonT(40), <3>2, RunFacts, BecomesIs DEF ReadRangeReset, RunType
    <3>3. CASE ReadRangeWalk(r)
      <4>1. PICK step \in {"head", "origin"} :
               \E t : Becomes(r, [run[r] EXCEPT !.pc = step, !.start = StartHeight, !.target = t])
        BY <3>3 DEF ReadRangeWalk
      <4> QED
        BY <4>1, BecomesIs, RunFacts DEF RunType
    <3>4. CASE ReadOrigin(r)
      <4>1. PICK o : Becomes(r, [run[r] EXCEPT !.pc = "head", !.newOrigin = o])
        BY <3>4 DEF ReadOrigin
      <4> QED
        BY <4>1, BecomesIs, RunFacts DEF RunType
    <3> QED
      BY <1>4, <3>1, <3>2, <3>3, <3>4
  <2> QED
    BY <2>1 DEF Wedged
<1> QED
  BY <1>1, <1>2, <1>3, <1>4, RunEndsOrGoesOn DEF GoesOn, Ends, Wedged

LEMMA WedgeKeeps ==
    ASSUME CoverageInv, WedgeInv, [Next]_ingestVars PROVE WedgeInv'
<1>1. CASE \E r \in Runs : RunStep(r) \/ RunFault(r)
  <2>1. PICK r \in Runs : RunStep(r) \/ RunFault(r)
    BY SMTT(30), <1>1
  <2>2. \E x : Becomes(r, x)
    BY ZenonT(40), <2>1
       DEF RunStep, RunFault, FetchFinal, ReadRangeReset, ReadRangeWalk, ResetFind, FindRange,
           ResetInsert, InsertRange, ResetCheckpoints, ReadOrigin, WriteHead, PersistBlock,
           JudgeAbsent, ChunkGone, FetchFails, FailHeight, InsertFails, RetryHoles, Progress,
           NothingToDo, Stuck, StuckLongEnough, WedgeFind, WedgeInsert, AfterWedge,
           PersistCheckpoints, EndRun, ReadMart, WriteMart, RunFails
  <2>3. \A q \in Runs : q # r => run'[q] = run[q]
    BY <2>2 DEF Becomes, CoverageInv, TypeOK
  <2> QED
    BY <2>1, <2>3, WedgeRunKeeps DEF WedgeInv
<1>2. CASE Crash
  BY <1>2 DEF Crash, WedgeInv, IdleRun, Wedged
<1>3. CASE ChainGrows \/ ThrottleElapses \/ UNCHANGED ingestVars
  BY <1>3 DEF ChainGrows, ThrottleElapses, ingestVars, WedgeInv
<1> QED
  BY <1>1, <1>2, <1>3 DEF Next

(* A range that a step adds to the ledger as a wedge. *)
LEMMA WedgeIsUnfetchable ==
    ASSUME CoverageInv, WedgeInv, [Next]_ingestVars, NEW g \in ledger' \ ledger,
           g.reason = "wedged frontier"
    PROVE  \E r \in Runs : g.start .. g.end \subseteq run[r].failed \cap run[r].gone
<1>1. PICK r \in Runs : WedgeInsert(r) \/ ResetInsert(r)
  <2>1. ASSUME NEW r \in Runs, RunStep(r) \/ RunFault(r), ~(WedgeInsert(r) \/ ResetInsert(r))
        PROVE  ledger' = ledger
    BY ZenonT(40), <2>1
       DEF RunStep, RunFault, FetchFinal, ReadRangeReset, ReadRangeWalk, ResetFind, FindRange,
           ResetCheckpoints, ReadOrigin, WriteHead, PersistBlock, JudgeAbsent, ChunkGone,
           FetchFails, InsertFails, RetryHoles, Progress, NothingToDo, Stuck, StuckLongEnough,
           WedgeFind, PersistCheckpoints, ReadMart, WriteMart, RunFails, dbVars
  <2> QED
    BY ZenonT(40), <2>1 DEF Next, ChainGrows, AdvanceTip, ThrottleElapses, Crash, dbVars, ingestVars
<1>2. /\ WedgeInsert(r)
      /\ g = [start |-> run[r].start, end |-> run[r].goal, reason |-> "wedged frontier"]
  <2>1. CASE ResetInsert(r)
    <3>1. g = [start |-> run[r].start, end |-> run[r].goal, reason |-> "force-reset"]
      BY <2>1 DEF ResetInsert, InsertRange
    <3> QED
      BY <3>1
  <2>2. CASE WedgeInsert(r)
    BY <2>2 DEF WedgeInsert
  <2> QED
    BY <1>1, <2>1, <2>2
<1>3. g.start = run[r].start /\ g.end = run[r].goal /\ run[r].pc = "wedgeInsert"
  BY <1>2 DEF WedgeInsert
<1> QED
  BY <1>3 DEF WedgeInv, Wedged

(* However many runs overlap: a wedge skip gives up only on heights whose    *)
(* last attempt in the run that gives up on them was "unfetchable            *)
(* everywhere" (the filter of the failed heights in runOnce's wedge branch). *)
THEOREM WedgesAreUnfetchable == Spec => WedgeSkipsOnlyUnfetchable
<1>1. Init => WedgeInv
  BY DEF Init, WedgeInv, IdleRun, Wedged
<1>2. CoverageInv /\ WedgeInv /\ [Next]_ingestVars => WedgeInv'
  BY WedgeKeeps
<1>3. CoverageInv /\ WedgeInv /\ [Next]_ingestVars
         => [\A g \in ledger' \ ledger :
               g.reason = "wedged frontier" =>
                  \E r \in Runs : g.start .. g.end \subseteq run[r].failed \cap run[r].gone
            ]_ingestVars
  BY WedgeIsUnfetchable
<1> QED
  BY <1>1, <1>2, <1>3, CoverageInvariant, PTL DEF Spec, WedgeSkipsOnlyUnfetchable

-------------------------------------------------------------------------------
(* IngestOps. *)

USE SkipAssumption

LEMMA SkipOKMonotone ==
    ASSUME NEW x, NEW S, NEW T, S \subseteq T, SkipOK(x, S)
    PROVE  SkipOK(x, T)
  BY DEF SkipOK

(* A skip that returned, begins or is begun anew knows and needs nothing. *)
LEMMA FreshSkips ==
    ASSUME NEW x \in {IdleSkip, Booting, [IdleSkip EXCEPT !.pc = "scanned"]}, NEW S
    PROVE  x \in SkipType /\ SkipOK(x, S)
<1>1. IdleSkip \in SkipType
  <2>1. 0 \in 0 .. MaxTip /\ {} \in SUBSET SkipKeys /\ "done" \in SkipSteps
    BY DEF SkipSteps
  <2> QED
    BY <2>1 DEF IdleSkip, SkipType
<1>2. /\ IdleSkip.pc = "done" /\ Booting.pc = "guardScanned"
      /\ [IdleSkip EXCEPT !.pc = "scanned"].pc = "scanned"
  BY DEF IdleSkip, Booting
<1>3. /\ ~IdleSkip.failed /\ ~Booting.failed
      /\ ~[IdleSkip EXCEPT !.pc = "scanned"].failed
  <2>1. IdleSkip.failed = FALSE
    BY DEF IdleSkip
  <2>2. /\ Booting.failed = IdleSkip.failed
        /\ [IdleSkip EXCEPT !.pc = "scanned"].failed = IdleSkip.failed
    BY <1>1 DEF Booting, SkipType
  <2> QED
    BY <2>1, <2>2, Zenon
<1>4. Booting \in SkipType /\ [IdleSkip EXCEPT !.pc = "scanned"] \in SkipType
  BY <1>1 DEF Booting, SkipType, SkipSteps
<1> QED
  BY <1>1, <1>2, <1>3, <1>4 DEF SkipOK

LEMMA SkipFacts ==
    ASSUME OpsInv, NEW p \in Skippers
    PROVE  /\ skip[p] \in SkipType /\ SkipOK(skip[p], Resolved)
           /\ ckpt \in CkptType /\ DbTypeOK
           /\ CoverageInv
  BY DEF OpsInv, SkipTypeOK, CoverageInv, TypeOK, DbTypeOK

-------------------------------------------------------------------------------
(* Ingestion under a skip. *)

(* A step of ingestion leaves the resolved heights resolved. *)
LEMMA IngestResolvesMore ==
    ASSUME CoverageInv, [Next]_ingestVars
    PROVE  Resolved \subseteq Resolved'
  BY StepSimulates DEF Coverage!Resolve, Coverage!Move, Coverage!vars

LEMMA IngestKeeps ==
    ASSUME OpsInv, [Next]_ingestVars, SkipTypeOK', SeedTypeOK', up' \in BOOLEAN,
           \A p \in Skippers : skip'[p] \in {skip[p], IdleSkip, Booting}
    PROVE  OpsInv'
<1>1. CoverageInv' /\ Resolved \subseteq Resolved'
  BY NextKeepsCoverage, IngestResolvesMore DEF OpsInv
<1>2. ASSUME NEW p \in Skippers PROVE SkipOK(skip'[p], Resolved')
  <2>1. CASE skip'[p] = skip[p]
    BY <1>1, <2>1, SkipFacts, SkipOKMonotone
  <2>2. CASE skip'[p] \in {IdleSkip, Booting}
    BY <2>2, FreshSkips
  <2> QED
    BY <2>1, <2>2
<1> QED
  BY <1>1, <1>2 DEF OpsInv

-------------------------------------------------------------------------------
(* A skip's own steps. *)

(* A skip goes on; the tables, the runs and the worker are as they were. *)
LEMMA SkipTurns ==
    ASSUME OpsInv, UNCHANGED <<dbVars, run, mem, mart, up, seed>>,
           NEW p \in Skippers, NEW x \in SkipType, Turns(p, x), SkipOK(x, Resolved)
    PROVE  OpsInv'
<1>1. Resolved' = Resolved
  BY DEF Resolved, Indexed, Ledgered, dbVars
<1>2. CoverageInv'
  BY <1>1 DEF OpsInv, CoverageInv, TypeOK, DbTypeOK, Covered, dbVars
<1>3. skip' \in [Skippers -> SkipType] /\ \A q \in Skippers : SkipOK(skip'[q], Resolved)
  BY DEF Turns, OpsInv, SkipTypeOK
<1> QED
  BY <1>1, <1>2, <1>3 DEF OpsInv, SkipTypeOK, SeedTypeOK

LEMMA SkipReturns ==
    ASSUME OpsInv, UNCHANGED <<dbVars, run, mem, mart, up, seed>>, NEW p \in Skippers, Returns(p)
    PROVE  OpsInv'
  BY FreshSkips, SkipTurns DEF Returns

(* What a read of the scanned checkpoint tells. *)
LEMMA ScannedIsCovered ==
    ASSUME OpsInv, ckpt.scanned # NoRow
    PROVE  /\ ckpt.scanned \in 0 .. MaxTip /\ ckpt.scanned >= BackfillStart
           /\ BackfillStart .. ckpt.scanned \subseteq Resolved
  BY DEF OpsInv, CoverageInv, TypeOK, DbTypeOK, CkptType, Covered

LEMMA ReadScannedSteps ==
    ASSUME OpsInv, UNCHANGED <<run, mem, mart, up, seed>>, NEW p \in Skippers,
           GuardReadScanned(p) \/ SkipReadScanned(p)
    PROVE  OpsInv'
<1>1. UNCHANGED dbVars /\ ~skip[p].failed
  BY SkipFacts DEF GuardReadScanned, SkipReadScanned, SkipOK
<1>2. CASE ckpt.scanned = NoRow
  BY <1>1, <1>2, SkipReturns DEF GuardReadScanned, SkipReadScanned
<1>3. CASE ckpt.scanned # NoRow
  <2>1. PICK step \in {"guardFinal", "final"} :
           Turns(p, [skip[p] EXCEPT !.pc = step, !.seen = ckpt.scanned])
    BY <1>3 DEF GuardReadScanned, SkipReadScanned
  <2> DEFINE x == [skip[p] EXCEPT !.pc = step, !.seen = ckpt.scanned]
  <2>2. x \in SkipType
    BY <1>3, SkipFacts, ScannedIsCovered DEF SkipType, SkipSteps
  <2>3. x.pc = step /\ x.seen = ckpt.scanned /\ ~x.failed
    BY <1>1, SkipFacts DEF SkipType
  <2>4. Turns(p, x)
    BY <2>1
  <2> HIDE DEF x
  <2>5. SkipOK(x, Resolved)
    BY <1>3, <2>3, ScannedIsCovered DEF SkipOK
  <2> QED
    BY <1>1, <2>2, <2>4, <2>5, SkipTurns
<1> QED
  BY <1>2, <1>3

(* Steps of the guard that only decide whether to go on. *)
LEMMA GuardDecides ==
    ASSUME OpsInv, UNCHANGED <<run, mem, mart, up, seed>>, NEW p \in Skippers,
           GuardFetchFinal(p) \/ GuardProbe(p)
    PROVE  OpsInv'
<1>1. /\ UNCHANGED dbVars /\ ~skip[p].failed
      /\ skip[p].seen >= BackfillStart
  BY SkipFacts DEF GuardFetchFinal, GuardProbe, SkipOK
<1>2. ASSUME NEW step \in {"guardProbe", "scanned"}, Turns(p, [skip[p] EXCEPT !.pc = step])
      PROVE  OpsInv'
  <2> DEFINE x == [skip[p] EXCEPT !.pc = step]
  <2>1. x \in SkipType
    BY SkipFacts DEF SkipType, SkipSteps
  <2>2. x.pc = step /\ x.seen = skip[p].seen /\ ~x.failed
    BY <1>1, SkipFacts DEF SkipType
  <2>3. Turns(p, x)
    BY <1>2
  <2> HIDE DEF x
  <2>4. SkipOK(x, Resolved)
    BY <1>1, <2>2 DEF SkipOK
  <2> QED
    BY <1>1, <2>1, <2>3, <2>4, SkipTurns
<1> QED
  BY <1>1, <1>2, SkipReturns DEF GuardFetchFinal, GuardProbe

LEMMA FetchFinalSteps ==
    ASSUME OpsInv, UNCHANGED <<run, mem, mart, up, seed>>, NEW p \in Skippers, SkipFetchFinal(p)
    PROVE  OpsInv'
<1>1. /\ UNCHANGED dbVars /\ skip[p].pc = "final" /\ ~skip[p].failed
      /\ skip[p].seen \in 0 .. MaxTip /\ skip[p].seen >= BackfillStart
      /\ BackfillStart .. skip[p].seen \subseteq Resolved
  BY SkipFacts DEF SkipFetchFinal, SkipOK, SkipType
<1>2. PICK l \in Blocks :
         IF l - SkipLag - 1 > skip[p].seen
         THEN Turns(p, [skip[p] EXCEPT !.pc = "find", !.latest = l, !.goal = l - SkipLag - 1])
         ELSE Returns(p)
  BY DEF SkipFetchFinal, FinalBlocks
<1> DEFINE gapEnd == l - SkipLag - 1
           x == [skip[p] EXCEPT !.pc = "find", !.latest = l, !.goal = gapEnd]
<1>3. CASE gapEnd > skip[p].seen
  <2>1. l \in 0 .. MaxTip /\ gapEnd \in 0 .. MaxTip
    BY <1>1, <1>3
  <2>2. Turns(p, x)
    BY <1>2, <1>3
  <2> HIDE DEF gapEnd
  <2>3. x \in SkipType
    BY <2>1, SkipFacts DEF SkipType, SkipSteps
  <2>4. x.pc = "find" /\ x.seen = skip[p].seen /\ x.goal = gapEnd /\ ~x.failed
    BY <1>1, SkipFacts DEF SkipType
  <2> HIDE DEF x
  <2>5. SkipOK(x, Resolved)
    BY <1>1, <1>3, <2>4 DEF SkipOK
  <2> QED
    BY <1>1, <2>2, <2>3, <2>5, SkipTurns
<1>4. CASE ~(gapEnd > skip[p].seen)
  BY <1>1, <1>2, <1>4, SkipReturns
<1> QED
  BY <1>3, <1>4

(* A skip about to record its range. *)
LEMMA GapFacts ==
    ASSUME OpsInv, NEW p \in Skippers, skip[p].pc \in {"find", "insert"}
    PROVE  /\ skip[p].seen \in Nat /\ skip[p].goal \in Nat /\ ~skip[p].failed
           /\ BackfillStart <= skip[p].seen /\ skip[p].seen < skip[p].goal
           /\ skip[p].goal <= MaxTip
           /\ BackfillStart .. skip[p].seen \subseteq Resolved
  BY SkipFacts DEF SkipType, SkipOK

(* Once the range is in the ledger, everything up to its end is resolved. *)
LEMMA ToTheHash ==
    ASSUME OpsInv, NEW p \in Skippers, skip[p].pc \in {"find", "insert"}, NEW S,
           Resolved \subseteq S, skip[p].seen + 1 .. skip[p].goal \subseteq S
    PROVE  LET x == [skip[p] EXCEPT !.pc = "hash"] IN x \in SkipType /\ SkipOK(x, S)
<1> DEFINE x == [skip[p] EXCEPT !.pc = "hash"]
<1>1. x \in SkipType
  BY SkipFacts DEF SkipType, SkipSteps
<1>2. /\ x.pc = "hash" /\ x.seen = skip[p].seen /\ x.goal = skip[p].goal
      /\ ~x.failed
  BY SkipFacts, GapFacts DEF SkipType
<1> HIDE DEF x
<1>3. BackfillStart .. skip[p].goal \subseteq S
  BY GapFacts
<1>4. SkipOK(x, S)
  BY <1>2, <1>3, GapFacts DEF SkipOK
<1> QED
  BY <1>1, <1>4 DEF x

LEMMA FindSteps ==
    ASSUME OpsInv, UNCHANGED <<run, mem, mart, up, seed>>, NEW p \in Skippers, SkipFind(p)
    PROVE  OpsInv'
<1>1. UNCHANGED dbVars /\ skip[p].pc = "find"
  BY DEF SkipFind
<1>2. CASE HasRange(skip[p].seen + 1, skip[p].goal)
  <2>1. Turns(p, [skip[p] EXCEPT !.pc = "hash"])
    BY <1>2 DEF SkipFind
  <2>2. skip[p].seen + 1 .. skip[p].goal \subseteq Resolved
    BY <1>1, <1>2, GapFacts, RangeResolves
  <2> QED
    BY <1>1, <2>1, <2>2, ToTheHash, SkipTurns
<1>3. CASE ~HasRange(skip[p].seen + 1, skip[p].goal)
  <2> DEFINE x == [skip[p] EXCEPT !.pc = "insert"]
  <2>1. Turns(p, x)
    BY <1>3 DEF SkipFind
  <2>2. x \in SkipType
    BY SkipFacts DEF SkipType, SkipSteps
  <2>3. /\ x.pc = "insert" /\ x.seen = skip[p].seen /\ x.goal = skip[p].goal
        /\ ~x.failed
    BY <1>1, SkipFacts, GapFacts DEF SkipType
  <2> HIDE DEF x
  <2>4. SkipOK(x, Resolved)
    BY <1>1, <2>3, GapFacts DEF SkipOK
  <2> QED
    BY <1>1, <2>1, <2>2, <2>4, SkipTurns
<1> QED
  BY <1>2, <1>3

LEMMA InsertSteps ==
    ASSUME OpsInv, UNCHANGED <<run, mem, mart, up, seed>>, NEW p \in Skippers, SkipInsert(p)
    PROVE  OpsInv'
<1>1. skip[p].pc = "insert" /\ UNCHANGED <<tip, ckpt, rows, absent>>
  BY DEF SkipInsert
<1>2. CASE HasRange(skip[p].seen + 1, skip[p].goal)
  BY <1>1, <1>2, SkipReturns DEF SkipInsert, dbVars
<1>3. CASE ~HasRange(skip[p].seen + 1, skip[p].goal)
  <2> DEFINE x == [skip[p] EXCEPT !.pc = "hash"]
  <2>1. /\ ledger' = ledger \cup {[start |-> skip[p].seen + 1, end |-> skip[p].goal,
                                   reason |-> "skip-forward"]}
        /\ Turns(p, x)
    BY <1>3 DEF SkipInsert
  <2>2. skip[p].seen + 1 \in Nat /\ skip[p].seen + 1 >= BackfillStart /\ CoverageInv
    BY <1>1, GapFacts, SkipFacts
  <2>3. /\ DbTypeOK' /\ Resolved \subseteq Resolved'
        /\ skip[p].seen + 1 .. skip[p].goal \subseteq Resolved'
    BY <1>1, <2>1, <2>2, GapFacts, LedgerInsert DEF Reasons
  <2>4. x \in SkipType /\ SkipOK(x, Resolved')
    BY <1>1, <2>3, ToTheHash
  <2> HIDE DEF x
  <2>5. CoverageInv'
    <3>1. \A r \in Runs : RunOK(run[r], Resolved')
      BY <2>2, <2>3, RunOKMonotone DEF CoverageInv
    <3>2. Covered(ckpt.scanned)' /\ (ckpt.scanned # NoRow => ckpt.scanned >= BackfillStart)'
      BY <1>1, <2>2, <2>3 DEF CoverageInv, Covered
    <3> QED
      BY <2>2, <2>3, <3>1, <3>2 DEF CoverageInv, TypeOK
  <2>6. /\ skip' \in [Skippers -> SkipType]
        /\ \A q \in Skippers : skip'[q] = skip[q] \/ (q = p /\ skip'[q] = x)
    BY <2>1, <2>4 DEF Turns, OpsInv, SkipTypeOK
  <2>7. ASSUME NEW q \in Skippers PROVE SkipOK(skip'[q], Resolved')
    BY <2>3, <2>4, <2>6, SkipFacts, SkipOKMonotone
  <2> QED
    BY <2>5, <2>6, <2>7 DEF OpsInv, SkipTypeOK, SeedTypeOK
<1> QED
  BY <1>2, <1>3

(* A skip past its ledger entry, writing or about to. *)
LEMMA WriteFacts ==
    ASSUME OpsInv, NEW p \in Skippers, skip[p].pc \in {"hash", "write"}
    PROVE  /\ skip[p].goal \in 0 .. MaxTip /\ skip[p].goal >= BackfillStart
           /\ skip[p].seen >= BackfillStart
           /\ BackfillStart .. skip[p].goal \subseteq Resolved
  BY SkipFacts DEF SkipType, SkipOK

LEMMA FetchHashSteps ==
    ASSUME OpsInv, UNCHANGED <<run, mem, mart, up, seed>>, NEW p \in Skippers, SkipFetchHash(p)
    PROVE  OpsInv'
<1>1. UNCHANGED dbVars /\ skip[p].pc = "hash"
  BY DEF SkipFetchHash
<1>2. PICK known \in BOOLEAN :
         Turns(p, [skip[p] EXCEPT !.pc = "write", !.known = known, !.todo = SkipKeys])
  <2>1. (skip[p].goal \in Blocks) \in BOOLEAN /\ FALSE \in BOOLEAN
    BY SMT
  <2> QED
    BY <2>1, Zenon DEF SkipFetchHash
<1> DEFINE x == [skip[p] EXCEPT !.pc = "write", !.known = known, !.todo = SkipKeys]
<1>3. x \in SkipType
  BY SkipFacts DEF SkipType, SkipSteps
<1>4. x.pc = "write" /\ x.goal = skip[p].goal /\ x.seen = skip[p].seen
  BY SkipFacts DEF SkipType
<1>5. Turns(p, x)
  BY <1>2
<1> HIDE DEF x
<1>6. SkipOK(x, Resolved)
  BY <1>1, <1>4, WriteFacts DEF SkipOK
<1> QED
  BY <1>1, <1>3, <1>5, <1>6, SkipTurns

(* One of the statements is over, with what it wrote, if it wrote. *)
LEMMA WriteSteps ==
    ASSUME OpsInv, UNCHANGED <<run, mem, mart, up, seed>>, NEW p \in Skippers, NEW key \in SkipKeys,
           SkipWrite(p, key) \/ SkipWriteFails(p, key)
    PROVE  OpsInv'
<1>1. skip[p].pc = "write" /\ UNCHANGED <<tip, ledger, rows, absent>>
  BY DEF SkipWrite, SkipWriteFails, dbVars
<1>2. PICK x \in SkipType : Turns(p, x) /\ SkipOK(x, Resolved)
  <2>1. PICK failed \in {skip[p].failed, TRUE} :
           Turns(p, [skip[p] EXCEPT !.todo = skip[p].todo \ {key}, !.failed = failed])
    <3>1. CASE SkipWrite(p, key)
      <4>1. [skip[p] EXCEPT !.todo = skip[p].todo \ {key}]
              = [skip[p] EXCEPT !.todo = skip[p].todo \ {key}, !.failed = skip[p].failed]
        BY SkipFacts DEF SkipType
      <4> QED
        BY <3>1, <4>1 DEF SkipWrite
    <3>2. CASE SkipWriteFails(p, key)
      BY <3>2 DEF SkipWriteFails
    <3> QED
      BY <3>1, <3>2
  <2> DEFINE y == [skip[p] EXCEPT !.todo = skip[p].todo \ {key}, !.failed = failed]
  <2>2. y \in SkipType
    BY SkipFacts DEF SkipType
  <2>3. y.pc = "write" /\ y.goal = skip[p].goal /\ y.seen = skip[p].seen
    BY <1>1, SkipFacts DEF SkipType
  <2>4. Turns(p, y)
    BY <2>1
  <2> HIDE DEF y
  <2>5. SkipOK(y, Resolved)
    BY <1>1, <2>3, WriteFacts DEF SkipOK
  <2> QED
    BY <2>2, <2>4, <2>5
<1>3. /\ ckpt' \in CkptType
      /\ ckpt'.scanned \in {ckpt.scanned, skip[p].goal}
  <2>1. ckpt \in CkptType /\ skip[p].goal \in 0 .. MaxTip /\ skip[p].latest \in 0 .. MaxTip
    BY SkipFacts DEF SkipType
  <2>2. CASE SkipWriteFails(p, key)
    BY <2>1, <2>2 DEF SkipWriteFails, dbVars
  <2>3. CASE SkipWrite(p, key)
    BY <2>1, <2>3 DEF SkipWrite, CkptWith, SkipKeys, CkptType, NoRow
  <2> QED
    BY <2>2, <2>3
<1>4. Resolved' = Resolved
  BY <1>1 DEF Resolved, Indexed, Ledgered
<1>5. CoverageInv'
  <2>1. Covered(ckpt.scanned)' /\ (ckpt.scanned # NoRow => ckpt.scanned >= BackfillStart)'
    BY <1>1, <1>3, <1>4, WriteFacts DEF OpsInv, CoverageInv, Covered
  <2>2. TypeOK' /\ \A r \in Runs : RunOK(run'[r], Resolved)
    BY <1>1, <1>3 DEF OpsInv, CoverageInv, TypeOK, DbTypeOK
  <2> QED
    BY <1>4, <2>1, <2>2 DEF CoverageInv
<1>6. skip' \in [Skippers -> SkipType] /\ \A q \in Skippers : SkipOK(skip'[q], Resolved)
  BY <1>2 DEF Turns, OpsInv, SkipTypeOK
<1> QED
  BY <1>4, <1>5, <1>6 DEF OpsInv, SkipTypeOK, SeedTypeOK

LEMMA SkipKeeps ==
    ASSUME OpsInv, UNCHANGED <<run, mem, mart, up, seed>>, NEW p \in Skippers,
           SkipNext(p) \/ SkipStart(p)
    PROVE  OpsInv'
<1>1. CASE SkipDone(p) \/ SkipFails(p)
  BY <1>1, SkipReturns DEF SkipDone, SkipFails
<1>2. CASE SkipStart(p)
  BY <1>2, FreshSkips, SkipTurns DEF SkipStart
<1> QED
  BY <1>1, <1>2, ReadScannedSteps, GuardDecides, FetchFinalSteps, FindSteps, InsertSteps,
     FetchHashSteps, WriteSteps DEF SkipNext

-------------------------------------------------------------------------------
(* The seed command adds ranges, whatever they are, and nothing else. *)

LEMMA MoreLedger ==
    ASSUME OpsInv, UNCHANGED <<tip, ckpt, rows, absent, run, mem, mart, skip, up>>, SeedTypeOK',
           ledger \subseteq ledger', ledger' \subseteq RangeType
    PROVE  OpsInv'
<1>1. Resolved \subseteq Resolved'
  BY ResolvedGrows
<1>2. CoverageInv'
  <2>1. \A r \in Runs : RunOK(run[r], Resolved')
    BY <1>1, RunOKMonotone DEF OpsInv, CoverageInv
  <2>2. Covered(ckpt.scanned)' /\ (ckpt.scanned # NoRow => ckpt.scanned >= BackfillStart)'
    BY <1>1 DEF OpsInv, CoverageInv, Covered
  <2> QED
    BY <2>1, <2>2 DEF OpsInv, CoverageInv, TypeOK, DbTypeOK
<1>3. \A p \in Skippers : SkipOK(skip[p], Resolved')
  BY <1>1, SkipOKMonotone DEF OpsInv
<1> QED
  BY <1>2, <1>3 DEF OpsInv, SkipTypeOK

LEMMA SeedKeeps ==
    ASSUME OpsInv, SeedStarts \/ SeedSteps \/ SeedDies PROVE OpsInv'
<1>1. /\ seed.todo \subseteq SeedFile /\ seed.missing \subseteq SeedFile
      /\ seed \in [todo : SUBSET SeedFile, missing : SUBSET SeedFile]
      /\ IdleSeed \in [todo : SUBSET SeedFile, missing : SUBSET SeedFile]
      /\ ledger \subseteq RangeType
  BY DEF OpsInv, SeedTypeOK, IdleSeed, CoverageInv, TypeOK, DbTypeOK
<1>2. CASE SeedStarts \/ SeedDies \/ \E g \in SeedFile : SeedFinds(g)
  <2>1. SeedTypeOK'
    BY <1>1, <1>2 DEF SeedStarts, SeedDies, SeedFinds, SeedTypeOK
  <2>2. UNCHANGED <<tip, ckpt, ledger, rows, absent, run, mem, mart, skip, up>>
    BY <1>2 DEF SeedStarts, SeedDies, SeedFinds, ingestVars
  <2> QED
    BY <1>1, <2>1, <2>2, MoreLedger
<1>3. ASSUME NEW g \in SeedFile, SeedInserts(g) PROVE OpsInv'
  <2>1. SeedTypeOK'
    BY <1>1, <1>3 DEF SeedInserts, SeedTypeOK
  <2>2. [start |-> g.start, end |-> g.end, reason |-> "legacy"] \in RangeType
    BY SeedAssumption DEF RangeType, Reasons
  <2>3. ledger \subseteq ledger' /\ ledger' \subseteq RangeType
    BY <1>1, <1>3, <2>2 DEF SeedInserts
  <2> QED
    BY <1>3, <2>1, <2>3, MoreLedger DEF SeedInserts
<1> QED
  BY <1>2, <1>3 DEF SeedSteps

-------------------------------------------------------------------------------
(* The composition. *)

LEMMA OpsInitHolds == OpsInit => OpsInv
<1> SUFFICES ASSUME OpsInit PROVE OpsInv
  OBVIOUS
<1>1. CoverageInv
  BY InitCoverage DEF OpsInit
<1>2. \A p \in Skippers : skip[p] \in {IdleSkip, Booting}
  BY DEF OpsInit
<1>3. \A p \in Skippers : skip[p] \in SkipType /\ SkipOK(skip[p], Resolved)
  BY <1>2, FreshSkips
<1>4. SkipTypeOK
  BY <1>3 DEF OpsInit, SkipTypeOK
<1>5. up \in BOOLEAN
  BY Zenon DEF OpsInit
<1>6. SeedTypeOK
  BY DEF OpsInit, SeedTypeOK, IdleSeed
<1> QED
  BY <1>1, <1>3, <1>4, <1>5, <1>6 DEF OpsInv

LEMMA OpsNextKeeps == OpsInv /\ [OpsNext]_opsVars => OpsInv'
<1> SUFFICES ASSUME OpsInv, [OpsNext]_opsVars PROVE OpsInv'
  OBVIOUS
<1>1. /\ skip \in [Skippers -> SkipType] /\ up \in BOOLEAN
      /\ UNCHANGED seed => SeedTypeOK'
  BY DEF OpsInv, SkipTypeOK, SeedTypeOK
<1>2. CASE WorkerBoots
  <2>1. UNCHANGED <<ingestVars, skip, seed>> /\ up' \in BOOLEAN
    BY <1>2, Zenon DEF WorkerBoots
  <2> QED
    BY <1>1, <2>1, IngestKeeps DEF SkipTypeOK
<1>3. CASE WorkerRuns
  BY <1>1, <1>3, IngestKeeps DEF WorkerRuns, Next, SkipTypeOK
<1>4. CASE Around
  BY <1>1, <1>4, IngestKeeps DEF Around, Next, SkipTypeOK
<1>5. CASE WorkerCrashes
  <2>1. Next /\ up' \in BOOLEAN
    BY <1>5, Zenon DEF WorkerCrashes, Next
  <2>2. SkipTypeOK' /\ \A p \in Skippers : skip'[p] \in {skip[p], Booting}
    BY <1>1, <1>5, FreshSkips DEF WorkerCrashes, SkipTypeOK
  <2> QED
    BY <1>1, <1>5, <2>1, <2>2, IngestKeeps DEF WorkerCrashes
<1>6. CASE CommandDies
  <2>1. UNCHANGED <<ingestVars, up, seed>>
    BY <1>6 DEF CommandDies
  <2>2. SkipTypeOK' /\ \A p \in Skippers : skip'[p] \in {skip[p], IdleSkip}
    BY <1>1, <1>6, FreshSkips DEF CommandDies, SkipDies, SkipTypeOK
  <2> QED
    BY <1>1, <2>1, <2>2, IngestKeeps
<1>7. CASE GuardSteps
  BY <1>7, SkipKeeps DEF GuardSteps
<1>8. CASE CommandStarts \/ CommandSteps
  BY <1>8, SkipKeeps DEF CommandStarts, CommandSteps, Commands
<1>9. CASE SeedStarts \/ SeedSteps \/ SeedDies
  BY <1>9, SeedKeeps
<1>10. CASE UNCHANGED opsVars
  BY <1>1, <1>10, IngestKeeps DEF opsVars, SkipTypeOK
<1> QED
  BY <1>2, <1>3, <1>4, <1>5, <1>6, <1>7, <1>8, <1>9, <1>10 DEF OpsNext

(* Any number of commands beside the worker, overtaken by it, or dead with a *)
(* part of their checkpoint writes made: every process that is about to      *)
(* write the scanned checkpoint knows its value to be covered                *)
(* (skip-forward.service.ts, boot-skip-guard.service.ts).                    *)
THEOREM OpsInvariant == OpsSpec => []OpsInv
<1> QED
  BY OpsInitHolds, OpsNextKeeps, PTL DEF OpsSpec

(* So the boot guard, the operator and the worker together lose no height. *)
THEOREM NothingIsLostBesideSkips == OpsSpec => []NoSilentGap
<1>1. OpsInv => NoSilentGap
  BY DEF OpsInv, CoverageInv, NoSilentGap
<1> QED
  BY <1>1, OpsInvariant, PTL

-------------------------------------------------------------------------------
(* The composition implements the abstract ledger, too. *)

(* A skip adds to the ledger or moves the checkpoint to its goal. *)
LEMMA SkipGrowsOrMoves ==
    ASSUME OpsInv, NEW p \in Skippers, SkipNext(p) \/ SkipStart(p)
    PROVE  Coverage!Resolve \/ Coverage!Move
<1>1. ckpt \in CkptType /\ rows \in [Heights -> SUBSET Tables]
  BY SkipFacts DEF DbTypeOK
<1>2. CASE UNCHANGED dbVars
  BY <1>2, GrowthResolves DEF dbVars, TablesGrow
<1>3. CASE SkipInsert(p)
  BY <1>3, GrowthResolves DEF SkipInsert, TablesGrow
<1>4. ASSUME NEW key \in SkipKeys, SkipWrite(p, key)
      PROVE  Coverage!Resolve \/ Coverage!Move
  <2>1. /\ UNCHANGED <<ledger, rows, absent>>
        /\ ckpt'.scanned = IF key = "scanned" THEN skip[p].goal ELSE ckpt.scanned
    BY <1>1, <1>4 DEF SkipWrite, CkptWith, SkipKeys, CkptType
  <2>2. CASE key # "scanned"
    BY <2>1, <2>2, GrowthResolves DEF TablesGrow
  <2>3. CASE key = "scanned"
    <3>1. /\ skip[p].goal \in 0 .. MaxTip /\ skip[p].goal >= BackfillStart
          /\ BackfillStart .. skip[p].goal \subseteq Resolved
      BY <1>4, WriteFacts DEF SkipWrite
    <3>2. Frontier' = skip[p].goal
      BY <2>1, <2>3, <3>1 DEF Frontier, NoRow
    <3>3. Resolved' = Resolved
      BY <2>1 DEF Resolved, Indexed, Ledgered
    <3> QED
      BY <3>1, <3>2, <3>3 DEF Coverage!Move, Coverage!Heights
  <2> QED
    BY <2>2, <2>3
<1> QED
  BY <1>2, <1>3, <1>4
     DEF SkipNext, SkipStart, GuardReadScanned, GuardFetchFinal, GuardProbe, SkipReadScanned,
         SkipFetchFinal, SkipFind, SkipFetchHash, SkipWriteFails, SkipDone, SkipFails

LEMMA OpsStepSimulates ==
    ASSUME OpsInv, [OpsNext]_opsVars
    PROVE  [Coverage!Resolve \/ Coverage!Move]_(Coverage!vars)
<1>1. CASE WorkerRuns \/ WorkerCrashes \/ Around
  <2>1. Next
    BY <1>1 DEF WorkerRuns, WorkerCrashes, Around, Next
  <2> QED
    BY <2>1, StepSimulates DEF OpsInv
<1>2. CASE GuardSteps \/ CommandStarts \/ CommandSteps
  BY <1>2, SkipGrowsOrMoves DEF GuardSteps, CommandStarts, CommandSteps, Commands
<1>3. CASE \E g \in SeedFile : SeedInserts(g)
  <2>1. TablesGrow
    BY <1>3 DEF SeedInserts, TablesGrow
  <2> QED
    BY <2>1, GrowthResolves
<1>4. CASE \/ WorkerBoots \/ CommandDies \/ SeedStarts \/ SeedDies
           \/ (\E g \in SeedFile : SeedFinds(g)) \/ UNCHANGED opsVars
  <2>1. UNCHANGED dbVars
    <3>1. UNCHANGED ingestVars
      BY <1>4, Zenon DEF WorkerBoots, CommandDies, SeedStarts, SeedDies, SeedFinds, opsVars
    <3> QED
      BY <3>1 DEF ingestVars, dbVars
  <2>2. TablesGrow
    BY <2>1 DEF dbVars, TablesGrow
  <2> QED
    BY <2>2, GrowthResolves
<1> QED
  BY <1>1, <1>2, <1>3, <1>4 DEF OpsNext, SeedSteps

(* The worker, its boot guard and the operator's commands together implement *)
(* CoverageLedger: whoever writes the scanned checkpoint, and whoever dies    *)
(* before or after, it lands on a height with nothing unresolved below.       *)
THEOREM CommandsImplementCoverage == OpsSpec => CoverageRefinement
<1>1. OpsInit => Coverage!Init
  BY InitSimulates DEF OpsInit
<1>2. OpsInv /\ [OpsNext]_opsVars => [Coverage!Resolve \/ Coverage!Move]_(Coverage!vars)
  BY OpsStepSimulates
<1> QED
  BY <1>1, <1>2, OpsInvariant, PTL DEF OpsSpec, CoverageRefinement, Coverage!Spec

(* So no step of theirs undoes a resolved height or passes an unresolved one. *)
THEOREM CommandsKeepCoverage == OpsSpec => CoverageSteps
<1>1. OpsInv /\ [OpsNext]_opsVars => [Coverage!Resolve \/ Coverage!Move]_(Coverage!vars)
  BY OpsStepSimulates
<1> QED
  BY <1>1, OpsInvariant, PTL DEF OpsSpec, CoverageSteps
===============================================================================
