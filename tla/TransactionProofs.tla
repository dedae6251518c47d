-------------------------- MODULE TransactionProofs --------------------------
(*****************************************************************************)
(* Proofs about what becomes of a transaction: TxHealth, for any set of      *)
(* transactions, any statuses, any limits and any number of overlapping      *)
(* passes, BlockClassifier, for any blocks, transactions and accounts and    *)
(* any failures of probes and inserts, the classifiers of TxOutcome, for any *)
(* receipts, and Pricing, for any token records, actions and amounts.        *)
(*                                                                           *)
(* The argument for TxHealth: tries are only ever counted up, so that the    *)
(* count a pass has selected stays covered while others write (Grows); a row *)
(* is written by the insert, which counts one try, or by an update, which    *)
(* counts one more than the count it selected.                               *)
(*                                                                           *)
(* The arguments for BlockClassifier. A block that goes on to classify has   *)
(* an answer for every account it names, and the cache says no of a known    *)
(* account only when that account's own probe failed (CacheIsRight). The     *)
(* tables hold what the paths of classifyTransaction give for some members,  *)
(* and whatever the members are the paths exclude one another                *)
(* (RowsAreFiled).                                                           *)
(*                                                                           *)
(* The argument for TxOutcome: after each receipt the walk has noted who     *)
(* failed first and whether the MPC contract was reached (Noted), and that   *)
(* is all the verdicts depend on.                                            *)
(*                                                                           *)
(* The argument for Pricing. Cutting an amount and scaling what is left      *)
(* gives its whole millionths of a token (MillionthsExact), so an action     *)
(* adds a movement of a token exactly when it moves a millionth and the      *)
(* last record of the token has a price above zero (OwnMovementIs,           *)
(* TokenMovementIs); the fold adds the movements up (MovesCounted).          *)
(*****************************************************************************)
EXTENDS Algorithms, TxHealth, BlockClassifier, CountingLemmas, SequenceTheorems

-------------------------------------------------------------------------------
(* TxHealth. *)

(* What is read of the chain is a verdict. *)
LEMMA VerdictType == \A t \in Txs : Verdict(t) \in Verdicts
  BY DEF Verdict, FastAuthOutcome, GenericOutcome, Verdicts, FastAuthVerdicts, GenericVerdicts

LEMMA AnswerType == \A t \in Txs : Answers(t) \subseteq Verdicts \union {"rpc_pending"}
  BY VerdictType DEF Answers

LEMMA NewestIsSubset == ASSUME NEW S PROVE \A T \in Newest(S) : T \subseteq S
  BY DEF Newest, FirstOf

LEMMA LongestIsSubset == \A T \in LongestWaiting : T \subseteq Retryable
  BY DEF LongestWaiting, FirstOf

LEMMA RunnersStart ==
    ASSUME NEW T \in SUBSET Txs
    PROVE  Min({Runners, Cardinality(T)}) \in 0 .. Runners
<1>1. Cardinality(T) \in Nat
  BY FS_Subset, FS_CardinalityType, HealthAssumption
<1>2. Runners \in Nat
  BY HealthAssumption
<1>3. \E x \in {Runners, Cardinality(T)} : \A y \in {Runners, Cardinality(T)} : x <= y
  <2>1. CASE Runners <= Cardinality(T)
    BY <1>1, <1>2, <2>1
  <2>2. CASE ~(Runners <= Cardinality(T))
    BY <1>1, <1>2, <2>2
  <2> QED
    BY <2>1, <2>2
<1>4. Min({Runners, Cardinality(T)}) \in {Runners, Cardinality(T)}
      /\ Min({Runners, Cardinality(T)}) <= Runners
  BY <1>3 DEF Min
<1> QED
  BY <1>1, <1>2, <1>4

LEMMA ConstantTypes ==
    /\ MaxRetries \in Nat /\ MaxRetries >= 1
    /\ MaxAge \in Nat /\ MaxAge >= 1
    /\ Runners \in Nat /\ Runners >= 1
  BY HealthAssumption

LEMMA IdleType == IdlePass \in PassType
  BY ConstantTypes DEF IdlePass, PassType

LEMMA UnclassifiedType == Unclassified \in RowType
  BY ConstantTypes DEF Unclassified, RowType

LEMMA OlderType == \A n \in 0 .. MaxAge : Older(n) \in 0 .. MaxAge
  BY ConstantTypes DEF Older

(* Counting tries goes up and stays in bounds. *)
LEMMA TriesGrow ==
    ASSUME HealthTypeOK, NEW ts
    PROVE  /\ TriedAgain(ts) \in [Txs -> 0 .. MaxRetries]
           /\ \A t \in Txs : tried[t] <= TriedAgain(ts)[t]
           /\ \A t \in Txs \intersect ts : \/ TriedAgain(ts)[t] = tried[t] + 1
                                           \/ TriedAgain(ts)[t] = MaxRetries
  BY ConstantTypes DEF HealthTypeOK, TriedAgain

(* A pass moves on to x, rows and tries being good: the invariant holds again *)
(* when what x still has selected has been tried.                            *)
LEMMA PassMoves ==
    ASSUME HealthInv, NEW p \in Passes, NEW x \in PassType, Step(p, x),
           UNCHANGED <<collector, recorded, cutoff>>,
           row' \in [Txs -> RowType], tried' \in [Txs -> 0 .. MaxRetries],
           \A t \in Txs : tried[t] <= tried'[t],
           \A t \in Txs : row'[t].retries <= tried'[t],
           \A w \in x.todo : w[2] <= tried[w[1]]
    PROVE  HealthInv'
<1>1. pass' \in [Passes -> PassType] /\ pass'[p] = x /\ \A q \in Passes \ {p} : pass'[q] = pass[q]
  BY DEF HealthInv, HealthTypeOK, Step
<1>2. HealthTypeOK'
  BY <1>1 DEF HealthInv, HealthTypeOK
<1>3. RetryBudget'
  <2>1. \A t \in Txs : row'[t].retries \in 0 .. MaxRetries
    BY DEF RowType
  <2> QED
    BY <2>1, ConstantTypes DEF RetryBudget
<1>4. SelectedIsTried'
  <2> SUFFICES ASSUME NEW q \in Passes, NEW w \in pass'[q].todo
               PROVE  w[2] <= tried'[w[1]]
    BY DEF SelectedIsTried
  <2>1. w[2] <= tried[w[1]]
    BY <1>1 DEF HealthInv, SelectedIsTried
  <2>2. w \in Txs \X (0 .. MaxRetries - 1)
    BY <1>1 DEF PassType
  <2>3. w[1] \in Txs /\ w[2] \in Int /\ tried[w[1]] \in Int /\ tried'[w[1]] \in Int
    BY <2>2, ConstantTypes DEF HealthInv, HealthTypeOK
  <2> QED
    BY <2>1, <2>3
<1> QED
  BY <1>2, <1>3, <1>4 DEF HealthInv

(* A pass moves on and writes nothing. *)
LEMMA PassReads ==
    ASSUME HealthInv, NEW p \in Passes, NEW x \in PassType, Step(p, x),
           UNCHANGED <<collector, recorded, cutoff, row, tried>>,
           \A w \in x.todo : w[2] <= tried[w[1]]
    PROVE  HealthInv'
<1>1. \A t \in Txs : row[t].retries <= tried[t] /\ tried[t] <= tried[t]
  BY ConstantTypes DEF HealthInv, RetryBudget, HealthTypeOK
<1> QED
  BY <1>1, PassMoves DEF HealthInv, HealthTypeOK

LEMMA Idles ==
    ASSUME HealthInv, NEW p \in Passes, Step(p, IdlePass),
           UNCHANGED <<collector, recorded, cutoff, row, tried>>
    PROVE  HealthInv'
<1>1. IdlePass.todo = {}
  BY DEF IdlePass
<1> QED
  BY <1>1, IdleType, PassReads

LEMMA PassFacts ==
    ASSUME HealthInv, NEW p \in Passes
    PROVE  /\ pass[p] \in PassType
           /\ \A w \in pass[p].todo : w[2] <= tried[w[1]]
           /\ row \in [Txs -> RowType] /\ tried \in [Txs -> 0 .. MaxRetries]
           /\ \A t \in Txs : row[t].retries <= tried[t]
  BY DEF HealthInv, HealthTypeOK, SelectedIsTried, RetryBudget

LEMMA BeginKeeps == ASSUME HealthInv, NEW p \in Passes, Begin(p) PROVE HealthInv'
<1> DEFINE x == [IdlePass EXCEPT !.pc = "discover"]
<1>1. x \in PassType /\ x.todo = {}
  BY IdleType DEF IdlePass, PassType
<1>2. Step(p, x) /\ UNCHANGED <<collector, recorded, cutoff, row, tried>>
  BY DEF Begin
<1> HIDE DEF x
<1> QED
  BY <1>1, <1>2, PassReads

LEMMA DiscoverKeeps == ASSUME HealthInv, NEW p \in Passes, Discover(p) PROVE HealthInv'
<1>1. PICK picked \in Newest(Undiscovered) :
        Step(p, IF picked = {} THEN [pass[p] EXCEPT !.pc = "select"]
                ELSE [pass[p] EXCEPT !.pc = "insert", !.picked = picked, !.age = 0])
  BY DEF Discover
<1> DEFINE x == IF picked = {} THEN [pass[p] EXCEPT !.pc = "select"]
                ELSE [pass[p] EXCEPT !.pc = "insert", !.picked = picked, !.age = 0]
<1>2. picked \subseteq Txs
  BY NewestIsSubset DEF Undiscovered, HealthInv, HealthTypeOK
<1>3. x \in PassType /\ x.todo = pass[p].todo
  <2>1. pass[p] \in PassType /\ picked \in SUBSET Txs /\ 0 \in 0 .. MaxAge
    BY <1>2, PassFacts, ConstantTypes
  <2> QED
    BY <2>1 DEF PassType
<1>4. \A w \in x.todo : w[2] <= tried[w[1]]
  BY <1>3, PassFacts
<1>5. Step(p, x) /\ UNCHANGED <<collector, recorded, cutoff, row, tried>>
  BY <1>1 DEF Discover
<1> HIDE DEF x
<1> QED
  BY <1>3, <1>4, <1>5, PassReads

LEMMA InsertKeeps == ASSUME HealthInv, NEW p \in Passes, InsertDiscovered(p) PROVE HealthInv'
<1>1. PICK pending \in SUBSET pass[p].picked :
        row' = [t \in Txs |-> IF t \in pass[p].picked
                              THEN InsertedOver(row[t], Discovered(
                                      IF t \in pending THEN "rpc_pending" ELSE Verdict(t),
                                      pass[p].age))
                              ELSE row[t]]
  BY DEF InsertDiscovered
<1> DEFINE x == [pass[p] EXCEPT !.pc = "select", !.picked = {}, !.age = 0]
           answer(t) == IF t \in pending THEN "rpc_pending" ELSE Verdict(t)
           new(t) == Discovered(answer(t), pass[p].age)
<1>2. x \in PassType /\ x.todo = pass[p].todo
  <2>1. pass[p] \in PassType /\ {} \in SUBSET Txs /\ 0 \in 0 .. MaxAge
    BY PassFacts, ConstantTypes
  <2> QED
    BY <2>1 DEF PassType
<1>3. \A w \in x.todo : w[2] <= tried[w[1]]
  BY <1>2, PassFacts
<1>4. tried' = TriedAgain(pass[p].picked) /\ Step(p, x) /\ UNCHANGED <<collector, recorded, cutoff>>
  BY DEF InsertDiscovered
<1>5. /\ tried' \in [Txs -> 0 .. MaxRetries]
      /\ \A t \in Txs : tried[t] <= tried'[t]
      /\ \A t \in Txs \intersect pass[p].picked : tried'[t] = tried[t] + 1 \/ tried'[t] = MaxRetries
  BY <1>4, TriesGrow DEF HealthInv
<1>6. \A t \in Txs : new(t) \in RowType /\ new(t).retries \in {0, 1}
  <2>1. pass[p].age \in 0 .. MaxAge
    BY PassFacts DEF PassType
  <2>2. \A t \in Txs : answer(t) \in Verdicts \union {"rpc_pending"}
    BY VerdictType
  <2> QED
    BY <2>1, <2>2, ConstantTypes DEF Discovered, RowType
<1>7. \A t \in Txs : row'[t] = row[t] \/ (t \in pass[p].picked /\ row'[t] = new(t))
  BY <1>1 DEF InsertedOver
<1>8. row' \in [Txs -> RowType]
  <2>1. \A t \in Txs : row'[t] \in RowType
    BY <1>6, <1>7, PassFacts
  <2>2. row' = [t \in Txs |-> row'[t]]
    BY <1>1
  <2> QED
    BY <2>1, <2>2
<1>9. \A t \in Txs : row'[t].retries <= tried'[t]
  <2> SUFFICES ASSUME NEW t \in Txs PROVE row'[t].retries <= tried'[t]
    OBVIOUS
  <2>1. tried[t] \in Nat /\ tried'[t] \in Nat /\ tried[t] <= tried'[t]
    BY <1>5, PassFacts, ConstantTypes
  <2>2. CASE row'[t] = row[t]
    <3>1. row[t].retries \in Nat /\ row[t].retries <= tried[t]
      BY PassFacts, ConstantTypes DEF RowType
    <3> QED
      BY <2>1, <2>2, <3>1
  <2>3. CASE t \in pass[p].picked /\ row'[t] = new(t)
    <3>1. tried'[t] >= 1
      BY <1>5, <2>1, <2>3, ConstantTypes
    <3>2. row'[t].retries \in {0, 1}
      BY <1>6, <2>3
    <3> QED
      BY <2>1, <3>1, <3>2
  <2> QED
    BY <1>7, <2>2, <2>3
<1> HIDE DEF x
<1> QED
  BY <1>2, <1>3, <1>4, <1>5, <1>8, <1>9, PassMoves

LEMMA SelectKeeps == ASSUME HealthInv, NEW p \in Passes, SelectPending(p) PROVE HealthInv'
<1>1. PICK ts \in LongestWaiting :
        Step(p, IF ts = {} THEN IdlePass
                ELSE [pass[p] EXCEPT !.pc = "retry",
                                     !.todo = {<<t, row[t].retries>> : t \in ts},
                                     !.alive = Min({Runners, Cardinality(ts)})])
  BY DEF SelectPending
<1>2. ts \subseteq Retryable
  BY LongestIsSubset
<1>3. UNCHANGED <<collector, recorded, cutoff, row, tried>>
  BY DEF SelectPending
<1>4. CASE ts = {}
  BY <1>1, <1>3, <1>4, Idles
<1>5. CASE ts # {}
  <2> DEFINE todo == {<<t, row[t].retries>> : t \in ts}
             alive == Min({Runners, Cardinality(ts)})
             x == [pass[p] EXCEPT !.pc = "retry", !.todo = todo, !.alive = alive]
  <2>1. \A t \in ts : t \in Txs /\ row[t].retries \in 0 .. MaxRetries - 1
    BY <1>2, PassFacts, ConstantTypes DEF Retryable, RowType
  <2>2. todo \in SUBSET (Txs \X (0 .. MaxRetries - 1))
    BY <2>1
  <2>3. alive \in 0 .. Runners
    BY <2>1, RunnersStart
  <2>4. \A w \in todo : w[2] <= tried[w[1]]
    BY <2>1, PassFacts
  <2>5. Step(p, x)
    BY <1>1, <1>5
  <2> HIDE DEF todo, alive
  <2>6. x \in PassType /\ x.todo = todo
    BY <2>2, <2>3, PassFacts DEF PassType
  <2>7. \A w \in x.todo : w[2] <= tried[w[1]]
    BY <2>4, <2>6
  <2> HIDE DEF x
  <2> QED
    BY <1>3, <2>5, <2>6, <2>7, PassReads
<1> QED
  BY <1>4, <1>5

LEMMA UpdateKeeps == ASSUME HealthInv, NEW p \in Passes, UpdatePending(p) PROVE HealthInv'
<1>0. PICK w \in pass[p].todo : \E answer \in Answers(w[1]) :
        /\ row' = [row EXCEPT ![w[1]] = Retried(w[1], w[2], answer)]
        /\ tried' = TriedAgain({w[1]})
        /\ Step(p, IF pass[p].todo = {w} THEN IdlePass
                   ELSE [pass[p] EXCEPT !.todo = pass[p].todo \ {w}])
  BY DEF UpdatePending
<1>1. PICK answer \in Answers(w[1]) :
        /\ row' = [row EXCEPT ![w[1]] = Retried(w[1], w[2], answer)]
        /\ tried' = TriedAgain({w[1]})
        /\ Step(p, IF pass[p].todo = {w} THEN IdlePass
                   ELSE [pass[p] EXCEPT !.todo = pass[p].todo \ {w}])
  BY <1>0
<1> DEFINE x == IF pass[p].todo = {w} THEN IdlePass
                ELSE [pass[p] EXCEPT !.todo = pass[p].todo \ {w}]
<1>2. x \in PassType /\ x.todo \subseteq pass[p].todo
  <2>1. pass[p].todo \ {w} \in SUBSET (Txs \X (0 .. MaxRetries - 1))
    BY PassFacts DEF PassType
  <2>2. [pass[p] EXCEPT !.todo = pass[p].todo \ {w}] \in PassType
    BY <2>1, PassFacts DEF PassType
  <2>3. [pass[p] EXCEPT !.todo = pass[p].todo \ {w}].todo = pass[p].todo \ {w}
    BY PassFacts DEF PassType
  <2>4. IdlePass.todo = {}
    BY DEF IdlePass
  <2> QED
    BY <2>2, <2>3, <2>4, IdleType
<1>3. \A v \in x.todo : v[2] <= tried[v[1]]
  BY <1>2, PassFacts
<1>4. w[1] \in Txs /\ w[2] \in 0 .. MaxRetries - 1 /\ w[2] <= tried[w[1]]
  <2>1. w \in Txs \X (0 .. MaxRetries - 1)
    BY PassFacts DEF PassType
  <2> QED
    BY <2>1, PassFacts
<1>5. /\ tried' \in [Txs -> 0 .. MaxRetries]
      /\ \A t \in Txs : tried[t] <= tried'[t]
      /\ tried'[w[1]] = tried[w[1]] + 1 \/ tried'[w[1]] = MaxRetries
  BY <1>1, <1>4, TriesGrow DEF HealthInv
<1> DEFINE new == Retried(w[1], w[2], answer)
<1>6. new \in RowType /\ new.retries = w[2] + 1
  <2>1. answer \in Verdicts \union {"rpc_pending"}
    BY <1>4, AnswerType
  <2>2. w[2] + 1 \in 0 .. MaxRetries
    BY <1>4, ConstantTypes
  <2> QED
    BY <2>1, <2>2, ConstantTypes DEF Retried, RowType
<1>7. row' = [row EXCEPT ![w[1]] = new]
  BY <1>1
<1> HIDE DEF new
<1>8. row' \in [Txs -> RowType]
  BY <1>4, <1>6, <1>7, PassFacts
<1>9. \A t \in Txs : row'[t].retries <= tried'[t]
  <2> SUFFICES ASSUME NEW t \in Txs PROVE row'[t].retries <= tried'[t]
    OBVIOUS
  <2>1. tried[t] \in Nat /\ tried'[t] \in Nat /\ tried[t] <= tried'[t]
    BY <1>5, PassFacts, ConstantTypes
  <2>2. CASE t = w[1]
    <3>1. row'[t].retries = w[2] + 1
      BY <1>4, <1>6, <1>7, <2>2, PassFacts
    <3> QED
      BY <1>4, <1>5, <2>1, <2>2, <3>1, ConstantTypes
  <2>3. CASE t # w[1]
    <3>1. row'[t] = row[t] /\ row[t].retries \in Nat /\ row[t].retries <= tried[t]
      BY <1>4, <1>7, <2>3, PassFacts, ConstantTypes DEF RowType
    <3> QED
      BY <2>1, <3>1
  <2> QED
    BY <2>2, <2>3
<1>10. Step(p, x) /\ UNCHANGED <<collector, recorded, cutoff>>
  BY <1>1 DEF UpdatePending
<1> HIDE DEF x
<1> QED
  BY <1>2, <1>3, <1>5, <1>8, <1>9, <1>10, PassMoves

LEMMA UpdateFailsKeeps == ASSUME HealthInv, NEW p \in Passes, UpdateFails(p) PROVE HealthInv'
<1>1. PICK w \in pass[p].todo :
        Step(p, IF pass[p].todo = {w} \/ pass[p].alive <= 1 THEN IdlePass
                ELSE [pass[p] EXCEPT !.todo = pass[p].todo \ {w}, !.alive = pass[p].alive - 1])
  BY DEF UpdateFails
<1>2. UNCHANGED <<collector, recorded, cutoff, row, tried>>
  BY DEF UpdateFails
<1>3. CASE pass[p].todo = {w} \/ pass[p].alive <= 1
  BY <1>1, <1>2, <1>3, Idles
<1>4. CASE ~(pass[p].todo = {w} \/ pass[p].alive <= 1)
  <2> DEFINE todo == pass[p].todo \ {w}
             alive == pass[p].alive - 1
             x == [pass[p] EXCEPT !.todo = todo, !.alive = alive]
  <2>1. todo \in SUBSET (Txs \X (0 .. MaxRetries - 1)) /\ todo \subseteq pass[p].todo
    BY PassFacts DEF PassType
  <2>2. alive \in 0 .. Runners
    <3>1. pass[p].alive \in 0 .. Runners
      BY PassFacts DEF PassType
    <3> QED
      BY <3>1, <1>4, ConstantTypes
  <2>3. Step(p, x)
    BY <1>1, <1>4
  <2> HIDE DEF todo, alive
  <2>4. x \in PassType /\ x.todo = todo
    BY <2>1, <2>2, PassFacts DEF PassType
  <2>5. \A v \in x.todo : v[2] <= tried[v[1]]
    BY <2>1, <2>4, PassFacts
  <2> HIDE DEF x
  <2> QED
    BY <1>2, <2>3, <2>4, <2>5, PassReads
<1> QED
  BY <1>3, <1>4

LEMMA BackoffKeeps == ASSUME HealthInv, BackoffElapses PROVE HealthInv'
<1>1. /\ row \in [Txs -> RowType] /\ pass \in [Passes -> PassType]
      /\ UNCHANGED <<collector, recorded, cutoff, tried>>
  BY DEF BackoffElapses, HealthInv, HealthTypeOK
<1>2. \A t \in Txs : row'[t] \in RowType /\ row'[t].retries = row[t].retries
  <2> SUFFICES ASSUME NEW t \in Txs
               PROVE  row'[t] \in RowType /\ row'[t].retries = row[t].retries
    OBVIOUS
  <2>1. row[t] \in RowType /\ Older(row[t].age) \in 0 .. MaxAge
    BY <1>1, OlderType DEF RowType
  <2>2. \/ (row'[t] = Unclassified /\ row[t] = Unclassified)
        \/ row'[t] = [row[t] EXCEPT !.age = Older(row[t].age)]
    BY DEF BackoffElapses
  <2> QED
    BY <2>1, <2>2 DEF RowType
<1>3. \A p \in Passes : pass'[p] \in PassType /\ pass'[p].todo = pass[p].todo
  <2> SUFFICES ASSUME NEW p \in Passes
               PROVE  pass'[p] \in PassType /\ pass'[p].todo = pass[p].todo
    OBVIOUS
  <2>1. pass[p] \in PassType /\ Older(pass[p].age) \in 0 .. MaxAge
    BY <1>1, OlderType DEF PassType
  <2>2. pass'[p] = pass[p] \/ pass'[p] = [pass[p] EXCEPT !.age = Older(pass[p].age)]
    BY DEF BackoffElapses
  <2> QED
    BY <2>1, <2>2 DEF PassType
<1>4. HealthTypeOK'
  <2>1. row' = [t \in Txs |-> row'[t]] /\ pass' = [p \in Passes |-> pass'[p]]
    BY DEF BackoffElapses
  <2>2. row' \in [Txs -> RowType] /\ pass' \in [Passes -> PassType]
    BY <1>2, <1>3, <2>1
  <2> QED
    BY <1>1, <2>2 DEF HealthInv, HealthTypeOK
<1> QED
  BY <1>1, <1>2, <1>3, <1>4 DEF HealthInv, RetryBudget, SelectedIsTried

LEMMA HealthInitHolds == HealthInit => HealthInv
<1> SUFFICES ASSUME HealthInit PROVE HealthInv
  OBVIOUS
<1>1. HealthTypeOK
  BY IdleType, UnclassifiedType, ConstantTypes DEF HealthInit, HealthTypeOK
<1>2. RetryBudget
  BY ConstantTypes DEF HealthInit, RetryBudget, Unclassified
<1>3. SelectedIsTried
  BY DEF HealthInit, SelectedIsTried, IdlePass
<1> QED
  BY <1>1, <1>2, <1>3 DEF HealthInv

LEMMA HealthNextKeeps == HealthInv /\ [HealthNext]_healthVars => HealthInv'
<1> SUFFICES ASSUME HealthInv, [HealthNext]_healthVars PROVE HealthInv'
  OBVIOUS
<1>1. CASE UNCHANGED healthVars
  BY <1>1 DEF healthVars, HealthInv, HealthTypeOK, RetryBudget, SelectedIsTried
<1>2. ASSUME NEW t \in Txs, Record(t) PROVE HealthInv'
  BY <1>2 DEF Record, HealthInv, HealthTypeOK, RetryBudget, SelectedIsTried
<1>3. CASE WindowMoves
  BY <1>3 DEF WindowMoves, HealthInv, HealthTypeOK, RetryBudget, SelectedIsTried
<1>4. CASE BackoffElapses
  BY <1>4, BackoffKeeps
<1>5. ASSUME NEW p \in Passes, StatementFails(p) PROVE HealthInv'
  BY <1>5, Idles DEF StatementFails
<1>6. ASSUME NEW p \in Passes,
             Begin(p) \/ PassSteps(p) \/ StatementFails(p) \/ UpdateFails(p)
      PROVE  HealthInv'
  BY <1>5, <1>6, BeginKeeps, DiscoverKeeps, InsertKeeps, SelectKeeps, UpdateKeeps,
     UpdateFailsKeeps DEF PassSteps
<1> QED
  BY <1>1, <1>2, <1>3, <1>4, <1>6 DEF HealthNext

(* Any number of overlapping passes: no retry count leaves its budget or      *)
(* runs ahead of the tries it stands for (runRetryPass writes the count it    *)
(* selected, plus one).                                                      *)
THEOREM RetriesStayInBudget == HealthSpec => []HealthInv
BY HealthInitHolds, HealthNextKeeps, PTL DEF HealthSpec

-------------------------------------------------------------------------------
(* BlockClassifier. *)

Tables == {"near", "sign", "user"}

BlockTypeOK ==
    /\ DOMAIN tables = Tables
    /\ tables = [s \in Tables |-> tables[s]]
    /\ work \in [Blocks -> [pc    : {"todo", "probing", "ready", "done"},
                            asked : SUBSET UNION {Candidates(b) : b \in Blocks}]]
    /\ \A a \in DOMAIN cache : cache[a] \in BOOLEAN

(* What the cache and the blocks in flight know of the accounts. *)
CacheIsRight ==
    /\ known \subseteq linked
    /\ \A a \in DOMAIN cache : ~cache[a] => a \notin known \ spoiled
    /\ \A b \in Blocks :
         /\ work[b].pc = "probing" => Candidates(b) \subseteq DOMAIN cache \union work[b].asked
         /\ work[b].pc = "ready" => Candidates(b) \subseteq DOMAIN cache

(* What the rows are of. *)
RowsAreFiled ==
    /\ \A h \in tables.near : \E tx \in AllTxs : ToContract(tx) /\ h = tx.hash
    /\ \A r \in tables.user :
         /\ \E tx \in AllTxs : ~ToContract(tx) /\ r.hash = tx.hash
         /\ r.relayer # r.signer
    /\ \A r, s \in tables.user : r.hash = s.hash => r = s
    /\ \A b \in Blocks : work[b].pc = "done" =>
         \A tx \in TxSet(b) : \A e \in SignEvents(tx) : e.hash \in tables.near

BlockInv == BlockTypeOK /\ CacheIsRight /\ RowsAreFiled /\ KnownUsersAreRecorded

-------------------------------------------------------------------------------
(* The paths of classifyTransaction. *)

LEMMA TxOfBlock == \A b \in Blocks : TxSet(b) \subseteq AllTxs
  BY DEF AllTxs

LEMMA NamedIsCandidate == \A b \in Blocks : \A tx \in TxSet(b) : Named(tx) \subseteq Candidates(b)
  BY DEF TxSet, Candidates, Range

(* A user row is of its transaction, and there is one at most. *)
LEMMA OneUserRow ==
    ASSUME NEW tx \in AllTxs, NEW members
    PROVE  /\ \A r \in UserRows(tx, members) :
                ~ToContract(tx) /\ r.hash = tx.hash /\ r.relayer # r.signer
           /\ \A r, s \in UserRows(tx, members) : r = s
<1>1. tx.signer # NoRelayer
  BY BlockAssumption
<1>2. CASE ToContract(tx)
  BY <1>2 DEF UserRows
<1>3. CASE tx.signer \in members
  BY <1>1, <1>3 DEF UserRows, DirectRows, MetaRows, UserRow
<1>4. CASE tx.signer \notin members
  BY <1>4 DEF UserRows, DirectRows, MetaRows, UserRow
<1> QED
  BY <1>2, <1>3, <1>4

(* A member's activity has its row. *)
LEMMA MemberHasRow ==
    ASSUME NEW tx, NEW members, ~ToContract(tx), NEW a \in Named(tx), a \in members
    PROVE  \E r \in UserRows(tx, members) : r.hash = tx.hash
<1>1. CASE tx.signer \in members
  <2>1. UserRow(tx, tx.signer, NoRelayer) \in UserRows(tx, members)
    BY <1>1 DEF UserRows, DirectRows
  <2> QED
    BY <2>1 DEF UserRow
<1>2. CASE tx.signer \notin members
  <2>1. Delegates(tx) # {} /\ a = DelegateOf(tx).sender
    BY <1>2 DEF Named
  <2>2. UserRow(tx, DelegateOf(tx).sender, tx.signer) \in UserRows(tx, members)
    BY <1>2, <2>1 DEF UserRows, MetaRows
  <2> QED
    BY <2>2 DEF UserRow
<1> QED
  BY <1>1, <1>2

LEMMA NewRowsAreFiled ==
    ASSUME NEW b \in Blocks, NEW members
    PROVE  /\ \A h \in RowsOf(b, members).near : \E tx \in AllTxs : ToContract(tx) /\ h = tx.hash
           /\ \A r \in RowsOf(b, members).user :
                /\ \E tx \in AllTxs : ~ToContract(tx) /\ r.hash = tx.hash
                /\ r.relayer # r.signer
           /\ \A r, s \in RowsOf(b, members).user : r.hash = s.hash => r = s
           /\ \A tx \in TxSet(b) : \A e \in SignEvents(tx) : e.hash \in RowsOf(b, members).near
<1>1. \A h \in RowsOf(b, members).near : \E tx \in AllTxs : ToContract(tx) /\ h = tx.hash
  BY TxOfBlock DEF RowsOf
<1>2. ASSUME NEW r \in RowsOf(b, members).user
      PROVE  \E tx \in AllTxs : r \in UserRows(tx, members)
  BY TxOfBlock DEF RowsOf
<1>3. ASSUME NEW r \in RowsOf(b, members).user, NEW s \in RowsOf(b, members).user, r.hash = s.hash
      PROVE  r = s
  <2>1. PICK x \in AllTxs : r \in UserRows(x, members)
    BY <1>2
  <2>2. PICK y \in AllTxs : s \in UserRows(y, members)
    BY <1>2
  <2>3. x = y
    BY <1>3, <2>1, <2>2, OneUserRow, BlockAssumption
  <2> QED
    BY <2>1, <2>2, <2>3, OneUserRow
<1>4. ASSUME NEW tx \in TxSet(b), NEW e \in SignEvents(tx)
      PROVE  e.hash \in RowsOf(b, members).near
  BY <1>4 DEF SignEvents, Seed, RowsOf
<1> QED
  BY <1>1, <1>2, <1>3, <1>4, OneUserRow

-------------------------------------------------------------------------------
(* Steps that write no row. *)

Quiet == UNCHANGED <<tables, owed>>

LEMMA QuietStep ==
    ASSUME BlockInv, Quiet, CacheIsRight', BlockTypeOK',
           \A b \in Blocks : work'[b].pc = "done" => work[b].pc = "done"
    PROVE  BlockInv'
<1>1. RowsAreFiled'
  BY DEF BlockInv, RowsAreFiled, Quiet
<1> QED
  BY <1>1 DEF BlockInv, Quiet, KnownUsersAreRecorded, UserHashes

(* One block's variables change. *)
LEMMA WorkOf ==
    ASSUME BlockTypeOK, NEW b \in Blocks, NEW next, work' = [work EXCEPT ![b] = next],
           next \in [pc    : {"todo", "probing", "ready", "done"},
                     asked : SUBSET UNION {Candidates(c) : c \in Blocks}]
    PROVE  /\ work' \in [Blocks -> [pc    : {"todo", "probing", "ready", "done"},
                                    asked : SUBSET UNION {Candidates(c) : c \in Blocks}]]
           /\ work'[b] = next
           /\ \A c \in Blocks : c # b => work'[c] = work[c]
  BY DEF BlockTypeOK

LEMMA ProbeKeeps == ASSUME NEW b \in Blocks, BlockInv, Probe(b) PROVE BlockInv'
<1> DEFINE next == [pc |-> IF Unasked(b) = {} THEN "ready" ELSE "probing", asked |-> Unasked(b)]
<1>1. next \in [pc    : {"todo", "probing", "ready", "done"},
                asked : SUBSET UNION {Candidates(c) : c \in Blocks}]
  BY DEF Unasked
<1>2. /\ work' \in [Blocks -> [pc    : {"todo", "probing", "ready", "done"},
                               asked : SUBSET UNION {Candidates(c) : c \in Blocks}]]
      /\ work'[b] = next
      /\ \A c \in Blocks : c # b => work'[c] = work[c]
  BY <1>1, WorkOf DEF Probe, BlockInv
<1>3. BlockTypeOK'
  BY <1>2 DEF Probe, BlockInv, BlockTypeOK
<1>4. CacheIsRight'
  BY <1>2 DEF Probe, BlockInv, CacheIsRight, Unasked
<1> QED
  BY <1>2, <1>3, <1>4, QuietStep DEF Probe, Quiet

(* An answer, or a failure that counts as a no. *)
LEMMA CacheGrows ==
    ASSUME NEW b \in Blocks, BlockInv, work[b].pc = "probing", NEW found,
           cache' = CacheWith(work[b].asked, found),
           work' = [work EXCEPT ![b].pc = "ready"],
           UNCHANGED <<linked, tables, known, owed>>,
           spoiled \subseteq spoiled',
           \A a \in work[b].asked : a \notin found => a \notin known \ spoiled'
    PROVE  BlockInv'
<1>1. work[b] \in [pc    : {"todo", "probing", "ready", "done"},
                   asked : SUBSET UNION {Candidates(c) : c \in Blocks}]
  BY DEF BlockInv, BlockTypeOK
<1>2. /\ work' \in [Blocks -> [pc    : {"todo", "probing", "ready", "done"},
                               asked : SUBSET UNION {Candidates(c) : c \in Blocks}]]
      /\ work'[b].pc = "ready"
      /\ \A c \in Blocks : c # b => work'[c] = work[c]
  BY <1>1 DEF BlockInv, BlockTypeOK
<1>3. /\ DOMAIN cache' = DOMAIN cache \union work[b].asked
      /\ \A a \in work[b].asked : cache'[a] = (a \in found)
      /\ \A a \in DOMAIN cache \ work[b].asked : cache'[a] = cache[a]
  BY DEF CacheWith
<1>4. \A a \in DOMAIN cache' : cache'[a] \in BOOLEAN
  <2>1. \A a \in work[b].asked : cache'[a] \in BOOLEAN
    <3> SUFFICES ASSUME NEW a \in work[b].asked PROVE cache'[a] \in BOOLEAN
      OBVIOUS
    <3>1. (a \in found) = TRUE \/ (a \in found) = FALSE
      OBVIOUS
    <3>2. cache'[a] = TRUE \/ cache'[a] = FALSE
      BY <1>3, <3>1, Zenon
    <3> QED
      BY <3>2
  <2>2. \A a \in DOMAIN cache \ work[b].asked : cache'[a] \in BOOLEAN
    BY <1>3, Zenon DEF BlockInv, BlockTypeOK
  <2> QED
    BY <1>3, <2>1, <2>2, Zenon
<1>5. BlockTypeOK'
  BY <1>2, <1>4 DEF BlockInv, BlockTypeOK
<1>6. \A a \in DOMAIN cache' : ~cache'[a] => a \notin known \ spoiled'
  BY <1>3 DEF BlockInv, CacheIsRight
<1>7. CacheIsRight'
  BY <1>2, <1>3, <1>6 DEF BlockInv, CacheIsRight
<1> QED
  BY <1>2, <1>5, <1>7, QuietStep DEF Quiet

LEMMA ProbeAnswersKeeps == ASSUME NEW b \in Blocks, BlockInv, ProbeAnswers(b) PROVE BlockInv'
<1>1. known \subseteq linked
  BY DEF BlockInv, CacheIsRight
<1> QED
  BY <1>1, CacheGrows DEF ProbeAnswers

LEMMA ProbeFailsKeeps == ASSUME NEW b \in Blocks, BlockInv, ProbeFails(b) PROVE BlockInv'
  BY CacheGrows DEF ProbeFails, Refused

LEMMA NextRunKeeps == ASSUME BlockInv, NextRun PROVE BlockInv'
<1>1. DOMAIN cache' = {}
  BY DEF NextRun
<1>2. \A b \in Blocks : \/ work'[b] = work[b] /\ work[b].pc \notin {"probing", "ready"}
                        \/ work'[b] = Untouched
  BY DEF NextRun
<1>3. work' = [b \in Blocks |-> work'[b]]
  BY DEF NextRun
<1>4. BlockTypeOK'
  BY <1>1, <1>2, <1>3 DEF NextRun, BlockInv, BlockTypeOK, Untouched
<1>5. CacheIsRight'
  BY <1>1, <1>2 DEF NextRun, CacheIsRight, Untouched
<1>6. \A b \in Blocks : work'[b].pc = "done" => work[b].pc = "done"
  BY <1>2 DEF Untouched
<1> QED
  BY <1>4, <1>5, <1>6, QuietStep DEF NextRun, Quiet

LEMMA LinkKeeps == ASSUME NEW a \in Accounts, BlockInv, Link(a) PROVE BlockInv'
  BY QuietStep DEF Link, Quiet, BlockInv, BlockTypeOK, CacheIsRight

-------------------------------------------------------------------------------
(* Steps that write rows: some of the inserts of block b are made. *)

LEMMA RowsStep ==
    ASSUME NEW b \in Blocks, BlockInv, NEW members, NEW kept \in SUBSET Tables,
           tables' = [s \in Tables |-> IF s \in kept
                                       THEN Inserted(tables, RowsOf(b, members))[s] ELSE tables[s]],
           \A c \in Blocks : work'[c].pc = "done" => (work[c].pc = "done" \/ (c = b /\ kept = Tables))
    PROVE  /\ DOMAIN tables' = Tables /\ tables' = [s \in Tables |-> tables'[s]]
           /\ RowsAreFiled' /\ UserHashes \subseteq UserHashes'
<1> DEFINE new == RowsOf(b, members)
<1>1. tables.near \subseteq tables'.near /\ tables'.near \subseteq tables.near \union new.near
  BY DEF Inserted, Tables
<1>2. /\ tables.user \subseteq tables'.user
      /\ \A r \in tables'.user : r \in tables.user \/
            (r \in new.user /\ \A o \in tables.user : o.hash # r.hash)
  BY DEF Inserted, Tables
<1>3. \A h \in tables'.near : \E tx \in AllTxs : ToContract(tx) /\ h = tx.hash
  BY SMTT(30), <1>1, NewRowsAreFiled DEF BlockInv, RowsAreFiled
<1>4. \A r \in tables'.user : /\ \E tx \in AllTxs : ~ToContract(tx) /\ r.hash = tx.hash
                              /\ r.relayer # r.signer
  BY <1>2, NewRowsAreFiled DEF BlockInv, RowsAreFiled
<1>5. \A r, s \in tables'.user : r.hash = s.hash => r = s
  BY ZenonT(40), <1>2, NewRowsAreFiled DEF BlockInv, RowsAreFiled
<1>6. kept = Tables => new.near \subseteq tables'.near
  BY DEF Inserted, Tables
<1>7. ASSUME NEW c \in Blocks, work'[c].pc = "done", NEW tx \in TxSet(c), NEW e \in SignEvents(tx)
      PROVE  e.hash \in tables'.near
  <2>1. CASE work[c].pc = "done"
    BY <1>1, <1>7, <2>1 DEF BlockInv, RowsAreFiled
  <2>2. CASE c = b /\ kept = Tables
    BY <1>6, <1>7, <2>2, NewRowsAreFiled
  <2> QED
    BY <1>7, <2>1, <2>2
<1>8. RowsAreFiled'
  BY <1>3, <1>4, <1>5, <1>7 DEF RowsAreFiled
<1> QED
  BY <1>2, <1>8 DEF UserHashes

(* Every known user's activity is among the members' rows. *)
LEMMA DueIsRecorded ==
    ASSUME NEW b \in Blocks, BlockInv, work[b].pc = "ready",
           tables'.user = Inserted(tables, RowsOf(b, Members(b))).user
    PROVE  Due(b) \subseteq UserHashes'
<1> SUFFICES ASSUME NEW h \in Due(b) PROVE h \in UserHashes'
  OBVIOUS
<1>1. PICK tx \in TxSet(b) : /\ h = tx.hash /\ ~ToContract(tx)
                             /\ Named(tx) \intersect (known \ spoiled) # {}
  BY DEF Due
<1>2. PICK a \in Named(tx) : a \in known \ spoiled
  BY <1>1
<1>3. a \in Candidates(b) /\ a \in DOMAIN cache
  BY <1>1, <1>2, NamedIsCandidate DEF BlockInv, CacheIsRight
<1>4. cache[a]
  BY <1>2, <1>3 DEF BlockInv, BlockTypeOK, CacheIsRight
<1>5. a \in Members(b)
  BY <1>3, <1>4 DEF Members
<1>6. PICK r \in UserRows(tx, Members(b)) : r.hash = h
  BY <1>1, <1>2, <1>5, MemberHasRow
<1>7. r \in RowsOf(b, Members(b)).user
  BY <1>1, <1>6 DEF RowsOf
<1>8. \/ r \in tables'.user
      \/ \E o \in tables'.user : o.hash = h
  BY <1>6, <1>7 DEF Inserted
<1> QED
  BY <1>6, <1>8 DEF UserHashes

LEMMA PersistKeeps == ASSUME NEW b \in Blocks, BlockInv, Persist(b) PROVE BlockInv'
<1>1. tables' = Inserted(tables, RowsOf(b, Members(b))) /\ DOMAIN tables' = Tables
  BY DEF Persist, Inserted, Tables
<1>2. tables' = [s \in Tables |-> Inserted(tables, RowsOf(b, Members(b)))[s]]
  BY <1>1 DEF Inserted, Tables
<1>3. [Untouched EXCEPT !.pc = "done"] \in
         [pc    : {"todo", "probing", "ready", "done"},
          asked : SUBSET UNION {Candidates(c) : c \in Blocks}]
  BY DEF Untouched
<1>4. /\ work' \in [Blocks -> [pc    : {"todo", "probing", "ready", "done"},
                               asked : SUBSET UNION {Candidates(c) : c \in Blocks}]]
      /\ work'[b] = [Untouched EXCEPT !.pc = "done"]
      /\ \A c \in Blocks : c # b => work'[c] = work[c]
  BY <1>3, WorkOf DEF Persist, BlockInv
<1>5. RowsAreFiled' /\ UserHashes \subseteq UserHashes' /\ tables' = [s \in Tables |-> tables'[s]]
  BY <1>2, <1>4, RowsStep
<1>6. BlockTypeOK'
  BY <1>1, <1>4, <1>5 DEF Persist, BlockInv, BlockTypeOK
<1>7. CacheIsRight'
  BY <1>4 DEF Persist, BlockInv, CacheIsRight, Untouched
<1>8. KnownUsersAreRecorded'
  BY <1>1, <1>5, DueIsRecorded DEF Persist, BlockInv, KnownUsersAreRecorded
<1> QED
  BY <1>5, <1>6, <1>7, <1>8 DEF BlockInv

LEMMA PersistFailsKeeps == ASSUME NEW b \in Blocks, BlockInv, PersistFails(b) PROVE BlockInv'
<1>1. PICK kept \in SUBSET Tables :
        tables' = [s \in Tables |-> IF s \in kept
                                    THEN Inserted(tables, RowsOf(b, Members(b)))[s] ELSE tables[s]]
  BY DEF PersistFails, BlockInv, BlockTypeOK, Tables
<1>2. Untouched \in [pc    : {"todo", "probing", "ready", "done"},
                     asked : SUBSET UNION {Candidates(c) : c \in Blocks}]
  BY DEF Untouched
<1>3. /\ work' \in [Blocks -> [pc    : {"todo", "probing", "ready", "done"},
                               asked : SUBSET UNION {Candidates(c) : c \in Blocks}]]
      /\ work'[b] = Untouched
      /\ \A c \in Blocks : c # b => work'[c] = work[c]
  BY <1>2, WorkOf DEF PersistFails, BlockInv
<1>4. /\ RowsAreFiled' /\ UserHashes \subseteq UserHashes'
      /\ DOMAIN tables' = Tables /\ tables' = [s \in Tables |-> tables'[s]]
  BY SMTT(30), <1>1, <1>3, RowsStep DEF Untouched
<1>5. BlockTypeOK'
  BY <1>3, <1>4 DEF PersistFails, BlockInv, BlockTypeOK
<1>6. CacheIsRight'
  BY <1>3 DEF PersistFails, BlockInv, CacheIsRight, Untouched
<1> QED
  BY <1>4, <1>5, <1>6 DEF PersistFails, BlockInv, KnownUsersAreRecorded

-------------------------------------------------------------------------------
LEMMA BlockInitHolds == BlockInit => BlockInv
<1> SUFFICES ASSUME BlockInit PROVE BlockInv
  OBVIOUS
<1>1. BlockTypeOK
  BY DEF BlockInit, BlockTypeOK, Tables, Untouched
<1>2. CacheIsRight /\ RowsAreFiled /\ KnownUsersAreRecorded
  BY DEF BlockInit, CacheIsRight, RowsAreFiled, KnownUsersAreRecorded, Untouched
<1> QED
  BY <1>1, <1>2 DEF BlockInv

LEMMA BlockNextKeeps == BlockInv /\ [BlockNext]_blockVars => BlockInv'
<1> SUFFICES ASSUME BlockInv, [BlockNext]_blockVars PROVE BlockInv'
  OBVIOUS
<1>1. CASE UNCHANGED blockVars
  <2>1. BlockTypeOK' /\ CacheIsRight'
    BY <1>1 DEF blockVars, BlockInv, BlockTypeOK, CacheIsRight
  <2> QED
    BY <1>1, <2>1, QuietStep DEF blockVars, Quiet
<1>2. ASSUME NEW b \in Blocks,
             Probe(b) \/ ProbeAnswers(b) \/ ProbeFails(b) \/ Persist(b) \/ PersistFails(b)
      PROVE  BlockInv'
  BY <1>2, ProbeKeeps, ProbeAnswersKeeps, ProbeFailsKeeps, PersistKeeps, PersistFailsKeeps
<1>3. CASE NextRun
  BY <1>3, NextRunKeeps
<1>4. ASSUME NEW a \in Accounts, Link(a) PROVE BlockInv'
  BY <1>4, LinkKeeps
<1> QED
  BY <1>1, <1>2, <1>3, <1>4 DEF BlockNext

(* Whatever probes and inserts fail: a completed block has a row for every    *)
(* transaction of an account that was linked when the run began and whose    *)
(* own probe did not fail (probeAccounts and the cache it shares).           *)
THEOREM KnownUsersStayRecorded == BlockSpec => []KnownUsersAreRecorded
<1>1. BlockInv => KnownUsersAreRecorded
  BY DEF BlockInv
<1> QED
  BY <1>1, BlockInitHolds, BlockNextKeeps, PTL DEF BlockSpec

(* Distinct rows have distinct hashes: there are as many of one as of the other. *)
LEMMA OneRowPerHash == ASSUME BlockInv PROVE Cardinality(UserHashes) = Cardinality(tables.user)
<1> DEFINE f == [r \in tables.user |-> r.hash]
<1>1. IsFiniteSet(UserHashes)
  <2>1. UserHashes \subseteq {tx.hash : tx \in AllTxs}
    BY DEF BlockInv, RowsAreFiled, UserHashes
  <2> QED
    BY <2>1, BlockAssumption, FS_Subset
<1>2. f \in Injection(tables.user, UserHashes)
  BY DEF BlockInv, RowsAreFiled, UserHashes, Injection, IsInjective
<1>3. f \in Surjection(tables.user, UserHashes)
  BY DEF UserHashes, Surjection
<1>4. Cardinality(tables.user) = Cardinality(UserHashes)
  BY <1>1, <1>2, <1>3, FS_Injection
<1> QED
  BY <1>4

(* Whatever runs overlap, fail and repeat: each transaction is counted in one *)
(* table, once (classifyTransaction, bulkInsert's orIgnore).                 *)
THEOREM FiledOnceAlways == BlockSpec => []FiledOnce
<1>1. ASSUME BlockInv PROVE FiledOnce
  <2>1. tables.near \intersect UserHashes = {}
    BY <1>1, BlockAssumption DEF BlockInv, RowsAreFiled, UserHashes
  <2>2. \A b \in Blocks : work[b].pc = "done" =>
          UNION {{e.hash : e \in SignEvents(tx)} : tx \in TxSet(b)} \subseteq tables.near
    BY <1>1 DEF BlockInv, RowsAreFiled
  <2> QED
    BY <1>1, <2>1, <2>2, OneRowPerHash DEF FiledOnce, BlockInv, RowsAreFiled
<1> QED
  BY <1>1, BlockInitHolds, BlockNextKeeps, PTL DEF BlockSpec

-------------------------------------------------------------------------------
(* TxOutcome. *)

(* What the walk has noted after the receipts with the indices in s. *)
Fails(R, s) == {i \in s : IsFailureStatus(R[i].status)}
Noted(R, s, w) ==
    /\ w \in [reachedMpc : BOOLEAN, failing : {R[i].executor : i \in s} \union {Nobody}]
    /\ w.reachedMpc <=> \E i \in s : R[i].executor \in MpcContracts
    /\ Fails(R, s) = {} => w.failing = Nobody
    /\ Fails(R, s) # {} => \E i \in Fails(R, s) : /\ \A j \in Fails(R, s) : i <= j
                                                  /\ w.failing = R[i].executor

NothingNoted == [reachedMpc |-> FALSE, failing |-> Nobody]
Note(w, receipt) ==
    [reachedMpc |-> w.reachedMpc \/ receipt.executor \in MpcContracts,
     failing    |-> FirstFailing(w, receipt)]
WalkStep(R, g, s) == IF s = {} THEN NothingNoted ELSE Note(g[s \ {LastOf(s)}], R[LastOf(s)])
IsWalk(R, g) == g = [s \in SUBSET (DOMAIN R) |-> WalkStep(R, g, s)]

LEMMA WalkIsFunction ==
  ASSUME NEW R
  PROVE  Walk(R) = (CHOOSE g : IsWalk(R, g))[DOMAIN R]
  BY DEF Walk, FoldLeft, MapThenFoldSet, WalkStep, LastOf, IsWalk, Note, NothingNoted, Max

LEMMA WalkSteps ==
  ASSUME NEW R, NEW g, IsWalk(R, g)
  PROVE  \A s \in SUBSET (DOMAIN R) : g[s] = WalkStep(R, g, s)
<1> SUFFICES ASSUME NEW s \in SUBSET (DOMAIN R) PROVE g[s] = WalkStep(R, g, s)
  OBVIOUS
<1> DEFINE F(x) == WalkStep(R, g, x)
<1> HIDE DEF F
<1>1. g = [x \in SUBSET (DOMAIN R) |-> F(x)]
  BY DEF IsWalk, F
<1>2. g[s] = F(s)
  BY <1>1
<1> QED BY <1>2 DEF F

(* What is noted of the receipts in s, and of the one after them. *)
LEMMA NotedNext ==
  ASSUME NEW E, Nobody \notin E, NEW R, \A i \in DOMAIN R : R[i].executor \in E,
         DOMAIN R \subseteq Int, NEW s \in SUBSET (DOMAIN R), NEW m \in s, \A j \in s : m >= j,
         NEW w, Noted(R, s \ {m}, w)
  PROVE  Noted(R, s, Note(w, R[m]))
<1> DEFINE t == s \ {m}
           e == R[m].executor
           n == Note(w, R[m])
<1>1. e \in E /\ e # Nobody /\ s = t \union {m} /\ m \in Int /\ t \subseteq Int
  OBVIOUS
<1>2. n.reachedMpc = (w.reachedMpc \/ e \in MpcContracts) /\ n.failing = FirstFailing(w, R[m])
  BY DEF Note
<1>3. w.reachedMpc \in BOOLEAN /\ w.failing \in {R[i].executor : i \in t} \union {Nobody}
  BY DEF Noted
<1>4. n.reachedMpc <=> \E i \in s : R[i].executor \in MpcContracts
  BY <1>1, <1>2 DEF Noted
<1>5. n.failing \in {R[i].executor : i \in s} \union {Nobody}
  BY <1>1, <1>2, <1>3 DEF FirstFailing
<1>6. n \in [reachedMpc : BOOLEAN, failing : {R[i].executor : i \in s} \union {Nobody}]
  BY <1>3, <1>5 DEF Note
<1>7. Fails(R, s) = Fails(R, t) \union (IF IsFailureStatus(R[m].status) THEN {m} ELSE {})
  BY <1>1 DEF Fails
<1>8. CASE Fails(R, t) = {}
  <2>1. w.failing = Nobody
    BY <1>8 DEF Noted
  <2>2. n.failing = IF IsFailureStatus(R[m].status) THEN e ELSE Nobody
    BY <1>2, <2>1 DEF FirstFailing
  <2>3. Fails(R, s) = {} \/ (Fails(R, s) = {m} /\ n.failing = e)
    BY <1>7, <1>8, <2>2
  <2>4. Fails(R, s) = {} => n.failing = Nobody
    BY <1>7, <1>8, <2>2
  <2> QED BY <1>1, <1>4, <1>6, <2>3, <2>4 DEF Noted
<1>9. CASE Fails(R, t) # {}
  <2>1. PICK i \in Fails(R, t) : (\A j \in Fails(R, t) : i <= j) /\ w.failing = R[i].executor
    BY <1>9 DEF Noted
  <2>2. i \in t /\ w.failing \in E /\ w.failing # Nobody
    BY <2>1 DEF Fails
  <2>3. n.failing = R[i].executor
    BY <1>2, <2>1, <2>2 DEF FirstFailing
  <2>4. i <= m /\ i \in Fails(R, s) /\ \A j \in Fails(R, s) : i <= j
    BY <1>1, <1>7, <2>1, <2>2
  <2> QED BY <1>4, <1>6, <2>3, <2>4 DEF Noted
<1> QED BY <1>8, <1>9

(* What is noted is determined. *)
LEMMA NotedOnce ==
  ASSUME NEW R, NEW s, s \subseteq Int, NEW v, NEW w, Noted(R, s, v), Noted(R, s, w)
  PROVE  v = w
<1>1. (v.reachedMpc <=> w.reachedMpc) /\ v.reachedMpc \in BOOLEAN /\ w.reachedMpc \in BOOLEAN
  BY DEF Noted
<1>2. v.failing = w.failing
  <2>1. CASE Fails(R, s) = {}
    BY <2>1 DEF Noted
  <2>2. CASE Fails(R, s) # {}
    <3>1. PICK i \in Fails(R, s) : (\A j \in Fails(R, s) : i <= j) /\ v.failing = R[i].executor
      BY <2>2 DEF Noted
    <3>2. PICK k \in Fails(R, s) : (\A j \in Fails(R, s) : k <= j) /\ w.failing = R[k].executor
      BY <2>2 DEF Noted
    <3>3. i \in Int /\ k \in Int /\ i <= k /\ k <= i
      BY <3>1, <3>2 DEF Fails
    <3> QED BY <3>1, <3>2, <3>3
  <2> QED BY <2>1, <2>2
<1>3. v.reachedMpc = w.reachedMpc
  BY <1>1
<1> QED BY <1>2, <1>3 DEF Noted

LEMMA SeqElement ==
  ASSUME NEW T, NEW s \in Seq(T)
  PROVE  DOMAIN s = 1 .. Len(s) /\ Len(s) \in Nat /\ \A i \in DOMAIN s : s[i] \in T
  OBVIOUS

(* The walk notes what there is to note: its recursive equation has a         *)
(* solution, for something can be noted of every prefix, and whatever solves  *)
(* it notes of a prefix what follows from the prefix without its last.        *)
LEMMA WalkNotes ==
  ASSUME NEW E, Nobody \notin E, NEW K, NEW R \in Seq([executor : E, status : K])
  PROVE  Noted(R, DOMAIN R, Walk(R))
<1> DEFINE D == DOMAIN R
<1>1. D \subseteq Int /\ IsFiniteSet(D) /\ \A i \in D : R[i].executor \in E
  <2>1. D = 1 .. Len(R) /\ Len(R) \in Nat
    BY SeqElement
  <2>2. IsFiniteSet(1 .. Len(R))
    BY <2>1, FS_Interval
  <2>3. \A i \in D : R[i] \in [executor : E, status : K]
    BY SeqElement
  <2> QED BY <2>1, <2>2, <2>3
<1>2. Noted(R, {}, NothingNoted)
  BY DEF Noted, NothingNoted, Fails
<1>3. ASSUME NEW s \in SUBSET D, s # {}
      PROVE  /\ LastOf(s) \in s /\ s \ {LastOf(s)} \in SUBSET D
             /\ \A w : Noted(R, s \ {LastOf(s)}, w) => Noted(R, s, Note(w, R[LastOf(s)]))
  <2>1. s \subseteq Int /\ IsFiniteSet(s)
    BY <1>1, FS_Subset
  <2>2. LastOf(s) \in s /\ \A j \in s : LastOf(s) >= j
    BY <2>1, <1>3, SomeIsLast
  <2> QED BY <1>1, <2>2, NotedNext
<1> HIDE DEF D
<1>4. \A s \in SUBSET D : \E w : Noted(R, s, w)
  <2> DEFINE Good == {s \in SUBSET D : \E w : Noted(R, s, w)}
  <2>1. {} \in Good
    BY <1>2
  <2>2. ASSUME NEW s \in SUBSET D, s # {}, s \ {LastOf(s)} \in Good PROVE s \in Good
    BY <2>2, <1>3
  <2> HIDE DEF Good
  <2>3. \A s \in SUBSET D : s \in Good
    BY <1>1, <2>1, <2>2, LastInduction
  <2> QED BY <2>3 DEF Good
<1> DEFINE g == [s \in SUBSET D |-> CHOOSE w : Noted(R, s, w)]
<1>5. \A s \in SUBSET D : Noted(R, s, g[s])
  BY <1>4
<1> HIDE DEF g
<1>6. \A s \in SUBSET D : g[s] = WalkStep(R, g, s)
  <2> SUFFICES ASSUME NEW s \in SUBSET D PROVE g[s] = WalkStep(R, g, s)
    OBVIOUS
  <2>1. Noted(R, s, WalkStep(R, g, s))
    <3>1. CASE s = {}
      BY <3>1, <1>2 DEF WalkStep
    <3>2. CASE s # {}
      BY <3>2, <1>3, <1>5 DEF WalkStep
    <3> QED BY <3>1, <3>2
  <2> QED BY <2>1, <1>1, <1>5, NotedOnce
<1>7. IsWalk(R, g)
  <2> DEFINE F(s) == WalkStep(R, g, s)
  <2>1. \A s \in SUBSET D : g[s] = F(s)
    BY <1>6
  <2>2. g = [s \in SUBSET D |-> g[s]]
    BY DEF g
  <2> HIDE DEF F
  <2>3. g = [s \in SUBSET D |-> F(s)]
    BY <2>1, <2>2
  <2> QED BY <2>3 DEF IsWalk, F, D
<1> DEFINE c == CHOOSE h : IsWalk(R, h)
<1>8. IsWalk(R, c)
  BY <1>7
<1>9. \A s \in SUBSET D : c[s] = WalkStep(R, c, s)
  BY <1>8, WalkSteps DEF D
<1>10. Walk(R) = c[D]
  BY WalkIsFunction DEF D
<1> HIDE DEF c
<1>11. \A s \in SUBSET D : Noted(R, s, c[s])
  <2> DEFINE Good == {s \in SUBSET D : Noted(R, s, c[s])}
  <2>1. {} \in Good
    BY <1>2, <1>9 DEF WalkStep
  <2>2. ASSUME NEW s \in SUBSET D, s # {}, s \ {LastOf(s)} \in Good PROVE s \in Good
    <3>1. Noted(R, s \ {LastOf(s)}, c[s \ {LastOf(s)}])
      BY <2>2
    <3>2. c[s] = Note(c[s \ {LastOf(s)}], R[LastOf(s)])
      BY <2>2, <1>9 DEF WalkStep
    <3> QED BY <2>2, <3>1, <3>2, <1>3
  <2> HIDE DEF Good
  <2>3. \A s \in SUBSET D : s \in Good
    BY <1>1, <2>1, <2>2, LastInduction
  <2> QED BY <2>3 DEF Good
<1> QED BY <1>10, <1>11 DEF D

(* For any receipts, each with an executor: both classifiers give the verdict *)
(* the comment above classifyTx describes.                                    *)
LEMMA OutcomesAgree ==
  ASSUME NEW E, Nobody \notin E, NEW K,
         NEW status \in [receipts : Seq([executor : E, status : K]), conversion : K]
  PROVE  OutcomesAsDocumented(status)
<1> DEFINE R == status.receipts
           w == Walk(R)
           F == Failing(status)
<1>1. R \in Seq([executor : E, status : K])
  OBVIOUS
<1>2. Noted(R, DOMAIN R, w)
  BY <1>1, WalkNotes
<1>3. F = Fails(R, DOMAIN R)
  BY DEF Failing, Fails
<1>4. w.reachedMpc <=> GotToMpc(status)
  BY <1>2 DEF Noted, GotToMpc
<1>5. F = {} <=> w.failing = Nobody
  <2>1. \A i \in F : R[i].executor # Nobody
    <3> SUFFICES ASSUME NEW i \in DOMAIN R PROVE R[i].executor # Nobody
      BY DEF Failing
    <3>1. R[i] \in [executor : E, status : K]
      BY <1>1, SeqElement
    <3> QED BY <3>1
  <2> HIDE DEF F, w, R
  <2> QED BY <1>2, <1>3, <2>1 DEF Noted
<1>6. w.failing \in MpcContracts <=> FailsFirstAtMpc(status)
  <2>1. CASE F = {}
    BY <2>1, <1>5, OutcomeAssumption DEF FailsFirstAtMpc
  <2>2. CASE F # {}
    <3>1. PICK i \in F : (\A j \in F : i <= j) /\ w.failing = R[i].executor
      <4> HIDE DEF F, w, R
      <4> QED BY <1>2, <1>3, <2>2 DEF Noted
    <3>2. \A k \in F : (\A j \in F : k <= j) => k = i
      <4>1. F \subseteq Int
        BY <1>1 DEF Failing
      <4> HIDE DEF F, w, R
      <4> QED BY <4>1, <3>1
    <3> HIDE DEF w
    <3> QED BY <3>1, <3>2 DEF FailsFirstAtMpc
  <2> QED BY <2>1, <2>2
<1>7. IsFailureStatus(status.conversion) \in BOOLEAN
  BY DEF IsFailureStatus
<1> HIDE DEF R, w, F
<1>8. Clean(status) <=> (w.failing = Nobody /\ ~IsFailureStatus(status.conversion))
  BY <1>5 DEF Clean, F
<1>9. FailsFirstAtMpc(status) => F # {}
  BY DEF FailsFirstAtMpc, F
<1>10. GenericOutcome(status) = IF Clean(status) THEN "success" ELSE "failure"
  BY <1>8 DEF GenericOutcome, w, R
<1>11. FastAuthOutcome(status) =
         IF Clean(status) THEN "success"
         ELSE IF FailsFirstAtMpc(status) THEN "mpc_failure"
         ELSE IF F # {} /\ GotToMpc(status) THEN "other_failure"
         ELSE "guard_failure"
  <2> DEFINE a == w.failing = Nobody /\ ~IsFailureStatus(status.conversion)
             b == w.failing \in MpcContracts
             d == w.failing \notin MpcContracts \union {Nobody} /\ w.reachedMpc
  <2>1. FastAuthOutcome(status) = CASE a -> "success" [] b -> "mpc_failure" [] d -> "other_failure"
                                    [] OTHER -> "guard_failure"
    BY DEF FastAuthOutcome, w, R
  <2>2. a <=> Clean(status)
    BY <1>8
  <2>3. b <=> FailsFirstAtMpc(status)
    BY <1>6
  <2>4. d <=> (~FailsFirstAtMpc(status) /\ F # {} /\ GotToMpc(status))
    BY <1>4, <1>5, <1>6
  <2>5. ~(a /\ b) /\ ~(a /\ d) /\ ~(b /\ d)
    BY OutcomeAssumption
  <2> HIDE DEF a, b, d
  <2> QED BY <2>1, <2>2, <2>3, <2>4, <2>5
<1> QED BY <1>5, <1>8, <1>9, <1>10, <1>11 DEF OutcomesAsDocumented, Clean, F

(* A failure is blamed on the MPC contract only if a receipt got there        *)
(* (classifyTx): what the dashboard relies on when it adds the MPC's own      *)
(* successes and failures.                                                    *)
LEMMA MpcFailureReachedMpc ==
  ASSUME NEW E, Nobody \notin E, NEW K,
         NEW status \in [receipts : Seq([executor : E, status : K]), conversion : K],
         FastAuthOutcome(status) = "mpc_failure"
  PROVE  Walk(status.receipts).reachedMpc
<1> DEFINE R == status.receipts
<1>1. R \in Seq([executor : E, status : K])
  OBVIOUS
<1>2. FailsFirstAtMpc(status)
  <2>1. OutcomesAsDocumented(status)
    BY OutcomesAgree
  <2> QED BY <2>1 DEF OutcomesAsDocumented
<1>3. \E i \in DOMAIN R : R[i].executor \in MpcContracts
  BY <1>2 DEF FailsFirstAtMpc, Failing
<1>4. Noted(R, DOMAIN R, Walk(R))
  BY <1>1, WalkNotes
<1> HIDE DEF R
<1>5. Walk(R).reachedMpc
  BY <1>3, <1>4 DEF Noted
<1> QED BY <1>5 DEF R

(* For any receipts, each with an executor: both classifiers give the verdict *)
(* the comment above classifyTx describes.                                    *)
THEOREM VerdictsAlwaysAsDocumented ==
  ASSUME NEW E, Nobody \notin E, NEW K
  PROVE  Evaluates("outcome", [receipts : Seq([executor : E, status : K]), conversion : K])
           => []VerdictsAsDocumented
<1> DEFINE Statuses == [receipts : Seq([executor : E, status : K]), conversion : K]
<1>1. focus = "outcome" /\ input \in Statuses => VerdictsAsDocumented
  BY OutcomesAgree DEF VerdictsAsDocumented
<1>2. VerdictsAsDocumented /\ [FALSE]_<<focus, input>> => VerdictsAsDocumented'
  BY DEF VerdictsAsDocumented
<1> QED BY <1>1, <1>2, PTL DEF Evaluates

-------------------------------------------------------------------------------
(* Pricing. *)

(* The powers of ten have a value, one after another. *)
LEMMA TenToUnfolds ==
  /\ TenTo[0] = 1
  /\ \A n \in Nat : TenTo[n] \in Nat \ {0} /\ TenTo[n + 1] = 10 * TenTo[n]
<1> DEFINE V == Nat \ {0}
           step == [x \in V \X Nat |-> 10 * x[1]]
           Eq(t, n) == IF n = 0 THEN 1 ELSE 10 * t[n - 1]
<1>1. step \in [V \X Nat -> V] /\ 1 \in V
  OBVIOUS
<1>2. \A v \in V, n \in Nat : step[<<v, n>>] = 10 * v
  OBVIOUS
<1> HIDE DEF step, V
<1>3. PICK f : IsRecursion(V, 1, step, f)
  BY <1>1, RecursionExists
<1>4. \A n \in Nat : f[n] = Eq(f, n)
  <2> SUFFICES ASSUME NEW n \in Nat PROVE f[n] = IF n = 0 THEN 1 ELSE 10 * f[n - 1]
    OBVIOUS
  <2>1. CASE n = 0
    BY <1>3, <2>1 DEF IsRecursion
  <2>2. CASE n # 0
    <3>1. n - 1 \in Nat /\ (n - 1) + 1 = n
      BY <2>2
    <3>2. f[n] = step[<<f[n - 1], n>>] /\ f[n - 1] \in V
      BY <1>3, <3>1 DEF IsRecursion
    <3> QED BY <1>2, <2>2, <3>2
  <2> QED BY <2>1, <2>2
<1>5. f = [n \in Nat |-> Eq(f, n)]
  <2>1. f \in [Nat -> V]
    BY <1>3 DEF IsRecursion
  <2> HIDE DEF Eq
  <2> QED BY <1>4, <2>1
<1> DEFINE IsPower(t) == t = [n \in Nat |-> Eq(t, n)]
<1>6. IsPower(f)
  BY <1>5
<1>7. TenTo = CHOOSE t : IsPower(t)
  BY DEF TenTo
<1>8. IsPower(TenTo)
  <2> HIDE DEF IsPower
  <2> QED BY <1>6, <1>7
<1>9. \A n \in Nat : TenTo[n] = Eq(TenTo, n)
  <2> HIDE DEF Eq
  <2> QED BY <1>8
<1>10. TenTo[0] = 1
  BY <1>9
<1>11. \A n \in Nat : TenTo[n + 1] = 10 * TenTo[n]
  BY <1>9
<1>12. \A n \in Nat : TenTo[n] \in Nat \ {0}
  <2> DEFINE Good == {n \in Nat : TenTo[n] \in Nat \ {0}}
  <2>1. 0 \in Good
    BY <1>10
  <2>2. ASSUME NEW n \in Nat, n \in Good PROVE n + 1 \in Good
    BY <2>2, <1>11
  <2> HIDE DEF Good
  <2>3. \A n \in Nat : n \in Good
    BY <2>1, <2>2, StepInduction
  <2> QED BY <2>3 DEF Good
<1> QED BY <1>10, <1>11, <1>12

(* A power of a sum. *)
LEMMA TenToAdds ==
  ASSUME NEW a \in Nat, NEW b \in Nat
  PROVE  TenTo[a + b] = TenTo[a] * TenTo[b]
<1> DEFINE Good == {n \in Nat : TenTo[a + n] = TenTo[a] * TenTo[n]}
<1>1. 0 \in Good
  BY TenToUnfolds
<1>2. ASSUME NEW n \in Nat, n \in Good PROVE n + 1 \in Good
  <2> DEFINE x == TenTo[a]
             y == TenTo[n]
             z == TenTo[a + n]
  <2>1. x \in Nat /\ y \in Nat /\ z \in Nat /\ z = x * y
    BY <1>2, TenToUnfolds
  <2>2. a + n \in Nat /\ a + (n + 1) = (a + n) + 1
    OBVIOUS
  <2>3. TenTo[n + 1] = 10 * y /\ TenTo[a + (n + 1)] = 10 * z
    BY <2>2, TenToUnfolds
  <2> HIDE DEF x, y, z
  <2>4. 10 * z = x * (10 * y)
    BY <2>1
  <2> QED BY <2>3, <2>4 DEF x
<1>3. \A n \in Nat : n \in Good
  <2> HIDE DEF Good
  <2> QED BY <1>1, <1>2, StepInduction
<1> QED BY <1>3

(* What a division leaves, and what it undoes. *)
LEMMA Division ==
  ASSUME NEW a \in Nat, NEW b \in Nat \ {0}
  PROVE  /\ a \div b \in Nat
         /\ (a \div b) * b <= a
         /\ a < ((a \div b) + 1) * b
  OBVIOUS

(* Dividing what was multiplied gives it back. *)
LEMMA DivisionExact ==
  ASSUME NEW a \in Nat, NEW b \in Nat \ {0}
  PROVE  (a * b) \div b = a
  OBVIOUS

(* An amount loses the places past the sixth, if it has as many. *)
LEMMA Cut ==
  ASSUME NEW d \in Nat
  PROVE  /\ d >= 6 => Max({0, d - SafePrecision}) = d - 6 /\ AtMost(d, SafePrecision) = 6
         /\ d < 6 => Max({0, d - SafePrecision}) = 0 /\ AtMost(d, SafePrecision) = d
<1> DEFINE S == {0, d - SafePrecision}
<1>1. ASSUME NEW x \in S, \A y \in S : x >= y PROVE Max(S) = x
  <2>1. Max(S) \in S /\ \A y \in S : Max(S) >= y
    BY <1>1 DEF Max
  <2>2. x \in Int /\ Max(S) \in Int /\ x >= Max(S) /\ Max(S) >= x
    BY <1>1, <2>1 DEF SafePrecision
  <2> QED BY <2>2
<1>2. CASE d >= 6
  <2>1. d - SafePrecision \in S /\ \A y \in S : d - SafePrecision >= y
    BY <1>2 DEF SafePrecision
  <2> QED BY <1>1, <1>2, <2>1 DEF SafePrecision, AtMost
<1>3. CASE d < 6
  <2>1. 0 \in S /\ \A y \in S : 0 >= y
    BY <1>3 DEF SafePrecision
  <2> QED BY <1>1, <1>3, <2>1 DEF SafePrecision, AtMost
<1> QED BY <1>2, <1>3

(* An amount in millionths of its token is right to the millionth (rawAmountToUsd). *)
LEMMA MillionthsExact ==
  ASSUME NEW amount \in Nat, NEW d \in Nat
  PROVE  /\ Millionths(amount, d) \in Nat
         /\ Millionths(amount, d) * TenTo[d] <= amount * TenTo[SafePrecision]
         /\ amount * TenTo[SafePrecision] < (Millionths(amount, d) + 1) * TenTo[d]
<1> DEFINE m == Millionths(amount, d)
           t == TenTo[6]
<1>1. t \in Nat \ {0} /\ TenTo[d] \in Nat \ {0} /\ SafePrecision = 6
  BY TenToUnfolds DEF SafePrecision
<1>2. CASE d >= 6
  <2> DEFINE b == TenTo[d - 6]
             q == amount \div b
  <2>1. d - 6 \in Nat /\ (d - 6) + 6 = d
    BY <1>2
  <2>2. b \in Nat \ {0} /\ TenTo[d] = b * t
    <3>1. TenTo[(d - 6) + 6] = TenTo[d - 6] * TenTo[6]
      BY <2>1, TenToAdds
    <3> QED BY <2>1, <3>1, TenToUnfolds
  <2>3. q \in Nat /\ q * b <= amount /\ amount < (q + 1) * b
    BY <2>2, Division
  <2>4. m = q
    <3>1. m = q * TenTo[6 - 6]
      BY <1>2, Cut DEF Millionths, SafePrecision
    <3>2. TenTo[6 - 6] = 1
      BY TenToUnfolds
    <3> QED BY <2>3, <3>1, <3>2
  <2> HIDE DEF m, t, b, q
  <2>5. q * (b * t) <= amount * t /\ amount * t < (q + 1) * (b * t)
    <3>1. (q * b) * t <= amount * t
      BY <1>1, <2>2, <2>3
    <3>2. amount * t < ((q + 1) * b) * t
      BY <1>1, <2>2, <2>3
    <3> QED BY <1>1, <2>2, <2>3, <3>1, <3>2
  <2> QED BY <1>1, <2>2, <2>3, <2>4, <2>5 DEF m, t
<1>3. CASE d < 6
  <2> DEFINE r == TenTo[6 - d]
  <2>1. 6 - d \in Nat /\ (6 - d) + d = 6
    BY <1>3
  <2>2. r \in Nat \ {0} /\ t = r * TenTo[d]
    <3>1. r \in Nat \ {0}
      BY <2>1, TenToUnfolds
    <3>2. TenTo[(6 - d) + d] = TenTo[6 - d] * TenTo[d]
      BY <2>1, TenToAdds
    <3>3. TenTo[(6 - d) + d] = TenTo[6]
      BY <2>1
    <3> QED BY <3>1, <3>2, <3>3
  <2>3. m = amount * r
    <3>1. m = (amount \div TenTo[0]) * r
      BY <1>3, Cut DEF Millionths, SafePrecision
    <3>2. TenTo[0] = 1 /\ amount \div 1 = amount
      BY TenToUnfolds
    <3> QED BY <3>1, <3>2
  <2> DEFINE p == TenTo[d]
  <2>4. p \in Nat \ {0}
    BY <1>1
  <2> HIDE DEF m, t, r, p
  <2>5. (amount * r) * p = amount * (r * p)
    BY <2>2, <2>4
  <2>6. (amount * r + 1) * p = (amount * r) * p + p
    BY <2>2, <2>4
  <2>7. amount * (r * p) \in Nat /\ amount * r \in Nat
    BY <2>2, <2>4
  <2> QED BY <1>1, <2>2, <2>3, <2>4, <2>5, <2>6, <2>7 DEF m, t, p
<1> QED BY <1>2, <1>3

(* There is a millionth of the token, or more, in what the reference counts. *)
LEMMA MovesIsMillionths ==
  ASSUME NEW amount \in Int, amount # Unknown, NEW d \in Nat
  PROVE  Moves(amount, d) <=> amount > 0 /\ Millionths(amount, d) # 0
<1>1. TenTo[SafePrecision] \in Nat \ {0} /\ TenTo[d] \in Nat \ {0}
  BY TenToUnfolds DEF SafePrecision
<1>2. CASE amount <= 0
  <2>1. amount * TenTo[SafePrecision] <= 0
    BY <1>1, <1>2
  <2>2. amount * TenTo[SafePrecision] \in Int
    BY <1>1
  <2> QED BY <1>1, <1>2, <2>1, <2>2 DEF Moves
<1>3. CASE amount > 0
  <2> DEFINE m == Millionths(amount, d)
             a == amount * TenTo[SafePrecision]
             t == TenTo[d]
  <2>1. m \in Nat /\ a \in Nat /\ t \in Nat \ {0} /\ m * t <= a /\ a < (m + 1) * t
    <3>1. amount \in Nat
      BY <1>3
    <3>2. a \in Nat
      BY <1>1, <3>1
    <3>3. /\ m \in Nat /\ m * TenTo[d] <= amount * TenTo[SafePrecision]
          /\ amount * TenTo[SafePrecision] < (m + 1) * TenTo[d]
      BY <3>1, MillionthsExact
    <3> QED BY <1>1, <3>2, <3>3
  <2> HIDE DEF m, a, t
  <2>2. CASE m = 0
    <3>1. a < t
      BY <2>1, <2>2
    <3> QED BY <2>1, <2>2, <3>1, <1>3 DEF Moves, m, a, t
  <2>3. CASE m # 0
    <3>1. t <= m * t
      BY <2>1, <2>3
    <3>2. m * t \in Nat
      BY <2>1
    <3>3. a >= t
      BY <2>1, <3>1, <3>2
    <3> QED BY <2>3, <3>3, <1>3 DEF Moves, m, a, t
  <2> QED BY <2>2, <2>3
<1> QED BY <1>2, <1>3

(* The records and actions a registry and a transaction are read from. *)
TokenRecords ==
    [chain : STRING, contract : DOMAIN Canonical \union {Unknown},
     decimals : Nat \union {Unknown}, price : Int \union {Unknown}]
ActionRecords ==
    [type : STRING, method : STRING, deposit : Int \union {Unknown}, amount : Int \union {Unknown}]

RecordOf(tokens, name) == tokens[Max(ListedAs(tokens, name))]

(* The last record of a listed contract has decimals and a price. *)
LEMMA LastListed ==
  ASSUME NEW tokens \in Seq(TokenRecords), NEW name, ListedAs(tokens, name) # {}
  PROVE  /\ RecordOf(tokens, name).decimals \in Nat
         /\ RecordOf(tokens, name).price \in Int
<1> DEFINE S == ListedAs(tokens, name)
           i == Max(S)
<1>1. /\ DOMAIN tokens = 1 .. Len(tokens) /\ Len(tokens) \in Nat
      /\ \A k \in DOMAIN tokens : tokens[k] \in TokenRecords
  OBVIOUS
<1>2. IsFiniteSet(1 .. Len(tokens))
  BY <1>1, FS_Interval
<1>3. S \subseteq 1 .. Len(tokens) /\ S \subseteq Int /\ IsFiniteSet(S)
  <2>1. S \subseteq 1 .. Len(tokens)
    BY <1>1 DEF ListedAs
  <2> QED BY <1>1, <1>2, <2>1, FS_Subset
<1>4. i \in S
  <2>1. LastOf(S) \in S /\ \A k \in S : LastOf(S) >= k
    BY <1>3, SomeIsLast
  <2> QED BY <2>1 DEF Max
<1>5. i \in DOMAIN tokens /\ Usable(tokens[i]) /\ tokens[i] \in TokenRecords
  BY <1>1, <1>4 DEF ListedAs
<1>6. /\ tokens[i].decimals \in Nat \union {Unknown} /\ tokens[i].decimals # Unknown
      /\ tokens[i].price \in Int \union {Unknown} /\ tokens[i].price # Unknown
  BY <1>5 DEF Usable, TokenRecords
<1> QED BY <1>6 DEF RecordOf

(* The registry has the last record of each contract that is listed. *)
LEMMA RegistryIs ==
  ASSUME NEW tokens
  PROVE  /\ \A name : name \in DOMAIN BuildRegistry(tokens).byContract <=> ListedAs(tokens, name) # {}
         /\ \A name \in DOMAIN BuildRegistry(tokens).byContract :
               BuildRegistry(tokens).byContract[name] = RecordOf(tokens, name)
         /\ BuildRegistry(tokens).nativePrice =
               IF ListedAs(tokens, WrapNear) # {} THEN RecordOf(tokens, WrapNear).price ELSE Unknown
<1> DEFINE names == {Canonical[tokens[i].contract] : i \in {j \in DOMAIN tokens : Usable(tokens[j])}}
           last  == [name \in names |-> tokens[Max(ListedAs(tokens, name))]]
<1>1. BuildRegistry(tokens) =
         [byContract  |-> last, nativePrice |-> IF WrapNear \in names THEN last[WrapNear].price ELSE Unknown]
  BY DEF BuildRegistry
<1>2. \A name : name \in names <=> ListedAs(tokens, name) # {}
  BY DEF ListedAs
<1> HIDE DEF names
<1>3. /\ BuildRegistry(tokens).byContract = last
      /\ BuildRegistry(tokens).nativePrice = IF WrapNear \in names THEN last[WrapNear].price ELSE Unknown
  BY <1>1
<1>4. DOMAIN last = names /\ \A name \in names : last[name] = RecordOf(tokens, name)
  BY DEF RecordOf
<1> HIDE DEF last
<1> QED BY <1>2, <1>3, <1>4

(* What one movement is, when there is one. *)
LEMMA MovementIs ==
  ASSUME NEW symbol, NEW amount \in Int \union {Unknown}, NEW d \in Nat, NEW price \in Int
  PROVE  IF price > 0 /\ Moves(amount, d)
         THEN /\ amount \in Nat
              /\ Movement(symbol, amount, d, price) =
                    <<[symbol |-> symbol, decimals |-> d, amount |-> amount,
                       value |-> Millionths(amount, d) * price]>>
         ELSE Movement(symbol, amount, d, price) = <<>>
<1> DEFINE m == Millionths(amount, d)
<1>1. price # Unknown
  BY PricingAssumption
<1>2. CASE amount = Unknown
  BY <1>2 DEF Movement, Moves
<1>3. CASE amount # Unknown /\ ~(amount > 0)
  <2>1. amount \in Int /\ amount <= 0 /\ ~Moves(amount, d)
    BY <1>3, MovesIsMillionths
  <2> QED BY <1>3, <2>1 DEF Movement
<1>4. CASE amount # Unknown /\ amount > 0
  <2>1. amount \in Int /\ amount \in Nat /\ m \in Nat
    <3>1. amount \in Nat
      BY <1>4
    <3> QED BY <3>1, MillionthsExact
  <2>2. Moves(amount, d) <=> m # 0
    BY <1>4, <2>1, MovesIsMillionths
  <2> HIDE DEF m
  <2>3. m * price <= 0 <=> ~(price > 0 /\ m # 0)
    <3>1. CASE m = 0
      BY <2>1, <3>1
    <3>2. CASE m # 0 /\ price > 0
      <4>1. m * price > 0 /\ m * price \in Int
        BY <2>1, <3>2
      <4> QED BY <3>2, <4>1
    <3>3. CASE m # 0 /\ ~(price > 0)
      <4>1. m * price <= 0
        BY <2>1, <3>3
      <4> QED BY <3>3, <4>1
    <3> QED BY <3>1, <3>2, <3>3
  <2>4. CASE price > 0 /\ m # 0
    <3>1. ~(amount = Unknown \/ price = Unknown) /\ ~(amount <= 0 \/ m * price <= 0)
      BY <1>1, <1>4, <2>1, <2>3, <2>4
    <3> QED BY <2>1, <2>2, <2>4, <3>1 DEF Movement, m
  <2>5. CASE ~(price > 0 /\ m # 0)
    BY <1>1, <1>4, <2>2, <2>3, <2>5 DEF Movement, m
  <2> QED BY <2>4, <2>5
<1> QED BY <1>2, <1>3, <1>4

(* The fold of MovementsOf, from the first action to the last. *)
MovesStep(actions, receiver, registry, g, s) ==
    IF s = {} THEN <<>>
    ELSE g[s \ {LastOf(s)}] \o OwnMovement(actions[LastOf(s)], registry)
                            \o TokenMovement(actions[LastOf(s)], receiver, registry)
AreMoves(actions, receiver, registry, g) ==
    g = [s \in SUBSET (DOMAIN actions) |-> MovesStep(actions, receiver, registry, g, s)]

(* The fold is a recursive function of the positions that are folded. *)
LEMMA MovesAreFunction ==
  ASSUME NEW actions, NEW receiver, NEW registry
  PROVE  MovementsOf(actions, receiver, registry) =
            (CHOOSE g : AreMoves(actions, receiver, registry, g))[DOMAIN actions]
  BY DEF MovementsOf, FoldLeft, MapThenFoldSet, MovesStep, LastOf, AreMoves, Max

(* What is moved by the actions up to each, when an action moves what is in M. *)
MovesUpTo(actions, receiver, registry, M, g) ==
    \A s \in SUBSET (DOMAIN actions) :
       g[s] \in Seq(M) /\ g[s] = MovesStep(actions, receiver, registry, g, s)

(* A sequence has finitely many positions. *)
LEMMA Indices ==
  ASSUME NEW T, NEW s \in Seq(T)
  PROVE  DOMAIN s \subseteq Int /\ IsFiniteSet(DOMAIN s)
<1>1. DOMAIN s = 1 .. Len(s) /\ Len(s) \in Nat
  OBVIOUS
<1> QED BY <1>1, FS_Interval

(* What is moved is what the actions before move and what the last adds: the *)
(* recursive equation has a solution, and each is a sequence of movements.   *)
LEMMA MovesUnfold ==
  ASSUME NEW A, NEW actions \in Seq(A), NEW receiver, NEW registry, NEW M,
         \A a \in A : OwnMovement(a, registry) \in Seq(M) /\ TokenMovement(a, receiver, registry) \in Seq(M)
  PROVE  \E g : /\ MovementsOf(actions, receiver, registry) = g[DOMAIN actions]
                /\ MovesUpTo(actions, receiver, registry, M, g)
<1> DEFINE D == DOMAIN actions
           V == Seq(M)
           step == [x \in V \X D |-> x[1] \o OwnMovement(actions[x[2]], registry)
                                          \o TokenMovement(actions[x[2]], receiver, registry)]
           F(g, s) == MovesStep(actions, receiver, registry, g, s)
<1>1. D \subseteq Int /\ IsFiniteSet(D) /\ \A i \in D : actions[i] \in A
  BY Indices
<1>2. \A i \in D : OwnMovement(actions[i], registry) \in V /\ TokenMovement(actions[i], receiver, registry) \in V
  BY <1>1
<1>3. \A v \in V, i \in D : /\ step[<<v, i>>] = v \o OwnMovement(actions[i], registry)
                                                  \o TokenMovement(actions[i], receiver, registry)
                            /\ step[<<v, i>>] \in V
  <2> SUFFICES ASSUME NEW v \in V, NEW i \in D
               PROVE  v \o OwnMovement(actions[i], registry) \o TokenMovement(actions[i], receiver, registry) \in V
    OBVIOUS
  <2> DEFINE a == OwnMovement(actions[i], registry)
             b == TokenMovement(actions[i], receiver, registry)
  <2>1. a \in V /\ b \in V
    BY <1>2
  <2> HIDE DEF a, b
  <2>2. v \o a \o b \in V
    BY <2>1
  <2> QED BY <2>2 DEF a, b
<1>4. step \in [V \X D -> V] /\ <<>> \in V
  <2>1. \A x \in V \X D : x = <<x[1], x[2]>> /\ x[1] \in V /\ x[2] \in D
    OBVIOUS
  <2>2. \A x \in V \X D : step[x] \in V
    BY <1>3, <2>1
  <2>3. step = [x \in V \X D |-> step[x]]
    OBVIOUS
  <2> HIDE DEF step
  <2> QED BY <2>2, <2>3
<1> HIDE DEF step
<1>5. PICK g : Folds(V, <<>>, step, D, g)
  <2> HIDE DEF V, D
  <2> QED BY <1>1, <1>4, FoldExists
<1>6. ASSUME NEW h, NEW s \in SUBSET D, s # {} => h[s \ {LastOf(s)}] \in V
      PROVE  FoldStep(<<>>, step, h, s) = F(h, s) /\ F(h, s) \in V
  <2>1. CASE s = {}
    BY <2>1, <1>4 DEF FoldStep, MovesStep
  <2>2. CASE s # {}
    <3>1. LastOf(s) \in s
      BY <1>1, <2>2, FS_Subset, SomeIsLast
    <3>2. LastOf(s) \in D
      BY <3>1
    <3>3. FoldStep(<<>>, step, h, s) = F(h, s)
      BY <1>3, <1>6, <2>2, <3>2 DEF FoldStep, MovesStep
    <3>4. FoldStep(<<>>, step, h, s) \in V
      BY <1>3, <1>6, <2>2, <3>2 DEF FoldStep
    <3> QED BY <3>3, <3>4
  <2> QED BY <2>1, <2>2
<1>7. \A s \in SUBSET D : g[s] = F(g, s)
  <2> SUFFICES ASSUME NEW s \in SUBSET D PROVE g[s] = F(g, s)
    OBVIOUS
  <2>1. s \ {LastOf(s)} \in SUBSET D
    OBVIOUS
  <2>2. g[s \ {LastOf(s)}] \in V /\ g[s] = FoldStep(<<>>, step, g, s)
    BY <1>5, <2>1 DEF Folds
  <2> QED BY <2>2, <1>6
<1>8. AreMoves(actions, receiver, registry, g)
  <2>1. g \in [SUBSET D -> V]
    BY <1>5 DEF Folds
  <2> HIDE DEF F, V
  <2>2. g = [s \in SUBSET D |-> F(g, s)]
    BY <1>7, <2>1
  <2> QED BY <2>2 DEF AreMoves, F, D
<1> DEFINE c == CHOOSE h : AreMoves(actions, receiver, registry, h)
<1>9. AreMoves(actions, receiver, registry, c)
  BY <1>8
<1>10. MovementsOf(actions, receiver, registry) = c[D]
  BY MovesAreFunction
<1> HIDE DEF c
<1>11. \A s \in SUBSET D : c[s] = F(c, s)
  <2> HIDE DEF F
  <2>1. c = [s \in SUBSET D |-> F(c, s)]
    BY <1>9 DEF AreMoves, F
  <2> QED BY <2>1
<1>12. \A s \in SUBSET D : c[s] \in V
  <2> DEFINE Good == {s \in SUBSET D : c[s] \in V}
  <2>1. {} \in Good
    BY <1>4, <1>11 DEF MovesStep
  <2>2. ASSUME NEW s \in SUBSET D, s # {}, s \ {LastOf(s)} \in Good PROVE s \in Good
    BY <2>2, <1>6, <1>11
  <2> HIDE DEF Good, D
  <2>3. \A s \in SUBSET D : s \in Good
    BY <1>1, <2>1, <2>2, LastInduction
  <2> QED BY <2>3 DEF Good
<1>13. MovesUpTo(actions, receiver, registry, M, c)
  BY <1>11, <1>12 DEF MovesUpTo
<1> QED BY <1>10, <1>13

(* The fold of the total. *)
TotalOf(moved) == FoldLeft(LAMBDA sum, t : sum + t.value, 0, moved)
TotalStep(moved, g, s) == IF s = {} THEN 0 ELSE g[s \ {LastOf(s)}] + moved[LastOf(s)].value
AreTotals(moved, g) == g = [s \in SUBSET (DOMAIN moved) |-> TotalStep(moved, g, s)]

(* The sum of the values is one, too. *)
LEMMA TotalsAreFunction ==
  ASSUME NEW moved
  PROVE  TotalOf(moved) = (CHOOSE g : AreTotals(moved, g))[DOMAIN moved]
  BY DEF TotalOf, FoldLeft, MapThenFoldSet, TotalStep, LastOf, AreTotals, Max

(* A total is a number. *)
LEMMA TotalIsInt ==
  ASSUME NEW M, \A m \in M : m.value \in Int, NEW moved \in Seq(M)
  PROVE  TotalOf(moved) \in Int
<1> DEFINE D == DOMAIN moved
           step == [x \in Int \X D |-> x[1] + moved[x[2]].value]
           F(g, s) == TotalStep(moved, g, s)
<1>1. D \subseteq Int /\ IsFiniteSet(D) /\ \A i \in D : moved[i].value \in Int
  BY Indices
<1>2. \A v \in Int, i \in D : step[<<v, i>>] = v + moved[i].value
  OBVIOUS
<1>3. step \in [Int \X D -> Int] /\ 0 \in Int
  BY <1>1
<1> HIDE DEF step
<1>4. PICK g : Folds(Int, 0, step, D, g)
  <2> HIDE DEF D
  <2> QED BY <1>1, <1>3, FoldExists
<1>5. ASSUME NEW h, NEW s \in SUBSET D, s # {} => h[s \ {LastOf(s)}] \in Int
      PROVE  FoldStep(0, step, h, s) = F(h, s) /\ F(h, s) \in Int
  <2>1. CASE s = {}
    BY <2>1 DEF FoldStep, TotalStep
  <2>2. CASE s # {}
    <3>1. LastOf(s) \in D
      BY <1>1, <2>2, FS_Subset, SomeIsLast
    <3> QED BY <1>1, <1>2, <1>5, <2>2, <3>1 DEF FoldStep, TotalStep
  <2> QED BY <2>1, <2>2
<1>6. \A s \in SUBSET D : g[s] = F(g, s)
  <2> SUFFICES ASSUME NEW s \in SUBSET D PROVE g[s] = F(g, s)
    OBVIOUS
  <2>1. s \ {LastOf(s)} \in SUBSET D
    OBVIOUS
  <2>2. g[s \ {LastOf(s)}] \in Int /\ g[s] = FoldStep(0, step, g, s)
    BY <1>4, <2>1 DEF Folds
  <2> QED BY <2>2, <1>5
<1>7. AreTotals(moved, g)
  <2>1. g \in [SUBSET D -> Int]
    BY <1>4 DEF Folds
  <2> HIDE DEF F
  <2>2. g = [s \in SUBSET D |-> F(g, s)]
    BY <1>6, <2>1
  <2> QED BY <2>2 DEF AreTotals, F, D
<1> DEFINE c == CHOOSE h : AreTotals(moved, h)
<1>8. AreTotals(moved, c)
  BY <1>7
<1>9. TotalOf(moved) = c[D]
  BY TotalsAreFunction
<1> HIDE DEF c
<1>10. \A s \in SUBSET D : c[s] = F(c, s)
  <2> HIDE DEF F
  <2>1. c = [s \in SUBSET D |-> F(c, s)]
    BY <1>8 DEF AreTotals, F
  <2> QED BY <2>1
<1>11. c[D] \in Int
  <2> DEFINE Good == {s \in SUBSET D : c[s] \in Int}
  <2>1. {} \in Good
    <3>1. {} \in SUBSET D /\ c[{}] = TotalStep(moved, c, {})
      BY <1>10
    <3>2. c[{}] = 0
      BY <3>1 DEF TotalStep
    <3> QED BY <3>1, <3>2
  <2>2. ASSUME NEW s \in SUBSET D, s # {}, s \ {LastOf(s)} \in Good PROVE s \in Good
    BY <2>2, <1>5, <1>10
  <2> HIDE DEF Good, D
  <2>3. \A s \in SUBSET D : s \in Good
    BY <1>1, <2>1, <2>2, LastInduction
  <2> QED BY <2>3 DEF Good
<1> QED BY <1>9, <1>11

(* How many of the movements are of one symbol. *)
NumberOf(moved, symbol) == Cardinality({i \in DOMAIN moved : moved[i].symbol = symbol})
Adds(v, symbol) == IF v # <<>> /\ v[1].symbol = symbol THEN 1 ELSE 0

(* One movement more of a symbol is counted once. *)
LEMMA NumberGrows ==
  ASSUME NEW M, NEW u \in Seq(M), NEW v \in Seq(M), Len(v) \in {0, 1}, NEW symbol
  PROVE  /\ NumberOf(u, symbol) \in Nat
         /\ NumberOf(u \o v, symbol) = NumberOf(u, symbol) + Adds(v, symbol)
<1> DEFINE S == {i \in DOMAIN u : u[i].symbol = symbol}
           n == Len(u)
<1>1. n \in Nat /\ DOMAIN u = 1 .. n
  OBVIOUS
<1>2. S \subseteq DOMAIN u /\ IsFiniteSet(S) /\ n + 1 \notin S
  <2>1. S \subseteq DOMAIN u /\ IsFiniteSet(DOMAIN u)
    BY Indices
  <2> QED BY <1>1, <2>1, FS_Subset
<1>3. Cardinality(S) \in Nat /\ NumberOf(u, symbol) = Cardinality(S)
  BY <1>2, FS_CardinalityType DEF NumberOf
<1>4. CASE v = <<>>
  <2>1. u \o v = u
    BY <1>4
  <2> QED BY <1>3, <1>4, <2>1 DEF Adds
<1>5. CASE v # <<>>
  <2> DEFINE w == u \o v
             S2 == {i \in DOMAIN w : w[i].symbol = symbol}
  <2>1. Len(v) = 1
    <3>1. Len(v) \in Nat \ {0}
      BY <1>5, EmptySeq
    <3> QED BY <3>1
  <2>2. /\ DOMAIN w = 1 .. n + 1
        /\ w[n + 1] = v[1]
        /\ \A i \in 1 .. n : w[i] = u[i]
    <3>1. w \in Seq(M) /\ Len(w) = n + 1
      <4>1. w \in Seq(M) /\ Len(w) = Len(u) + Len(v)
        BY ConcatProperties
      <4> QED BY <2>1, <4>1
    <3>2. DOMAIN w = 1 .. n + 1
      BY <3>1
    <3>3. \A i \in 1 .. n + 1 : w[i] = IF i <= n THEN u[i] ELSE v[i - n]
      BY <1>1, <2>1, ConcatProperties
    <3>4. ~(n + 1 <= n) /\ (n + 1) - n = 1 /\ n + 1 \in 1 .. n + 1
      BY <1>1
    <3>5. w[n + 1] = v[1]
      BY <3>3, <3>4
    <3> QED BY <1>1, <3>2, <3>3, <3>5
  <2> HIDE DEF w
  <2>0. NumberOf(u \o v, symbol) = Cardinality(S2)
    BY DEF NumberOf, w
  <2>3. CASE v[1].symbol = symbol
    <3>1. S2 = S \union {n + 1}
      BY <1>1, <2>2, <2>3
    <3>2. Cardinality(S \union {n + 1}) = Cardinality(S) + 1
      BY <1>2, FS_AddElement
    <3>3. Adds(v, symbol) = 1
      BY <1>5, <2>3 DEF Adds
    <3> HIDE DEF S, S2
    <3> QED BY <1>3, <2>0, <3>1, <3>2, <3>3
  <2>4. CASE v[1].symbol # symbol
    <3>1. S2 = S
      BY <1>1, <2>2, <2>4
    <3>2. Adds(v, symbol) = 0
      BY <2>4 DEF Adds
    <3> HIDE DEF S, S2
    <3> QED BY <1>3, <2>0, <3>1, <3>2
  <2> QED BY <2>3, <2>4
<1> QED BY <1>4, <1>5

(* An action moves at most twice, and the actions in W add one movement of a  *)
(* symbol each, no other does.                                               *)
MovesLittle(A, receiver, registry, M) ==
    \A a \in A : /\ OwnMovement(a, registry) \in Seq(M)
                 /\ Len(OwnMovement(a, registry)) \in {0, 1}
                 /\ TokenMovement(a, receiver, registry) \in Seq(M)
                 /\ Len(TokenMovement(a, receiver, registry)) \in {0, 1}
AddInAll(W, actions, receiver, registry, symbol) ==
    \A i \in DOMAIN actions :
       Adds(OwnMovement(actions[i], registry), symbol)
         + Adds(TokenMovement(actions[i], receiver, registry), symbol) = IF i \in W THEN 1 ELSE 0

(* When the actions in W add one movement each, there are as many as W has. *)
LEMMA MovesCounted ==
  ASSUME NEW A, NEW actions \in Seq(A), NEW receiver, NEW registry, NEW M, NEW g,
         MovesUpTo(actions, receiver, registry, M, g), NEW symbol, NEW W \in SUBSET (DOMAIN actions),
         MovesLittle(A, receiver, registry, M), AddInAll(W, actions, receiver, registry, symbol)
  PROVE  NumberOf(g[DOMAIN actions], symbol) = Cardinality(W)
<1> DEFINE D == DOMAIN actions
           Good == {s \in SUBSET D : NumberOf(g[s], symbol) = Cardinality(W \intersect s)}
<1>1. D \subseteq Int /\ IsFiniteSet(D) /\ \A i \in D : actions[i] \in A
  BY Indices
<1>2. \A s \in SUBSET D : g[s] \in Seq(M) /\ g[s] = MovesStep(actions, receiver, registry, g, s)
  BY DEF MovesUpTo
<1>3. {} \in Good
  <2>1. g[{}] = <<>>
    BY <1>2 DEF MovesStep
  <2>2. {i \in DOMAIN <<>> : <<>>[i].symbol = symbol} = {} /\ W \intersect {} = {}
    OBVIOUS
  <2>3. NumberOf(g[{}], symbol) = Cardinality(W \intersect {})
    BY <2>1, <2>2 DEF NumberOf
  <2> QED BY <2>3
<1>4. ASSUME NEW s \in SUBSET D, s # {}, s \ {LastOf(s)} \in Good PROVE s \in Good
  <2> DEFINE m == LastOf(s)
             t == s \ {m}
             a == OwnMovement(actions[m], registry)
             b == TokenMovement(actions[m], receiver, registry)
  <2>1. m \in s /\ m \in D
    BY <1>1, <1>4, FS_Subset, SomeIsLast
  <2>2. t \in SUBSET D /\ g[t] \in Seq(M) /\ NumberOf(g[t], symbol) = Cardinality(W \intersect t)
    BY <1>2, <1>4
  <2>3. a \in Seq(M) /\ Len(a) \in {0, 1} /\ b \in Seq(M) /\ Len(b) \in {0, 1}
    BY <1>1, <2>1 DEF MovesLittle
  <2>4. g[s] = (g[t] \o a) \o b
    BY <1>2, <1>4 DEF MovesStep
  <2>5. Adds(a, symbol) + Adds(b, symbol) = IF m \in W THEN 1 ELSE 0
    BY <2>1 DEF AddInAll
  <2>6. Adds(a, symbol) \in Nat /\ Adds(b, symbol) \in Nat
    BY DEF Adds
  <2> HIDE DEF a, b, t, m
  <2>7. g[t] \o a \in Seq(M)
    BY <2>2, <2>3
  <2>8. /\ NumberOf(g[t] \o a, symbol) = NumberOf(g[t], symbol) + Adds(a, symbol)
        /\ NumberOf(g[t], symbol) \in Nat
        /\ NumberOf(g[s], symbol) = NumberOf(g[t] \o a, symbol) + Adds(b, symbol)
    <3>1. /\ NumberOf(g[t] \o a, symbol) = NumberOf(g[t], symbol) + Adds(a, symbol)
          /\ NumberOf(g[t], symbol) \in Nat
      BY <2>2, <2>3, NumberGrows
    <3>2. NumberOf((g[t] \o a) \o b, symbol) = NumberOf(g[t] \o a, symbol) + Adds(b, symbol)
      BY <2>3, <2>7, NumberGrows
    <3> QED BY <2>4, <3>1, <3>2
  <2>9. Cardinality(W \intersect s) = Cardinality(W \intersect t) + (IF m \in W THEN 1 ELSE 0)
    <3>1. IsFiniteSet(W \intersect t) /\ m \notin W \intersect t
      <4>1. W \intersect t \subseteq D /\ m \notin t
        BY <2>2 DEF t
      <4> QED BY <1>1, <4>1, FS_Subset
    <3>2. CASE m \in W
      <4>1. W \intersect s = (W \intersect t) \union {m}
        BY <2>1, <3>2 DEF t
      <4> QED BY <3>1, <3>2, <4>1, FS_AddElement
    <3>3. CASE m \notin W
      <4>1. W \intersect s = W \intersect t
        BY <3>3 DEF t
      <4>2. Cardinality(W \intersect t) \in Nat
        BY <3>1, FS_CardinalityType
      <4>3. Cardinality(W \intersect t) + 0 = Cardinality(W \intersect t)
        BY <4>2
      <4> QED BY <3>3, <4>1, <4>3
    <3> QED BY <3>2, <3>3
  <2>10. NumberOf(g[s], symbol) = Cardinality(W \intersect s)
    BY <2>2, <2>5, <2>6, <2>8, <2>9
  <2> QED BY <2>10
<1>5. \A s \in SUBSET D : s \in Good
  <2> HIDE DEF Good, D
  <2> QED BY <1>1, <1>3, <1>4, LastInduction
<1>6. W \intersect D = W /\ D \in SUBSET D
  OBVIOUS
<1>7. NumberOf(g[D], symbol) = Cardinality(W \intersect D)
  BY <1>5, <1>6
<1> QED BY <1>6, <1>7

(* What a movement of a registry is worth, and that it is right. *)
PriceIn(registry, symbol) ==
    IF symbol = "NEAR" THEN registry.nativePrice ELSE registry.byContract[symbol].price
RightMovements(registry, symbols) ==
    {m \in [symbol : symbols, decimals : Nat, amount : Nat, value : Int] :
        /\ PriceIn(registry, m.symbol) \in Nat \ {0}
        /\ m.value = Millionths(m.amount, m.decimals) * PriceIn(registry, m.symbol)}

(* At most one movement, of a symbol, and when it is there. *)
OneOrNone(moved, S, symbol, moves) ==
    /\ moved \in Seq(S)
    /\ Len(moved) \in {0, 1}
    /\ \A x : Adds(moved, x) = IF x = symbol /\ moves THEN 1 ELSE 0

(* Nothing is moved when there is nothing to move. *)
LEMMA NoMovement ==
  ASSUME NEW S, NEW symbol, NEW moves, ~moves
  PROVE  OneOrNone(<<>>, S, symbol, moves)
<1>1. <<>> \in Seq(S) /\ Len(<<>>) \in {0, 1}
  OBVIOUS
<1>2. \A x : Adds(<<>>, x) = 0
  BY DEF Adds
<1> QED BY <1>1, <1>2 DEF OneOrNone

(* A movement that is worth its while is a right one, and counts once. *)
LEMMA OneMovement ==
  ASSUME NEW registry, NEW symbols, NEW symbol \in symbols,
         NEW amount \in Int \union {Unknown}, NEW d \in Nat, NEW price \in Int,
         price = PriceIn(registry, symbol)
  PROVE  OneOrNone(Movement(symbol, amount, d, price), RightMovements(registry, symbols),
                   symbol, price > 0 /\ Moves(amount, d))
<1> DEFINE M == RightMovements(registry, symbols)
           moved == Movement(symbol, amount, d, price)
<1>1. CASE price > 0 /\ Moves(amount, d)
  <2> DEFINE m == [symbol |-> symbol, decimals |-> d, amount |-> amount,
                   value |-> Millionths(amount, d) * price]
  <2>1. amount \in Nat /\ moved = <<m>>
    BY <1>1, MovementIs
  <2>2. Millionths(amount, d) * price \in Int
    <3>1. Millionths(amount, d) \in Nat
      BY <2>1, MillionthsExact
    <3> QED BY <3>1
  <2>3. PriceIn(registry, m.symbol) = price /\ price \in Nat \ {0}
    BY <1>1 DEF PriceIn
  <2>4. m \in M
    BY <2>1, <2>2, <2>3 DEF RightMovements
  <2>5. m.symbol = symbol
    OBVIOUS
  <2> HIDE DEF m, M, moved
  <2>6. <<m>> \in Seq(M) /\ Len(<<m>>) = 1 /\ <<m>> # <<>> /\ <<m>>[1] = m
    BY <2>4
  <2>7. \A x : Adds(moved, x) = IF x = symbol THEN 1 ELSE 0
    BY <2>1, <2>5, <2>6 DEF Adds
  <2>8. moved \in Seq(M) /\ Len(moved) \in {0, 1}
    BY <2>1, <2>6
  <2> QED BY <1>1, <2>7, <2>8 DEF OneOrNone, M, moved
<1>2. CASE ~(price > 0 /\ Moves(amount, d))
  <2>1. moved = <<>>
    BY <1>2, MovementIs
  <2> QED BY <1>2, <2>1, NoMovement
<1> QED BY <1>1, <1>2

(* The native token's movement of an action. *)
LEMMA OwnMovementIs ==
  ASSUME NEW tokens \in Seq(TokenRecords), NEW symbols, "NEAR" \in symbols, NEW a \in ActionRecords
  PROVE  LET moved == OwnMovement(a, BuildRegistry(tokens))
             moves == /\ ListedAs(tokens, WrapNear) # {}
                      /\ RecordOf(tokens, WrapNear).price > 0
                      /\ a.type \in {"Transfer", "FunctionCall"}
                      /\ Moves(a.deposit, NativeDecimals)
         IN  OneOrNone(moved, RightMovements(BuildRegistry(tokens), symbols), "NEAR", moves)
<1> DEFINE registry == BuildRegistry(tokens)
           moved == OwnMovement(a, registry)
           price == registry.nativePrice
<1>1. a.deposit \in Int \union {Unknown} /\ NativeDecimals \in Nat
  BY PricingAssumption DEF ActionRecords
<1>2. CASE a.type \in {"Transfer", "FunctionCall"} /\ ListedAs(tokens, WrapNear) # {}
  <2>1. price = RecordOf(tokens, WrapNear).price /\ price \in Int
    BY <1>2, RegistryIs, LastListed
  <2>2. moved = Movement("NEAR", a.deposit, NativeDecimals, price)
    BY <1>2 DEF OwnMovement
  <2> HIDE DEF registry, moved, price
  <2>3. price = PriceIn(registry, "NEAR")
    BY DEF price, PriceIn
  <2>4. OneOrNone(moved, RightMovements(registry, symbols), "NEAR",
                  price > 0 /\ Moves(a.deposit, NativeDecimals))
    BY <1>1, <2>1, <2>2, <2>3, OneMovement
  <2> QED BY <1>2, <2>1, <2>4 DEF registry, moved, OneOrNone
<1>3. CASE ~(a.type \in {"Transfer", "FunctionCall"} /\ ListedAs(tokens, WrapNear) # {})
  <2>1. moved = <<>>
    <3>1. CASE a.type \notin {"Transfer", "FunctionCall"}
      BY <3>1 DEF OwnMovement
    <3>2. CASE ListedAs(tokens, WrapNear) = {}
      <4>1. price = Unknown
        BY <3>2, RegistryIs
      <4> QED BY <4>1 DEF OwnMovement, Movement
    <3> QED BY <1>3, <3>1, <3>2
  <2> QED BY <1>3, <2>1, NoMovement
<1> QED BY <1>2, <1>3

(* The movement of the token the action calls. *)
LEMMA TokenMovementIs ==
  ASSUME NEW tokens \in Seq(TokenRecords), NEW receiver \in DOMAIN Canonical,
         NEW symbols, Canonical[receiver] \in symbols, NEW a \in ActionRecords
  PROVE  LET name  == Canonical[receiver]
             moved == TokenMovement(a, receiver, BuildRegistry(tokens))
             moves == /\ ListedAs(tokens, name) # {}
                      /\ RecordOf(tokens, name).price > 0
                      /\ a.type = "FunctionCall" /\ a.method \in FtMethods
                      /\ Moves(a.amount, RecordOf(tokens, name).decimals)
         IN  OneOrNone(moved, RightMovements(BuildRegistry(tokens), symbols), name, moves)
<1> DEFINE registry == BuildRegistry(tokens)
           name == Canonical[receiver]
           moved == TokenMovement(a, receiver, registry)
           record == RecordOf(tokens, name)
           calls == a.type = "FunctionCall" /\ a.method \in FtMethods
<1>1. a.amount \in Int \union {Unknown} /\ name # "NEAR"
  BY PricingAssumption DEF ActionRecords
<1>2. CASE calls /\ ListedAs(tokens, name) # {}
  <2>1. name \in DOMAIN registry.byContract /\ registry.byContract[name] = record
    BY <1>2, RegistryIs
  <2>2. record.decimals \in Nat /\ record.price \in Int
    BY <1>2, LastListed
  <2>3. moved = Movement(name, a.amount, record.decimals, record.price)
    BY <1>2, <2>1 DEF TokenMovement
  <2> HIDE DEF registry, moved, record, name
  <2>4. record.price = PriceIn(registry, name)
    BY <1>1, <2>1 DEF PriceIn
  <2>5. name \in symbols
    BY DEF name
  <2>6. OneOrNone(moved, RightMovements(registry, symbols), name,
                  record.price > 0 /\ Moves(a.amount, record.decimals))
    BY <1>1, <2>2, <2>3, <2>4, <2>5, OneMovement
  <2> QED BY <1>2, <2>6 DEF registry, moved, record, name, OneOrNone
<1>3. CASE ~(calls /\ ListedAs(tokens, name) # {})
  <2>1. moved = <<>>
    BY <1>3, RegistryIs DEF TokenMovement
  <2> QED BY <1>3, <2>1, NoMovement
<1> QED BY <1>2, <1>3

(* The value of any transaction, whatever the registry lists. *)
LEMMA PricesAlwaysAgree ==
  ASSUME NEW tokens \in Seq(TokenRecords), NEW actions \in Seq(ActionRecords),
         NEW receiver \in DOMAIN Canonical
  PROVE  PricesAgree(tokens, actions, receiver)
<1> DEFINE name == Canonical[receiver]
           symbols == {"NEAR", name}
           registry == BuildRegistry(tokens)
           M == RightMovements(registry, symbols)
           D == DOMAIN actions
           moved == MovementsOf(actions, receiver, registry)
           result == ComputeActionsValue(actions, receiver, registry)
           OwnMoves(a) == /\ ListedAs(tokens, WrapNear) # {}
                          /\ RecordOf(tokens, WrapNear).price > 0
                          /\ a.type \in {"Transfer", "FunctionCall"}
                          /\ Moves(a.deposit, NativeDecimals)
           CallMoves(a) == /\ ListedAs(tokens, name) # {}
                             /\ RecordOf(tokens, name).price > 0
                             /\ a.type = "FunctionCall" /\ a.method \in FtMethods
                             /\ Moves(a.amount, RecordOf(tokens, name).decimals)
<1>1. \A a \in ActionRecords : OneOrNone(OwnMovement(a, registry), M, "NEAR", OwnMoves(a))
  BY OwnMovementIs
<1>2. \A a \in ActionRecords : OneOrNone(TokenMovement(a, receiver, registry), M, name, CallMoves(a))
  BY TokenMovementIs
<1>3. name # "NEAR"
  BY PricingAssumption
<1>4. \A i \in D : actions[i] \in ActionRecords
  OBVIOUS
<1> HIDE DEF OwnMoves, CallMoves, M, registry, D
<1>5. MovesLittle(ActionRecords, receiver, registry, M)
  BY <1>1, <1>2 DEF OneOrNone, MovesLittle
<1>6. PICK g : moved = g[D] /\ MovesUpTo(actions, receiver, registry, M, g)
  BY <1>5, MovesUnfold DEF D, MovesLittle
<1>7. moved \in Seq(M)
  BY <1>6 DEF MovesUpTo, D
<1>8. NumberOf(moved, "NEAR") = Cardinality({i \in D : OwnMoves(actions[i])})
  <2> DEFINE W == {i \in D : OwnMoves(actions[i])}
  <2>1. AddInAll(W, actions, receiver, registry, "NEAR")
    BY <1>1, <1>2, <1>3, <1>4 DEF OneOrNone, AddInAll, D
  <2>2. W \in SUBSET D
    OBVIOUS
  <2> HIDE DEF W, moved
  <2>3. NumberOf(g[D], "NEAR") = Cardinality(W)
    BY <1>5, <1>6, <2>1, <2>2, MovesCounted DEF D
  <2> QED BY <1>6, <2>3 DEF W
<1>9. NumberOf(moved, name) = Cardinality({i \in D : CallMoves(actions[i])})
  <2> DEFINE W == {i \in D : CallMoves(actions[i])}
  <2>1. AddInAll(W, actions, receiver, registry, name)
    BY <1>1, <1>2, <1>3, <1>4 DEF OneOrNone, AddInAll, D
  <2>2. W \in SUBSET D
    OBVIOUS
  <2> HIDE DEF W, moved, name
  <2>3. NumberOf(g[D], name) = Cardinality(W)
    BY <1>5, <1>6, <2>1, <2>2, MovesCounted DEF D
  <2> QED BY <1>6, <2>3 DEF W
<1>10. result.tokens = moved
  BY DEF ComputeActionsValue
<1>11. (result.totalUsd = Unknown) <=> (moved = <<>>)
  <2>1. \A m \in M : m.value \in Int
    BY DEF M, RightMovements
  <2>2. TotalOf(moved) \in Int
    BY <1>7, <2>1, TotalIsInt
  <2> DEFINE total == TotalOf(moved)
  <2>3. RoundedTotal(total) \in Int
    BY <2>2 DEF RoundedTotal
  <2>4. RoundedTotal(total) # Unknown
    BY <2>3, PricingAssumption
  <2>5. moved # <<>> => result.totalUsd = RoundedTotal(total)
    BY DEF ComputeActionsValue, TotalOf
  <2>6. moved = <<>> => result.totalUsd = Unknown
    BY DEF ComputeActionsValue
  <2> QED BY <2>4, <2>5, <2>6
<1>12. ASSUME NEW m \in M
       PROVE  LET inMillionths == m.value \div PriceIn(registry, m.symbol)
              IN  /\ inMillionths * TenTo[m.decimals] <= m.amount * TenTo[SafePrecision]
                  /\ m.amount * TenTo[SafePrecision] < (inMillionths + 1) * TenTo[m.decimals]
  <2> DEFINE p == PriceIn(registry, m.symbol)
             u == Millionths(m.amount, m.decimals)
  <2>1. m.amount \in Nat /\ m.decimals \in Nat /\ p \in Nat \ {0} /\ m.value = u * p
    BY DEF M, RightMovements
  <2>2. u \in Nat
    BY <2>1, MillionthsExact
  <2>3. m.value \div p = u
    <3> HIDE DEF u, p
    <3> QED BY <2>1, <2>2, DivisionExact
  <2> QED BY <2>1, <2>3, MillionthsExact
<1>13. \A i \in DOMAIN moved : moved[i] \in M
  <2> HIDE DEF moved
  <2> QED BY <1>7
<1>14. Cardinality({i \in D : OwnMoves(actions[i])}) = Expected(tokens, WrapNear, LAMBDA d : NativeMoves(actions))
  <2>1. CASE ListedAs(tokens, WrapNear) # {} /\ RecordOf(tokens, WrapNear).price > 0
    <3>1. {i \in D : OwnMoves(actions[i])} = NativeMoves(actions)
      BY <2>1 DEF OwnMoves, NativeMoves, D
    <3>2. ~(RecordOf(tokens, WrapNear).price <= 0)
      BY <2>1, LastListed
    <3> QED BY <2>1, <3>1, <3>2 DEF Expected, RecordOf
  <2>2. CASE ~(ListedAs(tokens, WrapNear) # {} /\ RecordOf(tokens, WrapNear).price > 0)
    <3>1. {i \in D : OwnMoves(actions[i])} = {}
      BY <2>2 DEF OwnMoves
    <3>2. Cardinality({i \in D : OwnMoves(actions[i])}) = 0
      BY <3>1, FS_EmptySet
    <3>3. ListedAs(tokens, WrapNear) # {} => RecordOf(tokens, WrapNear).price <= 0
      BY <2>2, LastListed
    <3> QED BY <3>2, <3>3 DEF Expected, RecordOf
  <2> QED BY <2>1, <2>2
<1>15. Cardinality({i \in D : CallMoves(actions[i])}) = Expected(tokens, name, LAMBDA d : TokenMoves(actions, d))
  <2>1. CASE ListedAs(tokens, name) # {} /\ RecordOf(tokens, name).price > 0
    <3>1. {i \in D : CallMoves(actions[i])} = TokenMoves(actions, RecordOf(tokens, name).decimals)
      BY <2>1 DEF CallMoves, TokenMoves, D
    <3>2. ~(RecordOf(tokens, name).price <= 0)
      BY <2>1, LastListed
    <3> QED BY <2>1, <3>1, <3>2 DEF Expected, RecordOf
  <2>2. CASE ~(ListedAs(tokens, name) # {} /\ RecordOf(tokens, name).price > 0)
    <3>1. {i \in D : CallMoves(actions[i])} = {}
      BY <2>2 DEF CallMoves
    <3>2. Cardinality({i \in D : CallMoves(actions[i])}) = 0
      BY <3>1, FS_EmptySet
    <3>3. ListedAs(tokens, name) # {} => RecordOf(tokens, name).price <= 0
      BY <2>2, LastListed
    <3> QED BY <3>2, <3>3 DEF Expected, RecordOf
  <2> QED BY <2>1, <2>2
<1> DEFINE counted(symbol) == Cardinality({i \in DOMAIN result.tokens : result.tokens[i].symbol = symbol})
<1>16. counted("NEAR") = NumberOf(moved, "NEAR") /\ counted(name) = NumberOf(moved, name)
  BY <1>10 DEF NumberOf
<1>17. \A i \in DOMAIN result.tokens :
         LET m == result.tokens[i]
             inMillionths == m.value \div PriceIn(registry, m.symbol)
         IN  /\ inMillionths * TenTo[m.decimals] <= m.amount * TenTo[SafePrecision]
             /\ m.amount * TenTo[SafePrecision] < (inMillionths + 1) * TenTo[m.decimals]
  <2> HIDE DEF result, moved
  <2> QED BY <1>10, <1>12, <1>13
<1>18. counted("NEAR") = Expected(tokens, WrapNear, LAMBDA d : NativeMoves(actions))
  BY <1>8, <1>14, <1>16
<1>19. counted(name) = Expected(tokens, name, LAMBDA d : TokenMoves(actions, d))
  BY <1>9, <1>15, <1>16
<1> QED BY <1>10, <1>11, <1>17, <1>18, <1>19 DEF PricesAgree, PriceIn, registry

(* For any records of tokens and any actions with any amounts: each movement  *)
(* is worth its whole millionths of a token times the price, the movements    *)
(* counted are those that have a price, and a total is there exactly when one *)
(* is (buildRegistry, computeActionsValue).                                   *)
THEOREM ValuesAlwaysAgree ==
  Evaluates("prices", [tokens : Seq(TokenRecords), actions : Seq(ActionRecords), receiver : DOMAIN Canonical])
    => []ValuesAgree
<1> DEFINE Inputs == [tokens : Seq(TokenRecords), actions : Seq(ActionRecords), receiver : DOMAIN Canonical]
<1>1. focus = "prices" /\ input \in Inputs => ValuesAgree
  BY PricesAlwaysAgree DEF ValuesAgree
<1>2. ValuesAgree /\ [FALSE]_<<focus, input>> => ValuesAgree'
  BY DEF ValuesAgree
<1> QED BY <1>1, <1>2, PTL DEF Evaluates
===============================================================================
