-------------------------------- MODULE TxHealth ------------------------------
(***************************************************************************)
(* The transaction health collector (FastauthHealthService): a discovery   *)
(* pass that gives a row to the newest transactions that have none, and a  *)
(* retry pass over the rows whose status could not be fetched. The user    *)
(* collector (FastauthUserHealthService) has the same control over its own *)
(* tables, with the generic classifier and no block floor.                 *)
(*                                                                         *)
(* A transaction is named by its block height, one per height. The pool's  *)
(* answer is what varies: the chain's verdict on a transaction never does. *)
(***************************************************************************)
EXTENDS TxOutcome, Integers, FiniteSets, FiniteSetsExt

CONSTANTS Txs,             \* heights of the watched transactions
          Chain,           \* Chain[t]: the status an endpoint gives for t
          Passes,          \* slots for calls of runOnce in flight
          Runners,         \* TX_STATUS_CONCURRENCY
          DiscoverLimit,   \* DISCOVER_LIMIT
          RetryLimit,      \* RETRY_LIMIT
          MaxRetries,      \* MAX_RETRY_COUNT
          LookbackBlocks,  \* DISCOVERY_LOOKBACK_BLOCKS
          MaxAge           \* ages are told apart up to this bound

ASSUME HealthAssumption ==
    /\ Txs \subseteq Nat /\ IsFiniteSet(Txs)
    /\ {Runners, DiscoverLimit, RetryLimit, MaxRetries, MaxAge} \subseteq Nat \ {0}
    /\ LookbackBlocks \in Nat

VARIABLES
    collector, \* the service: "fastauth" or "user"
    recorded,  \* near_transactions, or fastauth_user_transactions: heights in it
    cutoff,    \* heights below it are more than 24h old
    row,       \* row[t]: the row of the collector's health table, or Unclassified
    pass,      \* pass[p]: the local variables of a call of runOnce
    tried      \* history: statuses asked for t by passes that wrote them down

healthVars == <<collector, recorded, cutoff, row, pass, tried>>

Unclassified == [outcome |-> "none", retries |-> 0, age |-> 0]

(* age: backoff intervals since last_attempted_at. *)
Verdicts == FastAuthVerdicts \union GenericVerdicts
RowType == [outcome : {"none", "rpc_pending"} \union Verdicts,
            retries : 0 .. MaxRetries, age : 0 .. MaxAge]

(* todo: the rows a retry pass has selected, as <<height, retry_count read>>; *)
(* alive: the runners that have not failed.                                  *)
PassType == [pc     : {"idle", "discover", "insert", "select", "retry"},
             picked : SUBSET Txs,
             age    : 0 .. MaxAge,
             todo   : SUBSET (Txs \X (0 .. MaxRetries - 1)),
             alive  : 0 .. Runners]

IdlePass == [pc |-> "idle", picked |-> {}, age |-> 0, todo |-> {}, alive |-> 0]

HealthTypeOK ==
    /\ collector \in {"fastauth", "user"}
    /\ recorded \subseteq Txs /\ cutoff \in Nat
    /\ row \in [Txs -> RowType]
    /\ pass \in [Passes -> PassType]
    /\ tried \in [Txs -> 0 .. MaxRetries]

HealthInit ==
    /\ collector \in {"fastauth", "user"}
    /\ recorded = {}
    /\ cutoff = 0
    /\ row = [t \in Txs |-> Unclassified]
    /\ pass = [p \in Passes |-> IdlePass]
    /\ tried = [t \in Txs |-> 0]

-------------------------------------------------------------------------------
(* Around the collector. *)

(* near-ingest inserts a transaction: heights complete in any order. *)
Record(t) ==
    /\ t \notin recorded
    /\ recorded' = recorded \union {t}
    /\ UNCHANGED <<collector, cutoff, row, pass, tried>>

(* The oldest recorded height leaves the 24-hour window. *)
WindowMoves ==
    /\ recorded # {} /\ cutoff <= Max(Txs)
    /\ cutoff' = cutoff + 1
    /\ UNCHANGED <<collector, recorded, row, pass, tried>>

(* RETRY_BACKOFF_MS go by. *)
Older(n) == IF n = MaxAge THEN n ELSE n + 1
BackoffElapses ==
    /\ row' = [t \in Txs |-> IF row[t] = Unclassified THEN Unclassified ELSE [row[t] EXCEPT !.age = Older(@)]]
    /\ pass' = [p \in Passes |-> IF pass[p].pc = "insert"
                                 THEN [pass[p] EXCEPT !.age = Older(@)] ELSE pass[p]]
    /\ UNCHANGED <<collector, recorded, cutoff, tried>>

-------------------------------------------------------------------------------
(* Statements. *)

InWindow(t) == t >= cutoff

(* The FastAuth collector reads no lower than a block floor. *)
AboveFloor(t) == collector = "fastauth" => t >= Max(recorded) - LookbackBlocks

(* The anti-join of the window with the health table. *)
Undiscovered == {t \in recorded : InWindow(t) /\ AboveFloor(t) /\ row[t] = Unclassified}

(* ORDER BY ... LIMIT n over a set: the n elements that come first, ties cut  *)
(* anyhow.                                                                    *)
FirstOf(S, n, Before(_, _)) ==
    {T \in SUBSET S :
        /\ Cardinality(T) = (IF Cardinality(S) < n THEN Cardinality(S) ELSE n)
        /\ \A x \in T, y \in S \ T : ~Before(y, x)}

Newest(S) == FirstOf(S, DiscoverLimit, LAMBDA x, y : x > y)

(* Rows runRetryPass may take: pending, not used up, not just attempted. *)
Retryable ==
    {t \in Txs : /\ row[t].outcome = "rpc_pending"
                 /\ row[t].retries < MaxRetries
                 /\ row[t].age > 0}

LongestWaiting == FirstOf(Retryable, RetryLimit, LAMBDA x, y : row[x].age > row[y].age)

(* The chain's verdict, or rpc_pending when the pool did not answer. *)
Verdict(t) == IF collector = "fastauth" THEN FastAuthOutcome(Chain[t]) ELSE GenericOutcome(Chain[t])
Answers(t) == {Verdict(t), "rpc_pending"}

Discovered(answer, age) ==
    [outcome |-> answer, retries |-> IF answer = "rpc_pending" THEN 1 ELSE 0, age |-> age]

(* orIgnore: a row that is there stays. *)
InsertedOver(old, new) == IF old = Unclassified THEN new ELSE old

(* Slip: SET retry_count = retry_count + 1. *)
RetriedInSql(t, read, answer) == [outcome |-> answer, retries |-> row[t].retries + 1, age |-> 0]

(* Slip: the count is written back as it was read. *)
RetriedUncounted(t, read, answer) == [outcome |-> answer, retries |-> read, age |-> 0]

(* The update of a retry: retry_count is the value selected, plus one. *)
Retried(t, read, answer) == [outcome |-> answer, retries |-> read + 1, age |-> 0]

TriedAgain(ts) ==
    [t \in Txs |-> IF t \in ts /\ tried[t] < MaxRetries THEN tried[t] + 1 ELSE tried[t]]

-------------------------------------------------------------------------------
(* runOnce. *)

Step(p, next) == pass' = [pass EXCEPT ![p] = next]

(* The scheduler starts one pass at a time and the HTTP trigger starts others *)
(* beside it.                                                                *)
Begin(p) ==
    /\ pass[p].pc = "idle"
    /\ Step(p, [IdlePass EXCEPT !.pc = "discover"])
    /\ UNCHANGED <<collector, recorded, cutoff, row, tried>>

(* runDiscoveryPass reads its candidates; none, and the retry pass follows. *)
Discover(p) ==
    /\ pass[p].pc = "discover"
    /\ \E picked \in Newest(Undiscovered) :
         Step(p, IF picked = {} THEN [pass[p] EXCEPT !.pc = "select"]
                 ELSE [pass[p] EXCEPT !.pc = "insert", !.picked = picked, !.age = 0])
    /\ UNCHANGED <<collector, recorded, cutoff, row, tried>>

(* Every candidate classified, one insert for all of them. *)
InsertDiscovered(p) ==
    /\ pass[p].pc = "insert"
    /\ \E pending \in SUBSET pass[p].picked :
         /\ row' = [t \in Txs |-> IF t \in pass[p].picked
                                  THEN InsertedOver(row[t], Discovered(
                                      IF t \in pending THEN "rpc_pending" ELSE Verdict(t),
                                      pass[p].age))
                                  ELSE row[t]]
    /\ tried' = TriedAgain(pass[p].picked)
    /\ Step(p, [pass[p] EXCEPT !.pc = "select", !.picked = {}, !.age = 0])
    /\ UNCHANGED <<collector, recorded, cutoff>>

(* runRetryPass selects its rows, with the counts they have now. *)
SelectPending(p) ==
    /\ pass[p].pc = "select"
    /\ \E ts \in LongestWaiting :
         Step(p, IF ts = {} THEN IdlePass
                 ELSE [pass[p] EXCEPT !.pc = "retry",
                                      !.todo = {<<t, row[t].retries>> : t \in ts},
                                      !.alive = Min({Runners, Cardinality(ts)})])
    /\ UNCHANGED <<collector, recorded, cutoff, row, tried>>

(* A runner has classified one row and updates it. The last row ends the pass. *)
UpdatePending(p) ==
    /\ pass[p].pc = "retry"
    /\ \E w \in pass[p].todo : \E answer \in Answers(w[1]) :
         /\ row' = [row EXCEPT ![w[1]] = Retried(w[1], w[2], answer)]
         /\ tried' = TriedAgain({w[1]})
         /\ Step(p, IF pass[p].todo = {w} THEN IdlePass
                    ELSE [pass[p] EXCEPT !.todo = @ \ {w}])
    /\ UNCHANGED <<collector, recorded, cutoff>>

(* A statement of the discovery pass or the selection fails: runOnce returns. *)
StatementFails(p) ==
    /\ pass[p].pc \in {"discover", "insert", "select"}
    /\ Step(p, IdlePass)
    /\ UNCHANGED <<collector, recorded, cutoff, row, tried>>

(* An update fails: runOnce returns, but the other runners are not stopped    *)
(* and go on through the rows that are left.                                  *)
UpdateFails(p) ==
    /\ pass[p].pc = "retry"
    /\ \E w \in pass[p].todo :
         Step(p, IF pass[p].todo = {w} \/ pass[p].alive <= 1 THEN IdlePass
                 ELSE [pass[p] EXCEPT !.todo = @ \ {w}, !.alive = @ - 1])
    /\ UNCHANGED <<collector, recorded, cutoff, row, tried>>

PassSteps(p) == Discover(p) \/ InsertDiscovered(p) \/ SelectPending(p) \/ UpdatePending(p)

HealthNext ==
    \/ \E t \in Txs : Record(t)
    \/ WindowMoves
    \/ BackoffElapses
    \/ \E p \in Passes :
         Begin(p) \/ PassSteps(p) \/ StatementFails(p) \/ UpdateFails(p)

HealthSpec == HealthInit /\ [][HealthNext]_healthVars

-------------------------------------------------------------------------------
(* Properties. *)

(* A transaction is never given up early or tried past its budget: no count   *)
(* goes above MAX_RETRY_COUNT however many passes hold the same row, and a     *)
(* row that is pending for good has been tried at least that often.           *)
RetryBudget ==
    \A t \in Txs :
       /\ row[t].retries <= MaxRetries
       /\ row[t].retries <= tried[t]

(* A count that a pass has selected and not yet written back has been reached *)
(* by tries as well, whatever another pass writes meanwhile.                 *)
SelectedIsTried == \A p \in Passes : \A w \in pass[p].todo : w[2] <= tried[w[1]]

(* Inductive, and checked as one invariant. *)
HealthInv == HealthTypeOK /\ RetryBudget /\ SelectedIsTried

(* What the collector owes a transaction: the chain's verdict, or every      *)
(* retry used up.                                                            *)
Settled(t) ==
    \/ row[t].outcome = Verdict(t)
    \/ row[t].outcome = "rpc_pending" /\ row[t].retries = MaxRetries
===============================================================================
