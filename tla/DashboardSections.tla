--------------------------- MODULE DashboardSections --------------------------
(***************************************************************************)
(* The aggregates of the dashboard (the loaders of DashboardDataService):  *)
(* the queries of each section as operators of the tables, and what the    *)
(* code makes of their answers. A section's queries are statements of      *)
(* their own, so rows arrive between one answer and the next.              *)
(*                                                                         *)
(* Time runs in a few steps; `at` is a row's block_timestamp and since[w]  *)
(* the first step of window w. A load is one whose statements all answer:  *)
(* DashboardSnapshot has the failures, and the last good value that stands *)
(* in for a heavy section (accounts, relayers, activity) between two loads *)
(* of it. So a heavy section is a load of its own here, and is compared    *)
(* with nothing another section counts.                                    *)
(***************************************************************************)
EXTENDS Integers, Sequences, FiniteSets, FiniteSetsExt, Functions

CONSTANTS EventRows,     \* fastauth_sign_events rows that may arrive
          ActivityRows,  \* fastauth_user_transactions rows that may arrive
          HealthRows,    \* what a fastauth_health_tx row may say of a transaction
          windows,       \* the windows of a breakdown, shortest first
          since,         \* window, or "all" -> its first step of time
          Now,           \* the present step
          BinSize,       \* steps in a bin of the history
          Null,          \* SQL's NULL
          TopAccounts,   \* MAX_TOP_ACCOUNTS
          TopGroups,     \* LIMIT of the receivers and of the methods
          TopCrossed,    \* LIMIT of a cross-classification
          TopFailures,   \* take: of the recent failures
          MaxLate        \* bound: rows that arrive while a section is loaded

Windows == DOMAIN since
FailureOutcomes == {"guard_failure", "mpc_failure", "other_failure"}
Outcomes == {"success", "rpc_pending"} \union FailureOutcomes

(* Blocks are of the past, and an mpc_failure is a transaction whose first    *)
(* failing receipt is the MPC contract's (classifyTx).                        *)
ASSUME SectionAssumption ==
    /\ IsFiniteSet(EventRows) /\ IsFiniteSet(ActivityRows)
    /\ Now \in Nat /\ BinSize \in Nat \ {0} /\ MaxLate \in Nat
    /\ TopAccounts \in Nat \ {0} /\ TopGroups \in Nat \ {0}
    /\ TopCrossed \in Nat \ {0} /\ TopFailures \in Nat \ {0}
    /\ windows \in Seq(Windows \ {"all"}) /\ windows # <<>>
    /\ since \in [{windows[i] : i \in DOMAIN windows} \union {"all"} -> 0 .. Now]
    /\ \A row \in EventRows \union ActivityRows : row.at \in 0 .. Now
    /\ \A row \in HealthRows : /\ row.outcome \in Outcomes
                               /\ row.outcome = "mpc_failure" => row.reachedMpc

VARIABLES
    db,       \* the tables
    section,  \* the section being loaded
    column,   \* the column a breakdown or a cross-classification is about
    got,      \* got[q]: the answer to query q
    late      \* rows that have arrived since the first answer

sectionVars == <<db, section, column, got, late>>

In(row, w) == row.at >= since[w]

NoHealthRow == [outcome |-> "none", reachedMpc |-> FALSE]
SignTxs == {e.tx : e \in EventRows}
TxRow(tx) == CHOOSE e \in EventRows : e.tx = tx

-------------------------------------------------------------------------------
(* SQL. *)

(* GROUP BY Key(row) with COUNT( * ); NULL is a group as well. *)
Groups(rows, Key(_)) ==
    [k \in {Key(r) : r \in rows} |-> Cardinality({r \in rows : Key(r) = k})]

(* COUNT( * ) FILTER (WHERE block_timestamp >= ...), one for each window. *)
PerWindow(rows) == [w \in Windows |-> Cardinality({r \in rows : In(r, w)})]

(* Both: a group's counts in every window. *)
Tally(rows, Key(_)) ==
    [k \in {Key(r) : r \in rows} |-> PerWindow({r \in rows : Key(r) = k})]

(* The first n of some elements in an order; a tie at the cut goes either way. *)
Foremost(n, S, Before(_, _)) ==
    {T \in kSubset(Min({n, Cardinality(S)}), S) : \A x \in T, y \in S \ T : Before(x, y)}

(* ORDER BY total_all DESC LIMIT n. *)
Largest(tally, n) ==
    {[k \in shown |-> tally[k]] :
        shown \in Foremost(n, DOMAIN tally, LAMBDA j, k : tally[j]["all"] >= tally[k]["all"])}

CountIn(groups, k) == IF k \in DOMAIN groups THEN groups[k] ELSE 0
SumOf(groups) == SumFunction(groups)
SumIn(tally, w) == SumOf([k \in DOMAIN tally |-> tally[k][w]])

EventsIn(w) == {e \in db.events : In(e, w)}
UsersIn(w) == {t \in db.users : In(t, w)}
OutcomeOf(e) == db.health[e.tx].outcome
Failed(e) == OutcomeOf(e) \in FailureOutcomes
UserFailed(t) == t.hash \in db.userFailures

(* The health rows from a step of time on, with their timestamps. *)
HealthIn(first) ==
    {[tx |-> tx, at |-> TxRow(tx).at,
      outcome |-> db.health[tx].outcome, reachedMpc |-> db.health[tx].reachedMpc] :
        tx \in {x \in SignTxs : db.health[x] # NoHealthRow /\ TxRow(x).at >= first}}

-------------------------------------------------------------------------------
(* Queries of the transaction overview and of the breakdowns. *)

(* loadSignOutcomeCounts: events joined to the classified transactions. *)
SignOutcomes ==
    [failed  |-> PerWindow({e \in db.events : Failed(e)}),
     pending |-> PerWindow({e \in db.events : OutcomeOf(e) = "rpc_pending"})]

Column(e) == e[column]

(* loadSignFailedByDimension. *)
SignFailedByDimension(w) == Groups({e \in EventsIn(w) : Failed(e)}, Column)

(* SELECT DISTINCT column, user_derived_public_key, grouped by the column. *)
DistinctUsers(w) ==
    Groups({<<Column(e), e.key>> : e \in {x \in EventsIn(w) : x.key # Null}}, LAMBDA pair : pair[1])

(* loadTopAccounts, loadActionTypeBreakdown. *)
Owned == {e \in db.events : e.account # Null}
AccountCounts == Largest(Tally(Owned, LAMBDA e : e.account), TopAccounts)
ActionCounts == Tally(db.events, LAMBDA e : e.action)

(* loadSponsoredPairs: SELECT DISTINCT; and buildSponsoredMap. *)
SponsoredPairs(w) == {<<e.relayer, e.account>> : e \in {x \in EventsIn(w) : x.account # Null}}
SponsoredBy(pairs) ==
    [relayer \in {p[1] : p \in pairs} |-> {p[2] : p \in {q \in pairs : q[1] = relayer}}]

(* loadRelayerBreakdownByActivity, one window. *)
RelayedIn(w) ==
    LET relayed == {t \in UsersIn(w) : t.relayer # Null}
        Relayer(t) == t.relayer
    IN  [total  |-> Groups(relayed, Relayer),
         failed |-> Groups({t \in relayed : UserFailed(t)}, Relayer),
         users  |-> Groups({<<t.relayer, t.signer>> : t \in relayed}, LAMBDA pair : pair[1])]

(* loadChainHealth: the aggregate, and the bins of the history, which begin  *)
(* where the bin of the window's start does.                                 *)
Said(rows, outcomes) == Cardinality({r \in rows : r.outcome \in outcomes})
HealthCounts(rows) ==
    [total        |-> Cardinality(rows),
     succeeded    |-> Said(rows, {"success"}),
     failed       |-> Said(rows, FailureOutcomes),
     guardFailed  |-> Said(rows, {"guard_failure"}),
     mpcFailed    |-> Said(rows, {"mpc_failure"}),
     pending      |-> Said(rows, {"rpc_pending"}),
     mpcAttempted |-> Cardinality({r \in rows : r.reachedMpc})]

Bin(time) == time \div BinSize
History ==
    [b \in Bin(since[windows[1]]) .. Bin(Now) |->
        HealthCounts({r \in HealthIn(b * BinSize) : Bin(r.at) = b})]

LastSuccess == Max({r.at : r \in {x \in HealthIn(0) : x.outcome = "success"}} \union {-1})
RecentFailures(outcomes) ==
    Foremost(TopFailures, {x \in HealthIn(since[windows[1]]) : x.outcome \in outcomes},
             LAMBDA r, x : r.at >= x.at)

-------------------------------------------------------------------------------
(* Queries of the real activity. *)

(* Slip: the class table keeps every event of an account, not the latest one. *)
EveryEvent == {Owned}

(* account_class: DISTINCT ON the account, the latest event first; a tie may *)
(* go either way.                                                            *)
IsLatest(e) == \A x \in Owned : x.account = e.account => x.at <= e.at
LatestEvents ==
    {f \in [{e.account : e \in Owned} -> Owned] :
        \A a \in DOMAIN f : f[a].account = a /\ IsLatest(f[a])}
AccountClasses == {Range(latest) : latest \in LatestEvents}

(* The user transactions LEFT JOINed with a class table: one row for each    *)
(* match, or one with no class.                                              *)
Unclassed == "(unclassified)"
ClassOf(e) == IF e[column] = Null THEN Unclassed ELSE e[column]
JoinedRow(t, match, class) == [at |-> t.at, tx |-> t, match |-> match, class |-> class]
Joined(classes) ==
    {JoinedRow(pair[1], {pair[2]}, ClassOf(pair[2])) :
        pair \in {p \in db.users \X classes : p[2].account = p[1].signer}}
    \union
    {JoinedRow(t, {}, Unclassed) : t \in {x \in db.users : \A e \in classes : e.account # x.signer}}

(* buildClassGroupSql, and buildCrossSql with receiver_id or method_name. *)
ClassGroups == {Tally(Joined(classes), LAMBDA r : r.class) : classes \in AccountClasses}
CrossTally(classes, inner) == Tally(Joined(classes), LAMBDA r : <<r.class, r.tx[inner]>>)
Crossed(inner) == UNION {Largest(CrossTally(classes, inner), TopCrossed) : classes \in AccountClasses}

ActivityWindows ==
    [total  |-> PerWindow(db.users),
     failed |-> PerWindow({t \in db.users : UserFailed(t)}),
     users  |-> [w \in Windows |-> Cardinality({t.signer : t \in UsersIn(w)})]]

-------------------------------------------------------------------------------
(* Loading. *)

Each(name) == {<<name, windows[i]>> : i \in DOMAIN windows}

(* The queries of a section, in batches: those of a batch are in flight      *)
(* together, and answered in any order; a batch waits for the one before it. *)
Batches ==
    CASE section = "overview" ->
            << Each("signs") \union {<<"signs", "all">>, <<"outcomes">>, <<"actions">>} >>
      [] section = "accounts" -> << {<<"accounts">>} >>
      [] section = "breakdown" -> << Each("total") \union Each("failed") \union Each("users") >>
      [] section = "sponsored" -> << Each("pairs") \union {<<"pairs", "all">>} >>
      [] section = "metrics" -> << {<<"recent">>, <<"health">>} >>
      [] section = "relayers" -> [i \in DOMAIN windows |-> {<<"relayed", windows[i]>>}]
      [] section = "chain" -> << {<<"health">>}, {<<"lastSuccess">>}, {<<"failures">>},
                                 {<<"mpcFailures">>}, {<<"history">>} >>
      [] section = "activity" -> << {<<"activity">>, <<"receivers">>, <<"methods">>},
                                    {<<"classes">>}, {<<"byReceiver">>, <<"byMethod">>} >>

AnswersTo(q) ==
    CASE q[1] = "signs" -> {Cardinality(EventsIn(q[2]))}
      [] q[1] = "outcomes" -> {SignOutcomes}
      [] q[1] = "accounts" -> AccountCounts
      [] q[1] = "actions" -> {ActionCounts}
      [] q[1] = "total" -> {Groups(EventsIn(q[2]), Column)}
      [] q[1] = "failed" -> {SignFailedByDimension(q[2])}
      [] q[1] = "users" -> {DistinctUsers(q[2])}
      [] q[1] = "pairs" -> {SponsoredPairs(q[2])}
      [] q[1] = "recent" -> {PerWindow(db.events)}
      [] q[1] = "relayed" -> {RelayedIn(q[2])}
      [] q[1] = "health" -> {HealthCounts(HealthIn(since[windows[1]]))}
      [] q[1] = "lastSuccess" -> {LastSuccess}
      [] q[1] = "failures" -> RecentFailures(FailureOutcomes)
      [] q[1] = "mpcFailures" -> RecentFailures({"mpc_failure"})
      [] q[1] = "history" -> {History}
      [] q[1] = "activity" -> {ActivityWindows}
      [] q[1] = "receivers" -> Largest(Tally(db.users, LAMBDA t : t.receiver), TopGroups)
      [] q[1] = "methods" -> Largest(Tally(db.users, LAMBDA t : t.method), TopGroups)
      [] q[1] = "classes" -> ClassGroups
      [] q[1] = "byReceiver" -> Crossed("receiver")
      [] q[1] = "byMethod" -> Crossed("method")

Sections == {"overview", "accounts", "breakdown", "sponsored", "metrics", "relayers", "chain", "activity"}
ColumnsOf(name) ==
    CASE name = "breakdown" -> {"guard", "provider"}
      [] name = "activity" -> {"relayer", "provider", "guard"}
      [] OTHER -> {"none"}

SectionInit ==
    /\ db = [events |-> {}, users |-> {}, userFailures |-> {},
             health |-> [tx \in SignTxs |-> NoHealthRow]]
    /\ section \in Sections
    /\ column \in ColumnsOf(section)
    /\ got = <<>>
    /\ late = 0

Answered == DOMAIN got
Query(q) ==
    /\ q \notin Answered
    /\ \E i \in DOMAIN Batches : /\ q \in Batches[i]
                                 /\ \A j \in 1 .. i - 1 : Batches[j] \subseteq Answered
    /\ \E answer \in AnswersTo(q) :
         got' = [x \in Answered \union {q} |-> IF x = q THEN answer ELSE got[x]]
    /\ UNCHANGED <<db, section, column, late>>

Loaded == UNION {Batches[i] : i \in DOMAIN Batches} \subseteq Answered

-------------------------------------------------------------------------------
(* Writers of the tables a section reads. *)

Write(tables) ==
    /\ ~Loaded
    /\ got # <<>> => late < MaxLate
    /\ late' = IF got = <<>> THEN 0 ELSE late + 1
    /\ db' = tables
    /\ UNCHANGED <<section, column, got>>

(* near-ingest inserts a sign event, or a transaction of a known user. *)
EventArrives(e) ==
    /\ section \in {"overview", "accounts", "breakdown", "sponsored", "metrics", "activity"}
    /\ e \notin db.events
    /\ Write([db EXCEPT !.events = @ \union {e}])

UserTxArrives(t) ==
    /\ section \in {"relayers", "activity"}
    /\ t \notin db.users
    /\ Write([db EXCEPT !.users = @ \union {t}])

(* A health collector writes its row of a transaction: a new one, or the     *)
(* outcome of one that was pending.                                          *)
Classified(tx, verdict) ==
    /\ section \in {"overview", "breakdown", "metrics", "chain"}
    /\ db.health[tx].outcome \in {"none", "rpc_pending"}
    /\ verdict # db.health[tx]
    /\ Write([db EXCEPT !.health[tx] = verdict])

UserTxFails(t) ==
    /\ section \in {"relayers", "activity"}
    /\ t \in db.users /\ ~UserFailed(t)
    /\ Write([db EXCEPT !.userFailures = @ \union {t.hash}])

SectionNext ==
    \/ \E i \in DOMAIN Batches : \E q \in Batches[i] : Query(q)
    \/ \E e \in EventRows : EventArrives(e)
    \/ \E t \in ActivityRows : UserTxArrives(t) \/ UserTxFails(t)
    \/ \E tx \in SignTxs, verdict \in HealthRows : Classified(tx, verdict)

SectionSpec == SectionInit /\ [][SectionNext]_sectionVars

-------------------------------------------------------------------------------
(* What is made of the answers: a tile says of how many transactions or      *)
(* calls how many were signed and how many failed.                           *)

AtLeastZero(n) == Max({0, n})

(* Slip: the difference of two answers is published as it is. *)
Unclamped(total, failed) == [total |-> total, failed |-> failed, signed |-> total - failed]
Tile(total, failed) == [total |-> total, failed |-> failed, signed |-> AtLeastZero(total - failed)]

(* Math.round((signed / total) * 1000): tenths of a percent. *)
Rate(tile) == (2000 * tile.signed + tile.total) \div (2 * tile.total)

(* transactionOverview: what is pending is neither signed nor failed. *)
OverviewTile(w) ==
    LET failed == got[<<"outcomes">>].failed[w]
        rest   == Tile(got[<<"signs", w>>], failed + got[<<"outcomes">>].pending[w])
    IN  [total |-> rest.total, failed |-> failed, signed |-> rest.signed]

(* A row of a breakdown: a group that only the failures have is all failed.  *)
BreakdownTile(k, w) ==
    LET total  == CountIn(got[<<"total", w>>], k)
        failed == CountIn(got[<<"failed", w>>], k)
    IN  IF k \in DOMAIN got[<<"total", w>>] THEN Tile(total, failed) ELSE Tile(failed, failed)
BreakdownKeys(w) == DOMAIN got[<<"total", w>>] \union DOMAIN got[<<"failed", w>>]

RelayerTile(k, w) ==
    LET answer == got[<<"relayed", w>>] IN Tile(answer.total[k], CountIn(answer.failed, k))
ActivityTile(w) == Tile(got[<<"activity">>].total[w], got[<<"activity">>].failed[w])

(* The chain's rates are over what is classified, and over what got to the   *)
(* MPC contract; a bin of the history subtracts without a clamp.             *)
FastAuthTile(counts) ==
    [total |-> counts.total - counts.pending, failed |-> counts.failed, signed |-> counts.succeeded]
MpcTile(counts) == Tile(counts.mpcAttempted, counts.mpcFailed)
BinTile(counts) == [MpcTile(counts) EXCEPT !.signed = counts.mpcAttempted - counts.mpcFailed]

(* The uptime of the landing page is over what has a verdict. *)
MetricsTile(counts) ==
    [total |-> counts.succeeded + counts.failed, failed |-> counts.failed, signed |-> counts.succeeded]

Shown == {windows[i] : i \in DOMAIN windows}
Tiles ==
    CASE section = "overview" -> {OverviewTile(w) : w \in Windows}
      [] section = "breakdown" -> UNION {{BreakdownTile(k, w) : k \in BreakdownKeys(w)} : w \in Shown}
      [] section = "relayers" ->
            UNION {{RelayerTile(k, w) : k \in DOMAIN got[<<"relayed", w>>].total} : w \in Shown}
      [] section \in {"accounts", "sponsored"} -> {}
      [] section = "metrics" -> {MetricsTile(got[<<"health">>])}
      [] section = "activity" -> {ActivityTile(w) : w \in Windows}
      [] section = "chain" ->
            {FastAuthTile(got[<<"health">>]), MpcTile(got[<<"health">>])}
            \union {FastAuthTile(counts) : counts \in Range(got[<<"history">>])}
            \union {BinTile(counts) : counts \in Range(got[<<"history">>])}

-------------------------------------------------------------------------------
(* Properties. *)

(* Whatever is written between the answers, no tile counts below zero and no *)
(* rate leaves 0 to 100 percent.                                             *)
RatesAreRates ==
    Loaded =>
       \A tile \in Tiles :
          /\ tile.signed >= 0
          /\ tile.total > 0 => Rate(tile) \in 0 .. 1000

AddsUp(tile) == tile.signed + tile.failed = tile.total
Longer(w) == {v \in Windows : since[v] <= since[w]}

OverviewAgrees ==
    \A w \in Windows :
       /\ OverviewTile(w).signed + OverviewTile(w).failed + got[<<"outcomes">>].pending[w] = got[<<"signs", w>>]
       /\ SumIn(got[<<"actions">>], w) = got[<<"signs", w>>]
       /\ \A v \in Longer(w) : got[<<"signs", w>>] <= got[<<"signs", v>>]

(* A list shows no more than its total, and all of it when it is whole.      *)
ListAgrees(list, whole, w, total) ==
    /\ SumIn(list, w) <= total
    /\ whole => SumIn(list, w) = total
Shorter(list, n) == Cardinality(DOMAIN list) < n

(* The accounts that are shown are credited with calls of theirs alone, with *)
(* all of them while there are no more accounts than are shown, and with no  *)
(* more in a window than in a longer one.                                    *)
AccountsAgree ==
    LET list == got[<<"accounts">>]
    IN  \A w \in Windows :
           /\ ListAgrees(list, Cardinality({e.account : e \in Owned}) <= TopAccounts,
                         w, Cardinality({e \in Owned : In(e, w)}))
           /\ \A v \in Longer(w), a \in DOMAIN list : list[a][w] <= list[a][v]

(* Every breakdown is a partition of its events or transactions. *)
BreakdownAgrees ==
    \A w \in Shown :
       /\ SumOf([k \in BreakdownKeys(w) |-> BreakdownTile(k, w).total]) = Cardinality(EventsIn(w))
       /\ \A k \in BreakdownKeys(w) :
             /\ AddsUp(BreakdownTile(k, w))
             /\ CountIn(got[<<"users", w>>], k) <= BreakdownTile(k, w).total
(* A relayer has sponsored in a longer window whom it has in a shorter one,  *)
(* and everybody some relayer has sponsored has signed.                      *)
SponsoredAgrees ==
    \A w \in Windows :
       LET sponsored == SponsoredBy(got[<<"pairs", w>>])
       IN  /\ UNION Range(sponsored) = {e.account : e \in EventsIn(w)} \ {Null}
           /\ \A v \in Longer(w) : LET longer == SponsoredBy(got[<<"pairs", v>>])
                                   IN  \A relayer \in DOMAIN sponsored :
                                          /\ relayer \in DOMAIN longer
                                          /\ sponsored[relayer] \subseteq longer[relayer]

(* The landing page and the dashboard give the same uptime. *)
MetricsAgrees ==
    /\ MetricsTile(got[<<"health">>]) = FastAuthTile(HealthCounts(HealthIn(since[windows[1]])))
    /\ \A w \in Windows : got[<<"recent">>][w] = Cardinality(EventsIn(w))

RelayersAgree ==
    \A w \in Shown :
       LET relayers == DOMAIN got[<<"relayed", w>>].total
       IN  /\ \A k \in relayers : AddsUp(RelayerTile(k, w))
           /\ SumOf([k \in relayers |-> RelayerTile(k, w).total])
                 = Cardinality({t \in UsersIn(w) : t.relayer # Null})
           /\ \A v \in Longer(w) \ {"all"} : relayers \subseteq DOMAIN got[<<"relayed", v>>].total

(* The tabs of the real activity count the same transactions, whatever class *)
(* the accounts have: a list that its LIMIT leaves whole adds up to the      *)
(* window's total, another to no more; and what a cross-classification has   *)
(* of a receiver or a method, over all classes, is what the list of them has *)
(* - or less, when the cross-classification is as long as its LIMIT.         *)
OfInner(crossed, k) == [p \in {x \in DOMAIN crossed : x[2] = k} |-> crossed[p]]

TabsAgree(list, crossed, w) ==
    /\ ListAgrees(list, Shorter(list, TopGroups), w, ActivityTile(w).total)
    /\ ListAgrees(crossed, Shorter(crossed, TopCrossed), w, ActivityTile(w).total)
    /\ \A k \in DOMAIN list :
          ListAgrees(OfInner(crossed, k), Shorter(crossed, TopCrossed), w, list[k][w])

ActivityAgrees ==
    \A w \in Windows :
       /\ AddsUp(ActivityTile(w))
       /\ SumIn(got[<<"classes">>], w) = ActivityTile(w).total
       /\ TabsAgree(got[<<"receivers">>], got[<<"byReceiver">>], w)
       /\ TabsAgree(got[<<"methods">>], got[<<"byMethod">>], w)

(* The bins of the history hold the window's transactions, and the older     *)
(* ones of the first bin; the lists of failures are as long as the counts    *)
(* say, up to their limit, and a failure at the MPC contract among the       *)
(* latest of all is among the latest of the MPC contract.                    *)
ChainAgrees ==
    LET counts  == got[<<"health">>]
        history == got[<<"history">>]
        failures    == got[<<"failures">>]
        mpcFailures == got[<<"mpcFailures">>]
        Binned  == SumOf([b \in DOMAIN history |-> history[b].total])
        start   == since[windows[1]]
    IN  /\ AddsUp(FastAuthTile(counts)) /\ AddsUp(MpcTile(counts))
        /\ counts.guardFailed + counts.mpcFailed <= counts.failed
        /\ Cardinality(failures) = Min({TopFailures, counts.failed})
        /\ Cardinality(mpcFailures) = Min({TopFailures, counts.mpcFailed})
        /\ \A r \in failures \ mpcFailures :
              r.outcome = "mpc_failure" => \A x \in mpcFailures : x.at >= r.at
        /\ (got[<<"lastSuccess">>] >= start) <=> (counts.succeeded > 0)
        /\ Binned = counts.total + Cardinality({r \in HealthIn(Bin(start) * BinSize) : r.at < start})

(* When nothing is written meanwhile, the numbers of a section agree: with   *)
(* one another, and with the rows they count.                                *)
QuietLoadsAgree ==
    Loaded /\ late = 0 =>
       CASE section = "overview" -> OverviewAgrees
         [] section = "accounts" -> AccountsAgree
         [] section = "breakdown" -> BreakdownAgrees
         [] section = "sponsored" -> SponsoredAgrees
         [] section = "metrics" -> MetricsAgrees
         [] section = "relayers" -> RelayersAgree
         [] section = "activity" -> ActivityAgrees
         [] section = "chain" -> ChainAgrees
===============================================================================
