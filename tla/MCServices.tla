------------------------------ MODULE MCServices ------------------------------
(***************************************************************************)
(* The components beside ingestion that share no state with one another,   *)
(* checked in one run as a disjoint sum: `focus` is chosen in the initial  *)
(* state, the component it names runs, and the others stay as they are.    *)
(* The graph is the union of the components' graphs; the algorithms without *)
(* state - "outcome", "payload", "prices", "ranges" - are evaluated on one *)
(* input in each initial state of theirs.                                  *)
(***************************************************************************)
EXTENDS Algorithms, TxHealth, BlockClassifier, HttpPool, TtlMemo,
        DashboardSnapshot, DashboardSections

VARIABLE calm  \* TRUE when statements have ceased to fail

allVars == <<healthVars, blockVars, poolVars, memoVars, snapshotVars, sectionVars, focus, input, calm>>

-------------------------------------------------------------------------------
(* Instances. *)

(* Health: heights 0 and 1; the first is signed, the second fails at the MPC *)
(* contract after the guard let it pass.                                     *)
Receipt(executor, status) == [executor |-> executor, status |-> status]
MCChain ==
    [t \in {0, 1} |-> [receipts   |-> <<Receipt("fa", "Ok"), Receipt("mpc", IF t = 0 THEN "Ok" ELSE "Failure")>>,
                       conversion |-> "Ok"]]

(* Blocks: a direct transaction and a relayed sign call with two keys, then  *)
(* a relayed meta-transaction, a known account's call of the contract, and an *)
(* envelope whose outer signer is known as well.                             *)
Act(type) == [type |-> type, guard |-> "g", sub |-> "s", key |-> Absent, sender |-> Absent]
SignCall(key) == [Act("sign") EXCEPT !.key = key]
DelegateBy(user) == [Act("delegate") EXCEPT !.sender = user]
Transaction(hash, signer, receiver, actions) ==
    [hash |-> hash, signer |-> signer, receiver |-> receiver, actions |-> actions]
MCTxsOf ==
    << << Transaction("h1", "u1", "app", <<Act("other")>>),
          Transaction("h2", "r", "fa", <<SignCall("k1"), SignCall(Absent)>>) >>,
       << Transaction("h3", "r", "app", <<DelegateBy("u2")>>),
          Transaction("h4", "u1", "fa", <<Act("other")>>),
          Transaction("h5", "u1", "app", <<DelegateBy("u2")>>) >> >>

MCEndpoints == <<"a", "b", "c">>
MCWatchedSets == {{s} : s \in SectionNames}

(* Dashboard: a transaction with two calls, of two accounts of which one is  *)
(* unknown, between two with one call, the older of unknown guard and action; *)
(* a relayed user transaction and two direct ones, more groups than are       *)
(* listed.                                                                   *)
SignRow(tx, at, guard, provider, account, key, action) ==
    [tx |-> tx, at |-> at, guard |-> guard, provider |-> provider, relayer |-> "r1",
     account |-> account, key |-> key, action |-> action]
MCEventRows == {SignRow("t1", 5, "g1", "auth0", "u1", "k1", "Transfer"),
                SignRow("t2", 4, "g2", "auth0", Null, Null, "Transfer"),
                SignRow("t2", 4, "g1", "firebase", "u2", "k2", "Transfer"),
                SignRow("t3", 3, Null, "firebase", "u1", "k1", Null)}
UserTx(hash, at, signer, relayer, receiver, method) ==
    [hash |-> hash, at |-> at, signer |-> signer, relayer |-> relayer,
     receiver |-> receiver, method |-> method]
MCActivityRows == {UserTx("x1", 4, "u1", "r1", "app", "m"), UserTx("x2", 3, "u2", Null, "app", Null),
                   UserTx("x3", 2, "u1", Null, "dex", "n")}
MCHealthRows == {[outcome |-> "success", reachedMpc |-> TRUE],
                 [outcome |-> "mpc_failure", reachedMpc |-> TRUE],
                 [outcome |-> "rpc_pending", reachedMpc |-> FALSE]}
MCWindows == <<"last24h", "last30d">>
MCSince == [last24h |-> 4, last30d |-> 2, all |-> 0]

(* Prices: lists with a token of few decimals and one of many, listed twice  *)
(* or without a price; amounts below and above a millionth of each.          *)
MCCanonical == [name \in {"wrap.near", "Wrap.near", "usdc", "Usdc"} |->
                   IF name \in {"wrap.near", "Wrap.near"} THEN "wrap.near" ELSE "usdc"]
Token(contract, decimals, price) ==
    [chain |-> "near", contract |-> contract, decimals |-> decimals, price |-> price]
TokenLists ==
    {<<Token("Wrap.near", 8, 5), Token("Usdc", d, 1), Token(c, e, p)>> :
        d \in {1, 2, 6, 8}, c \in {"usdc", "wrap.near", Unknown}, e \in {2, 7}, p \in {0, 1, 3}}
    \union {<<>>, <<Token("usdc", 2, Unknown)>>,
            <<Token("usdc", 6, 2), [Token("wrap.near", 8, 2) EXCEPT !.chain = "eth"]>>}
Amounts == {Unknown, 0, 1, 99, 150, 600}
Transfers == {[type |-> "Transfer", method |-> "", deposit |-> a, amount |-> Unknown] : a \in Amounts}
TokenCalls(methods, deposits, amounts) ==
    {[type |-> "FunctionCall", method |-> m, deposit |-> d, amount |-> a] :
        m \in methods, d \in deposits, a \in amounts}
AnyAction == Transfers \union TokenCalls({"ft_transfer", "vote"}, {Unknown, 1000}, Amounts)
ActionLists ==
    {<<>>} \union {<<a>> : a \in AnyAction}
    \union {<<a, b>> : a \in Transfers \union TokenCalls({"ft_transfer"}, {Unknown, 1000}, Amounts),
                       b \in TokenCalls({"ft_transfer"}, {Unknown}, {150})}

(* Messages with up to two actions, with and without a discriminant, empty    *)
(* texts and empty lists among them.                                         *)
MCTexts == {<<>>, <<7, 1>>}
MCTextLists == {<<>>, << <<7, 1>>, <<>> >>}
MCFill(n) == {[i \in 1 .. n |-> 1]}
Message(tagged, sender, actions, key) ==
    [tagged |-> tagged, sender |-> sender, receiver |-> <<7, 1>>, actions |-> actions,
     bounds |-> [i \in 1 .. 16 |-> 1], key |-> key]
Messages ==
    {Message(tagged, sender, actions, key) :
        tagged \in BOOLEAN, sender \in MCTexts, key \in PublicKeys,
        actions \in {<<>>} \union {<<a>> : a \in EncodedActions}}
    \union {Message(TRUE, <<>>, <<a, b>>, key) :
               a \in EncodedActions, b \in {c \in EncodedActions : c[1] \in {0, 2}}, key \in PublicKeys}

(* Statuses with up to three receipts of the guard, the MPC contract and     *)
(* another account.                                                          *)
Receipts == {Receipt(e, s) : e \in {"fa", "mpc", "app"}, s \in {"Ok", "Failure"}}
Statuses ==
    [receipts : UNION {[1 .. n -> Receipts] : n \in 0 .. 3}, conversion : {"Ok", "Failure"}]

Ranges == {r \in [start : 1 .. 3, end : 1 .. 5, upTo : {Unset} \union 0 .. 6, downTo : {Unset} \union 0 .. 6] :
              r.start <= r.end}

-------------------------------------------------------------------------------
(* Sign events are broken down by two columns in the same way, and the real  *)
(* activity is cross-classified by three; the run takes the one that may be  *)
(* NULL.                                                                     *)
Pure == {"outcome", "payload", "prices", "ranges"}
Stateful == {"health", "blocks", "pool", "memo", "snapshot", "sections"}

Init ==
    /\ focus \in Pure \union Stateful
    /\ calm = FALSE
    /\ HealthInit /\ (focus # "health" => collector = "fastauth")
    /\ BlockInit /\ (focus # "blocks" => linked = {})
    /\ PoolInit /\ (focus # "pool" => healthy = {})
    /\ MemoInit
    /\ SnapshotInit /\ (focus # "snapshot" => watched = {"signTotal"})
    /\ SectionInit /\ (focus # "sections" => section = "overview")
                   /\ (section \in {"activity", "breakdown"} => column = "guard")
    /\ \/ focus \in Stateful /\ input = "none"
       \/ focus = "outcome" /\ input \in Statuses
       \/ focus = "payload" /\ input \in Messages
       \/ focus = "prices" /\ input \in [tokens : TokenLists, actions : ActionLists,
                                         receiver : {"Wrap.near", "Usdc"}]
       \/ focus = "ranges" /\ input \in Ranges

(* A component's turn: nothing else changes. *)
HealthTurn(A) ==
    focus = "health" /\ A /\ UNCHANGED <<blockVars, poolVars, memoVars, snapshotVars, sectionVars, focus, input>>
SnapshotTurn(A) ==
    focus = "snapshot" /\ A /\ UNCHANGED <<healthVars, blockVars, poolVars, memoVars, sectionVars, focus, input>>

HealthRuns ==
    HealthTurn(/\ \/ \E t \in Txs : Record(t)
                  \/ WindowMoves \/ BackoffElapses
                  \/ \E p \in Passes : Begin(p) \/ PassSteps(p)
               /\ UNCHANGED calm)
HealthFails ==
    HealthTurn(~calm /\ (\E p \in Passes : StatementFails(p) \/ UpdateFails(p)) /\ UNCHANGED calm)

SnapshotRuns ==
    SnapshotTurn((TablesChange \/ TimePasses \/ \E r \in Refreshes : Start(r) \/ RefreshSteps(r)) /\ UNCHANGED calm)
SnapshotFails ==
    SnapshotTurn(~calm /\ (WorkerRestarts \/ \E r \in Refreshes : RefreshFailures(r)) /\ UNCHANGED calm)

BlocksRun ==
    /\ focus = "blocks" /\ BlockNext
    /\ UNCHANGED <<healthVars, poolVars, memoVars, snapshotVars, sectionVars, focus, input, calm>>
PoolRuns ==
    /\ focus = "pool" /\ PoolNext
    /\ UNCHANGED <<healthVars, blockVars, memoVars, snapshotVars, sectionVars, focus, input, calm>>
MemoRuns ==
    /\ focus = "memo" /\ MemoNext
    /\ UNCHANGED <<healthVars, blockVars, poolVars, snapshotVars, sectionVars, focus, input, calm>>
(* Bound: the oldest transaction is classified for the health sections only.  *)
SectionsRun ==
    /\ focus = "sections" /\ SectionNext
    /\ section \in {"overview", "breakdown"} => db'.health["t3"] = NoHealthRow
    /\ UNCHANGED <<healthVars, blockVars, poolVars, memoVars, snapshotVars, focus, input, calm>>

(* From here on no statement fails and the worker is not restarted. *)
GoesCalm ==
    /\ ~calm /\ focus \in {"health", "snapshot"}
    /\ calm' = TRUE
    /\ UNCHANGED <<healthVars, blockVars, poolVars, memoVars, snapshotVars, sectionVars, focus, input>>

Next ==
    \/ HealthRuns \/ HealthFails \/ SnapshotRuns \/ SnapshotFails
    \/ BlocksRun \/ PoolRuns \/ MemoRuns \/ SectionsRun
    \/ GoesCalm

(* The scheduler goes on starting passes, time goes on, a pass and a refresh *)
(* go on with their steps, and failures end.                                 *)
Fairness ==
    /\ WF_calm(GoesCalm)
    /\ WF_healthVars(focus = "health" /\ \E p \in Passes : Begin(p))
    /\ WF_healthVars(focus = "health" /\ BackoffElapses)
    /\ \A p \in Passes : WF_healthVars(focus = "health" /\ PassSteps(p))
    /\ WF_snapshotVars(focus = "snapshot" /\ TimePasses)
    /\ WF_snapshotVars(focus = "snapshot" /\ \E r \in Refreshes : Start(r))
    /\ \A r \in Refreshes : WF_snapshotVars(focus = "snapshot" /\ RefreshSteps(r))

Spec == Init /\ [][Next]_allVars /\ Fairness

-------------------------------------------------------------------------------
(* Properties. *)

(* A recorded transaction whose row exists, or that discovery can still see, *)
(* gets its verdict or uses up its retries: no pass that dies half-way, no   *)
(* overlapping one and no limit on a pass keeps it pending for ever. One     *)
(* that leaves the discovery window without a row is owed nothing.           *)
OwedVerdict(t) == t \in recorded /\ (row[t] # Unclassified \/ (InWindow(t) /\ AboveFloor(t)))
EveryTxSettles == <>[](\A t \in Txs : OwedVerdict(t) => Settled(t))

(* Once statements succeed, the published row catches up with the tables in  *)
(* every section, the heavy ones included that most refreshes skip.          *)
SnapshotConverges == <>[](focus = "snapshot" => \A s \in watched : snapshotRow[s] = version)
===============================================================================
