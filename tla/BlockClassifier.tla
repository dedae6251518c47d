---------------------------- MODULE BlockClassifier ---------------------------
(***************************************************************************)
(* What near-ingest makes of the blocks it fetched: the membership probes  *)
(* with their cache, shared by the blocks of one run, the classification   *)
(* of every transaction, and the rows a block leaves in the tables.        *)
(*                                                                         *)
(* An action of a transaction is a record with a type: "sign" (a call of   *)
(* the FastAuth contract's sign method, with its guard, the subject of its *)
(* token and the delegate key of its payload), "delegate" (a NEP-366       *)
(* meta-transaction with its sender) or "other".                           *)
(***************************************************************************)
EXTENDS Integers, Sequences, FiniteSets, Functions

CONSTANTS Blocks,     \* the heights of the window
          TxsOf,      \* TxsOf[b]: its transactions, in chunk order
          Contracts,  \* fastAuthContractIds
          Accounts,   \* the accounts the linker may find
          Absent,     \* a field the call does not have: null
          MaxRuns     \* bound: runs of near-ingest

TxSet(b) == Range(TxsOf[b])
AllTxs == UNION {TxSet(b) : b \in Blocks}
NoRelayer == "none"

(* A hash names one transaction. *)
ASSUME BlockAssumption ==
    /\ Blocks \subseteq Nat /\ IsFiniteSet(Blocks) /\ IsFiniteSet(Accounts)
    /\ DOMAIN TxsOf = Blocks
    /\ IsFiniteSet({tx.hash : tx \in AllTxs})
    /\ \A x, y \in AllTxs : x.hash = y.hash => x = y
    /\ \A tx \in AllTxs : tx.signer # NoRelayer
    /\ MaxRuns \in Nat \ {0}

VARIABLES
    linked,   \* fastauth_public_key_accounts: the accounts in it
    tables,   \* near: hashes; sign: sign events; user: user transaction rows
    cache,    \* probeCache.accountChecked: account -> found, for the accounts asked
    inline,   \* batchInlinePubKeys
    work,     \* work[b]: the local variables of processBlockHeight
    run,      \* number of the run in progress
    known,    \* history: the accounts linked when the run began
    spoiled,  \* history: accounts whose probe failed in this run
    owed      \* history: hashes of completed blocks that belonged to known accounts

blockVars == <<linked, tables, cache, inline, work, run, known, spoiled, owed>>

Untouched == [pc |-> "todo", asked |-> {}]

BlockInit ==
    /\ linked \in SUBSET Accounts
    /\ tables = [near |-> {}, sign |-> {}, user |-> {}]
    /\ cache = <<>>
    /\ inline = {}
    /\ work = [b \in Blocks |-> Untouched]
    /\ run = 1
    /\ known = linked
    /\ spoiled = {}
    /\ owed = {}

-------------------------------------------------------------------------------
(* Reading a transaction. *)

(* extractDelegateActionInfo: the first delegate action, if there is one. *)
Delegates(tx) == {i \in DOMAIN tx.actions : tx.actions[i].type = "delegate"}
DelegateOf(tx) == tx.actions[CHOOSE i \in Delegates(tx) : \A j \in Delegates(tx) : i <= j]

ToContract(tx) == tx.receiver \in Contracts

(* deriveFastAuthSignEvents: one event per call of sign, keyed by its place, *)
(* with the path its key will be derived from when the guard and the token's *)
(* subject are both there; and the delegate keys found in the payloads.      *)
SignActions(tx) == {i \in DOMAIN tx.actions : tx.actions[i].type = "sign"}
KeyPath(action) ==
    IF action.guard = Absent \/ action.sub = Absent THEN Absent
    ELSE <<action.guard, action.sub>>
Seed(tx, i) == [hash |-> tx.hash, index |-> i, relayer |-> tx.signer,
                contract |-> tx.receiver, path |-> KeyPath(tx.actions[i])]
SignEvents(tx) == IF ToContract(tx) THEN {Seed(tx, i) : i \in SignActions(tx)} ELSE {}
InlineKeys(tx) ==
    IF ToContract(tx) THEN {tx.actions[i].key : i \in SignActions(tx)} \ {Absent} ELSE {}

(* The accounts a block's transactions name: signers and inner senders. *)
Named(tx) == {tx.signer} \union (IF Delegates(tx) = {} THEN {} ELSE {DelegateOf(tx).sender})
Candidates(b) == UNION {Named(TxsOf[b][i]) : i \in DOMAIN TxsOf[b]}

-------------------------------------------------------------------------------
(* classifyTransaction. *)

UserRow(tx, signer, relayer) == [hash |-> tx.hash, signer |-> signer, relayer |-> relayer]

(* Path 3 (a): signed by the user's own account. *)
DirectRows(tx, members) ==
    IF tx.signer \in members THEN {UserRow(tx, tx.signer, NoRelayer)} ELSE {}

(* Path 3 (b): a relayer's envelope around a known sender; only when the     *)
(* outer signer is not itself a known account.                               *)
MetaRows(tx, members) ==
    IF /\ tx.signer \notin members
       /\ Delegates(tx) # {} /\ DelegateOf(tx).sender \in members
    THEN {UserRow(tx, DelegateOf(tx).sender, tx.signer)} ELSE {}

(* Slip: path 3 also looks at what path 1 has taken. *)
UserRowsOfAny(tx, members) == DirectRows(tx, members) \union MetaRows(tx, members)

(* Transactions to a FastAuth contract are path 1's and no user activity. *)
UserRows(tx, members) ==
    IF ToContract(tx) THEN {} ELSE DirectRows(tx, members) \union MetaRows(tx, members)

RowsOf(b, members) ==
    [near |-> {tx.hash : tx \in {x \in TxSet(b) : ToContract(x)}},
     sign |-> UNION {SignEvents(tx) : tx \in TxSet(b)},
     user |-> UNION {UserRows(tx, members) : tx \in TxSet(b)}]

(* bulkInsert, orIgnore on each table's key: a user row keeps the values it  *)
(* was first inserted with.                                                  *)
Inserted(old, new) ==
    [near |-> old.near \union new.near,
     sign |-> old.sign \union new.sign,
     user |-> old.user \union
              {r \in new.user : \A o \in old.user : o.hash # r.hash}]

-------------------------------------------------------------------------------
(* processBlockHeight. *)

Unasked(b) == Candidates(b) \ DOMAIN cache

(* The block and its chunks are fetched; what the cache cannot answer is     *)
(* asked of the link table. With nothing to ask the probe is answered.       *)
Probe(b) ==
    /\ work[b].pc = "todo"
    /\ work' = [work EXCEPT ![b] = [pc    |-> IF Unasked(b) = {} THEN "ready" ELSE "probing",
                                    asked |-> Unasked(b)]]
    /\ UNCHANGED <<linked, tables, cache, inline, run, known, spoiled, owed>>

(* The cache after an answer about the accounts asked. *)
CacheWith(asked, found) ==
    [a \in DOMAIN cache \union asked |-> IF a \in asked THEN a \in found ELSE cache[a]]

ProbeAnswers(b) ==
    /\ work[b].pc = "probing"
    /\ cache' = CacheWith(work[b].asked, linked)
    /\ work' = [work EXCEPT ![b].pc = "ready"]
    /\ UNCHANGED <<linked, tables, inline, run, known, spoiled, owed>>

(* Slip: every candidate of the block is marked, also the ones found before. *)
RefusedAll(b) == Candidates(b)

(* A failed probe counts as a no for the accounts it asked about, for the    *)
(* rest of the run.                                                          *)
Refused(b) == work[b].asked

ProbeFails(b) ==
    /\ work[b].pc = "probing"
    /\ cache' = CacheWith(Refused(b), {})
    /\ spoiled' = spoiled \union work[b].asked
    /\ work' = [work EXCEPT ![b].pc = "ready"]
    /\ UNCHANGED <<linked, tables, inline, run, known, owed>>

(* What the block takes for FastAuth accounts. The effective key set - keys  *)
(* of the sign table and inline discoveries - is built as well, and read by  *)
(* nothing.                                                                  *)
Members(b) == {a \in Candidates(b) \intersect DOMAIN cache : cache[a]}

(* Hashes of user activity of accounts that were linked when the run began   *)
(* and that no failed probe concerned.                                       *)
Due(b) == {tx.hash : tx \in {x \in TxSet(b) : /\ ~ToContract(x)
                                              /\ Named(x) \intersect (known \ spoiled) # {}}}

Discoveries(b) == UNION {InlineKeys(tx) : tx \in TxSet(b)}

(* All transactions classified and all three inserts made. *)
Persist(b) ==
    /\ work[b].pc = "ready"
    /\ tables' = Inserted(tables, RowsOf(b, Members(b)))
    /\ inline' = inline \union Discoveries(b)
    /\ work' = [work EXCEPT ![b] = [Untouched EXCEPT !.pc = "done"]]
    /\ owed' = owed \union Due(b)
    /\ UNCHANGED <<linked, cache, run, known, spoiled>>

(* One of the parallel inserts fails; the others may have been made. The     *)
(* block is a hole and is tried again, in this run or the next.              *)
PersistFails(b) ==
    /\ work[b].pc = "ready"
    /\ \E kept \in SUBSET {"near", "sign", "user"} :
         /\ kept # {"near", "sign", "user"}
         /\ LET all == Inserted(tables, RowsOf(b, Members(b)))
            IN  tables' = [s \in DOMAIN tables |-> IF s \in kept THEN all[s] ELSE tables[s]]
    /\ inline' = inline \union Discoveries(b)
    /\ work' = [work EXCEPT ![b] = Untouched]
    /\ UNCHANGED <<linked, cache, run, known, spoiled, owed>>

(* The run is over; the next one starts with empty caches at the first hole, *)
(* and goes again through the blocks that were completed beyond it.          *)
BeyondHole(b) == \E c \in Blocks : c < b /\ work[c].pc = "todo"
NextRun ==
    /\ run < MaxRuns
    /\ \A b \in Blocks : work[b].pc \in {"todo", "done"}
    /\ run' = run + 1
    /\ cache' = <<>> /\ inline' = {}
    /\ known' = linked /\ spoiled' = {}
    /\ work' = [b \in Blocks |-> IF BeyondHole(b) THEN Untouched ELSE work[b]]
    /\ UNCHANGED <<linked, tables, owed>>

(* The linker finds an account. *)
Link(a) ==
    /\ linked' = linked \union {a}
    /\ UNCHANGED <<tables, cache, inline, work, run, known, spoiled, owed>>

BlockNext ==
    \/ \E b \in Blocks :
         Probe(b) \/ ProbeAnswers(b) \/ ProbeFails(b) \/ Persist(b) \/ PersistFails(b)
    \/ NextRun
    \/ \E a \in Accounts \ linked : Link(a)

BlockSpec == BlockInit /\ [][BlockNext]_blockVars

-------------------------------------------------------------------------------
(* Properties. *)

UserHashes == {r.hash : r \in tables.user}

(* No user activity is lost to the probe cache: a completed block has a row  *)
(* for every transaction of an account that was linked when the run began,   *)
(* unless that account's own probe failed in the run.                        *)
KnownUsersAreRecorded == owed \subseteq UserHashes

(* "Sign calls live in a disjoint table and are excluded from user           *)
(* transactions at ingest, so each relayed on-chain tx is counted exactly    *)
(* once" (loadRelayerBreakdownByActivity): no hash is in both tables or in   *)
(* two user rows, a sign event of a completed block has its transaction, and *)
(* a relayer is named exactly when someone else signed the envelope.         *)
FiledOnce ==
    /\ tables.near \intersect UserHashes = {}
    /\ Cardinality(UserHashes) = Cardinality(tables.user)
    /\ \A b \in Blocks : work[b].pc = "done" =>
         UNION {{e.hash : e \in SignEvents(tx)} : tx \in TxSet(b)} \subseteq tables.near
    /\ \A r \in tables.user : r.relayer # r.signer
===============================================================================
