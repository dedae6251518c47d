--------------------------- MODULE PublicKeyAccounts --------------------------
(***************************************************************************)
(* The public-key linker (PublicKeyAccountsService.runOnce): read the sign *)
(* events above a cursor, derive the keys they lack, look up the accounts  *)
(* of each key, link keys to accounts and stamp the events with their      *)
(* account; then sweep the keys that never resolved, and stamp whatever    *)
(* became stampable.                                                       *)
(*                                                                         *)
(* As in NearIngest, an action is what lies between two awaits. Runs is    *)
(* the set of run slots: one under the scheduler's lock, two with the HTTP *)
(* trigger. A crash of the worker ends each run where it is, and so does a *)
(* failed statement (RunFails): the service keeps nothing in memory.       *)
(***************************************************************************)
EXTENDS Integers, FiniteSets

CONSTANTS Ids,        \* ids of sign events, given out in order at insertion
          Bare,       \* events inserted without a derived key
          Keys,       \* public keys, in the order of the database's ORDER BY
          KeyOf,      \* KeyOf[i]: the key of the user who signed event i
          Accounts,
          OwnersOf,   \* OwnersOf[k]: the accounts the lookup knows for key k
          Runs,       \* concurrent calls of runOnce
          BatchSize,  \* FASTAUTH_PUBLIC_KEY_ACCOUNTS_BATCH_SIZE
          MaxPubkeys  \* ORPHAN_RETRY_MAX_PUBKEYS

ASSUME PkaAssumption ==
    /\ Ids \subseteq Nat \ {0} /\ IsFiniteSet(Ids)
    /\ Bare \subseteq Ids
    /\ Keys \subseteq Nat /\ IsFiniteSet(Keys)
    /\ KeyOf \in [Ids -> Keys]
    /\ IsFiniteSet(Accounts)
    /\ OwnersOf \in [Keys -> SUBSET Accounts]
    /\ BatchSize \in Nat \ {0}
    /\ MaxPubkeys \in Nat \ {0}

VARIABLES present,  \* the rows of fastauth_sign_events, by id
          keyed,    \* those with a user_derived_public_key
          stamp,    \* stamp[i]: user_account_id
          links,    \* fastauth_public_key_accounts, as <<key, account>>
          count,    \* accounts: count[a] is a's public_key_count
          cursor,   \* checkpoint fastauth_public_key_accounts_last_event_id
          due,      \* ORPHAN_RETRY_MIN_INTERVAL_MS has passed since the last sweep
          run       \* run[r]: the local variables of run slot r

pkaVars == <<present, keyed, stamp, links, count, cursor, due, run>>

Nobody == "nobody"  \* user_account_id IS NULL
NoRow  == -1        \* no row in accounts

Pairs == Keys \X Accounts

Steps == {"idle", "batch", "derive", "keys", "lookup", "read", "link", "account",
          "stamp", "count", "throttle", "orphans", "retry", "retryLink", "retryRead",
          "retryAccount", "retryDone", "backStamp", "cursor"}

RunType ==
    [pc       : Steps,
     from     : Ids \cup {0},    \* checkpointValue
     batch    : SUBSET Ids,      \* events
     had      : SUBSET Ids,      \* those whose row had a derived key when read
     derived  : SUBSET Ids,      \* mpcResults
     orphans  : SUBSET Keys,     \* orphanReps
     pairs    : SUBSET Pairs,    \* candidatePairs, resolvedRows
     unread   : SUBSET {"links", "accounts"},
     oldLinks : SUBSET Pairs,    \* existingLinkSet
     oldAccts : SUBSET Accounts] \* existingAccountSet, existingSet

IdleRun == [pc |-> "idle", from |-> 0, batch |-> {}, had |-> {}, derived |-> {},
            orphans |-> {}, pairs |-> {}, unread |-> {}, oldLinks |-> {},
            oldAccts |-> {}]

TypeOK ==
    /\ present \subseteq Ids
    /\ keyed \subseteq Ids
    /\ stamp \in [Ids -> Accounts \cup {Nobody}]
    /\ links \subseteq Pairs
    /\ count \in [Accounts -> Nat \cup {NoRow}]
    /\ cursor \in Ids \cup {0}
    /\ due \in BOOLEAN
    /\ run \in [Runs -> RunType]

Init ==
    /\ present = {} /\ keyed = {} /\ links = {}
    /\ stamp = [i \in Ids |-> Nobody]
    /\ count = [a \in Accounts |-> NoRow]
    /\ cursor = 0
    /\ due = TRUE
    /\ run = [r \in Runs |-> IdleRun]

(* The run in slot r goes on with the local variables new. *)
Becomes(r, new) == run' = [run EXCEPT ![r] = new]

(* A method returns to runOnce, where only the batch is still needed.      *)
ReturnTo(r, pc) == Becomes(r, [IdleRun EXCEPT !.pc = pc, !.batch = run[r].batch])

(* ORDER BY ... LIMIT n *)
FirstOf(S, n) == {i \in S : Cardinality({j \in S : j < i}) < n}

AccountsOf(pairs) == {p[2] : p \in pairs}
KeysOf(pairs) == {p[1] : p \in pairs}

(* What the lookup of the keys ks finds when every request is answered.    *)
Owned(ks) == {p \in Pairs : p[1] \in ks /\ p[2] \in OwnersOf[p[1]]}

(* An owner for each key that has one among the pairs. The code takes the  *)
(* first account the lookup listed, or the link seen last, of which a      *)
(* lookup refreshes several at once: any of the key's accounts may be it.  *)
OwnerChoices(pairs) ==
    {f \in [KeysOf(pairs) -> Accounts] : \A k \in KeysOf(pairs) : <<k, f[k]>> \in pairs}

-------------------------------------------------------------------------------
(* The batch: read, derive, look up. *)

ReadCursor(r) ==
    /\ run[r].pc = "idle"
    /\ Becomes(r, [IdleRun EXCEPT !.pc = "batch", !.from = cursor])
    /\ UNCHANGED <<present, keyed, stamp, links, count, cursor, due>>

FetchBatch(r) ==
    /\ run[r].pc = "batch"
    /\ LET events == FirstOf({i \in present : i > run[r].from}, BatchSize)
       IN  Becomes(r, [IdleRun EXCEPT !.pc    = "derive",
                                     !.batch = events,
                                     !.had   = events \cap keyed])
    /\ UNCHANGED <<present, keyed, stamp, links, count, cursor, due>>

EventsNeedingMpc(r) == run[r].batch \ run[r].had

(* Only the events in got were derived: a failure is logged and passed by. *)
DeriveMissing(r, got) ==
    /\ run[r].pc = "derive"
    /\ Becomes(r, [run[r] EXCEPT !.pc = "keys", !.derived = got])
    /\ UNCHANGED <<present, keyed, stamp, links, count, cursor, due>>

PersistDerivedKeys(r) ==
    /\ run[r].pc = "keys"
    /\ keyed' = keyed \cup run[r].derived
    /\ Becomes(r, [run[r] EXCEPT !.pc = "lookup"])
    /\ UNCHANGED <<present, stamp, links, count, cursor, due>>

(* An update fails: those in flight with it settle, the run is given up.   *)
PersistFails(r, done) ==
    /\ run[r].pc = "keys"
    /\ keyed' = keyed \cup done
    /\ Becomes(r, IdleRun)
    /\ UNCHANGED <<present, stamp, links, count, cursor, due>>

BatchKeys(r) == {KeyOf[i] : i \in run[r].had \cup run[r].derived}

(* A failed lookup answers with no account, like a key nobody holds.       *)
FetchAccounts(r, found) ==
    /\ run[r].pc = "lookup"
    /\ IF found = {}
       THEN ReturnTo(r, "throttle")
       ELSE Becomes(r, [run[r] EXCEPT !.pc = "read", !.derived = {}, !.pairs = found,
                                      !.unread = {"links", "accounts"}])
    /\ UNCHANGED <<present, keyed, stamp, links, count, cursor, due>>

-------------------------------------------------------------------------------
(* persistLinksAndAccounts: six statements, no transaction. *)

(* Those of the pairs' accounts that have a row. *)
Existing(pairs) == {a \in AccountsOf(pairs) : count[a] # NoRow}

(* Two queries issued together. *)
ReadExisting(r, what) ==
    /\ run[r].pc = "read"
    /\ what \in run[r].unread
    /\ Becomes(r, [run[r] EXCEPT
          !.pc       = IF run[r].unread = {what} THEN "link" ELSE "read",
          !.unread   = run[r].unread \ {what},
          !.oldLinks = IF what = "links" THEN links \cap run[r].pairs
                                         ELSE run[r].oldLinks,
          !.oldAccts = IF what = "accounts" THEN Existing(run[r].pairs)
                                            ELSE run[r].oldAccts])
    /\ UNCHANGED <<present, keyed, stamp, links, count, cursor, due>>

(* Slip: links that were there are counted again.                          *)
EveryLink(r) == run[r].pairs

NewLinks(r) == run[r].pairs \ run[r].oldLinks

(* newLinkCount of account a *)
NewLinkCount(r, a) == Cardinality({p \in NewLinks(r) : p[2] = a})

(* Slip: only links to accounts that already have a row are inserted.      *)
InsertLinksKnown(r) ==
    /\ run[r].pc = "link"
    /\ links' = links \cup {p \in NewLinks(r) : p[2] \in run[r].oldAccts}
    /\ Becomes(r, [run[r] EXCEPT !.pc = "account"])
    /\ UNCHANGED <<present, keyed, stamp, count, cursor, due>>

(* Inserts the new links, then refreshes last_seen_at of all, which is not *)
(* modelled (see OwnerChoices).                                            *)
InsertLinks(r) ==
    /\ run[r].pc = "link"
    /\ links' = links \cup NewLinks(r)
    /\ Becomes(r, [run[r] EXCEPT !.pc = "account"])
    /\ UNCHANGED <<present, keyed, stamp, count, cursor, due>>

(* INSERT ... ON CONFLICT DO NOTHING of the accounts not seen before.      *)
InsertAccounts(r) ==
    /\ run[r].pc = "account"
    /\ count' = [a \in Accounts |->
                   IF a \in AccountsOf(run[r].pairs) \ run[r].oldAccts /\ count[a] = NoRow
                   THEN NewLinkCount(r, a) ELSE count[a]]
    /\ Becomes(r, [run[r] EXCEPT !.pc = "stamp"])
    /\ UNCHANGED <<present, keyed, stamp, links, cursor, due>>

(* Only events that came with their key are stamped here; those that got   *)
(* it in this run wait for the back-stamp.                                 *)
StampBatch(r) ==
    /\ run[r].pc = "stamp"
    /\ \E owner \in OwnerChoices(run[r].pairs) :
          stamp' = [i \in Ids |->
                      IF i \in run[r].had /\ KeyOf[i] \in DOMAIN owner
                      THEN owner[KeyOf[i]] ELSE stamp[i]]
    /\ Becomes(r, [run[r] EXCEPT !.pc = "count"])
    /\ UNCHANGED <<present, keyed, links, count, cursor, due>>

(* public_key_count + delta, on the accounts seen before. *)
UpdateAccounts(r) ==
    /\ run[r].pc = "count"
    /\ count' = [a \in Accounts |->
                   IF a \in run[r].oldAccts /\ count[a] # NoRow
                   THEN count[a] + NewLinkCount(r, a) ELSE count[a]]
    /\ ReturnTo(r, "throttle")
    /\ UNCHANGED <<present, keyed, stamp, links, cursor, due>>

-------------------------------------------------------------------------------
(* maybeRunOrphanRetry *)

SweepIfDue(r) ==
    /\ run[r].pc = "throttle"
    /\ ReturnTo(r, IF due THEN "orphans" ELSE "backStamp")
    /\ UNCHANGED <<present, keyed, stamp, links, count, cursor, due>>

(* The keys of unstamped events that no link mentions. *)
OrphanKeys == {KeyOf[i] : i \in {j \in keyed : stamp[j] = Nobody}} \ KeysOf(links)

FindOrphans(r) ==
    /\ run[r].pc = "orphans"
    /\ LET reps == FirstOf(OrphanKeys, MaxPubkeys)
       IN  Becomes(r, [run[r] EXCEPT !.pc = IF reps = {} THEN "retryDone" ELSE "retry",
                                     !.orphans = reps])
    /\ UNCHANGED <<present, keyed, stamp, links, count, cursor, due>>

RetryLookups(r, found) ==
    /\ run[r].pc = "retry"
    /\ Becomes(r, [run[r] EXCEPT !.pc    = IF found = {} THEN "retryDone" ELSE "retryLink",
                                 !.pairs = found])
    /\ UNCHANGED <<present, keyed, stamp, links, count, cursor, due>>

RetryInsertLinks(r) ==
    /\ run[r].pc = "retryLink"
    /\ links' = links \cup run[r].pairs
    /\ Becomes(r, [run[r] EXCEPT !.pc = "retryRead"])
    /\ UNCHANGED <<present, keyed, stamp, count, cursor, due>>

RetryReadAccounts(r) ==
    /\ run[r].pc = "retryRead"
    /\ Becomes(r, [run[r] EXCEPT
          !.pc       = "retryAccount",
          !.oldAccts = Existing(run[r].pairs)])
    /\ UNCHANGED <<present, keyed, stamp, links, count, cursor, due>>

(* A new account starts with a count of one, however many of its keys the  *)
(* sweep linked; an account that was there keeps its count.                *)
RetryInsertAccounts(r) ==
    /\ run[r].pc = "retryAccount"
    /\ count' = [a \in Accounts |->
                   IF a \in AccountsOf(run[r].pairs) \ run[r].oldAccts /\ count[a] = NoRow
                   THEN 1 ELSE count[a]]
    /\ Becomes(r, [run[r] EXCEPT !.pc = "retryDone"])
    /\ UNCHANGED <<present, keyed, stamp, links, cursor, due>>

SweepDone(r) ==
    /\ run[r].pc = "retryDone"
    /\ due' = FALSE
    /\ ReturnTo(r, "backStamp")
    /\ UNCHANGED <<present, keyed, stamp, links, count, cursor>>

-------------------------------------------------------------------------------
(* The end of a run. *)

(* Slips: stamped events are stamped again; only the batch is stamped.     *)
BackStampAll(r) ==
    /\ run[r].pc = "backStamp"
    /\ \E owner \in OwnerChoices(links) :
          stamp' = [i \in Ids |-> IF i \in keyed /\ KeyOf[i] \in DOMAIN owner
                                 THEN owner[KeyOf[i]] ELSE stamp[i]]
    /\ ReturnTo(r, "cursor")
    /\ UNCHANGED <<present, keyed, links, count, cursor, due>>

BackStampOfBatch(r) ==
    /\ run[r].pc = "backStamp"
    /\ \E owner \in OwnerChoices(links) :
          stamp' = [i \in Ids |->
                      IF /\ i \in keyed \cap run[r].batch
                         /\ stamp[i] = Nobody
                         /\ KeyOf[i] \in DOMAIN owner
                      THEN owner[KeyOf[i]] ELSE stamp[i]]
    /\ ReturnTo(r, "cursor")
    /\ UNCHANGED <<present, keyed, links, count, cursor, due>>

(* Every event without an account whose key has links. *)
BackStamp(r) ==
    /\ run[r].pc = "backStamp"
    /\ \E owner \in OwnerChoices(links) :
          stamp' = [i \in Ids |->
                      IF i \in keyed /\ stamp[i] = Nobody /\ KeyOf[i] \in DOMAIN owner
                      THEN owner[KeyOf[i]] ELSE stamp[i]]
    /\ ReturnTo(r, "cursor")
    /\ UNCHANGED <<present, keyed, links, count, cursor, due>>

AdvanceCursor(r) ==
    /\ run[r].pc = "cursor"
    /\ \/ run[r].batch = {} /\ UNCHANGED cursor
       \/ /\ cursor' \in run[r].batch
          /\ \A i \in run[r].batch : i <= cursor'
    /\ Becomes(r, IdleRun)
    /\ UNCHANGED <<present, keyed, stamp, links, count, due>>

(* The statement a run waits for fails, or the worker dies. *)
RunFails(r) ==
    /\ run[r].pc # "idle"
    /\ Becomes(r, IdleRun)
    /\ UNCHANGED <<present, keyed, stamp, links, count, cursor, due>>

-------------------------------------------------------------------------------

(* near-ingest's insert of a sign event commits. Several are under way at  *)
(* once, so an id may become visible after a higher one.                   *)
EventCommits(i) ==
    /\ i \notin present
    /\ present' = present \cup {i}
    /\ keyed' = IF i \in Bare THEN keyed ELSE keyed \cup {i}
    /\ UNCHANGED <<stamp, links, count, cursor, due, run>>

ThrottleElapses ==
    /\ ~due
    /\ due' = TRUE
    /\ UNCHANGED <<present, keyed, stamp, links, count, cursor, run>>

(* A run's own progress when endpoints and database answer. *)
RunStep(r) ==
    \/ ReadCursor(r) \/ FetchBatch(r)
    \/ DeriveMissing(r, EventsNeedingMpc(r)) \/ PersistDerivedKeys(r)
    \/ FetchAccounts(r, Owned(BatchKeys(r)))
    \/ \E what \in {"links", "accounts"} : ReadExisting(r, what)
    \/ InsertLinks(r) \/ InsertAccounts(r) \/ StampBatch(r) \/ UpdateAccounts(r)
    \/ SweepIfDue(r) \/ FindOrphans(r) \/ RetryLookups(r, Owned(run[r].orphans))
    \/ RetryInsertLinks(r) \/ RetryReadAccounts(r) \/ RetryInsertAccounts(r)
    \/ SweepDone(r) \/ BackStamp(r) \/ AdvanceCursor(r)

(* What an endpoint or the database can do to a run. *)
RunFault(r) ==
    \/ \E got \in SUBSET EventsNeedingMpc(r) : DeriveMissing(r, got)
    \/ \E done \in SUBSET run[r].derived : PersistFails(r, done)
    \/ \E found \in SUBSET Owned(BatchKeys(r)) : FetchAccounts(r, found)
    \/ \E found \in SUBSET Owned(run[r].orphans) : RetryLookups(r, found)
    \/ RunFails(r)

Next ==
    \/ \E r \in Runs : RunStep(r) \/ RunFault(r)
    \/ \E i \in Ids : EventCommits(i)
    \/ ThrottleElapses

Spec == Init /\ [][Next]_pkaVars

-------------------------------------------------------------------------------
(* Properties. *)

(* An event is only ever stamped with an account that the link table gives *)
(* for the event's own key, whatever failed between the statements that    *)
(* write the two tables.                                                   *)
StampsAreLinked ==
    \A i \in Ids : stamp[i] # Nobody => i \in keyed /\ <<KeyOf[i], stamp[i]>> \in links

(* What a run carries about the links L and the keyed events K: what it    *)
(* saw is still there, and what it has inserted is.                        *)
RunOK(x, L, K) ==
    /\ x.oldLinks \subseteq L
    /\ x.pc \in {"account", "stamp", "count"} => x.pairs \subseteq L
    /\ x.had \subseteq K

(* The inductive invariant behind StampsAreLinked.                         *)
PkaInv ==
    /\ TypeOK
    /\ StampsAreLinked
    /\ \A r \in Runs : RunOK(run[r], links, keyed)

(* With one run at a time, an account is never credited with more keys     *)
(* than are linked to it: a run repeated after it failed half-way does not *)
(* count a link twice, nor do the sweep and the batch both count it. (It   *)
(* can be credited with fewer; see the hazards.)                           *)
NoKeyCountedTwice ==
    \A a \in Accounts : count[a] <= Cardinality({p \in links : p[2] = a})

(* With one run at a time, a stamp below the cursor is final: only the     *)
(* batch still being worked on may be stamped anew.                        *)
StampsStand ==
    [][\A i \in Ids : i <= cursor /\ stamp[i] # Nobody => stamp'[i] = stamp[i]]_pkaVars

===============================================================================
