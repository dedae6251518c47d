----------------------- MODULE PublicKeyAccountsProofs ------------------------
(***************************************************************************)
(* Proofs about PublicKeyAccounts, for any tables of events, keys and      *)
(* owners, any limits, and any number of overlapping runs; and about       *)
(* HttpPool, the endpoints its lookups go through, for any list of them    *)
(* and any number of lookups in flight.                                    *)
(*                                                                         *)
(* The argument: links and keys are only ever added, so a stamp that was   *)
(* linked stays linked, and so does what a run saw or inserted             *)
(* (GrowStep); the two statements that stamp take the account from pairs   *)
(* that are in the link table by then (StampStep).                         *)
(*                                                                         *)
(* With one run at a time, the links a run has read are still all there    *)
(* are when it inserts its own, so that counts never pass the links        *)
(* (CountInv), and its batch is ahead of the cursor (BatchIsAhead).        *)
(*                                                                         *)
(* A get of HttpPool gives up only after MaxAttempts failures. Each of     *)
(* them can be charged to a count of its own that some endpoint has        *)
(* reached since the get began and keeps while it is in flight             *)
(* (FailuresAreCharged): there are MaxFailures counts an endpoint can      *)
(* reach before it is blacklisted, and the healthy one has none.           *)
(***************************************************************************)
EXTENDS PublicKeyAccounts, HttpPool, FiniteSetTheorems, TLAPS

CountType == [Accounts -> Nat \cup {NoRow}]

(* The other runs keep what they know. *)
LEMMA RunsKeep ==
    ASSUME PkaInv, NEW r \in Runs, NEW x \in RunType, Becomes(r, x),
           keyed \subseteq keyed', links \subseteq links', RunOK(x, links', keyed')
    PROVE  run' \in [Runs -> RunType] /\ \A s \in Runs : RunOK(run'[s], links', keyed')
<1>1. \A s \in Runs : RunOK(run[s], links', keyed')
  BY DEF PkaInv, RunOK
<1> QED
  BY <1>1 DEF Becomes, PkaInv, TypeOK

(* A step of run r that adds keys or links, or none, and stamps nothing. *)
LEMMA GrowStep ==
    ASSUME PkaInv, UNCHANGED <<present, stamp>>,
           keyed \subseteq keyed', keyed' \subseteq Ids,
           links \subseteq links', links' \subseteq Pairs,
           count' \in CountType, cursor' \in Ids \cup {0}, due' \in BOOLEAN,
           NEW r \in Runs, NEW x \in RunType, Becomes(r, x), RunOK(x, links', keyed')
    PROVE  PkaInv'
<1>1. run' \in [Runs -> RunType] /\ \A s \in Runs : RunOK(run'[s], links', keyed')
  BY RunsKeep
<1>2. StampsAreLinked'
  BY DEF PkaInv, StampsAreLinked
<1>3. TypeOK'
  BY <1>1 DEF PkaInv, TypeOK, CountType
<1> QED
  BY <1>1, <1>2, <1>3 DEF PkaInv

(* A step of run r that stamps events with linked accounts. *)
LEMMA StampStep ==
    ASSUME PkaInv, UNCHANGED <<present, keyed, links, count, cursor, due>>,
           stamp' \in [Ids -> Accounts \cup {Nobody}],
           \A i \in Ids : stamp'[i] = stamp[i]
                          \/ (i \in keyed /\ <<KeyOf[i], stamp'[i]>> \in links),
           NEW r \in Runs, NEW x \in RunType, Becomes(r, x), RunOK(x, links, keyed)
    PROVE  PkaInv'
<1>1. run' \in [Runs -> RunType] /\ \A s \in Runs : RunOK(run'[s], links', keyed')
  BY RunsKeep
<1>2. StampsAreLinked'
  BY DEF PkaInv, StampsAreLinked
<1>3. TypeOK'
  BY <1>1 DEF PkaInv, TypeOK
<1> QED
  BY <1>1, <1>2, <1>3 DEF PkaInv

(* What the invariant says of the acting run and of the tables. *)
LEMMA Facts ==
    ASSUME PkaInv, NEW r \in Runs
    PROVE  /\ run[r] \in RunType /\ RunOK(run[r], links, keyed)
           /\ present \subseteq Ids /\ keyed \subseteq Ids /\ links \subseteq Pairs
           /\ count \in CountType /\ cursor \in Ids \cup {0} /\ due \in BOOLEAN
           /\ stamp \in [Ids -> Accounts \cup {Nobody}]
  BY DEF PkaInv, TypeOK, CountType

LEMMA IdleRunOK ==
    /\ IdleRun \in RunType
    /\ \A L, K : RunOK(IdleRun, L, K)
  BY DEF IdleRun, RunType, Steps, RunOK

(* A run that returned to runOnce carries only its batch. *)
LEMMA Returned ==
    ASSUME NEW b \in SUBSET Ids,
           NEW pc \in {"throttle", "orphans", "backStamp", "cursor"},
           NEW L, NEW K
    PROVE  /\ [IdleRun EXCEPT !.pc = pc, !.batch = b] \in RunType
           /\ RunOK([IdleRun EXCEPT !.pc = pc, !.batch = b], L, K)
  BY DEF IdleRun, RunType, Steps, RunOK

(* The length of a sub-table of the links is a number. *)
LEMMA NewLinkCountType ==
    ASSUME PkaInv, NEW r \in Runs, NEW a \in Accounts
    PROVE  NewLinkCount(r, a) \in Nat
<1>1. IsFiniteSet(Pairs)
  BY PkaAssumption, FS_Product DEF Pairs
<1>2. {p \in NewLinks(r) : p[2] = a} \subseteq Pairs
  BY Facts DEF NewLinks, RunType
<1>3. IsFiniteSet({p \in NewLinks(r) : p[2] = a})
  BY <1>1, <1>2, FS_Subset
<1> QED
  BY <1>3, FS_CardinalityType DEF NewLinkCount

-------------------------------------------------------------------------------
(* Steps that write no table. *)

LEMMA QuietStep ==
    ASSUME PkaInv, UNCHANGED <<present, keyed, stamp, links, count, cursor, due>>,
           NEW r \in Runs, NEW x \in RunType, Becomes(r, x), RunOK(x, links, keyed)
    PROVE  PkaInv'
  BY GrowStep, Facts

LEMMA ReadCursorStep ==
    ASSUME PkaInv, NEW r \in Runs, ReadCursor(r)
    PROVE  PkaInv'
<1> DEFINE x == [IdleRun EXCEPT !.pc = "batch", !.from = cursor]
<1>1. x \in RunType
  BY Facts, IdleRunOK DEF IdleRun, RunType, Steps
<1>2. RunOK(x, links, keyed)
  BY DEF RunOK, IdleRun
<1>3. Becomes(r, x) /\ UNCHANGED <<present, keyed, stamp, links, count, cursor, due>>
  BY DEF ReadCursor
<1> HIDE DEF x
<1> QED
  BY <1>1, <1>2, <1>3, QuietStep

LEMMA FetchBatchStep ==
    ASSUME PkaInv, NEW r \in Runs, FetchBatch(r)
    PROVE  PkaInv'
<1> DEFINE b == FirstOf({i \in present : i > run[r].from}, BatchSize)
<1>1. b \subseteq Ids
  BY Facts DEF FirstOf
<1>2. Becomes(r, [IdleRun EXCEPT !.pc = "derive", !.batch = b, !.had = b \cap keyed])
      /\ UNCHANGED <<present, keyed, stamp, links, count, cursor, due>>
  BY DEF FetchBatch
<1> HIDE DEF b
<1> DEFINE x == [IdleRun EXCEPT !.pc = "derive", !.batch = b, !.had = b \cap keyed]
<1>3. x \in RunType
  BY <1>1 DEF IdleRun, RunType, Steps
<1>4. RunOK(x, links, keyed)
  BY DEF RunOK, IdleRun
<1>5. Becomes(r, x)
  BY <1>2
<1> HIDE DEF x
<1> QED
  BY <1>2, <1>3, <1>4, <1>5, QuietStep

LEMMA DeriveMissingStep ==
    ASSUME PkaInv, NEW r \in Runs, NEW got \in SUBSET EventsNeedingMpc(r),
           DeriveMissing(r, got)
    PROVE  PkaInv'
<1> DEFINE x == [run[r] EXCEPT !.pc = "keys", !.derived = got]
<1>a. run[r] \in RunType /\ "keys" \in Steps
  BY Facts DEF Steps
<1>1. got \in SUBSET Ids
  BY <1>a DEF EventsNeedingMpc, RunType
<1>2. x \in RunType
  BY <1>a, <1>1 DEF RunType
<1>3. RunOK(x, links, keyed)
  BY Facts DEF RunOK, RunType
<1>4. Becomes(r, x) /\ UNCHANGED <<present, keyed, stamp, links, count, cursor, due>>
  BY DEF DeriveMissing
<1> HIDE DEF x
<1> QED
  BY <1>2, <1>3, <1>4, QuietStep

LEMMA OwnedType ==
    ASSUME NEW ks
    PROVE  Owned(ks) \subseteq Pairs
  BY DEF Owned

LEMMA FetchAccountsStep ==
    ASSUME PkaInv, NEW r \in Runs, NEW found \in SUBSET Pairs, FetchAccounts(r, found)
    PROVE  PkaInv'
<1>1. CASE found = {}
  <2>1. ReturnTo(r, "throttle") /\ UNCHANGED <<present, keyed, stamp, links, count, cursor, due>>
    BY <1>1 DEF FetchAccounts
  <2> DEFINE x == [IdleRun EXCEPT !.pc = "throttle", !.batch = run[r].batch]
  <2>2. x \in RunType /\ RunOK(x, links, keyed)
    BY Returned, Facts DEF RunType
  <2>3. Becomes(r, x)
    BY <2>1 DEF ReturnTo
  <2> HIDE DEF x
  <2> QED
    BY <2>1, <2>2, <2>3, QuietStep
<1>2. CASE found # {}
  <2> DEFINE x == [run[r] EXCEPT !.pc = "read", !.derived = {}, !.pairs = found,
                                 !.unread = {"links", "accounts"}]
  <2>a. run[r] \in RunType /\ "read" \in Steps
    BY Facts DEF Steps
  <2>1. x \in RunType
    BY <2>a DEF RunType
  <2>2. RunOK(x, links, keyed)
    BY Facts DEF RunOK, RunType
  <2>3. Becomes(r, x) /\ UNCHANGED <<present, keyed, stamp, links, count, cursor, due>>
    BY <1>2 DEF FetchAccounts
  <2> HIDE DEF x
  <2> QED
    BY <2>1, <2>2, <2>3, QuietStep
<1> QED
  BY <1>1, <1>2

LEMMA ExistingType ==
    ASSUME NEW ps \in SUBSET Pairs
    PROVE  Existing(ps) \subseteq Accounts
  BY DEF Existing, AccountsOf, Pairs

LEMMA ReadExistingStep ==
    ASSUME PkaInv, NEW r \in Runs, NEW what \in {"links", "accounts"}, ReadExisting(r, what)
    PROVE  PkaInv'
<1> DEFINE pc  == IF run[r].unread = {what} THEN "link" ELSE "read"
           un  == run[r].unread \ {what}
           old == IF what = "links" THEN links \cap run[r].pairs ELSE run[r].oldLinks
           acc == IF what = "accounts" THEN Existing(run[r].pairs) ELSE run[r].oldAccts
<1>a. run[r] \in RunType
  BY Facts
<1>1. pc \in {"link", "read"} /\ pc \in Steps /\ un \in SUBSET {"links", "accounts"}
  BY <1>a DEF RunType, Steps
<1>2. old \in SUBSET Pairs /\ old \subseteq links
  BY Facts DEF RunType, RunOK
<1>3. acc \in SUBSET Accounts
  BY Facts, ExistingType DEF RunType
<1>4. /\ Becomes(r, [run[r] EXCEPT !.pc = pc, !.unread = un, !.oldLinks = old, !.oldAccts = acc])
      /\ UNCHANGED <<present, keyed, stamp, links, count, cursor, due>>
  BY DEF ReadExisting
<1> HIDE DEF pc, un, old, acc
<1> DEFINE x == [run[r] EXCEPT !.pc = pc, !.unread = un, !.oldLinks = old, !.oldAccts = acc]
<1>5. x \in RunType
  BY <1>a, <1>1, <1>2, <1>3 DEF RunType
<1>6. x.pc = pc /\ x.oldLinks = old /\ x.had = run[r].had
  BY <1>a DEF RunType
<1>7. RunOK(x, links, keyed)
  BY <1>1, <1>2, <1>6, Facts DEF RunOK
<1>8. Becomes(r, x)
  BY <1>4
<1> HIDE DEF x
<1> QED
  BY <1>4, <1>5, <1>7, <1>8, QuietStep

LEMMA SweepIfDueStep ==
    ASSUME PkaInv, NEW r \in Runs, SweepIfDue(r)
    PROVE  PkaInv'
<1> DEFINE pc == IF due THEN "orphans" ELSE "backStamp"
           x  == [IdleRun EXCEPT !.pc = pc, !.batch = run[r].batch]
<1>1. pc \in {"orphans", "backStamp"}
  OBVIOUS
<1>2. Becomes(r, x) /\ UNCHANGED <<present, keyed, stamp, links, count, cursor, due>>
  BY DEF SweepIfDue, ReturnTo
<1> HIDE DEF pc
<1>3. x \in RunType /\ RunOK(x, links, keyed)
  BY <1>1, Returned, Facts DEF RunType
<1> HIDE DEF x
<1> QED
  BY <1>2, <1>3, QuietStep

LEMMA FindOrphansStep ==
    ASSUME PkaInv, NEW r \in Runs, FindOrphans(r)
    PROVE  PkaInv'
<1> DEFINE reps == FirstOf(OrphanKeys, MaxPubkeys)
           pc   == IF reps = {} THEN "retryDone" ELSE "retry"
           x    == [run[r] EXCEPT !.pc = pc, !.orphans = reps]
<1>a. run[r] \in RunType
  BY Facts
<1>1. reps \in SUBSET Keys
  BY ZenonT(40), PkaAssumption, Facts DEF FirstOf, OrphanKeys
<1>2. pc \in {"retryDone", "retry"} /\ pc \in Steps
  BY DEF Steps
<1>3. Becomes(r, x) /\ UNCHANGED <<present, keyed, stamp, links, count, cursor, due>>
  BY DEF FindOrphans
<1> HIDE DEF pc, reps
<1>4. x \in RunType
  BY <1>a, <1>1, <1>2 DEF RunType
<1>5. x.pc = pc /\ x.oldLinks = run[r].oldLinks /\ x.had = run[r].had
  BY <1>a DEF RunType
<1>6. RunOK(x, links, keyed)
  BY <1>2, <1>5, Facts DEF RunOK
<1> HIDE DEF x
<1> QED
  BY <1>3, <1>4, <1>6, QuietStep

LEMMA RetryLookupsStep ==
    ASSUME PkaInv, NEW r \in Runs, NEW found \in SUBSET Pairs, RetryLookups(r, found)
    PROVE  PkaInv'
<1> DEFINE pc == IF found = {} THEN "retryDone" ELSE "retryLink"
           x  == [run[r] EXCEPT !.pc = pc, !.pairs = found]
<1>a. run[r] \in RunType
  BY Facts
<1>1. pc \in {"retryDone", "retryLink"} /\ pc \in Steps
  BY DEF Steps
<1>2. Becomes(r, x) /\ UNCHANGED <<present, keyed, stamp, links, count, cursor, due>>
  BY DEF RetryLookups
<1> HIDE DEF pc
<1>3. x \in RunType
  BY <1>a, <1>1 DEF RunType
<1>4. x.pc = pc /\ x.oldLinks = run[r].oldLinks /\ x.had = run[r].had
  BY <1>a DEF RunType
<1>5. RunOK(x, links, keyed)
  BY <1>1, <1>4, Facts DEF RunOK
<1> HIDE DEF x
<1> QED
  BY <1>2, <1>3, <1>5, QuietStep

LEMMA RetryReadAccountsStep ==
    ASSUME PkaInv, NEW r \in Runs, RetryReadAccounts(r)
    PROVE  PkaInv'
<1> DEFINE acc == Existing(run[r].pairs)
           x   == [run[r] EXCEPT !.pc = "retryAccount", !.oldAccts = acc]
<1>a. run[r] \in RunType /\ "retryAccount" \in Steps
  BY Facts DEF Steps
<1>1. acc \in SUBSET Accounts
  BY <1>a, ExistingType DEF RunType
<1>2. Becomes(r, x) /\ UNCHANGED <<present, keyed, stamp, links, count, cursor, due>>
  BY DEF RetryReadAccounts
<1> HIDE DEF acc
<1>3. x \in RunType
  BY <1>a, <1>1 DEF RunType
<1>4. RunOK(x, links, keyed)
  BY <1>a, Facts DEF RunOK, RunType
<1> HIDE DEF x
<1> QED
  BY <1>2, <1>3, <1>4, QuietStep

LEMMA RunFailsStep ==
    ASSUME PkaInv, NEW r \in Runs, RunFails(r)
    PROVE  PkaInv'
<1>1. Becomes(r, IdleRun) /\ UNCHANGED <<present, keyed, stamp, links, count, cursor, due>>
  BY DEF RunFails
<1> QED
  BY <1>1, IdleRunOK, QuietStep

-------------------------------------------------------------------------------
(* Steps that add keys or links. *)

LEMMA PersistDerivedKeysStep ==
    ASSUME PkaInv, NEW r \in Runs, PersistDerivedKeys(r)
    PROVE  PkaInv'
<1> DEFINE x == [run[r] EXCEPT !.pc = "lookup"]
<1>a. run[r] \in RunType /\ "lookup" \in Steps
  BY Facts DEF Steps
<1>1. keyed' = keyed \cup run[r].derived /\ run[r].derived \in SUBSET Ids
  BY <1>a DEF PersistDerivedKeys, RunType
<1>2. Becomes(r, x) /\ UNCHANGED <<present, stamp, links, count, cursor, due>>
  BY DEF PersistDerivedKeys
<1>3. x \in RunType
  BY <1>a DEF RunType
<1>4. RunOK(x, links', keyed')
  BY <1>a, <1>1, <1>2, Facts DEF RunOK, RunType
<1> HIDE DEF x
<1> QED
  BY <1>1, <1>2, <1>3, <1>4, Facts, GrowStep

LEMMA PersistFailsStep ==
    ASSUME PkaInv, NEW r \in Runs, NEW done \in SUBSET run[r].derived, PersistFails(r, done)
    PROVE  PkaInv'
<1>1. keyed' = keyed \cup done /\ done \subseteq Ids
  BY Facts DEF PersistFails, RunType
<1>2. Becomes(r, IdleRun) /\ UNCHANGED <<present, stamp, links, count, cursor, due>>
  BY DEF PersistFails
<1> QED
  BY <1>1, <1>2, IdleRunOK, Facts, GrowStep

(* Afterwards every candidate pair is in the table: those the run did not  *)
(* insert it had seen there.                                               *)
LEMMA InsertLinksStep ==
    ASSUME PkaInv, NEW r \in Runs, InsertLinks(r)
    PROVE  PkaInv'
<1> DEFINE x == [run[r] EXCEPT !.pc = "account"]
<1>a. run[r] \in RunType /\ "account" \in Steps
  BY Facts DEF Steps
<1>1. links' = links \cup (run[r].pairs \ run[r].oldLinks) /\ run[r].pairs \in SUBSET Pairs
  BY <1>a DEF InsertLinks, NewLinks, RunType
<1>2. run[r].oldLinks \subseteq links /\ run[r].had \subseteq keyed
  BY Facts DEF RunOK
<1>3. run[r].pairs \subseteq links' /\ links \subseteq links' /\ links' \subseteq Pairs
  BY <1>1, <1>2, Facts
<1>4. Becomes(r, x) /\ UNCHANGED <<present, keyed, stamp, count, cursor, due>>
  BY DEF InsertLinks
<1>5. x \in RunType
  BY <1>a DEF RunType
<1>6. x.pairs = run[r].pairs /\ x.oldLinks = run[r].oldLinks /\ x.had = run[r].had
  BY <1>a DEF RunType
<1>7. RunOK(x, links', keyed')
  BY <1>2, <1>3, <1>4, <1>6 DEF RunOK
<1> HIDE DEF x
<1> QED
  BY <1>3, <1>4, <1>5, <1>7, Facts, GrowStep

LEMMA RetryInsertLinksStep ==
    ASSUME PkaInv, NEW r \in Runs, RetryInsertLinks(r)
    PROVE  PkaInv'
<1> DEFINE x == [run[r] EXCEPT !.pc = "retryRead"]
<1>a. run[r] \in RunType /\ "retryRead" \in Steps
  BY Facts DEF Steps
<1>1. links' = links \cup run[r].pairs /\ run[r].pairs \in SUBSET Pairs
  BY <1>a DEF RetryInsertLinks, RunType
<1>2. Becomes(r, x) /\ UNCHANGED <<present, keyed, stamp, count, cursor, due>>
  BY DEF RetryInsertLinks
<1>3. x \in RunType
  BY <1>a DEF RunType
<1>4. x.pc = "retryRead" /\ x.oldLinks = run[r].oldLinks /\ x.had = run[r].had
  BY <1>a DEF RunType
<1>5. RunOK(x, links', keyed')
  BY <1>1, <1>2, <1>4, Facts DEF RunOK
<1> HIDE DEF x
<1> QED
  BY <1>1, <1>2, <1>3, <1>5, Facts, GrowStep

-------------------------------------------------------------------------------
(* Steps that write the accounts, the throttle or the cursor. *)

LEMMA InsertAccountsStep ==
    ASSUME PkaInv, NEW r \in Runs, InsertAccounts(r)
    PROVE  PkaInv'
<1> DEFINE x == [run[r] EXCEPT !.pc = "stamp"]
<1>a. run[r] \in RunType /\ "stamp" \in Steps
  BY Facts DEF Steps
<1>1. count' \in CountType
  BY NewLinkCountType, Facts DEF InsertAccounts, CountType
<1>2. Becomes(r, x) /\ UNCHANGED <<present, keyed, stamp, links, cursor, due>>
      /\ run[r].pc = "account"
  BY DEF InsertAccounts
<1>3. x \in RunType
  BY <1>a DEF RunType
<1>4. x.pairs = run[r].pairs /\ x.oldLinks = run[r].oldLinks /\ x.had = run[r].had
  BY <1>a DEF RunType
<1>5. RunOK(x, links', keyed')
  BY <1>2, <1>4, Facts DEF RunOK
<1> HIDE DEF x
<1> QED
  BY <1>1, <1>2, <1>3, <1>5, Facts, GrowStep

LEMMA ReturnStep ==
    ASSUME PkaInv, UNCHANGED <<present, keyed, stamp, links>>,
           count' \in CountType, cursor' \in Ids \cup {0}, due' \in BOOLEAN,
           NEW r \in Runs, NEW pc \in {"throttle", "orphans", "backStamp", "cursor"},
           ReturnTo(r, pc)
    PROVE  PkaInv'
<1> DEFINE x == [IdleRun EXCEPT !.pc = pc, !.batch = run[r].batch]
<1>1. x \in RunType /\ RunOK(x, links', keyed')
  BY Returned, Facts DEF RunType
<1>2. Becomes(r, x)
  BY DEF ReturnTo
<1> HIDE DEF x
<1> QED
  BY <1>1, <1>2, Facts, GrowStep

LEMMA UpdateAccountsStep ==
    ASSUME PkaInv, NEW r \in Runs, UpdateAccounts(r)
    PROVE  PkaInv'
<1>1. count' = [a \in Accounts |->
                  IF a \in run[r].oldAccts /\ count[a] # NoRow
                  THEN count[a] + NewLinkCount(r, a) ELSE count[a]]
  BY DEF UpdateAccounts
<1>2. \A a \in Accounts : count[a] # NoRow => count[a] + NewLinkCount(r, a) \in Nat
  BY NewLinkCountType, Facts DEF CountType
<1>3. count' \in CountType
  BY <1>1, <1>2, Facts DEF CountType
<1> QED
  BY <1>3, ReturnStep, Facts DEF UpdateAccounts

LEMMA RetryInsertAccountsStep ==
    ASSUME PkaInv, NEW r \in Runs, RetryInsertAccounts(r)
    PROVE  PkaInv'
<1> DEFINE x == [run[r] EXCEPT !.pc = "retryDone"]
<1>a. run[r] \in RunType /\ "retryDone" \in Steps
  BY Facts DEF Steps
<1>1. count' \in CountType
  BY Facts DEF RetryInsertAccounts, CountType
<1>2. Becomes(r, x) /\ UNCHANGED <<present, keyed, stamp, links, cursor, due>>
  BY DEF RetryInsertAccounts
<1>3. x \in RunType
  BY <1>a DEF RunType
<1>4. x.pc = "retryDone" /\ x.oldLinks = run[r].oldLinks /\ x.had = run[r].had
  BY <1>a DEF RunType
<1>5. RunOK(x, links', keyed')
  BY <1>2, <1>4, Facts DEF RunOK
<1> HIDE DEF x
<1> QED
  BY <1>1, <1>2, <1>3, <1>5, Facts, GrowStep

LEMMA SweepDoneStep ==
    ASSUME PkaInv, NEW r \in Runs, SweepDone(r)
    PROVE  PkaInv'
  BY ReturnStep, Facts DEF SweepDone

LEMMA AdvanceCursorStep ==
    ASSUME PkaInv, NEW r \in Runs, AdvanceCursor(r)
    PROVE  PkaInv'
<1>1. cursor' \in Ids \cup {0}
  BY Facts DEF AdvanceCursor, RunType
<1>2. Becomes(r, IdleRun) /\ UNCHANGED <<present, keyed, stamp, links, count, due>>
  BY DEF AdvanceCursor
<1> QED
  BY <1>1, <1>2, IdleRunOK, Facts, GrowStep

-------------------------------------------------------------------------------
(* Steps that stamp. *)

LEMMA OwnerIsLinked ==
    ASSUME NEW ps \in SUBSET Pairs, NEW owner \in OwnerChoices(ps), NEW k \in DOMAIN owner
    PROVE  <<k, owner[k]>> \in ps /\ owner[k] \in Accounts
  BY DEF OwnerChoices

LEMMA StampBatchStep ==
    ASSUME PkaInv, NEW r \in Runs, StampBatch(r)
    PROVE  PkaInv'
<1> DEFINE x == [run[r] EXCEPT !.pc = "count"]
<1>a. run[r] \in RunType /\ "count" \in Steps
  BY Facts DEF Steps
<1>b. run[r].pairs \in SUBSET Pairs
  BY <1>a DEF RunType
<1>1. PICK owner \in OwnerChoices(run[r].pairs) :
         stamp' = [i \in Ids |->
                     IF i \in run[r].had /\ KeyOf[i] \in DOMAIN owner
                     THEN owner[KeyOf[i]] ELSE stamp[i]]
  BY DEF StampBatch
<1>2. Becomes(r, x) /\ UNCHANGED <<present, keyed, links, count, cursor, due>>
      /\ run[r].pc = "stamp"
  BY DEF StampBatch
<1>3. run[r].pairs \subseteq links /\ run[r].had \subseteq keyed
      /\ run[r].oldLinks \subseteq links
  BY <1>2, Facts DEF RunOK
<1>4. \A k \in DOMAIN owner : <<k, owner[k]>> \in links /\ owner[k] \in Accounts
  BY <1>b, <1>3, OwnerIsLinked
<1>5. stamp' \in [Ids -> Accounts \cup {Nobody}]
  BY <1>1, <1>4, Facts
<1>6. \A i \in Ids : stamp'[i] = stamp[i]
                     \/ (i \in keyed /\ <<KeyOf[i], stamp'[i]>> \in links)
  <2> TAKE i \in Ids
  <2>1. CASE i \in run[r].had /\ KeyOf[i] \in DOMAIN owner
    <3>1. stamp'[i] = owner[KeyOf[i]]
      BY <1>1, <2>1
    <3>2. i \in keyed /\ <<KeyOf[i], owner[KeyOf[i]]>> \in links
      BY <2>1, <1>3, <1>4
    <3> QED
      BY <3>1, <3>2
  <2>2. CASE ~(i \in run[r].had /\ KeyOf[i] \in DOMAIN owner)
    BY <1>1, <2>2
  <2> QED
    BY <2>1, <2>2
<1>7. x \in RunType
  BY <1>a DEF RunType
<1>8. x.pairs = run[r].pairs /\ x.oldLinks = run[r].oldLinks /\ x.had = run[r].had
  BY <1>a DEF RunType
<1>9. RunOK(x, links, keyed)
  BY <1>3, <1>8 DEF RunOK
<1> HIDE DEF x
<1> QED
  BY <1>2, <1>5, <1>6, <1>7, <1>9, StampStep

LEMMA BackStampStep ==
    ASSUME PkaInv, NEW r \in Runs, BackStamp(r)
    PROVE  PkaInv'
<1> DEFINE x == [IdleRun EXCEPT !.pc = "cursor", !.batch = run[r].batch]
<1>1. PICK owner \in OwnerChoices(links) :
         stamp' = [i \in Ids |->
                     IF i \in keyed /\ stamp[i] = Nobody /\ KeyOf[i] \in DOMAIN owner
                     THEN owner[KeyOf[i]] ELSE stamp[i]]
  BY DEF BackStamp
<1>2. Becomes(r, x) /\ UNCHANGED <<present, keyed, links, count, cursor, due>>
  BY DEF BackStamp, ReturnTo
<1>3. \A k \in DOMAIN owner : <<k, owner[k]>> \in links /\ owner[k] \in Accounts
  BY Facts, OwnerIsLinked
<1>4. stamp' \in [Ids -> Accounts \cup {Nobody}]
  BY <1>1, <1>3, Facts
<1>5. \A i \in Ids : stamp'[i] = stamp[i]
                     \/ (i \in keyed /\ <<KeyOf[i], stamp'[i]>> \in links)
  <2> TAKE i \in Ids
  <2>1. CASE i \in keyed /\ stamp[i] = Nobody /\ KeyOf[i] \in DOMAIN owner
    <3>1. stamp'[i] = owner[KeyOf[i]]
      BY <1>1, <2>1
    <3>2. i \in keyed /\ <<KeyOf[i], owner[KeyOf[i]]>> \in links
      BY <2>1, <1>3
    <3> QED
      BY <3>1, <3>2
  <2>2. CASE ~(i \in keyed /\ stamp[i] = Nobody /\ KeyOf[i] \in DOMAIN owner)
    BY <1>1, <2>2
  <2> QED
    BY <2>1, <2>2
<1>6. x \in RunType /\ RunOK(x, links, keyed)
  BY Returned, Facts DEF RunType
<1> HIDE DEF x
<1> QED
  BY <1>2, <1>4, <1>5, <1>6, StampStep

-------------------------------------------------------------------------------
(* Around the runs. *)

LEMMA EventCommitsStep ==
    ASSUME PkaInv, NEW i \in Ids, EventCommits(i)
    PROVE  PkaInv'
<1>1. keyed \subseteq keyed' /\ keyed' \subseteq Ids /\ present' \subseteq Ids
  BY DEF EventCommits, PkaInv, TypeOK
<1>2. UNCHANGED <<stamp, links, count, cursor, due, run>>
  BY DEF EventCommits
<1>3. TypeOK'
  BY <1>1, <1>2 DEF PkaInv, TypeOK
<1>4. StampsAreLinked'
  BY <1>1, <1>2 DEF PkaInv, StampsAreLinked
<1>5. \A r \in Runs : RunOK(run[r], links, keyed')
  BY <1>1 DEF PkaInv, RunOK
<1> QED
  BY <1>2, <1>3, <1>4, <1>5 DEF PkaInv

LEMMA NothingChanges ==
    ASSUME PkaInv, UNCHANGED <<present, keyed, stamp, links, count, cursor, run>>,
           due' \in BOOLEAN
    PROVE  PkaInv'
  BY DEF PkaInv, TypeOK, StampsAreLinked

LEMMA InitOK == Init => PkaInv
<1> SUFFICES ASSUME Init PROVE PkaInv
  OBVIOUS
<1>1. TypeOK
  BY IdleRunOK DEF Init, TypeOK
<1>2. StampsAreLinked
  BY DEF Init, StampsAreLinked
<1>3. \A r \in Runs : RunOK(run[r], links, keyed)
  BY IdleRunOK DEF Init
<1> QED
  BY <1>1, <1>2, <1>3 DEF PkaInv

LEMMA RunStepPreserves ==
    ASSUME PkaInv, NEW r \in Runs, RunStep(r)
    PROVE  PkaInv'
<1>1. EventsNeedingMpc(r) \in SUBSET EventsNeedingMpc(r)
  OBVIOUS
<1>2. Owned(BatchKeys(r)) \in SUBSET Pairs /\ Owned(run[r].orphans) \in SUBSET Pairs
  BY OwnedType
<1> QED
  BY <1>1, <1>2, ReadCursorStep, FetchBatchStep, DeriveMissingStep, PersistDerivedKeysStep,
     FetchAccountsStep, ReadExistingStep, InsertLinksStep, InsertAccountsStep,
     StampBatchStep, UpdateAccountsStep, SweepIfDueStep, FindOrphansStep,
     RetryLookupsStep, RetryInsertLinksStep, RetryReadAccountsStep,
     RetryInsertAccountsStep, SweepDoneStep, BackStampStep, AdvanceCursorStep
     DEF RunStep

LEMMA RunFaultPreserves ==
    ASSUME PkaInv, NEW r \in Runs, RunFault(r)
    PROVE  PkaInv'
<1>1. SUBSET Owned(BatchKeys(r)) \subseteq SUBSET Pairs
      /\ SUBSET Owned(run[r].orphans) \subseteq SUBSET Pairs
  BY OwnedType
<1> QED
  BY <1>1, DeriveMissingStep, PersistFailsStep, FetchAccountsStep, RetryLookupsStep,
     RunFailsStep
     DEF RunFault

LEMMA NextPreserves == PkaInv /\ [Next]_pkaVars => PkaInv'
<1> SUFFICES ASSUME PkaInv, [Next]_pkaVars PROVE PkaInv'
  OBVIOUS
<1>1. CASE \E r \in Runs : RunStep(r) \/ RunFault(r)
  BY <1>1, RunStepPreserves, RunFaultPreserves
<1>2. CASE \E i \in Ids : EventCommits(i)
  BY <1>2, EventCommitsStep
<1>3. CASE ThrottleElapses
  BY <1>3, NothingChanges DEF ThrottleElapses
<1>4. CASE UNCHANGED pkaVars
  BY <1>4, NothingChanges DEF pkaVars, PkaInv, TypeOK
<1> QED
  BY <1>1, <1>2, <1>3, <1>4 DEF Next

(* Whatever runs overlap and whatever fails between their statements, a    *)
(* run's view of links and keys stays true and stamps come from links:     *)
(* nothing deletes a link or a key.                                        *)
THEOREM LinkerInvariant == Spec => []PkaInv
<1> QED
  BY InitOK, NextPreserves, PTL DEF Spec

(* A sign event that carries an account carries one that the link table    *)
(* gives for the event's own key.                                          *)
THEOREM StampsComeFromLinks == Spec => []StampsAreLinked
<1>1. PkaInv => StampsAreLinked
  BY DEF PkaInv
<1> QED
  BY <1>1, LinkerInvariant, PTL

-------------------------------------------------------------------------------
(* One run at a time, as the scheduler's lock has it. *)
OneRunSlot == \A r, q \in Runs : r = q

(* The batch lies ahead of the cursor until the run moves it. *)
BatchIsAhead ==
    \A r \in Runs :
       /\ run[r].pc = "batch" => run[r].from = cursor
       /\ \A i \in run[r].batch : i > cursor
       /\ run[r].had \subseteq run[r].batch

LEMMA BecomesIs ==
    ASSUME PkaInv, NEW r \in Runs, NEW x, Becomes(r, x)
    PROVE  run'[r] = x
  BY DEF PkaInv, TypeOK, Becomes

(* The run has no batch any more, or the one it had. *)
KeepsBatch(r) ==
    /\ UNCHANGED cursor
    /\ run'[r].pc # "batch"
    /\ run'[r].batch = run[r].batch
    /\ run'[r].had \subseteq run[r].had

LEMMA BatchStepKinds ==
    ASSUME PkaInv, NEW r \in Runs, RunStep(r) \/ RunFault(r)
    PROVE  ReadCursor(r) \/ FetchBatch(r) \/ run'[r] = IdleRun \/ KeepsBatch(r)
<1>a. /\ run[r] \in RunType
      /\ \A x : Becomes(r, x) => run'[r] = x
  BY Facts DEF Becomes, PkaInv, TypeOK
<1>1. ASSUME NEW found, FetchAccounts(r, found) PROVE KeepsBatch(r)
  BY ZenonT(40), <1>1, <1>a DEF FetchAccounts, ReturnTo, KeepsBatch, RunType, IdleRun
<1>2. ASSUME NEW got, DeriveMissing(r, got) PROVE KeepsBatch(r)
  BY <1>2, <1>a DEF DeriveMissing, KeepsBatch, RunType
<1>3. ASSUME NEW found, RetryLookups(r, found) PROVE KeepsBatch(r)
  <2>1. PICK pc \in {"retryDone", "retryLink"} :
           Becomes(r, [run[r] EXCEPT !.pc = pc, !.pairs = found])
    BY <1>3 DEF RetryLookups
  <2> QED
    BY <1>3, <2>1, <1>a DEF RetryLookups, KeepsBatch, RunType
<1>4. ASSUME NEW what, ReadExisting(r, what) PROVE KeepsBatch(r)
  <2>1. PICK pc \in {"read", "link"} : \E u, l, o :
           Becomes(r, [run[r] EXCEPT !.pc = pc, !.unread = u, !.oldLinks = l, !.oldAccts = o])
    BY <1>4 DEF ReadExisting
  <2>2. run'[r].pc = pc /\ run'[r].batch = run[r].batch /\ run'[r].had = run[r].had
    BY <2>1, <1>a DEF RunType
  <2> QED
    BY <1>4, <2>2 DEF ReadExisting, KeepsBatch
<1>5. CASE FindOrphans(r)
  <2>1. PICK pc \in {"retryDone", "retry"} : \E reps :
           Becomes(r, [run[r] EXCEPT !.pc = pc, !.orphans = reps])
    BY <1>5 DEF FindOrphans
  <2>2. run'[r].pc = pc /\ run'[r].batch = run[r].batch /\ run'[r].had = run[r].had
    BY <2>1, <1>a DEF RunType
  <2> QED
    BY <1>5, <2>2 DEF FindOrphans, KeepsBatch
<1>6. CASE SweepIfDue(r) \/ SweepDone(r) \/ UpdateAccounts(r) \/ BackStamp(r)
  <2>1. PICK pc \in {"orphans", "backStamp", "throttle", "cursor"} : ReturnTo(r, pc)
    BY <1>6 DEF SweepIfDue, SweepDone, UpdateAccounts, BackStamp
  <2>2. UNCHANGED cursor
    BY <1>6 DEF SweepIfDue, SweepDone, UpdateAccounts, BackStamp
  <2> QED
    BY <2>1, <2>2, <1>a DEF ReturnTo, KeepsBatch, IdleRun
<1>7. CASE \/ PersistDerivedKeys(r) \/ InsertLinks(r) \/ InsertAccounts(r) \/ StampBatch(r)
           \/ RetryInsertLinks(r) \/ RetryReadAccounts(r) \/ RetryInsertAccounts(r)
  BY <1>7, <1>a
     DEF PersistDerivedKeys, InsertLinks, InsertAccounts, StampBatch, RetryInsertLinks,
         RetryReadAccounts, RetryInsertAccounts, KeepsBatch, RunType
<1>8. CASE AdvanceCursor(r) \/ RunFails(r)
  BY <1>8, <1>a DEF AdvanceCursor, RunFails
<1>9. ASSUME NEW done, PersistFails(r, done) PROVE run'[r] = IdleRun
  BY <1>9, <1>a DEF PersistFails
<1> QED
  BY <1>1, <1>2, <1>3, <1>4, <1>5, <1>6, <1>7, <1>8, <1>9 DEF RunStep, RunFault

LEMMA BatchStaysAhead ==
    ASSUME OneRunSlot, PkaInv, BatchIsAhead, [Next]_pkaVars
    PROVE  BatchIsAhead'
<1>1. ASSUME NEW r \in Runs, RunStep(r) \/ RunFault(r)
      PROVE  /\ run'[r].pc = "batch" => run'[r].from = cursor'
             /\ \A i \in run'[r].batch : i > cursor'
             /\ run'[r].had \subseteq run'[r].batch
  <2>1. CASE ReadCursor(r)
    BY <2>1, BecomesIs DEF ReadCursor, IdleRun
  <2>2. CASE FetchBatch(r)
    <3> DEFINE events == FirstOf({i \in present : i > run[r].from}, BatchSize)
    <3>1. run[r].pc = "batch" /\ UNCHANGED cursor
      BY <2>2 DEF FetchBatch
    <3>2. run'[r] = [IdleRun EXCEPT !.pc = "derive", !.batch = events,
                                    !.had = events \cap keyed]
      BY <2>2, BecomesIs DEF FetchBatch
    <3>3. \A i \in events : i > cursor
      BY <3>1 DEF FirstOf, BatchIsAhead
    <3> HIDE DEF events
    <3> QED
      BY <3>1, <3>2, <3>3 DEF IdleRun
  <2>3. CASE run'[r] = IdleRun
    BY <2>3 DEF IdleRun
  <2>4. CASE KeepsBatch(r)
    BY <2>4 DEF KeepsBatch, BatchIsAhead
  <2> QED
    BY <1>1, <2>1, <2>2, <2>3, <2>4, BatchStepKinds
<1>2. CASE \E r \in Runs : RunStep(r) \/ RunFault(r)
  BY <1>1, <1>2 DEF OneRunSlot, BatchIsAhead
<1>3. CASE UNCHANGED <<cursor, run>>
  BY <1>3 DEF BatchIsAhead
<1> QED
  BY <1>2, <1>3 DEF Next, EventCommits, ThrottleElapses, pkaVars

(* Only two statements stamp: one the batch, one what has no stamp. *)
LEMMA StampersSpareThePast ==
    ASSUME PkaInv, BatchIsAhead, [Next]_pkaVars, NEW i \in Ids, i <= cursor, stamp[i] # Nobody
    PROVE  stamp'[i] = stamp[i]
<1>1. ASSUME NEW r \in Runs, StampBatch(r) PROVE stamp'[i] = stamp[i]
  <2>1. i \notin run[r].had
    BY Facts, PkaAssumption DEF BatchIsAhead
  <2> QED
    BY <1>1, <2>1 DEF StampBatch
<1>2. ASSUME NEW r \in Runs, BackStamp(r) PROVE stamp'[i] = stamp[i]
  BY ZenonT(40), <1>2 DEF BackStamp
<1>3. ASSUME NEW r \in Runs, RunStep(r) \/ RunFault(r), ~StampBatch(r), ~BackStamp(r)
      PROVE  UNCHANGED stamp
  BY ZenonT(40), <1>3
     DEF RunStep, RunFault, ReadCursor, FetchBatch, DeriveMissing, PersistDerivedKeys,
     PersistFails, FetchAccounts, ReadExisting, InsertLinks, InsertAccounts, UpdateAccounts,
     SweepIfDue, FindOrphans, RetryLookups, RetryInsertLinks, RetryReadAccounts,
     RetryInsertAccounts, SweepDone, AdvanceCursor, RunFails
<1> QED
  BY <1>1, <1>2, <1>3 DEF Next, EventCommits, ThrottleElapses, pkaVars

(* With one run at a time the stamps below the cursor are final: the batch *)
(* that a run stamps is still ahead of the cursor, and the back-stamp only *)
(* takes what has no stamp (persistLinksAndAccounts,                       *)
(* backStampHistoricalOrphans).                                            *)
THEOREM SettledStampsStand == OneRunSlot => (Spec => StampsStand)
<1> SUFFICES ASSUME OneRunSlot PROVE Spec => StampsStand
  OBVIOUS
<1>1. Init => BatchIsAhead
  BY DEF Init, BatchIsAhead, IdleRun
<1>2. PkaInv /\ BatchIsAhead /\ [Next]_pkaVars => BatchIsAhead'
  BY BatchStaysAhead
<1>3. PkaInv /\ BatchIsAhead /\ [Next]_pkaVars
         => [\A i \in Ids : i <= cursor /\ stamp[i] # Nobody => stamp'[i] = stamp[i]]_pkaVars
  BY StampersSpareThePast
<1> QED
  BY <1>1, <1>2, <1>3, LinkerInvariant, PTL DEF Spec, StampsStand

-------------------------------------------------------------------------------
(* The counts. LinksOf(a, L) are the links to a, NewOf(x, a) those a run     *)
(* with the local variables x takes to be new.                               *)
LinksOf(a, L) == {p \in L : p[2] = a}
NewOf(x, a) == {p \in x.pairs \ x.oldLinks : p[2] = a}

(* What a run on its way to counting knows, with one run at a time: which    *)
(* of its pairs are linked; then, that adding its new links to the counts it *)
(* is going to raise does not take them past the links there are; and, in    *)
(* the sweep, that its pairs are linked.                                     *)
TallyOK(x, L, c) ==
    /\ \/ x.pc = "link"
       \/ x.pc = "read" /\ "links" \notin x.unread
       => x.oldLinks = L \cap x.pairs
    /\ x.pc \in {"account", "stamp", "count"} =>
          \A a \in x.oldAccts : c[a] + Cardinality(NewOf(x, a)) <= Cardinality(LinksOf(a, L))
    /\ x.pc \in {"retryRead", "retryAccount"} => x.pairs \subseteq L

CountInv == NoKeyCountedTwice /\ \A r \in Runs : TallyOK(run[r], links, count)

Tallying == {"read", "link", "account", "stamp", "count", "retryRead", "retryAccount"}

LEMMA OthersHaveNoTally ==
    ASSUME NEW x, x.pc \notin Tallying, NEW L, NEW c
    PROVE  TallyOK(x, L, c)
  BY DEF TallyOK, Tallying

(* Links of one account are finite, and more links count for more. *)
LEMMA LinksCount ==
    ASSUME NEW a \in Accounts, NEW L \in SUBSET Pairs, NEW S \in SUBSET L
    PROVE  /\ IsFiniteSet(LinksOf(a, L)) /\ Cardinality(LinksOf(a, L)) \in Nat
           /\ Cardinality(LinksOf(a, S)) <= Cardinality(LinksOf(a, L))
<1>1. IsFiniteSet(Pairs)
  BY PkaAssumption, FS_Product DEF Pairs
<1>2. LinksOf(a, L) \subseteq Pairs /\ LinksOf(a, S) \subseteq LinksOf(a, L)
  BY DEF LinksOf
<1>3. IsFiniteSet(LinksOf(a, L))
  BY <1>1, <1>2, FS_Subset
<1> QED
  BY <1>2, <1>3, FS_Subset, FS_CardinalityType

(* Links that were not there add up with those that were. *)
LEMMA NewLinksAdd ==
    ASSUME NEW a \in Accounts, NEW L \in SUBSET Pairs, NEW S \in SUBSET Pairs
    PROVE  Cardinality(LinksOf(a, L \cup S)) =
              Cardinality(LinksOf(a, L)) + Cardinality(LinksOf(a, S \ L))
<1>1. /\ IsFiniteSet(LinksOf(a, L)) /\ IsFiniteSet(LinksOf(a, S \ L))
      /\ Cardinality(LinksOf(a, L)) \in Nat /\ Cardinality(LinksOf(a, S \ L)) \in Nat
  BY LinksCount
<1>2. /\ LinksOf(a, L \cup S) = LinksOf(a, L) \cup LinksOf(a, S \ L)
      /\ LinksOf(a, L) \cap LinksOf(a, S \ L) = {}
  BY DEF LinksOf
<1>3. Cardinality(LinksOf(a, L) \cup LinksOf(a, S \ L)) =
         Cardinality(LinksOf(a, L)) + Cardinality(LinksOf(a, S \ L))
            - Cardinality(LinksOf(a, L) \cap LinksOf(a, S \ L))
  BY <1>1, FS_Union
<1>4. Cardinality(LinksOf(a, L) \cap LinksOf(a, S \ L)) = 0
  BY <1>2, FS_EmptySet
<1>5. Cardinality(LinksOf(a, L \cup S)) = Cardinality(LinksOf(a, L) \cup LinksOf(a, S \ L))
  BY <1>2, Zenon
<1> DEFINE n == Cardinality(LinksOf(a, L))  m == Cardinality(LinksOf(a, S \ L))
           o == Cardinality(LinksOf(a, L) \cap LinksOf(a, S \ L))
<1>6. n \in Nat /\ m \in Nat /\ o = 0
  BY <1>1, <1>4
<1>7. Cardinality(LinksOf(a, L) \cup LinksOf(a, S \ L)) = n + m - o
  BY <1>3
<1> HIDE DEF n, m, o
<1>8. Cardinality(LinksOf(a, L) \cup LinksOf(a, S \ L)) = n + m
  BY <1>6, <1>7
<1> QED
  BY <1>5, <1>8 DEF n, m

(* What a step of run r has to keep. *)
Tallied(r) == NoKeyCountedTwice' /\ TallyOK(run'[r], links', count')

LEMMA CountFacts ==
    ASSUME PkaInv, CountInv, NEW r \in Runs
    PROVE  /\ run[r] \in RunType
           /\ \A x : Becomes(r, x) => run'[r] = x
           /\ links \in SUBSET Pairs /\ count \in CountType
           /\ RunOK(run[r], links, keyed) /\ TallyOK(run[r], links, count)
           /\ \A a \in Accounts : count[a] <= Cardinality(LinksOf(a, links))
  BY Facts DEF Becomes, PkaInv, TypeOK, CountInv, NoKeyCountedTwice, LinksOf

(* Most steps write neither links nor counts, and leave no tally to keep. *)
Untallied(r) == UNCHANGED <<links, count>> /\ run'[r].pc \notin Tallying

LEMMA UntalliedKeeps ==
    ASSUME CountInv, NEW r \in Runs, Untallied(r) PROVE Tallied(r)
  BY OthersHaveNoTally DEF Untallied, Tallied, CountInv, NoKeyCountedTwice

Counting(r) ==
    \/ \E what \in {"links", "accounts"} : ReadExisting(r, what)
    \/ InsertLinks(r) \/ InsertAccounts(r) \/ StampBatch(r) \/ UpdateAccounts(r)
    \/ RetryInsertLinks(r) \/ RetryReadAccounts(r) \/ RetryInsertAccounts(r)

LEMMA FetchAccountsTallied ==
    ASSUME PkaInv, CountInv, NEW r \in Runs, NEW found, FetchAccounts(r, found)
    PROVE  Tallied(r)
<1>1. UNCHANGED <<links, count>>
  BY DEF FetchAccounts
<1>2. CASE found = {}
  BY ZenonT(40), <1>1, <1>2, CountFacts, UntalliedKeeps
     DEF FetchAccounts, ReturnTo, IdleRun, Untallied, Tallying
<1>3. CASE found # {}
  <2>1. run'[r] = [run[r] EXCEPT !.pc = "read", !.derived = {}, !.pairs = found,
                                 !.unread = {"links", "accounts"}]
    BY <1>3, CountFacts DEF FetchAccounts
  <2>2. run'[r].pc = "read" /\ run'[r].unread = {"links", "accounts"}
    BY <2>1, CountFacts DEF RunType
  <2> QED
    BY <1>1, <2>2 DEF Tallied, TallyOK, CountInv, NoKeyCountedTwice
<1> QED
  BY <1>2, <1>3

LEMMA CountingOrUntallied ==
    ASSUME PkaInv, CountInv, NEW r \in Runs, RunStep(r) \/ RunFault(r)
    PROVE  Counting(r) \/ Untallied(r) \/ Tallied(r)
<1>a. run[r] \in RunType /\ \A x : Becomes(r, x) => run'[r] = x
  BY CountFacts
<1>1. ASSUME NEW found, FetchAccounts(r, found) PROVE Tallied(r)
  BY <1>1, FetchAccountsTallied
<1>2. ASSUME NEW got, DeriveMissing(r, got) PROVE Untallied(r)
  BY <1>2, <1>a DEF DeriveMissing, Untallied, Tallying, RunType
<1>3. ASSUME NEW found, RetryLookups(r, found) PROVE Untallied(r)
  <2>1. PICK pc \in {"retryDone", "retryLink"} :
           Becomes(r, [run[r] EXCEPT !.pc = pc, !.pairs = found])
    BY <1>3 DEF RetryLookups
  <2> QED
    BY <1>3, <2>1, <1>a DEF RetryLookups, Untallied, Tallying, RunType
<1>4. CASE FindOrphans(r)
  <2>1. PICK pc \in {"retryDone", "retry"} : \E reps :
           Becomes(r, [run[r] EXCEPT !.pc = pc, !.orphans = reps])
    BY <1>4 DEF FindOrphans
  <2>2. run'[r].pc = pc
    BY <2>1, <1>a DEF RunType
  <2> QED
    BY <1>4, <2>2 DEF FindOrphans, Untallied, Tallying
<1>5. CASE SweepIfDue(r) \/ SweepDone(r) \/ BackStamp(r)
  <2>1. PICK pc \in {"orphans", "backStamp", "cursor"} : ReturnTo(r, pc)
    BY <1>5 DEF SweepIfDue, SweepDone, BackStamp
  <2>2. UNCHANGED <<links, count>>
    BY <1>5 DEF SweepIfDue, SweepDone, BackStamp
  <2> QED
    BY <2>1, <2>2, <1>a DEF ReturnTo, Untallied, Tallying, IdleRun
<1>6. CASE PersistDerivedKeys(r)
  BY <1>6, <1>a DEF PersistDerivedKeys, Untallied, Tallying, RunType
<1>7. CASE ReadCursor(r)
  BY <1>7, <1>a DEF ReadCursor, Untallied, Tallying, IdleRun
<1>10. CASE AdvanceCursor(r) \/ RunFails(r)
  <2>1. run'[r] = IdleRun /\ UNCHANGED <<links, count>>
    BY <1>10, <1>a DEF AdvanceCursor, RunFails
  <2> QED
    BY <2>1 DEF Untallied, Tallying, IdleRun
<1>8. ASSUME NEW done, PersistFails(r, done) PROVE Untallied(r)
  BY <1>8, <1>a DEF PersistFails, Untallied, Tallying, IdleRun
<1>9. CASE FetchBatch(r)
  BY ZenonT(40), <1>9, <1>a DEF FetchBatch, Untallied, Tallying, IdleRun
<1> QED
  BY <1>1, <1>2, <1>3, <1>4, <1>5, <1>6, <1>7, <1>8, <1>9, <1>10
     DEF RunStep, RunFault, Counting

LEMMA ReadExistingTallied ==
    ASSUME PkaInv, CountInv, NEW r \in Runs, NEW what \in {"links", "accounts"},
           ReadExisting(r, what)
    PROVE  Tallied(r)
<1>1. /\ run[r].pc = "read" /\ what \in run[r].unread /\ UNCHANGED <<links, count>>
      /\ run[r].unread \subseteq {"links", "accounts"}
      /\ TallyOK(run[r], links, count)
  BY CountFacts DEF ReadExisting, RunType
<1>2. /\ run'[r].pc = (IF run[r].unread = {what} THEN "link" ELSE "read")
      /\ run'[r].unread = run[r].unread \ {what}
      /\ run'[r].pairs = run[r].pairs
      /\ run'[r].oldLinks = (IF what = "links" THEN links \cap run[r].pairs
                                              ELSE run[r].oldLinks)
  <2> DEFINE p == IF run[r].unread = {what} THEN "link" ELSE "read"
             u == run[r].unread \ {what}
             l == IF what = "links" THEN links \cap run[r].pairs ELSE run[r].oldLinks
             o == IF what = "accounts" THEN Existing(run[r].pairs) ELSE run[r].oldAccts
  <2>1. Becomes(r, [run[r] EXCEPT !.pc = p, !.unread = u, !.oldLinks = l, !.oldAccts = o])
    BY DEF ReadExisting
  <2>2. run[r] \in RunType /\ \A x : Becomes(r, x) => run'[r] = x
    BY CountFacts
  <2> HIDE DEF p, u, l, o
  <2>3. /\ run'[r].pc = p /\ run'[r].unread = u
        /\ run'[r].pairs = run[r].pairs /\ run'[r].oldLinks = l
    BY <2>1, <2>2 DEF RunType
  <2> QED
    BY <2>3 DEF p, u, l
<1>3. "links" \notin run'[r].unread => run'[r].oldLinks = links \cap run[r].pairs
  BY <1>1, <1>2 DEF TallyOK
<1>4. run'[r].pc \in {"link", "read"} /\ (run'[r].pc = "link" => "links" \notin run'[r].unread)
  BY <1>2
<1> QED
  BY <1>1, <1>2, <1>3, <1>4 DEF Tallied, TallyOK, CountInv, NoKeyCountedTwice

LEMMA InsertLinksTallied ==
    ASSUME PkaInv, CountInv, NEW r \in Runs, InsertLinks(r)
    PROVE  Tallied(r)
<1> DEFINE x == run[r]
<1>1. /\ links \in SUBSET Pairs /\ x.pairs \in SUBSET Pairs /\ x.oldAccts \subseteq Accounts
      /\ count \in CountType
      /\ x.oldLinks = links \cap x.pairs
      /\ \A a \in Accounts : count[a] <= Cardinality(LinksOf(a, links))
  BY CountFacts DEF InsertLinks, TallyOK, RunType
<1>2. /\ run'[r].pc = "account" /\ run'[r].pairs = x.pairs
      /\ run'[r].oldLinks = x.oldLinks /\ run'[r].oldAccts = x.oldAccts
      /\ count' = count /\ links' = links \cup NewLinks(r)
  BY CountFacts DEF InsertLinks, RunType
<1>3. NewLinks(r) = x.pairs \ links /\ links' = links \cup x.pairs
  BY <1>1, <1>2 DEF NewLinks
<1>4. ASSUME NEW a \in Accounts
      PROVE  /\ count'[a] <= Cardinality(LinksOf(a, links'))
             /\ count'[a] + Cardinality(NewOf(run'[r], a)) <= Cardinality(LinksOf(a, links'))
  <2>1. NewOf(run'[r], a) = LinksOf(a, x.pairs \ links)
    BY <1>1, <1>2 DEF NewOf, LinksOf
  <2>2. Cardinality(LinksOf(a, links')) =
           Cardinality(LinksOf(a, links)) + Cardinality(LinksOf(a, x.pairs \ links))
    BY <1>1, <1>3, NewLinksAdd
  <2>3. Cardinality(LinksOf(a, links)) \in Nat /\ Cardinality(LinksOf(a, x.pairs \ links)) \in Nat
    BY <1>1, LinksCount
  <2>4. count'[a] \in Nat \cup {NoRow} /\ count'[a] <= Cardinality(LinksOf(a, links))
    BY <1>1, <1>2 DEF CountType
  <2> QED
    BY <2>1, <2>2, <2>3, <2>4 DEF NoRow
<1> HIDE DEF x
<1> QED
  BY <1>1, <1>2, <1>4 DEF Tallied, TallyOK, NoKeyCountedTwice, LinksOf

(* A run's new links to an account are among the links of it. *)
LEMMA NewAreLinked ==
    ASSUME PkaInv, CountInv, NEW r \in Runs, run[r].pc \in {"account", "stamp", "count"},
           NEW a \in Accounts
    PROVE  /\ NewLinkCount(r, a) = Cardinality(NewOf(run[r], a))
           /\ NewLinkCount(r, a) \in Nat
           /\ NewLinkCount(r, a) <= Cardinality(LinksOf(a, links))
<1>1. run[r].pairs \ run[r].oldLinks \in SUBSET links /\ links \in SUBSET Pairs
  BY CountFacts DEF RunOK
<1>2. NewLinkCount(r, a) = Cardinality(LinksOf(a, run[r].pairs \ run[r].oldLinks))
  BY DEF NewLinkCount, NewLinks, LinksOf
<1>3. NewLinkCount(r, a) = Cardinality(NewOf(run[r], a))
  BY DEF NewLinkCount, NewLinks, NewOf
<1> QED
  BY <1>1, <1>2, <1>3, LinksCount, NewLinkCountType

LEMMA InsertAccountsTallied ==
    ASSUME PkaInv, CountInv, NEW r \in Runs, InsertAccounts(r)
    PROVE  Tallied(r)
<1>1. /\ run[r].pc = "account" /\ links' = links /\ run[r].oldAccts \subseteq Accounts
      /\ run'[r].pc = "stamp" /\ run'[r].pairs = run[r].pairs
      /\ run'[r].oldLinks = run[r].oldLinks /\ run'[r].oldAccts = run[r].oldAccts
      /\ TallyOK(run[r], links, count)
  BY CountFacts DEF InsertAccounts, RunType
<1>2. ASSUME NEW a \in Accounts
      PROVE  /\ count'[a] <= Cardinality(LinksOf(a, links))
             /\ a \in run[r].oldAccts => count'[a] = count[a]
  <2>1. count'[a] = count[a] \/ (count'[a] = NewLinkCount(r, a) /\ a \notin run[r].oldAccts)
    BY DEF InsertAccounts
  <2>2. NewLinkCount(r, a) <= Cardinality(LinksOf(a, links))
        /\ count[a] <= Cardinality(LinksOf(a, links))
    BY <1>1, NewAreLinked, CountFacts
  <2> QED
    BY <2>1, <2>2
<1>3. \A a \in run[r].oldAccts :
         count'[a] + Cardinality(NewOf(run'[r], a)) <= Cardinality(LinksOf(a, links))
  BY <1>1, <1>2 DEF TallyOK, NewOf
<1> QED
  BY <1>1, <1>2, <1>3 DEF Tallied, TallyOK, NoKeyCountedTwice, LinksOf

LEMMA StampBatchTallied ==
    ASSUME PkaInv, CountInv, NEW r \in Runs, StampBatch(r)
    PROVE  Tallied(r)
<1>1. /\ run[r].pc = "stamp" /\ links' = links /\ count' = count
      /\ run'[r].pc = "count" /\ run'[r].pairs = run[r].pairs
      /\ run'[r].oldLinks = run[r].oldLinks /\ run'[r].oldAccts = run[r].oldAccts
      /\ TallyOK(run[r], links, count)
  BY CountFacts DEF StampBatch, RunType
<1> QED
  BY <1>1 DEF Tallied, TallyOK, NewOf, CountInv, NoKeyCountedTwice

LEMMA UpdateAccountsTallied ==
    ASSUME PkaInv, CountInv, NEW r \in Runs, UpdateAccounts(r)
    PROVE  Tallied(r)
<1>1. /\ run[r].pc = "count" /\ links' = links
      /\ TallyOK(run[r], links, count)
      /\ run'[r].pc = "throttle"
  BY CountFacts DEF UpdateAccounts, ReturnTo, IdleRun
<1>2. ASSUME NEW a \in Accounts
      PROVE  count'[a] <= Cardinality(LinksOf(a, links))
  <2>1. CASE a \in run[r].oldAccts /\ count[a] # NoRow
    <3>1. count'[a] = count[a] + NewLinkCount(r, a)
      BY <2>1 DEF UpdateAccounts
    <3>2. count[a] + Cardinality(NewOf(run[r], a)) <= Cardinality(LinksOf(a, links))
      BY <1>1, <2>1 DEF TallyOK
    <3>3. NewLinkCount(r, a) = Cardinality(NewOf(run[r], a))
      BY <1>1, NewAreLinked
    <3> QED
      BY <3>1, <3>2, <3>3
  <2>2. CASE ~(a \in run[r].oldAccts /\ count[a] # NoRow)
    BY <2>2, CountFacts DEF UpdateAccounts
  <2> QED
    BY <2>1, <2>2
<1> QED
  BY <1>1, <1>2, OthersHaveNoTally DEF Tallied, NoKeyCountedTwice, LinksOf, Tallying

LEMMA RetryTallied ==
    ASSUME PkaInv, CountInv, NEW r \in Runs,
           RetryInsertLinks(r) \/ RetryReadAccounts(r) \/ RetryInsertAccounts(r)
    PROVE  Tallied(r)
<1>1. CASE RetryInsertLinks(r)
  <2>1. /\ run'[r].pc = "retryRead" /\ run'[r].pairs = run[r].pairs
        /\ links' = links \cup run[r].pairs /\ count' = count
    BY <1>1, CountFacts DEF RetryInsertLinks, RunType
  <2>2. links' \in SUBSET Pairs /\ links \in SUBSET links'
    BY <2>1, CountFacts DEF RunType
  <2>3. ASSUME NEW a \in Accounts PROVE count'[a] <= Cardinality(LinksOf(a, links'))
    <3>1. /\ Cardinality(LinksOf(a, links)) <= Cardinality(LinksOf(a, links'))
          /\ Cardinality(LinksOf(a, links)) \in Nat /\ Cardinality(LinksOf(a, links')) \in Nat
      BY <2>2, LinksCount, CountFacts
    <3>2. count'[a] \in Nat \cup {NoRow} /\ count'[a] <= Cardinality(LinksOf(a, links))
      BY <2>1, CountFacts DEF CountType
    <3> QED
      BY <3>1, <3>2 DEF NoRow
  <2> QED
    BY <2>1, <2>3 DEF Tallied, TallyOK, NoKeyCountedTwice, LinksOf
<1>2. CASE RetryReadAccounts(r)
  <2>1. /\ run[r].pc = "retryRead" /\ run'[r].pc = "retryAccount"
        /\ run'[r].pairs = run[r].pairs /\ UNCHANGED <<links, count>>
        /\ TallyOK(run[r], links, count)
    <3>1. \E o : Becomes(r, [run[r] EXCEPT !.pc = "retryAccount", !.oldAccts = o])
      BY <1>2 DEF RetryReadAccounts
    <3>2. /\ run[r] \in RunType /\ TallyOK(run[r], links, count)
          /\ \A x : Becomes(r, x) => run'[r] = x
      BY CountFacts
    <3>3. run'[r].pc = "retryAccount" /\ run'[r].pairs = run[r].pairs
      BY <3>1, <3>2 DEF RunType
    <3> QED
      BY <1>2, <3>2, <3>3 DEF RetryReadAccounts
  <2> QED
    BY <2>1 DEF Tallied, TallyOK, CountInv, NoKeyCountedTwice
<1>3. CASE RetryInsertAccounts(r)
  <2>1. /\ run[r].pc = "retryAccount" /\ run'[r].pc = "retryDone" /\ links' = links
        /\ run[r].pairs \subseteq links /\ links \in SUBSET Pairs
    BY <1>3, CountFacts DEF RetryInsertAccounts, RunType, TallyOK
  <2>2. ASSUME NEW a \in Accounts PROVE count'[a] <= Cardinality(LinksOf(a, links))
    <3>1. CASE a \in AccountsOf(run[r].pairs)
      <4>1. LinksOf(a, links) # {}
        BY <2>1, <3>1 DEF AccountsOf, LinksOf
      <4>2. Cardinality(LinksOf(a, links)) \in Nat /\ Cardinality(LinksOf(a, links)) # 0
        BY <4>1, <2>1, LinksCount, FS_EmptySet
      <4> QED
        BY <1>3, <4>2, CountFacts DEF RetryInsertAccounts
    <3>2. CASE a \notin AccountsOf(run[r].pairs)
      BY <1>3, <3>2, CountFacts DEF RetryInsertAccounts
    <3> QED
      BY <3>1, <3>2
  <2> QED
    BY <2>1, <2>2, OthersHaveNoTally DEF Tallied, NoKeyCountedTwice, LinksOf, Tallying
<1> QED
  BY <1>1, <1>2, <1>3

LEMMA CountsStayRight ==
    ASSUME OneRunSlot, PkaInv, CountInv, [Next]_pkaVars
    PROVE  CountInv'
<1>1. ASSUME NEW r \in Runs, RunStep(r) \/ RunFault(r)
      PROVE  Tallied(r)
  BY <1>1, CountingOrUntallied, UntalliedKeeps, ReadExistingTallied, InsertLinksTallied,
     InsertAccountsTallied, StampBatchTallied, UpdateAccountsTallied, RetryTallied
     DEF Counting
<1>2. CASE \E r \in Runs : RunStep(r) \/ RunFault(r)
  BY <1>1, <1>2 DEF OneRunSlot, Tallied, CountInv
<1>3. CASE UNCHANGED <<links, count, run>>
  BY <1>3 DEF CountInv, NoKeyCountedTwice
<1> QED
  BY <1>2, <1>3 DEF Next, EventCommits, ThrottleElapses, pkaVars

LEMMA InitCounts == Init => CountInv
<1> SUFFICES ASSUME Init PROVE CountInv
  OBVIOUS
<1>1. ASSUME NEW a \in Accounts PROVE count[a] <= Cardinality(LinksOf(a, links))
  <2>1. LinksOf(a, links) = {} /\ count[a] = NoRow
    BY DEF Init, LinksOf
  <2> QED
    BY <2>1, FS_EmptySet DEF NoRow
<1>2. \A r \in Runs : run[r].pc \notin Tallying
  BY DEF Init, IdleRun, Tallying
<1> QED
  BY <1>1, <1>2, OthersHaveNoTally DEF CountInv, NoKeyCountedTwice, LinksOf

(* With one run at a time, no account is credited with more keys than are    *)
(* linked to it, wherever earlier runs were cut off between the inserts and  *)
(* the updates of persistLinksAndAccounts or of maybeRunOrphanRetry.         *)
THEOREM CountsAreBacked == OneRunSlot => (Spec => []NoKeyCountedTwice)
<1> SUFFICES ASSUME OneRunSlot PROVE Spec => []NoKeyCountedTwice
  OBVIOUS
<1>1. PkaInv /\ CountInv /\ [Next]_pkaVars => CountInv'
  BY CountsStayRight
<1>2. CountInv => NoKeyCountedTwice
  BY DEF CountInv
<1> QED
  BY <1>1, <1>2, InitCounts, LinkerInvariant, PTL DEF Spec

-------------------------------------------------------------------------------
(* HttpPool. *)

(* What a failed attempt can be charged to. *)
Unhealthy == Names \ healthy
Counts == Unhealthy \X (1 .. MaxFailures)

PoolTypeOK ==
    /\ healthy \in SUBSET Names
    /\ failures \in [Names -> 0 .. MaxFailures]
    /\ blacklisted \in SUBSET Names
    /\ outlasts \in [Names -> SUBSET Getters]
    /\ get \in [Getters -> [attempt : 0 .. MaxAttempts, asks : Names \union {NoEndpoint},
                            result : {"none", "answer", "error"}]]
    /\ \A g \in Getters : get[g].asks # NoEndpoint => get[g].attempt > 0

(* A healthy endpoint is never blacklisted, and one that has failed            *)
(* MaxFailures times always is.                                               *)
Listing ==
    /\ healthy \cap blacklisted = {}
    /\ \A e \in Names \ blacklisted : failures[e] < MaxFailures

(* The attempts that have failed. *)
Attempts(r) == IF r.asks = NoEndpoint THEN r.attempt ELSE r.attempt - 1

(* P charges the failed attempts of g: each to a count that an endpoint has   *)
(* reached and keeps while g is in flight. When the endpoint g asks has been  *)
(* blacklisted meanwhile, by another get, one of its counts is left to charge *)
(* for g's own failure.                                                       *)
Charges(g, P) ==
    /\ Cardinality(P) = Attempts(get[g])
    /\ \A e \in Unhealthy, k \in 1 .. MaxFailures :
          <<e, k>> \in P => k <= failures[e] /\ g \in outlasts[e]
    /\ get[g].asks \in Unhealthy \cap blacklisted =>
          \E k \in 1 .. MaxFailures : k <= failures[get[g].asks] /\ <<get[g].asks, k>> \notin P

FailuresAreCharged == \A g \in Getters : \E P \in SUBSET Counts : Charges(g, P)

Reached == PoolTypeOK /\ Listing /\ FailuresAreCharged /\ HealthyIsReached

(* The attempts of a get outlast the failures that blacklist every endpoint   *)
(* but one.                                                                   *)
BlacklistsInTime == (Len(Endpoints) - 1) * MaxFailures < MaxAttempts

LEMMA PoolConstants ==
  /\ MaxAttempts \in Nat \ {0} /\ MaxFailures \in Nat \ {0}
  /\ Len(Endpoints) \in Nat \ {0} /\ DOMAIN Endpoints = 1 .. Len(Endpoints)
  /\ \A i \in DOMAIN Endpoints : Endpoints[i] \in Names
  /\ \A e \in Names : \E i \in DOMAIN Endpoints : Endpoints[i] = e
  /\ Head(Endpoints) \in Names
<1>1. Endpoints \in Seq(Names) /\ Len(Endpoints) > 0 /\ MaxFailures \in Nat \ {0}
  BY PoolAssumption
<1>2. Len(Endpoints) \in Nat \ {0} /\ DOMAIN Endpoints = 1 .. Len(Endpoints)
  BY <1>1
<1>3. MaxAttempts \in Nat \ {0}
  BY <1>2 DEF MaxAttempts
<1>4. Head(Endpoints) \in Names
  BY <1>1, <1>2
<1>5. \A e \in Names : \E i \in DOMAIN Endpoints : Endpoints[i] = e
  BY DEF Names, Range
<1>6. \A i \in DOMAIN Endpoints : Endpoints[i] \in Names
  BY DEF Names, Range
<1> QED BY <1>1, <1>2, <1>3, <1>4, <1>5, <1>6

LEMMA NamesAreFew == IsFiniteSet(Names) /\ Cardinality(Names) \in Nat /\ Cardinality(Names) <= Len(Endpoints)
<1>1. IsFiniteSet(1 .. Len(Endpoints)) /\ Cardinality(1 .. Len(Endpoints)) = Len(Endpoints)
  BY PoolConstants, FS_Interval
<1>2. Endpoints \in Surjection(1 .. Len(Endpoints), Names)
  <2>1. Endpoints \in [1 .. Len(Endpoints) -> Names]
    BY PoolAssumption, PoolConstants
  <2> QED BY <2>1, PoolConstants DEF Surjection
<1>3. IsFiniteSet(Names) /\ Cardinality(Names) <= Cardinality(1 .. Len(Endpoints))
  BY <1>1, <1>2, FS_Surjection
<1> QED BY <1>1, <1>3, FS_CardinalityType

LEMMA ProductGrows == \A m \in Nat : \A a, b \in Nat : a <= b => a * m <= b * m
  OBVIOUS

(* There are fewer counts to charge than a get has attempts. *)
LEMMA TooFewToGiveUp ==
  ASSUME BlacklistsInTime, PoolTypeOK, healthy # {}, NEW P \in SUBSET Counts
  PROVE  IsFiniteSet(P) /\ Cardinality(P) \in Nat /\ Cardinality(P) < MaxAttempts
<1>1. PICK h \in healthy : h \in Names
  BY DEF PoolTypeOK
<1>2. IsFiniteSet(Unhealthy) /\ Cardinality(Unhealthy) \in Nat /\ Cardinality(Unhealthy) <= Cardinality(Names) - 1
  <2>1. IsFiniteSet(Names \ {h}) /\ Cardinality(Names \ {h}) = Cardinality(Names) - 1
    BY <1>1, NamesAreFew, FS_RemoveElement
  <2>2. Unhealthy \in SUBSET (Names \ {h})
    BY <1>1 DEF Unhealthy
  <2>3. IsFiniteSet(Unhealthy) /\ Cardinality(Unhealthy) <= Cardinality(Names \ {h})
    BY <2>1, <2>2, FS_Subset
  <2> QED BY <2>1, <2>3, FS_CardinalityType
<1>3. IsFiniteSet(1 .. MaxFailures) /\ Cardinality(1 .. MaxFailures) = MaxFailures
  <2>1. MaxFailures \in Int /\ ~(1 > MaxFailures) /\ MaxFailures - 1 + 1 = MaxFailures
    BY PoolConstants
  <2> QED BY <2>1, FS_Interval
<1>4. IsFiniteSet(Counts) /\ Cardinality(Counts) = Cardinality(Unhealthy) * MaxFailures
  BY <1>2, <1>3, FS_Product DEF Counts
<1>5. IsFiniteSet(P) /\ Cardinality(P) <= Cardinality(Counts)
  BY <1>4, FS_Subset
<1>6. Cardinality(P) \in Nat
  BY <1>5, FS_CardinalityType
<1> DEFINE b == Cardinality(Unhealthy)  n == Len(Endpoints) - 1
<1>7. b \in Nat /\ n \in Nat /\ b <= n
  BY <1>2, NamesAreFew, PoolConstants
<1> HIDE DEF b, n
<1>8. b * MaxFailures <= n * MaxFailures
  BY <1>7, PoolConstants, ProductGrows
<1>9. b * MaxFailures < MaxAttempts
  <2>1. b * MaxFailures \in Int /\ n * MaxFailures \in Int /\ MaxAttempts \in Int
    BY <1>7, PoolConstants
  <2>2. n * MaxFailures < MaxAttempts
    BY DEF BlacklistsInTime, n
  <2> QED BY <1>8, <2>1, <2>2
<1>10. Cardinality(P) <= b * MaxFailures
  BY <1>4, <1>5 DEF b
<1>11. b * MaxFailures \in Int
  BY <1>7, PoolConstants
<1> QED BY <1>5, <1>6, <1>9, <1>10, <1>11, PoolConstants
-------------------------------------------------------------------------------

LEMMA IdleGetType ==
  ASSUME NEW result \in {"none", "answer", "error"}
  PROVE  LET r == [IdleGet EXCEPT !.result = result]
         IN  /\ r \in [attempt : 0 .. MaxAttempts, asks : Names \union {NoEndpoint},
                       result : {"none", "answer", "error"}]
             /\ r.asks = NoEndpoint /\ r.attempt = 0 /\ r.result = result
  BY PoolConstants DEF IdleGet

LEMMA IdleIsCharged ==
  ASSUME NEW g \in Getters, get'[g].asks = NoEndpoint, get'[g].attempt = 0
  PROVE  \E P \in SUBSET Counts' : Charges(g, P)'
<1>1. {} \in SUBSET Counts'
  OBVIOUS
<1>2. Cardinality({}) = 0
  BY FS_EmptySet
<1>3. NoEndpoint \notin Names
  BY PoolAssumption
<1>4. Charges(g, {})'
  BY <1>2, <1>3 DEF Charges, Attempts, Unhealthy
<1> QED BY <1>1, <1>4

(* Nobody healthy is blacklisted, so something is always available. *)
LEMMA SomethingAvailable ==
  ASSUME PoolTypeOK, NEW h \in healthy, NEW listed, h \notin listed
  PROVE  Available(listed) # {}
<1>1. PICK i \in DOMAIN Endpoints : Endpoints[i] = h
  BY PoolConstants DEF PoolTypeOK
<1> QED BY <1>1 DEF Available

LEMMA InitIsReached == PoolInit => Reached
<1> SUFFICES ASSUME PoolInit PROVE Reached
  OBVIOUS
<1>1. IdleGet.attempt = 0 /\ IdleGet.asks = NoEndpoint /\ IdleGet.result = "none"
      /\ IdleGet \in [attempt : 0 .. MaxAttempts, asks : Names \union {NoEndpoint},
                      result : {"none", "answer", "error"}]
  BY PoolConstants DEF IdleGet
<1>2. PoolTypeOK
  BY <1>1, PoolConstants DEF PoolInit, PoolTypeOK
<1>3. Listing
  BY PoolConstants DEF PoolInit, Listing
<1>4. ASSUME NEW g \in Getters PROVE Charges(g, {})
  <2>1. get[g] = IdleGet /\ NoEndpoint \notin Names
    BY PoolAssumption DEF PoolInit
  <2> QED BY <1>1, <2>1, FS_EmptySet DEF Charges, Attempts, Unhealthy
<1>5. FailuresAreCharged
  BY <1>4 DEF FailuresAreCharged
<1>6. HealthyIsReached
  BY <1>1 DEF PoolInit, HealthyIsReached
<1> QED BY <1>2, <1>3, <1>5, <1>6 DEF Reached

(* A step of g that leaves the charges of the others as they are. *)
LEMMA OthersCharged ==
  ASSUME Reached, NEW g \in Getters, NEW h \in Getters, h # g,
         healthy' = healthy, get'[h] = get[h],
         \A e \in Unhealthy :
            /\ failures'[e] = failures[e]
            /\ (h \in outlasts[e] => h \in outlasts'[e])
            /\ (e \in blacklisted' => e \in blacklisted)
  PROVE  \E P \in SUBSET Counts' : Charges(h, P)'
<1>1. PICK P \in SUBSET Counts : Charges(h, P)
  BY DEF Reached, FailuresAreCharged
<1>2. Unhealthy' = Unhealthy /\ Counts' = Counts
  BY DEF Unhealthy, Counts
<1>3. Charges(h, P)'
  BY <1>1, <1>2 DEF Charges, Attempts
<1> QED BY <1>2, <1>3

LEMMA ExpireKeeps ==
  ASSUME Reached, NEW e \in Names, BlacklistExpires(e) PROVE Reached'
<1>1. PoolTypeOK'
  BY PoolConstants DEF Reached, PoolTypeOK, BlacklistExpires
<1>2. Listing'
  <2>1. \A x \in Names : failures'[x] = IF x = e THEN 0 ELSE failures[x]
    BY DEF Reached, PoolTypeOK, BlacklistExpires
  <2> QED BY <2>1, PoolConstants DEF Reached, Listing, PoolTypeOK, BlacklistExpires
<1>3. ASSUME NEW h \in Getters PROVE \E P \in SUBSET Counts' : Charges(h, P)'
  <2>1. PICK P \in SUBSET Counts : Charges(h, P)
    BY DEF Reached, FailuresAreCharged
  <2>2. Unhealthy' = Unhealthy /\ Counts' = Counts /\ get' = get /\ outlasts' = outlasts
    BY DEF Unhealthy, Counts, BlacklistExpires
  <2>3. \A x \in Unhealthy : x # e => failures'[x] = failures[x]
    BY DEF Reached, PoolTypeOK, BlacklistExpires, Unhealthy
  <2>4. \A k \in 1 .. MaxFailures : <<e, k>> \notin P
    BY <2>1 DEF Charges, BlacklistExpires, Counts
  <2>5. Cardinality(P) = Attempts(get[h])'
    BY <2>1, <2>2 DEF Charges, Attempts
  <2>6. \A x \in Unhealthy, k \in 1 .. MaxFailures :
           <<x, k>> \in P => k <= failures'[x] /\ h \in outlasts'[x]
    BY <2>1, <2>2, <2>3, <2>4 DEF Charges
  <2>7. get[h].asks \in Unhealthy \cap blacklisted' =>
          \E k \in 1 .. MaxFailures : k <= failures'[get[h].asks] /\ <<get[h].asks, k>> \notin P
    BY <2>1, <2>3 DEF Charges, BlacklistExpires
  <2> QED BY <2>2, <2>5, <2>6, <2>7 DEF Charges
<1>4. HealthyIsReached'
  BY DEF Reached, HealthyIsReached, BlacklistExpires
<1> QED BY <1>1, <1>2, <1>3, <1>4 DEF Reached, FailuresAreCharged

GetType == [attempt : 0 .. MaxAttempts, asks : Names \union {NoEndpoint},
            result : {"none", "answer", "error"}]

LEMMA AskKeeps ==
  ASSUME BlacklistsInTime, Reached, healthy # {}, NEW g \in Getters, Ask(g) PROVE Reached'
<1>0. PICK h0 \in healthy : h0 \notin blacklisted
  BY DEF Reached, Listing
<1>1. Available(blacklisted) # {}
  BY <1>0, SomethingAvailable DEF Reached
<1>2. /\ UNCHANGED <<failures, blacklisted, healthy, outlasts>>
      /\ get[g].asks = NoEndpoint /\ get[g].result = "none"
  BY <1>1 DEF Ask
<1>3. PICK i \in Available(blacklisted) :
         get' = [get EXCEPT ![g].asks = Endpoints[i], ![g].attempt = @ + 1]
  BY <1>1 DEF Ask
<1> DEFINE e == Endpoints[i]
<1>4. e \in Names /\ e \notin blacklisted
  BY <1>3, PoolConstants DEF Available
<1>5. get \in [Getters -> GetType]
  BY DEF Reached, PoolTypeOK, GetType
<1>6. PICK P \in SUBSET Counts : Charges(g, P)
  BY DEF Reached, FailuresAreCharged
<1>7. Cardinality(P) = get[g].attempt /\ Cardinality(P) < MaxAttempts
  BY <1>2, <1>6, TooFewToGiveUp DEF Charges, Attempts, Reached
<1>8. get[g].attempt + 1 \in 1 .. MaxAttempts
  BY <1>5, <1>7, PoolConstants DEF GetType
<1> DEFINE r == [get[g] EXCEPT !.asks = e, !.attempt = @ + 1]
<1>9. /\ r \in GetType /\ r.asks = e /\ r.attempt = get[g].attempt + 1 /\ r.attempt > 0
      /\ r.result = "none"
  <2>1. get[g] \in GetType
    BY <1>5
  <2> DEFINE o == get[g]
  <2> HIDE DEF e, o
  <2>2. r = [o EXCEPT !.asks = e, !.attempt = @ + 1]
    BY DEF o
  <2>3. o \in GetType /\ o.result = "none" /\ o.attempt + 1 \in 1 .. MaxAttempts
    BY <2>1, <1>2, <1>8 DEF o
  <2> HIDE DEF r
  <2>4. r.asks = e /\ r.attempt = o.attempt + 1 /\ r.result = "none"
    BY <2>2, <2>3 DEF GetType
  <2>5. r \in GetType
    <3>1. r = [attempt |-> o.attempt + 1, asks |-> e, result |-> o.result]
      BY <2>2, <2>3 DEF GetType
    <3>2. o.attempt + 1 \in 0 .. MaxAttempts /\ o.result \in {"none", "answer", "error"}
      BY <2>3, PoolConstants DEF GetType
    <3> QED BY <3>1, <3>2, <1>4, Zenon DEF GetType
  <2>6. o.attempt + 1 > 0
    BY <2>3
  <2> QED BY <2>4, <2>5, <2>6 DEF o
<1>10. get' = [get EXCEPT ![g] = r]
  BY <1>3
<1> HIDE DEF r, e
<1>11. /\ get' \in [Getters -> GetType] /\ get'[g] = r
       /\ \A x \in Getters : x # g => get'[x] = get[x]
  BY <1>5, <1>9, <1>10
<1>12. \A x \in Getters : get'[x].asks # NoEndpoint => get'[x].attempt > 0
  BY <1>9, <1>11 DEF Reached, PoolTypeOK
<1>13. PoolTypeOK'
  BY <1>2, <1>11, <1>12 DEF Reached, PoolTypeOK, GetType
<1>14. Listing'
  BY <1>2 DEF Reached, Listing
<1>15. e # NoEndpoint
  BY <1>4, PoolAssumption
<1>16. Charges(g, P)' /\ Counts' = Counts
  <2>1. Cardinality(P) = Attempts(get'[g])
    BY <1>5, <1>7, <1>9, <1>11, <1>15 DEF Attempts, GetType
  <2>2. get'[g].asks \notin blacklisted'
    BY <1>2, <1>4, <1>9, <1>11
  <2> QED BY <1>2, <1>6, <2>1, <2>2 DEF Charges, Unhealthy, Counts
<1>17. ASSUME NEW h \in Getters, h # g PROVE \E Q \in SUBSET Counts' : Charges(h, Q)'
  BY <1>2, <1>11, <1>17, OthersCharged
<1>18. FailuresAreCharged'
  BY <1>6, <1>16, <1>17 DEF FailuresAreCharged
<1>19. HealthyIsReached'
  BY <1>2, <1>9, <1>11 DEF Reached, HealthyIsReached
<1> QED BY <1>13, <1>14, <1>18, <1>19 DEF Reached

LEMMA AnswerKeeps == ASSUME Reached, NEW g \in Getters, Answer(g) PROVE Reached'
<1> DEFINE e == get[g].asks
           r == [IdleGet EXCEPT !.result = "answer"]
<1>1. e \in healthy /\ e \in Names /\ UNCHANGED <<healthy, outlasts>>
      /\ get \in [Getters -> GetType]
  BY DEF Answer, Reached, PoolTypeOK, GetType
<1>2. r \in GetType /\ r.asks = NoEndpoint /\ r.attempt = 0 /\ r.result = "answer"
  BY IdleGetType DEF GetType
<1>3. get' = [get EXCEPT ![g] = r]
  BY DEF Answer
<1> HIDE DEF r
<1>4. /\ get' \in [Getters -> GetType] /\ get'[g] = r
      /\ \A x \in Getters : x # g => get'[x] = get[x]
  BY <1>1, <1>2, <1>3
<1>5. /\ failures' \in [Names -> 0 .. MaxFailures]
      /\ \A x \in Names : failures'[x] = IF x = e THEN 0 ELSE failures[x]
      /\ blacklisted' = blacklisted \ {e}
  <2>1. 0 \in 0 .. MaxFailures
    BY PoolConstants
  <2> QED BY <1>1, <2>1 DEF Answer, Reached, PoolTypeOK
<1>6. PoolTypeOK'
  <2>1. \A x \in Getters : get'[x].asks # NoEndpoint => get'[x].attempt > 0
    BY <1>2, <1>4 DEF Reached, PoolTypeOK
  <2>2. blacklisted' \in SUBSET Names
    BY <1>5 DEF Reached, PoolTypeOK
  <2> QED BY <1>1, <1>4, <1>5, <2>1, <2>2 DEF Reached, PoolTypeOK, GetType
<1>7. Listing'
  BY <1>1, <1>5, PoolConstants DEF Reached, Listing
<1>8. \E P \in SUBSET Counts' : Charges(g, P)'
  BY <1>2, <1>4, IdleIsCharged
<1>9. ASSUME NEW h \in Getters, h # g PROVE \E Q \in SUBSET Counts' : Charges(h, Q)'
  <2>1. \A x \in Unhealthy : failures'[x] = failures[x] /\ (x \in blacklisted' => x \in blacklisted)
    BY <1>1, <1>5 DEF Unhealthy
  <2> QED BY <1>1, <1>4, <1>9, <2>1, OthersCharged
<1>10. FailuresAreCharged'
  BY <1>8, <1>9 DEF FailuresAreCharged
<1>11. HealthyIsReached'
  BY <1>1, <1>2, <1>4 DEF Reached, HealthyIsReached
<1> QED BY <1>6, <1>7, <1>10, <1>11 DEF Reached

LEMMA DoneKeeps == ASSUME Reached, NEW g \in Getters, Done(g) PROVE Reached'
<1>1. UNCHANGED <<healthy, failures, blacklisted>> /\ get \in [Getters -> GetType]
  BY DEF Done, Reached, PoolTypeOK, GetType
<1>2. IdleGet \in GetType /\ IdleGet.asks = NoEndpoint /\ IdleGet.attempt = 0 /\ IdleGet.result = "none"
  BY PoolConstants DEF IdleGet, GetType
<1>4. /\ get' \in [Getters -> GetType] /\ get'[g] = IdleGet
      /\ \A x \in Getters : x # g => get'[x] = get[x]
  BY <1>1, <1>2 DEF Done
<1>5. /\ outlasts' \in [Names -> SUBSET Getters]
      /\ \A x \in Names : outlasts'[x] = outlasts[x] \ {g}
  BY DEF Done, Reached, PoolTypeOK
<1>6. PoolTypeOK'
  <2>1. \A x \in Getters : get'[x].asks # NoEndpoint => get'[x].attempt > 0
    BY <1>2, <1>4 DEF Reached, PoolTypeOK
  <2> QED BY <1>1, <1>4, <1>5, <2>1 DEF Reached, PoolTypeOK, GetType
<1>7. Listing'
  BY <1>1 DEF Reached, Listing
<1>8. \E P \in SUBSET Counts' : Charges(g, P)'
  BY <1>2, <1>4, IdleIsCharged
<1>9. ASSUME NEW h \in Getters, h # g PROVE \E Q \in SUBSET Counts' : Charges(h, Q)'
  <2>1. \A x \in Unhealthy : h \in outlasts[x] => h \in outlasts'[x]
    BY <1>5, <1>9 DEF Unhealthy
  <2> QED BY <1>1, <1>4, <1>9, <2>1, OthersCharged
<1>10. FailuresAreCharged'
  BY <1>8, <1>9 DEF FailuresAreCharged
<1>11. HealthyIsReached'
  BY <1>1, <1>2, <1>4 DEF Reached, HealthyIsReached
<1> QED BY <1>6, <1>7, <1>10, <1>11 DEF Reached

LEMMA FailKeeps ==
  ASSUME BlacklistsInTime, Reached, healthy # {}, NEW g \in Getters,
         NEW kind \in {"blacklist", "count"}, Fail(g, kind)
  PROVE  Reached'
<1> DEFINE e      == get[g].asks
           number == failures[e] + 1
           listed == blacklisted \union (IF kind = "blacklist" \/ number >= MaxFailures THEN {e} ELSE {})
           n      == IF number > MaxFailures THEN MaxFailures ELSE number
           r      == IF get[g].attempt = MaxAttempts THEN [IdleGet EXCEPT !.result = "error"]
                     ELSE [get[g] EXCEPT !.asks = NoEndpoint]
<1>1. e \in Names /\ e \notin healthy /\ healthy' = healthy /\ e \in Unhealthy
  BY DEF Fail, Unhealthy
<1>2. PICK h0 \in healthy : h0 \notin blacklisted
  BY DEF Reached, Listing
<1>3. Available(listed) # {}
  <2>1. h0 \notin listed
    BY <1>1, <1>2
  <2> HIDE DEF listed
  <2> QED BY <2>1, SomethingAvailable DEF Reached
<1>4. /\ blacklisted' = listed
      /\ failures' = [failures EXCEPT ![e] = n]
      /\ outlasts' = [outlasts EXCEPT ![e] = InFlight]
      /\ get' = [get EXCEPT ![g] = r]
  BY <1>3 DEF Fail
<1>5. get \in [Getters -> GetType] /\ failures \in [Names -> 0 .. MaxFailures]
      /\ outlasts \in [Names -> SUBSET Getters]
      /\ failures[e] \in 0 .. MaxFailures
  BY <1>1 DEF Reached, PoolTypeOK, GetType
<1>6. /\ n \in 1 .. MaxFailures /\ failures[e] <= n
      /\ e \notin blacklisted => n = failures[e] + 1
      /\ n >= MaxFailures => e \in listed
  <2>1. e \notin blacklisted => failures[e] < MaxFailures
    BY <1>1 DEF Reached, Listing
  <2>2. n = MaxFailures => number >= MaxFailures
    BY <1>5, PoolConstants
  <2> QED BY <1>5, <2>1, <2>2, PoolConstants
<1>7. listed \subseteq blacklisted \union {e} /\ blacklisted \subseteq listed
  OBVIOUS
<1> HIDE DEF n, listed, number
<1>8. /\ failures' \in [Names -> 0 .. MaxFailures] /\ failures'[e] = n
      /\ \A x \in Names : x # e => failures'[x] = failures[x]
      /\ outlasts' \in [Names -> SUBSET Getters] /\ outlasts'[e] = InFlight
      /\ \A x \in Names : x # e => outlasts'[x] = outlasts[x]
  <2>1. n \in 0 .. MaxFailures /\ InFlight \in SUBSET Getters
    BY <1>6 DEF InFlight
  <2> QED BY <1>1, <1>4, <1>5, <2>1
<1>9. get[g].attempt > 0 /\ get[g].attempt \in 0 .. MaxAttempts /\ e # NoEndpoint
  <2>1. e # NoEndpoint
    BY <1>1, PoolAssumption
  <2> QED BY <1>5, <2>1 DEF Reached, PoolTypeOK, GetType
<1>10. Unhealthy' = Unhealthy /\ Counts' = Counts
  BY <1>1 DEF Unhealthy, Counts
<1>11. \E P \in SUBSET Counts :
          /\ Cardinality(P) = get[g].attempt
          /\ \A x \in Unhealthy, k \in 1 .. MaxFailures :
                <<x, k>> \in P => k <= failures'[x] /\ g \in outlasts'[x]
  <2>1. PICK Q \in SUBSET Counts : Charges(g, Q)
    BY DEF Reached, FailuresAreCharged
  <2>2. IsFiniteSet(Q) /\ Cardinality(Q) \in Nat
    BY TooFewToGiveUp DEF Reached
  <2>3. PICK k \in 1 .. MaxFailures : k <= n /\ <<e, k>> \notin Q
    <3>1. CASE e \in blacklisted
      <4>1. PICK k \in 1 .. MaxFailures : k <= failures[e] /\ <<e, k>> \notin Q
        BY <1>1, <2>1, <3>1 DEF Charges
      <4> QED BY <4>1, <1>5, <1>6
    <3>2. CASE e \notin blacklisted
      <4>1. \A k \in 1 .. MaxFailures : <<e, k>> \in Q => k <= failures[e]
        BY <1>1, <2>1 DEF Charges
      <4>2. <<e, n>> \notin Q
        BY <1>5, <1>6, <3>2, <4>1
      <4> QED BY <4>2, <1>6
    <3> QED BY <3>1, <3>2
  <2> DEFINE P == Q \union {<<e, k>>}
  <2>4. P \in SUBSET Counts
    BY <1>1, <2>3 DEF Counts
  <2>5. Cardinality(P) = get[g].attempt
    <3>1. Cardinality(P) = Cardinality(Q) + 1
      BY <2>2, <2>3, FS_AddElement
    <3>2. Cardinality(Q) = get[g].attempt - 1
      BY <1>9, <2>1 DEF Charges, Attempts
    <3> QED BY <3>1, <3>2, <1>9
  <2>6. ASSUME NEW x \in Unhealthy, NEW j \in 1 .. MaxFailures, <<x, j>> \in P
        PROVE  j <= failures'[x] /\ g \in outlasts'[x]
    <3>1. g \in InFlight
      BY <1>9 DEF InFlight
    <3>2. x \in Names
      BY DEF Unhealthy
    <3>3. CASE <<x, j>> \in Q
      <4>1. j <= failures[x] /\ g \in outlasts[x]
        BY <2>1, <3>3 DEF Charges
      <4>2. failures[x] \in Int /\ failures'[x] \in Int /\ failures[x] <= failures'[x]
        BY <1>5, <1>6, <1>8, <3>2
      <4>3. g \in outlasts'[x]
        BY <1>8, <3>1, <3>2, <4>1
      <4>4. j <= failures'[x]
        BY <4>1, <4>2
      <4> QED BY <4>3, <4>4
    <3>4. CASE <<x, j>> = <<e, k>>
      <4>1. x = e /\ j = k
        BY <3>4
      <4> QED BY <1>8, <2>3, <3>1, <4>1
    <3> QED BY <2>6, <3>3, <3>4
  <2> QED BY <2>4, <2>5, <2>6
<1>12. get[g].attempt # MaxAttempts
  <2>1. PICK P \in SUBSET Counts : Cardinality(P) = get[g].attempt
    BY <1>11
  <2>2. Cardinality(P) < MaxAttempts /\ Cardinality(P) \in Nat
    BY <2>1, TooFewToGiveUp DEF Reached
  <2> QED BY <2>1, <2>2, PoolConstants
<1>13. /\ r \in GetType /\ r.asks = NoEndpoint /\ r.attempt = get[g].attempt
       /\ r.result = get[g].result
  BY <1>5, <1>12 DEF GetType
<1> HIDE DEF r
<1>14. /\ get' \in [Getters -> GetType] /\ get'[g] = r
       /\ \A x \in Getters : x # g => get'[x] = get[x]
  BY <1>4, <1>5, <1>13
<1>15. PoolTypeOK'
  <2>1. \A x \in Getters : get'[x].asks # NoEndpoint => get'[x].attempt > 0
    BY <1>13, <1>14 DEF Reached, PoolTypeOK
  <2>2. blacklisted' \in SUBSET Names
    BY <1>1, <1>4, <1>7 DEF Reached, PoolTypeOK
  <2>3. healthy' \in SUBSET Names
    BY <1>1 DEF Reached, PoolTypeOK
  <2> QED BY <1>8, <1>14, <2>1, <2>2, <2>3 DEF PoolTypeOK, GetType
<1>16. Listing'
  <2>1. healthy' \cap blacklisted' = {}
    BY <1>1, <1>4, <1>7 DEF Reached, Listing
  <2>2. ASSUME NEW x \in Names \ blacklisted' PROVE failures'[x] < MaxFailures
    <3>1. CASE x = e
      BY <1>4, <1>6, <1>8, <2>2, <3>1, PoolConstants
    <3>2. CASE x # e
      BY <1>4, <1>7, <1>8, <2>2, <3>2 DEF Reached, Listing
    <3> QED BY <3>1, <3>2
  <2> QED BY <2>1, <2>2 DEF Listing
<1>17. \E P \in SUBSET Counts' : Charges(g, P)'
  <2>1. PICK P \in SUBSET Counts :
          /\ Cardinality(P) = get[g].attempt
          /\ \A x \in Unhealthy, k \in 1 .. MaxFailures :
                <<x, k>> \in P => k <= failures'[x] /\ g \in outlasts'[x]
    BY <1>11
  <2>2. Cardinality(P) = Attempts(get'[g])
    BY <1>13, <1>14, <2>1 DEF Attempts
  <2>3. get'[g].asks \notin Unhealthy
    BY <1>13, <1>14, PoolAssumption DEF Unhealthy
  <2> QED BY <1>10, <2>1, <2>2, <2>3 DEF Charges
<1>18. ASSUME NEW h \in Getters, h # g PROVE \E P \in SUBSET Counts' : Charges(h, P)'
  <2>1. PICK P \in SUBSET Counts : Charges(h, P)
    BY DEF Reached, FailuresAreCharged
  <2>2. IsFiniteSet(P) /\ Cardinality(P) \in Nat
    BY TooFewToGiveUp DEF Reached
  <2>3. get'[h] = get[h] /\ get[h] \in GetType
    BY <1>5, <1>14, <1>18
  <2>4. ASSUME NEW x \in Unhealthy, NEW k \in 1 .. MaxFailures, <<x, k>> \in P
        PROVE  k <= failures'[x] /\ h \in outlasts'[x]
    <3>1. k <= failures[x] /\ h \in outlasts[x]
      BY <2>1, <2>4 DEF Charges
    <3>2. x \in Names
      BY DEF Unhealthy
    <3>3. h \in InFlight
      <4>1. P # {}
        BY <2>4
      <4>2. Cardinality(P) # 0
        BY <4>1, <2>2, FS_EmptySet
      <4>3. Attempts(get[h]) # 0 /\ get[h].attempt \in 0 .. MaxAttempts
        BY <2>1, <2>3, <4>2 DEF Charges, GetType
      <4>4. get[h].asks # NoEndpoint => get[h].attempt > 0
        BY DEF Reached, PoolTypeOK
      <4>5. get[h].attempt > 0
        BY <4>3, <4>4 DEF Attempts
      <4> QED BY <4>5 DEF InFlight
    <3>4. failures[x] \in Int /\ failures'[x] \in Int /\ failures[x] <= failures'[x]
      BY <1>5, <1>6, <1>8, <3>2
    <3>5. h \in outlasts'[x]
      BY <1>8, <3>1, <3>2, <3>3
    <3>6. k <= failures'[x]
      BY <3>1, <3>4
    <3> QED BY <3>5, <3>6
  <2>5. ASSUME get[h].asks \in Unhealthy \cap blacklisted'
        PROVE  \E k \in 1 .. MaxFailures : k <= failures'[get[h].asks] /\ <<get[h].asks, k>> \notin P
    <3> DEFINE x == get[h].asks
    <3>1. x \in Names /\ x \in Unhealthy
      BY <2>5 DEF Unhealthy
    <3>2. failures[x] \in Int /\ failures'[x] \in Int /\ failures[x] <= failures'[x]
      BY <1>5, <1>6, <1>8, <3>1
    <3>3. CASE x \in blacklisted
      <4>1. PICK k \in 1 .. MaxFailures : k <= failures[x] /\ <<x, k>> \notin P
        BY <2>1, <3>1, <3>3 DEF Charges
      <4>2. k <= failures'[x]
        BY <3>2, <4>1
      <4> QED BY <4>1, <4>2
    <3>4. CASE x \notin blacklisted
      <4>1. x = e
        BY <1>4, <1>7, <2>5, <3>4
      <4>2. n = failures[x] + 1 /\ failures'[x] = n
        BY <1>6, <1>8, <3>4, <4>1
      <4>3. \A k \in 1 .. MaxFailures : <<x, k>> \in P => k <= failures[x]
        BY <2>1, <3>1 DEF Charges
      <4>4. <<x, n>> \notin P
        BY <1>6, <3>2, <4>2, <4>3
      <4>5. n <= failures'[x]
        BY <3>2, <4>2
      <4> QED BY <1>6, <4>4, <4>5
    <3> QED BY <3>3, <3>4
  <2>6. Charges(h, P)'
    BY <1>10, <2>1, <2>3, <2>4, <2>5 DEF Charges
  <2> QED BY <1>10, <2>6
<1>19. FailuresAreCharged'
  BY <1>17, <1>18 DEF FailuresAreCharged
<1>20. HealthyIsReached'
  BY <1>1, <1>13, <1>14 DEF Reached, HealthyIsReached
<1> QED BY <1>15, <1>16, <1>19, <1>20 DEF Reached

LEMMA StandsStill == Reached /\ UNCHANGED poolVars => Reached'
  BY DEF poolVars, Reached, PoolTypeOK, Listing, FailuresAreCharged, Charges, Attempts, Counts, Unhealthy,
         HealthyIsReached

LEMMA PoolNextKeeps ==
  ASSUME BlacklistsInTime, healthy # {} => Reached, [PoolNext]_poolVars
  PROVE  (healthy # {} => Reached)'
<1>1. healthy' = healthy
  BY DEF PoolNext, poolVars, BlacklistExpires, Ask, Answer, Fail, Done
<1> SUFFICES ASSUME healthy # {}, Reached PROVE Reached'
  BY <1>1
<1>2. CASE UNCHANGED poolVars
  BY <1>2, StandsStill
<1>3. ASSUME NEW e \in Names, BlacklistExpires(e) PROVE Reached'
  BY <1>3, ExpireKeeps
<1>4. ASSUME NEW g \in Getters, Ask(g) PROVE Reached'
  BY <1>4, AskKeeps
<1>5. ASSUME NEW g \in Getters, Answer(g) PROVE Reached'
  BY <1>5, AnswerKeeps
<1>6. ASSUME NEW g \in Getters, Done(g) PROVE Reached'
  BY <1>6, DoneKeeps
<1>7. ASSUME NEW g \in Getters, NEW kind \in {"blacklist", "count"}, Fail(g, kind) PROVE Reached'
  BY <1>7, FailKeeps
<1> QED BY <1>2, <1>3, <1>4, <1>5, <1>6, <1>7 DEF PoolNext

(* For any list of endpoints that a get has the attempts for: while one of     *)
(* them answers, no get gives up, whatever the other gets in flight do to the *)
(* index and the blacklist they share (HttpEndpointPool.get).                 *)
THEOREM HealthyAnswers == BlacklistsInTime => (PoolSpec => []HealthyIsReached)
<1> SUFFICES ASSUME BlacklistsInTime PROVE PoolSpec => []HealthyIsReached
  OBVIOUS
<1>1. PoolInit => (healthy # {} => Reached)
  BY InitIsReached
<1>2. (healthy # {} => Reached) /\ [PoolNext]_poolVars => (healthy # {} => Reached)'
  BY PoolNextKeeps
<1>3. (healthy # {} => Reached) => HealthyIsReached
  BY DEF Reached, HealthyIsReached
<1> QED BY <1>1, <1>2, <1>3, PTL DEF PoolSpec
===============================================================================
