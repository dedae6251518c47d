--------------------------- MODULE DashboardProofs --------------------------
(*****************************************************************************)
(* Proofs about the dashboard: TtlMemo, for any number of callers and        *)
(* snapshots; DashboardSnapshot, for any number of refresh slots, any heavy  *)
(* period and any failures; DashboardSections, for any rows, any windows and *)
(* any bin, whatever is written while a section is loaded.                   *)
(*                                                                           *)
(* TtlMemo, what is read never goes back: there is one call of the factory   *)
(* at a time, and none while the cached value is fresh, so a call selects    *)
(* after everything served so far has been selected, and nothing is served   *)
(* between its SELECT and its resolution.                                    *)
(*                                                                           *)
(* DashboardSnapshot, no publication takes a section back between two        *)
(* restarts of the worker. What a failed section would be given (InStock)    *)
(* never goes back and is never older than what is published; a refresh      *)
(* settles every section on that or on something newer, and since there is   *)
(* one refresh at a time nothing is published between its answers and its    *)
(* own upsert.                                                               *)
(*                                                                           *)
(* DashboardSections, the rates: every answer is a number, or one row of     *)
(* counts that were taken in one statement (AnswerOK), and the clamps do the *)
(* rest. The totals: as long as nothing is written the tables still answer   *)
(* what they have answered (AnswersStand), so an agreement between answers   *)
(* is one between sets of rows: a GROUP BY partitions its rows, a DISTINCT   *)
(* does not count more than its rows, and the class table, which has one row *)
(* for each account, joins a transaction once.                               *)
(*****************************************************************************)
EXTENDS Algorithms, TtlMemo, DashboardSnapshot, DashboardSections, CountingLemmas

-------------------------------------------------------------------------------
(* TtlMemo. *)

MemoTypeOK ==
    /\ snapshot \in Nat
    /\ cached \in [value : Int, fresh : BOOLEAN]
    /\ inFlight \in Calls \union {NoCall}
    /\ call \in [Calls -> [pc : {"none", "called", "selected"}, value : Int]]
    /\ served \in Int

(* The memo knows the call in flight, and has no fresh value meanwhile. *)
OneInFlight ==
    /\ \A c \in Calls : call[c].pc # "none" => inFlight = c
    /\ inFlight # NoCall => ~cached.fresh

(* What may be served next is between what was served and the row. *)
NothingOlder ==
    /\ served <= snapshot
    /\ cached.fresh => served <= cached.value /\ cached.value <= snapshot
    /\ \A c \in Calls : call[c].pc = "selected" =>
          served <= call[c].value /\ call[c].value <= snapshot

MemoInv == MemoTypeOK /\ OneInFlight /\ NothingOlder

LEMMA MemoInitHolds == MemoInit => MemoInv
  BY DEF MemoInit, MemoInv, MemoTypeOK, OneInFlight, NothingOlder, NoFlight, NoValue

LEMMA RowMovesOn == ASSUME MemoInv, NewSnapshot PROVE MemoInv'
  BY DEF NewSnapshot, MemoInv, MemoTypeOK, OneInFlight, NothingOlder

LEMMA Expires == ASSUME MemoInv, Expire PROVE MemoInv'
  BY DEF Expire, MemoInv, MemoTypeOK, OneInFlight, NothingOlder

LEMMA CachedIsServed == ASSUME MemoInv, GetCached PROVE MemoInv' /\ served' >= served
<1>1. \A c \in Calls : call[c].pc = "none"
  BY MemoAssumption DEF GetCached, MemoInv, OneInFlight
<1> QED
  BY <1>1 DEF GetCached, MemoInv, MemoTypeOK, OneInFlight, NothingOlder

LEMMA CallBegins == ASSUME NEW c \in Calls, MemoInv, GetCalls(c) PROVE MemoInv'
<1>1. \A d \in Calls : call[d].pc = "none"
  BY MemoAssumption DEF GetCalls, Shared, MemoInv, OneInFlight
<1>2. /\ call' \in [Calls -> [pc : {"none", "called", "selected"}, value : Int]]
      /\ call'[c].pc = "called"
      /\ \A d \in Calls : d # c => call'[d] = call[d]
  BY DEF GetCalls, MemoInv, MemoTypeOK
<1> QED
  BY <1>1, <1>2 DEF GetCalls, MemoInv, MemoTypeOK, OneInFlight, NothingOlder

LEMMA CallSelects == ASSUME NEW c \in Calls, MemoInv, Select(c) PROVE MemoInv'
<1>1. /\ call' \in [Calls -> [pc : {"none", "called", "selected"}, value : Int]]
      /\ call'[c] = [pc |-> "selected", value |-> snapshot]
      /\ \A d \in Calls : d # c => call'[d] = call[d]
  BY DEF Select, MemoInv, MemoTypeOK
<1> QED
  BY <1>1 DEF Select, MemoInv, MemoTypeOK, OneInFlight, NothingOlder

(* After a call has ended none is in flight. *)
LEMMA CallGone ==
    ASSUME NEW c \in Calls, MemoInv, call[c].pc # "none",
           call' = [call EXCEPT ![c] = NoFlight]
    PROVE  /\ call' \in [Calls -> [pc : {"none", "called", "selected"}, value : Int]]
           /\ \A d \in Calls : call'[d].pc = "none"
           /\ inFlight = c /\ inFlight # NoCall
<1>1. inFlight = c /\ \A d \in Calls : d # c => call[d].pc = "none"
  BY DEF MemoInv, OneInFlight
<1> QED
  BY <1>1, MemoAssumption DEF MemoInv, MemoTypeOK, NoFlight, NoValue

LEMMA CallResolves ==
    ASSUME NEW c \in Calls, MemoInv, Resolve(c) PROVE MemoInv' /\ served' >= served
<1>1. /\ call' \in [Calls -> [pc : {"none", "called", "selected"}, value : Int]]
      /\ \A d \in Calls : call'[d].pc = "none"
      /\ inFlight = c
  BY CallGone DEF Resolve
<1>2. served <= call[c].value /\ call[c].value <= snapshot /\ call[c].value \in Int
  BY DEF Resolve, MemoInv, MemoTypeOK, NothingOlder
<1>3. /\ served' = call[c].value /\ snapshot' = snapshot
      /\ cached' = [value |-> call[c].value, fresh |-> TRUE] /\ inFlight' = NoCall
  BY <1>1 DEF Resolve
<1> QED
  BY <1>1, <1>2, <1>3 DEF MemoInv, MemoTypeOK, OneInFlight, NothingOlder

LEMMA CallRejects == ASSUME NEW c \in Calls, MemoInv, Reject(c) PROVE MemoInv'
<1>1. /\ call' \in [Calls -> [pc : {"none", "called", "selected"}, value : Int]]
      /\ \A d \in Calls : call'[d].pc = "none"
  BY CallGone DEF Reject
<1> QED
  BY <1>1 DEF Reject, MemoInv, MemoTypeOK, OneInFlight, NothingOlder

LEMMA MemoStepKeeps ==
    MemoInv /\ [MemoNext]_memoVars => MemoInv' /\ [served' >= served]_served
<1> SUFFICES ASSUME MemoInv, [MemoNext]_memoVars
             PROVE  MemoInv' /\ [served' >= served]_served
  OBVIOUS
<1>1. CASE UNCHANGED memoVars
  BY <1>1 DEF memoVars, MemoInv, MemoTypeOK, OneInFlight, NothingOlder
<1>2. CASE NewSnapshot
  BY <1>2, RowMovesOn DEF NewSnapshot
<1>3. CASE Expire
  BY <1>3, Expires DEF Expire
<1>4. CASE GetCached
  BY <1>4, CachedIsServed
<1>5. ASSUME NEW c \in Calls, GetCalls(c) PROVE MemoInv' /\ served' = served
  BY <1>5, CallBegins DEF GetCalls
<1>6. ASSUME NEW c \in Calls, Select(c) PROVE MemoInv' /\ served' = served
  BY <1>6, CallSelects DEF Select
<1>7. ASSUME NEW c \in Calls, Reject(c) PROVE MemoInv' /\ served' = served
  BY <1>7, CallRejects DEF Reject
<1> QED
  BY <1>1, <1>2, <1>3, <1>4, <1>5, <1>6, <1>7, CallResolves DEF MemoNext

(* For any number of callers: no request is answered with an older snapshot  *)
(* than an earlier one (TtlMemo.get shares the call in flight).              *)
THEOREM ServedNeverGoesBack == MemoSpec => ReadsNeverGoBack
<1>1. MemoInit => MemoInv
  BY MemoInitHolds
<1>2. MemoInv /\ [MemoNext]_memoVars => MemoInv' /\ [served' >= served]_served
  BY MemoStepKeeps
<1> QED
  BY <1>1, <1>2, PTL DEF MemoSpec, ReadsNeverGoBack

-------------------------------------------------------------------------------
(* DashboardSnapshot. *)

(* What a section that fails now would show. *)
InStock(s) == IF lastGood[s] = Missing THEN Empty ELSE lastGood[s]

RefreshType ==
    [pc : {"idle", "compute", "metrics", "upsert"}, heavy : BOOLEAN, settled : [watched -> Int]]

SnapshotTypeOK ==
    /\ watched \subseteq SectionNames
    /\ version \in Nat \ {0}
    /\ running \in BOOLEAN
    /\ heavyAge \in Nat
    /\ lastGood \in [watched \union {ActivityQueries} -> Int]
    /\ refresh \in [Refreshes -> RefreshType]
    /\ published \in [watched -> Int]

(* The guard of refreshSnapshot does what it is there for. *)
OneRefresh ==
    /\ \A r \in Refreshes : refresh[r].pc # "idle" => running
    /\ \A r, q \in Refreshes : refresh[r].pc # "idle" /\ refresh[q].pc # "idle" => r = q

Kept == watched \ {"missingBlockRanges"}

(* The last good values are versions; the queries of the activity are as new *)
(* as the section made of them, and nothing published is newer.              *)
StockIsGood ==
    /\ \A s \in watched \union {ActivityQueries} :
          lastGood[s] = Missing \/ (lastGood[s] >= 0 /\ lastGood[s] <= version)
    /\ "realActivity" \in watched => InStock("realActivity") <= InStock(ActivityQueries)
    /\ \A s \in Kept : published[s] <= InStock(s)

(* What a refresh has settled is as new as the stock. *)
SettledIsNewer ==
    \A r \in Refreshes :
       /\ refresh[r].pc = "compute" =>
             \A s \in watched :
                LET result == refresh[r].settled[s]
                IN  \/ result = Missing
                    \/ result = Rejected /\ s # "realActivity"
                    \/ /\ 0 <= result /\ result <= version
                       /\ s \in Kept => InStock(s) <= result
                       /\ s = "realActivity" => result <= InStock(ActivityQueries)
       /\ refresh[r].pc \in {"metrics", "upsert"} =>
             \A s \in Kept : refresh[r].settled[s] = InStock(s)

SnapshotInv == SnapshotTypeOK /\ OneRefresh /\ StockIsGood /\ SettledIsNewer

Advances == published' = Unpublished \/ \A s \in Kept : published'[s] >= published[s]

LEMMA Markers == Empty = 0 /\ Missing = -1 /\ Rejected = -2
  BY DEF Empty, Missing, Rejected

LEMMA QueriesAreNoSection == ActivityQueries \notin SectionNames
  BY DEF ActivityQueries, SectionNames

(* A refresh moves on with the tables, the stock and the publication as they *)
(* are: only its own answers are to be looked at.                            *)
LEMMA OneMoves ==
    ASSUME SnapshotInv, NEW r \in Refreshes, NEW next, Proceed(r, next), next \in RefreshType,
           running' \in BOOLEAN, next.pc # "idle" => running',
           refresh[r].pc # "idle" \/ ~running,
           refresh[r].pc # "idle" => (next.pc = "idle" \/ running')
    PROVE  /\ refresh' \in [Refreshes -> RefreshType]
           /\ refresh'[r] = next
           /\ \A q \in Refreshes : q # r => refresh'[q] = refresh[q] /\ refresh[q].pc = "idle"
           /\ OneRefresh'
<1>1. /\ refresh' \in [Refreshes -> RefreshType]
      /\ refresh'[r] = next
      /\ \A q \in Refreshes : q # r => refresh'[q] = refresh[q]
  BY DEF Proceed, SnapshotInv, SnapshotTypeOK
<1>2. \A q \in Refreshes : q # r => refresh[q].pc = "idle"
  BY DEF SnapshotInv, OneRefresh
<1> QED
  BY <1>1, <1>2 DEF OneRefresh

LEMMA StartKeeps == ASSUME SnapshotInv, NEW r \in Refreshes, Start(r) PROVE SnapshotInv'
<1> DEFINE next == [IdleRefresh EXCEPT !.pc = "compute", !.heavy = (heavyAge >= HeavyPeriod)]
<1>1. /\ next \in RefreshType /\ next.pc = "compute"
      /\ \A s \in watched : next.settled[s] = Missing
  <2>1. (heavyAge >= HeavyPeriod) \in BOOLEAN
    BY SnapshotAssumption DEF SnapshotInv, SnapshotTypeOK
  <2>2. Waiting \in [watched -> Int] /\ \A s \in watched : Waiting[s] = Missing
    BY DEF Waiting, Missing
  <2>3. IdleRefresh \in RefreshType /\ IdleRefresh.settled = Waiting
    BY <2>2 DEF IdleRefresh, RefreshType
  <2>4. ASSUME NEW heavy \in BOOLEAN
        PROVE  LET begun == [IdleRefresh EXCEPT !.pc = "compute", !.heavy = heavy]
               IN  begun \in RefreshType /\ begun.pc = "compute" /\ begun.settled = Waiting
    BY <2>3 DEF RefreshType
  <2> QED
    BY <2>1, <2>2, <2>4, Zenon
<1>2. Proceed(r, next)
  BY DEF Start
<1> HIDE DEF next
<1>3. /\ refresh' \in [Refreshes -> RefreshType]
      /\ refresh'[r] = next
      /\ \A q \in Refreshes : q # r => refresh'[q] = refresh[q] /\ refresh[q].pc = "idle"
      /\ OneRefresh'
  BY <1>1, <1>2, OneMoves DEF Start, NotRunning
<1>4. SnapshotTypeOK'
  BY <1>3 DEF Start, AgeAfter, SnapshotInv, SnapshotTypeOK, RefreshType
<1>5. StockIsGood'
  BY DEF Start, SnapshotInv, StockIsGood, InStock, Kept
<1>6. SettledIsNewer'
  BY <1>1, <1>3 DEF Start, SettledIsNewer
<1> QED
  BY <1>3, <1>4, <1>5, <1>6 DEF SnapshotInv

(* One section settles on a result that is as new as the stock. *)
LEMMA SettlesKeeps ==
    ASSUME SnapshotInv, NEW r \in Refreshes, NEW s \in watched, NEW result \in Int,
           Settles(r, s, result),
           \A x \in watched \union {ActivityQueries} :
              lastGood'[x] = lastGood[x] \/ (x = ActivityQueries /\ lastGood'[x] = version),
           lastGood' \in [watched \union {ActivityQueries} -> Int],
           \/ result = Rejected /\ s # "realActivity"
           \/ /\ 0 <= result /\ result <= version
              /\ s \in Kept => InStock(s) <= result
              /\ s = "realActivity" => result <= InStock(ActivityQueries)'
    PROVE  SnapshotInv'
<1> DEFINE next == [refresh[r] EXCEPT !.settled[s] = result]
<1>1. refresh[r] \in RefreshType /\ refresh[r].pc = "compute"
  BY DEF Settles, SnapshotInv, SnapshotTypeOK
<1>2. /\ next \in RefreshType /\ next.pc = "compute"
      /\ next.settled[s] = result
      /\ \A x \in watched : x # s => next.settled[x] = refresh[r].settled[x]
  BY <1>1 DEF RefreshType
<1>3. Proceed(r, next)
  BY DEF Settles
<1> HIDE DEF next
<1>4. /\ refresh' \in [Refreshes -> RefreshType]
      /\ refresh'[r] = next
      /\ \A q \in Refreshes : q # r => refresh'[q] = refresh[q] /\ refresh[q].pc = "idle"
      /\ OneRefresh'
  <2>1. running /\ running' = running
    BY <1>1 DEF Settles, SnapshotInv, OneRefresh
  <2> QED
    BY <1>1, <1>2, <1>3, <2>1, OneMoves
<1>5. SnapshotTypeOK'
  BY <1>4 DEF Settles, SnapshotInv, SnapshotTypeOK, RefreshType
<1>6. /\ \A x \in watched : x # ActivityQueries
      /\ \A x \in watched : InStock(x)' = InStock(x)
      /\ InStock(ActivityQueries) <= InStock(ActivityQueries)'
  <2>1. \A x \in watched : x # ActivityQueries
    BY QueriesAreNoSection DEF SnapshotInv, SnapshotTypeOK
  <2>2. \A x \in watched : InStock(x)' = InStock(x)
    BY <2>1 DEF InStock
  <2>3. /\ lastGood[ActivityQueries] = Missing
           \/ (lastGood[ActivityQueries] >= 0 /\ lastGood[ActivityQueries] <= version)
        /\ version \in Nat \ {0} /\ lastGood[ActivityQueries] \in Int
    BY DEF SnapshotInv, SnapshotTypeOK, StockIsGood
  <2>4. InStock(ActivityQueries) <= InStock(ActivityQueries)'
    BY <2>3, Markers DEF InStock
  <2> QED
    BY <2>1, <2>2, <2>4
<1>7. /\ UNCHANGED <<watched, version, published>> /\ Kept' = Kept
      /\ Kept \subseteq watched
  BY DEF Settles, Kept
<1>8. StockIsGood'
  <2>1. \A x \in watched \union {ActivityQueries} :
          lastGood'[x] = Missing \/ (lastGood'[x] >= 0 /\ lastGood'[x] <= version)
    BY DEF SnapshotInv, SnapshotTypeOK, StockIsGood
  <2>2. "realActivity" \in watched => InStock("realActivity")' <= InStock(ActivityQueries)'
    <3>1. SUFFICES ASSUME "realActivity" \in watched
                   PROVE  InStock("realActivity")' <= InStock(ActivityQueries)'
      OBVIOUS
    <3>2. InStock("realActivity")' <= InStock(ActivityQueries)
      BY <1>6, <3>1 DEF SnapshotInv, StockIsGood
    <3>3. /\ InStock("realActivity")' \in Int /\ InStock(ActivityQueries) \in Int
          /\ InStock(ActivityQueries)' \in Int
      BY <3>1, Markers, <1>7 DEF InStock, SnapshotInv, SnapshotTypeOK
    <3> QED
      BY <1>6, <3>2, <3>3
  <2>3. \A x \in Kept : published'[x] <= InStock(x)'
    BY <1>6, <1>7 DEF SnapshotInv, StockIsGood
  <2> QED
    BY <2>1, <2>2, <2>3, <1>7 DEF StockIsGood
<1>9. SettledIsNewer'
  <2>1. \A x \in watched :
          LET answer == next.settled[x]
          IN  \/ answer = Missing
              \/ answer = Rejected /\ x # "realActivity"
              \/ /\ 0 <= answer /\ answer <= version
                 /\ x \in Kept => InStock(x)' <= answer
                 /\ x = "realActivity" => answer <= InStock(ActivityQueries)'
    <3> SUFFICES ASSUME NEW x \in watched
                 PROVE  \/ next.settled[x] = Missing
                        \/ next.settled[x] = Rejected /\ x # "realActivity"
                        \/ /\ 0 <= next.settled[x] /\ next.settled[x] <= version
                           /\ x \in Kept => InStock(x)' <= next.settled[x]
                           /\ x = "realActivity" => next.settled[x] <= InStock(ActivityQueries)'
      OBVIOUS
    <3>1. CASE x = s
      BY <1>2, <1>6, <3>1
    <3>2. CASE x # s
      <4>1. next.settled[x] = refresh[r].settled[x] /\ next.settled[x] \in Int
        BY <1>1, <1>2, <3>2 DEF RefreshType
      <4>2. \/ next.settled[x] = Missing
            \/ next.settled[x] = Rejected /\ x # "realActivity"
            \/ /\ 0 <= next.settled[x] /\ next.settled[x] <= version
               /\ x \in Kept => InStock(x) <= next.settled[x]
               /\ x = "realActivity" => next.settled[x] <= InStock(ActivityQueries)
        BY <1>1, <4>1 DEF SnapshotInv, SettledIsNewer
      <4>3. InStock(ActivityQueries) \in Int /\ InStock(ActivityQueries)' \in Int
        BY Markers, <1>7 DEF InStock, SnapshotInv, SnapshotTypeOK
      <4> QED
        BY <1>6, <4>1, <4>2, <4>3
    <3> QED
      BY <3>1, <3>2
  <2> QED
    BY <1>2, <1>4, <1>7, <2>1 DEF SettledIsNewer
<1> QED
  BY <1>4, <1>5, <1>8, <1>9 DEF SnapshotInv

LEMMA StockType ==
    ASSUME SnapshotInv, NEW s \in watched \union {ActivityQueries}
    PROVE  /\ InStock(s) \in Int /\ 0 <= InStock(s) /\ InStock(s) <= version
           /\ lastGood[s] # Missing => InStock(s) = lastGood[s]
           /\ Unwrapped(s, Rejected) = InStock(s)
<1>1. /\ lastGood[s] \in Int /\ version \in Nat \ {0}
      /\ lastGood[s] = Missing \/ (lastGood[s] >= 0 /\ lastGood[s] <= version)
  BY DEF SnapshotInv, SnapshotTypeOK, StockIsGood
<1> QED
  BY <1>1, Markers DEF InStock, Unwrapped

LEMMA LoadsKeeps ==
    ASSUME SnapshotInv, NEW r \in Refreshes, NEW s \in watched, Loads(r, s) PROVE SnapshotInv'
<1>1. version \in Nat \ {0} /\ lastGood \in [watched \union {ActivityQueries} -> Int]
  BY DEF SnapshotInv, SnapshotTypeOK
<1>2. CASE Reuses(r, s)
  <2>1. /\ Settles(r, s, lastGood[s]) /\ lastGood' = lastGood
        /\ lastGood[s] = InStock(s) /\ lastGood[s] \in Int
        /\ 0 <= lastGood[s] /\ lastGood[s] <= version
    BY <1>1, <1>2, StockType DEF Loads, Reuses
  <2>2. s = "realActivity" => lastGood[s] <= InStock(ActivityQueries)'
    BY <2>1 DEF InStock, SnapshotInv, StockIsGood
  <2> QED
    BY <1>1, <2>1, <2>2, SettlesKeeps
<1>3. CASE ~Reuses(r, s) /\ s = "realActivity"
  <2>1. /\ Settles(r, s, version)
        /\ lastGood' = [lastGood EXCEPT ![ActivityQueries] = version]
    BY <1>3 DEF Loads
  <2>2. version <= InStock(ActivityQueries)'
    BY <1>1, <2>1, Markers DEF InStock
  <2>3. InStock(s) <= version
    BY StockType
  <2>4. lastGood' \in [watched \union {ActivityQueries} -> Int]
    BY <1>1, <2>1
  <2>5. \A x \in watched \union {ActivityQueries} :
          lastGood'[x] = lastGood[x] \/ (x = ActivityQueries /\ lastGood'[x] = version)
    BY <1>1, <2>1
  <2>6. version \in Int /\ 0 <= version /\ version <= version
    BY <1>1
  <2>7. /\ 0 <= version /\ version <= version
        /\ s \in Kept => InStock(s) <= version
        /\ s = "realActivity" => version <= InStock(ActivityQueries)'
    BY <2>2, <2>3, <2>6
  <2> HIDE <2>2, <2>3
  <2> QED
    BY <2>1, <2>4, <2>5, <2>6, <2>7, SettlesKeeps
<1>4. CASE ~Reuses(r, s) /\ s # "realActivity"
  <2>1. Settles(r, s, version) /\ lastGood' = lastGood
    BY <1>4 DEF Loads
  <2>2. InStock(s) <= version
    BY StockType
  <2> QED
    BY <1>1, <1>4, <2>1, <2>2, SettlesKeeps
<1> QED
  BY <1>2, <1>3, <1>4

LEMMA LoadFailsKeeps ==
    ASSUME SnapshotInv, NEW r \in Refreshes, NEW s \in watched, LoadFails(r, s) PROVE SnapshotInv'
<1>1. /\ version \in Nat \ {0} /\ lastGood \in [watched \union {ActivityQueries} -> Int]
      /\ lastGood' = lastGood
  BY DEF LoadFails, SnapshotInv, SnapshotTypeOK
<1>2. CASE s = "missingBlockRanges"
  <2>1. Settles(r, s, Empty) /\ s \notin Kept
    BY <1>2 DEF LoadFails, Kept
  <2> QED
    BY <1>1, <1>2, <2>1, Markers, SettlesKeeps
<1>3. CASE s = "realActivity"
  <2>1. Settles(r, s, InStock(ActivityQueries))
    BY <1>3, StockType DEF LoadFails
  <2>2. InStock(s) <= InStock(ActivityQueries)
    BY <1>3 DEF SnapshotInv, StockIsGood
  <2>3. /\ InStock(ActivityQueries) \in Int /\ 0 <= InStock(ActivityQueries)
        /\ InStock(ActivityQueries) <= version
    BY StockType
  <2>4. InStock(ActivityQueries)' = InStock(ActivityQueries)
    BY <1>1 DEF InStock
  <2> QED
    BY <1>1, <1>3, <2>1, <2>2, <2>3, <2>4, SettlesKeeps
<1>4. CASE s \notin {"missingBlockRanges", "realActivity"}
  <2>1. Settles(r, s, Rejected)
    BY <1>4 DEF LoadFails
  <2> QED
    BY <1>1, <1>4, <2>1, Markers, SettlesKeeps
<1> QED
  BY <1>2, <1>3, <1>4

LEMMA AssembleKeeps ==
    ASSUME SnapshotInv, NEW r \in Refreshes, Assemble(r) PROVE SnapshotInv'
<1> DEFINE data == [s \in watched |-> Unwrapped(s, refresh[r].settled[s])]
           next == [refresh[r] EXCEPT !.pc = "metrics", !.settled = data]
<1>1. /\ refresh[r] \in RefreshType /\ refresh[r].pc = "compute"
      /\ lastGood \in [watched \union {ActivityQueries} -> Int]
      /\ version \in Nat \ {0}
      /\ \A s \in watched : s # ActivityQueries
      /\ UNCHANGED <<watched, version, running, heavyAge, published>>
  BY QueriesAreNoSection DEF Assemble, SnapshotInv, SnapshotTypeOK
<1>2. ASSUME NEW s \in watched
      PROVE  /\ data[s] \in Int /\ 0 <= data[s] /\ data[s] <= version
             /\ s \in Kept => InStock(s) <= data[s]
             /\ s = "realActivity" => data[s] <= InStock(ActivityQueries)
             /\ InStock(s)' = data[s]
  <2>1. refresh[r].settled[s] \in Int /\ refresh[r].settled[s] # Missing
    BY <1>1 DEF Assemble, RefreshType
  <2>2. lastGood'[s] = IF refresh[r].settled[s] # Rejected THEN data[s] ELSE lastGood[s]
    BY <1>1 DEF Assemble
  <2>3. CASE refresh[r].settled[s] = Rejected
    <3>1. data[s] = InStock(s) /\ s # "realActivity" /\ lastGood'[s] = lastGood[s]
      <4>1. s # "realActivity"
        BY <1>1, <2>3, Markers DEF SnapshotInv, SettledIsNewer
      <4> QED
        BY <2>2, <2>3, <4>1, StockType
    <3>2. InStock(s)' = InStock(s)
      BY <3>1 DEF InStock
    <3> QED
      BY <3>1, <3>2, StockType
  <2>4. CASE refresh[r].settled[s] # Rejected
    <3>1. data[s] = refresh[r].settled[s] /\ lastGood'[s] = data[s]
      BY <2>2, <2>4 DEF Unwrapped
    <3>2. /\ 0 <= data[s] /\ data[s] <= version
          /\ s \in Kept => InStock(s) <= data[s]
          /\ s = "realActivity" => data[s] <= InStock(ActivityQueries)
      BY <1>1, <2>1, <2>4, <3>1 DEF SnapshotInv, SettledIsNewer
    <3>3. InStock(s)' = data[s]
      BY <2>1, <3>1, <3>2, Markers DEF InStock
    <3> QED
      BY <2>1, <3>1, <3>2, <3>3
  <2> QED
    BY <2>3, <2>4
<1>3. /\ next \in RefreshType /\ next.pc = "metrics" /\ next.settled = data
  BY <1>1, <1>2 DEF RefreshType
<1>4. Proceed(r, next)
  BY DEF Assemble
<1>5. /\ lastGood' \in [watched \union {ActivityQueries} -> Int]
      /\ lastGood'[ActivityQueries] = lastGood[ActivityQueries]
      /\ \A s \in watched : lastGood'[s] = data[s] \/ lastGood'[s] = lastGood[s]
  BY <1>1, <1>2 DEF Assemble
<1>6. InStock(ActivityQueries)' = InStock(ActivityQueries)
  BY <1>5 DEF InStock
<1> HIDE DEF next
<1>7. /\ refresh' \in [Refreshes -> RefreshType]
      /\ refresh'[r] = next
      /\ \A q \in Refreshes : q # r => refresh'[q] = refresh[q] /\ refresh[q].pc = "idle"
      /\ OneRefresh'
  <2>1. running
    BY <1>1 DEF SnapshotInv, OneRefresh
  <2>2. running' \in BOOLEAN /\ running'
    BY <1>1, <2>1 DEF SnapshotInv, SnapshotTypeOK
  <2> QED
    BY <1>1, <1>3, <1>4, <2>1, <2>2, OneMoves
<1>8. SnapshotTypeOK'
  BY <1>1, <1>5, <1>7 DEF SnapshotInv, SnapshotTypeOK, RefreshType
<1>9. StockIsGood'
  <2>1. \A s \in watched \union {ActivityQueries} :
          lastGood'[s] = Missing \/ (lastGood'[s] >= 0 /\ lastGood'[s] <= version)
    BY <1>2, <1>5 DEF SnapshotInv, StockIsGood
  <2>2. "realActivity" \in watched => InStock("realActivity")' <= InStock(ActivityQueries)'
    BY <1>2, <1>6
  <2>3. \A s \in Kept : published[s] <= InStock(s)'
    <3> SUFFICES ASSUME NEW s \in Kept PROVE published[s] <= InStock(s)'
      OBVIOUS
    <3>1. s \in watched /\ published[s] \in Int /\ published[s] <= InStock(s) /\ InStock(s) \in Int
      BY StockType DEF Kept, SnapshotInv, SnapshotTypeOK, StockIsGood
    <3> QED
      BY <1>2, <3>1
  <2> QED
    BY <1>1, <2>1, <2>2, <2>3 DEF StockIsGood, Kept
<1>10. SettledIsNewer'
  BY <1>1, <1>2, <1>3, <1>7 DEF SettledIsNewer, Kept
<1> QED
  BY <1>7, <1>8, <1>9, <1>10 DEF SnapshotInv

(* Metrics are computed, the row is written, or either fails. *)
LEMMA MetricsKeep ==
    ASSUME SnapshotInv, NEW r \in Refreshes, ComputeMetrics(r) PROVE SnapshotInv'
<1> DEFINE next == [refresh[r] EXCEPT !.pc = "upsert"]
<1>1. refresh[r] \in RefreshType /\ refresh[r].pc = "metrics"
  BY DEF ComputeMetrics, SnapshotInv, SnapshotTypeOK
<1>2. next \in RefreshType /\ next.pc = "upsert" /\ next.settled = refresh[r].settled
  BY <1>1 DEF RefreshType
<1>3. Proceed(r, next)
  BY DEF ComputeMetrics
<1> HIDE DEF next
<1>4. running /\ running' = running
  BY <1>1 DEF ComputeMetrics, SnapshotInv, OneRefresh
<1>5. /\ refresh' \in [Refreshes -> RefreshType]
      /\ refresh'[r] = next
      /\ \A q \in Refreshes : q # r => refresh'[q] = refresh[q] /\ refresh[q].pc = "idle"
      /\ OneRefresh'
  BY <1>1, <1>2, <1>3, <1>4, OneMoves
<1>6. SnapshotTypeOK'
  BY <1>5 DEF ComputeMetrics, SnapshotInv, SnapshotTypeOK, RefreshType
<1>7. StockIsGood'
  BY DEF ComputeMetrics, SnapshotInv, StockIsGood, InStock, Kept
<1>8. SettledIsNewer'
  BY <1>1, <1>2, <1>5 DEF ComputeMetrics, SnapshotInv, SettledIsNewer, InStock, Kept
<1> QED
  BY <1>5, <1>6, <1>7, <1>8 DEF SnapshotInv

LEMMA IdleType == SnapshotTypeOK => IdleRefresh \in RefreshType /\ IdleRefresh.pc = "idle"
  BY DEF IdleRefresh, RefreshType, Waiting, Missing

LEMMA RefreshEnds ==
    ASSUME SnapshotInv, NEW r \in Refreshes, refresh[r].pc # "idle",
           Proceed(r, IdleRefresh), running' = FALSE, UNCHANGED <<watched, version, heavyAge, lastGood>>,
           published' \in [watched -> Int], \A s \in Kept : published'[s] <= InStock(s)
    PROVE  SnapshotInv'
<1>1. /\ refresh' \in [Refreshes -> RefreshType]
      /\ refresh'[r] = IdleRefresh
      /\ \A q \in Refreshes : q # r => refresh'[q] = refresh[q] /\ refresh[q].pc = "idle"
      /\ OneRefresh'
  BY IdleType, OneMoves DEF SnapshotInv
<1>2. SnapshotTypeOK'
  BY <1>1 DEF SnapshotInv, SnapshotTypeOK, RefreshType
<1>3. StockIsGood'
  BY DEF SnapshotInv, StockIsGood, InStock, Kept
<1>4. \A q \in Refreshes : refresh'[q].pc = "idle"
  BY <1>1, IdleType DEF SnapshotInv
<1>5. SettledIsNewer'
  BY <1>4 DEF SettledIsNewer
<1> QED
  BY <1>1, <1>2, <1>3, <1>5 DEF SnapshotInv

LEMMA UpsertKeeps ==
    ASSUME SnapshotInv, NEW r \in Refreshes, Upsert(r) PROVE SnapshotInv' /\ Advances
<1>1. /\ refresh[r].pc = "upsert" /\ published' = refresh[r].settled
      /\ published' \in [watched -> Int]
  BY DEF Upsert, SnapshotInv, SnapshotTypeOK, RefreshType
<1>2. \A s \in Kept : published'[s] = InStock(s)
  BY <1>1 DEF SnapshotInv, SettledIsNewer
<1>3. \A s \in Kept : published[s] <= InStock(s) /\ InStock(s) \in Int /\ published[s] \in Int
  BY StockType DEF Kept, SnapshotInv, StockIsGood, SnapshotTypeOK
<1>4. \A s \in Kept : published'[s] <= InStock(s)
  BY <1>2, <1>3
<1>5. SnapshotInv'
  BY <1>1, <1>4, RefreshEnds DEF Upsert
<1> QED
  BY <1>2, <1>3, <1>5 DEF Advances

LEMMA FailureKeeps ==
    ASSUME SnapshotInv, NEW r \in Refreshes, RefreshFails(r) PROVE SnapshotInv'
  BY RefreshEnds DEF RefreshFails, SnapshotInv, StockIsGood, SnapshotTypeOK

LEMMA RestartKeeps == ASSUME SnapshotInv, WorkerRestarts PROVE SnapshotInv' /\ Advances
<1>1. /\ \A s \in watched \union {ActivityQueries} : lastGood'[s] = Missing
      /\ lastGood' \in [watched \union {ActivityQueries} -> Int]
  BY DEF WorkerRestarts, NothingGood, Missing
<1>2. \A r \in Refreshes : refresh'[r] = IdleRefresh
  BY DEF WorkerRestarts
<1>3. published' = Unpublished /\ published' \in [watched -> Int] /\ \A s \in watched : published'[s] = Missing
  BY DEF WorkerRestarts, Unpublished, Waiting, Missing
<1>4. SnapshotTypeOK'
  BY <1>1, <1>3, IdleType, SnapshotAssumption DEF WorkerRestarts, SnapshotInv, SnapshotTypeOK, RefreshType
<1>5. \A r \in Refreshes : refresh'[r].pc = "idle"
  BY <1>2, IdleType DEF SnapshotInv
<1>6. OneRefresh' /\ SettledIsNewer'
  BY <1>5 DEF OneRefresh, SettledIsNewer
<1>7. StockIsGood'
  BY <1>1, <1>3, Markers DEF WorkerRestarts, StockIsGood, InStock, Kept
<1> QED
  BY <1>3, <1>4, <1>6, <1>7 DEF SnapshotInv, Advances

-------------------------------------------------------------------------------
LEMMA SnapshotInitHolds == SnapshotInit => SnapshotInv
<1> SUFFICES ASSUME SnapshotInit PROVE SnapshotInv
  OBVIOUS
<1>1. watched \subseteq SectionNames
  BY SnapshotAssumption DEF SnapshotInit
<1>2. \A r \in Refreshes : refresh[r] = IdleRefresh /\ IdleRefresh \in RefreshType
                           /\ IdleRefresh.pc = "idle"
  BY DEF SnapshotInit, IdleRefresh, RefreshType, Waiting, Missing
<1>3. SnapshotTypeOK
  <2>1. version \in Nat \ {0} /\ heavyAge \in Nat
    BY SnapshotAssumption DEF SnapshotInit
  <2>2. running \in BOOLEAN
    BY Zenon DEF SnapshotInit
  <2>3. /\ lastGood \in [watched \union {ActivityQueries} -> Int]
        /\ published \in [watched -> Int]
    BY DEF SnapshotInit, NothingGood, Unpublished, Waiting, Missing
  <2>4. refresh \in [Refreshes -> RefreshType]
    BY <1>2 DEF SnapshotInit
  <2> QED
    BY <1>1, <2>1, <2>2, <2>3, <2>4 DEF SnapshotTypeOK
<1>4. OneRefresh /\ SettledIsNewer
  BY <1>2 DEF OneRefresh, SettledIsNewer
<1>5. StockIsGood
  BY Markers DEF SnapshotInit, StockIsGood, InStock, Kept, NothingGood, Unpublished, Waiting
<1> QED
  BY <1>3, <1>4, <1>5 DEF SnapshotInv

LEMMA SnapshotStepKeeps == SnapshotInv /\ [SnapshotNext]_snapshotVars => SnapshotInv' /\ [Advances]_published
<1> SUFFICES ASSUME SnapshotInv, [SnapshotNext]_snapshotVars
             PROVE  SnapshotInv' /\ [Advances]_published
  OBVIOUS
<1>1. CASE UNCHANGED snapshotVars
  BY <1>1 DEF snapshotVars, SnapshotInv, SnapshotTypeOK, RefreshType, OneRefresh, StockIsGood,
     SettledIsNewer, InStock, Kept
<1>2. CASE TablesChange
  BY <1>2 DEF TablesChange, SnapshotInv, SnapshotTypeOK, RefreshType, OneRefresh, StockIsGood,
     SettledIsNewer, InStock, Kept
<1>3. CASE TimePasses
  BY <1>3 DEF TimePasses, SnapshotInv, SnapshotTypeOK, RefreshType, OneRefresh, StockIsGood,
     SettledIsNewer, InStock, Kept
<1>4. CASE WorkerRestarts
  BY <1>4, RestartKeeps
<1>5. ASSUME NEW r \in Refreshes, Start(r) PROVE SnapshotInv' /\ published' = published
  BY <1>5, StartKeeps DEF Start
<1>6. ASSUME NEW r \in Refreshes, RefreshSteps(r) PROVE SnapshotInv' /\ [Advances]_published
  <2>1. ASSUME NEW s \in watched, Loads(r, s) PROVE SnapshotInv' /\ published' = published
    BY <2>1, LoadsKeeps DEF Loads, Settles
  <2>2. CASE Assemble(r)
    BY <2>2, AssembleKeeps DEF Assemble
  <2>3. CASE ComputeMetrics(r)
    BY <2>3, MetricsKeep DEF ComputeMetrics
  <2>4. CASE Upsert(r)
    BY <2>4, UpsertKeeps
  <2> QED
    BY <1>6, <2>1, <2>2, <2>3, <2>4 DEF RefreshSteps
<1>7. ASSUME NEW r \in Refreshes, RefreshFailures(r) PROVE SnapshotInv' /\ published' = published
  <2>1. ASSUME NEW s \in watched, LoadFails(r, s) PROVE SnapshotInv' /\ published' = published
    BY <2>1, LoadFailsKeeps DEF LoadFails, Settles
  <2>2. CASE RefreshFails(r)
    BY <2>2, FailureKeeps DEF RefreshFails
  <2> QED
    BY <1>7, <2>1, <2>2 DEF RefreshFailures
<1> QED
  BY <1>1, <1>2, <1>3, <1>4, <1>5, <1>6, <1>7 DEF SnapshotNext

(* For any failures of sections, metrics and upserts: until the worker       *)
(* restarts no publication takes a section back (refreshSnapshot's running   *)
(* flag and unwrapSection's last good values).                               *)
THEOREM SectionsStand == SnapshotSpec => SectionsNeverGoBack
<1>1. SnapshotInit => SnapshotInv
  BY SnapshotInitHolds
<1>2. SnapshotInv /\ [SnapshotNext]_snapshotVars => SnapshotInv' /\ [Advances]_published
  BY SnapshotStepKeeps
<1>3. Advances => (published' = Unpublished
                     \/ \A s \in watched \ {"missingBlockRanges"} : published'[s] >= published[s])
  BY DEF Advances, Kept
<1> QED
  BY <1>1, <1>2, <1>3, PTL DEF SnapshotSpec, SectionsNeverGoBack

-------------------------------------------------------------------------------
(* DashboardSections: numbers. *)

(* The larger and the smaller of two integers. *)
LEMMA MaxOfTwo == \A a, b \in Int : Max({a, b}) = IF a >= b THEN a ELSE b
<1> SUFFICES ASSUME NEW a \in Int, NEW b \in Int PROVE Max({a, b}) = IF a >= b THEN a ELSE b
  OBVIOUS
<1>1. \E x \in {a, b} : \A y \in {a, b} : x >= y
  OBVIOUS
<1>2. Max({a, b}) \in {a, b} /\ \A y \in {a, b} : Max({a, b}) >= y
  BY <1>1 DEF Max
<1> QED BY <1>2

LEMMA MinOfTwo == \A a, b \in Int : Min({a, b}) = IF a <= b THEN a ELSE b
<1> SUFFICES ASSUME NEW a \in Int, NEW b \in Int PROVE Min({a, b}) = IF a <= b THEN a ELSE b
  OBVIOUS
<1>1. \E x \in {a, b} : \A y \in {a, b} : x <= y
  OBVIOUS
<1>2. Min({a, b}) \in {a, b} /\ \A y \in {a, b} : Min({a, b}) <= y
  BY <1>1 DEF Min
<1> QED BY <1>2

LEMMA IntervalCount ==
  \A a, b \in Int : /\ IsFiniteSet(a .. b)
                    /\ Cardinality(a .. b) = IF a > b THEN 0 ELSE b - a + 1
  BY FS_Interval

(* A share of a whole, in tenths of a percent, is between 0 and 1000. *)
LEMMA ShareIsRate ==
  \A n, m \in Nat : m > 0 /\ n <= m => (2000 * n + m) \div (2 * m) \in 0 .. 1000
<1> SUFFICES ASSUME NEW n \in Nat, NEW m \in Nat, m > 0, n <= m
             PROVE  (2000 * n + m) \div (2 * m) \in 0 .. 1000
  OBVIOUS
<1> DEFINE d == 2 * m
           p == 2000 * n + m
           q == p \div d
<1>1. d \in Nat \ {0} /\ p \in Nat /\ p < 1001 * d
  OBVIOUS
<1> HIDE DEF d, p
<1>2. q \in Int /\ p = d * q + (p % d) /\ p % d \in 0 .. d - 1
  BY <1>1
<1> HIDE DEF q
<1>3. d * q <= p /\ p < d * (q + 1)
  BY <1>1, <1>2
<1>4. q >= 0
  <2> SUFFICES ASSUME q + 1 <= 0 PROVE FALSE
    BY <1>2
  <2>1. d * (q + 1) <= 0
    BY <1>1, <1>2
  <2> QED BY <2>1, <1>3, <1>1, <1>2
<1>5. q <= 1000
  <2> SUFFICES ASSUME q >= 1001 PROVE FALSE
    BY <1>2
  <2>1. d * q >= d * 1001
    BY <1>1, <1>2
  <2> QED BY <2>1, <1>3, <1>1, <1>2
<1> QED BY <1>2, <1>4, <1>5 DEF q, p, d

(* A finite set of integers has a largest one. *)
LEMMA MaxOfFinite ==
  ASSUME NEW S, IsFiniteSet(S), S \subseteq Int, S # {}
  PROVE  Max(S) \in S /\ \A y \in S : Max(S) >= y
<1> DEFINE Above(x) == {y \in S : y >= x}
           T == {Above(x) : x \in S}
<1>1. PICK U \in T : \A V \in T : V \subseteq U => V = U
  <2>1. T \subseteq SUBSET S /\ T # {}
    OBVIOUS
  <2> HIDE DEF T
  <2> QED BY ONLY <2>1, IsFiniteSet(S), SmallestSubset
<1>2. PICK x \in S : U = Above(x)
  OBVIOUS
<1>3. \A y \in S : x >= y
  <2> SUFFICES ASSUME NEW y \in S, y > x PROVE FALSE
    OBVIOUS
  <2>1. Above(y) \in T
    OBVIOUS
  <2>3. \A z \in S : z >= y => z >= x
    OBVIOUS
  <2>4. Above(y) \subseteq Above(x)
    BY <2>3
  <2>2. x \in Above(x) /\ x \notin Above(y)
    OBVIOUS
  <2> QED BY <2>1, <2>2, <2>4, <1>1, <1>2
<1> QED BY <1>3 DEF Max

-------------------------------------------------------------------------------
(* DashboardSections: the invariant. *)

DbType == [events : SUBSET EventRows, users : SUBSET ActivityRows,
           userFailures : SUBSET {t.hash : t \in ActivityRows},
           health : [SignTxs -> HealthRows \union {NoHealthRow}]]

(* Counts of health rows: each row counts under one outcome. *)
HealthAddsUp(counts) ==
    /\ counts.total \in Nat /\ counts.succeeded \in Nat /\ counts.failed \in Nat
    /\ counts.pending \in Nat /\ counts.guardFailed \in Nat /\ counts.mpcFailed \in Nat
    /\ counts.mpcAttempted \in Nat
    /\ counts.succeeded + counts.failed + counts.pending = counts.total
    /\ counts.guardFailed + counts.mpcFailed <= counts.failed
    /\ counts.mpcFailed <= counts.mpcAttempted

(* What an answer is, whenever it was given. *)
Counted(groups) == \A k \in DOMAIN groups : groups[k] \in Nat
AnswerOK(q, answer) ==
    /\ q[1] = "signs" => answer \in Nat
    /\ q[1] = "outcomes" => \A w \in Windows : answer.failed[w] \in Nat /\ answer.pending[w] \in Nat
    /\ q[1] \in {"total", "failed"} => Counted(answer)
    /\ q[1] = "relayed" => Counted(answer.total) /\ Counted(answer.failed)
    /\ q[1] = "activity" => \A w \in Windows : answer.total[w] \in Nat /\ answer.failed[w] \in Nat
    /\ q[1] = "health" => HealthAddsUp(answer)
    /\ q[1] = "history" => \A b \in DOMAIN answer : HealthAddsUp(answer[b])

SectionTypeOK ==
    /\ db \in DbType
    /\ section \in Sections
    /\ late \in Nat
    /\ \A q \in DOMAIN got : AnswerOK(q, got[q])

(* Without a write since the first answer, the tables still answer the same. *)
AnswersStand == late = 0 => \A q \in DOMAIN got : got[q] \in AnswersTo(q)

SectionInv == SectionTypeOK /\ AnswersStand

-------------------------------------------------------------------------------
(* Counts. *)

LEMMA RowsAreFinite ==
  ASSUME db \in DbType
  PROVE  /\ db.events \subseteq EventRows /\ db.users \subseteq ActivityRows
         /\ \A S \in SUBSET db.events : IsFiniteSet(S) /\ Cardinality(S) \in Nat
         /\ \A S \in SUBSET db.users : IsFiniteSet(S) /\ Cardinality(S) \in Nat
<1>1. db.events \subseteq EventRows /\ db.users \subseteq ActivityRows
  BY DEF DbType
<1>2. IsFiniteSet(db.events) /\ IsFiniteSet(db.users)
  BY <1>1, SectionAssumption, FS_Subset
<1> QED BY <1>1, <1>2, FS_Subset, FS_CardinalityType

LEMMA WindowsType ==
  /\ \A w \in Windows : since[w] \in 0 .. Now
  /\ Shown \subseteq Windows \ {"all"} /\ windows[1] \in Shown
  /\ Windows = Shown \union {"all"} /\ "all" \notin Shown
<1>1. Windows = {windows[i] : i \in DOMAIN windows} \union {"all"}
  BY SectionAssumption DEF Windows
<1>2. \A i \in DOMAIN windows : windows[i] \in Windows \ {"all"}
  BY SectionAssumption
<1>3. 1 \in DOMAIN windows
  BY SectionAssumption
<1> QED BY <1>1, <1>2, <1>3, SectionAssumption DEF Windows, Shown

(* HealthIn is one row for each classified transaction. *)
LEMMA HealthRowsType ==
  ASSUME db \in DbType, NEW first
  PROVE  /\ IsFiniteSet(HealthIn(first))
         /\ \A r \in HealthIn(first) :
               /\ r.outcome \in Outcomes /\ (r.outcome = "mpc_failure" => r.reachedMpc)
               /\ r.at \in 0 .. Now /\ r.at >= first
               /\ r.tx \in SignTxs /\ db.health[r.tx] # NoHealthRow
               /\ r = [tx |-> r.tx, at |-> TxRow(r.tx).at, outcome |-> db.health[r.tx].outcome,
                       reachedMpc |-> db.health[r.tx].reachedMpc]
<1> DEFINE F(tx) == [tx |-> tx, at |-> TxRow(tx).at, outcome |-> db.health[tx].outcome,
                     reachedMpc |-> db.health[tx].reachedMpc]
           T == {x \in SignTxs : db.health[x] # NoHealthRow /\ TxRow(x).at >= first}
<1>1. HealthIn(first) = {F(tx) : tx \in T}
  BY DEF HealthIn
<1>2. IsFiniteSet(SignTxs)
  <2> DEFINE f == [e \in EventRows |-> e.tx]
  <2>1. f \in Surjection(EventRows, SignTxs)
    BY DEF SignTxs, Surjection
  <2> QED BY <2>1, SectionAssumption, FS_Surjection
<1>3. IsFiniteSet(T)
  BY <1>2, FS_Subset
<1>4. IsFiniteSet(HealthIn(first))
  <2> DEFINE f == [tx \in T |-> F(tx)]
  <2>1. f \in Surjection(T, {F(tx) : tx \in T})
    BY DEF Surjection
  <2> HIDE DEF T, F, f
  <2> QED BY <2>1, <1>1, <1>3, FS_Surjection
<1>5. ASSUME NEW tx \in T
      PROVE  /\ db.health[tx] \in HealthRows /\ tx \in SignTxs
             /\ TxRow(tx).at \in 0 .. Now /\ TxRow(tx).at >= first
  <2>1. db.health[tx] \in HealthRows
    BY <1>5 DEF DbType
  <2>2. TxRow(tx) \in EventRows
    BY DEF TxRow, SignTxs
  <2> QED BY <2>1, <2>2, SectionAssumption
<1>6. ASSUME NEW r \in HealthIn(first)
      PROVE  /\ r.outcome \in Outcomes /\ (r.outcome = "mpc_failure" => r.reachedMpc)
             /\ r.at \in 0 .. Now /\ r.at >= first
             /\ r.tx \in SignTxs /\ db.health[r.tx] # NoHealthRow
             /\ r = F(r.tx)
  <2>1. PICK tx \in T : r = F(tx)
    BY <1>1
  <2>2. r.tx = tx /\ r.at = TxRow(tx).at /\ r.outcome = db.health[tx].outcome
        /\ r.reachedMpc = db.health[tx].reachedMpc
    BY <2>1
  <2>3. /\ db.health[tx].outcome \in Outcomes
        /\ db.health[tx].outcome = "mpc_failure" => db.health[tx].reachedMpc
    <3> DEFINE verdict == db.health[tx]
    <3>1. verdict \in HealthRows
      BY <1>5
    <3> HIDE DEF verdict
    <3>2. verdict.outcome \in Outcomes /\ (verdict.outcome = "mpc_failure" => verdict.reachedMpc)
      BY <3>1, SectionAssumption, Zenon
    <3> QED BY <3>2, Zenon DEF verdict
  <2> QED BY <2>1, <2>2, <2>3, <1>5
<1> QED BY <1>4, <1>6

LEMMA HealthCountsAddUp ==
  ASSUME NEW rows, IsFiniteSet(rows),
         \A r \in rows : r.outcome \in Outcomes /\ (r.outcome = "mpc_failure" => r.reachedMpc)
  PROVE  HealthAddsUp(HealthCounts(rows))
<1> DEFINE S == {r \in rows : r.outcome \in {"success"}}
           F == {r \in rows : r.outcome \in FailureOutcomes}
           P == {r \in rows : r.outcome \in {"rpc_pending"}}
           G == {r \in rows : r.outcome \in {"guard_failure"}}
           M == {r \in rows : r.outcome \in {"mpc_failure"}}
           A == {r \in rows : r.reachedMpc}
<1>1. /\ rows = (S \union F) \union P /\ S \cap F = {} /\ (S \union F) \cap P = {}
      /\ G \union M \subseteq F /\ G \cap M = {} /\ M \subseteq A
  BY DEF Outcomes, FailureOutcomes
<1>2. \A T \in SUBSET rows : IsFiniteSet(T) /\ Cardinality(T) \in Nat
  BY FS_Subset, FS_CardinalityType
<1>3. S \in SUBSET rows /\ F \in SUBSET rows /\ P \in SUBSET rows
      /\ G \in SUBSET rows /\ M \in SUBSET rows /\ A \in SUBSET rows
  OBVIOUS
<1>4. /\ HealthCounts(rows).total = Cardinality(rows)
      /\ HealthCounts(rows).succeeded = Cardinality(S)
      /\ HealthCounts(rows).failed = Cardinality(F)
      /\ HealthCounts(rows).pending = Cardinality(P)
      /\ HealthCounts(rows).guardFailed = Cardinality(G)
      /\ HealthCounts(rows).mpcFailed = Cardinality(M)
      /\ HealthCounts(rows).mpcAttempted = Cardinality(A)
  BY DEF HealthCounts, Said
<1> HIDE DEF S, F, P, G, M, A
<1>5. Cardinality(S \union F) = Cardinality(S) + Cardinality(F)
  <2>1. Cardinality(S \union F) = Cardinality(S) + Cardinality(F) - Cardinality(S \cap F)
    BY <1>2, <1>3, FS_Union
  <2> QED BY <2>1, <1>1, <1>2, <1>3, FS_EmptySet
<1>6. Cardinality(rows) = Cardinality(S) + Cardinality(F) + Cardinality(P)
  <2>1. Cardinality((S \union F) \union P)
           = Cardinality(S \union F) + Cardinality(P) - Cardinality((S \union F) \cap P)
    BY <1>2, <1>3, FS_Union
  <2> QED BY <2>1, <1>1, <1>2, <1>3, <1>5, FS_EmptySet
<1>7. Cardinality(G) + Cardinality(M) <= Cardinality(F)
  <2>1. Cardinality(G \union M) = Cardinality(G) + Cardinality(M) - Cardinality(G \cap M)
    BY <1>2, <1>3, FS_Union
  <2>2. Cardinality(G \union M) <= Cardinality(F)
    BY <1>1, <1>2, <1>3, FS_Subset
  <2> QED BY <2>1, <2>2, <1>1, <1>2, <1>3, FS_EmptySet
<1>8. Cardinality(M) <= Cardinality(A)
  BY <1>1, <1>2, <1>3, FS_Subset
<1> QED BY <1>2, <1>3, <1>4, <1>6, <1>7, <1>8 DEF HealthAddsUp

-------------------------------------------------------------------------------
(* The invariant. *)

LEMMA GroupsAreCounted ==
  ASSUME db \in DbType, NEW w
  PROVE  /\ Counted(Groups(EventsIn(w), Column))
         /\ Counted(SignFailedByDimension(w))
         /\ Counted(RelayedIn(w).total) /\ Counted(RelayedIn(w).failed)
<1>1. /\ \A S \in SUBSET db.events : Cardinality(S) \in Nat
      /\ \A S \in SUBSET db.users : Cardinality(S) \in Nat
  BY RowsAreFinite
<1>2. EventsIn(w) \in SUBSET db.events /\ UsersIn(w) \in SUBSET db.users
  BY DEF EventsIn, UsersIn
<1>3. Counted(Groups(EventsIn(w), Column))
  BY <1>1, <1>2 DEF Counted, Groups
<1>4. Counted(SignFailedByDimension(w))
  BY <1>1, <1>2 DEF Counted, Groups, SignFailedByDimension
<1>5. Counted(RelayedIn(w).total) /\ Counted(RelayedIn(w).failed)
  BY <1>1, <1>2 DEF Counted, Groups, RelayedIn
<1> QED BY <1>3, <1>4, <1>5

LEMMA AnswersAreOK ==
  ASSUME db \in DbType, NEW q, NEW answer \in AnswersTo(q)
  PROVE  AnswerOK(q, answer)
<1>0. /\ \A S \in SUBSET db.events : Cardinality(S) \in Nat
      /\ \A S \in SUBSET db.users : Cardinality(S) \in Nat
      /\ \A w : EventsIn(w) \in SUBSET db.events
  BY RowsAreFinite DEF EventsIn
<1>1. q[1] = "signs" => answer \in Nat
  BY <1>0 DEF AnswersTo
<1>2. q[1] = "outcomes" => \A w \in Windows : answer.failed[w] \in Nat /\ answer.pending[w] \in Nat
  <2> SUFFICES ASSUME q[1] = "outcomes", NEW w \in Windows
               PROVE  answer.failed[w] \in Nat /\ answer.pending[w] \in Nat
    OBVIOUS
  <2>1. answer = SignOutcomes
    BY DEF AnswersTo
  <2> QED BY <2>1, <1>0 DEF SignOutcomes, PerWindow
<1>3. q[1] \in {"total", "failed"} => Counted(answer)
  BY GroupsAreCounted DEF AnswersTo
<1>4. q[1] = "relayed" => Counted(answer.total) /\ Counted(answer.failed)
  BY GroupsAreCounted DEF AnswersTo
<1>5. q[1] = "activity" => \A w \in Windows : answer.total[w] \in Nat /\ answer.failed[w] \in Nat
  <2> SUFFICES ASSUME q[1] = "activity", NEW w \in Windows
               PROVE  answer.total[w] \in Nat /\ answer.failed[w] \in Nat
    OBVIOUS
  <2>1. answer = ActivityWindows
    BY DEF AnswersTo
  <2> QED BY <2>1, <1>0 DEF ActivityWindows, PerWindow
<1>6. q[1] = "health" => HealthAddsUp(answer)
  BY HealthRowsType, HealthCountsAddUp DEF AnswersTo
<1>7. q[1] = "history" => \A b \in DOMAIN answer : HealthAddsUp(answer[b])
  <2> SUFFICES ASSUME q[1] = "history", NEW b \in DOMAIN answer PROVE HealthAddsUp(answer[b])
    OBVIOUS
  <2>1. answer = History
    BY DEF AnswersTo
  <2> DEFINE rows == {r \in HealthIn(b * BinSize) : Bin(r.at) = b}
  <2>2. IsFiniteSet(rows) /\ \A r \in rows : r.outcome \in Outcomes /\ (r.outcome = "mpc_failure" => r.reachedMpc)
    BY HealthRowsType, FS_Subset
  <2>3. answer[b] = HealthCounts(rows)
    BY <2>1 DEF History
  <2> HIDE DEF rows
  <2> QED BY <2>2, <2>3, HealthCountsAddUp
<1> QED BY <1>1, <1>2, <1>3, <1>4, <1>5, <1>6, <1>7 DEF AnswerOK

LEMMA SectionInitHolds == SectionInit => SectionInv
<1> SUFFICES ASSUME SectionInit PROVE SectionInv
  OBVIOUS
<1>1. db \in DbType
  BY DEF SectionInit, DbType
<1>2. DOMAIN got = {}
  BY DEF SectionInit
<1> QED BY <1>1, <1>2 DEF SectionInit, SectionInv, SectionTypeOK, AnswersStand

LEMMA AnswersUnchanged ==
  ASSUME UNCHANGED <<db, column>> PROVE \A x : AnswersTo(x)' = AnswersTo(x)
<1>1. /\ \A w : EventsIn(w)' = EventsIn(w) /\ UsersIn(w)' = UsersIn(w)
      /\ \A e : Failed(e)' = Failed(e) /\ OutcomeOf(e)' = OutcomeOf(e)
      /\ \A t : UserFailed(t)' = UserFailed(t)
      /\ \A e : Column(e)' = Column(e) /\ ClassOf(e)' = ClassOf(e)
      /\ Owned' = Owned
  BY DEF EventsIn, UsersIn, Failed, OutcomeOf, UserFailed, Column, ClassOf, Owned
<1>2. \A first : HealthIn(first)' = HealthIn(first)
  BY DEF HealthIn
<1>3. SignOutcomes' = SignOutcomes
  BY <1>1 DEF SignOutcomes
<1>4. AccountCounts' = AccountCounts /\ ActionCounts' = ActionCounts
  BY <1>1 DEF AccountCounts, ActionCounts, Tally, Largest, Foremost
<1>5. \A w : Groups(EventsIn(w), Column)' = Groups(EventsIn(w), Column)
  BY <1>1 DEF Groups
<1>6. \A w : SignFailedByDimension(w)' = SignFailedByDimension(w)
  BY <1>1 DEF SignFailedByDimension, Groups
<1>7. \A w : DistinctUsers(w)' = DistinctUsers(w)
  BY <1>1 DEF DistinctUsers, Groups
<1>8. \A w : SponsoredPairs(w)' = SponsoredPairs(w)
  BY <1>1 DEF SponsoredPairs
<1>9. \A w : RelayedIn(w)' = RelayedIn(w)
  BY <1>1 DEF RelayedIn, Groups
<1>10. LastSuccess' = LastSuccess
  BY <1>2 DEF LastSuccess
<1>11. \A outcomes : RecentFailures(outcomes)' = RecentFailures(outcomes)
  BY <1>2 DEF RecentFailures, Foremost
<1>12. History' = History
  BY <1>2 DEF History
<1>13. ActivityWindows' = ActivityWindows
  BY <1>1 DEF ActivityWindows
<1>14. AccountClasses' = AccountClasses
  BY <1>1 DEF AccountClasses, LatestEvents, IsLatest
<1>15. \A classes : Joined(classes)' = Joined(classes)
  BY <1>1 DEF Joined
<1>16. ClassGroups' = ClassGroups /\ \A inner : Crossed(inner)' = Crossed(inner)
  <2>1. ClassGroups' = ClassGroups
    BY ZenonT(40), <1>14, <1>15 DEF ClassGroups, Tally
  <2>2. \A inner : Crossed(inner)' = Crossed(inner)
    <3>1. \A classes, inner : CrossTally(classes, inner)' = CrossTally(classes, inner)
      BY ZenonT(40), <1>15 DEF CrossTally, Tally
    <3> QED BY ZenonT(40), <1>14, <3>1 DEF Crossed
  <2> QED BY <2>1, <2>2
<1>17. /\ Largest(Tally(db.users, LAMBDA t : t.receiver), TopGroups)'
             = Largest(Tally(db.users, LAMBDA t : t.receiver), TopGroups)
       /\ Largest(Tally(db.users, LAMBDA t : t.method), TopGroups)'
             = Largest(Tally(db.users, LAMBDA t : t.method), TopGroups)
  BY DEF Tally, Largest, Foremost
<1>18. PerWindow(db.events)' = PerWindow(db.events)
  OBVIOUS
<1> QED BY <1>1, <1>2, <1>3, <1>4, <1>5, <1>6, <1>7, <1>8, <1>9, <1>10, <1>11, <1>12, <1>13,
           <1>16, <1>17, <1>18 DEF AnswersTo

LEMMA QueryKeeps == ASSUME SectionInv, NEW q, Query(q) PROVE SectionInv'
<1>1. PICK answer \in AnswersTo(q) : got' = [x \in Answered \union {q} |-> IF x = q THEN answer ELSE got[x]]
  BY DEF Query
<1>2. UNCHANGED <<db, section, column, late>> /\ q \notin Answered
  BY DEF Query
<1>3. \A x : AnswersTo(x)' = AnswersTo(x)
  BY <1>2, AnswersUnchanged
<1>4. AnswerOK(q, answer)
  BY AnswersAreOK DEF SectionInv, SectionTypeOK
<1>5. DOMAIN got' = DOMAIN got \union {q} /\ got'[q] = answer /\ \A x \in DOMAIN got : got'[x] = got[x]
  BY <1>1, <1>2 DEF Answered
<1> QED BY <1>2, <1>3, <1>4, <1>5 DEF SectionInv, SectionTypeOK, AnswersStand, AnswerOK, HealthAddsUp, Counted

LEMMA WriteKeeps ==
  ASSUME SectionInv, NEW tables, tables \in DbType, Write(tables) PROVE SectionInv'
<1>1. db' \in DbType /\ UNCHANGED <<section, column, got>> /\ late' = IF got = <<>> THEN 0 ELSE late + 1
  BY DEF Write
<1>2. late' = 0 => DOMAIN got = {}
  BY <1>1 DEF SectionInv, SectionTypeOK
<1> QED BY <1>1, <1>2 DEF SectionInv, SectionTypeOK, AnswersStand, AnswerOK, HealthAddsUp, Counted

LEMMA SectionNextKeeps == SectionInv /\ [SectionNext]_sectionVars => SectionInv'
<1> SUFFICES ASSUME SectionInv, [SectionNext]_sectionVars PROVE SectionInv'
  OBVIOUS
<1>0. db \in DbType
  BY DEF SectionInv, SectionTypeOK
<1>1. CASE UNCHANGED sectionVars
  <2>1. \A x : AnswersTo(x)' = AnswersTo(x)
    BY <1>1, AnswersUnchanged DEF sectionVars
  <2> QED BY <1>1, <2>1 DEF sectionVars, SectionInv, SectionTypeOK, AnswersStand, AnswerOK, HealthAddsUp, Counted
<1>2. ASSUME NEW q, Query(q) PROVE SectionInv'
  BY <1>2, QueryKeeps
<1>3. ASSUME NEW e \in EventRows, EventArrives(e) PROVE SectionInv'
  <2>1. [db EXCEPT !.events = @ \union {e}] \in DbType
    BY <1>0 DEF DbType
  <2> QED BY <2>1, <1>3, WriteKeeps DEF EventArrives
<1>4. ASSUME NEW t \in ActivityRows, UserTxArrives(t) PROVE SectionInv'
  <2>1. [db EXCEPT !.users = @ \union {t}] \in DbType
    BY <1>0 DEF DbType
  <2> QED BY <2>1, <1>4, WriteKeeps DEF UserTxArrives
<1>5. ASSUME NEW t \in ActivityRows, UserTxFails(t) PROVE SectionInv'
  <2>1. [db EXCEPT !.userFailures = @ \union {t.hash}] \in DbType
    BY <1>0 DEF DbType
  <2> QED BY <2>1, <1>5, WriteKeeps DEF UserTxFails
<1>6. ASSUME NEW tx \in SignTxs, NEW verdict \in HealthRows, Classified(tx, verdict) PROVE SectionInv'
  <2>1. [db EXCEPT !.health[tx] = verdict] \in DbType
    BY <1>0 DEF DbType
  <2> QED BY <2>1, <1>6, WriteKeeps DEF Classified
<1> QED BY <1>1, <1>2, <1>3, <1>4, <1>5, <1>6 DEF SectionNext

(* The invariant of a load, whatever is written meanwhile (the loaders of    *)
(* DashboardDataService).                                                     *)
THEOREM SectionInvHolds == SectionSpec => []SectionInv
  BY SectionInitHolds, SectionNextKeeps, PTL DEF SectionSpec

-------------------------------------------------------------------------------
(* The rates. *)

LEMMA LoadedHas ==
  ASSUME Loaded, SectionInv
  PROVE  /\ section = "overview" =>
               /\ \A w \in Windows : <<"signs", w>> \in DOMAIN got
               /\ <<"outcomes">> \in DOMAIN got /\ <<"actions">> \in DOMAIN got
         /\ section = "accounts" => <<"accounts">> \in DOMAIN got
         /\ section = "breakdown" =>
               \A w \in Shown : /\ <<"total", w>> \in DOMAIN got
                                /\ <<"failed", w>> \in DOMAIN got
                                /\ <<"users", w>> \in DOMAIN got
         /\ section = "sponsored" => \A w \in Windows : <<"pairs", w>> \in DOMAIN got
         /\ section = "metrics" => <<"recent">> \in DOMAIN got /\ <<"health">> \in DOMAIN got
         /\ section = "relayers" => \A w \in Shown : <<"relayed", w>> \in DOMAIN got
         /\ section = "chain" =>
               /\ <<"health">> \in DOMAIN got /\ <<"lastSuccess">> \in DOMAIN got
               /\ <<"failures">> \in DOMAIN got /\ <<"mpcFailures">> \in DOMAIN got
               /\ <<"history">> \in DOMAIN got
         /\ section = "activity" =>
               /\ <<"activity">> \in DOMAIN got /\ <<"receivers">> \in DOMAIN got
               /\ <<"methods">> \in DOMAIN got /\ <<"classes">> \in DOMAIN got
               /\ <<"byReceiver">> \in DOMAIN got /\ <<"byMethod">> \in DOMAIN got
<1>1. \A i \in DOMAIN Batches : Batches[i] \subseteq DOMAIN got
  BY DEF Loaded, Answered
<1>2. \A name : \A w \in Shown : <<name, w>> \in Each(name)
  BY DEF Shown, Each
<1>3. \A w \in Windows : w \in Shown \/ w = "all"
  BY WindowsType
<1>4. CASE section = "overview"
  <2>1. /\ 1 \in DOMAIN Batches
        /\ Batches[1] = Each("signs") \union {<<"signs", "all">>, <<"outcomes">>, <<"actions">>}
    BY <1>4 DEF Batches
  <2> QED BY <2>1, <1>1, <1>2, <1>3, <1>4
<1>5. CASE section = "breakdown"
  <2>1. 1 \in DOMAIN Batches /\ Batches[1] = Each("total") \union Each("failed") \union Each("users")
    BY <1>5 DEF Batches
  <2> QED BY <2>1, <1>1, <1>2, <1>5
<1>6. CASE section = "sponsored"
  <2>1. 1 \in DOMAIN Batches /\ Batches[1] = Each("pairs") \union {<<"pairs", "all">>}
    BY <1>6 DEF Batches
  <2> QED BY <2>1, <1>1, <1>2, <1>3, <1>6
<1>7. CASE section = "metrics"
  <2>1. 1 \in DOMAIN Batches /\ Batches[1] = {<<"recent">>, <<"health">>}
    BY <1>7 DEF Batches
  <2> QED BY <2>1, <1>1, <1>7
<1>8. CASE section = "relayers"
  <2>1. Batches = [i \in DOMAIN windows |-> {<<"relayed", windows[i]>>}]
    BY <1>8 DEF Batches
  <2> QED BY <2>1, <1>1, <1>8 DEF Shown
<1>9. CASE section = "chain"
  <2>1. Batches = << {<<"health">>}, {<<"lastSuccess">>}, {<<"failures">>},
                     {<<"mpcFailures">>}, {<<"history">>} >>
    BY <1>9 DEF Batches
  <2>2. 1 \in DOMAIN Batches /\ 2 \in DOMAIN Batches /\ 3 \in DOMAIN Batches
        /\ 4 \in DOMAIN Batches /\ 5 \in DOMAIN Batches
    BY <2>1
  <2>3. /\ <<"health">> \in Batches[1] /\ <<"lastSuccess">> \in Batches[2] /\ <<"failures">> \in Batches[3]
        /\ <<"mpcFailures">> \in Batches[4] /\ <<"history">> \in Batches[5]
    BY <2>1
  <2> QED BY <2>2, <2>3, <1>1, <1>9
<1>10. CASE section = "activity"
  <2>1. Batches = << {<<"activity">>, <<"receivers">>, <<"methods">>},
                     {<<"classes">>}, {<<"byReceiver">>, <<"byMethod">>} >>
    BY <1>10 DEF Batches
  <2>2. 1 \in DOMAIN Batches /\ 2 \in DOMAIN Batches /\ 3 \in DOMAIN Batches
    BY <2>1
  <2>3. /\ <<"activity">> \in Batches[1] /\ <<"receivers">> \in Batches[1] /\ <<"methods">> \in Batches[1]
        /\ <<"classes">> \in Batches[2] /\ <<"byReceiver">> \in Batches[3] /\ <<"byMethod">> \in Batches[3]
    BY <2>1
  <2> QED BY <2>2, <2>3, <1>1, <1>10
<1>11. CASE section = "accounts"
  <2>1. 1 \in DOMAIN Batches /\ Batches[1] = {<<"accounts">>}
    BY <1>11 DEF Batches
  <2> QED BY <2>1, <1>1, <1>11
<1> QED BY <1>4, <1>5, <1>6, <1>7, <1>8, <1>9, <1>10, <1>11

(* A tile of which the signed are among the total. *)
IsRate(tile) == tile.signed >= 0 /\ (tile.total > 0 => Rate(tile) \in 0 .. 1000)

LEMMA PartOfTotalIsRate ==
  ASSUME NEW tile, tile.signed \in Nat, tile.total \in Nat, tile.signed <= tile.total
  PROVE  IsRate(tile)
<1> DEFINE n == tile.signed
           m == tile.total
<1>1. n \in Nat /\ m \in Nat /\ n <= m /\ Rate(tile) = (2000 * n + m) \div (2 * m)
  BY DEF Rate
<1> HIDE DEF n, m
<1>2. n >= 0 /\ (m > 0 => Rate(tile) \in 0 .. 1000)
  BY <1>1, ShareIsRate
<1> QED BY <1>2 DEF n, m, IsRate

LEMMA TileCounts ==
  ASSUME NEW total \in Nat, NEW failed \in Nat
  PROVE  /\ Tile(total, failed).total = total /\ Tile(total, failed).failed = failed
         /\ Tile(total, failed).signed \in Nat /\ Tile(total, failed).signed <= total
         /\ failed <= total => Tile(total, failed).signed = total - failed
<1>1. AtLeastZero(total - failed) = IF 0 >= total - failed THEN 0 ELSE total - failed
  BY MaxOfTwo DEF AtLeastZero
<1> QED BY <1>1 DEF Tile

LEMMA TileIsRate ==
  ASSUME NEW total \in Nat, NEW failed \in Nat PROVE IsRate(Tile(total, failed))
<1> DEFINE tile == Tile(total, failed)
<1>1. tile.signed \in Nat /\ tile.total \in Nat /\ tile.signed <= tile.total
  BY TileCounts
<1> HIDE DEF tile
<1>2. IsRate(tile)
  BY <1>1, PartOfTotalIsRate
<1> QED BY <1>2 DEF tile

LEMMA HealthTilesAreRates ==
  ASSUME NEW counts, HealthAddsUp(counts)
  PROVE  /\ IsRate(FastAuthTile(counts)) /\ IsRate(MpcTile(counts))
         /\ IsRate(BinTile(counts)) /\ IsRate(MetricsTile(counts))
<1>1. IsRate(FastAuthTile(counts))
  <2> DEFINE tile == FastAuthTile(counts)
  <2>1. tile.signed \in Nat /\ tile.total \in Nat /\ tile.signed <= tile.total
    BY DEF FastAuthTile, HealthAddsUp
  <2> HIDE DEF tile
  <2>2. IsRate(tile)
    BY <2>1, PartOfTotalIsRate
  <2> QED BY <2>2 DEF tile
<1>2. IsRate(MpcTile(counts))
  BY TileIsRate DEF MpcTile, HealthAddsUp
<1>3. IsRate(BinTile(counts))
  <2> DEFINE tile == BinTile(counts)
  <2>1. tile.signed \in Nat /\ tile.total \in Nat /\ tile.signed <= tile.total
    BY DEF BinTile, MpcTile, Tile, HealthAddsUp
  <2> HIDE DEF tile
  <2>2. IsRate(tile)
    BY <2>1, PartOfTotalIsRate
  <2> QED BY <2>2 DEF tile
<1>4. IsRate(MetricsTile(counts))
  <2> DEFINE tile == MetricsTile(counts)
  <2>1. tile.signed \in Nat /\ tile.total \in Nat /\ tile.signed <= tile.total
    BY DEF MetricsTile, HealthAddsUp
  <2> HIDE DEF tile
  <2>2. IsRate(tile)
    BY <2>1, PartOfTotalIsRate
  <2> QED BY <2>2 DEF tile
<1> QED BY <1>1, <1>2, <1>3, <1>4

LEMMA OverviewRates ==
  ASSUME SectionInv, Loaded, section = "overview", NEW w \in Windows
  PROVE  IsRate(OverviewTile(w))
<1> DEFINE total == got[<<"signs", w>>]
           failed == got[<<"outcomes">>].failed[w]
           pending == got[<<"outcomes">>].pending[w]
           tile == OverviewTile(w)
<1>1. total \in Nat
  BY LoadedHas DEF SectionInv, SectionTypeOK, AnswerOK
<1>2. failed \in Nat /\ pending \in Nat
  BY LoadedHas DEF SectionInv, SectionTypeOK, AnswerOK
<1>3. tile.total = Tile(total, failed + pending).total
      /\ tile.signed = Tile(total, failed + pending).signed
  BY DEF OverviewTile
<1> HIDE DEF total, failed, pending, tile
<1>4. tile.signed \in Nat /\ tile.total \in Nat /\ tile.signed <= tile.total
  BY <1>1, <1>2, <1>3, TileCounts
<1>5. IsRate(tile)
  BY <1>4, PartOfTotalIsRate
<1> QED BY <1>5 DEF tile

LEMMA CountInType == ASSUME NEW groups, Counted(groups), NEW k PROVE CountIn(groups, k) \in Nat
  BY DEF CountIn, Counted

LEMMA BreakdownRates ==
  ASSUME SectionInv, Loaded, section = "breakdown", NEW w \in Shown, NEW k
  PROVE  IsRate(BreakdownTile(k, w))
<1>1. Counted(got[<<"total", w>>]) /\ Counted(got[<<"failed", w>>])
  BY LoadedHas DEF SectionInv, SectionTypeOK, AnswerOK
<1>2. CountIn(got[<<"total", w>>], k) \in Nat /\ CountIn(got[<<"failed", w>>], k) \in Nat
  BY <1>1, CountInType
<1> DEFINE total == CountIn(got[<<"total", w>>], k)
           failed == CountIn(got[<<"failed", w>>], k)
<1>3. BreakdownTile(k, w) = Tile(total, failed) \/ BreakdownTile(k, w) = Tile(failed, failed)
  BY DEF BreakdownTile
<1>4. IsRate(Tile(total, failed)) /\ IsRate(Tile(failed, failed))
  BY <1>2, TileIsRate
<1> QED BY <1>3, <1>4

LEMMA RelayerRates ==
  ASSUME SectionInv, Loaded, section = "relayers", NEW w \in Shown,
         NEW k \in DOMAIN got[<<"relayed", w>>].total
  PROVE  IsRate(RelayerTile(k, w))
<1> DEFINE answer == got[<<"relayed", w>>]
<1>1. Counted(answer.total) /\ Counted(answer.failed)
  BY LoadedHas DEF SectionInv, SectionTypeOK, AnswerOK
<1>2. answer.total[k] \in Nat /\ CountIn(answer.failed, k) \in Nat
  BY <1>1, CountInType DEF Counted
<1>3. IsRate(Tile(answer.total[k], CountIn(answer.failed, k)))
  BY <1>2, TileIsRate
<1> QED BY <1>3 DEF RelayerTile

LEMMA ActivityRates ==
  ASSUME SectionInv, Loaded, section = "activity", NEW w \in Windows PROVE IsRate(ActivityTile(w))
<1>1. got[<<"activity">>].total[w] \in Nat /\ got[<<"activity">>].failed[w] \in Nat
  BY LoadedHas DEF SectionInv, SectionTypeOK, AnswerOK
<1> QED BY <1>1, TileIsRate DEF ActivityTile

LEMMA RatesFromInv == SectionInv => RatesAreRates
<1> SUFFICES ASSUME SectionInv, Loaded, NEW tile \in Tiles PROVE IsRate(tile)
  BY DEF RatesAreRates, IsRate
<1>0. section \in Sections
  BY DEF SectionInv, SectionTypeOK
<1>1. CASE section = "overview"
  <2>1. Tiles = {OverviewTile(w) : w \in Windows}
    BY <1>1 DEF Tiles
  <2> QED BY <2>1, <1>1, OverviewRates
<1>2. CASE section = "breakdown"
  <2>1. Tiles = UNION {{BreakdownTile(k, w) : k \in BreakdownKeys(w)} : w \in Shown}
    BY <1>2 DEF Tiles
  <2>2. PICK w \in Shown : \E k : tile = BreakdownTile(k, w)
    BY <2>1
  <2> QED BY <2>2, <1>2, BreakdownRates
<1>3. CASE section = "relayers"
  <2>1. Tiles = UNION {{RelayerTile(k, w) : k \in DOMAIN got[<<"relayed", w>>].total} : w \in Shown}
    BY <1>3 DEF Tiles
  <2>2. PICK w \in Shown : \E k \in DOMAIN got[<<"relayed", w>>].total : tile = RelayerTile(k, w)
    BY <2>1
  <2> QED BY <2>2, <1>3, RelayerRates
<1>4. CASE section \in {"accounts", "sponsored"}
  <2>1. Tiles = {}
    BY <1>4 DEF Tiles
  <2> QED BY <2>1
<1>5. CASE section = "metrics"
  <2>1. Tiles = {MetricsTile(got[<<"health">>])}
    BY <1>5 DEF Tiles
  <2>2. HealthAddsUp(got[<<"health">>])
    BY <1>5, LoadedHas DEF SectionInv, SectionTypeOK, AnswerOK
  <2> QED BY <2>1, <2>2, HealthTilesAreRates
<1>6. CASE section = "activity"
  <2>1. Tiles = {ActivityTile(w) : w \in Windows}
    BY <1>6 DEF Tiles
  <2> QED BY <2>1, <1>6, ActivityRates
<1>7. CASE section = "chain"
  <2>1. Tiles = {FastAuthTile(got[<<"health">>]), MpcTile(got[<<"health">>])}
                \union {FastAuthTile(counts) : counts \in Range(got[<<"history">>])}
                \union {BinTile(counts) : counts \in Range(got[<<"history">>])}
    BY <1>7 DEF Tiles
  <2>2. HealthAddsUp(got[<<"health">>])
    BY <1>7, LoadedHas DEF SectionInv, SectionTypeOK, AnswerOK
  <2>3. \A counts \in Range(got[<<"history">>]) : HealthAddsUp(counts)
    BY <1>7, LoadedHas DEF SectionInv, SectionTypeOK, AnswerOK, Range
  <2> QED BY <2>1, <2>2, <2>3, HealthTilesAreRates
<1> QED BY <1>0, <1>1, <1>2, <1>3, <1>4, <1>5, <1>6, <1>7 DEF Sections

(* No tile of any section counts below zero and no rate leaves 0 to 100       *)
(* percent, although the total and the failures of a tile are counted by two  *)
(* statements (the Math.max(0, ...) of the builders in DashboardDataService). *)
THEOREM RatesStayRates == SectionSpec => []RatesAreRates
  BY SectionInvHolds, RatesFromInv, PTL

-------------------------------------------------------------------------------
(* DashboardSections: what a load without a write agrees with. *)

(* GROUP BY a key, in every window: the counts add up to the window's rows. *)
LEMMA GroupsAddUp ==
  ASSUME NEW rows, IsFiniteSet(rows), NEW key, NEW groups, DOMAIN key = rows,
         DOMAIN groups = {key[r] : r \in rows},
         \A k \in DOMAIN groups : groups[k] = Cardinality(Keyed(rows, key, {k}))
  PROVE  SumOf(groups) = Cardinality(rows)
<1> DEFINE K == DOMAIN groups
<1>1. IsFiniteSet(K)
  BY ImageCounts
<1>2. \A r \in rows : key[r] \in K
  OBVIOUS
<1>3. \A k \in K : groups[k] = Cardinality(Keyed(rows, key, {k}))
  OBVIOUS
<1> HIDE DEF K
<1>4. SumFunctionOnSet(groups, K) = Cardinality(rows)
  BY ONLY <1>1, <1>2, <1>3, IsFiniteSet(rows), PartitionCounts
<1> QED BY <1>4 DEF SumOf, SumFunction, K

LEMMA TallyAddsUp ==
  ASSUME NEW rows, IsFiniteSet(rows), NEW key, NEW tally, DOMAIN key = rows,
         DOMAIN tally = {key[r] : r \in rows},
         \A k \in DOMAIN tally : tally[k] = PerWindow(Keyed(rows, key, {k})),
         NEW w \in Windows
  PROVE  SumIn(tally, w) = Cardinality({r \in rows : In(r, w)})
<1> DEFINE K == DOMAIN tally
           R == {r \in rows : In(r, w)}
           c == [k \in K |-> tally[k][w]]
<1>1. IsFiniteSet(K) /\ IsFiniteSet(R)
  BY ImageCounts, FS_Subset
<1>2. \A r \in R : key[r] \in K
  OBVIOUS
<1>3. \A k \in K : c[k] = Cardinality(Keyed(R, key, {k}))
  <2> TAKE k \in K
  <2>1. {r \in Keyed(rows, key, {k}) : In(r, w)} = Keyed(R, key, {k})
    BY DEF Keyed
  <2>2. c[k] = Cardinality({r \in Keyed(rows, key, {k}) : In(r, w)})
    BY DEF PerWindow
  <2> QED BY <2>1, <2>2
<1>4. DOMAIN c = K
  OBVIOUS
<1>5. SumIn(tally, w) = SumFunctionOnSet(c, DOMAIN c)
  BY DEF SumIn, SumOf, SumFunction
<1> HIDE DEF K, R, c
<1>6. SumFunctionOnSet(c, K) = Cardinality(R)
  BY ONLY <1>1, <1>2, <1>3, PartitionCounts
<1> QED BY <1>4, <1>5, <1>6 DEF R

(* A load without a write during it. *)
Quiet == SectionInv /\ Loaded /\ late = 0

LEMMA QuietAnswers == ASSUME Quiet, NEW q \in DOMAIN got PROVE got[q] \in AnswersTo(q)
  BY DEF Quiet, SectionInv, AnswersStand

LEMMA QuietTables ==
  ASSUME Quiet
  PROVE  /\ db \in DbType
         /\ \A S \in SUBSET db.events : IsFiniteSet(S) /\ Cardinality(S) \in Nat
         /\ \A S \in SUBSET db.users : IsFiniteSet(S) /\ Cardinality(S) \in Nat
         /\ \A w : EventsIn(w) \in SUBSET db.events /\ UsersIn(w) \in SUBSET db.users
<1>1. db \in DbType
  BY DEF Quiet, SectionInv, SectionTypeOK
<1> QED BY <1>1, RowsAreFinite DEF EventsIn, UsersIn

(* A row is in every window that is at least as long. *)
LEMMA LongerHolds ==
  ASSUME Quiet, NEW w \in Windows, NEW v \in Longer(w)
  PROVE  v \in Windows /\ EventsIn(w) \subseteq EventsIn(v) /\ UsersIn(w) \subseteq UsersIn(v)
<1>1. v \in Windows /\ since[v] <= since[w] /\ since[v] \in Int /\ since[w] \in Int
  BY WindowsType DEF Longer
<1>2. \A row \in db.events \union db.users : row.at \in Int
  BY QuietTables, SectionAssumption DEF DbType
<1>3. \A row \in db.events \union db.users : In(row, w) => In(row, v)
  <2> SUFFICES ASSUME NEW row \in db.events \union db.users, In(row, w) PROVE In(row, v)
    OBVIOUS
  <2> DEFINE at == row.at
  <2>1. at \in Int /\ at >= since[w]
    BY <1>2 DEF In
  <2> HIDE DEF at
  <2>2. at >= since[v]
    BY <1>1, <2>1
  <2> QED BY <2>2 DEF In, at
<1> QED BY <1>1, <1>3 DEF EventsIn, UsersIn

LEMMA OverviewHolds == ASSUME Quiet, section = "overview" PROVE OverviewAgrees
<1>0. /\ \A w \in Windows : <<"signs", w>> \in DOMAIN got
      /\ <<"outcomes">> \in DOMAIN got /\ <<"actions">> \in DOMAIN got
  BY LoadedHas DEF Quiet
<1>1. \A w \in Windows : got[<<"signs", w>>] = Cardinality(EventsIn(w))
  BY <1>0, QuietAnswers DEF AnswersTo
<1>2. got[<<"outcomes">>] = SignOutcomes
  BY <1>0, QuietAnswers DEF AnswersTo
<1>3. got[<<"actions">>] = ActionCounts
  BY <1>0, QuietAnswers DEF AnswersTo
<1>4. ASSUME NEW w \in Windows
      PROVE  OverviewTile(w).signed + OverviewTile(w).failed + got[<<"outcomes">>].pending[w] = got[<<"signs", w>>]
  <2> DEFINE F == {r \in {e \in db.events : Failed(e)} : In(r, w)}
             P == {r \in {e \in db.events : OutcomeOf(e) = "rpc_pending"} : In(r, w)}
             E == EventsIn(w)
             f == Cardinality(F)
             p == Cardinality(P)
             n == Cardinality(E)
  <2>1. got[<<"outcomes">>].failed[w] = f /\ got[<<"outcomes">>].pending[w] = p
    BY <1>2 DEF SignOutcomes, PerWindow
  <2>2. F \union P \subseteq E /\ F \cap P = {} /\ F \in SUBSET db.events /\ P \in SUBSET db.events
        /\ E \in SUBSET db.events
    BY DEF EventsIn, Failed, FailureOutcomes
  <2>3. f \in Nat /\ p \in Nat /\ n \in Nat /\ IsFiniteSet(F) /\ IsFiniteSet(P) /\ IsFiniteSet(E)
    BY <2>2, QuietTables
  <2> HIDE DEF F, P, E
  <2>4. f + p <= n
    <3>1. Cardinality(F \union P) = f + p - Cardinality(F \cap P)
      BY <2>3, FS_Union
    <3>2. Cardinality(F \union P) <= n
      BY <2>2, <2>3, FS_Subset
    <3>3. Cardinality(F \cap P) = 0
      BY <2>2, FS_EmptySet
    <3> QED BY <3>1, <3>2, <3>3, <2>3
  <2>5. got[<<"signs", w>>] = n
    BY <1>1 DEF E
  <2>6. /\ OverviewTile(w).failed = f
        /\ OverviewTile(w).signed = Tile(n, f + p).signed
    BY <2>1, <2>5 DEF OverviewTile
  <2> HIDE DEF f, p, n
  <2>7. Tile(n, f + p).signed = n - (f + p)
    BY <2>3, <2>4, TileCounts
  <2> QED BY <2>1, <2>3, <2>5, <2>6, <2>7
<1>5. ASSUME NEW w \in Windows PROVE SumIn(got[<<"actions">>], w) = got[<<"signs", w>>]
  <2> DEFINE rows == db.events
             key == [e \in rows |-> e.action]
             tally == ActionCounts
  <2>1. DOMAIN tally = {key[r] : r \in rows}
    BY DEF ActionCounts, Tally
  <2>2. \A k \in DOMAIN tally : tally[k] = PerWindow(Keyed(rows, key, {k}))
    <3> TAKE k \in DOMAIN tally
    <3>1. Keyed(rows, key, {k}) = {r \in rows : r.action = k}
      BY DEF Keyed
    <3> QED BY <3>1 DEF ActionCounts, Tally
  <2>3. IsFiniteSet(rows) /\ DOMAIN key = rows
    BY QuietTables
  <2> HIDE DEF rows, key, tally
  <2>4. SumIn(tally, w) = Cardinality({r \in rows : In(r, w)})
    BY <2>1, <2>2, <2>3, TallyAddsUp
  <2> QED BY <2>4, <1>1, <1>3 DEF rows, tally, EventsIn
<1>6. ASSUME NEW w \in Windows, NEW v \in Longer(w) PROVE got[<<"signs", w>>] <= got[<<"signs", v>>]
  <2>1. EventsIn(w) \subseteq EventsIn(v) /\ v \in Windows
    BY LongerHolds
  <2>2. Cardinality(EventsIn(w)) <= Cardinality(EventsIn(v))
    BY <2>1, QuietTables, FS_Subset
  <2> QED BY <2>1, <2>2, <1>1
<1> QED BY <1>4, <1>5, <1>6 DEF OverviewAgrees

(* The first n of a set: all of it if there are no more, or fewer are taken.  *)
LEMMA TopIs ==
  ASSUME NEW S, IsFiniteSet(S), NEW n \in Nat, NEW T \in kSubset(Min({n, Cardinality(S)}), S)
  PROVE  /\ T \subseteq S /\ IsFiniteSet(T)
         /\ Cardinality(T) = Min({n, Cardinality(S)})
         /\ Cardinality(S) <= n \/ Cardinality(T) < n => T = S
<1>1. T \in SUBSET S /\ Cardinality(T) = Min({n, Cardinality(S)})
  BY DEF kSubset
<1>2. Cardinality(S) \in Nat /\ Cardinality(T) \in Nat /\ IsFiniteSet(T)
      /\ (Cardinality(S) = Cardinality(T) => S = T)
  BY <1>1, FS_Subset, FS_CardinalityType
<1>3. Min({n, Cardinality(S)}) = IF n <= Cardinality(S) THEN n ELSE Cardinality(S)
  BY <1>2, MinOfTwo
<1> QED BY <1>1, <1>2, <1>3

(* A list of the n largest groups has their counts as the tally has them.     *)
LEMMA LargestIs ==
  ASSUME NEW tally, IsFiniteSet(DOMAIN tally), NEW n \in Nat, NEW list \in Largest(tally, n)
  PROVE  /\ DOMAIN list \subseteq DOMAIN tally
         /\ \A k \in DOMAIN list : list[k] = tally[k]
         /\ Cardinality(DOMAIN tally) <= n \/ Shorter(list, n) => DOMAIN list = DOMAIN tally
<1>1. PICK shown : /\ shown \in kSubset(Min({n, Cardinality(DOMAIN tally)}), DOMAIN tally)
                   /\ list = [k \in shown |-> tally[k]]
  BY DEF Largest, Foremost
<1>2. DOMAIN list = shown /\ \A k \in shown : list[k] = tally[k]
  BY <1>1
<1> QED BY <1>1, <1>2, TopIs DEF Shorter

(* The counts of some of the groups add up to the rows of those groups. *)
Keys(rows, key) == {key[r] : r \in rows}
InWindow(rows, w) == {r \in rows : In(r, w)}
CountsOf(list, rows, key) == \A k \in DOMAIN list : list[k] = PerWindow(Keyed(rows, key, {k}))

LEMMA ListedCounts ==
  ASSUME NEW rows, IsFiniteSet(rows), NEW key, DOMAIN key = rows,
         NEW list, DOMAIN list \subseteq Keys(rows, key), CountsOf(list, rows, key),
         NEW w \in Windows
  PROVE  SumIn(list, w) = Cardinality({r \in InWindow(rows, w) : key[r] \in DOMAIN list})
<1> DEFINE listed == Keyed(rows, key, DOMAIN list)
           its == [r \in listed |-> key[r]]
<1>1. IsFiniteSet(listed) /\ DOMAIN its = listed
  <2>1. listed \subseteq rows
    BY DEF Keyed
  <2> QED BY <2>1, FS_Subset
<1>2. DOMAIN list = {its[r] : r \in listed}
  BY DEF Keyed, Keys
<1>3. \A k \in DOMAIN list : list[k] = PerWindow(Keyed(listed, its, {k}))
  <2> TAKE k \in DOMAIN list
  <2>1. Keyed(listed, its, {k}) = Keyed(rows, key, {k})
    BY DEF Keyed
  <2> QED BY <2>1 DEF CountsOf
<1>4. {r \in InWindow(rows, w) : key[r] \in DOMAIN list} = {r \in listed : In(r, w)}
  BY DEF Keyed, InWindow
<1> HIDE DEF listed, its
<1>5. SumIn(list, w) = Cardinality({r \in listed : In(r, w)})
  BY ONLY <1>1, <1>2, <1>3, w \in Windows, TallyAddsUp
<1> QED BY <1>4, <1>5

(* A list of the n largest groups agrees with the total of its rows. *)
LEMMA ListHolds ==
  ASSUME NEW rows, IsFiniteSet(rows), NEW key, DOMAIN key = rows, NEW tally,
         DOMAIN tally = Keys(rows, key), CountsOf(tally, rows, key),
         NEW n \in Nat, NEW list \in Largest(tally, n)
  PROVE  /\ DOMAIN list \subseteq Keys(rows, key) /\ CountsOf(list, rows, key)
         /\ Shorter(list, n) => DOMAIN list = Keys(rows, key)
         /\ \A w \in Windows :
               /\ ListAgrees(list, Cardinality(Keys(rows, key)) <= n, w, Cardinality(InWindow(rows, w)))
               /\ ListAgrees(list, Shorter(list, n), w, Cardinality(InWindow(rows, w)))
<1> DEFINE K == Keys(rows, key)
<1>1. IsFiniteSet(K)
  BY ImageCounts DEF Keys
<1>2. /\ DOMAIN list \subseteq K
      /\ \A k \in DOMAIN list : list[k] = tally[k]
      /\ Cardinality(K) <= n \/ Shorter(list, n) => DOMAIN list = K
  BY <1>1, LargestIs
<1>3. CountsOf(list, rows, key)
  BY <1>2 DEF CountsOf
<1>4. ASSUME NEW w \in Windows
      PROVE  /\ SumIn(list, w) <= Cardinality(InWindow(rows, w))
             /\ DOMAIN list = K => SumIn(list, w) = Cardinality(InWindow(rows, w))
  <2> DEFINE R == InWindow(rows, w)
             L == {r \in R : key[r] \in DOMAIN list}
  <2>1. SumIn(list, w) = Cardinality(L)
    BY <1>2, <1>3, ListedCounts
  <2>2. L \subseteq R /\ IsFiniteSet(R)
    BY FS_Subset DEF InWindow
  <2>3. DOMAIN list = K => L = R
    BY DEF Keys, InWindow
  <2> HIDE DEF L, R
  <2>4. Cardinality(L) <= Cardinality(R)
    BY <2>2, PartOfGroup
  <2> QED BY <2>1, <2>3, <2>4 DEF R
<1> QED BY <1>2, <1>3, <1>4 DEF ListAgrees

LEMMA AccountsHold == ASSUME Quiet, section = "accounts" PROVE AccountsAgree
<1> DEFINE rows == Owned
           key == [e \in rows |-> e.account]
           tally == Tally(Owned, LAMBDA e : e.account)
           list == got[<<"accounts">>]
<1>1. list \in Largest(tally, TopAccounts)
  BY LoadedHas, QuietAnswers DEF Quiet, AnswersTo, AccountCounts
<1>2. DOMAIN tally = Keys(rows, key) /\ Keys(rows, key) = {e.account : e \in Owned}
  BY DEF Tally, Keys
<1>3. CountsOf(tally, rows, key)
  <2> SUFFICES \A k \in DOMAIN tally : tally[k] = PerWindow(Keyed(rows, key, {k}))
    BY DEF CountsOf
  <2> TAKE k \in DOMAIN tally
  <2>1. Keyed(rows, key, {k}) = {r \in rows : r.account = k}
    BY DEF Keyed
  <2> QED BY <2>1 DEF Tally
<1>4. IsFiniteSet(rows) /\ DOMAIN key = rows /\ TopAccounts \in Nat
  BY QuietTables, SectionAssumption DEF Owned
<1>5. rows \subseteq db.events
  BY DEF Owned
<1> HIDE DEF key, tally, list
<1>6. /\ CountsOf(list, rows, key)
      /\ \A w \in Windows :
            ListAgrees(list, Cardinality(Keys(rows, key)) <= TopAccounts, w, Cardinality(InWindow(rows, w)))
  <2> HIDE DEF rows
  <2> QED BY <1>1, <1>2, <1>3, <1>4, ListHolds
<1>7. ASSUME NEW w \in Windows, NEW v \in Longer(w), NEW a \in DOMAIN list PROVE list[a][w] <= list[a][v]
  <2> DEFINE A == {r \in Keyed(rows, key, {a}) : In(r, w)}
             B == {r \in Keyed(rows, key, {a}) : In(r, v)}
  <2>1. v \in Windows /\ EventsIn(w) \subseteq EventsIn(v)
    BY LongerHolds
  <2>2. A \subseteq B
    BY <2>1, <1>5 DEF Keyed, EventsIn
  <2>3. IsFiniteSet(B)
    BY <1>4, FS_Subset DEF Keyed
  <2>4. list[a][w] = Cardinality(A) /\ list[a][v] = Cardinality(B)
    BY <1>6, <2>1 DEF PerWindow, CountsOf
  <2> HIDE DEF A, B
  <2> QED BY <2>2, <2>3, <2>4, PartOfGroup
<1> QED BY <1>2, <1>6, <1>7 DEF AccountsAgree, InWindow, list

(* The tile of a group, some rows of which failed. *)
LEMMA GroupTile ==
  ASSUME NEW E, IsFiniteSet(E), NEW F, F \subseteq E, NEW key, NEW k,
         NEW m, m = Cardinality(Keyed(F, key, {k})) \/ m = 0
  PROVE  AddsUp(Tile(Cardinality(Keyed(E, key, {k})), m))
<1> DEFINE n == Cardinality(Keyed(E, key, {k}))
<1>1. n \in Nat /\ m \in Nat /\ m <= n
  <2>1. /\ Cardinality(Keyed(E, key, {k})) \in Nat /\ Cardinality(Keyed(F, key, {k})) \in Nat
        /\ Cardinality(Keyed(F, key, {k})) <= Cardinality(Keyed(E, key, {k}))
    BY KeyedCounts
  <2> QED BY <2>1
<1> HIDE DEF n
<1>2. Tile(n, m).total = n /\ Tile(n, m).failed = m /\ Tile(n, m).signed = n - m
  BY <1>1, TileCounts
<1>3. Tile(n, m).signed + Tile(n, m).failed = Tile(n, m).total
  BY ONLY <1>1, <1>2
<1> QED BY <1>3 DEF AddsUp, n

LEMMA BreakdownHolds == ASSUME Quiet, section = "breakdown" PROVE BreakdownAgrees
<1> SUFFICES ASSUME NEW w \in Shown
             PROVE  /\ SumOf([k \in BreakdownKeys(w) |-> BreakdownTile(k, w).total]) = Cardinality(EventsIn(w))
                    /\ \A k \in BreakdownKeys(w) :
                          /\ AddsUp(BreakdownTile(k, w))
                          /\ CountIn(got[<<"users", w>>], k) <= BreakdownTile(k, w).total
  BY DEF BreakdownAgrees
<1> DEFINE total == got[<<"total", w>>]
           failed == got[<<"failed", w>>]
           users == got[<<"users", w>>]
           E == EventsIn(w)
           F == {e \in E : Failed(e)}
           X == {x \in E : x.key # Null}
           key == [e \in E |-> Column(e)]
           pairs == {<<Column(e), e.key>> : e \in X}
<1>1. total = Groups(E, Column) /\ failed = SignFailedByDimension(w) /\ users = DistinctUsers(w)
  <2>1. <<"total", w>> \in DOMAIN got /\ <<"failed", w>> \in DOMAIN got /\ <<"users", w>> \in DOMAIN got
    BY LoadedHas DEF Quiet
  <2> QED BY <2>1, QuietAnswers DEF AnswersTo
<1>2. IsFiniteSet(E) /\ F \subseteq E /\ X \subseteq E
  BY QuietTables
<1>3. \A k : \A S \in SUBSET E : Keyed(S, key, {k}) = {e \in S : Column(e) = k}
  BY DEF Keyed
<1>4. /\ DOMAIN total = {key[e] : e \in E}
      /\ \A k \in DOMAIN total : total[k] = Cardinality(Keyed(E, key, {k}))
  <2>1. \A k \in DOMAIN total : total[k] = Cardinality({e \in E : Column(e) = k})
    BY <1>1 DEF Groups
  <2>2. DOMAIN total = {key[e] : e \in E}
    BY <1>1 DEF Groups
  <2> QED BY <2>1, <2>2, <1>3
<1>5. /\ DOMAIN failed \subseteq DOMAIN total
      /\ \A k \in DOMAIN failed : failed[k] = Cardinality(Keyed(F, key, {k}))
  <2>1. \A k \in DOMAIN failed : failed[k] = Cardinality({e \in F : Column(e) = k})
    BY <1>1 DEF Groups, SignFailedByDimension
  <2>2. DOMAIN failed = {Column(e) : e \in F}
    BY <1>1 DEF Groups, SignFailedByDimension
  <2> QED BY <2>1, <2>2, <1>2, <1>3, <1>4
<1>6. /\ users = Groups(pairs, LAMBDA pair : pair[1])
      /\ DOMAIN key = E
  BY <1>1 DEF DistinctUsers
<1>7. BreakdownKeys(w) = DOMAIN total
  BY <1>5 DEF BreakdownKeys
<1>8. \A k \in DOMAIN total : BreakdownTile(k, w) = Tile(total[k], CountIn(failed, k))
  BY DEF BreakdownTile, CountIn
<1>9. ASSUME NEW k \in DOMAIN total PROVE CountIn(users, k) <= total[k]
  <2> DEFINE S == {e \in X : Column(e) = k}
             f == [e \in S |-> <<Column(e), e.key>>]
             T == {pair \in pairs : pair[1] = k}
             n == Cardinality(Keyed(E, key, {k}))
  <2>1. T = {f[e] : e \in S} /\ DOMAIN f = S
    <3>1. \A pair \in T : \E e \in S : pair = <<Column(e), e.key>>
      OBVIOUS
    <3>2. \A e \in S : <<Column(e), e.key>> \in T
      OBVIOUS
    <3>3. T = {<<Column(e), e.key>> : e \in S}
      <4> HIDE DEF T, S
      <4> QED BY <3>1, <3>2
    <3>4. \A e \in S : f[e] = <<Column(e), e.key>>
      OBVIOUS
    <3> HIDE DEF T, S
    <3> QED BY <3>3, <3>4
  <2>2. CountIn(users, k) = Cardinality(T) \/ CountIn(users, k) = 0
    BY <1>6 DEF CountIn, Groups
  <2>3. S \subseteq Keyed(E, key, {k})
    BY <1>2, <1>3
  <2>4. IsFiniteSet(Keyed(E, key, {k})) /\ n \in Nat
    BY <1>2, KeyedCounts
  <2>5. IsFiniteSet(S) /\ Cardinality(S) \in Nat /\ Cardinality(S) <= n
    BY ONLY <2>3, <2>4, FS_Subset, PartOfGroup
  <2> HIDE DEF S, f, T, n
  <2>6. Cardinality(T) <= Cardinality(S) /\ Cardinality(T) \in Nat
    BY ONLY <2>1, <2>5, ImageCounts
  <2>7. total[k] = n
    BY <1>4 DEF n
  <2> QED BY <2>2, <2>4, <2>5, <2>6, <2>7
<1> HIDE DEF total, failed, users, E, F, X, key, pairs
<1>10. /\ \A k \in DOMAIN total : /\ AddsUp(Tile(total[k], CountIn(failed, k)))
                                  /\ Tile(total[k], CountIn(failed, k)).total = total[k]
       /\ SumOf(total) = Cardinality(E)
  <2>1. SumOf(total) = Cardinality(E)
    BY ONLY <1>2, <1>4, <1>6, GroupsAddUp
  <2>2. ASSUME NEW k \in DOMAIN total
        PROVE  /\ AddsUp(Tile(total[k], CountIn(failed, k)))
               /\ Tile(total[k], CountIn(failed, k)).total = total[k]
    <3> DEFINE n == total[k]
               m == CountIn(failed, k)
    <3>1. m = Cardinality(Keyed(F, key, {k})) \/ m = 0
      BY <1>5 DEF CountIn
    <3>2. n = Cardinality(Keyed(E, key, {k})) /\ IsFiniteSet(E) /\ F \subseteq E
      BY <1>2, <1>4
    <3> HIDE DEF n, m
    <3>3. AddsUp(Tile(Cardinality(Keyed(E, key, {k})), m))
      BY <3>1, <3>2, GroupTile
    <3>4. Tile(n, m).total = n
      BY DEF Tile
    <3> QED BY <3>2, <3>3, <3>4 DEF n, m
  <2> QED BY <2>1, <2>2
<1>11. [k \in BreakdownKeys(w) |-> BreakdownTile(k, w).total] = [k \in DOMAIN total |-> total[k]]
  BY <1>7, <1>8, <1>10
<1>12. total = [k \in DOMAIN total |-> total[k]]
  BY <1>1 DEF Groups
<1>13. SumOf([k \in BreakdownKeys(w) |-> BreakdownTile(k, w).total]) = Cardinality(EventsIn(w))
  BY <1>10, <1>11, <1>12 DEF E
<1> QED BY <1>7, <1>8, <1>9, <1>10, <1>13 DEF users

LEMMA RelayersHold == ASSUME Quiet, section = "relayers" PROVE RelayersAgree
<1>0. \A w \in Shown : got[<<"relayed", w>>] = RelayedIn(w)
  <2>1. \A w \in Shown : <<"relayed", w>> \in DOMAIN got
    BY LoadedHas DEF Quiet
  <2> QED BY <2>1, QuietAnswers DEF AnswersTo
<1>1. \A w : DOMAIN RelayedIn(w).total = {t.relayer : t \in {x \in UsersIn(w) : x.relayer # Null}}
  BY DEF RelayedIn, Groups
<1>2. ASSUME NEW w \in Shown, NEW v \in Longer(w) \ {"all"}
      PROVE  DOMAIN got[<<"relayed", w>>].total \subseteq DOMAIN got[<<"relayed", v>>].total
  <2>1. w \in Windows /\ v \in Windows /\ v \in Shown
    BY WindowsType DEF Longer
  <2>2. UsersIn(w) \subseteq UsersIn(v)
    BY <2>1, LongerHolds
  <2> QED BY <2>1, <2>2, <1>0, <1>1
<1>3. ASSUME NEW w \in Shown
      PROVE  /\ \A k \in DOMAIN got[<<"relayed", w>>].total : AddsUp(RelayerTile(k, w))
             /\ SumOf([k \in DOMAIN got[<<"relayed", w>>].total |-> RelayerTile(k, w).total])
                   = Cardinality({t \in UsersIn(w) : t.relayer # Null})
  <2> DEFINE total == got[<<"relayed", w>>].total
             failed == got[<<"relayed", w>>].failed
             E == {t \in UsersIn(w) : t.relayer # Null}
             F == {t \in E : UserFailed(t)}
             key == [t \in E |-> t.relayer]
  <2>1. IsFiniteSet(E) /\ F \subseteq E /\ DOMAIN key = E
    BY QuietTables, FS_Subset
  <2>2. \A k : \A S \in SUBSET E : Keyed(S, key, {k}) = {t \in S : t.relayer = k}
    BY DEF Keyed
  <2>3. /\ DOMAIN total = {key[t] : t \in E}
        /\ total = [k \in DOMAIN total |-> total[k]]
        /\ \A k \in DOMAIN total : total[k] = Cardinality({t \in E : t.relayer = k})
        /\ \A k \in DOMAIN failed : failed[k] = Cardinality({t \in F : t.relayer = k})
    <3>1. RelayedIn(w).total = Groups(E, LAMBDA t : t.relayer)
          /\ RelayedIn(w).failed = Groups(F, LAMBDA t : t.relayer)
      BY DEF RelayedIn, Groups
    <3>2. total = Groups(E, LAMBDA t : t.relayer) /\ failed = Groups(F, LAMBDA t : t.relayer)
      BY <1>0, <3>1
    <3>3. \A t \in E : key[t] = t.relayer
      OBVIOUS
    <3> HIDE DEF total, failed, E, F, key
    <3> QED BY <3>2, <3>3 DEF Groups
  <2>4. \A k \in DOMAIN total : total[k] = Cardinality(Keyed(E, key, {k}))
    BY <2>2, <2>3
  <2>5. \A k \in DOMAIN failed : failed[k] = Cardinality(Keyed(F, key, {k}))
    BY <2>1, <2>2, <2>3
  <2>6. \A k \in DOMAIN total : RelayerTile(k, w) = Tile(total[k], CountIn(failed, k))
    BY DEF RelayerTile
  <2> HIDE DEF total, failed, E, F, key
  <2>7. /\ \A k \in DOMAIN total : /\ AddsUp(Tile(total[k], CountIn(failed, k)))
                                   /\ Tile(total[k], CountIn(failed, k)).total = total[k]
        /\ SumOf(total) = Cardinality(E)
    <3>1. DOMAIN total = {key[t] : t \in E}
      BY <2>3
    <3>2. SumOf(total) = Cardinality(E)
      BY ONLY <2>1, <2>4, <3>1, GroupsAddUp
    <3>3. ASSUME NEW k \in DOMAIN total
          PROVE  /\ AddsUp(Tile(total[k], CountIn(failed, k)))
                 /\ Tile(total[k], CountIn(failed, k)).total = total[k]
      <4> DEFINE n == total[k]
                 m == CountIn(failed, k)
      <4>1. m = Cardinality(Keyed(F, key, {k})) \/ m = 0
        BY <2>5 DEF CountIn
      <4>2. n = Cardinality(Keyed(E, key, {k})) /\ IsFiniteSet(E) /\ F \subseteq E
        BY <2>1, <2>4
      <4> HIDE DEF n, m
      <4>3. AddsUp(Tile(Cardinality(Keyed(E, key, {k})), m))
        BY <4>1, <4>2, GroupTile
      <4>4. Tile(n, m).total = n
        BY DEF Tile
      <4> QED BY <4>2, <4>3, <4>4 DEF n, m
    <3> QED BY <3>2, <3>3
  <2>8. [k \in DOMAIN total |-> RelayerTile(k, w).total] = total
    BY <2>3, <2>6, <2>7
  <2> QED BY <2>6, <2>7, <2>8 DEF total, E
<1> QED BY <1>2, <1>3 DEF RelayersAgree

(* The events a relayer has sponsored. *)
Sponsored(w) == {e \in EventsIn(w) : e.account # Null}

LEMMA SponsoredByRelayer ==
  ASSUME NEW w
  PROVE  /\ \A r : r \in DOMAIN SponsoredBy(SponsoredPairs(w)) <=> \E e \in Sponsored(w) : e.relayer = r
         /\ \A r \in DOMAIN SponsoredBy(SponsoredPairs(w)) : \A a :
               a \in SponsoredBy(SponsoredPairs(w))[r]
                  <=> \E e \in Sponsored(w) : e.relayer = r /\ e.account = a
<1> DEFINE pairs == SponsoredPairs(w)
           by == SponsoredBy(pairs)
<1>1. /\ DOMAIN by = {p[1] : p \in pairs}
      /\ \A r \in DOMAIN by : by[r] = {p[2] : p \in {q \in pairs : q[1] = r}}
  BY DEF SponsoredBy
<1>2. \A p \in pairs : \E e \in Sponsored(w) : p[1] = e.relayer /\ p[2] = e.account
  BY DEF SponsoredPairs, Sponsored
<1>3. \A e \in Sponsored(w) : \E p \in pairs : p[1] = e.relayer /\ p[2] = e.account
  <2> TAKE e \in Sponsored(w)
  <2>1. <<e.relayer, e.account>> \in pairs
    BY DEF SponsoredPairs, Sponsored
  <2> QED BY <2>1
<1> HIDE DEF pairs, by
<1>4. \A r : r \in DOMAIN by <=> \E e \in Sponsored(w) : e.relayer = r
  BY <1>1, <1>2, <1>3
<1>5. \A r \in DOMAIN by : \A a : a \in by[r] <=> \E e \in Sponsored(w) : e.relayer = r /\ e.account = a
  BY <1>1, <1>2, <1>3
<1> QED BY <1>4, <1>5 DEF by, pairs

LEMMA SponsoredHolds == ASSUME Quiet, section = "sponsored" PROVE SponsoredAgrees
<1>1. \A w \in Windows : got[<<"pairs", w>>] = SponsoredPairs(w)
  <2>1. \A w \in Windows : <<"pairs", w>> \in DOMAIN got
    BY LoadedHas DEF Quiet
  <2> QED BY <2>1, QuietAnswers DEF AnswersTo
<1>2. ASSUME NEW w \in Windows
      PROVE  UNION Range(SponsoredBy(SponsoredPairs(w))) = {e.account : e \in EventsIn(w)} \ {Null}
  <2> DEFINE by == SponsoredBy(SponsoredPairs(w))
  <2>1. \A a : a \in UNION Range(by) <=> \E r \in DOMAIN by : a \in by[r]
    <3> HIDE DEF by
    <3> QED BY DEF Range
  <2>2. \A a : a \in UNION Range(by) <=> \E e \in Sponsored(w) : e.account = a
    <3>1. \A r : r \in DOMAIN by <=> \E e \in Sponsored(w) : e.relayer = r
      BY SponsoredByRelayer
    <3>2. \A r \in DOMAIN by : \A a : a \in by[r] <=> \E e \in Sponsored(w) : e.relayer = r /\ e.account = a
      BY SponsoredByRelayer
    <3> HIDE DEF by
    <3> QED BY <2>1, <3>1, <3>2
  <2>3. \A a : a \in {e.account : e \in EventsIn(w)} \ {Null} <=> \E e \in Sponsored(w) : e.account = a
    BY DEF Sponsored
  <2> HIDE DEF by
  <2>4. UNION Range(by) = {e.account : e \in EventsIn(w)} \ {Null}
    BY <2>2, <2>3
  <2> QED BY <2>4 DEF by
<1>3. ASSUME NEW w \in Windows, NEW v \in Longer(w), NEW r \in DOMAIN SponsoredBy(SponsoredPairs(w))
      PROVE  /\ r \in DOMAIN SponsoredBy(SponsoredPairs(v))
             /\ SponsoredBy(SponsoredPairs(w))[r] \subseteq SponsoredBy(SponsoredPairs(v))[r]
  <2>1. Sponsored(w) \subseteq Sponsored(v)
    BY LongerHolds DEF Sponsored
  <2>2. r \in DOMAIN SponsoredBy(SponsoredPairs(v))
    BY <2>1, SponsoredByRelayer
  <2>3. \A a \in SponsoredBy(SponsoredPairs(w))[r] : a \in SponsoredBy(SponsoredPairs(v))[r]
    BY <2>1, <2>2, SponsoredByRelayer
  <2> QED BY <2>2, <2>3
<1>4. \A w \in Windows : \A v \in Longer(w) : v \in Windows
  BY DEF Longer
<1> QED BY <1>1, <1>2, <1>3, <1>4 DEF SponsoredAgrees

LEMMA MetricsHold == ASSUME Quiet, section = "metrics" PROVE MetricsAgrees
<1> DEFINE counts == HealthCounts(HealthIn(since[windows[1]]))
<1>1. got[<<"health">>] = counts /\ got[<<"recent">>] = PerWindow(db.events)
  <2>1. <<"health">> \in DOMAIN got /\ <<"recent">> \in DOMAIN got
    BY LoadedHas DEF Quiet
  <2> QED BY <2>1, QuietAnswers DEF AnswersTo
<1>2. \A w \in Windows : PerWindow(db.events)[w] = Cardinality(EventsIn(w))
  BY DEF PerWindow, EventsIn
<1>3. HealthAddsUp(counts)
  BY QuietTables, HealthRowsType, HealthCountsAddUp
<1> HIDE DEF counts
<1>4. MetricsTile(counts) = FastAuthTile(counts)
  BY <1>3 DEF MetricsTile, FastAuthTile, HealthAddsUp
<1> QED BY <1>1, <1>2, <1>4 DEF MetricsAgrees, counts

(* The class table has one row for each account, so a transaction joins one.  *)
LEMMA JoinedOnce ==
  ASSUME db \in DbType, NEW classes \in AccountClasses
  PROVE  /\ IsFiniteSet(Joined(classes))
         /\ \A r \in Joined(classes) : r.tx \in db.users /\ r.at = r.tx.at
         /\ \A U \in SUBSET db.users : Cardinality({r \in Joined(classes) : r.tx \in U}) = Cardinality(U)
<1>1. PICK latest \in LatestEvents : classes = Range(latest)
  BY DEF AccountClasses
<1>2. \A e, x \in classes : e.account = x.account => e = x
  BY <1>1 DEF LatestEvents, Range
<1> DEFINE Of(t) == {e \in classes : e.account = t.signer}
           Row(t) == IF Of(t) = {} THEN JoinedRow(t, {}, Unclassed)
                     ELSE JoinedRow(t, {CHOOSE e \in Of(t) : TRUE}, ClassOf(CHOOSE e \in Of(t) : TRUE))
           f == [t \in db.users |-> Row(t)]
           T == {f[t] : t \in db.users}
<1>3. \A t, x : \A e \in Of(t) : x \in Of(t) => x = e
  BY <1>2
<1>4. Joined(classes) = T
  <2>1. ASSUME NEW t \in db.users, NEW e \in classes, e.account = t.signer
        PROVE  JoinedRow(t, {e}, ClassOf(e)) = f[t]
    <3>1. e \in Of(t) /\ Of(t) # {}
      BY <2>1
    <3>2. (CHOOSE x \in Of(t) : TRUE) = e
      BY <3>1, <1>3
    <3>3. Row(t) = JoinedRow(t, {CHOOSE x \in Of(t) : TRUE}, ClassOf(CHOOSE x \in Of(t) : TRUE))
      BY <3>1
    <3>4. f[t] = Row(t)
      OBVIOUS
    <3> HIDE DEF Row, f, Of
    <3> QED BY <3>2, <3>3, <3>4
  <2>2. ASSUME NEW t \in db.users, \A e \in classes : e.account # t.signer
        PROVE  JoinedRow(t, {}, Unclassed) = f[t]
    BY <2>2
  <2>3. ASSUME NEW r \in Joined(classes) PROVE r \in T
    <3>1. \/ \E t \in db.users, e \in classes : e.account = t.signer /\ r = JoinedRow(t, {e}, ClassOf(e))
          \/ \E t \in db.users : (\A e \in classes : e.account # t.signer) /\ r = JoinedRow(t, {}, Unclassed)
      BY DEF Joined
    <3> HIDE DEF f, Of, Row
    <3> QED BY <3>1, <2>1, <2>2
  <2>4. ASSUME NEW t \in db.users PROVE f[t] \in Joined(classes)
    <3>1. CASE \A e \in classes : e.account # t.signer
      BY <3>1, <2>2 DEF Joined
    <3>2. CASE \E e \in classes : e.account = t.signer
      <4>1. PICK e \in classes : e.account = t.signer
        BY <3>2
      <4>2. JoinedRow(t, {e}, ClassOf(e)) = f[t]
        BY <4>1, <2>1
      <4>3. <<t, e>> \in {p \in db.users \X classes : p[2].account = p[1].signer}
        BY <4>1
      <4>4. JoinedRow(t, {e}, ClassOf(e)) \in Joined(classes)
        <5> DEFINE P == {p \in db.users \X classes : p[2].account = p[1].signer}
                   p0 == <<t, e>>
        <5>1. p0 \in P /\ JoinedRow(t, {e}, ClassOf(e)) = JoinedRow(p0[1], {p0[2]}, ClassOf(p0[2]))
          BY <4>3
        <5> HIDE DEF p0
        <5> QED BY <5>1 DEF Joined
      <4> QED BY <4>2, <4>4
    <3> QED BY <3>1, <3>2
  <2> HIDE DEF f
  <2> QED BY <2>3, <2>4
<1>5. \A t \in db.users : f[t].tx = t /\ f[t].at = t.at
  BY DEF JoinedRow
<1>6. IsFiniteSet(db.users)
  BY RowsAreFinite
<1>7. DOMAIN f = db.users
  OBVIOUS
<1> HIDE DEF f
<1>8. ASSUME NEW U \in SUBSET db.users PROVE Cardinality({r \in T : r.tx \in U}) = Cardinality(U)
  <2> DEFINE g == [t \in U |-> f[t]]
             W == {r \in T : r.tx \in U}
  <2>1. DOMAIN g = U /\ \A t \in U : t \in db.users /\ g[t] = f[t]
    OBVIOUS
  <2>2. \A t \in db.users : f[t] \in W <=> t \in U
    BY <1>5
  <2>3. IsFiniteSet(U)
    BY <1>6, FS_Subset
  <2> HIDE DEF g
  <2>4. W = {g[t] : t \in U}
    BY <2>1, <2>2
  <2>5. \A t, x \in U : g[t] = g[x] => t = x
    BY <2>1, <1>5
  <2> HIDE DEF W
  <2>6. Cardinality(W) = Cardinality(U)
    BY <2>1, <2>3, <2>4, <2>5, ImageCounts
  <2> QED BY <2>6 DEF W
<1>9. \A r \in T : r.tx \in db.users /\ r.at = r.tx.at
  BY <1>5
<1> HIDE DEF T
<1>10. IsFiniteSet(T)
  BY <1>6, <1>7, ImageCounts DEF T
<1> QED BY <1>4, <1>8, <1>9, <1>10

(* The rows of a window join that window's transactions. *)
LEMMA JoinedInWindow ==
  ASSUME db \in DbType, NEW classes \in AccountClasses, NEW w \in Windows
  PROVE  Cardinality({r \in Joined(classes) : In(r, w)}) = Cardinality(UsersIn(w))
<1>1. UsersIn(w) \in SUBSET db.users
  BY DEF UsersIn
<1>2. \A r \in Joined(classes) : In(r, w) <=> r.tx \in UsersIn(w)
  BY JoinedOnce DEF In, UsersIn
<1>3. {r \in Joined(classes) : In(r, w)} = {r \in Joined(classes) : r.tx \in UsersIn(w)}
  BY <1>2
<1> QED BY <1>1, <1>3, JoinedOnce

(* The transactions grouped by the class of their signer. *)
LEMMA ClassesTallied ==
  ASSUME Quiet, NEW classes \in AccountClasses, NEW key, DOMAIN key = Joined(classes), NEW tally,
         DOMAIN tally = {key[r] : r \in Joined(classes)},
         \A k \in DOMAIN tally : tally[k] = PerWindow({r \in Joined(classes) : key[r] = k}),
         NEW w \in Windows
  PROVE  SumIn(tally, w) = Cardinality(UsersIn(w))
<1> DEFINE rows == Joined(classes)
<1>1. \A k \in DOMAIN tally : tally[k] = PerWindow(Keyed(rows, key, {k}))
  <2>1. \A k : Keyed(rows, key, {k}) = {r \in rows : key[r] = k}
    BY DEF Keyed
  <2> QED BY <2>1
<1>2. IsFiniteSet(rows) /\ Cardinality({r \in rows : In(r, w)}) = Cardinality(UsersIn(w))
  BY QuietTables, JoinedOnce, JoinedInWindow
<1>3. DOMAIN key = rows /\ DOMAIN tally = {key[r] : r \in rows}
  OBVIOUS
<1> HIDE DEF rows
<1>4. SumIn(tally, w) = Cardinality({r \in rows : In(r, w)})
  BY ONLY <1>1, <1>2, <1>3, w \in Windows, TallyAddsUp
<1> QED BY <1>2, <1>4

(* A list of the receivers or of the methods, and the cross-classification by *)
(* class: what the latter has of a receiver are the receiver's transactions,  *)
(* since each is joined once.                                                *)
LEMMA TabsHold ==
  ASSUME Quiet, NEW inner, NEW list, list \in Largest(Tally(db.users, LAMBDA t : t[inner]), TopGroups),
         NEW crossed, crossed \in Crossed(inner), NEW w \in Windows,
         ActivityTile(w).total = Cardinality(UsersIn(w))
  PROVE  TabsAgree(list, crossed, w)
<1> DEFINE of == [t \in db.users |-> t[inner]]
           groups == Tally(db.users, LAMBDA t : t[inner])
<1>1. IsFiniteSet(db.users) /\ DOMAIN of = db.users /\ db \in DbType /\ TopGroups \in Nat /\ TopCrossed \in Nat
  BY QuietTables, SectionAssumption
<1>2. DOMAIN groups = Keys(db.users, of)
  BY DEF Tally, Keys
<1>3. CountsOf(groups, db.users, of)
  <2> SUFFICES \A k \in DOMAIN groups : groups[k] = PerWindow(Keyed(db.users, of, {k}))
    BY DEF CountsOf
  <2> TAKE k \in DOMAIN groups
  <2>1. Keyed(db.users, of, {k}) = {t \in db.users : t[inner] = k}
    BY DEF Keyed
  <2> QED BY <2>1 DEF Tally
<1>4. InWindow(db.users, w) = UsersIn(w)
  BY DEF UsersIn, InWindow
<1>5. list \in Largest(groups, TopGroups)
  OBVIOUS
<1> HIDE DEF groups
<1>6. /\ CountsOf(list, db.users, of)
      /\ ListAgrees(list, Shorter(list, TopGroups), w, ActivityTile(w).total)
  <2> HIDE DEF of
  <2> QED BY <1>1, <1>2, <1>3, <1>4, <1>5, ListHolds
<1>7. PICK classes \in AccountClasses :
         crossed \in Largest(CrossTally(classes, inner), TopCrossed)
  BY DEF Crossed
<1> DEFINE rows == Joined(classes)
           key == [r \in rows |-> <<r.class, r.tx[inner]>>]
           tally == CrossTally(classes, inner)
<1>8. /\ IsFiniteSet(rows) /\ DOMAIN key = rows
      /\ \A r \in rows : r.tx \in db.users /\ r.at = r.tx.at
      /\ \A U \in SUBSET db.users : Cardinality({r \in rows : r.tx \in U}) = Cardinality(U)
      /\ Cardinality(InWindow(rows, w)) = Cardinality(UsersIn(w))
  BY <1>1, JoinedOnce, JoinedInWindow DEF InWindow
<1>9. /\ DOMAIN tally = Keys(rows, key)
      /\ \A k \in DOMAIN tally : tally[k] = PerWindow({r \in rows : <<r.class, r.tx[inner]>> = k})
      /\ \A r \in rows : key[r] = <<r.class, r.tx[inner]>>
  <2> HIDE DEF rows
  <2> QED BY DEF CrossTally, Tally, Keys, rows
<1>10. CountsOf(tally, rows, key)
  <2> SUFFICES \A k \in DOMAIN tally : tally[k] = PerWindow(Keyed(rows, key, {k}))
    BY DEF CountsOf
  <2> TAKE k \in DOMAIN tally
  <2>1. Keyed(rows, key, {k}) = {r \in rows : <<r.class, r.tx[inner]>> = k}
    BY DEF Keyed
  <2> QED BY <2>1, <1>9
<1>11. crossed \in Largest(tally, TopCrossed)
  BY <1>7
<1> HIDE DEF rows, tally, key
<1>12. /\ DOMAIN crossed \subseteq Keys(rows, key) /\ CountsOf(crossed, rows, key)
       /\ Shorter(crossed, TopCrossed) => DOMAIN crossed = Keys(rows, key)
       /\ ListAgrees(crossed, Shorter(crossed, TopCrossed), w, ActivityTile(w).total)
  BY <1>1, <1>8, <1>9, <1>10, <1>11, ListHolds
<1>13. ASSUME NEW k \in DOMAIN list
       PROVE  ListAgrees(OfInner(crossed, k), Shorter(crossed, TopCrossed), w, list[k][w])
  <2> DEFINE U == {t \in Keyed(db.users, of, {k}) : In(t, w)}
             mine == OfInner(crossed, k)
             R == {r \in rows : r.tx \in U}
             M == {r \in InWindow(rows, w) : key[r] \in DOMAIN mine}
  <2>1. list[k][w] = Cardinality(U)
    BY <1>6 DEF PerWindow, CountsOf
  <2>2. U \in SUBSET db.users /\ \A t \in db.users : t \in U <=> In(t, w) /\ t[inner] = k
    BY DEF Keyed
  <2>3. Cardinality(R) = Cardinality(U)
    BY <1>8, <2>2
  <2>4. /\ DOMAIN mine = {x \in DOMAIN crossed : x[2] = k}
        /\ \A x \in DOMAIN mine : mine[x] = crossed[x]
    BY DEF OfInner
  <2>5. SumIn(mine, w) = Cardinality(M)
    <3>1. DOMAIN mine \subseteq Keys(rows, key)
      BY <2>4, <1>12
    <3>2. CountsOf(mine, rows, key)
      BY <2>4, <1>12 DEF CountsOf
    <3> HIDE DEF mine
    <3> QED BY <3>1, <3>2, <1>8, ListedCounts
  <2> HIDE DEF U, mine
  <2>6. \A r \in rows : r \in R <=> In(r, w) /\ key[r][2] = k
    <3>1. \A r \in rows : In(r, w) <=> In(r.tx, w)
      BY <1>8 DEF In
    <3>2. \A r \in rows : key[r][2] = r.tx[inner]
      BY <1>9
    <3> QED BY <3>1, <3>2, <1>8, <2>2
  <2>7. M \subseteq R
    BY <2>4, <2>6 DEF InWindow
  <2>8. Shorter(crossed, TopCrossed) => M = R
    <3>1. ASSUME Shorter(crossed, TopCrossed), NEW r \in R PROVE r \in M
      <4>1. r \in rows /\ In(r, w) /\ key[r][2] = k /\ key[r] \in DOMAIN crossed
        BY <3>1, <2>6, <1>12 DEF Keys
      <4> QED BY <4>1, <2>4 DEF InWindow
    <3> QED BY <3>1, <2>7
  <2>9. IsFiniteSet(R)
    BY <1>8, FS_Subset
  <2> HIDE DEF R, M
  <2>10. Cardinality(M) <= Cardinality(R)
    BY <2>7, <2>9, PartOfGroup
  <2> QED BY <2>1, <2>3, <2>5, <2>8, <2>10 DEF ListAgrees, mine
<1> QED BY <1>6, <1>12, <1>13 DEF TabsAgree

LEMMA ActivityHolds == ASSUME Quiet, section = "activity" PROVE ActivityAgrees
<1>1. got[<<"activity">>] = ActivityWindows
  BY LoadedHas, QuietAnswers DEF Quiet, AnswersTo
<1>2. ASSUME NEW w \in Windows
      PROVE  AddsUp(ActivityTile(w)) /\ ActivityTile(w).total = Cardinality(UsersIn(w))
  <2> DEFINE U == UsersIn(w)
             F == {t \in U : UserFailed(t)}
             n == Cardinality(U)
             m == Cardinality(F)
  <2>1. {r \in db.users : In(r, w)} = U /\ {r \in {t \in db.users : UserFailed(t)} : In(r, w)} = F
    BY DEF UsersIn
  <2>2. got[<<"activity">>].total[w] = n /\ got[<<"activity">>].failed[w] = m
    BY <1>1, <2>1 DEF ActivityWindows, PerWindow
  <2>3. IsFiniteSet(U) /\ F \subseteq U
    BY QuietTables
  <2>4. n \in Nat /\ m \in Nat /\ m <= n
    <3> HIDE DEF U, F
    <3> QED BY <2>3, PartOfGroup
  <2>5. ActivityTile(w) = Tile(n, m)
    BY <2>2 DEF ActivityTile
  <2> HIDE DEF n, m
  <2>6. Tile(n, m).total = n /\ Tile(n, m).failed = m /\ Tile(n, m).signed = n - m
    BY <2>4, TileCounts
  <2>7. Tile(n, m).signed + Tile(n, m).failed = Tile(n, m).total
    BY <2>4, <2>6
  <2> QED BY <2>5, <2>6, <2>7 DEF AddsUp, n
<1>3. ASSUME NEW w \in Windows PROVE SumIn(got[<<"classes">>], w) = Cardinality(UsersIn(w))
  <2>1. got[<<"classes">>] \in ClassGroups
    BY LoadedHas, QuietAnswers DEF Quiet, AnswersTo
  <2>2. PICK classes \in AccountClasses : got[<<"classes">>] = Tally(Joined(classes), LAMBDA r : r.class)
    BY <2>1 DEF ClassGroups
  <2> DEFINE rows == Joined(classes)
             key == [r \in rows |-> r.class]
             tally == got[<<"classes">>]
  <2>3. /\ DOMAIN tally = {key[r] : r \in rows}
        /\ \A k \in DOMAIN tally : tally[k] = PerWindow({r \in rows : r.class = k})
        /\ \A k : {r \in rows : r.class = k} = {r \in rows : key[r] = k}
        /\ DOMAIN key = rows
    <3> HIDE DEF rows
    <3> QED BY <2>2 DEF Tally, rows
  <2> HIDE DEF key, tally
  <2>4. SumIn(tally, w) = Cardinality(UsersIn(w))
    BY <2>3, ClassesTallied
  <2> QED BY <2>4 DEF tally
<1>4. /\ got[<<"receivers">>] \in Largest(Tally(db.users, LAMBDA t : t["receiver"]), TopGroups)
      /\ got[<<"methods">>] \in Largest(Tally(db.users, LAMBDA t : t["method"]), TopGroups)
  BY LoadedHas, QuietAnswers DEF Quiet, AnswersTo
<1>5. got[<<"byReceiver">>] \in Crossed("receiver") /\ got[<<"byMethod">>] \in Crossed("method")
  BY LoadedHas, QuietAnswers DEF Quiet, AnswersTo
<1>6. ASSUME NEW w \in Windows
      PROVE  /\ TabsAgree(got[<<"receivers">>], got[<<"byReceiver">>], w)
             /\ TabsAgree(got[<<"methods">>], got[<<"byMethod">>], w)
  BY <1>2, <1>4, <1>5, TabsHold
<1> QED BY <1>2, <1>3, <1>6 DEF ActivityAgrees

(* A bin holds BinSize steps of time. *)
LEMMA BinBounds ==
  ASSUME NEW t \in Nat
  PROVE  /\ Bin(t) \in Nat /\ Bin(t) * BinSize \in Nat
         /\ Bin(t) * BinSize <= t /\ t < (Bin(t) + 1) * BinSize
<1> DEFINE d == BinSize
           q == t \div d
<1>1. d \in Nat \ {0}
  BY SectionAssumption
<1> HIDE DEF d
<1>2. q \in Int /\ t = d * q + (t % d) /\ t % d \in 0 .. d - 1
  BY <1>1
<1>3. Bin(t) = q
  BY DEF Bin, d
<1> HIDE DEF q
<1>4. d * q <= t /\ t < d * (q + 1) /\ d * q = q * d /\ d * (q + 1) = (q + 1) * d
  BY <1>1, <1>2
<1>5. q >= 0
  <2> SUFFICES ASSUME q + 1 <= 0 PROVE FALSE
    BY <1>2
  <2>1. d * (q + 1) <= 0
    BY <1>1, <1>2
  <2> QED BY <2>1, <1>4, <1>1, <1>2
<1>6. q * d \in Nat
  BY <1>1, <1>2, <1>5
<1> QED BY <1>2, <1>3, <1>4, <1>5, <1>6 DEF d

LEMMA BinsInOrder ==
  ASSUME NEW s \in Nat, NEW t \in Nat, t >= Bin(s) * BinSize
  PROVE  Bin(s) <= Bin(t)
<1> DEFINE a == Bin(s)
           b == Bin(t)
           d == BinSize
<1>1. a \in Nat /\ b \in Nat /\ t >= a * d /\ t < (b + 1) * d /\ d \in Nat \ {0}
  BY BinBounds, SectionAssumption
<1> HIDE DEF a, b, d
<1>2. a <= b
  <2> SUFFICES ASSUME b + 1 <= a PROVE FALSE
    BY <1>1
  <2>1. (b + 1) * d <= a * d
    <3> DEFINE c == a - (b + 1)
    <3>1. c \in Nat /\ a = b + 1 + c
      BY <1>1
    <3> HIDE DEF c
    <3>2. a * d = (b + 1) * d + c * d /\ c * d >= 0
      BY <1>1, <3>1
    <3> QED BY <3>1, <3>2, <1>1
  <2> QED BY <2>1, <1>1
<1> QED BY <1>2 DEF a, b

(* A later start leaves out the rows before it. *)
LEMMA HealthFrom ==
  ASSUME db \in DbType, NEW first \in Nat, NEW later \in Nat, first <= later
  PROVE  HealthIn(later) = {r \in HealthIn(first) : r.at >= later}
<1> DEFINE row(tx) == [tx |-> tx, at |-> TxRow(tx).at, outcome |-> db.health[tx].outcome,
                       reachedMpc |-> db.health[tx].reachedMpc]
           T(s) == {x \in SignTxs : db.health[x] # NoHealthRow /\ TxRow(x).at >= s}
<1>1. \A s : HealthIn(s) = {row(tx) : tx \in T(s)}
  BY DEF HealthIn
<1>2. \A tx : row(tx).at = TxRow(tx).at
  OBVIOUS
<1>3. T(later) = {tx \in T(first) : TxRow(tx).at >= later}
  <2>1. \A tx \in SignTxs : TxRow(tx).at \in Int
    <3>1. \A tx \in SignTxs : TxRow(tx) \in EventRows
      BY DEF TxRow, SignTxs
    <3> QED BY <3>1, SectionAssumption
  <2>2. \A tx \in SignTxs : TxRow(tx).at >= later => TxRow(tx).at >= first
    <3> TAKE tx \in SignTxs
    <3> DEFINE at == TxRow(tx).at
    <3>1. at \in Int
      BY <2>1
    <3> HIDE DEF at
    <3>2. at >= later => at >= first
      BY <3>1
    <3> QED BY <3>2 DEF at
  <2> QED BY <2>2
<1> HIDE DEF row, T
<1> QED BY <1>1, <1>2, <1>3

(* The recent failures: rows of the window, as many as there are up to the    *)
(* limit, and none later left out.                                           *)
LEMMA RecentAre ==
  ASSUME db \in DbType, NEW outcomes, NEW T \in RecentFailures(outcomes)
  PROVE  /\ T \subseteq {x \in HealthIn(since[windows[1]]) : x.outcome \in outcomes}
         /\ Cardinality(T) = Min({TopFailures, Said(HealthIn(since[windows[1]]), outcomes)})
         /\ \A x \in HealthIn(since[windows[1]]) \ T :
               x.outcome \in outcomes => \A r \in T : r.at >= x.at
<1> DEFINE S == {x \in HealthIn(since[windows[1]]) : x.outcome \in outcomes}
<1>1. IsFiniteSet(S)
  BY HealthRowsType, FS_Subset
<1>2. /\ T \in kSubset(Min({TopFailures, Cardinality(S)}), S)
      /\ \A r \in T, x \in S \ T : r.at >= x.at
  BY DEF RecentFailures, Foremost
<1>3. Said(HealthIn(since[windows[1]]), outcomes) = Cardinality(S)
  BY DEF Said
<1> HIDE DEF S
<1>4. T \subseteq S /\ Cardinality(T) = Min({TopFailures, Cardinality(S)})
  BY <1>1, <1>2, TopIs, SectionAssumption
<1> QED BY <1>2, <1>3, <1>4 DEF S

(* A success is in the window exactly when the last one is. *)
LEMMA LastSuccessInWindow ==
  ASSUME db \in DbType, NEW first \in Nat
  PROVE  LastSuccess >= first <=> HealthCounts(HealthIn(first)).succeeded > 0
<1> DEFINE All == {x \in HealthIn(0) : x.outcome = "success"}
           Recent == {r \in HealthIn(first) : r.outcome \in {"success"}}
           times == {r.at : r \in All} \union {-1}
<1>1. Recent = {r \in All : r.at >= first}
  BY HealthFrom
<1>2. \A r \in All : r.at \in Int
  BY HealthRowsType
<1>3. IsFiniteSet(Recent) /\ IsFiniteSet(All)
  BY HealthRowsType, FS_Subset
<1>4. IsFiniteSet(times) /\ times \subseteq Int /\ times # {}
  <2> DEFINE f == [r \in All |-> r.at]
             A == {r.at : r \in All}
  <2>1. A = {f[r] : r \in All} /\ DOMAIN f = All
    OBVIOUS
  <2>2. A \subseteq Int
    BY <1>2
  <2> HIDE DEF All, f, A
  <2>3. IsFiniteSet(A)
    BY <1>3, <2>1, ImageCounts
  <2>4. IsFiniteSet(A \union {-1})
    BY <2>3, FS_AddElement
  <2> QED BY <2>2, <2>4 DEF A
<1>5. LastSuccess = Max(times)
  BY DEF LastSuccess
<1>6. HealthCounts(HealthIn(first)).succeeded = Cardinality(Recent)
  BY DEF HealthCounts, Said
<1>7. \A n : n \in times <=> n = -1 \/ \E r \in All : n = r.at
  OBVIOUS
<1> HIDE DEF All, Recent, times
<1>8. Max(times) \in times /\ \A n \in times : Max(times) >= n
  BY ONLY <1>4, MaxOfFinite
<1>9. Max(times) >= first <=> Recent # {}
  <2>1. ASSUME Max(times) >= first PROVE Recent # {}
    <3>1. Max(times) # -1
      BY <2>1, <1>4, <1>8
    <3>2. PICK r \in All : r.at = Max(times)
      BY <3>1, <1>7, <1>8
    <3> QED BY <3>2, <2>1, <1>1
  <2>2. ASSUME Recent # {} PROVE Max(times) >= first
    <3>1. PICK r \in All : r.at >= first
      BY <2>2, <1>1
    <3> DEFINE n == r.at
               m == Max(times)
    <3>2. n \in Int /\ n >= first /\ m \in Int /\ m >= n
      BY <3>1, <1>2, <1>4, <1>7, <1>8
    <3> HIDE DEF n, m
    <3>3. m >= first
      BY <3>2
    <3> QED BY <3>3 DEF m
  <2> QED BY <2>1, <2>2
<1>10. Cardinality(Recent) > 0 <=> Recent # {}
  BY <1>3, FS_EmptySet, FS_CardinalityType
<1> QED BY <1>5, <1>6, <1>9, <1>10

(* The bins of the history hold the rows from the start of the first bin on.  *)
LEMMA HistoryAddsUp ==
  ASSUME db \in DbType, NEW start, start = since[windows[1]]
  PROVE  SumOf([b \in DOMAIN History |-> History[b].total])
            = HealthCounts(HealthIn(start)).total
              + Cardinality({r \in HealthIn(Bin(start) * BinSize) : r.at < start})
<1> DEFINE first == Bin(start) * BinSize
           R == HealthIn(first)
           K == Bin(start) .. Bin(Now)
           key == [r \in R |-> Bin(r.at)]
           c == [b \in DOMAIN History |-> History[b].total]
           Older == {r \in R : r.at < start}
           Inside == {r \in R : r.at >= start}
<1>1. start \in Nat /\ start <= Now /\ Now \in Nat
  BY WindowsType, SectionAssumption
<1>2. first \in Nat /\ first <= start
  BY <1>1, BinBounds
<1>3. IsFiniteSet(R) /\ \A r \in R : r.at \in 0 .. Now /\ r.at >= first
  BY HealthRowsType
<1>4. \A r \in R : r.at \in Nat /\ key[r] = Bin(r.at) /\ key[r] \in K
  <2> TAKE r \in R
  <2> DEFINE at == r.at
  <2>1. at \in Nat /\ at >= first /\ at <= Now
    BY <1>3, <1>1
  <2>2. key[r] = Bin(at)
    OBVIOUS
  <2> HIDE DEF at, key, K
  <2>3. Bin(at) \in Nat /\ Bin(start) \in Nat /\ Bin(Now) \in Nat /\ Bin(start) <= Bin(at)
    BY <1>1, <2>1, BinBounds, BinsInOrder
  <2>4. Bin(at) <= Bin(Now)
    <3>1. Bin(at) * BinSize <= at /\ Bin(at) * BinSize \in Int /\ Now >= at
      BY <2>1, <2>3, BinBounds, SectionAssumption
    <3>2. Now >= Bin(at) * BinSize
      BY <3>1, <2>1, <1>1
    <3> QED BY <3>2, <1>1, <2>1, BinsInOrder
  <2> QED BY <2>1, <2>2, <2>3, <2>4 DEF K, at
<1>5. \A b \in K : c[b] = Cardinality(Keyed(R, key, {b}))
  <2> TAKE b \in K
  <2>1. c[b] = Cardinality({r \in HealthIn(b * BinSize) : Bin(r.at) = b})
    BY DEF History, HealthCounts
  <2>2. b \in Nat /\ b >= Bin(start) /\ first <= b * BinSize /\ b * BinSize \in Nat
    <3>1. b \in Nat /\ b >= Bin(start) /\ Bin(start) \in Nat
      BY <1>1, BinBounds
    <3> DEFINE d == BinSize
               a == Bin(start)
               e == b - a
    <3>2. d \in Nat /\ a \in Nat /\ e \in Nat /\ b = a + e
      BY <3>1, SectionAssumption
    <3> HIDE DEF d, a, e
    <3>3. b * d = a * d + e * d /\ e * d \in Nat /\ a * d \in Nat /\ b * d \in Nat
      BY <3>2
    <3>4. a * d <= b * d
      <4> DEFINE x == a * d
                 y == e * d
      <4> HIDE DEF x, y
      <4>1. x <= x + y
        BY <3>3 DEF x, y
      <4> QED BY <4>1, <3>3 DEF x, y
    <3> QED BY <3>1, <3>3, <3>4 DEF a, d
  <2>3. HealthIn(b * BinSize) = {r \in R : r.at >= b * BinSize}
    BY <1>2, <2>2, HealthFrom
  <2>4. \A r \in R : Bin(r.at) = b => r.at >= b * BinSize
    <3> TAKE r \in R
    <3> DEFINE at == r.at
    <3>1. at \in Nat
      BY <1>4
    <3> HIDE DEF at
    <3>2. Bin(at) * BinSize <= at /\ Bin(at) * BinSize \in Int
      BY <3>1, BinBounds
    <3>3. Bin(at) = b => at >= b * BinSize
      BY <3>1, <3>2
    <3> QED BY <3>3 DEF at
  <2> HIDE DEF R, key
  <2>5. {r \in HealthIn(b * BinSize) : Bin(r.at) = b} = Keyed(R, key, {b})
    BY <2>3, <2>4, <1>4 DEF Keyed
  <2> QED BY <2>1, <2>5
<1>6. IsFiniteSet(K)
  <2>1. Bin(start) \in Int /\ Bin(Now) \in Int
    BY <1>1, BinBounds
  <2> QED BY <2>1, FS_Interval
<1>7. DOMAIN c = K
  BY DEF History
<1>8. Inside = HealthIn(start)
  BY <1>1, <1>2, HealthFrom
<1>9. R = Inside \union Older /\ Inside \cap Older = {}
  <2>1. \A r \in R : (r.at >= start \/ r.at < start) /\ ~(r.at >= start /\ r.at < start)
    <3> TAKE r \in R
    <3> DEFINE at == r.at
    <3>1. at \in Nat
      BY <1>4
    <3> HIDE DEF at
    <3>2. (at >= start \/ at < start) /\ ~(at >= start /\ at < start)
      BY <3>1, <1>1
    <3> QED BY <3>2 DEF at
  <2> HIDE DEF R
  <2> QED BY <2>1
<1>10. Inside \subseteq R /\ Older \subseteq R
  OBVIOUS
<1>11. HealthCounts(HealthIn(start)).total = Cardinality(Inside)
  BY <1>8 DEF HealthCounts
<1>12. SumOf(c) = SumFunctionOnSet(c, DOMAIN c)
  BY DEF SumOf, SumFunction
<1>13. \A r \in R : key[r] \in K
  BY <1>4
<1> HIDE DEF R, K, key, c, Inside, Older
<1>14. SumFunctionOnSet(c, K) = Cardinality(R)
  <2>1. IsFiniteSet(R)
    BY <1>3
  <2> QED BY ONLY <2>1, <1>5, <1>6, <1>13, PartitionCounts
<1>15. Cardinality(R) = Cardinality(Inside) + Cardinality(Older)
  <2>1. IsFiniteSet(Inside) /\ IsFiniteSet(Older) /\ Cardinality(Inside) \in Nat /\ Cardinality(Older) \in Nat
    BY <1>3, <1>10, FS_Subset, FS_CardinalityType
  <2>2. Cardinality(Inside \union Older)
           = Cardinality(Inside) + Cardinality(Older) - Cardinality(Inside \cap Older)
    BY <2>1, FS_Union
  <2>3. Cardinality(Inside \cap Older) = 0
    BY <1>9, FS_EmptySet
  <2> QED BY <2>1, <2>2, <2>3, <1>9
<1>16. SumOf(c) = HealthCounts(HealthIn(start)).total + Cardinality(Older)
  BY <1>7, <1>11, <1>12, <1>14, <1>15
<1> QED BY <1>16 DEF c, Older, R

LEMMA ChainHolds == ASSUME Quiet, section = "chain" PROVE ChainAgrees
<1> DEFINE start == since[windows[1]]
           rows == HealthIn(start)
           counts == HealthCounts(rows)
<1>0. db \in DbType
  BY QuietTables
<1>1. /\ got[<<"health">>] = counts /\ got[<<"lastSuccess">>] = LastSuccess
      /\ got[<<"failures">>] \in RecentFailures(FailureOutcomes)
      /\ got[<<"mpcFailures">>] \in RecentFailures({"mpc_failure"})
      /\ got[<<"history">>] = History
  <2>1. /\ <<"health">> \in DOMAIN got /\ <<"lastSuccess">> \in DOMAIN got /\ <<"failures">> \in DOMAIN got
        /\ <<"mpcFailures">> \in DOMAIN got /\ <<"history">> \in DOMAIN got
    BY LoadedHas DEF Quiet
  <2> QED BY <2>1, QuietAnswers DEF AnswersTo
<1>2. HealthAddsUp(counts)
  BY <1>0, HealthRowsType, HealthCountsAddUp
<1>3. counts.failed = Said(rows, FailureOutcomes) /\ counts.mpcFailed = Said(rows, {"mpc_failure"})
  BY DEF HealthCounts
<1>4. /\ Cardinality(got[<<"failures">>]) = Min({TopFailures, counts.failed})
      /\ Cardinality(got[<<"mpcFailures">>]) = Min({TopFailures, counts.mpcFailed})
      /\ \A r \in got[<<"failures">>] \ got[<<"mpcFailures">>] :
            r.outcome = "mpc_failure" => \A x \in got[<<"mpcFailures">>] : x.at >= r.at
  BY <1>0, <1>1, <1>3, RecentAre
<1>5. LastSuccess >= start <=> counts.succeeded > 0
  <2>1. start \in Nat
    BY WindowsType
  <2> QED BY <1>0, <2>1, LastSuccessInWindow
<1>6. SumOf([b \in DOMAIN History |-> History[b].total])
         = counts.total + Cardinality({r \in HealthIn(Bin(start) * BinSize) : r.at < start})
  BY <1>0, HistoryAddsUp
<1> HIDE DEF counts, start
<1>7. AddsUp(FastAuthTile(counts))
  BY <1>2 DEF AddsUp, FastAuthTile, HealthAddsUp
<1>8. AddsUp(MpcTile(counts))
  <2> DEFINE n == counts.mpcAttempted
             m == counts.mpcFailed
  <2>1. n \in Nat /\ m \in Nat /\ m <= n
    BY <1>2 DEF HealthAddsUp
  <2>2. MpcTile(counts) = Tile(n, m)
    BY DEF MpcTile
  <2> HIDE DEF n, m
  <2>3. Tile(n, m).total = n /\ Tile(n, m).failed = m /\ Tile(n, m).signed = n - m
    BY <2>1, TileCounts
  <2>4. Tile(n, m).signed + Tile(n, m).failed = Tile(n, m).total
    BY <2>1, <2>3
  <2> QED BY <2>2, <2>4 DEF AddsUp
<1>9. counts.guardFailed + counts.mpcFailed <= counts.failed
  BY <1>2 DEF HealthAddsUp
<1> QED BY <1>1, <1>4, <1>5, <1>6, <1>7, <1>8, <1>9 DEF ChainAgrees, start

LEMMA QuietFromInv == SectionInv => QuietLoadsAgree
<1> SUFFICES ASSUME SectionInv, Loaded, late = 0
             PROVE  CASE section = "overview" -> OverviewAgrees
                      [] section = "accounts" -> AccountsAgree
                      [] section = "breakdown" -> BreakdownAgrees
                      [] section = "sponsored" -> SponsoredAgrees
                      [] section = "metrics" -> MetricsAgrees
                      [] section = "relayers" -> RelayersAgree
                      [] section = "activity" -> ActivityAgrees
                      [] section = "chain" -> ChainAgrees
  BY DEF QuietLoadsAgree
<1>1. Quiet /\ section \in Sections
  BY DEF Quiet, SectionInv, SectionTypeOK
<1> QED BY <1>1, OverviewHolds, AccountsHold, BreakdownHolds, SponsoredHolds, MetricsHold, RelayersHold,
           ActivityHolds, ChainHolds DEF Sections

(* A load that no write falls into shows numbers that agree with one another  *)
(* and with the rows: breakdowns add up to their totals, lists that their     *)
(* LIMIT leaves whole to their window and others to no more, bins to their    *)
(* history (the SQL of DashboardDataService). A load of a heavy section is    *)
(* compared with nothing but itself.                                         *)
THEOREM QuietLoadsAlwaysAgree == SectionSpec => []QuietLoadsAgree
  BY SectionInvHolds, QuietFromInv, PTL

-------------------------------------------------------------------------------
(* DashboardSections: the ranges of missing blocks. *)

(* Two runs of heights from both ends of a range. *)
Taken(s, e, up, down) == {h \in s .. e : h < s + up \/ h > e - down}

LEMMA BothEnds ==
  ASSUME NEW s \in Int, NEW e \in Int, s <= e, NEW up \in Int, NEW down \in Int,
         0 <= up, up <= e - s + 1, 0 <= down, down <= e - s + 1
  PROVE  Cardinality(Taken(s, e, up, down)) = Min({e - s + 1, up + down})
<1> DEFINE passed == Taken(s, e, up, down)
           U == s .. (s + up - 1)
           D == (e - down + 1) .. e
<1>1. /\ IsFiniteSet(s .. e) /\ Cardinality(s .. e) = e - s + 1
      /\ IsFiniteSet(U) /\ Cardinality(U) = up
      /\ IsFiniteSet(D) /\ Cardinality(D) = down
  BY IntervalCount
<1>2. CASE up + down >= e - s + 1
  <2>1. passed = s .. e
    BY <1>2 DEF Taken
  <2> QED BY <2>1, <1>1, <1>2, MinOfTwo
<1>3. CASE up + down < e - s + 1
  <2>1. passed = U \union D /\ U \cap D = {}
    BY <1>3 DEF Taken
  <2>2. Cardinality(U \union D) = Cardinality(U) + Cardinality(D) - Cardinality(U \cap D)
    BY <1>1, FS_Union
  <2>3. Cardinality(U \cap D) = 0
    BY <2>1, FS_EmptySet
  <2> HIDE DEF passed, U, D
  <2>4. Cardinality(passed) = up + down
    BY <2>1, <2>2, <2>3, <1>1
  <2> QED BY <2>4, <1>3, MinOfTwo DEF passed
<1> QED BY <1>2, <1>3

(* For every range and wherever the cursors stand in or around it: what       *)
(* loadMissingBlockRanges counts as processed is the number of heights that   *)
(* one cursor or both have passed, and the percentage is one.                 *)
LEMMA RangeIsExact ==
  ASSUME NEW range \in [start : Nat, end : Nat, upTo : Int, downTo : Int],
         range.start <= range.end
  PROVE  RangesAgree(range)
<1> DEFINE s == range.start  e == range.end  size == e - s + 1
           up == AscDone(range)  down == DescDone(range)
           passed == {h \in s .. e : \/ range.upTo # Unset /\ h <= range.upTo
                                     \/ range.downTo # Unset /\ h >= range.downTo}
<1>1. s \in Nat /\ e \in Nat /\ s <= e /\ range.upTo \in Int /\ range.downTo \in Int
  OBVIOUS
<1>2. /\ up = IF range.upTo # Unset /\ range.upTo >= s
              THEN (IF range.upTo <= e THEN range.upTo ELSE e) - s + 1 ELSE 0
      /\ down = IF range.downTo # Unset /\ range.downTo <= e
                THEN e - (IF range.downTo >= s THEN range.downTo ELSE s) + 1 ELSE 0
  BY <1>1, MaxOfTwo, MinOfTwo DEF AscDone, DescDone
<1>3. /\ up \in Int /\ 0 <= up /\ up <= size
      /\ down \in Int /\ 0 <= down /\ down <= size
  BY <1>1, <1>2
<1>4. passed = Taken(s, e, up, down)
  BY <1>1, <1>2 DEF Taken
<1>5. BlocksProcessed(range) = Min({size, up + down})
  BY DEF BlocksProcessed, Processed
<1>6. BlocksProcessed(range) = Cardinality(passed)
  <2>1. /\ s \in Int /\ e \in Int /\ s <= e
        /\ up \in Int /\ 0 <= up /\ up <= e - s + 1
        /\ down \in Int /\ 0 <= down /\ down <= e - s + 1
    BY <1>1, <1>3
  <2> HIDE DEF s, e, up, down
  <2>2. Cardinality(Taken(s, e, up, down)) = Min({e - s + 1, up + down})
    BY <2>1, BothEnds
  <2> QED BY <2>2, <1>4, <1>5
<1>7. PctProcessed(range) \in 0 .. 1000
  <2>1. size \in Nat /\ size > 0 /\ BlocksProcessed(range) \in Nat /\ BlocksProcessed(range) <= size
    BY <1>1, <1>3, <1>5, MinOfTwo
  <2>2. PctProcessed(range) = (2000 * BlocksProcessed(range) + size) \div (2 * size)
    BY DEF PctProcessed
  <2> DEFINE n == BlocksProcessed(range)
  <2> HIDE DEF n, size
  <2>3. (2000 * n + size) \div (2 * size) \in 0 .. 1000
    <3>1. n \in Nat /\ size \in Nat /\ size > 0 /\ n <= size
      BY <2>1 DEF n
    <3> QED BY <3>1, ShareIsRate
  <2> QED BY <2>2, <2>3 DEF n
<1> QED BY <1>6, <1>7 DEF RangesAgree

(* For every range and wherever the cursors stand in or around it: what       *)
(* loadMissingBlockRanges counts as processed is the number of heights that   *)
(* one cursor or both have passed, and the percentage is one.                 *)
THEOREM ProcessedIsExactAlways ==
  Evaluates("ranges", {range \in [start : Nat, end : Nat, upTo : Int, downTo : Int] :
                          range.start <= range.end})
    => []ProcessedIsExact
<1> DEFINE Ranges == {range \in [start : Nat, end : Nat, upTo : Int, downTo : Int] :
                         range.start <= range.end}
<1>1. focus = "ranges" /\ input \in Ranges => ProcessedIsExact
  BY RangeIsExact DEF ProcessedIsExact
<1>2. ProcessedIsExact /\ [FALSE]_<<focus, input>> => ProcessedIsExact'
  BY DEF ProcessedIsExact
<1> QED BY <1>1, <1>2, PTL DEF Evaluates
===============================================================================
