--------------------------- MODULE DashboardSnapshot --------------------------
(***************************************************************************)
(* The precompute job of the dashboard: DashboardSnapshotService and the   *)
(* fan-out of DashboardDataService.computeDashboardData, with the last     *)
(* good value of every section. A value is the version of the tables it    *)
(* was computed from; Empty is a section's typed default.                  *)
(*                                                                         *)
(* Four sections stand for the forty: one that rejects and is light, one   *)
(* that rejects and is heavy, the missing ranges, which swallow their      *)
(* failure, and the real activity, which has sections of its own. Sections *)
(* share nothing but the refresh, so that a few are watched at a time.     *)
(***************************************************************************)
EXTENDS Integers, FiniteSets

CONSTANTS WatchedSets,  \* the sets of sections watched
          Refreshes,    \* slots for calls of refreshSnapshot
          HeavyPeriod,  \* HEAVY_SECTION_REFRESH_MS, in time steps
          MaxVersion    \* bound: versions of the tables

SectionNames == {"signTotal", "topAccounts", "missingBlockRanges", "realActivity"}
ASSUME SnapshotAssumption ==
    /\ WatchedSets \subseteq SUBSET SectionNames
    /\ HeavyPeriod \in Nat \ {0} /\ MaxVersion \in Nat \ {0}

VARIABLES
    watched,     \* the sections watched
    version,     \* the indexer's tables
    running,     \* the re-entrancy guard of refreshSnapshot
    heavyAge,    \* time steps since lastHeavyRefreshAtMs
    lastGood,    \* lastGoodSections, and the one of the activity's queries
    refresh,     \* refresh[r]: the local variables of a call
    snapshotRow,         \* the dashboard_snapshots row of the dashboard
    published    \* history: what this incarnation of the worker last published

snapshotVars == <<watched, version, running, heavyAge, lastGood, refresh, snapshotRow, published>>

HeavySections == {"topAccounts", "realActivity"}
ActivityQueries == "realActivity.windowsRows"
Empty == 0
Missing == -1   \* no value yet
Rejected == -2  \* the section's promise rejected

Waiting == [s \in watched |-> Missing]
IdleRefresh == [pc |-> "idle", heavy |-> FALSE, settled |-> Waiting]
NothingGood == [s \in watched \union {ActivityQueries} |-> Missing]
Unpublished == Waiting

SnapshotInit ==
    /\ watched \in WatchedSets
    /\ version = 1
    /\ running = FALSE
    /\ heavyAge = HeavyPeriod
    /\ lastGood = NothingGood
    /\ refresh = [r \in Refreshes |-> IdleRefresh]
    /\ snapshotRow = [s \in watched |-> Empty]
    /\ published = Unpublished

(* The indexer writes. *)
TablesChange ==
    /\ version < MaxVersion
    /\ version' = version + 1
    /\ UNCHANGED <<watched, running, heavyAge, lastGood, refresh, snapshotRow, published>>

TimePasses ==
    /\ heavyAge < HeavyPeriod
    /\ heavyAge' = heavyAge + 1
    /\ UNCHANGED <<watched, version, running, lastGood, refresh, snapshotRow, published>>

-------------------------------------------------------------------------------
(* refreshSnapshot. *)

Proceed(r, next) == refresh' = [refresh EXCEPT ![r] = next]

(* Slip: no re-entrancy guard. *)
Always == TRUE
NotRunning == ~running

(* Slip: the time of the last heavy refresh is set in every cycle. *)
AgeFromNow(heavy) == 0
AgeAfter(heavy) == IF heavy THEN 0 ELSE heavyAge

(* The cron, or the boot of the worker, starts a refresh; while one runs the *)
(* cycle is skipped. Whether it is a heavy one is decided here.              *)
Start(r) ==
    /\ refresh[r].pc = "idle" /\ NotRunning
    /\ LET heavy == heavyAge >= HeavyPeriod
       IN  /\ Proceed(r, [IdleRefresh EXCEPT !.pc = "compute", !.heavy = heavy])
           /\ heavyAge' = AgeAfter(heavy)
    /\ running' = TRUE
    /\ UNCHANGED <<watched, version, lastGood, snapshotRow, published>>

(* A heavy section that is not due resolves to its last good value. *)
Reuses(r, s) == s \in HeavySections /\ ~refresh[r].heavy /\ lastGood[s] # Missing

(* unwrapSection: a failed section gives its last good value, or the default. *)
Unwrapped(section, result) ==
    CASE result # Rejected -> result
      [] result = Rejected /\ lastGood[section] # Missing -> lastGood[section]
      [] OTHER -> Empty

Settles(r, s, result) ==
    /\ refresh[r].pc = "compute" /\ refresh[r].settled[s] = Missing
    /\ Proceed(r, [refresh[r] EXCEPT !.settled[s] = result])
    /\ UNCHANGED <<watched, version, running, heavyAge, snapshotRow, published>>

(* A section is answered. *)
Loads(r, s) ==
    IF Reuses(r, s)
    THEN Settles(r, s, lastGood[s]) /\ UNCHANGED lastGood
    ELSE /\ Settles(r, s, version)
         /\ lastGood' = IF s = "realActivity" THEN [lastGood EXCEPT ![ActivityQueries] = version]
                        ELSE lastGood

(* The query behind a section fails. The missing ranges become an empty list *)
(* that counts as an answer; so does the real activity, built of the last    *)
(* good answers of its own queries, or of nothing.                           *)
LoadFails(r, s) ==
    /\ ~Reuses(r, s)
    /\ Settles(r, s, CASE s = "missingBlockRanges" -> Empty
                       [] s = "realActivity" -> Unwrapped(ActivityQueries, Rejected)
                       [] OTHER -> Rejected)
    /\ UNCHANGED lastGood

(* Every section settled: the payload is put together. *)
Assemble(r) ==
    /\ refresh[r].pc = "compute"
    /\ \A s \in watched : refresh[r].settled[s] # Missing
    /\ LET data == [s \in watched |-> Unwrapped(s, refresh[r].settled[s])]
       IN  /\ Proceed(r, [refresh[r] EXCEPT !.pc = "metrics", !.settled = data])
           /\ lastGood' = [s \in DOMAIN lastGood |->
                             IF s \in watched /\ refresh[r].settled[s] # Rejected THEN data[s] ELSE lastGood[s]]
    /\ UNCHANGED <<watched, version, running, heavyAge, snapshotRow, published>>

(* computeMetrics, which has no sections: it answers or throws. *)
ComputeMetrics(r) ==
    /\ refresh[r].pc = "metrics"
    /\ Proceed(r, [refresh[r] EXCEPT !.pc = "upsert"])
    /\ UNCHANGED <<watched, version, running, heavyAge, lastGood, snapshotRow, published>>

(* Both rows are upserted in one statement. *)
Upsert(r) ==
    /\ refresh[r].pc = "upsert"
    /\ snapshotRow' = refresh[r].settled /\ published' = refresh[r].settled
    /\ Proceed(r, IdleRefresh) /\ running' = FALSE
    /\ UNCHANGED <<watched, version, heavyAge, lastGood>>

(* Metrics or upsert throw: the row stays as it is. *)
RefreshFails(r) ==
    /\ refresh[r].pc \in {"metrics", "upsert"}
    /\ Proceed(r, IdleRefresh) /\ running' = FALSE
    /\ UNCHANGED <<watched, version, heavyAge, lastGood, snapshotRow, published>>

(* The worker is restarted: what it remembered is gone, the row is not. *)
WorkerRestarts ==
    /\ running' = FALSE /\ heavyAge' = HeavyPeriod
    /\ lastGood' = NothingGood
    /\ refresh' = [r \in Refreshes |-> IdleRefresh]
    /\ published' = Unpublished
    /\ UNCHANGED <<watched, version, snapshotRow>>

RefreshSteps(r) ==
    \/ \E s \in watched : Loads(r, s)
    \/ Assemble(r) \/ ComputeMetrics(r) \/ Upsert(r)
RefreshFailures(r) == (\E s \in watched : LoadFails(r, s)) \/ RefreshFails(r)

SnapshotNext ==
    \/ TablesChange \/ TimePasses \/ WorkerRestarts
    \/ \E r \in Refreshes : Start(r) \/ RefreshSteps(r) \/ RefreshFailures(r)

SnapshotSpec == SnapshotInit /\ [][SnapshotNext]_snapshotVars

-------------------------------------------------------------------------------
(* Properties. *)

(* What lastGoodSections is for ("those defaults were what made /status flip *)
(* ... to 0 between snapshots"): until the worker restarts, no publication   *)
(* takes a section back to the default or to older tables than an earlier    *)
(* one. The missing ranges are no such section: their failure is published.  *)
SectionsNeverGoBack ==
    [][published' = Unpublished
         \/ \A s \in watched \ {"missingBlockRanges"} : published'[s] >= published[s]]_published
===============================================================================
