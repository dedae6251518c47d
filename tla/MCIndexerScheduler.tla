-------------------------- MODULE MCIndexerScheduler --------------------------
(***************************************************************************)
(* A small instance of IndexerScheduler for TLC: near-ingest, a sibling    *)
(* whose ticks may pile up in the gate, and another sibling.               *)
(***************************************************************************)
EXTENDS IndexerScheduler

TickTasks == <<"near-ingest", "pka", "pka", "health-user">>
MCTicks == DOMAIN TickTasks
MCTasks == {TickTasks[k] : k \in MCTicks}

===============================================================================
