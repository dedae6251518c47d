--------------------------- MODULE MCIngestLiveness ---------------------------
(***************************************************************************)
(* Progress of NearIngest once the outside world has calmed down: until    *)
(* calm is set anything may fail, afterwards endpoints and database answer *)
(* (a Broken block's chunk stays unknown everywhere) and no crash occurs.  *)
(***************************************************************************)
EXTENDS MCNearIngest

VARIABLE calm

liveVars == <<mcVars, calm>>

LiveInit == MCInit /\ calm = FALSE

Good == \/ \E r \in Runs : RunStep(r)
        \/ ChainGrows
        \/ ThrottleElapses

CalmDown == ~calm /\ calm' = TRUE /\ UNCHANGED mcVars

LiveNext ==
    \/ ~calm /\ MCNext /\ UNCHANGED calm
    \/ calm /\ Good /\ UNCHANGED <<crashes, calm>>
    \/ CalmDown

(* The cron fires a run every 30 s and a run's awaits resolve (each request *)
(* has a timeout), so a run slot that can step does; wall-clock time passes *)
(* for the throttle; and the pool's blacklist expiry makes it usable again. *)
LiveSpec ==
    /\ LiveInit
    /\ [][LiveNext]_liveVars
    /\ WF_liveVars(CalmDown)
    /\ \A r \in Runs : WF_liveVars(RunStep(r) /\ UNCHANGED <<crashes, calm>>)
    /\ WF_liveVars(ThrottleElapses /\ UNCHANGED <<crashes, calm>>)

(* Ingestion catches up with the chain and stays there: holes are retried, *)
(* a block no endpoint can serve does not wedge the checkpoint forever,    *)
(* and a head out of reach is jumped to.                                   *)
CatchesUp == <>[](ckpt.scanned = tip)

(* While the process lives, a throttled rebuild is not forgotten: a dirty  *)
(* flag leads to a mart that reflects every sign event, even if the runs   *)
(* after the throttled one persist none.                                   *)
DirtyMartIsRebuilt == mem.martDirty ~> mart.fresh

===============================================================================
