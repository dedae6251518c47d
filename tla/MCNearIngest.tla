----------------------------- MODULE MCNearIngest -----------------------------
(***************************************************************************)
(* Small instances of NearIngest for TLC, and the history the crash bound  *)
(* needs.                                                                  *)
(***************************************************************************)
EXTENDS NearIngest

CONSTANT MaxCrashes  \* bound: worker restarts in a behaviour

VARIABLE crashes

mcVars == <<ingestVars, crashes>>

MCInit == Init /\ crashes = 0

MCNext ==
    \/ /\ \/ \E r \in Runs : RunStep(r) \/ RunFault(r)
          \/ ChainGrows
          \/ ThrottleElapses
       /\ UNCHANGED crashes
    \/ /\ crashes < MaxCrashes
       /\ Crash
       /\ crashes' = crashes + 1

MCSpec == MCInit /\ [][MCNext]_mcVars

===============================================================================
