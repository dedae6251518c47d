-------------------------- MODULE MCPublicKeyAccounts -------------------------
(***************************************************************************)
(* Small instances of PublicKeyAccounts for TLC, and its progress once     *)
(* endpoints and database answer: until calm is set anything may fail.     *)
(***************************************************************************)
EXTENDS PublicKeyAccounts

VARIABLE calm

mcVars == <<pkaVars, calm>>

(* Two users sign three events; user 1 has two accounts, one of them shared *)
(* with user 2.                                                            *)
TwoUsers == <<1, 2, 1>>
Shared == <<{"alice", "bob"}, {"alice"}>>

(* Key 1 belongs to nobody, for good. *)
OneStranger == <<{}, {"alice"}>>

MCInit == Init /\ calm = FALSE

Good == \/ \E r \in Runs : RunStep(r)
        \/ \E i \in Ids : EventCommits(i)
        \/ ThrottleElapses

CalmDown == ~calm /\ calm' = TRUE /\ UNCHANGED pkaVars

MCNext ==
    \/ ~calm /\ Next /\ UNCHANGED calm
    \/ calm /\ Good /\ UNCHANGED calm
    \/ CalmDown

(* The cron starts a run every minute and each of its awaits ends; time    *)
(* passes for the sweep's throttle.                                        *)
MCSpec ==
    /\ MCInit
    /\ [][MCNext]_mcVars
    /\ WF_mcVars(CalmDown)
    /\ \A r \in Runs : WF_mcVars(RunStep(r) /\ UNCHANGED calm)
    /\ WF_mcVars(ThrottleElapses /\ UNCHANGED calm)

(* "A transient FastNEAR outage doesn't permanently lose a user"           *)
(* (PubkeyLookupService): an event with a key is stamped in the end if the *)
(* key has an account, whatever failed when its batch was processed, and   *)
(* however late the event became visible.                                  *)
UsersResolve ==
    \A i \in Ids :
       (i \in keyed /\ OwnersOf[KeyOf[i]] # {}) ~> stamp[i] # Nobody

===============================================================================
