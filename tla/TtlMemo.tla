-------------------------------- MODULE TtlMemo -------------------------------
(***************************************************************************)
(* TtlMemo, the read cache in front of the snapshot row: one factory call  *)
(* in flight at a time, shared by the callers that come meanwhile, and a   *)
(* window of validity that begins when it resolves. A value is the number  *)
(* of the snapshot that the factory's SELECT saw.                          *)
(***************************************************************************)
EXTENDS Integers

CONSTANTS Calls,       \* slots for calls of the factory
          NoCall,      \* inFlight = null
          MaxSnapshot  \* bound: snapshots upserted

ASSUME MemoAssumption == NoCall \notin Calls /\ MaxSnapshot \in Nat

VARIABLES
    snapshot,  \* the row the factory selects
    cached,    \* the cached value, and whether it has expired
    inFlight,  \* the promise new callers share
    call,      \* call[c]: a call of the factory, and what it has read
    served     \* history: the value callers were given last

memoVars == <<snapshot, cached, inFlight, call, served>>

NoValue == -1
NoFlight == [pc |-> "none", value |-> NoValue]

MemoInit ==
    /\ snapshot = 0
    /\ cached = [value |-> NoValue, fresh |-> FALSE]
    /\ inFlight = NoCall
    /\ call = [c \in Calls |-> NoFlight]
    /\ served = NoValue

(* The worker upserts the row. *)
NewSnapshot ==
    /\ snapshot < MaxSnapshot
    /\ snapshot' = snapshot + 1
    /\ UNCHANGED <<cached, inFlight, call, served>>

(* ttlMs have passed since the value was cached. *)
Expire ==
    /\ cached.fresh
    /\ cached' = [cached EXCEPT !.fresh = FALSE]
    /\ UNCHANGED <<snapshot, inFlight, call, served>>

(* get: a fresh value is given at once; *)
GetCached ==
    /\ cached.fresh
    /\ served' = cached.value
    /\ UNCHANGED <<snapshot, cached, inFlight, call>>

(* Slip: a caller does not look for a call in flight. *)
NeverShared == FALSE
Shared == inFlight # NoCall

(* a call in flight is shared, which changes nothing; otherwise the factory  *)
(* is called.                                                                *)
GetCalls(c) ==
    /\ ~cached.fresh /\ ~Shared
    /\ call[c].pc = "none"
    /\ call' = [call EXCEPT ![c].pc = "called"]
    /\ inFlight' = c
    /\ UNCHANGED <<snapshot, cached, served>>

(* The factory's SELECT. *)
Select(c) ==
    /\ call[c].pc = "called"
    /\ call' = [call EXCEPT ![c] = [pc |-> "selected", value |-> snapshot]]
    /\ UNCHANGED <<snapshot, cached, inFlight, served>>

(* The promise resolves: its callers have the value, and it is cached when   *)
(* it still is the call in flight.                                           *)
Resolve(c) ==
    /\ call[c].pc = "selected"
    /\ served' = call[c].value
    /\ IF inFlight = c
       THEN cached' = [value |-> call[c].value, fresh |-> TRUE] /\ inFlight' = NoCall
       ELSE UNCHANGED <<cached, inFlight>>
    /\ call' = [call EXCEPT ![c] = NoFlight]
    /\ UNCHANGED snapshot

(* It rejects: the slot is free for the next caller. *)
Reject(c) ==
    /\ call[c].pc # "none"
    /\ inFlight' = IF inFlight = c THEN NoCall ELSE inFlight
    /\ call' = [call EXCEPT ![c] = NoFlight]
    /\ UNCHANGED <<snapshot, cached, served>>

MemoNext ==
    \/ NewSnapshot \/ Expire \/ GetCached
    \/ \E c \in Calls : GetCalls(c) \/ Select(c) \/ Resolve(c) \/ Reject(c)

MemoSpec == MemoInit /\ [][MemoNext]_memoVars

-------------------------------------------------------------------------------
(* Properties. *)

(* "At most one factory call is in flight at any time" is what keeps the     *)
(* answers in order: no request is answered with an older snapshot than an   *)
(* earlier one.                                                              *)
ReadsNeverGoBack == [][served' >= served]_served
===============================================================================
