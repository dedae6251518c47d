------------------------------- MODULE HttpPool -------------------------------
(***************************************************************************)
(* HttpEndpointPool, the pool of REST endpoints the account linker asks    *)
(* for the accounts of a key: rotation over the endpoints that are not     *)
(* blacklisted, shared by the calls of get in flight.                      *)
(*                                                                         *)
(* A healthy endpoint answers every request, any other fails every         *)
(* request, with an error that blacklists it at once or with one that only *)
(* counts. A get makes 2 * Len(Endpoints) attempts of 15 seconds at most:  *)
(* with the few endpoints of a deployment it is over before a blacklisting *)
(* that began during it expires, 5 minutes later.                          *)
(***************************************************************************)
EXTENDS Integers, Sequences, FiniteSets, Functions

CONSTANTS Endpoints,   \* the URL templates, in order
          Getters,     \* calls of get in flight: lookups of the linker
          MaxFailures  \* DEFAULT_MAX_FAILURES

Names == Range(Endpoints)
NoEndpoint == "none"

ASSUME PoolAssumption ==
    /\ Endpoints \in Seq(Names) /\ Len(Endpoints) > 0
    /\ NoEndpoint \notin Names
    /\ MaxFailures \in Nat \ {0}

VARIABLES
    healthy,      \* the endpoints that answer
    failures,     \* failures[e]: counted since its last answer
    blacklisted,  \* endpoints that are blacklisted
    outlasts,     \* outlasts[e]: gets that were in flight at e's last failure
    index,        \* currentIndex, from 0
    get           \* get[g]: the attempt of a get, and the endpoint it asks

poolVars == <<healthy, failures, blacklisted, outlasts, index, get>>

IdleGet == [attempt |-> 0, asks |-> NoEndpoint, result |-> "none"]

(* Slip: DEFAULT_RETRY_COUNT, however many endpoints there are. *)
DefaultAttempts == 3

(* maxAttempts: DEFAULT_RETRY_COUNT at least. *)
MaxAttempts == IF 2 * Len(Endpoints) > 3 THEN 2 * Len(Endpoints) ELSE 3

PoolInit ==
    /\ healthy \in SUBSET Names
    /\ failures = [e \in Names |-> 0]
    /\ blacklisted = {}
    /\ outlasts = [e \in Names |-> {}]
    /\ index = 0
    /\ get = [g \in Getters |-> IdleGet]

(* The places in the list of the endpoints that are not on the blacklist.  *)
Available(listed) == {i \in DOMAIN Endpoints : Endpoints[i] \notin listed}

(* blacklistDurationMs have passed since the last failure of e. *)
BlacklistExpires(e) ==
    /\ e \in blacklisted /\ outlasts[e] = {}
    /\ blacklisted' = blacklisted \ {e}
    /\ failures' = [failures EXCEPT ![e] = 0]
    /\ UNCHANGED <<healthy, outlasts, index, get>>

-------------------------------------------------------------------------------
(* get. *)

(* getCurrent, with getAvailable: when every endpoint is blacklisted all are *)
(* given another chance, and an index beyond the list goes back to its start. *)
Ask(g) ==
    /\ get[g].asks = NoEndpoint /\ get[g].result = "none"
    /\ LET available == Available(blacklisted)
       IN  IF available = {}
           THEN /\ blacklisted' = {} /\ failures' = [e \in Names |-> 0]
                /\ index' = 0
                /\ get' = [get EXCEPT ![g].asks = Head(Endpoints), ![g].attempt = @ + 1]
           ELSE /\ index' = IF index >= Cardinality(available) THEN 0 ELSE index
                /\ \E i \in available :
                      /\ Cardinality({j \in available : j < i}) = index'
                      /\ get' = [get EXCEPT ![g].asks = Endpoints[i], ![g].attempt = @ + 1]
                /\ UNCHANGED <<failures, blacklisted>>
    /\ UNCHANGED <<healthy, outlasts>>

(* An answer clears the endpoint. *)
Answer(g) ==
    /\ get[g].asks \in healthy
    /\ failures' = [failures EXCEPT ![get[g].asks] = 0]
    /\ blacklisted' = blacklisted \ {get[g].asks}
    /\ get' = [get EXCEPT ![g] = [IdleGet EXCEPT !.result = "answer"]]
    /\ UNCHANGED <<healthy, outlasts, index>>

InFlight == {g \in Getters : get[g].attempt > 0}

(* switchNext. *)
NextIndex(current, available) ==
    IF Cardinality(available) <= 1 THEN 0 ELSE (current + 1) % Cardinality(available)

(* handleFailure: the endpoint is blacklisted for a rate limit, a server or   *)
(* a network error, or when it has failed too often; then the index moves on, *)
(* over what is available now, which is everything, from the start, when the  *)
(* last one has been blacklisted. The last attempt gives up.                  *)
Fail(g, kind) ==
    /\ get[g].asks \in Names \ healthy
    /\ LET e      == get[g].asks
           count  == failures[e] + 1
           listed == blacklisted \union (IF kind = "blacklist" \/ count >= MaxFailures THEN {e} ELSE {})
           left   == Available(listed)
       IN  /\ IF left = {}
              THEN blacklisted' = {} /\ failures' = [x \in Names |-> 0]
              ELSE /\ blacklisted' = listed
                   /\ failures' = [failures EXCEPT ![e] = IF count > MaxFailures THEN MaxFailures ELSE count]
           /\ index' = IF left = {} THEN NextIndex(0, DOMAIN Endpoints) ELSE NextIndex(index, left)
           /\ outlasts' = [outlasts EXCEPT ![e] = InFlight]
    /\ get' = [get EXCEPT ![g] = IF get[g].attempt = MaxAttempts
                                 THEN [IdleGet EXCEPT !.result = "error"]
                                 ELSE [get[g] EXCEPT !.asks = NoEndpoint]]
    /\ UNCHANGED healthy

(* The linker is done with the result, and may look up another key. *)
Done(g) ==
    /\ get[g].result # "none"
    /\ get' = [get EXCEPT ![g] = IdleGet]
    /\ outlasts' = [e \in Names |-> outlasts[e] \ {g}]
    /\ UNCHANGED <<healthy, failures, blacklisted, index>>

PoolNext ==
    \/ \E e \in Names : BlacklistExpires(e)
    \/ \E g \in Getters :
         Ask(g) \/ Answer(g) \/ Done(g) \/ \E kind \in {"blacklist", "count"} : Fail(g, kind)

PoolSpec == PoolInit /\ [][PoolNext]_poolVars

-------------------------------------------------------------------------------
(* Properties. *)

(* Rotation and blacklisting do their work whatever the lookups in flight do *)
(* to the shared index: while one endpoint answers, no get gives up.         *)
HealthyIsReached == healthy # {} => \A g \in Getters : get[g].result # "error"
===============================================================================
