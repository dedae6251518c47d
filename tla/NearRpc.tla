-------------------------------- MODULE NearRpc -------------------------------
(***************************************************************************)
(* The NEAR RPC pool (NearRpcService.request) and the verdict the ingest   *)
(* draws from a request that ran out of attempts (NearBlockService).       *)
(*                                                                         *)
(* Every request of the process shares the endpoints' failure counts,      *)
(* blacklist and round-robin scores. Picking an endpoint is one            *)
(* synchronous stretch, handling its answer another; between them any      *)
(* other request may do the same.                                          *)
(***************************************************************************)
EXTENDS Integers, FiniteSets, Functions

CONSTANTS Endpoints,    \* the pool, as 1 .. n in the order of its list
          Weight,       \* Weight[e]: capacity weight (NEAR_RPC_WEIGHTS)
          MaxFailures,  \* failures that blacklist an endpoint
          MaxAttempts,  \* attempts of one request
          Requests,     \* request slots: calls of request at the same time
          HolderSets    \* the sets of endpoints that may hold a looked-up block

ASSUME PoolAssumption ==
    /\ Endpoints = 1 .. Cardinality(Endpoints)
    /\ IsFiniteSet(Endpoints) /\ Endpoints # {}
    /\ Weight \in [Endpoints -> Nat \ {0}]
    /\ MaxFailures \in Nat \ {0}
    /\ MaxAttempts \in Nat \ {0}
    /\ HolderSets \subseteq SUBSET Endpoints

VARIABLES pool,  \* pool[e]: the endpoint's record
          req    \* req[q]: the local variables of request slot q

rpcVars == <<pool, req>>

(* old: more than the blacklist duration has passed since lastFailure.     *)
EndpointType == [failures    : 0 .. MaxFailures,  \* counts no further
                 blacklisted : BOOLEAN,
                 old         : BOOLEAN,
                 score       : Int]               \* currentWeight

FreshEndpoint == [failures |-> 0, blacklisted |-> FALSE, old |-> FALSE, score |-> 0]

RequestType == [pc        : {"idle", "pick", "asked"},
                holders   : SUBSET Endpoints,  \* who has the block (external)
                at        : Endpoints,         \* the endpoint asked last
                attempt   : 0 .. MaxAttempts,
                contacted : SUBSET Endpoints,
                unknown   : SUBSET Endpoints,  \* unknownBlockEndpoints
                missing   : BOOLEAN]           \* the last call ended in the
                                               \* verdict "missing everywhere"

IdleRequest == [pc |-> "idle", holders |-> {}, at |-> 1, attempt |-> 0,
                contacted |-> {}, unknown |-> {}, missing |-> FALSE]

TypeOK == pool \in [Endpoints -> EndpointType] /\ req \in [Requests -> RequestType]

Init ==
    /\ pool = [e \in Endpoints |-> FreshEndpoint]
    /\ req = [q \in Requests |-> IdleRequest]

-------------------------------------------------------------------------------
(* Picking an endpoint. *)

(* A clean record; only a reset of the whole pool touches the score. *)
Pardoned(e) == [FreshEndpoint EXCEPT !.score = e.score]

(* clearExpiredBlacklists *)
Cleared == [e \in Endpoints |->
              IF pool[e].blacklisted /\ pool[e].old THEN Pardoned(pool[e]) ELSE pool[e]]

InRotation(p) == {e \in Endpoints : ~p[e].blacklisted}

(* getAvailableEndpoints: with every endpoint blacklisted, start over. *)
Usable == LET c == Cleared
          IN  IF InRotation(c) # {} THEN c ELSE [e \in Endpoints |-> FreshEndpoint]

TotalWeight(S) == SumFunctionOnSet(Weight, S)

(* pickNextEndpoint, first half: every endpoint in rotation gains its weight. *)
Raised(p) == [e \in Endpoints |->
                IF p[e].blacklisted THEN p[e] ELSE [p[e] EXCEPT !.score = @ + Weight[e]]]

(* Slip: the heaviest endpoint in rotation wins, whatever the scores.      *)
Heaviest(p) ==
    CHOOSE e \in InRotation(p) :
       \A d \in InRotation(p) : Weight[d] < Weight[e] \/ (Weight[d] = Weight[e] /\ e <= d)

(* Slip: the comparison the wrong way round, the lowest score wins.        *)
Lowest(p) ==
    CHOOSE e \in InRotation(p) :
       \A d \in InRotation(p) :
          p[d].score > p[e].score \/ (p[d].score = p[e].score /\ e <= d)

(* The highest score wins; on a tie, the endpoint first in the list. *)
Best(p) ==
    CHOOSE e \in InRotation(p) :
       \A d \in InRotation(p) :
          p[d].score < p[e].score \/ (p[d].score = p[e].score /\ e <= d)

Start(q) ==
    /\ req[q].pc = "idle"
    /\ \E h \in HolderSets :
          req' = [req EXCEPT ![q] = [IdleRequest EXCEPT !.pc = "pick", !.holders = h]]
    /\ UNCHANGED pool

(* Slip: the winner pays for the endpoints out of rotation too.            *)
PickOverpaid(q) ==
    /\ req[q].pc = "pick"
    /\ \E raised \in {Raised(Usable)} :
       \E best \in {Best(raised)} :
          /\ pool' = [raised EXCEPT ![best].score = @ - TotalWeight(Endpoints)]
          /\ req' = [req EXCEPT ![q].pc        = "asked",
                                ![q].at        = best,
                                ![q].attempt   = @ + 1,
                                ![q].contacted = @ \cup {best}]

(* Second half: the winner pays for all of them. *)
Pick(q) ==
    /\ req[q].pc = "pick"
    /\ \E raised \in {Raised(Usable)} :
       \E best \in {Best(raised)} :
          /\ pool' = [raised EXCEPT ![best].score = @ - TotalWeight(InRotation(raised))]
          /\ req' = [req EXCEPT ![q].pc        = "asked",
                                ![q].at        = best,
                                ![q].attempt   = @ + 1,
                                ![q].contacted = @ \cup {best}]

-------------------------------------------------------------------------------
(* Handling an answer. *)

(* handleFailure. now: the answer is a rate limit, a server error or a     *)
(* connection error, which blacklist at once.                              *)
Failed(e, now) ==
    LET n == IF e.failures < MaxFailures THEN e.failures + 1 ELSE MaxFailures
    IN  [e EXCEPT !.failures    = n,
                  !.old         = FALSE,
                  !.blacklisted = @ \/ now \/ n >= MaxFailures]

(* Slip: a single endpoint's word is enough.                               *)
OneSaysMissing(unknown, contacted) ==
    Cardinality(unknown) >= 1 /\ Cardinality(unknown) >= Cardinality(contacted) - 1

(* isReportedMissingEverywhere: two endpoints at least say so, and at most *)
(* one of the contacted does not.                                          *)
ReportedMissing(unknown, contacted) ==
    /\ Cardinality(unknown) >= 2
    /\ Cardinality(unknown) >= Cardinality(contacted) - 1

Served(q) ==
    /\ req[q].pc = "asked"
    /\ req[q].at \in req[q].holders
    /\ pool' = [pool EXCEPT ![req[q].at] = Pardoned(@)]
    /\ req' = [req EXCEPT ![q] = IdleRequest]

(* After a failed attempt: the next one, or NearRpcExhaustedError and the  *)
(* caller's verdict on it.                                                 *)
NextAttempt(q, unknown) ==
    req' = [req EXCEPT ![q] =
              IF req[q].attempt < MaxAttempts
              THEN [req[q] EXCEPT !.pc = "pick", !.unknown = unknown]
              ELSE IF ReportedMissing(unknown, req[q].contacted)
              THEN [IdleRequest EXCEPT !.missing = TRUE, !.holders = req[q].holders]
              ELSE IdleRequest]

(* An endpoint without the block says that it does not know it; with some  *)
(* providers as a server error.                                            *)
AnswersUnknown(q, now) ==
    /\ req[q].pc = "asked"
    /\ req[q].at \notin req[q].holders
    /\ pool' = [pool EXCEPT ![req[q].at] = Failed(@, now)]
    /\ NextAttempt(q, req[q].unknown \cup {req[q].at})

(* Any other failure, from any endpoint. *)
AttemptFails(q, now) ==
    /\ req[q].pc = "asked"
    /\ pool' = [pool EXCEPT ![req[q].at] = Failed(@, now)]
    /\ NextAttempt(q, req[q].unknown)

(* Time passes for a blacklisted endpoint. *)
GrowsOld(e) ==
    /\ pool[e].blacklisted
    /\ ~pool[e].old
    /\ pool' = [pool EXCEPT ![e].old = TRUE]
    /\ UNCHANGED req

Next ==
    \/ \E q \in Requests :
          \/ Start(q) \/ Pick(q) \/ Served(q)
          \/ \E now \in BOOLEAN : AnswersUnknown(q, now) \/ AttemptFails(q, now)
    \/ \E e \in Endpoints : GrowsOld(e)

Spec == Init /\ [][Next]_rpcVars

-------------------------------------------------------------------------------
(* Properties. *)

(* A single endpoint that pruned a block cannot have it judged missing,    *)
(* however often it is asked, whatever the other endpoints fail with and   *)
(* whatever other requests do to the blacklist (NearBlockService's class   *)
(* comment).                                                               *)
OnePrunerIsSafe ==
    \A q \in Requests :
       Cardinality(Endpoints \ req[q].holders) <= 1 => ~req[q].missing

(* A block some endpoint still holds is not judged missing: "one           *)
(* endpoint's shorter retention horizon" must not advance the checkpoint   *)
(* "past real blocks", and the tolerated outlier comes "without            *)
(* over-skipping" (near-block.service.ts).                                 *)
HeldBlockIsNotMissing ==
    \A q \in Requests : req[q].missing => req[q].holders = {}

(* The round robin only moves credit between endpoints, through every      *)
(* blacklisting, expiry and reset: no endpoint's share leaks away.         *)
ScoresBalance == SumFunction([e \in Endpoints |-> pool[e].score]) = 0

(* The most a single endpoint can owe, or be owed by, the others. *)
CreditLimit == (Cardinality(Endpoints) - 1) * (TotalWeight(Endpoints) - 1)

(* What a group of k endpoints can be owed by the others. *)
GroupLimit(k) == k * (Cardinality(Endpoints) - k) * (TotalWeight(Endpoints) - 1)

(* No group of endpoints piles up a claim on the rest of the pool, and so  *)
(* no endpoint a debt that would keep it out of the rotation for long,     *)
(* whichever endpoints are blacklisted, return with the score they left    *)
(* with, or are reset, between two picks (pickNextEndpoint).               *)
CreditIsBounded ==
    \A A \in SUBSET Endpoints :
       SumFunctionOnSet([e \in Endpoints |-> pool[e].score], A) <= GroupLimit(Cardinality(A))

(* Checked as one invariant: with it, the values are of their types. *)
RpcInv == TypeOK /\ ScoresBalance

===============================================================================
