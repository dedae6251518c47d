---------------------------- MODULE NearRpcProofs ----------------------------
(*****************************************************************************)
(* Proofs about NearRpc, for any pool, any weights and limits and any number *)
(* of requests that share it: the scores balance, no endpoint starves, and   *)
(* one endpoint that has pruned a block never decides that it is missing.    *)
(*                                                                           *)
(* The argument for the scores: a pick raises every endpoint in rotation by  *)
(* its weight and takes the sum of these weights from one of them, which is  *)
(* in the pool because a finite set of integers has a best score; everything *)
(* else leaves the scores as they are or sets them all to zero.              *)
(*                                                                           *)
(* The argument for starvation: let k endpoints of a pool of n claim at most *)
(* k * (n - k) * (total weight - 1) from the others. A pick raises the claim *)
(* of a group only when it asks an endpoint b outside it, in front of an     *)
(* endpoint e inside it; b then has the better score, and the group with b   *)
(* and the group without e, which both keep their limits, leave room for     *)
(* what the group gains. A score is therefore bounded from both sides, and   *)
(* each pick that passes over an endpoint raises its score by its weight.    *)
(*****************************************************************************)
EXTENDS NearRpcRotation, CountingLemmas

-------------------------------------------------------------------------------
(* Who is picked. *)

(* e has the best score in R. *)
BestOf(p, R, e) ==
    \A d \in R : p[d].score < p[e].score \/ (p[d].score = p[e].score /\ e <= d)

(* A finite set of endpoints has a best score: a smallest set without one     *)
(* would keep its own when an endpoint is added to a smaller set.             *)
LEMMA SomeIsBest ==
  ASSUME NEW R, R \subseteq Int, IsFiniteSet(R), R # {}, NEW p, \A e \in R : p[e].score \in Int
  PROVE  \E e \in R : BestOf(p, R, e)
<1> DEFINE Bad == {T \in SUBSET R : T # {} /\ \A e \in T : ~BestOf(p, T, e)}
<1>0. SUFFICES ASSUME Bad # {} PROVE FALSE
  BY DEF Bad
<1>1. PICK T \in Bad : \A V \in Bad : V \subseteq T => V = T
  <2>1. Bad \subseteq SUBSET R /\ IsFiniteSet(R)
    OBVIOUS
  <2> HIDE DEF Bad
  <2> QED BY ONLY <1>0, <2>1, SmallestSubset
<1>2. PICK x \in T : TRUE
  BY <1>1
<1>3. CASE T = {x}
  BY <1>1, <1>3 DEF BestOf
<1>4. CASE T # {x}
  <2>1. T \ {x} \in SUBSET R /\ T \ {x} # {} /\ T \ {x} # T
    BY <1>1, <1>4
  <2>2. PICK b \in T \ {x} : BestOf(p, T \ {x}, b)
    BY <2>1, <1>1
  <2>3. b \in Int /\ x \in Int /\ p[b].score \in Int /\ p[x].score \in Int /\ b # x
    BY <1>1, <2>2
  <2>4. \A d \in T : d \in Int /\ p[d].score \in Int
    BY <1>1
  <2>5. CASE p[x].score < p[b].score \/ (p[x].score = p[b].score /\ b <= x)
    <3>1. BestOf(p, T, b)
      BY <2>2, <2>5 DEF BestOf
    <3> QED BY <3>1, <1>1, <2>2
  <2>6. CASE p[b].score < p[x].score \/ (p[x].score = p[b].score /\ x <= b)
    <3>1. BestOf(p, T, x)
      <4> SUFFICES ASSUME NEW d \in T
                   PROVE  p[d].score < p[x].score \/ (p[d].score = p[x].score /\ x <= d)
        BY DEF BestOf
      <4>1. CASE d = x
        BY <4>1, <2>3
      <4>2. CASE d # x
        <5>1. p[d].score < p[b].score \/ (p[d].score = p[b].score /\ b <= d)
          BY <4>2, <2>2 DEF BestOf
        <5> QED BY <5>1, <2>6, <2>3, <2>4
      <4> QED BY <4>1, <4>2
    <3> QED BY <3>1, <1>1
  <2> QED BY <2>3, <2>5, <2>6
<1> QED BY <1>3, <1>4

LEMMA FinitePool == IsFiniteSet(Endpoints)
BY PoolAssumption

LEMMA EndpointsAreInts == Endpoints \subseteq Int /\ IsFiniteSet(Endpoints) /\ 1 \in Endpoints
<1>1. Cardinality(Endpoints) \in Nat /\ (Cardinality(Endpoints) = 0 <=> Endpoints = {})
  BY PoolAssumption, FS_CardinalityType, FS_EmptySet
<1>2. Endpoints = 1 .. Cardinality(Endpoints) /\ IsFiniteSet(Endpoints) /\ Endpoints # {}
  BY PoolAssumption
<1> QED BY <1>1, <1>2

(* A pick takes an endpoint in rotation, the best one. *)
LEMMA BestIsInRotation ==
  ASSUME NEW p, p \in [Endpoints -> EndpointType], InRotation(p) # {}
  PROVE  Best(p) \in InRotation(p) /\ BestOf(p, InRotation(p), Best(p))
<1>1. InRotation(p) \in SUBSET Int /\ IsFiniteSet(InRotation(p)) /\ InRotation(p) \subseteq Endpoints
  BY EndpointsAreInts, FS_Subset DEF InRotation
<1>2. \A e \in InRotation(p) : p[e].score \in Int
  BY <1>1 DEF EndpointType
<1>3. \E e \in InRotation(p) : BestOf(p, InRotation(p), e)
  BY <1>1, <1>2, SomeIsBest
<1> QED BY <1>3 DEF Best, BestOf

-------------------------------------------------------------------------------
(* The scores. *)

Scores(p) == [e \in Endpoints |-> p[e].score]
Balance(p) == SumFunction(Scores(p))
PoolType == [Endpoints -> EndpointType]

LEMMA BalanceIsSum ==
  ASSUME NEW p \in PoolType
  PROVE  /\ Balance(p) = SumFunctionOnSet(Scores(p), Endpoints)
         /\ \A e \in Endpoints : Scores(p)[e] = p[e].score /\ p[e].score \in Int
         /\ Balance(p) \in Int
<1>1. DOMAIN Scores(p) = Endpoints
  BY DEF Scores
<1>2. Balance(p) = SumFunctionOnSet(Scores(p), Endpoints)
  BY <1>1 DEF Balance, SumFunction
<1>3. \A e \in Endpoints : Scores(p)[e] = p[e].score /\ p[e].score \in Int
  BY DEF Scores, PoolType, EndpointType
<1> QED BY <1>2, <1>3, SumIsInt, FinitePool

(* The balance depends on the scores alone. *)
LEMMA SameScoresBalance ==
  ASSUME NEW p \in PoolType, NEW r \in PoolType,
         \A e \in Endpoints : r[e].score = p[e].score
  PROVE  Balance(r) = Balance(p)
BY BalanceIsSum, SumOfSame, FinitePool

LEMMA PardonType == ASSUME NEW e \in EndpointType
                    PROVE  /\ Pardoned(e) \in EndpointType
                           /\ Pardoned(e).score = e.score
<1>1. FreshEndpoint \in EndpointType
  BY PoolAssumption DEF FreshEndpoint, EndpointType
<1>2. \A x \in EndpointType, n \in Int :
         [x EXCEPT !.score = n] \in EndpointType /\ [x EXCEPT !.score = n].score = n
  BY DEF EndpointType
<1>3. e.score \in Int
  BY DEF EndpointType
<1> QED BY <1>1, <1>2, <1>3 DEF Pardoned

(* A pool of fresh records balances. *)
LEMMA FreshBalance ==
  LET fresh == [e \in Endpoints |-> FreshEndpoint]
  IN  fresh \in PoolType /\ Balance(fresh) = 0
<1> DEFINE fresh == [e \in Endpoints |-> FreshEndpoint]
<1>1. fresh \in PoolType
  BY PoolAssumption DEF PoolType, FreshEndpoint, EndpointType
<1>2. \A e \in Endpoints : Scores(fresh)[e] = 0
  BY DEF Scores, FreshEndpoint
<1>3. SumFunctionOnSet(Scores(fresh), Endpoints) = 0
  BY <1>2, SumOfZeros, FinitePool
<1> QED BY <1>1, <1>3, BalanceIsSum

(* What a pick starts from: somebody is in rotation, and the balance is that of the pool. *)
LEMMA UsablePool ==
  ASSUME pool \in PoolType, Balance(pool) = 0
  PROVE  Usable \in PoolType /\ Balance(Usable) = 0 /\ InRotation(Usable) # {}
<1> DEFINE fresh == [e \in Endpoints |-> FreshEndpoint]
<1>1. Cleared \in PoolType /\ \A e \in Endpoints : Cleared[e].score = pool[e].score
  BY PardonType DEF Cleared, PoolType
<1>2. Balance(Cleared) = 0
  BY <1>1, SameScoresBalance
<1>3. fresh \in PoolType /\ Balance(fresh) = 0
  BY FreshBalance
<1>4. InRotation(fresh) # {}
  BY EndpointsAreInts DEF InRotation, FreshEndpoint
<1> QED BY <1>1, <1>2, <1>3, <1>4 DEF Usable

LEMMA WeightsAreInts == \A e \in Endpoints : Weight[e] \in Int
BY PoolAssumption

(* A pick: everybody in rotation gains its weight, the best pays the sum. *)
(* Raising adds the weights of the endpoints in rotation to the balance... *)
LEMMA RaisedPool ==
  ASSUME NEW p \in PoolType
  PROVE  /\ Raised(p) \in PoolType
         /\ InRotation(Raised(p)) = InRotation(p)
         /\ Balance(Raised(p)) = Balance(p) + TotalWeight(InRotation(p))
         /\ TotalWeight(InRotation(p)) \in Int
<1>1. /\ Raised(p) \in PoolType
      /\ \A e \in Endpoints :
            /\ Raised(p)[e].blacklisted = p[e].blacklisted
            /\ Raised(p)[e].score = IF e \in InRotation(p) THEN p[e].score + Weight[e] ELSE p[e].score
  BY WeightsAreInts DEF Raised, PoolType, EndpointType, InRotation
<1>2. InRotation(Raised(p)) = InRotation(p)
  BY <1>1 DEF InRotation
<1>3. InRotation(p) \in SUBSET Endpoints
  BY DEF InRotation
<1>4. /\ \A e \in Endpoints : Scores(p)[e] \in Int /\ Weight[e] \in Int
      /\ \A e \in Endpoints : Scores(Raised(p))[e] =
            IF e \in InRotation(p) THEN Scores(p)[e] + Weight[e] ELSE Scores(p)[e]
  BY <1>1, BalanceIsSum, WeightsAreInts
<1>5. SumFunctionOnSet(Scores(Raised(p)), Endpoints)
        = SumFunctionOnSet(Scores(p), Endpoints) + SumFunctionOnSet(Weight, InRotation(p))
  <2> DEFINE f == Scores(p)
             g == Scores(Raised(p))
             R == InRotation(p)
  <2>1. /\ \A x \in Endpoints : f[x] \in Int /\ Weight[x] \in Int
        /\ \A x \in Endpoints : g[x] = IF x \in R THEN f[x] + Weight[x] ELSE f[x]
        /\ R \in SUBSET Endpoints
    BY <1>3, <1>4
  <2> HIDE DEF f, g, R
  <2>2. SumFunctionOnSet(g, Endpoints) = SumFunctionOnSet(f, Endpoints) + SumFunctionOnSet(Weight, R)
    BY <2>1, FinitePool, SumOfRaised
  <2> QED BY <2>2 DEF f, g, R
<1>6. SumFunctionOnSet(Weight, InRotation(p)) \in Int
  <2>1. IsFiniteSet(InRotation(p)) /\ \A e \in InRotation(p) : Weight[e] \in Int
    BY <1>3, WeightsAreInts, EndpointsAreInts, FS_Subset
  <2> QED BY <2>1, SumIsInt
<1> QED BY <1>1, <1>2, <1>5, <1>6, BalanceIsSum DEF TotalWeight

(* ...and the winner pays them back. *)
LEMMA WinnerPays ==
  ASSUME NEW p \in PoolType, NEW best \in Endpoints, NEW cost \in Int
  PROVE  LET r == [p EXCEPT ![best].score = @ - cost]
         IN  r \in PoolType /\ Balance(r) = Balance(p) - cost
<1> DEFINE r == [p EXCEPT ![best].score = @ - cost]
<1>1. /\ r \in PoolType
      /\ r[best].score = p[best].score - cost
      /\ \A e \in Endpoints : e # best => r[e].score = p[e].score
  BY DEF PoolType, EndpointType
<1> HIDE DEF r
<1>2. \A e \in Endpoints : /\ Scores(p)[e] \in Int /\ Scores(r)[e] \in Int
                           /\ e # best => Scores(r)[e] = Scores(p)[e]
  BY <1>1, BalanceIsSum
<1>3. SumFunctionOnSet(Scores(r), Endpoints)
        = SumFunctionOnSet(Scores(p), Endpoints) - Scores(p)[best] + Scores(r)[best]
  <2> DEFINE f == Scores(p)
             g == Scores(r)
  <2>1. \A x \in Endpoints : f[x] \in Int /\ g[x] \in Int /\ (x # best => g[x] = f[x])
    BY <1>2
  <2> HIDE DEF f, g
  <2>2. SumFunctionOnSet(g, Endpoints) = SumFunctionOnSet(f, Endpoints) - f[best] + g[best]
    BY <2>1, FinitePool, SumOfChanged
  <2> QED BY <2>2 DEF f, g
<1>4. /\ Scores(p)[best] = p[best].score /\ Scores(r)[best] = r[best].score
      /\ p[best].score \in Int
  BY <1>1, BalanceIsSum
<1>5. Balance(r) = Balance(p) - p[best].score + (p[best].score - cost)
  BY <1>1, <1>3, <1>4, BalanceIsSum
<1>6. Balance(p) \in Int
  BY BalanceIsSum
<1>7. Balance(r) = Balance(p) - cost
  BY <1>4, <1>5, <1>6
<1> QED BY <1>1, <1>7 DEF r

-------------------------------------------------------------------------------
(* The invariant. *)

(* No holder of the block has said that it does not know it. *)
RequestOK(r) ==
    /\ r.pc = "pick" => r.attempt < MaxAttempts
    /\ r.unknown \cap r.holders = {}
    /\ r.missing => Cardinality(Endpoints \ r.holders) >= 2

PoolInv ==
    /\ pool \in PoolType /\ Balance(pool) = 0
    /\ req \in [Requests -> RequestType]
    /\ \A q \in Requests : RequestOK(req[q])

(* A step that ends with a pool in balance and one request moved on. *)
LEMMA PoolMoves ==
  ASSUME NEW q \in Requests, NEW r, r \in RequestType, RequestOK(r), PoolInv,
         req' = [req EXCEPT ![q] = r],
         pool' \in PoolType, Balance(pool') = 0
  PROVE  PoolInv'
<1>1. req' \in [Requests -> RequestType] /\ \A x \in Requests : req'[x] = IF x = q THEN r ELSE req[x]
  BY DEF PoolInv
<1>2. \A x \in Requests : RequestOK(req'[x])
  BY <1>1 DEF PoolInv
<1>3. Balance(pool') = 0
  OBVIOUS
<1> QED BY <1>1, <1>2, <1>3 DEF PoolInv, PoolType, Balance, Scores, EndpointType, RequestOK, RequestType

LEMMA FinitePart == ASSUME NEW S \in SUBSET Endpoints PROVE IsFiniteSet(S) /\ Cardinality(S) \in Nat
BY FinitePool, FS_Subset, FS_CardinalityType

LEMMA IdleIsOK ==
  ASSUME NEW h \in SUBSET Endpoints, NEW miss \in BOOLEAN, miss => Cardinality(Endpoints \ h) >= 2
  PROVE  LET r == [IdleRequest EXCEPT !.missing = miss, !.holders = h]
         IN  r \in RequestType /\ RequestOK(r)
<1> DEFINE r == [IdleRequest EXCEPT !.missing = miss, !.holders = h]
<1>1. IdleRequest \in RequestType /\ IdleRequest.pc = "idle" /\ IdleRequest.unknown = {}
  BY PoolAssumption, EndpointsAreInts DEF IdleRequest, RequestType
<1>2. /\ r \in RequestType /\ r.pc = "idle" /\ r.unknown = {} /\ r.missing = miss /\ r.holders = h
  BY <1>1 DEF RequestType
<1> QED BY <1>2 DEF RequestOK

-------------------------------------------------------------------------------
(* The steps. *)

LEMMA InitIsOK == Init => PoolInv
<1> SUFFICES ASSUME Init PROVE PoolInv
  OBVIOUS
<1>1. pool \in PoolType /\ Balance(pool) = 0
  BY FreshBalance DEF Init
<1>2. IdleRequest \in RequestType /\ RequestOK(IdleRequest)
  BY PoolAssumption, EndpointsAreInts DEF IdleRequest, RequestType, RequestOK
<1> QED BY <1>1, <1>2 DEF Init, PoolInv

LEMMA StartKeeps == ASSUME PoolInv, NEW q \in Requests, Start(q) PROVE PoolInv'
<1>1. PICK h \in HolderSets :
         req' = [req EXCEPT ![q] = [IdleRequest EXCEPT !.pc = "pick", !.holders = h]]
  BY DEF Start
<1> DEFINE r == [IdleRequest EXCEPT !.pc = "pick", !.holders = h]
<1>2. h \in SUBSET Endpoints
  BY PoolAssumption
<1>3. IdleRequest \in RequestType /\ IdleRequest.unknown = {} /\ IdleRequest.missing = FALSE
      /\ IdleRequest.attempt = 0
  BY PoolAssumption, EndpointsAreInts DEF IdleRequest, RequestType
<1>4. r \in RequestType /\ r.pc = "pick" /\ r.unknown = {} /\ r.missing = FALSE /\ r.attempt = 0
  BY <1>2, <1>3 DEF RequestType
<1>5. RequestOK(r)
  BY <1>4, PoolAssumption DEF RequestOK
<1>6. pool' \in PoolType /\ Balance(pool') = 0
  BY DEF Start, PoolInv
<1> HIDE DEF r
<1>7. req' = [req EXCEPT ![q] = r]
  BY <1>1 DEF r
<1> QED BY <1>4, <1>5, <1>6, <1>7, PoolMoves

LEMMA PickKeeps == ASSUME PoolInv, NEW q \in Requests, Pick(q) PROVE PoolInv'
<1> DEFINE raised == Raised(Usable)
           best   == Best(raised)
           cost   == TotalWeight(InRotation(raised))
           paid   == [raised EXCEPT ![best].score = @ - cost]
           r      == [req[q] EXCEPT !.pc = "asked", !.at = best, !.attempt = @ + 1,
                                    !.contacted = @ \cup {best}]
<1>1. Usable \in PoolType /\ Balance(Usable) = 0 /\ InRotation(Usable) # {}
  BY UsablePool DEF PoolInv
<1>2. /\ raised \in PoolType /\ InRotation(raised) = InRotation(Usable)
      /\ Balance(raised) = Balance(Usable) + TotalWeight(InRotation(Usable))
      /\ TotalWeight(InRotation(Usable)) \in Int
  BY <1>1, RaisedPool
<1>3. best \in Endpoints
  <2>1. best \in InRotation(raised)
    BY <1>1, <1>2, BestIsInRotation DEF PoolType
  <2> QED BY <2>1 DEF InRotation
<1>4. paid \in PoolType /\ Balance(paid) = Balance(raised) - cost
  BY <1>2, <1>3, WinnerPays
<1>5. Balance(paid) = 0
  <2> DEFINE c == TotalWeight(InRotation(Usable))
  <2>1. Balance(paid) = (0 + c) - c /\ c \in Int
    BY <1>1, <1>2, <1>4
  <2> HIDE DEF c
  <2> QED BY <2>1
<1>6. pool' = paid /\ req[q].pc = "pick"
  BY DEF Pick
<1>7. req' = [req EXCEPT ![q] = r]
  BY DEF Pick
<1>8. req[q] \in RequestType /\ RequestOK(req[q])
  BY DEF PoolInv
<1> HIDE DEF raised, best, cost, paid
<1>9. req[q].attempt + 1 \in 0 .. MaxAttempts
  BY <1>6, <1>8, PoolAssumption DEF RequestType, RequestOK
<1>10. /\ r \in RequestType /\ r.pc = "asked"
       /\ r.unknown = req[q].unknown /\ r.holders = req[q].holders /\ r.missing = req[q].missing
  BY <1>3, <1>8, <1>9 DEF RequestType
<1>11. RequestOK(r)
  BY <1>8, <1>10 DEF RequestOK
<1> HIDE DEF r
<1> QED BY <1>4, <1>5, <1>6, <1>7, <1>10, <1>11, PoolMoves

(* A failure counts and may blacklist: the scores stay. *)
LEMMA FailureKeepsPool ==
  ASSUME PoolInv, NEW e \in Endpoints, NEW now \in BOOLEAN,
         pool' = [pool EXCEPT ![e] = Failed(@, now)]
  PROVE  /\ pool' \in PoolType /\ Balance(pool') = 0
         /\ \A x \in Endpoints : pool'[x].score = pool[x].score
<1> DEFINE n == IF pool[e].failures < MaxFailures THEN pool[e].failures + 1 ELSE MaxFailures
           b == pool[e].blacklisted \/ now \/ n >= MaxFailures
           f == [pool[e] EXCEPT !.failures = n, !.old = FALSE, !.blacklisted = b]
<1>1. pool[e] \in EndpointType /\ pool \in PoolType
  BY DEF PoolInv, PoolType
<1>2. n \in 0 .. MaxFailures /\ b \in BOOLEAN
  BY <1>1, PoolAssumption DEF EndpointType
<1>3. pool' = [pool EXCEPT ![e] = f]
  BY DEF Failed
<1>4. f \in EndpointType /\ f.score = pool[e].score
  <2> HIDE DEF n, b
  <2> QED BY <1>1, <1>2 DEF EndpointType
<1> HIDE DEF f
<1>5. pool' \in PoolType /\ \A x \in Endpoints : pool'[x].score = pool[x].score
  BY <1>1, <1>3, <1>4 DEF PoolType
<1> QED BY <1>1, <1>5, SameScoresBalance DEF PoolInv

LEMMA AttemptKeeps ==
  ASSUME PoolInv, NEW q \in Requests, NEW unknown \in SUBSET Endpoints,
         req[q].pc = "asked", unknown \cap req[q].holders = {}, NextAttempt(q, unknown),
         pool' \in PoolType, Balance(pool') = 0
  PROVE  PoolInv'
<1>1. req[q] \in RequestType /\ RequestOK(req[q])
  BY DEF PoolInv
<1>2. CASE req[q].attempt < MaxAttempts
  <2> DEFINE r == [req[q] EXCEPT !.pc = "pick", !.unknown = unknown]
  <2>1. /\ r \in RequestType /\ r.pc = "pick" /\ r.unknown = unknown
        /\ r.attempt = req[q].attempt /\ r.holders = req[q].holders /\ r.missing = req[q].missing
    BY <1>1 DEF RequestType
  <2>2. RequestOK(r)
    BY <1>1, <1>2, <2>1 DEF RequestOK
  <2>3. req' = [req EXCEPT ![q] = r]
    BY <1>2 DEF NextAttempt
  <2> HIDE DEF r
  <2> QED BY <2>1, <2>2, <2>3, PoolMoves
<1>3. CASE req[q].attempt >= MaxAttempts /\ ReportedMissing(unknown, req[q].contacted)
  <2> DEFINE h == req[q].holders
             r == [IdleRequest EXCEPT !.missing = TRUE, !.holders = h]
  <2>1. h \in SUBSET Endpoints
    BY <1>1 DEF RequestType
  <2>2. unknown \in SUBSET (Endpoints \ h) /\ IsFiniteSet(Endpoints \ h)
    BY <2>1, FinitePool, FS_Subset
  <2>3. Cardinality(unknown) <= Cardinality(Endpoints \ h)
    BY <2>2, FS_Subset
  <2>4. Cardinality(unknown) >= 2 /\ Cardinality(unknown) \in Nat /\ Cardinality(Endpoints \ h) \in Nat
    BY <1>3, FinitePart DEF ReportedMissing
  <2>5. Cardinality(Endpoints \ h) >= 2
    BY <2>3, <2>4
  <2>6. r \in RequestType /\ RequestOK(r)
    BY <2>1, <2>5, IdleIsOK
  <2>7. ~(req[q].attempt < MaxAttempts)
    BY <1>1, <1>3, PoolAssumption DEF RequestType
  <2>8. req' = [req EXCEPT ![q] = r]
    BY <1>3, <2>7 DEF NextAttempt
  <2> HIDE DEF r
  <2> QED BY <2>6, <2>8, PoolMoves
<1>4. CASE req[q].attempt >= MaxAttempts /\ ~ReportedMissing(unknown, req[q].contacted)
  <2>1. IdleRequest \in RequestType /\ RequestOK(IdleRequest)
    BY PoolAssumption, EndpointsAreInts DEF IdleRequest, RequestType, RequestOK
  <2>2. ~(req[q].attempt < MaxAttempts)
    BY <1>1, <1>4, PoolAssumption DEF RequestType
  <2>3. req' = [req EXCEPT ![q] = IdleRequest]
    BY <1>4, <2>2 DEF NextAttempt
  <2> QED BY <2>1, <2>3, PoolMoves
<1>5. req[q].attempt < MaxAttempts \/ req[q].attempt >= MaxAttempts
  BY <1>1, PoolAssumption DEF RequestType
<1> QED BY <1>2, <1>3, <1>4, <1>5

LEMMA AnswersUnknownKeeps ==
  ASSUME PoolInv, NEW q \in Requests, NEW now \in BOOLEAN, AnswersUnknown(q, now) PROVE PoolInv'
<1>1. req[q] \in RequestType /\ RequestOK(req[q])
  BY DEF PoolInv
<1>2. req[q].at \in Endpoints /\ req[q].unknown \in SUBSET Endpoints
  BY <1>1 DEF RequestType
<1>3. pool' \in PoolType /\ Balance(pool') = 0
  BY <1>2, FailureKeepsPool DEF AnswersUnknown
<1>4. (req[q].unknown \cup {req[q].at}) \cap req[q].holders = {}
  BY <1>1 DEF AnswersUnknown, RequestOK
<1> QED BY <1>2, <1>3, <1>4, AttemptKeeps DEF AnswersUnknown

LEMMA AttemptFailsKeeps ==
  ASSUME PoolInv, NEW q \in Requests, NEW now \in BOOLEAN, AttemptFails(q, now) PROVE PoolInv'
<1>1. req[q] \in RequestType /\ RequestOK(req[q])
  BY DEF PoolInv
<1>2. req[q].at \in Endpoints /\ req[q].unknown \in SUBSET Endpoints
  BY <1>1 DEF RequestType
<1>3. pool' \in PoolType /\ Balance(pool') = 0
  BY <1>2, FailureKeepsPool DEF AttemptFails
<1> QED BY <1>1, <1>2, <1>3, AttemptKeeps DEF AttemptFails, RequestOK

LEMMA ServedKeeps == ASSUME PoolInv, NEW q \in Requests, Served(q) PROVE PoolInv'
<1>1. req[q].at \in Endpoints /\ pool \in PoolType
  BY DEF PoolInv, RequestType
<1>2. pool[req[q].at] \in EndpointType
  BY <1>1 DEF PoolType
<1>3. pool' \in PoolType /\ \A x \in Endpoints : pool'[x].score = pool[x].score
  BY <1>1, <1>2, PardonType DEF Served, PoolType
<1>4. Balance(pool') = 0
  BY <1>1, <1>3, SameScoresBalance DEF PoolInv
<1>5. IdleRequest \in RequestType /\ RequestOK(IdleRequest)
  BY PoolAssumption, EndpointsAreInts DEF IdleRequest, RequestType, RequestOK
<1>6. req' = [req EXCEPT ![q] = IdleRequest]
  BY DEF Served
<1> QED BY <1>3, <1>4, <1>5, <1>6, PoolMoves

LEMMA GrowsOldKeeps == ASSUME PoolInv, NEW e \in Endpoints, GrowsOld(e) PROVE PoolInv'
<1>1. pool \in PoolType /\ pool[e] \in EndpointType
  BY DEF PoolInv, PoolType
<1>2. pool' \in PoolType /\ \A x \in Endpoints : pool'[x].score = pool[x].score
  BY <1>1 DEF GrowsOld, PoolType, EndpointType
<1>3. Balance(pool') = 0
  BY <1>1, <1>2, SameScoresBalance DEF PoolInv
<1>4. req' = req
  BY DEF GrowsOld
<1> QED BY <1>2, <1>3, <1>4 DEF PoolInv, RequestOK, RequestType, PoolType, EndpointType, Balance, Scores

LEMMA NextKeeps == PoolInv /\ [Next]_rpcVars => PoolInv'
<1> SUFFICES ASSUME PoolInv, [Next]_rpcVars PROVE PoolInv'
  OBVIOUS
<1>1. CASE UNCHANGED rpcVars
  BY <1>1 DEF rpcVars, PoolInv, RequestOK, RequestType, PoolType, EndpointType, Balance, Scores
<1>2. ASSUME NEW q \in Requests, Start(q) PROVE PoolInv'
  BY <1>2, StartKeeps
<1>3. ASSUME NEW q \in Requests, Pick(q) PROVE PoolInv'
  BY <1>3, PickKeeps
<1>4. ASSUME NEW q \in Requests, Served(q) PROVE PoolInv'
  BY <1>4, ServedKeeps
<1>5. ASSUME NEW q \in Requests, NEW now \in BOOLEAN, AnswersUnknown(q, now) PROVE PoolInv'
  BY <1>5, AnswersUnknownKeeps
<1>6. ASSUME NEW q \in Requests, NEW now \in BOOLEAN, AttemptFails(q, now) PROVE PoolInv'
  BY <1>6, AttemptFailsKeeps
<1>7. ASSUME NEW e \in Endpoints, GrowsOld(e) PROVE PoolInv'
  BY <1>7, GrowsOldKeeps
<1> QED BY <1>1, <1>2, <1>3, <1>4, <1>5, <1>6, <1>7 DEF Next

LEMMA InvariantHolds == Spec => []PoolInv
BY InitIsOK, NextKeeps, PTL DEF Spec

(* For any pool: the scores of the round robin add up to zero, through every  *)
(* pick, blacklisting, expiry and reset (pickNextEndpoint).                   *)
THEOREM ScoresStayBalanced == Spec => []RpcInv
<1>1. PoolInv => RpcInv
  <2> SUFFICES ASSUME PoolInv PROVE RpcInv
    OBVIOUS
  <2>1. TypeOK
    BY DEF PoolInv, PoolType, TypeOK
  <2>2. ScoresBalance
    BY DEF PoolInv, Balance, Scores, ScoresBalance
  <2> QED BY <2>1, <2>2 DEF RpcInv
<1> QED BY <1>1, InvariantHolds, PTL

(* For any pool and any requests that share it: a block that all endpoints    *)
(* but one hold is not judged missing (isReportedMissingEverywhere).          *)
THEOREM PrunerNeverDecides == Spec => []OnePrunerIsSafe
<1>1. PoolInv => OnePrunerIsSafe
  <2> SUFFICES ASSUME PoolInv, NEW q \in Requests, req[q].missing,
                      Cardinality(Endpoints \ req[q].holders) <= 1
               PROVE  FALSE
    BY DEF OnePrunerIsSafe
  <2>1. Cardinality(Endpoints \ req[q].holders) >= 2
    BY DEF PoolInv, RequestOK
  <2>2. Cardinality(Endpoints \ req[q].holders) \in Nat
    BY FinitePart
  <2> QED BY <2>1, <2>2
<1> QED BY <1>1, InvariantHolds, PTL

-------------------------------------------------------------------------------
(* Credit. *)

PoolSize == Cardinality(Endpoints)
Reserve == TotalWeight(Endpoints) - 1
Credit(p, A) == SumFunctionOnSet(Scores(p), A)
Bounded(p) == \A A \in SUBSET Endpoints : Credit(p, A) <= GroupLimit(Cardinality(A))

(* What the endpoints outside a part weigh is left of the total. *)
LEMMA PartWeighs ==
  ASSUME NEW A \in SUBSET Endpoints
  PROVE  /\ TotalWeight(A) \in Nat /\ TotalWeight(Endpoints) \in Nat
         /\ \A b \in Endpoints \ A : TotalWeight(A) <= TotalWeight(Endpoints) - Weight[b]
<1>1. /\ \A x \in Endpoints : Weight[x] \in Nat
      /\ \A x \in Endpoints : Weight[x] \in Int
  BY PoolAssumption
<1>2. TotalWeight(A) \in Nat /\ TotalWeight(Endpoints) \in Nat
  BY <1>1, FinitePool, SumOfPart DEF TotalWeight
<1>3. ASSUME NEW b \in Endpoints \ A
      PROVE  TotalWeight(A) <= TotalWeight(Endpoints) - Weight[b]
  <2>1. TotalWeight(Endpoints) = Weight[b] + SumFunctionOnSet(Weight, Endpoints \ {b})
    BY <1>1, FinitePool, SumTakesOut DEF TotalWeight
  <2>2. IsFiniteSet(Endpoints \ {b}) /\ A \in SUBSET (Endpoints \ {b})
    BY FinitePool, FS_Subset
  <2>3. /\ TotalWeight(A) <= SumFunctionOnSet(Weight, Endpoints \ {b})
        /\ SumFunctionOnSet(Weight, Endpoints \ {b}) \in Nat
    BY <1>1, <2>2, SumOfPart DEF TotalWeight
  <2>4. Weight[b] \in Nat
    BY <1>1
  <2> QED BY <1>2, <2>1, <2>3, <2>4
<1> QED BY <1>2, <1>3

LEMMA PoolNumbers == PoolSize \in Nat \ {0} /\ Reserve \in Nat
<1>1. PoolSize \in Nat \ {0}
  <2>1. Cardinality(Endpoints) \in Nat /\ (Cardinality(Endpoints) = 0 <=> Endpoints = {})
    BY PoolAssumption, FS_CardinalityType, FS_EmptySet
  <2> QED BY <2>1, PoolAssumption DEF PoolSize
<1>2. {} \in SUBSET Endpoints /\ 1 \in Endpoints \ {}
  BY EndpointsAreInts
<1>3. TotalWeight({}) \in Nat /\ TotalWeight(Endpoints) \in Nat
      /\ TotalWeight({}) <= TotalWeight(Endpoints) - Weight[1]
  BY <1>2, PartWeighs
<1>4. Weight[1] \in Nat \ {0}
  BY <1>2, PoolAssumption
<1> QED BY <1>1, <1>3, <1>4 DEF Reserve

(* The limit of a group of k, and how it bends: the two groups that gain and  *)
(* lose one endpoint may claim less than twice as much, by twice the reserve. *)
LEMMA LimitBends ==
  ASSUME NEW n \in Int, NEW c \in Int, NEW k \in Int
  PROVE  ((k + 1) * (n - (k + 1))) * c + ((k - 1) * (n - (k - 1))) * c
           = 2 * ((k * (n - k)) * c) - 2 * c
<1> DEFINE x == (k + 1) * (n - (k + 1))
           y == (k - 1) * (n - (k - 1))
           z == k * (n - k)
<1>1. (k + 1) * (n - (k + 1)) + (k - 1) * (n - (k - 1)) = 2 * (k * (n - k)) - 2
  OBVIOUS
<1>2. x \in Int /\ y \in Int /\ z \in Int /\ x + y = 2 * z - 2
  BY <1>1
<1> HIDE DEF x, y, z
<1>3. x * c + y * c = (x + y) * c
  BY <1>2
<1>4. (2 * z - 2) * c = 2 * (z * c) - 2 * c
  BY <1>2
<1>5. x * c + y * c = 2 * (z * c) - 2 * c
  BY <1>2, <1>3, <1>4
<1> QED BY <1>5 DEF x, y, z

LEMMA Limits ==
  /\ \A k \in Int : GroupLimit(k) = (k * (PoolSize - k)) * Reserve /\ GroupLimit(k) \in Int
  /\ \A k \in 0 .. PoolSize : GroupLimit(k) \in Nat
  /\ \A k \in Int : GroupLimit(k + 1) + GroupLimit(k - 1) = 2 * GroupLimit(k) - 2 * Reserve
  /\ GroupLimit(1) = CreditLimit /\ GroupLimit(PoolSize - 1) = CreditLimit
  /\ CreditLimit \in Nat
<1>1. ASSUME NEW k \in Int
      PROVE  GroupLimit(k) = (k * (PoolSize - k)) * Reserve /\ GroupLimit(k) \in Int
  BY PoolNumbers DEF GroupLimit, PoolSize, Reserve
<1>2. ASSUME NEW k \in 0 .. PoolSize PROVE GroupLimit(k) \in Nat
  <2>1. k \in Nat /\ PoolSize - k \in Nat /\ Reserve \in Nat
    BY PoolNumbers
  <2>2. \A a, b \in Nat : a * b \in Nat
    OBVIOUS
  <2>3. (k * (PoolSize - k)) * Reserve \in Nat
    BY <2>1, <2>2
  <2> QED BY <1>1, <2>3
<1>3. ASSUME NEW k \in Int
      PROVE  GroupLimit(k + 1) + GroupLimit(k - 1) = 2 * GroupLimit(k) - 2 * Reserve
  <2>1. PoolSize \in Int /\ Reserve \in Int
    BY PoolNumbers
  <2>2. ((k + 1) * (PoolSize - (k + 1))) * Reserve + ((k - 1) * (PoolSize - (k - 1))) * Reserve
          = 2 * ((k * (PoolSize - k)) * Reserve) - 2 * Reserve
    BY <2>1, LimitBends
  <2>3. /\ GroupLimit(k + 1) = ((k + 1) * (PoolSize - (k + 1))) * Reserve
        /\ GroupLimit(k - 1) = ((k - 1) * (PoolSize - (k - 1))) * Reserve
        /\ GroupLimit(k) = (k * (PoolSize - k)) * Reserve
    BY <1>1
  <2> QED BY <2>2, <2>3
<1>4. GroupLimit(1) = CreditLimit /\ GroupLimit(PoolSize - 1) = CreditLimit
  <2>1. GroupLimit(1) = (1 * (PoolSize - 1)) * Reserve
    BY <1>1
  <2>2. GroupLimit(PoolSize - 1) = ((PoolSize - 1) * (PoolSize - (PoolSize - 1))) * Reserve
    BY <1>1, PoolNumbers
  <2>3. CreditLimit = (PoolSize - 1) * Reserve
    BY DEF CreditLimit, PoolSize, Reserve
  <2>4. 1 * (PoolSize - 1) = PoolSize - 1
        /\ (PoolSize - 1) * (PoolSize - (PoolSize - 1)) = PoolSize - 1
    <3>1. PoolSize - (PoolSize - 1) = 1 /\ PoolSize - 1 \in Int
      BY PoolNumbers
    <3> QED BY <3>1
  <2> QED BY <2>1, <2>2, <2>3, <2>4
<1>5. CreditLimit \in Nat
  <2>1. 1 \in 0 .. PoolSize
    BY PoolNumbers
  <2> QED BY <1>2, <1>4, <2>1
<1> QED BY <1>1, <1>2, <1>3, <1>4, <1>5

(* The claims of a group, with one endpoint more or less. *)
LEMMA CreditOfGroup ==
  ASSUME NEW p \in PoolType, NEW A \in SUBSET Endpoints
  PROVE  /\ Credit(p, A) \in Int /\ Cardinality(A) \in 0 .. PoolSize
         /\ \A e \in A : /\ A \ {e} \in SUBSET Endpoints
                         /\ Credit(p, A) = p[e].score + Credit(p, A \ {e})
                         /\ Cardinality(A \ {e}) = Cardinality(A) - 1
         /\ \A b \in Endpoints \ A : /\ A \cup {b} \in SUBSET Endpoints
                                     /\ Credit(p, A \cup {b}) = p[b].score + Credit(p, A)
                                     /\ Cardinality(A \cup {b}) = Cardinality(A) + 1
<1>1. \A x \in Endpoints : Scores(p)[x] = p[x].score /\ p[x].score \in Int /\ Scores(p)[x] \in Int
  BY BalanceIsSum
<1>2. \A S \in SUBSET Endpoints : IsFiniteSet(S) /\ \A x \in S : Scores(p)[x] \in Int
  BY <1>1, FinitePart
<1>3. Credit(p, A) \in Int
  BY <1>2, SumIsInt DEF Credit
<1>4. Cardinality(A) \in 0 .. PoolSize
  BY FinitePool, FS_Subset, FS_CardinalityType DEF PoolSize
<1>5. ASSUME NEW S \in SUBSET Endpoints, NEW e \in S
      PROVE  /\ Credit(p, S) = p[e].score + Credit(p, S \ {e})
             /\ Cardinality(S \ {e}) = Cardinality(S) - 1
             /\ Cardinality(S) \in Nat
  <2>1. IsFiniteSet(S) /\ \A x \in S : Scores(p)[x] \in Int
    BY <1>2
  <2>2. Credit(p, S) = Scores(p)[e] + Credit(p, S \ {e})
    BY <2>1, SumTakesOut DEF Credit
  <2>3. Cardinality(S \ {e}) = Cardinality(S) - 1 /\ Cardinality(S) \in Nat
    BY <2>1, FS_RemoveElement, FS_CardinalityType
  <2>4. e \in Endpoints
    OBVIOUS
  <2> QED BY <1>1, <2>2, <2>3, <2>4
<1>6. ASSUME NEW b \in Endpoints \ A
      PROVE  /\ A \cup {b} \in SUBSET Endpoints
             /\ Credit(p, A \cup {b}) = p[b].score + Credit(p, A)
             /\ Cardinality(A \cup {b}) = Cardinality(A) + 1
  <2>1. A \cup {b} \in SUBSET Endpoints /\ b \in A \cup {b} /\ (A \cup {b}) \ {b} = A
    OBVIOUS
  <2>2. /\ Credit(p, A \cup {b}) = p[b].score + Credit(p, A)
        /\ Cardinality(A) = Cardinality(A \cup {b}) - 1
        /\ Cardinality(A \cup {b}) \in Nat
    BY <1>5, <2>1
  <2> QED BY <2>1, <2>2
<1> QED BY <1>3, <1>4, <1>5, <1>6

(* What a pick leaves: the endpoints in rotation have gained their weights,   *)
(* and the winner has paid for them.                                          *)
Picked(p, R, b, r) ==
    /\ b \in R /\ R \subseteq Endpoints
    /\ \A e \in Endpoints \ {b} : r[e].score = IF e \in R THEN p[e].score + Weight[e] ELSE p[e].score
    /\ r[b].score = p[b].score + Weight[b] - TotalWeight(R)
    /\ \A e \in R : p[e].score + Weight[e] <= p[b].score + Weight[b]

(* The claims of a group after a pick. *)
LEMMA PickedCredit ==
  ASSUME NEW p \in PoolType, NEW r \in PoolType, NEW R, NEW b, Picked(p, R, b, r),
         NEW A \in SUBSET Endpoints
  PROVE  Credit(r, A) = Credit(p, A) + TotalWeight(A \cap R)
                          - (IF b \in A THEN TotalWeight(R) ELSE 0)
<1> DEFINE f == Scores(p)
           h == [e \in Endpoints |-> IF e \in R THEN p[e].score + Weight[e] ELSE p[e].score]
           g == Scores(r)
           t == TotalWeight(R)
<1>1. /\ \A x \in Endpoints : f[x] = p[x].score /\ f[x] \in Int
      /\ \A x \in Endpoints : g[x] = r[x].score /\ g[x] \in Int
      /\ \A x \in Endpoints : Weight[x] \in Int
  BY BalanceIsSum, WeightsAreInts
<1>2. b \in R /\ R \in SUBSET Endpoints /\ t \in Int
  BY PartWeighs DEF Picked
<1>3. /\ \A x \in A : h[x] = IF x \in A \cap R THEN f[x] + Weight[x] ELSE f[x]
      /\ \A x \in Endpoints : h[x] \in Int
      /\ \A x \in Endpoints : x # b => g[x] = h[x]
      /\ g[b] = h[b] - t
  BY <1>1, <1>2 DEF Picked
<1>4. IsFiniteSet(A) /\ A \cap R \in SUBSET A
  BY FinitePart
<1> HIDE DEF f, g, h, t
<1>5. SumFunctionOnSet(h, A) = SumFunctionOnSet(f, A) + SumFunctionOnSet(Weight, A \cap R)
  <2>1. /\ \A x \in A : f[x] \in Int /\ Weight[x] \in Int
        /\ \A x \in A : h[x] = IF x \in A \cap R THEN f[x] + Weight[x] ELSE f[x]
    BY <1>1, <1>3
  <2> QED BY <1>4, <2>1, SumOfRaised
<1>6. SumFunctionOnSet(f, A) \in Int /\ SumFunctionOnSet(Weight, A \cap R) \in Int
  <2>1. \A x \in A : f[x] \in Int
    BY <1>1
  <2>2. A \cap R \in SUBSET Endpoints
    OBVIOUS
  <2> QED BY <1>4, <2>1, <2>2, SumIsInt, PartWeighs DEF TotalWeight
<1>7. CASE b \in A
  <2>1. \A x \in A : h[x] \in Int /\ g[x] \in Int /\ (x # b => g[x] = h[x])
    BY <1>1, <1>3
  <2>2. SumFunctionOnSet(g, A) = SumFunctionOnSet(h, A) - h[b] + g[b]
    BY <1>4, <1>7, <2>1, SumOfChanged
  <2>3. SumFunctionOnSet(h, A) \in Int /\ h[b] \in Int
    BY <1>4, <1>7, <2>1, SumIsInt
  <2>4. SumFunctionOnSet(g, A) = SumFunctionOnSet(h, A) - t
    BY <1>2, <1>3, <2>2, <2>3
  <2>5. SumFunctionOnSet(g, A) = SumFunctionOnSet(f, A) + SumFunctionOnSet(Weight, A \cap R) - t
    BY <1>2, <1>5, <1>6, <2>3, <2>4
  <2> QED BY <1>7, <2>5 DEF Credit, TotalWeight, f, g, t
<1>8. CASE b \notin A
  <2>1. \A x \in A : h[x] \in Int /\ g[x] = h[x]
    BY <1>3, <1>8
  <2>2. SumFunctionOnSet(g, A) = SumFunctionOnSet(h, A)
    BY <1>4, <2>1, SumOfSame
  <2> QED BY <1>5, <1>8, <1>6, <2>2 DEF Credit, TotalWeight, f, g
<1> QED BY <1>7, <1>8

(* A group that gains from a pick has an endpoint that lost it to the winner, *)
(* who then has the better score: by what the winner would bring to the       *)
(* group, and the endpoint take from it, the group was below its limit.       *)
LEMMA PickStaysBounded ==
  ASSUME NEW p \in PoolType, NEW r \in PoolType, NEW R, NEW b, Picked(p, R, b, r), Bounded(p)
  PROVE  Bounded(r)
<1> SUFFICES ASSUME NEW A \in SUBSET Endpoints
             PROVE  Credit(r, A) <= GroupLimit(Cardinality(A))
  BY DEF Bounded
<1> DEFINE k == Cardinality(A)
           s == Credit(p, A)
           w == TotalWeight(A \cap R)
           t == TotalWeight(R)
<1>1. R \in SUBSET Endpoints /\ b \in R /\ b \in Endpoints
  BY DEF Picked
<1>2. Credit(r, A) = s + w - (IF b \in A THEN t ELSE 0)
  BY PickedCredit
<1>3. /\ s \in Int /\ k \in Int /\ k \in 0 .. PoolSize
      /\ w \in Nat /\ t \in Nat /\ TotalWeight(Endpoints) \in Nat
      /\ s <= GroupLimit(k) /\ GroupLimit(k) \in Int
  <2>1. A \cap R \in SUBSET Endpoints
    OBVIOUS
  <2>2. s \in Int /\ k \in 0 .. PoolSize /\ k \in Int
    BY CreditOfGroup
  <2> QED BY <1>1, <2>1, <2>2, PartWeighs, Limits DEF Bounded
<1>4. CASE b \in A
  <2>1. w <= t
    <3>1. A \cap R \in SUBSET R /\ IsFiniteSet(R) /\ \A x \in R : Weight[x] \in Nat
      BY <1>1, FinitePart, PoolAssumption
    <3> QED BY <3>1, SumOfPart DEF TotalWeight
  <2> QED BY <1>2, <1>3, <1>4, <2>1
<1>5. CASE b \notin A /\ A \cap R = {}
  <2>1. w = 0
    BY <1>5, SumOfNone DEF TotalWeight
  <2> QED BY <1>2, <1>3, <1>5, <2>1
<1>6. CASE b \notin A /\ A \cap R # {}
  <2>1. PICK e \in A \cap R : TRUE
    BY <1>6
  <2>2. /\ p[e].score \in Int /\ p[b].score \in Int
        /\ Weight[e] \in Nat \ {0} /\ Weight[b] \in Nat \ {0}
    BY <1>1, <2>1, BalanceIsSum, PoolAssumption
  <2>3. p[e].score + Weight[e] <= p[b].score + Weight[b]
    BY <2>1 DEF Picked
  <2>4. w <= TotalWeight(Endpoints) - Weight[b]
    <3>1. A \cap R \in SUBSET Endpoints /\ b \in Endpoints \ (A \cap R)
      BY <1>1, <1>6
    <3> QED BY <3>1, PartWeighs
  <2>5. Credit(p, A \cup {b}) = p[b].score + s /\ Credit(p, A \cup {b}) <= GroupLimit(k + 1)
    <3>1. /\ A \cup {b} \in SUBSET Endpoints /\ Credit(p, A \cup {b}) = p[b].score + s
          /\ Cardinality(A \cup {b}) = k + 1
      BY <1>1, <1>6, CreditOfGroup
    <3> QED BY <3>1 DEF Bounded
  <2>6. s = p[e].score + Credit(p, A \ {e}) /\ Credit(p, A \ {e}) <= GroupLimit(k - 1)
        /\ Credit(p, A \ {e}) \in Int
    <3>1. /\ A \ {e} \in SUBSET Endpoints /\ s = p[e].score + Credit(p, A \ {e})
          /\ Cardinality(A \ {e}) = k - 1
      BY <2>1, CreditOfGroup
    <3> QED BY <3>1, CreditOfGroup DEF Bounded
  <2>7. /\ GroupLimit(k + 1) + GroupLimit(k - 1) = 2 * GroupLimit(k) - 2 * Reserve
        /\ GroupLimit(k + 1) \in Int /\ GroupLimit(k - 1) \in Int
        /\ Reserve = TotalWeight(Endpoints) - 1
    BY <1>3, Limits DEF Reserve
  <2> DEFINE T == TotalWeight(Endpoints)
             limit == GroupLimit(k)
             more == GroupLimit(k + 1)
             less == GroupLimit(k - 1)
             sb == p[b].score
             se == p[e].score
             wb == Weight[b]
             we == Weight[e]
  <2>8. s + w <= limit
    <3>1. /\ s \in Int /\ w \in Int /\ T \in Int /\ limit \in Int /\ more \in Int /\ less \in Int
          /\ sb \in Int /\ se \in Int /\ wb \in Int /\ we \in Int /\ wb >= 1 /\ we >= 1
          /\ se + we <= sb + wb /\ w <= T - wb
          /\ sb + s <= more /\ s - se <= less
          /\ more + less = 2 * limit - 2 * (T - 1)
      BY <1>3, <2>2, <2>3, <2>4, <2>5, <2>6, <2>7
    <3> HIDE DEF s, w, T, limit, more, less, sb, se, wb, we
    <3> QED BY <3>1
  <2> QED BY <1>2, <1>3, <1>6, <2>8
<1> QED BY <1>4, <1>5, <1>6

-------------------------------------------------------------------------------
(* Every step keeps the claims bounded. *)

LEMMA FreshBounded == Bounded([e \in Endpoints |-> FreshEndpoint])
<1> DEFINE fresh == [e \in Endpoints |-> FreshEndpoint]
<1>1. ASSUME NEW A \in SUBSET Endpoints
      PROVE  Credit(fresh, A) <= GroupLimit(Cardinality(A))
  <2>1. IsFiniteSet(A) /\ \A x \in A : Scores(fresh)[x] = 0
    BY FinitePart DEF Scores, FreshEndpoint
  <2>2. Credit(fresh, A) = 0
    BY <2>1, SumOfZeros DEF Credit
  <2>3. Cardinality(A) \in 0 .. PoolSize
    BY FinitePool, FS_Subset, FS_CardinalityType DEF PoolSize
  <2>4. GroupLimit(Cardinality(A)) \in Nat
    BY <2>3, Limits
  <2> QED BY <2>2, <2>4
<1> QED BY <1>1 DEF Bounded

LEMMA SameScoresBounded ==
  ASSUME NEW p \in PoolType, NEW r \in PoolType, Bounded(p),
         \A e \in Endpoints : r[e].score = p[e].score
  PROVE  Bounded(r)
<1>1. Scores(r) = Scores(p)
  BY DEF Scores
<1> QED BY <1>1 DEF Bounded, Credit

(* A pick starts from the scores as they are, or from none at all. *)
LEMMA UsableScores ==
  ASSUME pool \in PoolType
  PROVE  \/ /\ \A e \in Endpoints : Usable[e].score = pool[e].score
            /\ \A e \in Endpoints : Usable[e].blacklisted => pool[e].blacklisted
         \/ /\ Usable = [e \in Endpoints |-> FreshEndpoint]
            /\ \A e \in Endpoints : pool[e].blacklisted
<1>1. \A e \in Endpoints : /\ Cleared[e].score = pool[e].score
                           /\ Cleared[e].blacklisted => pool[e].blacklisted
  BY PardonType DEF Cleared, PoolType
<1>2. CASE InRotation(Cleared) # {}
  BY <1>1, <1>2 DEF Usable
<1>3. CASE InRotation(Cleared) = {}
  BY <1>1, <1>3 DEF Usable, InRotation
<1> QED BY <1>2, <1>3

LEMMA UsableBounded ==
  ASSUME pool \in PoolType, Balance(pool) = 0, Bounded(pool)
  PROVE  Bounded(Usable)
BY UsableScores, UsablePool, SameScoresBounded, FreshBounded

(* The shape of a pick. *)
LEMMA PickShape ==
  ASSUME PoolInv, NEW q \in Requests, Pick(q)
  PROVE  /\ Usable \in PoolType
         /\ Picked(Usable, InRotation(Usable), req'[q].at, pool')
         /\ InRotation(pool') = InRotation(Usable)
<1> DEFINE raised == Raised(Usable)
           best   == Best(raised)
           R      == InRotation(Usable)
           cost   == TotalWeight(InRotation(raised))
<1>1. Usable \in PoolType /\ InRotation(Usable) # {}
  BY UsablePool DEF PoolInv
<1>2. raised \in PoolType /\ InRotation(raised) = R
  BY <1>1, RaisedPool
<1>3. \A e \in Endpoints : raised[e].score = IF e \in R THEN Usable[e].score + Weight[e] ELSE Usable[e].score
  BY <1>1, WeightsAreInts DEF Raised, PoolType, EndpointType, InRotation
<1>4. best \in R /\ R \subseteq Endpoints /\ BestOf(raised, R, best)
  BY <1>1, <1>2, BestIsInRotation DEF PoolType, InRotation
<1>5. pool' = [raised EXCEPT ![best].score = @ - cost]
  BY DEF Pick
<1>6. req'[q].at = best
  BY DEF Pick, PoolInv, RequestType
<1>7. \A e \in Endpoints : raised[e].score \in Int
  BY <1>2, BalanceIsSum
<1> HIDE DEF raised, best, cost
<1>8. /\ pool'[best].score = raised[best].score - cost
      /\ \A e \in Endpoints : e # best => pool'[e].score = raised[e].score
      /\ \A e \in Endpoints : pool'[e].blacklisted = raised[e].blacklisted
  BY <1>2, <1>4, <1>5 DEF PoolType, EndpointType
<1>9. InRotation(pool') = InRotation(raised)
  BY <1>8 DEF InRotation
<1>10. cost = TotalWeight(R)
  BY <1>2 DEF cost
<1>11. \A e \in R : Usable[e].score + Weight[e] <= Usable[best].score + Weight[best]
  <2> SUFFICES ASSUME NEW e \in R
               PROVE  Usable[e].score + Weight[e] <= Usable[best].score + Weight[best]
    OBVIOUS
  <2>1. raised[e].score < raised[best].score
        \/ (raised[e].score = raised[best].score /\ e <= best)
        \/ (raised[e].score = raised[best].score /\ best <= e)
    BY <1>4 DEF BestOf
  <2>2. raised[e].score \in Int /\ raised[best].score \in Int
    BY <1>4, <1>7
  <2>3. raised[e].score <= raised[best].score
    BY <2>1, <2>2
  <2> QED BY <2>3, <1>3, <1>4
<1>12. pool'[best].score = Usable[best].score + Weight[best] - TotalWeight(R)
  <2>1. raised[best].score = Usable[best].score + Weight[best]
    BY <1>3, <1>4
  <2>2. /\ Usable[best].score \in Int /\ Weight[best] \in Int
        /\ TotalWeight(R) \in Int
    BY <1>1, <1>4, BalanceIsSum, WeightsAreInts, PartWeighs
  <2> QED BY <1>8, <1>10, <2>1, <2>2
<1>13. \A e \in Endpoints \ {best} :
          pool'[e].score = IF e \in R THEN Usable[e].score + Weight[e] ELSE Usable[e].score
  BY <1>3, <1>8
<1>14. Picked(Usable, R, best, pool')
  BY <1>4, <1>11, <1>12, <1>13 DEF Picked
<1> QED BY <1>1, <1>2, <1>6, <1>9, <1>14

(* Only a pick moves the scores. *)
LEMMA OthersKeepScores ==
  ASSUME PoolInv,
         \/ \E q \in Requests :
               \/ Start(q) \/ Served(q)
               \/ \E now \in BOOLEAN : AnswersUnknown(q, now) \/ AttemptFails(q, now)
         \/ \E e \in Endpoints : GrowsOld(e)
  PROVE  \A x \in Endpoints : pool'[x].score = pool[x].score
<1>1. /\ pool \in PoolType /\ \A e \in Endpoints : pool[e] \in EndpointType
      /\ \A q \in Requests : req[q].at \in Endpoints
  BY DEF PoolInv, PoolType, RequestType
<1>2. ASSUME NEW q \in Requests, Start(q) PROVE pool' = pool
  BY <1>2 DEF Start
<1>3. ASSUME NEW q \in Requests, Served(q)
      PROVE  \A x \in Endpoints : pool'[x].score = pool[x].score
  <2>1. req[q].at \in Endpoints
    BY <1>1
  <2>2. pool[req[q].at] \in EndpointType
    BY <1>1, <2>1
  <2>3. pool' = [pool EXCEPT ![req[q].at] = Pardoned(@)]
    BY <1>3 DEF Served
  <2> QED BY <1>1, <2>1, <2>2, <2>3, PardonType DEF PoolType
<1>4. ASSUME NEW q \in Requests, NEW now \in BOOLEAN, AnswersUnknown(q, now) \/ AttemptFails(q, now)
      PROVE  \A x \in Endpoints : pool'[x].score = pool[x].score
  <2>1. req[q].at \in Endpoints
    BY <1>1
  <2>2. pool' = [pool EXCEPT ![req[q].at] = Failed(@, now)]
    BY <1>4 DEF AnswersUnknown, AttemptFails
  <2> QED BY <2>1, <2>2, FailureKeepsPool
<1>5. ASSUME NEW e \in Endpoints, GrowsOld(e)
      PROVE  \A x \in Endpoints : pool'[x].score = pool[x].score
  BY <1>1, <1>5 DEF GrowsOld, PoolType, EndpointType
<1> QED BY <1>2, <1>3, <1>4, <1>5

CreditInv == PoolInv /\ Bounded(pool)

LEMMA CreditKept == CreditInv /\ [Next]_rpcVars => CreditInv'
<1> SUFFICES ASSUME CreditInv, [Next]_rpcVars PROVE CreditInv'
  OBVIOUS
<1>1. PoolInv /\ PoolInv' /\ Bounded(pool)
  BY NextKeeps DEF CreditInv
<1>2. pool \in PoolType /\ pool' \in PoolType /\ Balance(pool) = 0
  BY <1>1 DEF PoolInv, PoolType, EndpointType
<1>3. ASSUME NEW q \in Requests, Pick(q) PROVE Bounded(pool')
  BY <1>1, <1>2, <1>3, PickShape, UsableBounded, PickStaysBounded
<1>4. ASSUME UNCHANGED rpcVars PROVE Bounded(pool')
  BY <1>1, <1>4 DEF rpcVars
<1>5. ASSUME \A x \in Endpoints : pool'[x].score = pool[x].score PROVE Bounded(pool')
  BY <1>1, <1>2, <1>5, SameScoresBounded
<1>6. Bounded(pool')
  BY <1>1, <1>3, <1>4, <1>5, OthersKeepScores DEF Next
<1> QED BY <1>1, <1>6 DEF CreditInv, Bounded, Credit, Scores

LEMMA CreditHolds == Spec => []CreditInv
<1>1. Init => CreditInv
  BY InitIsOK, FreshBounded DEF Init, CreditInv
<1> QED BY <1>1, CreditKept, PTL DEF Spec

(* For any pool and weights, and any sequence of picks, blacklistings,        *)
(* returns and resets: no group of endpoints' claims on the rest of the pool  *)
(* pass the limit, which its size and the weights give (pickNextEndpoint).    *)
THEOREM CreditStaysBounded == Spec => []CreditIsBounded
<1>1. CreditInv => CreditIsBounded
  BY DEF CreditInv, Bounded, Credit, Scores, CreditIsBounded
<1> QED BY <1>1, CreditHolds, PTL

-------------------------------------------------------------------------------
(* Waiting. *)

(* A single endpoint claims no more than the limit, and owes no more: the     *)
(* others claim what it owes.                                                 *)
LEMMA ScoreIsBounded ==
  ASSUME NEW p \in PoolType, Balance(p) = 0, Bounded(p), NEW e \in Endpoints
  PROVE  /\ p[e].score \in Int /\ CreditLimit \in Int
         /\ p[e].score <= CreditLimit /\ 0 <= p[e].score + CreditLimit
<1>1. p[e].score \in Int /\ CreditLimit \in Nat
  BY BalanceIsSum, Limits
<1>2. p[e].score <= CreditLimit
  <2>1. {e} \in SUBSET Endpoints /\ e \in {e} /\ {e} \ {e} = {}
    OBVIOUS
  <2>2. Credit(p, {e}) = p[e].score + Credit(p, {}) /\ Credit(p, {}) = 0
    BY <2>1, CreditOfGroup, SumOfNone DEF Credit
  <2>3. Cardinality({e}) = 1
    BY FS_Singleton
  <2>4. Credit(p, {e}) <= GroupLimit(1)
    BY <2>1, <2>3 DEF Bounded
  <2> QED BY <1>1, <2>2, <2>4, Limits
<1>3. 0 <= p[e].score + CreditLimit
  <2> DEFINE others == Endpoints \ {e}
  <2>1. Endpoints \in SUBSET Endpoints
    OBVIOUS
  <2>2. /\ Credit(p, Endpoints) = p[e].score + Credit(p, others)
        /\ Cardinality(others) = PoolSize - 1 /\ others \in SUBSET Endpoints
    BY <2>1, CreditOfGroup DEF PoolSize
  <2>3. Credit(p, Endpoints) = 0
    BY BalanceIsSum DEF Credit
  <2>4. Credit(p, others) <= GroupLimit(PoolSize - 1) /\ Credit(p, others) \in Int
    BY <2>2, CreditOfGroup DEF Bounded
  <2> QED BY <1>1, <2>2, <2>3, <2>4, Limits
<1> QED BY <1>1, <1>2, <1>3

(* An endpoint that is passed over in rotation gains its weight every time. *)
WaitsFor(p, e, n) == n * Weight[e] <= p[e].score + CreditLimit

RotationInv ==
    /\ CreditInv
    /\ \A e \in Endpoints : /\ waited[e] \in Nat
                            /\ pool[e].blacklisted => waited[e] = 0
                            /\ WaitsFor(pool, e, waited[e])

LEMMA NobodyWaits ==
  ASSUME NEW p \in PoolType, Balance(p) = 0, Bounded(p), NEW e \in Endpoints
  PROVE  WaitsFor(p, e, 0)
<1>1. Weight[e] \in Int
  BY WeightsAreInts
<1>2. 0 * Weight[e] = 0
  BY <1>1
<1> QED BY <1>2, ScoreIsBounded DEF WaitsFor

LEMMA PickWaits ==
  ASSUME RotationInv, CreditInv', NEW q \in Requests, PickPasses(q)
  PROVE  \A e \in Endpoints : /\ waited'[e] \in Nat
                              /\ pool'[e].blacklisted => waited'[e] = 0
                              /\ WaitsFor(pool', e, waited'[e])
<1> SUFFICES ASSUME NEW e \in Endpoints
             PROVE  /\ waited'[e] \in Nat
                    /\ pool'[e].blacklisted => waited'[e] = 0
                    /\ WaitsFor(pool', e, waited'[e])
  OBVIOUS
<1> DEFINE b == req'[q].at
           R == InRotation(Usable)
           n == waited[e]
<1>1. PoolInv /\ pool \in PoolType /\ Balance(pool) = 0 /\ Bounded(pool)
  BY DEF RotationInv, CreditInv, PoolInv
<1>2. pool' \in PoolType /\ Balance(pool') = 0 /\ Bounded(pool')
  BY DEF CreditInv, PoolInv, PoolType, EndpointType, Balance, Scores, Bounded, Credit
<1>3. Usable \in PoolType /\ Picked(Usable, R, b, pool') /\ InRotation(pool') = R
  BY <1>1, PickShape DEF PickPasses
<1>4. n \in Nat /\ Weight[e] \in Int /\ WaitsFor(pool, e, n) /\ (pool[e].blacklisted => n = 0)
  BY WeightsAreInts DEF RotationInv
<1>5. waited'[e] = IF e \in R \ {b} THEN n + 1 ELSE 0
  BY <1>3 DEF PickPasses
<1>6. CASE e \in R \ {b}
  <2>1. WaitsFor(Usable, e, n)
    <3>1. CASE \A x \in Endpoints : Usable[x].score = pool[x].score
      BY <1>4, <3>1 DEF WaitsFor
    <3>2. CASE /\ Usable = [x \in Endpoints |-> FreshEndpoint]
               /\ \A x \in Endpoints : pool[x].blacklisted
      <4>1. n = 0
        BY <1>4, <3>2
      <4>2. Bounded(Usable) /\ Balance(Usable) = 0
        BY <1>1, UsableBounded, UsablePool
      <4> QED BY <1>3, <4>1, <4>2, NobodyWaits
    <3> QED BY <1>1, <3>1, <3>2, UsableScores
  <2>2. pool'[e].score = Usable[e].score + Weight[e]
    BY <1>3, <1>6 DEF Picked
  <2>3. Usable[e].score \in Int /\ CreditLimit \in Int
    BY <1>3, BalanceIsSum, Limits
  <2>4. (n + 1) * Weight[e] = n * Weight[e] + Weight[e] /\ n * Weight[e] \in Int
    BY <1>4
  <2>5. WaitsFor(pool', e, n + 1)
    BY <1>4, <2>1, <2>2, <2>3, <2>4 DEF WaitsFor
  <2>6. ~pool'[e].blacklisted
    BY <1>3, <1>6 DEF InRotation
  <2> QED BY <1>4, <1>5, <1>6, <2>5, <2>6
<1>7. CASE e \notin R \ {b}
  <2>1. WaitsFor(pool', e, 0)
    BY <1>2, NobodyWaits
  <2> QED BY <1>5, <1>7, <2>1
<1> QED BY <1>6, <1>7

LEMMA OthersWait ==
  ASSUME RotationInv, CreditInv', NobodyPassed,
         \A x \in Endpoints : pool'[x].score = pool[x].score
  PROVE  \A e \in Endpoints : /\ waited'[e] \in Nat
                              /\ pool'[e].blacklisted => waited'[e] = 0
                              /\ WaitsFor(pool', e, waited'[e])
<1> SUFFICES ASSUME NEW e \in Endpoints
             PROVE  /\ waited'[e] \in Nat
                    /\ pool'[e].blacklisted => waited'[e] = 0
                    /\ WaitsFor(pool', e, waited'[e])
  OBVIOUS
<1>1. waited'[e] = IF ~pool'[e].blacklisted THEN waited[e] ELSE 0
  BY DEF NobodyPassed, InRotation
<1>2. pool' \in PoolType /\ Balance(pool') = 0 /\ Bounded(pool')
  BY DEF CreditInv, PoolInv, PoolType, EndpointType, Balance, Scores, Bounded, Credit
<1>3. waited[e] \in Nat /\ WaitsFor(pool, e, waited[e])
  BY DEF RotationInv
<1>4. WaitsFor(pool', e, waited[e])
  BY <1>3 DEF WaitsFor
<1>5. WaitsFor(pool', e, 0)
  BY <1>2, NobodyWaits
<1> QED BY <1>1, <1>3, <1>4, <1>5

LEMMA RotationKept == RotationInv /\ [RotationNext]_rotationVars => RotationInv'
<1> SUFFICES ASSUME RotationInv, [RotationNext]_rotationVars PROVE RotationInv'
  OBVIOUS
<1>1. [Next]_rpcVars
  BY DEF RotationNext, rotationVars, PickPasses, Next
<1>2. CreditInv /\ CreditInv' /\ PoolInv
  BY <1>1, CreditKept DEF RotationInv, CreditInv
<1>3. ASSUME NEW q \in Requests, PickPasses(q) PROVE RotationInv'
  BY <1>2, <1>3, PickWaits DEF RotationInv, WaitsFor, CreditLimit, TotalWeight
<1>4. ASSUME NobodyPassed, \A x \in Endpoints : pool'[x].score = pool[x].score
      PROVE  RotationInv'
  BY <1>2, <1>4, OthersWait DEF RotationInv, WaitsFor, CreditLimit, TotalWeight
<1>5. CASE UNCHANGED rotationVars
  BY <1>2, <1>5 DEF RotationInv, WaitsFor, CreditLimit, TotalWeight, rotationVars, rpcVars
<1> QED BY <1>2, <1>3, <1>4, <1>5, OthersKeepScores DEF RotationNext

LEMMA RotationHolds == RotationSpec => []RotationInv
<1>1. RotationInit => RotationInv
  <2> SUFFICES ASSUME RotationInit PROVE RotationInv
    OBVIOUS
  <2>1. CreditInv
    BY InitIsOK, FreshBounded DEF RotationInit, Init, CreditInv
  <2>2. pool \in PoolType /\ Balance(pool) = 0 /\ Bounded(pool)
    BY <2>1 DEF CreditInv, PoolInv
  <2>3. \A e \in Endpoints : waited[e] = 0 /\ WaitsFor(pool, e, 0)
    BY <2>2, NobodyWaits DEF RotationInit
  <2> QED BY <2>1, <2>3 DEF RotationInv
<1> QED BY <1>1, RotationKept, PTL DEF RotationSpec

(* For any pool and weights: an endpoint that stays in rotation is asked      *)
(* before the picks that passed over it, times its weight, exceed twice the   *)
(* credit limit (pickNextEndpoint: "without ever starving the weaker          *)
(* endpoints").                                                               *)
THEOREM NobodyStarves == RotationSpec => []NoStarvation
<1>1. RotationInv => NoStarvation
  <2> SUFFICES ASSUME RotationInv, NEW e \in Endpoints
               PROVE  waited[e] * Weight[e] <= 2 * CreditLimit
    BY DEF NoStarvation
  <2>1. pool \in PoolType /\ Balance(pool) = 0 /\ Bounded(pool)
    BY DEF RotationInv, CreditInv, PoolInv
  <2>2. /\ pool[e].score \in Int /\ CreditLimit \in Int /\ pool[e].score <= CreditLimit
    BY <2>1, ScoreIsBounded
  <2>3. waited[e] * Weight[e] <= pool[e].score + CreditLimit
        /\ waited[e] \in Nat /\ Weight[e] \in Int
    BY WeightsAreInts DEF RotationInv, WaitsFor
  <2>4. waited[e] * Weight[e] \in Int
    BY <2>3
  <2> QED BY <2>2, <2>3, <2>4
<1> QED BY <1>1, RotationHolds, PTL
===============================================================================
