-------------------------------- MODULE Pricing -------------------------------
(***************************************************************************)
(* PricingService: the token registry and the value of a transaction. A    *)
(* value is counted in millionths of a token times the price in dollars:   *)
(* the code's floating point divides by 10^6 at the end. A price is a      *)
(* whole number of dollars, Unknown what is absent from an API record or   *)
(* cannot be parsed, and Canonical what trim and lower case make of a name.*)
(***************************************************************************)
EXTENDS Integers, Sequences, SequencesExt, FiniteSets, FiniteSetsExt

CONSTANTS Canonical,       \* spelling of a contract's name -> its name
          WrapNear,        \* "wrap.near": its price is the native token's
          NativeDecimals,  \* NATIVE_NEAR_DECIMALS
          Unknown          \* null, or a field of another type

(* A contract's name is in lower case and an unknown amount is not a number. *)
ASSUME PricingAssumption ==
    /\ WrapNear \in {Canonical[name] : name \in DOMAIN Canonical}
    /\ \A name \in DOMAIN Canonical : Canonical[name] # "NEAR"
    /\ NativeDecimals \in Nat
    /\ Unknown \notin Int

SafePrecision == 6

(* A power of ten, 10n ** n in the code. *)
TenTo[n \in Nat] == IF n = 0 THEN 1 ELSE 10 * TenTo[n - 1]

AtMost(a, b) == IF a < b THEN a ELSE b

-------------------------------------------------------------------------------
(* buildRegistry. *)

(* Records of another chain, or without the fields, are skipped. *)
Usable(token) ==
    /\ token.chain = "near"
    /\ token.contract # Unknown /\ token.decimals # Unknown /\ token.price # Unknown

(* The last record of a contract counts. *)
ListedAs(tokens, name) ==
    {i \in DOMAIN tokens : Usable(tokens[i]) /\ Canonical[tokens[i].contract] = name}
BuildRegistry(tokens) ==
    LET names == {Canonical[tokens[i].contract] : i \in {j \in DOMAIN tokens : Usable(tokens[j])}}
        last  == [name \in names |-> tokens[Max(ListedAs(tokens, name))]]
    IN  [byContract  |-> last,
         nativePrice |-> IF WrapNear \in names THEN last[WrapNear].price ELSE Unknown]

-------------------------------------------------------------------------------
(* Amounts. *)

(* Slip: the divisor does not know of tokens with few decimals. *)
MillionthsOfSix(amount, decimals) == amount \div TenTo[Max({0, decimals - SafePrecision})]

(* rawAmountToUsd: the places below a millionth are dropped from the integer, *)
(* and what is left is divided by the places that are left. yoctoNearToUsd is *)
(* the same for the native token.                                            *)
Millionths(amount, decimals) ==
    (amount \div TenTo[Max({0, decimals - SafePrecision})])
        * TenTo[SafePrecision - AtMost(decimals, SafePrecision)]

(* A movement is worth its while when it is more than nothing. *)
Movement(symbol, amount, decimals, price) ==
    IF amount = Unknown \/ price = Unknown THEN <<>>
    ELSE IF amount <= 0 \/ Millionths(amount, decimals) * price <= 0 THEN <<>>
    ELSE <<[symbol |-> symbol, decimals |-> decimals, amount |-> amount,
            value |-> Millionths(amount, decimals) * price]>>

-------------------------------------------------------------------------------
(* computeActionsValue. *)

FtMethods == {"ft_transfer", "ft_transfer_call", "ft_burn"}

(* The deposit of a transfer or of a call, and the amount of a token's call. *)
OwnMovement(action, registry) ==
    IF action.type \in {"Transfer", "FunctionCall"}
    THEN Movement("NEAR", action.deposit, NativeDecimals, registry.nativePrice) ELSE <<>>
TokenMovement(action, receiver, registry) ==
    LET name == Canonical[receiver]
    IN  IF /\ action.type = "FunctionCall" /\ action.method \in FtMethods
           /\ name \in DOMAIN registry.byContract
        THEN LET token == registry.byContract[name]
             IN  Movement(name, action.amount, token.decimals, token.price)
        ELSE <<>>

MovementsOf(actions, receiver, registry) ==
    FoldLeft(LAMBDA moved, action :
                 moved \o OwnMovement(action, registry) \o TokenMovement(action, receiver, registry),
             <<>>, actions)

(* Math.round(totalUsd * 10000) / 10000. *)
RoundedTotal(sum) == (sum + 50) \div 100

ComputeActionsValue(actions, receiver, registry) ==
    LET tokens == MovementsOf(actions, receiver, registry)
    IN  IF tokens = <<>> THEN [totalUsd |-> Unknown, tokens |-> <<>>]
        ELSE [totalUsd |-> RoundedTotal(FoldLeft(LAMBDA sum, t : sum + t.value, 0, tokens)),
              tokens   |-> tokens]

-------------------------------------------------------------------------------
(* What a transaction moves, counted one action at a time. *)

(* An action counts when it moves a millionth of a token at least, and the    *)
(* last record of the token names a price.                                   *)
Moves(amount, decimals) == amount # Unknown /\ amount * TenTo[SafePrecision] >= TenTo[decimals]
NativeMoves(actions) ==
    {i \in DOMAIN actions : /\ actions[i].type \in {"Transfer", "FunctionCall"}
                            /\ Moves(actions[i].deposit, NativeDecimals)}
TokenMoves(actions, decimals) ==
    {i \in DOMAIN actions : /\ actions[i].type = "FunctionCall" /\ actions[i].method \in FtMethods
                            /\ Moves(actions[i].amount, decimals)}
Expected(tokens, name, moves(_)) ==
    IF ListedAs(tokens, name) = {} THEN 0
    ELSE LET record == tokens[Max(ListedAs(tokens, name))]
         IN  IF record.price <= 0 THEN 0 ELSE Cardinality(moves(record.decimals))

(* No amount is worth more or less than it is by a millionth of a token,     *)
(* whatever the token's decimals ("SAFE_PRECISION"); exactly the movements   *)
(* that have a price are counted; and a total is there exactly when one is.  *)
PricesAgree(tokens, actions, receiver) ==
    LET registry == BuildRegistry(tokens)
        result   == ComputeActionsValue(actions, receiver, registry)
        counted(symbol) == Cardinality({i \in DOMAIN result.tokens : result.tokens[i].symbol = symbol})
        PriceOf(m) == IF m.symbol = "NEAR" THEN registry.nativePrice
                      ELSE registry.byContract[m.symbol].price
    IN  /\ \A i \in DOMAIN result.tokens :
              LET m == result.tokens[i]
                  inMillionths == m.value \div PriceOf(m)
              IN  /\ inMillionths * TenTo[m.decimals] <= m.amount * TenTo[SafePrecision]
                  /\ m.amount * TenTo[SafePrecision] < (inMillionths + 1) * TenTo[m.decimals]
        /\ (result.totalUsd = Unknown) <=> (result.tokens = <<>>)
        /\ counted("NEAR") = Expected(tokens, WrapNear, LAMBDA d : NativeMoves(actions))
        /\ counted(Canonical[receiver]) =
              Expected(tokens, Canonical[receiver], LAMBDA d : TokenMoves(actions, d))
===============================================================================
