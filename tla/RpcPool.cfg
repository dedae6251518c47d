\* Two requests at a time over a three-endpoint pool.
SPECIFICATION RotationSpec
CONSTANTS
    Endpoints <- Pool3
    Weight <- HeavyFirst
    MaxFailures = 2
    MaxAttempts = 2
    q1 = q1
    q2 = q2
    Requests = {q1, q2}
    HolderSets = {{1, 2}}
SYMMETRY SlotSymmetry
INVARIANT RpcInv
INVARIANT OnePrunerIsSafe
INVARIANT CreditIsBounded
INVARIANT NoStarvation
CHECK_DEADLOCK FALSE
