\* One run slot, every failure, ids that become visible out of order.
SPECIFICATION MCSpec
CONSTANTS
    Ids = {1, 2, 3}
    Bare = {3}
    Keys = {1, 2}
    KeyOf <- TwoUsers
    Accounts = {"alice", "bob"}
    OwnersOf <- Shared
    r1 = r1
    Runs = {r1}
    BatchSize = 2
    MaxPubkeys = 1
INVARIANT PkaInv
INVARIANT NoKeyCountedTwice
PROPERTY StampsStand
PROPERTY UsersResolve
CHECK_DEADLOCK FALSE
