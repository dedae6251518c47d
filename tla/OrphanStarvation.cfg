\* A key that never resolves, first in order, and a sweep of one key.
SPECIFICATION MCSpec
CONSTANTS
    Ids = {1, 2, 3}
    Bare = {}
    Keys = {1, 2}
    KeyOf <- TwoUsers
    Accounts = {"alice"}
    OwnersOf <- OneStranger
    r1 = r1
    Runs = {r1}
    BatchSize = 2
    MaxPubkeys = 1
PROPERTY UsersResolve
CHECK_DEADLOCK FALSE
