\* One request over the pool as configured: weights 8, 1, 1.
SPECIFICATION RotationSpec
CONSTANTS
    Endpoints <- Pool3
    Weight <- DrpcFirst
    MaxFailures = 3
    MaxAttempts = 6
    q1 = q1
    Requests = {q1}
    HolderSets = {{1}}
CHECK_DEADLOCK FALSE
INVARIANT HeldBlockIsNotMissing
