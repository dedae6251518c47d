\* Progress of a single run slot after the outside world calms down.
SPECIFICATION LiveSpec
CONSTANTS
    BackfillStart = 2
    MaxTip = 5
    Blocks = {2, 3, 5}
    Broken = {3}
    Tables = {"sign_events"}
    r1 = r1
    Runs = {r1}
    MaxBlocksPerRun = 2
    HoleRetryRounds = 0
    WedgeSkipAfterRuns = 2
    SkipTargetLag = 1
    ForceResetLag = 3
    NodeLag = 0
    MaxCrashes = 0
PROPERTY CatchesUp
PROPERTY DirtyMartIsRebuilt
CHECK_DEADLOCK FALSE
