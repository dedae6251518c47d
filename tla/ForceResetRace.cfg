\* The HTTP trigger's run beside the scheduled one, against a force-reset.
SPECIFICATION MCSpec
CONSTANTS
    BackfillStart = 2
    MaxTip = 4
    Blocks = {2, 4}
    Broken = {2}
    Tables = {"sign_events"}
    r1 = r1
    r2 = r2
    Runs = {r1, r2}
    MaxBlocksPerRun = 2
    HoleRetryRounds = 0
    WedgeSkipAfterRuns = 2
    SkipTargetLag = 0
    ForceResetLag = 3
    NodeLag = 0
    MaxCrashes = 0
PROPERTY ForceResetStands
CHECK_DEADLOCK FALSE
