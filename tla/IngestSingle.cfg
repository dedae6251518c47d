\* One run at a time (the scheduler's lock), crashes at any await.
SPECIFICATION MCSpec
CONSTANTS
    BackfillStart = 2
    MaxTip = 5
    Blocks = {2, 3, 5}
    Broken = {3}
    Tables = {"sign_events", "user_transactions"}
    r1 = r1
    Runs = {r1}
    MaxBlocksPerRun = 2
    HoleRetryRounds = 1
    WedgeSkipAfterRuns = 2
    SkipTargetLag = 1
    ForceResetLag = 3
    NodeLag = 0
    MaxCrashes = 1
INVARIANT CoverageInv
INVARIANT NoSilentGap
PROPERTY MonotoneRefinement
PROPERTY WedgeSkipsOnlyUnfetchable
PROPERTY OriginIsStable
CHECK_DEADLOCK FALSE
