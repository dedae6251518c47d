\* The boot guard alone, against the scheduled run it is meant to precede.
SPECIFICATION MCSpec
CONSTANTS
    BackfillStart = 2
    MaxTip = 5
    Blocks = {2, 3, 5}
    Broken = {2}
    Tables = {"sign_events"}
    r1 = r1
    Runs = {r1}
    guard = guard
    Skippers = {guard}
    Guard = guard
    SeedFile = {}
    SkipLag = 1
    MaxLag = 3
    MaxBlocksPerRun = 2
    HoleRetryRounds = 0
    WedgeSkipAfterRuns = 1
    SkipTargetLag = 0
    ForceResetLag = 4
    NodeLag = 0
    MaxCrashes = 0
    MaxCommands = 0
PROPERTY ScannedNeverRegresses
CHECK_DEADLOCK FALSE
