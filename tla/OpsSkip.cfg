\* One run slot, the boot guard and one operator command (skip-forward or seed) over the same tables.
SPECIFICATION MCSpec
CONSTANTS
    BackfillStart = 2
    MaxTip = 4
    Blocks = {2, 4}
    Broken = {}
    Tables = {"sign_events"}
    r1 = r1
    Runs = {r1}
    guard = guard
    cli = cli
    Skippers = {guard, cli}
    Guard = guard
    SeedFile <- OneEntry
    SkipLag = 0
    MaxLag = 2
    MaxBlocksPerRun = 1
    HoleRetryRounds = 0
    WedgeSkipAfterRuns = 1
    SkipTargetLag = 0
    ForceResetLag = 3
    NodeLag = 0
    MaxCrashes = 1
    MaxCommands = 1
INVARIANT OpsInv
INVARIANT NoSilentGap
PROPERTY CoverageSteps
CHECK_DEADLOCK FALSE
