SPECIFICATION Spec
CONSTANTS
    \* health
    Txs = {0, 1}
    Chain <- MCChain
    Passes = {p1, p2}
    Runners = 2
    DiscoverLimit = 1
    RetryLimit = 2
    MaxRetries = 2
    LookbackBlocks = 0
    MaxAge = 1
    MpcContracts = {"mpc"}
    Nobody = "nobody"
    \* blocks
    Blocks = {1, 2}
    TxsOf <- MCTxsOf
    Contracts = {"fa"}
    Accounts = {"u1", "u2"}
    Absent = "null"
    MaxRuns = 2
    \* payloads
    Texts <- MCTexts
    TextLists <- MCTextLists
    Fill <- MCFill
    \* prices
    Canonical <- MCCanonical
    WrapNear = "wrap.near"
    NativeDecimals = 8
    Unknown = Unknown
    \* pool
    Endpoints <- MCEndpoints
    Getters = {1, 2}
    MaxFailures = 2
    \* memo
    Calls = {1, 2}
    NoCall = 0
    MaxSnapshot = 3
    \* snapshot
    WatchedSets <- MCWatchedSets
    Refreshes = {1, 2}
    HeavyPeriod = 2
    MaxVersion = 2
    \* sections
    EventRows <- MCEventRows
    ActivityRows <- MCActivityRows
    HealthRows <- MCHealthRows
    windows <- MCWindows
    since <- MCSince
    Now = 5
    BinSize = 3
    Null = "null"
    TopAccounts = 1
    TopGroups = 1
    TopCrossed = 2
    TopFailures = 1
    MaxLate = 1
INVARIANTS
    HealthInv
    VerdictsAsDocumented
    KnownUsersAreRecorded
    FiledOnce
    PayloadsDecode
    ValuesAgree
    HealthyIsReached
    RatesAreRates
    QuietLoadsAgree
    ProcessedIsExact
PROPERTIES
    ReadsNeverGoBack
    SectionsNeverGoBack
    EveryTxSettles
    SnapshotConverges
CHECK_DEADLOCK FALSE
