\* Three tasks, a cap of two, two ticks of one sibling at once, one trigger call.
SPECIFICATION FairSpec
CONSTANTS
    Tasks <- MCTasks
    Ingest = "near-ingest"
    Ticks <- MCTicks
    TaskOf <- TickTasks
    c1 = c1
    Calls = {c1}
    Cap = 2
    GateLag = 0
    MaxHeight = 2
INVARIANT SchedulerInv
PROPERTY TasksResume
