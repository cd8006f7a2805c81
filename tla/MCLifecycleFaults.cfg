SPECIFICATION PromptSpec
CONSTANTS
    Monitors = {m1, m2}
    Worker = worker
    LockTimeout = 2
    JobTimeout = 2
    UncordonTimeout = 1
    StuckAfter = 6
    JobOutcomes = {"succeeded", "retrying"}
    Prompt = TRUE
    MaxRequests = 0
    MaxErrors = 1
    MaxCrashes = 1
INVARIANTS OnePendingJob NoOrphanedTransition LockHasHolder
PROPERTY LockNeverLeaks
