SPECIFICATION Spec
CONSTANTS
    Monitors = {m1, m2}
    Worker = worker
    LockTimeout = 3
    JobTimeout = 3
    UncordonTimeout = 2
    StuckAfter = 9
    JobOutcomes = {"succeeded"}
    Prompt = TRUE
    MaxRequests = 1
    MaxErrors = 0
    MaxCrashes = 0
INVARIANT CordonedDuringShutdown
