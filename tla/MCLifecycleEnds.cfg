SPECIFICATION FairSpec
CONSTANTS
    Monitors = {m1, m2}
    Worker = worker
    LockTimeout = 1
    JobTimeout = 1
    UncordonTimeout = 1
    StuckAfter = 3
    JobOutcomes = {"succeeded", "failed", "retrying"}
    Prompt = FALSE
    MaxRequests = 0
    MaxErrors = 0
    MaxCrashes = 0
PROPERTY TransitionEnds
