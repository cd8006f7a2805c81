SPECIFICATION PromptSpec
CONSTANTS
    Monitors = {m1, m2}
    Worker = worker
    LockTimeout = 2
    JobTimeout = 2
    UncordonTimeout = 1
    StuckAfter = 6
    JobOutcomes = {"succeeded"}
    Prompt = TRUE
    MaxRequests = 1
    MaxErrors = 0
    MaxCrashes = 0
PROPERTY Converges
