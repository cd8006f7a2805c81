SPECIFICATION Spec
CONSTANTS
    Monitors = {m1, m2}
    Worker = worker
    LockTimeout = 1
    JobTimeout = 1
    UncordonTimeout = 1
    StuckAfter = 2
    JobOutcomes = {"succeeded", "failed"}
    Prompt = FALSE
    MaxRequests = 1
    MaxErrors = 0
    MaxCrashes = 1
SYMMETRY SlotSymmetry
INVARIANTS TypeOK OnePendingJob NoOrphanedTransition
PROPERTIES ObjectSpec LeaseSpec StuckMeansOld
