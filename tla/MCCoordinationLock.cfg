SPECIFICATION Spec
CONSTANTS
    c1 = c1
    c2 = c2
    k1 = k1
    Clients = {c1, c2}
    Cleaners = {k1}
    Owner <- TwoControllers
    Operation <- OneOperationEach
    Owners = {"node-controller", "cluster-autoscaler"}
    LockTimeout = 2
    Second = 2
    RetrySteps = 2
    MaxVersion = 4
    MaxTime = 4
INVARIANTS TypeOK Exclusive
PROPERTIES LeaseSpec OthersLockKept
CHECK_DEADLOCK FALSE
