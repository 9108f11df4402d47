SPECIFICATION Spec
CONSTANTS
    Missing = Missing
    NoAddress = NoAddress
    Attempts = 3
    Threshold = 3
    LifeSetups <- MCLifeSetups
    MaxTerms = 3
    LeaderSetups <- MCLeaderSetups
    Pods = {1, 2}
    Ings = {"i1"}
    Addresses = {"a"}
    UpdateStatusOnShutdown = TRUE
    MaxPending = 1
    StatusSetups <- MCStatusSetups
    Chosen = {"graceful", "faults", "prompt", "late", "comes", "error", "service", "scaledown", "lost", "rollout"}
INVARIANTS StopsCleanly ElectionIsSafe RemovedOnlyAlone
PROPERTIES ContainerEnds StatusFollows
CHECK_DEADLOCK FALSE
