CONSTANTS
    h1 = h1
    h2 = h2
    Hash = {h1}
    Observed = {h1}
    Size <- OneByte
    Capacity = 4
    MinFree = 1
    TTL = 0
    Faults = {"unreachable", "late", "repo", "crash", "operator"}
SPECIFICATION FairSpec
PROPERTIES FinishedIsCompleted FailedComesBack QueuedIsOffered
