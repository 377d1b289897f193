CONSTANTS
    w1 = w1
    w2 = w2
    k1 = k1
    k2 = k2
    Worker = {w1}
    Keyword = {k1}
    Delay <- TwoDelays
    Faults = {"down", "refused", "repo", "crash"}
SPECIFICATION FairSpec
PROPERTIES EveryTaskComesAgain BlindEnds
