CONSTANTS
    w1 = w1
    w2 = w2
    k1 = k1
    k2 = k2
    Worker = {w1, w2}
    Keyword = {k1}
    Delay <- OneDelay
    Faults = {"refused", "lost"}
SPECIFICATION FairSpec
INVARIANTS EachTaskOnce LeavesLast
PROPERTIES SearchesAreSpaced DropIsUnanimous CycleEnds
