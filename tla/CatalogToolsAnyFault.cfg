CONSTANTS
    Path = {"live", "other", "out"}
    Live = "live"
    Other = "other"
    Here = "here"
    Release = {2, 3, 4}
    Row <- TwoNodes
    LastDay = 2
    RunBound = 3
SPECIFICATION Spec
INVARIANTS TypeOK NothingForgotten CountedOnce
