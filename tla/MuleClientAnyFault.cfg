CONSTANTS
    k1 = k1
    k2 = k2
    Keyword = {k1, k2}
    LastHash = 4
    PageSize = 2
    Names <- RowNames
    Faults = {"down", "lost", "failed", "odd", "expiry", "restart", "password"}
SPECIFICATION FairSpec
INVARIANTS TypeOK KadListAccounted
PROPERTIES SweepKeepsStayers ResultsAreOurs SessionHeals
