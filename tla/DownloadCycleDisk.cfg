CONSTANTS
    h1 = h1
    h2 = h2
    Hash = {h1, h2}
    Observed = {h1, h2}
    Size <- TwoBytes
    Capacity = 4
    MinFree = 1
    TTL = 1
    Faults = {"disk", "reject"}
SPECIFICATION Spec
INVARIANT FloorKept
SYMMETRY Swap
