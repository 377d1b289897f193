CONSTANTS
    p1 = p1
    p2 = p2
    p3 = p3
    Port = {p1, p2, p3}
    Window = 2
    Faults = {"unreachable", "lost", "refused", "crash", "dies", "lowid"}
SPECIFICATION FairSpec
INVARIANTS RefusalShows WrittenIsPending
PROPERTIES Converges AlertRecovers
