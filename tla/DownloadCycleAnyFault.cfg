CONSTANTS
    h1 = h1
    h2 = h2
    Hash = {h1, h2}
    Observed = {h1}
    Size <- TwoIfObserved
    Capacity = 4
    MinFree = 1
    TTL = 1
    Faults <- AnyFault
SPECIFICATION Spec
INVARIANTS TypeOK AnnouncedAtMostOnce
PROPERTIES ImplementsLifecycle CompletionIsReal CondemnedIsGone
