CONSTANTS
    Startup <- FullStartup
    Loops <- FullLoops
    Faults = {"startup", "death", "forced"}
SPECIFICATION FairSpec
INVARIANTS TypeOK AskedIsPrompt ExitTellsWhy
PROPERTIES OneCyclePerPause BoundIsForTheSlow ShutdownEnds
\* The process ends.
CHECK_DEADLOCK FALSE
