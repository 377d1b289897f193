CONSTANTS
    Startup <- FullStartup
    Loops <- FullLoops
    Faults = {"death"}
SPECIFICATION FairSpec
PROPERTIES DeadLoopEndsProcess
\* The process ends.
CHECK_DEADLOCK FALSE
