CONSTANTS
    Matched <- Patterns
    Score <- Scores
    Title <- Titles
    Attribute <- Attributes
    Uncompilable = {}
    MaxDepth = 32
    Episode <- Episodes
    Name <- Names
    Long = {5}
    Field = {1, 2}
    Policy = {"marked", "bare"}
    Rules <- RulesOf
    Fires <- FiresOf
    LastHash = 2
    SeenAs <- Sightings
    Faults = {"stop", "refuse", "clock"}
    FaultBound = 2
    PageSize = 1
    Queries = {{1, 2}}
SPECIFICATION FairSpec
INVARIANTS TypeOK SettledIsFresh CutSweepIsReplayed ViewsAgree
PROPERTIES NeverDemotedByAName RepairedByObservation
