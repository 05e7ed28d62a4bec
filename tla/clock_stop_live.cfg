SPECIFICATION FairSpec
CONSTANTS
    MaxGen = 1
    MaxRefused = 1
    Hybrid = FALSE
    Stops = TRUE
    Measured = {1}
    Commands = {"go"}
PROPERTY EveryGoAnswered
CHECK_DEADLOCK FALSE
