\* One generation with the hybrid policy and a user stop.
SPECIFICATION FairSpec
CONSTANTS
    MaxGen = 1
    MaxRefused = 1
    Hybrid = TRUE
    Stops = TRUE
    Measured = {1}
    Commands = {"go", "isready"}
PROPERTIES RevokedStaysAnchor AnsweredUnlessStopped ReadinessReturns
CHECK_DEADLOCK FALSE
