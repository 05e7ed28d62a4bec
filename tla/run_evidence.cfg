\* One run with one info line and one slot tried, and queues of one; or the stream of
\* a worker engine with as many lines.
SPECIFICATION EvidenceFair
CONSTANTS
    Capacity = 1
    MaxInfo = 1
    StreamCapacity = 1
    ViewLimit = 2
    MaxPrimes = 1
    Sentinel = Sentinel
    None = None
INVARIANTS UsedOrReleased WholeIsWhole
PROPERTIES TrustedIsComplete RunIsSealed
\* the run is sealed and the coordinator closed
CHECK_DEADLOCK FALSE
