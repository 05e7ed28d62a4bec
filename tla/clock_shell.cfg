SPECIFICATION Spec
CONSTANTS
    MaxGen = 2
    MaxRefused = 1
    Hybrid = FALSE
    Stops = FALSE
    Measured = {1}
    Commands = {"go", "sync"}
INVARIANT TouchesFrozenOnly
PROPERTIES MoveForActiveGeneration KeepsPromise
