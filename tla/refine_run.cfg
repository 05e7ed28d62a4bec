\* One target and one expansion below it, two owners of whom one is also the
\* oracle, at most two children; an engine may die, any wait may time out.
SPECIFICATION FairSpec
CONSTANTS
    None = None
    NumOwners = 2
    Oracle = 1
    RootOwner = 1
    NumTargets = 1
    MaxChildren = 2
    MaxDepth = 3
    MaxExpansions = 1
    MaxDeaths = 1
INVARIANTS EnginesInPlace ScopesCloseWhole LedgerAgrees
PROPERTIES RefinementEnds DispositionsStand
\* the run is over and the command loop has moved on
CHECK_DEADLOCK FALSE
