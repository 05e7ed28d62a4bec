SPECIFICATION ShardSpec
CONSTANTS
    Moves = {a, b}
    Roots = {a}
    Owners = {o1, o2}
    NoOwner = none
    Callers = {c1, c2}
    MaxDepth = 3
    MaxRevision = 7
SYMMETRY Symmetry
INVARIANTS
    Validates StaleLeafIsRetired
PROPERTIES
    KeepsLease
CHECK_DEADLOCK FALSE
