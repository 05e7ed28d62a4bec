\* Two searches in a row, one engine, one dispatch round.
CONSTANTS
  Owners = {o1}
  MaxGen = 2
  MaxRound = 1
SPECIFICATION Spec
CHECK_DEADLOCK FALSE
INVARIANTS NoRunIsLost EnginesAreSupervised
PROPERTY FrozenIsQuiet
