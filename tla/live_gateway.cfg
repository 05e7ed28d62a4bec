\* One game of up to four plies, three bridges, any number of gateway restarts.
CONSTANTS
  Moves = {a}
  NoMove = NoMove
  Side = 0
  MaxPly = 4
  MaxEpoch = 3
  Accept = Accept
SPECIFICATION FairSpec
CHECK_DEADLOCK FALSE
INVARIANTS HonestMoveAdmitted FinishedIsProven
PROPERTIES ImplementsRecovery StopDrains
