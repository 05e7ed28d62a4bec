\* One search, two engines, two dispatch rounds, with the fairness of the threads.
CONSTANTS
  Owners = {o1, o2}
  MaxGen = 1
  MaxRound = 2
SPECIFICATION FairSpec
CHECK_DEADLOCK FALSE
PROPERTIES EveryRunFinishes ReadyAgain
