\* Four moves of the bot, four epochs, two moves to choose from.
CONSTANTS
  Moves = {a, b}
  NoMove = NoMove
  Side = 0
  MaxPly = 7
  MaxEpoch = 4
SPECIFICATION FairSpec
CHECK_DEADLOCK FALSE
INVARIANTS OnePostPerPosition JournalMatchesBoard NothingToRefuse
PROPERTY PlayedIsConfirmed
