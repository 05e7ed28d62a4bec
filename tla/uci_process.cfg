\* Two generations with a search each and a perft request in the first, a command
\* pipe of two and a line at a time; the engine may crash once, the shell may close.
SPECIFICATION FairSpec
CONSTANTS
    MaxToken = 2
    MaxRound = 1
    MaxAsk = 1
    CommandMax = 2
    LineMax = 1
INVARIANTS OneSearch StopHitsOwn Outcomes
PROPERTIES NoLateGo EverySearchEnds
\* closed, or dead: nothing more happens
CHECK_DEADLOCK FALSE
