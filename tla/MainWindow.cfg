SPECIFICATION FairWindowSpec
CONSTANTS
    Modes = {0, 3}
    Levels = {0, 1}
    StartLevel = 1
    Beast = 3
    Slots = {1, 2}
    FileSeconds = {5}
    IntMax = 3
    MaxMoves = 2
    MaxOthers = 1
    MaxFailures = 1
INVARIANTS WindowTypeOK NoRefreshForgotten ChoiceStands
PROPERTY WindowCatchesUp
