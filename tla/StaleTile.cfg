SPECIFICATION WindowSpec
CONSTANTS
    Modes = {0, 3}
    Levels = {0, 1}
    StartLevel = 1
    Beast = 3
    Slots = {1}
    FileSeconds = {5}
    IntMax = 3
    MaxMoves = 1
    MaxOthers = 0
    MaxFailures = 1
PROPERTY TilesFollowPolls
