SPECIFICATION FairLifeSpec
CONSTANTS
    Jobs = {j1}
    Main = Main
    MaxUi = 2
    Modes = {0, 3}
    Beast = 3
INVARIANTS LifeTypeOK HandlesBalanced NoUiLeftBehind
PROPERTIES MenuPpmKeepsMode ServiceExits
CHECK_DEADLOCK FALSE
