SPECIFICATION EditorSpec
CONSTANTS
    w1 = w1
    w2 = w2
    Writers = {w1, w2}
    ForeignLists <- Foreign
    FirstFiles <- SomeFiles
    Junk = Junk
    NoFile = NoFile
    Torn = Torn
    MaxCrashes = 1
    Paths = {"game", "tool"}
    Fields = {"off", "on"}
    NewFields = "off"
    MaxEdits = 3
    MaxForeign = 1
SYMMETRY Symmetric
INVARIANTS StoreTypeOK NothingToLose EditsLand
PROPERTIES DurableSpec OnlyUserRemoves
CHECK_DEADLOCK FALSE
