SPECIFICATION Spec
CONSTANTS
    LogicData = 2
    SectorOverhead = 1
    Byte = {0, 1}
    Junk = Junk
    MaxSize = 5
    Careful = TRUE
    Inputs <- Writes
PROPERTIES
    ImplementsFlatFile
CHECK_DEADLOCK FALSE
