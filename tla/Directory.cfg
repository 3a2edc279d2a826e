SPECIFICATION Spec
CONSTANTS
    Base = {a}
    Folders = {f}
    Others = {o}
    OtherFolders = {d}
    Keys = {k1, k2}
    NoKey = NoKey
    Chunks = 2
    MaxSaves = 2
    MaxFaults = 2
    MaxStops = 2
INVARIANTS
    NothingLost
    ListedByName
    KeyRespected
SYMMETRY Symmetry
CHECK_DEADLOCK FALSE
