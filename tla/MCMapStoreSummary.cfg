SPECIFICATION Spec
CONSTANTS
    i1 = i1  i2 = i2  i3 = i3
    a = a  b = b
    NoId = NoId  NoName = NoName  NoFile = NoFile  Freed = Freed
    Ids <- ThreeIds
    Names <- MCNames
    Values = {0}
    Orderly = TRUE
    MaxOps = 5
SYMMETRY Symmetry
INVARIANTS TypeOK HashesMatchFile DirtyIsExact OrderlyKeepsRunning OrderlyKeysLive
