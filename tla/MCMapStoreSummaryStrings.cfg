SPECIFICATION Spec
CONSTANTS
    i1 = i1  i2 = i2  i3 = i3
    a = a  b = b
    NoId = NoId  NoName = NoName  NoFile = NoFile  Freed = Freed
    Ids <- TwoIds
    Names <- MCNames
    Values = {0}
    Orderly = FALSE
    MaxOps = 4
SYMMETRY Symmetry
INVARIANTS NoFreedKeys
