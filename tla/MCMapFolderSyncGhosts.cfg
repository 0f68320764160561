SPECIFICATION Spec
CONSTANTS
    t1 = t1  t2 = t2
    f1 = f1  f2 = f2
    m1 = m1  m2 = m2
    NoThread = NoThread  NoFolder = NoFolder  MsgDir = MsgDir
    Threads <- MCThreads
    Folders <- TwoFolders
    Messages <- MCMessages
    Home <- OneEach
    MaxOps = 4
    MaxEvents = 2
SYMMETRY ThreadSymmetry
INVARIANT FirstRefreshPrunes
