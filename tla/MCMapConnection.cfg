SPECIFICATION FairSpec
CONSTANTS
    t1 = t1  t2 = t2
    f1 = f1  f2 = f2
    NoThread = NoThread  Null = Null  Closed = Closed
    RootDir = RootDir  MsgDir = MsgDir
    Threads <- MCThreads
    Folders <- MCFolders
    MaxSessions = 3
    MaxOps = 5
INVARIANTS TypeOK PathMatchesProxy CalmCallsSurvive
PROPERTIES ListsSelected MarksSelected CallsReturn
