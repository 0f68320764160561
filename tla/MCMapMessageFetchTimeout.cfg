SPECIFICATION Spec
CONSTANTS
    t1 = t1  t2 = t2  t3 = t3
    m1 = m1  m2 = m2
    NoThread = NoThread  None = None  Partial = Partial
    Threads <- MCThreads
    Uids <- MCUids
    MaxCalls = 2
    MaxUnfinished = 1
SYMMETRY Symmetry
INVARIANT ReturnsRequested
