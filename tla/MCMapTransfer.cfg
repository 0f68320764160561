SPECIFICATION FairSpec
CONSTANTS
    c1 = c1  c2 = c2
    NoCall = NoCall
    Calls <- MCCalls
INVARIANT TypeOK
PROPERTIES KeepsOutcome CallsAnswered
