SPECIFICATION Spec
CONSTANTS
    inbox = inbox  sent = sent  archive = archive  old = old  older = older
    msg = msg
    Top = Top  None = None
    Dirs <- MCDirs
    Up <- MCUp
    Skipped <- MCSkipped
INVARIANTS TypeOK SiblingsChained ParentIsDirectory FailureIsLocal ErrorTellsLoss
