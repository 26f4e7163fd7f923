SPECIFICATION Spec
CONSTANTS
    Threads = {t1, t2}
    NoThread = NoThread
    Backlog = 2
    MaxStarts = 2
    MaxEdits = 1
CHECK_DEADLOCK FALSE
SYMMETRY QueueSymmetry
VIEW QueueView
INVARIANTS
    OnePlace
    ClearWins
    InterruptedIsKept
PROPERTIES
    FailedPlayRestores
