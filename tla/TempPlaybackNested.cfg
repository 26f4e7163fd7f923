SPECIFICATION FairSpec
CONSTANTS
    MaxFrames = 2  MaxFilms = 1  MaxStops = 0
PROPERTY EndedTopIsCompleted
CHECK_DEADLOCK FALSE
