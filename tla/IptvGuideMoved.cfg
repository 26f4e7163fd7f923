SPECIFICATION GuideSpec
CONSTANTS
    Locations = {l1, l2}  Names = {n1, n2}  Askers = {g1}  Workers = {w1, w2}
    MaxVersion = 2  MaxRefreshes = 2  MaxEdits = 2
PROPERTIES
    NewUrlIsFetched
CHECK_DEADLOCK FALSE
