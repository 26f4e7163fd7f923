SPECIFICATION Spec
CONSTANTS
    Servers = {s1, s2}
    Beats = {h1, h2}
    None = None
    Admin = Admin
    MaxSessions = 2
    MaxChanges = 2
    MaxBacklog = 1
CHECK_DEADLOCK FALSE
SYMMETRY ControlSymmetry
INVARIANTS
    SocketMatchesIdentity
    OneLiveSession
PROPERTIES
    LateResultsDiscarded
