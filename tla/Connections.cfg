SPECIFICATION ConnectionsSpec
CONSTANTS
    Clients = {c1}
    Snapshots = {playback, status}
    Hints = {queue}
    MaxSize = 2
    MaxEvents = 4
    Servers = {s1, s2}
    Beats = {h1, h2}
    None = None
    Admin = Admin
    MaxSessions = 2
    MaxChanges = 1
    MaxBacklog = 1
CHECK_DEADLOCK FALSE
INVARIANTS
    DeliveryInOrder
    DrainedIsCurrent
    LossesAreNoticed
PROPERTIES
    EventuallyCurrent
    SocketIsStarted
