SPECIFICATION ServicesSpec
CONSTANTS
    MaxFrames = 2  MaxFilms = 2  MaxStops = 1
    Requests = {r1, r2, r3}  Early = {r1, r2}  MaxRestarts = 1
    Accounts = {a1, a2}  Machines = {m1, m2}  Flows = {f1, f2}  MaxGen = 3
    Stored = {u1}  Played = {u2, u3}  MaxCrashes = 1
    SeerrServers = {s1, s2}  SeerrFlows = {q1, q2}  Polls = {p1, p2}  Capacity = 1
    MaxChanges = 2
    Starts = {t1, t2}  Peers = {d1, d2}  MaxSessions = 2  MaxOff = 2
    Tokens = {k1, k2, k3}  MaxCloses = 1
    Locations = {l1}  Names = {n1, n2}  Askers = {g1}  Workers = {w1}
    MaxVersion = 2  MaxRefreshes = 3  MaxEdits = 2
    Thumbs = {i1, i2}  Callers = {c1, c2}  QueueMax = 1
    Urls = {v1, v2}  Lookups = {y1, y2, y3}  CacheMax = 1
    Streams = {z1, z2}  Readers = {o1, o2, o3}  MaxReports = 3
INVARIANTS
    RestoredOnce RunsOnce ServerBelongsToAccount TitleKeepsServer
    FinishedIsKept OneSessionPerFlow NoOrphanedService
    FoundByTheLiveSession OnePipeline
    FavoritesFollow FetchedOnce PlexIsTold
CHECK_DEADLOCK FALSE
