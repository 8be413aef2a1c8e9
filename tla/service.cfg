SPECIFICATION MCSpec
CONSTANTS
    Clients = {c1, c2}
    Tokens = {t1, t2}
    Nobody = Nobody
    Absent = Absent
    NoToken = NoToken
    MaxVersion = 3
    Stories <- MCStories
    Callers = {p1, p2}
    Calls = {a1, a2}
    Secrets = {s1, s2}
    NoCall = NoCall
    NoSecret = NoSecret
    MaxSessions = 1
    MaxBreaks = 1
    MaxChecks = 1
    Threads = {h1, h2}
    Worker = h1
    None = None
    MaxConns = 1
    MaxRequests = 2
    MaxSize = 2
    MaxChanges = 1
    Removed = Removed
    MaxMishaps = 1
    Readers = {r1, r2}
    Stamps = {1, 2, 3}
    NoFile = NoFile
    NoEntry = NoEntry
    MaxWrites = 3
    Dirs = {d1, d2}
    FirstName = a
    Names = {a, b}
    Root = Root
    Outside = Outside
    QueueLimit = 3
    MaxMoves = 2
    MaxFileWrites = 1
    Away = {d2}
INVARIANTS
    SyncTypeOK    
    ServiceTypeOK OkComesFirst SessionsShareSecret NoticesAreCurrent DroppedForCause
    TransferTypeOK StreamInSync OkIsStored WholeFiles
    CacheTypeOK FreshStampsSuffice OnlyOverlapsFool
    WatchTypeOK NothingMissed PathsAreRight
PROPERTIES
     LeftIsForgotten DemotedDrains
CHECK_DEADLOCK FALSE
