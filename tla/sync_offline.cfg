SPECIFICATION SyncSpec
CONSTANTS
    Clients = {c1, c2}
    Tokens = {t1, t2}
    Nobody = Nobody
    Absent = Absent
    NoToken = NoToken
    MaxVersion = 3
    Stories <- LaptopStory
INVARIANT
    OfflineEditsKept
CHECK_DEADLOCK FALSE
