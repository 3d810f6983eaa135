SPECIFICATION MCSpec
CONSTANTS
    empty = empty
    plain = plain
    cached = cached
    invalid = invalid
    zone = zone
    nodb = nodb
    a1 = a1
    a2 = a2
    j1 = j1
    Casts <- Together
    Yamls = {empty, plain, cached, invalid, zone, nodb}
    Empty = empty
    First = cached
    Invalid = {invalid}
    OtherZone = {zone}
    NoDatabase = {nodb}
    Cached = {cached, zone}
    Admins = {a1, a2}
    Main = main
    Jobs = {j1}
    Capacity = 1
    MaxApplies = 2
    MaxMails = 2
    o1 = o1
    o2 = o2
    u1 = u1
    u2 = u2
    Fetchers = {f1, f2}
    URLs = {u1, u2}
    Origins = {o1, o2}
    Origin <- OriginOf
    OriginSets <- OneOrBoth
    MaxRedirects = 1
    MaxConcurrent = 1
    Interval = 1
    Timeout = 1
    MaxEdits = 1
CHECK_DEADLOCK FALSE
INVARIANTS
    AppSound
    FetchSound
PROPERTIES
    MailsHandled
    ApplyEnds
    SlotsKept
    FetchesEnd
