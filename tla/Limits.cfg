SPECIFICATION MCSpec
CONSTANTS
    t1 = t1
    t2 = t2
    Keys = {a1, a2, a3, a4}
    PerKeyLimit = 2
    TotalLimit = 3
    Window = 2
    MaxTime = 4
    IPs = {ip1}
    Codes = {k1, k2}
    Requests = {r1, r2}
    Modes <- AllModes
    Expiration = 2
    TicksPerSecond = 2
    MaxTicks = 4
    MaxActs = 5
    Nil = Nil
    Browsers = {1, 2}
    Tabs = {t1, t2}
    People <- MCPeople
    Confs <- MCConfs
    Stateless = {"steam"}
    MaxFlows = 2
    MaxChanges = 2
CHECK_DEADLOCK FALSE
INVARIANTS
    RateSound
    LimitsExact
    WithinCredit
    SocialSound
PROPERTIES
    ResetInTime
    OnlyLatestImage
    LoginOwn
SYMMETRY Symmetry
