SPECIFICATION MCSpec
CONSTANTS
    v1 = v1
    v2 = v2
    s1 = s1
    e1 = e1
    d1 = d1
    ip1 = ip1
    ip2 = ip2
    Casts <- Together
    Targets = {t1}
    IPs = {ip1, ip2}
    Voters = {v1, v2}
    Syncers = {s1}
    Editors = {e1}
    Deleters = {d1}
    Texts = {x1}
    MaxVotes = 3
    Free = Free
    Letters = {"a", "b", "c"}
    Star = "*"
    SpamConfs <- Moderations
    Contents <- MCContents
    MaxSpamEdits = 1
    Admins = {a1, a2}
    Names = {n1, n2}
    MaxSites = 3
    MaxPageRows = 2
    MaxRequests = 4
    Uncached = Uncached
    NoName = NoName
    MaxComment = 4
    Databases <- Found
    MaxFaults = 2
    MaxBoots = 3
    RandomKeys <- MCRandomKeys
    Machines <- AllMachines
    MaxStarts = 2
CHECK_DEADLOCK FALSE
INVARIANTS
    CountsRight
    OneVotePerIP
    SpamSound
    SitesSound
    MigrationSound
    StartupSound
