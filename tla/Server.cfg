SPECIFICATION ServerSpec
CONSTANTS
    ip1 = ip1
    ip2 = ip2
    k1 = k1
    k2 = k2
    s1 = s1
    s2 = s2
    x1 = x1
    x2 = x2
    Emails = {e1, e2}
    IPs = {ip1, ip2}
    Codes = {k1, k2}
    NoCode = NoCode
    Senders = {s1, s2}
    Checkers = {x1, x2}
    Stripe <- OneStripe
    MaxAttempts = 2
    Cooldown = 1
    Lifetime = 2
    MaxTime = 2
    w1 = w1
    w2 = w2
    n1 = n1
    n2 = n2
    e1 = e1
    e2 = e2
    c1 = c1
    c2 = c2
    v1 = v1
    i1 = i1
    Names = {n1, n2}
    Addresses = {e1, e2}
    Requests = {w1, w2}
    Comments = {c1, c2}
    Ballots = {v1}
    Identities = {i1}
    Tables <- Start
    MaxId = 3
    MaxHour = 2
    MaxOps = 4
    MaxExpiries = 1
    Nil = Nil
    Images = {u1, u2}
    Offers <- Gifts
    Modes <- AllModes
    MaxMilli = 1
CHECK_DEADLOCK FALSE
INVARIANTS
    TypeOK
    SendsInOrder
    AcceptedAtMostOnce
    AttemptBudget
    RefusedOnlyIfDead
    UsersSound
    RevokedStays
    UploadsSound
PROPERTIES
    LockoutKept
    MergeExact
