SPECIFICATION MCSpec
CONSTANTS
    w1 = w1
    w2 = w2
    n1 = n1
    n2 = n2
    e1 = e1
    e2 = e2
    c1 = c1
    c2 = c2
    v1 = v1
    i1 = i1
    Names = {n1, n2}
    Addresses = {e1, e2}
    Requests = {w1, w2}
    Comments = {c1, c2}
    Ballots = {v1}
    Identities = {i1}
    Tables <- Start
    MaxId = 3
    MaxHour = 2
    MaxOps = 4
    MaxExpiries = 1
    Nil = Nil
CHECK_DEADLOCK FALSE
PROPERTIES
    RolledBack
