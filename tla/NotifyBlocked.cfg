SPECIFICATION MCSpec
CONSTANTS
    u = u
    v = v
    a1 = a1
    a2 = a2
    Users = {u, v, a1, a2}
    Nobody = Nobody
    Admins <- TwoAdmins
    Addrs <- OwnOrOneBox
    Confs <- NoModerator
    Mods = {m1, m2}
    MaxEdits = 2
    Capacity = 1
    w1 = w1
    w2 = w2
    w3 = w3
    w4 = w4
    Workers = {w1, w2, w3, w4}
    Kinds <- Together
    MaxId = 2
    Titles = {t1, t2}
    Blank = Blank
    Miss = Miss
    None = None
CHECK_DEADLOCK FALSE
INVARIANTS
    BlockedNotMailed
