SPECIFICATION PagesSpec
CONSTANTS
    w1 = w1
    w2 = w2
    w3 = w3
    w4 = w4
    Workers = {w1, w2, w3, w4}
    Kinds <- CommentsDelete
    MaxId = 3
    Titles = {t1, t2}
    Blank = Blank
    Miss = Miss
    None = None
CHECK_DEADLOCK FALSE
INVARIANTS
    NoDuplicate
