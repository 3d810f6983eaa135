SPECIFICATION MCSpec
CONSTANTS
    Lives <- Everything
    v1 = v1
    v2 = v2
    Casts <- Together
    MaxId = 3
    Versions = {v1, v2}
    Gone = Gone
    Miss = Miss
    Workers = {w1, w2}
    Ops = {"create", "update", "delete", "read", "warm", "flush", "outside"}
    Viewers <- MCViewers
    Queries <- MCQueries
    Tables0 <- MCTables0
    MaxRows = 4
    MaxWrites = 1
    c1 = c1
    c2 = c2
    Clients = {c1, c2}
    Tables <- MCTables
    Files <- MCFiles
    Params <- MCParams
    Nobody = Nobody
INVARIANTS
    TreeSound
    ListingSound
    TransferSound
PROPERTIES
    FlushRefreshes
    ImportExact
SYMMETRY Symmetry
