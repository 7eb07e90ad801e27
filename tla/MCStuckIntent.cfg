SPECIFICATION DeletionFairSpec
CONSTANTS
    m1 = m1
    p1 = p1
    u1 = u1
    c1 = c1
    c2 = c2
    w1 = w1
    w2 = w2
    Media = {m1}
    Posts = {p1}
    Uploaders = {u1}
    Cleaners = {c1, c2}
    Workers = {w1, w2}
    d1 = d1
    d2 = d2
    Deleters = {d1, d2}
    Nobody = Nobody
    Moves <- MCMoves
    Attempts = 2
    Versions = 2
    Scenarios <- MCIntents
PROPERTY IntentsAlwaysEnd
CHECK_DEADLOCK FALSE
