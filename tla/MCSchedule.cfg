SPECIFICATION PushFairSpec
CONSTANTS
    m1 = m1
    p1 = p1
    u1 = u1
    c1 = c1
    c2 = c2
    w1 = w1
    w2 = w2
    Media = {m1}
    Posts = {p1}
    Uploaders = {u1}
    Cleaners = {c1, c2}
    Workers = {w1, w2}
    d1 = d1
    d2 = d2
    Deleters = {d1, d2}
    Nobody = Nobody
    n1 = n1
    n2 = n2
    a1 = a1
    a2 = a2
    t1 = t1
    k1 = k1
    k2 = k2
    Notes = {n1, n2}
    Published = {n1}
    Devices = {a1, a2}
    Rotated = t1
    Dispatchers = {k1, k2}
    Moves <- MCMoves
    Attempts = 2
    Versions = 2
    Scenarios <- MCPushes
INVARIANTS TypeOK OncePerVersion TombstonesAreTrue ReadyIsStored NothingForgotten DeletionTypeOK AcceptedHasCredential PushTypeOK OneSender SendsAreWanted
PROPERTIES StaleNeverPublishes Settles NothingLingers OnlyAcceptedDeletes NothingIsLeft DeletionEnds IntentsEnd RegistrationsHold QueueDrains
CHECK_DEADLOCK FALSE
