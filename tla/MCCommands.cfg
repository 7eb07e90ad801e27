SPECIFICATION Spec
CONSTANTS
    k1 = k1
    k2 = k2
    u1 = u1
    u2 = u2
    c1 = c1
    c2 = c2
    Keys = {k1, k2}
    Uris = {u1, u2}
    Callers = {c1, c2}
    Nobody = Nobody
    Scenarios <- MCScenarios
    Moves <- MCMoves
    MaxGen = 3
    MaxDispatches = 3
INVARIANTS TypeOK RetriesApplyOnce RefusedTookNoEffect
PROPERTIES OneMember ClosedGenerationIsQuiet KeepsPromise
CHECK_DEADLOCK FALSE
