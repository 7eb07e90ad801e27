SPECIFICATION Spec
CHECK_DEADLOCK FALSE
CONSTANTS
    profile = profile
    post = post
    like = like
    Owner = Owner
    Consumer = Consumer
    Nobody = Nobody
    Collection <- MCCollection
    Subject <- MCSubject
    Uris = {profile, post, like}
    Workers = {w1, w2}
    RWorkers = {}
    Malformed = {4}
    Shifts <- MCTerminal
    Requests = {}
    MaxRev = 4
    MaxResyncs = 0
    MaxGen = 3
    MaxFaults = 1
INVARIANTS RefusalLeavesEvidence AlertsFollowServed ProjectionIsExclusive
PROPERTY ServesOnlyMembers
SYMMETRY MCSymmetry
