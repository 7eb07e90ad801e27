SPECIFICATION Spec
CHECK_DEADLOCK FALSE
CONSTANTS
    profile = profile
    post = post
    like = like
    Owner = Owner
    Consumer = Consumer
    Nobody = Nobody
    Collection <- MCCollection
    Subject <- MCSubject
    Uris = {profile, post}
    Workers = {w1}
    RWorkers = {}
    Malformed = {}
    Shifts <- MCShifts
    Requests = {}
    MaxRev = 3
    MaxResyncs = 1
    MaxGen = 4
    MaxFaults = 1
INVARIANTS AckedIsRetained CompletedIsServed JobsFollowSource QuietServesHead
PROPERTY KeepsPromise
