SPECIFICATION Spec
CHECK_DEADLOCK FALSE
CONSTANTS
    profile = profile
    post = post
    like = like
    Owner = Owner
    Consumer = Consumer
    Nobody = Nobody
    Collection <- MCCollection
    Subject <- MCSubject
    Uris = {profile, post}
    Workers = {w1}
    RWorkers = {}
    Malformed = {}
    Shifts = {}
    Requests = {}
    MaxRev = 2
    MaxResyncs = 0
    MaxGen = 1
    MaxFaults = 0
INVARIANT DependenciesConverge
