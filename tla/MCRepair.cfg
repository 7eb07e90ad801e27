SPECIFICATION Spec
CHECK_DEADLOCK FALSE
CONSTANTS
    profile = profile
    post = post
    like = like
    Owner = Owner
    Consumer = Consumer
    Nobody = Nobody
    Collection <- MCCollection
    Subject <- MCSubject
    Uris = {profile, post}
    Workers = {w1}
    RWorkers = {r1}
    Malformed = {}
    Shifts <- MCCancelled
    Requests = {}
    MaxRev = 2
    MaxResyncs = 1
    MaxGen = 4
    MaxFaults = 0
INVARIANTS TypeOK RepairIsOwed
PROPERTY ServesOnlyCurrent
