SPECIFICATION Spec
CHECK_DEADLOCK FALSE
CONSTANTS
    profile = profile
    post = post
    like = like
    Owner = Owner
    Consumer = Consumer
    Nobody = Nobody
    Collection <- MCCollection
    Subject <- MCSubject
    Uris = {profile, post}
    Workers = {w1}
    RWorkers = {r1}
    Malformed = {}
    Shifts = {}
    Requests = {"pds_reconcile"}
    MaxRev = 3
    MaxResyncs = 0
    MaxGen = 1
    MaxFaults = 1
PROPERTY OlderNeverReplacesNewer
