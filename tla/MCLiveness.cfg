SPECIFICATION FairSpec
CHECK_DEADLOCK FALSE
CONSTANTS
    profile = profile
    post = post
    like = like
    Owner = Owner
    Consumer = Consumer
    Nobody = Nobody
    Collection <- MCCollection
    Subject <- MCSubject
    Uris = {profile}
    Workers = {w1}
    RWorkers = {r1}
    Malformed = {}
    Shifts = {}
    Requests = {"pds_reconcile"}
    MaxRev = 2
    MaxResyncs = 1
    MaxGen = 1
    MaxFaults = 1
PROPERTIES EveryEventAcknowledged EveryJobSettles UncertaintyEnds
