SPECIFICATION MCSpec
CONSTANTS
    Users = {u1, u2}
    MaxRetries = 3
    Rooms = {group1, group2}
    Eras = {e1, e2}
    Backends = {b1}
    Regions = {west}
    Requests = {q1}
    Handlers = {"join", "peek"}
    QueueCapacity = 1
    BatchSize = 2
    Hosts = {h1, h2}
    MaxWeight = 2
    MaxHosts = 2
    ChannelSize = 2
    Instances = {i1, i2, i3}
    Lifetimes = {1, 6}
    InitialBackoff = 1
    MaxBackoff = 4
    OldAge = 8
    Processes = {p1, p2}
    k1 = k1  k2 = k2  z1 = z1  z2 = z2
    ExpirationTimer = 1
    DeletionTimer = 1
    Horizon = 2
    None = None
    Parts = {"approvals", "records", "backends", "instances", "owners", "life", "refusals"}
INVARIANTS
    
    ChosenHostsAreHealthy
    AnswersAreTrue
PROPERTIES
    EmptyCallEnds
    StaleRecordsAreRemoved
    LinksAreTheirCreators
