\* Joins that fail half-way, with one packet worker.
SPECIFICATION FailedJoinSpec
CONSTANTS
    c1 = c1  d1 = d1  d2 = d2  a1 = a1  j1 = j1  j2 = j2  w1 = w1  w2 = w2
    t1 = t1  m1 = m1  m2 = m2  p1 = p1  p2 = p2
    None = None
    CallIds <- OneCall
    Addrs <- OneAddress
    ConnIdOf <- OwnDemuxIds
    DemuxIds <- TwoDevices
    Joins <- TwoJoins
    Workers <- OneWorker
    CryptoFails = TRUE
    Parts = {"sfu"}
PROPERTY VanishedClientsAreDropped
