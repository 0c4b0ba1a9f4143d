CONSTANTS
    d1 = d1
    d2 = d2
    d3 = d3
    None = None
    DemuxIds <- ThreeDevices
    VideoSenders <- OneSender
    Scenes <- SomeScenes
    InitialTarget = 6
    DefaultMaxRate = 9
    HighRes = 1

SPECIFICATION MCSpec

INVARIANTS
    NothingOfTheDeparted
    ForwardingIsConsistent
    AllocationsAreFair

PROPERTY WaitingEnds
