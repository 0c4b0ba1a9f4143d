SPECIFICATION FairSpec
CONSTANTS
    a1 = a1  a2 = a2  ssrc = ssrc
    None = None
    Addresses <- SomeAddresses
    SizeOf <- Sizes
    Scenes <- SomeScenes
    InitialTarget = 1
    MaxDebtInTime = 2
    PacketLifetime = 2
    Seqnums = {1, 2, 3, 4, 5}
    MaxRtx = 2
    WindowSize = 2
    NackLimit = 2
    MaxNackRetryCount = 2
    NackExpiry = 3
    Rtt = 1
    Late = 1
INVARIANTS NumbersAreUsedOnce QueueKeepsMoving LossesAreRepaired
PROPERTIES MediaIsPaced QueuedPacketsLeave
