SPECIFICATION FairSpec
CONSTANTS
    Own = own
    Forwarded = forwarded
    MaxNtp = 2
    MaxSeqnum = 3
    GapThreshold = 1
    CountCycle = 3
    MaxTime = 2
PROPERTY RttIsEstimated
CHECK_DEADLOCK FALSE
