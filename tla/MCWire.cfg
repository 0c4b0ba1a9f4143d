\* Everything between a forwarder and the wire, part by part.
SPECIFICATION MCSpec
CONSTANTS
    low = low  high = high  own = own  forwarded = forwarded
    Parts = {"forwarders", "packets", "acks", "inputs", "receiver", "sender", "groups",
             "rates", "delays", "target"}
    None = None
    Ssrcs <- Layers
    Header <- Headers
    FirstIds <- Starts
    Width <- Widths
    MaxPacket <- Lengths
    MaxSingle = 7
    MaxGap = 4
INVARIANTS IdsAreOneStream  
PROPERTIES ImplementsOneStream CongestionControlIsSound
CHECK_DEADLOCK FALSE
