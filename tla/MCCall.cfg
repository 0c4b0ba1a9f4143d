CONSTANTS
    d1 = d1
    d2 = d2
    d3 = d3
    u1 = u1
    u2 = u2
    None = None
    Users <- TwoUsers
    DemuxIds <- ThreeDevices
    Joins <- ThreeJoins
    Protos <- SmallProtos
    Initial <- NoUsers
    RequireApproval = TRUE
    PersistAll = TRUE

SPECIFICATION Spec

INVARIANTS
    
    
    ChangesAreAnnounced

PROPERTY ImplementsAdmission

SYMMETRY Symmetry
