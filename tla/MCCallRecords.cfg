\* One room of a group and one of a call link, two requests at a time and two eras.
SPECIFICATION MCSpec
CONSTANTS
    group = group  room = room
    b1 = b1  west = west
    e1 = e1  e2 = e2  q1 = q1  q2 = q2
    Rooms = {group, room}
    LinkRooms = {room}
    Eras = {e1, e2}
    Backends = {b1}
    Regions = {west}
    Requests = {q1, q2}
    RegionOf <- OneRegion
    Handlers = {"join", "create", "update", "delete"}
    QueueCapacity = 1
    BatchSize = 2
    StorageFails = FALSE
    BackendFails = FALSE
    None = None
SYMMETRY Symmetry
INVARIANT RunningCallsAreRecorded
PROPERTIES OnlyReportedRecordsGo LinksInUseAreKept DeletedLinksStayDeleted
