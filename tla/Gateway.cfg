SPECIFICATION Spec
CONSTANTS
    ServerIds = {i1}
    ServerEndpoints = {e1}
    GwStreams = {g1, g2}
    ServerStreams = {s1, s2}
    Devices = {d1, d2}
    Clients = {c1}
    Identity <- DistinctIdentity
    MaxServers = 1
    MaxPackets = 2
    NoServer = NoServer
    NoStream = NoStream
    Expired = Expired
    NoGwStream = NoGwStream
SYMMETRY Symmetry
CHECK_DEADLOCK FALSE
INVARIANTS
    TypeOK
    StoreOwnsStreams
    PacketsAtTheirServer
    TiedStreamsUsable
    AnswersReachAskers
PROPERTIES
    RelaySpec
    LossNeedsFailure
