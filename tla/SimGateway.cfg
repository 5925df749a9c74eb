SPECIFICATION SimSpec
CONSTANTS
    a1 = a1
    c1 = c1
    c2 = c2
    i1 = i1
    ServerIds = {i1}
    ServerEndpoints = {}
    GwStreams = {g1, g2}
    ServerStreams = {s1}
    AccessPoints = {a1}
    Clients = {c1, c2}
    Transports <- TwoTransports
    Port = Port
    IdCount = 4
    MaxDevices = 2
    Devices = {0, 1, 2, 3}
    Identity <- DistinctIdentity
    MaxServers = 1
    MaxPackets = 1
    NoServer = NoServer
    NoStream = NoStream
    Expired = Expired
    NoGwStream = NoGwStream
    NoDevice = NoDevice
SYMMETRY Symmetry
CHECK_DEADLOCK FALSE
INVARIANTS
    SimTypeOK
    TransportsConnected
    AnswersHeardByWriters
