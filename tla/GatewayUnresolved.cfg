SPECIFICATION FairSpec
CONSTANTS
    ServerIds = {i1}
    ServerEndpoints = {}
    GwStreams = {g1}
    ServerStreams = {s1}
    Devices = {d1}
    Clients = {c1}
    Identity <- DistinctIdentity
    MaxServers = 1
    MaxPackets = 1
    NoServer = NoServer
    NoStream = NoStream
    Expired = Expired
    NoGwStream = NoGwStream
CHECK_DEADLOCK FALSE
PROPERTIES
    UnresolvedRemoved
