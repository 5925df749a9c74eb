SPECIFICATION FairSpec
CONSTANTS
    ServerIds = {i1}
    ServerEndpoints = {e1}
    GwStreams = {g1, g2}
    ServerStreams = {s1, s2}
    Devices = {d1}
    Clients = {c1}
    Identity <- DistinctIdentity
    MaxServers = 2
    MaxPackets = 2
    NoServer = NoServer
    NoStream = NoStream
    Expired = Expired
    NoGwStream = NoGwStream
CHECK_DEADLOCK FALSE
PROPERTIES
    PacketSettles
    GetStreamEnds
