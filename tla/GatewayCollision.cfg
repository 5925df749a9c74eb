SPECIFICATION Spec
CONSTANTS
    ServerIds = {}
    ServerEndpoints = {e1, e2}
    GwStreams = {g1, g2}
    ServerStreams = {s1, s2}
    Devices = {d1}
    Clients = {c1}
    Identity <- CollidingIdentity
    MaxServers = 1
    MaxPackets = 1
    NoServer = NoServer
    NoStream = NoStream
    Expired = Expired
    NoGwStream = NoGwStream
CHECK_DEADLOCK FALSE
INVARIANTS
    PacketsAtTheirServer
