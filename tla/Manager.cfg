SPECIFICATION ManagerSpec
CONSTANTS
    ServerIds = {i1, i2}
    ServerEndpoints = {e1}
    GwStreams = {g1, g2, g3}
    ServerStreams = {s1, s2, s3}
    MaxServers = 2
    NoServer = NoServer
    NoStream = NoStream
    Expired = Expired
SYMMETRY Symmetry
INVARIANTS
    ManagerTypeOK
    ServerBuiltOncePerId
    ResultServesRequest
    CallerStreamServesCaller
    CacheEntryServesItsId
    SharedUnlessRaced
PROPERTIES
    ServiceSpec
