SPECIFICATION Spec
CONSTANTS
    Devices = {d1, d2, d3}
    Ports = {p1}
    IdCount = 4
    NoDevice = NoDevice
SYMMETRY Symmetry
INVARIANTS
    TypeOK
    ListenersLive
    DevicesHear
    AnswersReachOpener
