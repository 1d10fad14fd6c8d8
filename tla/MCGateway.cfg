\* Two processors, two frames, a socket, a probe and an administrator; one token
\* and one tick.
SPECIFICATION GatewaySpec
CONSTANTS
    Rps = 1
    MaxTicks = 1
    Processors = 2
    Frames = {f1, f2}
    Sockets = {w1}
    Probes = {h1}
    Admins = {a1}
    Indices <- MCIndices
INVARIANTS
    GatewayTypeOK
    StickyRoutes
    TurnsBalanced
    ClosedAfterDrain
PROPERTIES
    ShutdownEnds
