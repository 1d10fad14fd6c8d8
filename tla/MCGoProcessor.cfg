\* Two streams of up to two chunks and one, and reports at any moment.
SPECIFICATION Spec
CONSTANTS
    s1 = s1
    s2 = s2
    NoParams = NoParams
    Stream = {s1, s2}
    Buffer = {b1, b2}
    NoBuffer = NoBuffer
    Chunks <- MCChunks
    MaxChunks <- MCMaxChunks
    KernelLimit = 5
INVARIANTS
    RepliesAreOwn
    ReportsLag
    CallsEndFirst
PROPERTIES
    SignalEnds
