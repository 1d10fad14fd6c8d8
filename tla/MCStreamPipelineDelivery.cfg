\* A short exchange that nothing interrupts.
SPECIFICATION Spec
CONSTANTS
    MaxFrames = 2
    Requests <- ShortRequest
    BufferSize = 1
    ChunkCap = 1
    ResultCap = 2
    CallCap = 1
    WireCap = 1
INVARIANTS
    CleanEndDeliversAll
