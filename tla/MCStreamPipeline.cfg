\* Requests of any size, failures, deadlines and disconnections at any moment.
SPECIFICATION Spec
CONSTANTS
    MaxFrames = 10
    Requests <- AnyRequest
    BufferSize = 1
    ChunkCap = 1
    ResultCap = 1
    CallCap = 1
    WireCap = 1
INVARIANTS
    FramesConserved
PROPERTIES
    ImplementsInOrderPipe
    HandlerReturns
    NoLeak
