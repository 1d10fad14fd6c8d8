\* Does a reply hold only bytes of its own frame, for every filter in either mode?
\* A stream may be longer than the bound: it stops there.
SPECIFICATION Spec
CHECK_DEADLOCK FALSE
CONSTANTS
    Width = 5
    Height = 3
    Lanes = 2
    KernelSize = 3
    FloatSize = 2
    Requests <- AnyRequest
    ResetInterval = 2
    MaxFrames = 3
    BlockSize = 40
    Base = 9
    BlockSizes = {40}
    Alignments = {1, 2}
    DefaultAlignment = 16
    BaseAddresses = {9}
INVARIANTS
    ReplyFromItsFrame
