\* Frames and kernels around one and two registers of four floats.
SPECIFICATION Spec
CONSTANTS
    Lanes = 4
    Widths = {1, 3, 4, 5, 7, 8, 9}
    Heights = {1, 2, 3}
    Spreads = {1, 4, 7, 8, 40}
INVARIANTS
    TypeOK
    TapsAddedOnce
    OutputStoredOnce
