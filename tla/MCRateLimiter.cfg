\* A bucket of two tokens over four ticks, the limiter by itself.
SPECIFICATION Spec
CONSTANTS
    Rps = 2
    MaxTicks = 4
INVARIANTS
    BurstBounded
