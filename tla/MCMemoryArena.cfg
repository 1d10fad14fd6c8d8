\* Two arenas of two block sizes: requests that overflow a block, one that asks for an
\* alignment that is no power of two, and moves of either arena into the other.
SPECIFICATION Spec
CONSTANTS
    Arena = {a1, a2}
    BlockSizes = {4, 6}
    Alignments = {3, 4}
    DefaultAlignment = 2
    BaseAddresses = {10}
    Sizes = {0, 3}
    MaxBlocks = 3
    MaxAllocations = 3
    MaxResets = 1
SYMMETRY ArenaSymmetry
INVARIANTS
    TypeOK
    RegionsDisjoint
    RegionsBacked
    CountersAgree
PROPERTIES
    ImplementsRegionAllocator
