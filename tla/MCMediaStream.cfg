\* Two streams of up to three chunks and one, in either mode, a reset every two frames.
SPECIFICATION ScrapeSpec
CONSTANTS
    s1 = s1
    s2 = s2
    Stream = {s1, s2}
    ModeHeader = {"", "heap"}
    ResetInterval = 2
    FrameRequests <- MCFrameRequests
    HeapRequests = {1}
    Clients <- MCClients
    ReportedClients <- MCReportedClients
    BlockSizes = {8}
    Alignments = {1, 4}
    DefaultAlignment = 2
    BaseAddresses = {8}
INVARIANTS
    CountersExact
    PeakIsHighWater
    OneReplyPerChunk
    UseBounded
    ReportCoversFrames
PROPERTIES
    StreamsClose
