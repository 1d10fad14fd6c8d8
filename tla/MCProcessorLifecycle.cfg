\* Two signals, a call, two scrapes; the metrics port may be taken.  The process
\* really may hang: see WaitsForItself.
SPECIFICATION Spec
CHECK_DEADLOCK FALSE
CONSTANTS
    Worker = {w1, w2}
    Scrapers <- Prompt
    MaxScrapes = 1
    MaxCalls = 1
    MaxSignals = 2
    ListenMayFail = TRUE
INVARIANTS
    CleanEnd
    ServiceOutlivesItsUsers
PROPERTIES
    NoScrapeAfterClose
    SignalStops
    PoolEnds
