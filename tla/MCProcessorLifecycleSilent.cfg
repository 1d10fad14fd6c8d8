\* A client of the metrics port that connects and sends nothing: the process may hang.
SPECIFICATION Spec
CHECK_DEADLOCK FALSE
CONSTANTS
    Worker = {w1, w2}
    Scrapers <- Silent
    MaxScrapes = 1
    MaxCalls = 1
    MaxSignals = 1
    ListenMayFail = FALSE
PROPERTIES
    SignalStops
