\* Seven kinds of visit, each with a few pages opened by hand and forms.
SPECIFICATION PanelSpec
CONSTANTS
    t1 = t1
    t2 = t2
    b1 = b1
    b2 = b2
    Tab = {t1, t2}
    Browser = {b1, b2}
    Visits <- MCVisits
    Credentials <- MCCredentials
    ColonNames = {"a:b"}
    NoToken = NoToken
    NoUser = NoUser
    NoAuth = NoAuth
    Attempts = 12
    TTL = 1
    PanelTab = t1
    MaxStarts = 3
    Captures <- MCCaptures
    MaxMessages = 3
    Routes = {"rr", "0"}
    Refreshes = {1, 2}
    MaxChanges = 3
INVARIANTS
    TokensAreEarned
    HistoryIsOwn
    CameraCanBeStopped
    FramesInFlightBounded
    LoadStatsAddUp
PROPERTIES
    VisitsSettle
    DisplayCatchesUp
CHECK_DEADLOCK FALSE
