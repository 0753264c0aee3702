SPECIFICATION FairLocationSpec
CONSTANTS
    Requesters = {t1, t2}
    Codes = {gps, enable, sms}
    RequestGps = gps
    EnableGps = enable
    Resolutions = {enable}
    Activities = {m1, m2}
    None = None
    Stale = Stale
    MaxCalls = 2
CHECK_DEADLOCK FALSE
INVARIANTS
    LocationInv
    WaiterWillBeAnswered
    UpdatesLast
PROPERTIES
    CallsReturn
