\* Three calls over two response codes, so that two share a code; a buffer for a
\* little less than two full requests.
SPECIFICATION SpecBoth
CONSTANTS
    c1 = c1
    c2 = c2
    c3 = c3
    headers = headers
    bodies = bodies
    Calls <- MCCalls
    Codes <- MCCodes
    None = None
    MaxUnsolicited = 1
    BL = 6
    MRR = 1
    Base = 1
    Req = 1
    MaxPerRequest = 3
    MaxTime = 7
    MaxServed = 6
CHECK_DEADLOCK FALSE
INVARIANTS
    ResolverIffPending
    PunctualCallsMatched
    RateBound
    ReplyIsSafe
PROPERTY
    CallsSettle
