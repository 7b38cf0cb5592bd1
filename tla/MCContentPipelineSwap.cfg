CONSTANTS
    t1 = t1
    t2 = t2
    c1 = c1
    c2 = c2
    s1 = s1
    s2 = s2
    Timeline <- MediaParts
    Claims <- AllClaims
    Spans <- AllSpans
    Worlds <- AllWorlds
    MaxRetries = 3
SPECIFICATION Spec
INVARIANT OfficialIsNotSwapped
CHECK_DEADLOCK FALSE
