SPECIFICATION TrafficSpec
CONSTANTS
    Processes = {p1, p2}
    Keys = {k1, k2}
    Addresses = {a1}
    Calls = {t1}
    Last = Last
    MaxHits = 2
    MaxFaults = 1
    None = None
INVARIANT TrafficTypeOK
INVARIANT EveryRequestCounts
INVARIANT SeenIsKept
PROPERTY WrittenUnlessPutBack
CHECK_DEADLOCK FALSE
