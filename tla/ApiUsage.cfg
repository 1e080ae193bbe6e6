SPECIFICATION Spec
CONSTANTS
    Calls = {c1, c2}
    Retention = 1
    MaxTime = 5
    MaxFaults = 0
INVARIANT TotalsStand
CHECK_DEADLOCK FALSE
