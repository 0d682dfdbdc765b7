SPECIFICATION Spec
CONSTANTS
    Socks = {s1, s2}
    NoSock = NoSock
    Ids = {i1, i2}
    NoId = NoId
    Pods = {p1, p2}
    First = {p1}
    Overlaps = FALSE
    Faults = {"drop"}
    MaxFaults = 1
    MaxStops = 0
INVARIANT PodsAreStreamed
CHECK_DEADLOCK FALSE
