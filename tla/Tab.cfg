SPECIFICATION FairSpec
CONSTANTS
    Socks = {s1, s2, s3}
    NoSock = NoSock
    Ids = {i1, i2, i3, i4}
    NoId = NoId
    Pods = {p1}
    First = {}
    Overlaps = FALSE
    Faults = {"drop", "dial", "reload", "restart", "late"}
    MaxFaults = 2
    MaxStops = 1
INVARIANTS TypeOK StartedIsServed OneConnectionEach
PROPERTY StreamComesBack
\* A tab that is not started has no handlers on its socket: when that drops
\* nobody notices, and START is never sent again.
CHECK_DEADLOCK FALSE
