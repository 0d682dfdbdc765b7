SPECIFICATION Spec
CONSTANTS
    Msgs = {m1, m2}
    Instances = {i1, i2, i3, i4}
    NoInstance = none
    ReplayMax = 1
    WireMax = 2
    Faults = {"close", "cut", "uninstall", "upgrade", "reload", "restart"}
    MaxFaults = 2
    SendsWhen = {"HANDSHAKING", "CONNECTED", "RECONNECTING"}
    Answers = {"now", "later"}
SYMMETRY Symmetry
INVARIANTS TypeOK ConnectedIsOperational NeverGivesUp CloseIsTerminal
PROPERTY Progression
