SPECIFICATION FairSpec
CONSTANTS
    Msgs = {m1}
    Instances = {i1, i2, i3, i4}
    NoInstance = none
    ReplayMax = 2
    WireMax = 2
    Faults = {"close", "cut", "uninstall", "reload", "restart"}
    MaxFaults = 2
    SendsWhen = {"CONNECTED"}
    Answers = {"now"}
PROPERTIES ComesBack CutIsNoticed
