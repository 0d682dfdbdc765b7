SPECIFICATION Spec
CONSTANTS
    Clients = {c1}
    MaxVersion = 2
    Images = {0, 1, 2}
    Big = {1}
    Faults = {"crash", "bundle", "refuse", "read", "write", "class"}
    MayUpgrade = TRUE
INVARIANTS TypeOK CodeIsNotOlder Consistent
PROPERTIES OnlyForwards NothingReplacedByAccident RestartKeepsVersion
