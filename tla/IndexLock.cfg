SPECIFICATION FairSpec
CONSTANTS
    Callers = {c1, c2, c3}
    Ids = {a, b}
    Metas = {v1, v2}
    NoMeta = NoMeta
    Faults = {"write", "reject"}
INVARIANTS TypeOK OneInside NothingLost
PROPERTIES EveryCallSettles UpdatesAreAtomic
