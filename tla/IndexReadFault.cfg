SPECIFICATION Spec
CONSTANTS
    Callers = {c1, c2}
    Ids = {a, b}
    Metas = {v1}
    NoMeta = NoMeta
    Faults = {"read", "write"}
INVARIANT NothingLost
