SPECIFICATION Spec
CONSTANTS
    Hooks = {h1}
    Names = {a, b}
    Tokens = {t1, t2, t3, t4}
    Faults = {"reorder", "lost", "crash"}
    MaxWrites = 2
SYMMETRY Symmetry
INVARIANTS TypeOK EveryConfigIsReached RevokedStaysDead
