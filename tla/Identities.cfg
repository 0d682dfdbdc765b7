SPECIFICATION Spec
CONSTANTS
    Emails = {a, b}
    Idps = {google, github}
    Cap = 1
    Reqs = {r1, r2}
    MaxCodes = 1
    Faults = {"crash"}
    a = a
    b = b
    google = google
    github = github
    r1 = r1
    r2 = r2
SYMMETRY Symmetry
INVARIANTS TypeOK LockIsHeldInside CapHolds
PROPERTIES RequestsAreNotOverwritten OnlyStrangersAsk ApprovedIsAUser AccountsAreAtomic
