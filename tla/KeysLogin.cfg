SPECIFICATION Spec
CONSTANTS
    admin = admin
    client = client
    v = v
    Ids = {k1, k2}
    Admins = {a1, a2}
    Clients = {}
    Settings <- LoggingIn
INVARIANT PermanentIsStored
\* Nobody has to ask for anything.
CHECK_DEADLOCK FALSE
