SPECIFICATION FairSpec
CONSTANTS
    admin = admin
    client = client
    v = v
    Ids = {k1, k2, v}
    Admins = {admin}
    Clients = {client}
    Settings <- SerialAndCrossed
INVARIANTS TypeOK NoKeyIsLost DeletedStaysGone CacheFollowsStore
PROPERTY InsistingIsEnough
\* Nobody has to ask for anything.
CHECK_DEADLOCK FALSE
