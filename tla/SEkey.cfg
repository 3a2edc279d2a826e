SPECIFICATION FairSpec
CONSTANTS
    u1 = u1
    u2 = u2
    g1 = g1
    g2 = g2
    k1 = k1
    Zombie = Zombie
    User <- MCUser
    Group <- MCGroup
    Key = {k1}
    Exclusive = TRUE
    Starts <- MCStarts
    MaxFaults = 1
INVARIANT WholeTables
INVARIANT InSync
INVARIANT Numbered
CHECK_DEADLOCK FALSE
PROPERTY Converges
