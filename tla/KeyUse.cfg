SPECIFICATION Spec
CONSTANTS
    u1 = u1
    u2 = u2
    u3 = u3
    g1 = g1
    g2 = g2
    User = {u1, u2, u3}
    Group = {g1, g2}
    Key <- MCKey
    Request <- MCRequest
    Starts <- MCStarts
    Margin = 1
    Horizon = 4
INVARIANT FoundFresh
 
INVARIANT Available
INVARIANT Agree
CHECK_DEADLOCK FALSE
