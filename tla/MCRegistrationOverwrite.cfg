SPECIFICATION Spec
CONSTANTS
    c1 = c1
    c2 = c2
    c3 = c3
    c4 = c4
    u1 = u1
    u2 = u2
    u3 = u3
    n1 = n1
    n2 = n2
    Calls <- FourCalls
    Users <- ThreeUsers
    Networks <- TwoNetworks
    Limit = 1
    MaxInFlight = 2
SYMMETRY AnyNames
CHECK_DEADLOCK FALSE
PROPERTIES
    OnlyRevokedOverwritten
