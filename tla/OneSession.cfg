SPECIFICATION Spec
CONSTANTS
    None = None
    s1 = s1
    s2 = s2
    n1 = n1
    r1 = r1
    c1 = c1
    i1 = i1
    i2 = i2
    Session = {s1}
    Name = {}
    Owner <- MCOwner
    Rank <- MCRank
    Scheduled = {r1}
    Injected = {i1}
    Target <- ToOne
    Waits <- MCWaits
    Size <- MCSize
    ChunkBytes = 2
    RetryChecks = 2
    MaxInjections = 1
    MaxTyped = 1
    MaxDirect = 1
INVARIANTS TypeOK OnePlace
PROPERTIES OwnEnters ImplementsLifecycle
CHECK_DEADLOCK FALSE
