SPECIFICATION FairSpec
CONSTANTS
    None = None
    s1 = s1
    s2 = s2
    n1 = n1
    r1 = r1
    c1 = c1
    i1 = i1
    i2 = i2
    Session = {s1,s2}
    Name = {}
    Owner <- MCOwner
    Rank <- MCRank
    Scheduled = {r1,c1}
    Injected = {}
    Target <- ToOne
    Waits <- MCWaits
    Size <- ShortSize
    ChunkBytes = 1
    RetryChecks = 0
    MaxInjections = 1
    MaxTyped = 0
    MaxDirect = 0
INVARIANT OneTextAtATime
PROPERTY EventuallySettled
CHECK_DEADLOCK FALSE
