CONSTANTS
    None = None
    v1 = v1
    v2 = v2
    Sessions = 2
    Root = 1
    Viewer = {v1}
    MaxOutput = 1
    MaxConnects = 1
    MaxRequests = 2
    Token = {t0, t1, t2}
    Given = t0
    Password = pw
    Wrong = wr
    MaxStarts = 2
    MaxReloads = 1
SPECIFICATION MCSpec
INVARIANT ConsoleInv
PROPERTIES GetsInAndServed MovedByRequest ReloadKeepsAuth
CHECK_DEADLOCK FALSE
