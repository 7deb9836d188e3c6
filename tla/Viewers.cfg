CONSTANTS
    None = None
    v1 = v1
    v2 = v2
    s1 = s1
    s2 = s2
    Viewer = {v1}
    Session = {s1, s2}
    First = s1
    MaxSize = 2
    Cap = 2
    MaxOutput = 1
    MaxConnects = 2
    MaxRequests = 1
    MaxLayouts = 2
SPECIFICATION FairSpec
INVARIANT TypeOK
PROPERTIES CatchesUp PanesFollow
CHECK_DEADLOCK FALSE
