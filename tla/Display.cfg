CONSTANTS
    None = None
    s1 = s1
    p1 = p1
    p2 = p2
    Sid = {s1}
    Process = {p1, p2}
    Size = {1, 2}
    DefaultSize = 1
    LaunchSize = 2
    Gap = 1
    Legacy <- OldDatabases
    MaxTime = 2
    MaxEvents = 1
    MaxKeys = 2
    MaxAdvance = 1
    Session = {p1, p2}
    Root = p1
    Debounce = 1
    Latency = 4
    MaxLines = 1
    MaxSync = 1
    MaxInput = 2
    Height = 3
    Scrollback = 3
    Wheel = 3
    MaxScrolled = 4
    MaxMouse = 4
    Parts = {"frames", "mouse"}
SPECIFICATION MCSpec
 
PROPERTY Redrawn
CHECK_DEADLOCK FALSE
