CONSTANTS
    None = None
    w1 = w1
    Mark <- Texts
    Watcher = {w1}
    Pattern <- TwoMarks
    Height = 2
    ReadMax = 1
    Timeout = 1
    Threshold = 1
    MaxOutput = 2
    MaxFired = 2
    MaxReloads = 1
SPECIFICATION FairSpec
INVARIANT WatchInv
PROPERTIES OutputNoticed IdleMeansSilent
CHECK_DEADLOCK FALSE
