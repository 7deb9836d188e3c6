\* Three ids for two places: a launch is refused, an id is used up, a place
\* is used again; one name, one reload, one foreground job.
CONSTANTS
    None = None
    Name = {n1}
    MaxSessions = 2
    MaxId = 3
    MaxReloads = 1
    MaxJobs = 1
SPECIFICATION FairSpec
INVARIANT WorkspaceInv
PROPERTIES OrderFollows ReloadKeepsSessions FollowsSessions
CHECK_DEADLOCK FALSE
