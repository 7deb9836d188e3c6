\* Two reminders due close to each other, a waiting job whose interval is
\* longer than the idle threshold, and a refresh: events of one tick meet,
\* are deferred or dropped, and a reload renumbers the jobs.  Of two commands
\* the second meets what the first left in the server.
CONSTANTS
    None = None
    r1 = r1
    r2 = r2
    c1 = c1
    Reminder = {r1, r2}
    Delay <- Delays
    CronJob = {c1}
    Interval <- SlowJob
    Waits <- Wait
    Refresh = {q1}
    ClearDelay = 1
    FollowupDelay = 1
    Threshold = 1
    MaxTyped = 1
    MaxReloads = 1
    Session = {s1, s2}
    Root = s1
    ReadTimeout = 1
    LimitWait = 2
    WaitTimeout = 1
    MaxCommands = 2
SPECIFICATION MCSpec
INVARIANTS ScheduleInv CtlInv
PROPERTIES DeliveredInTurn AllServed CommandEnds
CHECK_DEADLOCK FALSE
