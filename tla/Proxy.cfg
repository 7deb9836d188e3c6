\* Two tool calls, a cancel and a live reload: the most a reload can break
\* is one connection with a failing write, so three connections are enough.
\* A process prints once; a second reload meets a session that was restored.
CONSTANTS
    None = None
    Request = {r1, r2}
    ToolCall = {r1, r2}
    MaxConn = 3
    MaxReloads = 1
    MaxCancels = 1
    MaxPrinted = 1
    MaxRestores = 2
    TermPolls = 2
    KillPolls = 2
SPECIFICATION MCSpec
INVARIANT OutsideInv
PROPERTIES CancelIsLater CallsEnd EndNoticed KilledEnd
CHECK_DEADLOCK FALSE
