CONSTANTS
    Pens <- PlainAndBright
    Renditions <- BoldOnBlue
    Sizes <- FewSizes
    Printed <- Filled
    MaxSteps = 3
    title1 = title1
    title2 = title2
    untitled = untitled
    Sessions = 2
    Window = 1
    MaxTokens = 4
    MaxTime = 2
    None = None
SPECIFICATION MCSpec
INVARIANTS TerminalInv ReproducesScreen KeysInv UnderstoodAsTyped
PROPERTIES BrowserFollows CopyFollows
CHECK_DEADLOCK FALSE
