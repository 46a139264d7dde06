\* Two terminals and four process slots: chains of up to three processes.
CONSTANTS
    PID_MAX = 4
    TERM_COUNT = 2
    EarlyTyping = FALSE
    TickPoints <- SafeTick
    KeyPoints <- SafeKey
SPECIFICATION Spec
INVARIANTS
    ScheduledRuns
    UserContext
    StacksPrivate
    FrameReady
    ChainIntact
    BaseShells
PROPERTIES
    FreesOwn
    RefinesStacks
