\* Two terminals, each with a base shell, and one more process.
CONSTANTS
    PID_MAX = 3
    TERM_COUNT = 2
    EarlyTyping = FALSE
    TickPoints <- SafeTick
    KeyPoints <- SafeKey
SPECIFICATION FairSpec
PROPERTIES
    RoundRobin
    CallReturns
