\* Some of the unsafe points, and users who type before the terminals are up.
\* The machine may lose its way, and then stops: no deadlock check.
CONSTANTS
    PID_MAX = 2
    TERM_COUNT = 2
    EarlyTyping = TRUE
    TickPoints <- SomeTick
    KeyPoints <- SomeKey
SPECIFICATION Spec
INVARIANT
    TypeOK
CHECK_DEADLOCK FALSE
