\* The three terminals of the code, and one more process.
CONSTANTS
    PID_MAX = 4
    TERM_COUNT = 3
    EarlyTyping = FALSE
    TickPoints <- SafeTick
    KeyPoints <- SafeKey
SPECIFICATION Spec
INVARIANTS
    ScheduledRuns
    StacksPrivate
