\* Two terminals; counters from 1 to 4.
CONSTANTS
    TERM_COUNT = 2
    max_limit_freq = 8
    min_limit_freq = 2
    WORD = 9
    MAX_OPEN = 2
SPECIFICATION FairSpec
INVARIANTS
    CountersRun
    ReadWaits
PROPERTY
    ReadReturns
