\* A buffer of three: two characters and a newline fill it.
CONSTANTS
    TERM_COUNT = 2
    KB_BUFFER_SIZE = 3
    Letters = {a}
    Tab = a
    Newline = newline
    Nul = nul
    Sizes = {1, 3}
    MAX_KEYS <- MCMaxKeys
    MAX_UNDER = 1
SPECIFICATION FairSpec
INVARIANTS
    Faithful
    ReadsTheLine
PROPERTY
    ReadReturns
