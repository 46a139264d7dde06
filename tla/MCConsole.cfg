\* Two terminals with screens of two rows and two columns.
CONSTANTS
    TERM_COUNT = 2
    NUM_ROWS = 2
    NUM_COLS = 2
    BYTE = 2
    EchoPoints <- SafeEcho
SPECIFICATION Spec
INVARIANTS
    TypeOK
    

    
