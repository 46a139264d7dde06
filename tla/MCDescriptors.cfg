\* Two base shells and one more process, each with one descriptor to open.
CONSTANTS
    Pids = {p1, p2, p3}
    Terms = {t1, t2}
    MAX_OPEN_FILES = 3
    TOTAL_NUM_DIR = 3
    file_type <- ADirectory
    FILE_LENGTH = 2
    TickPoints <- SafeTick
SPECIFICATION Spec
SYMMETRY Symmetry
INVARIANTS
    TypeOK
    StdOpen
    ReadsContinue
