\* The loop in halt that closes the descriptors, with no interrupt in a read.
CONSTANTS
    Pids = {p1, p2, p3}
    Terms = {t1, t2}
    MAX_OPEN_FILES = 3
    TOTAL_NUM_DIR = 3
    file_type <- ADirectory
    FILE_LENGTH = 2
    TickPoints <- SafeTick
SPECIFICATION Spec
PROPERTY
    OthersKeepTheirFiles
