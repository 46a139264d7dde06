\* Words of eight bits, names of two bytes, three directory entries, blocks of two
\* bytes, a buffer of three; all keys that set flags, a letter, z, a digit, and the keys of commands.
CONSTANTS
    WORD_BITS = 8
    MAX_FILENAME = 2
    TOTAL_NUM_DIR = 3
    DATA_BLOCK_SIZE = 2
    BUFSIZE = 3
    Keys = {1, 2, 15, 29, 42, 44, 46, 54, 55, 56, 58, 59}
SPECIFICATION Spec
INVARIANTS
    BlocksRight
    PrintsRight
    FilesRead
    CommandsReach
    ProgramsShow
    UserConfined
    KeysFollowed
