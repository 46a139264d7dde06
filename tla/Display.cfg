\* The code's three terminals; two cells, so that scrolling can move one.
CONSTANTS
    TERM_COUNT = 3
    Cells = {c1, c2}
    Values = {blank, letter}
    NoByte = NoByte
SPECIFICATION Spec
INVARIANT
    OnePagePerTerminal
PROPERTY
    ThreeScreens
