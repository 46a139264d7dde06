\* Two scancodes may wait; they may come at any time but before the 8259s are set up.
CONSTANTS
    MAX_SCANCODES = 2
    KeySteps = {"rtc_periodic", "rtc_register", "rtc_enable", "keyboard_init",
                "terminal_init", "pit_init", "sti", "kernel"}
SPECIFICATION FairSpec
INVARIANTS
    NoneHeldBack
    NoneLost
    TicksLast
PROPERTY
    EveryLineServed
