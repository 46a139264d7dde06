-------------------------------- MODULE Scancodes --------------------------------
(***************************************************************************)
(* What keyboard_handler (keyboard.c) makes of the scancodes the keyboard  *)
(* sends: the flags of Shift, Ctrl, Alt and Caps Lock, and for every other *)
(* key an event.  The kinds of events are the actions of module Keyboard:  *)
(* TypeLetter (any character), TypeTab, TypeEnter, TypeBackspace,          *)
(* TypeCtrlL, CtrlC and Switch.                                            *)
(***************************************************************************)
EXTENDS Naturals, FiniteSets

CONSTANT Keys      \* the keys pressed, by the scancodes they send

\* The eighth bit of a scancode says that the key came up.
ASSUME KeysAssumption == Keys \subseteq 0 .. 127

UNKNOWN     == 0
ESCAPE      == 1
BACKSPACE   == 14
TAB         == 15
ENTER       == 28
LEFT_CTRL   == 29
L_PRESS     == 38
LEFT_SHIFT  == 42
C_PRESS     == 46
RIGHT_SHIFT == 54
KEYPAD      == 55
LEFT_ALT    == 56
CAPSLOCK    == 58
KEY_SIZE    == 59
F1          == 59
F3          == 61
Released(k) == k + 128
Shifts == {LEFT_SHIFT, RIGHT_SHIFT}
ShiftKeys == Shifts \cup {Released(k) : k \in Shifts}

VARIABLES
    shift_flag, ctrl_flag, alt_flag, capslock_flag, capital,
    event,       \* of the last scancode: [kind, key, capital]
    held,        \* the keys down
    locked,      \* whether Caps Lock's light would be on
    overlapped   \* both Shift keys have been down since neither was

flags == <<shift_flag, ctrl_flag, alt_flag, capslock_flag, capital>>
keys  == <<held, locked, overlapped>>
scan  == <<flags, event, keys>>

-----------------------------------------------------------------------------
\* Wrong versions of definitions below, which the properties tell apart from
\* the right ones.
ShiftToggles(k) == IF k \in ShiftKeys THEN 1 - shift_flag ELSE shift_flag

-----------------------------------------------------------------------------
NoEvent == [kind |-> "none", key |-> UNKNOWN, capital |-> 0]

ScanInit == /\ shift_flag = 0 /\ ctrl_flag = 0 /\ alt_flag = 0 /\ capslock_flag = 0
            /\ capital = 0
            /\ event = NoEvent
            /\ held = {} /\ locked = FALSE /\ overlapped = FALSE

\* check_function_key: the keys that set flags, and the flags they set.
OtherFunctionKeys == {LEFT_CTRL, LEFT_ALT, Released(LEFT_CTRL), Released(LEFT_ALT), CAPSLOCK, ESCAPE}

ShiftAfter(k) == IF k \in ShiftKeys THEN (IF k \in Shifts THEN 1 ELSE 0) ELSE shift_flag

check_function_key(k) ==
    /\ k \in ShiftKeys \cup OtherFunctionKeys
    /\ shift_flag' = ShiftAfter(k)
    /\ ctrl_flag' = CASE k = LEFT_CTRL -> 1 [] k = Released(LEFT_CTRL) -> 0 [] OTHER -> ctrl_flag
    /\ alt_flag' = CASE k = LEFT_ALT -> 1 [] k = Released(LEFT_ALT) -> 0 [] OTHER -> alt_flag
    /\ capslock_flag' = IF k = CAPSLOCK THEN 1 - capslock_flag ELSE capslock_flag
    /\ UNCHANGED capital
    /\ event' = NoEvent

\* The rows of letters, but for z and x (44 and 45).
IsLetter(k) == k \in (16 .. 25) \cup (30 .. 38) \cup (46 .. 50)

check_capital == IF shift_flag # capslock_flag THEN 1 ELSE 0
check_switch  == shift_flag

\* The branches of the handler, in their order.
Kind(k) == CASE k \in {UNKNOWN, KEYPAD}                    -> "none"
             [] alt_flag = 1 /\ k \in F1 .. F3             -> "switch"
             [] k >= KEY_SIZE                              -> "none"
             [] ctrl_flag = 1 /\ k = L_PRESS               -> "ctrl_l"
             [] ctrl_flag = 1 /\ k = C_PRESS               -> "ctrl_c"
             [] k = ENTER                                  -> "enter"
             [] k = BACKSPACE                              -> "backspace"
             [] k = TAB                                    -> "tab"
             [] OTHER                                      -> "letter"

Character(k) ==
    /\ k \notin ShiftKeys \cup OtherFunctionKeys
    /\ capital' = IF Kind(k) # "letter" THEN capital
                  ELSE IF IsLetter(k) THEN check_capital ELSE check_switch
    /\ event' = [kind |-> Kind(k), key |-> k, capital |-> capital']
    /\ UNCHANGED <<shift_flag, ctrl_flag, alt_flag, capslock_flag>>

keyboard_handler(k) == check_function_key(k) \/ Character(k)

(***************************************************************************)
(* The keyboard: a scancode when a key goes down, the same plus 128 when   *)
(* it comes up.                                                            *)
(***************************************************************************)
Overlap(down) == Shifts \subseteq down \/ (overlapped /\ Shifts \cap down # {})

Press(k) == /\ k \notin held
            /\ keyboard_handler(k)
            /\ held' = held \cup {k}
            /\ locked' = (locked # (k = CAPSLOCK))
            /\ overlapped' = Overlap(held')

\* A key held down repeats.  Caps Lock, whose repetition the handler takes for
\* another press, is not held that long.
Repeat(k) == /\ k \in held \ {CAPSLOCK}
             /\ keyboard_handler(k)
             /\ UNCHANGED <<held, locked>>
             /\ overlapped' = Overlap(held)

Release(k) == /\ k \in held
              /\ keyboard_handler(Released(k))
              /\ held' = held \ {k}
              /\ overlapped' = Overlap(held')
              /\ UNCHANGED locked

ScanNext == \E k \in Keys : Press(k) \/ Repeat(k) \/ Release(k)

ScanSpec == ScanInit /\ [][ScanNext]_scan

-----------------------------------------------------------------------------
\* After any sequence of keys the flags say what is held, and the last character
\* is the shifted one if Shift is held, or for a letter if exactly one of Shift and
\* Caps Lock is on; as long as the two Shift keys are not held together, for
\* releasing one of them clears the only flag.  z and x do not heed Caps Lock
\* (keyboard.c:215-338).
KeysFollowed ==
    LET shifted == held \cap Shifts # {} IN
    /\ ctrl_flag = 1 <=> LEFT_CTRL \in held
    /\ alt_flag = 1 <=> LEFT_ALT \in held
    /\ capslock_flag = 1 <=> locked
    /\ ~overlapped => (shift_flag = 1 <=> shifted)
    /\ ~overlapped /\ event.kind = "letter" =>
           (event.capital = 1 <=> IF IsLetter(event.key) THEN shifted # locked ELSE shifted)
=============================================================================
