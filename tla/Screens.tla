-------------------------------- MODULE Screens --------------------------------
(***************************************************************************)
(* What the three terminals promise to their programs and to the user:     *)
(* each has a screen of its own, a write to a screen changes that screen   *)
(* and no other, and choosing the terminal shown changes no screen.  A     *)
(* scroll moves the bytes of a screen within it, one by one, and what      *)
(* happens to the screens between taking a byte up and putting it down     *)
(* does not change the byte.                                               *)
(***************************************************************************)
CONSTANTS Terms, Cells, Values, NoByte, First

VARIABLES screen,   \* screen[t][x]: the content of cell x of terminal t's screen
          shown,    \* the terminal on the monitor
          byte      \* byte[t]: what terminal t's scroll has taken up, or NoByte

Init == /\ screen \in [Terms -> [Cells -> Values]]
        /\ shown = First
        /\ byte = [t \in Terms |-> NoByte]

Write(t, x, v) == /\ screen' = [screen EXCEPT ![t][x] = v]
                  /\ UNCHANGED <<shown, byte>>

TakeUp(t, y) == /\ byte' = [byte EXCEPT ![t] = screen[t][y]]
                /\ UNCHANGED <<screen, shown>>

PutDown(t, x) == /\ byte[t] # NoByte
                 /\ screen' = [screen EXCEPT ![t][x] = byte[t]]
                 /\ byte' = [byte EXCEPT ![t] = NoByte]
                 /\ UNCHANGED shown

Show(t) == /\ shown' = t
           /\ UNCHANGED <<screen, byte>>

Next == \/ \E t \in Terms, x \in Cells, v \in Values : Write(t, x, v)
        \/ \E t \in Terms, x \in Cells : TakeUp(t, x) \/ PutDown(t, x)
        \/ \E t \in Terms : Show(t)

Spec == Init /\ [][Next]_<<screen, shown, byte>>
=============================================================================
