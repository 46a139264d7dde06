--------------------------------- MODULE Layout ---------------------------------
(***************************************************************************)
(* What a terminal promises about the place of the next character: it is a *)
(* column of the last line, and the ends of the lines above are remembered *)
(* last in, first out, as many as the screen shows, so that Backspace can  *)
(* take back a line break as well as a character.                          *)
(***************************************************************************)
EXTENDS Naturals, Sequences, SequencesExt

CONSTANTS Terms, NUM_ROWS, NUM_COLS

VARIABLES col,        \* the column of terminal t's next character
          ends,       \* where its lines above were left, the last one last
          returning   \* the terminals whose next line break is a carriage return

Init == /\ col = [t \in Terms |-> 0]
        /\ ends = [t \in Terms |-> <<>>]
        /\ returning = {}

\* A line above the screen is forgotten.
Remembered(s) == IF Len(s) < NUM_ROWS THEN s ELSE Tail(s)

Break(t, x) == /\ ends' = [ends EXCEPT ![t] = Remembered(Append(@, x))]
               /\ col' = [col EXCEPT ![t] = 0]

Advance(t) == /\ col[t] < NUM_COLS - 1
              /\ col' = [col EXCEPT ![t] = @ + 1]
              /\ UNCHANGED ends

\* At the last column a character ends the line, elsewhere a newline does.
EndLine(t) == t \notin returning /\ Break(t, col[t])

\* A carriage return starts a line too and remembers some earlier column.
Return(t) == t \in returning /\ \E x \in 0 .. NUM_COLS - 1 : Break(t, x)

EraseInLine(t) == /\ col[t] > 0
                  /\ col' = [col EXCEPT ![t] = @ - 1]
                  /\ UNCHANGED ends

EraseBreak(t) == /\ col[t] = 0 /\ ends[t] # <<>>
                 /\ col' = [col EXCEPT ![t] = Last(ends[t])]
                 /\ ends' = [ends EXCEPT ![t] = Front(@)]

Clear(t) == /\ col' = [col EXCEPT ![t] = 0]
            /\ ends' = [ends EXCEPT ![t] = <<>>]

Edit(t) == \/ Advance(t) \/ EndLine(t) \/ Return(t)
           \/ EraseInLine(t) \/ EraseBreak(t) \/ Clear(t)

Next == \/ (\E t \in Terms : Edit(t)) /\ UNCHANGED returning
        \/ returning' \in SUBSET Terms /\ UNCHANGED <<col, ends>>

Spec == Init /\ [][Next]_<<col, ends, returning>>
=============================================================================
