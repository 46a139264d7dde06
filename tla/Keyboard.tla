-------------------------------- MODULE Keyboard --------------------------------
(***************************************************************************)
(* Line editing: keyboard_handler (keyboard.c) writes the line of the      *)
(* displayed terminal, curr_term, and terminal_read (terminal.c) takes the *)
(* line of the scheduled one, active_term, when it is ended.  A key may    *)
(* come at any moment with interrupts on: before a read, while it waits,   *)
(* and between the end of the wait and the copy.  Keys arrive here already *)
(* decoded (module Scancodes); what they echo is module Console.           *)
(***************************************************************************)
EXTENDS Integers, Sequences

CONSTANTS
    TERM_COUNT, KB_BUFFER_SIZE,
    Letters, Tab, Newline, Nul,   \* characters
    Sizes,                        \* the values of nbytes
    MAX_KEYS,                     \* bound: num_char of terminal t, its value when
                                  \* a stray store makes it huge
    MAX_UNDER                     \* bound: how far before the buffer buf_idx goes

ASSUME CountAssumption == TERM_COUNT \in Nat \ {0}
ASSUME SizeAssumption  == KB_BUFFER_SIZE \in Nat /\ KB_BUFFER_SIZE >= 2
ASSUME CharAssumption  == Newline \notin Letters \cup {Tab, Nul}
ASSUME SizesAssumption == Sizes \subseteq 0 .. KB_BUFFER_SIZE   \* the loop stops there

Terms == 0 .. TERM_COUNT - 1
Chars == Letters \cup {Tab, Newline, Nul}
Cells == 0 .. KB_BUFFER_SIZE - 1

ASSUME BoundAssumption == MAX_KEYS \in [Terms -> Nat] /\ MAX_UNDER \in Nat

VARIABLES
    key_buffer, buf_idx, num_char,   \* fields of terms[t]
    enter_flag, read_flag,
    curr_term, active_term,
    pc,       \* where terminal t's program is: "user", or in terminal_read
    typed,    \* history: the text since terminal t's buffer was emptied
    clean     \* history: the buffer is in step with it (see Faithful)

line    == <<key_buffer, buf_idx, num_char>>
reading == <<read_flag, active_term, pc>>
vars    == <<line, enter_flag, reading, curr_term, typed, clean>>

t0 == curr_term

-----------------------------------------------------------------------------
\* Wrong versions of definitions below, which the properties tell apart from
\* the right ones.
KeepCount      == UNCHANGED num_char                        \* num_char = 0 missing
WakeScheduled  == enter_flag' = [enter_flag EXCEPT ![active_term] = 1]
CopyPast(t, n) == SubSeq([i \in 1 .. KB_BUFFER_SIZE |-> key_buffer[t][i - 1]], 1, n)

-----------------------------------------------------------------------------
\* terminal_init.
Init == /\ key_buffer = [t \in Terms |-> [i \in Cells |-> Nul]]
        /\ buf_idx = [t \in Terms |-> 0]
        /\ num_char = [t \in Terms |-> 0]
        /\ enter_flag = [t \in Terms |-> 0]
        /\ read_flag = 0
        /\ curr_term = 0 /\ active_term = 0
        /\ pc = [t \in Terms |-> "user"]
        /\ typed = [t \in Terms |-> <<>>]
        /\ clean = [t \in Terms |-> TRUE]

(***************************************************************************)
(* keyboard_handler.                                                       *)
(***************************************************************************)
Room(limit) == buf_idx[t0] < limit

\* The character is stored if there is room.  Before the buffer lie num_char and
\* buf_idx themselves (terminal.h:18-20): a store there changes no cell, and
\* leaves num_char huge.
Store(c, limit) ==
    /\ buf_idx' = IF Room(limit) THEN [buf_idx EXCEPT ![t0] = @ + 1] ELSE buf_idx
    /\ key_buffer' = IF Room(limit) /\ buf_idx[t0] >= 0
                     THEN [key_buffer EXCEPT ![t0][buf_idx[t0]] = c] ELSE key_buffer

Counted(k) == [num_char EXCEPT ![t0] = IF buf_idx[t0] < 0 THEN MAX_KEYS[t0] ELSE @ + k]

Edited(text, ok) == /\ clean' = [clean EXCEPT ![t0] = ok]
                    /\ typed' = [typed EXCEPT ![t0] = IF ok THEN text ELSE <<>>]

\* A printing key: past the end of the buffer it is echoed and counted only.
TypeLetter(c) == /\ num_char[t0] < MAX_KEYS[t0]
                 /\ Store(c, KB_BUFFER_SIZE - 1)
                 /\ num_char' = Counted(1)
                 /\ Edited(Append(typed[t0], c), clean[t0] /\ Room(KB_BUFFER_SIZE - 1))
                 /\ UNCHANGED <<enter_flag, reading, curr_term>>

\* One character in the buffer, but four to erase when it is full.
TypeTab == LET k == IF Room(KB_BUFFER_SIZE - 1) THEN 1 ELSE 4 IN
           /\ num_char[t0] + k <= MAX_KEYS[t0]
           /\ Store(Tab, KB_BUFFER_SIZE - 1)
           /\ num_char' = Counted(k)
           /\ Edited(Append(typed[t0], Tab), clean[t0] /\ Room(KB_BUFFER_SIZE - 1))
           /\ UNCHANGED <<enter_flag, reading, curr_term>>

NoneErasable  == num_char' = [num_char EXCEPT ![t0] = 0]
set_enter_flag == enter_flag' = [enter_flag EXCEPT ![t0] = 1]

TypeEnter == /\ Store(Newline, KB_BUFFER_SIZE)
             /\ NoneErasable
             /\ set_enter_flag
             /\ Edited(IF Room(KB_BUFFER_SIZE) THEN Append(typed[t0], Newline) ELSE typed[t0],
                       clean[t0])
             /\ UNCHANGED <<reading, curr_term>>

StepBack == buf_idx' = [buf_idx EXCEPT ![t0] = @ - 1]

TypeBackspace == /\ num_char[t0] > 0
                 /\ buf_idx[t0] > -MAX_UNDER
                 /\ StepBack
                 /\ num_char' = [num_char EXCEPT ![t0] = @ - 1]
                 /\ Edited(SubSeq(typed[t0], 1, Len(typed[t0]) - 1), clean[t0])
                 /\ UNCHANGED <<key_buffer, enter_flag, reading, curr_term>>

\* Ctrl-L: the line is dropped, or kept and out of reach of Backspace when some
\* program, of this terminal or of another, is in terminal_read.
TypeCtrlL == /\ NoneErasable
             /\ IF read_flag = 0
                THEN /\ buf_idx' = [buf_idx EXCEPT ![t0] = 0]
                     /\ Edited(<<>>, enter_flag[t0] = 0)
                ELSE UNCHANGED <<buf_idx, typed, clean>>
             /\ UNCHANGED <<key_buffer, enter_flag, reading, curr_term>>

\* Alt with F1, F2 or F3.
Switch(t) == /\ curr_term' = t
             /\ UNCHANGED <<line, enter_flag, reading, typed, clean>>

\* Ctrl-C ends the scheduled terminal's program, and read_flag is left as it is.
CtrlC == /\ pc' = [pc EXCEPT ![active_term] = "user"]
         /\ UNCHANGED <<line, enter_flag, read_flag, active_term, curr_term, typed, clean>>

(***************************************************************************)
(* terminal_read.                                                          *)
(***************************************************************************)
At(label)   == pc[active_term] = label
Goto(label) == pc' = [pc EXCEPT ![active_term] = label]

ReadStart == /\ At("user")
             /\ read_flag' = 1
             /\ Goto("wait")
             /\ UNCHANGED <<line, enter_flag, active_term, curr_term, typed, clean>>

\* The loop is left; interrupts are still on.
ReadWake == /\ At("wait") /\ enter_flag[active_term] = 1
            /\ Goto("copy")
            /\ UNCHANGED <<line, enter_flag, read_flag, active_term, curr_term, typed, clean>>

\* What the loop copies for nbytes = n: up to the first newline it finds.
Copied(t, n) ==
    LET count == CHOOSE k \in 0 .. n :
                     /\ k = n \/ (k > 0 /\ key_buffer[t][k - 1] = Newline)
                     /\ \A i \in 1 .. k - 1 : key_buffer[t][i - 1] # Newline
    IN [i \in 1 .. count |-> key_buffer[t][i - 1]]

ReadCopy(n) ==
    LET t == active_term IN
    /\ At("copy")
    /\ read_flag' = 0
    /\ enter_flag' = [enter_flag EXCEPT ![t] = 0]
    /\ buf_idx' = [buf_idx EXCEPT ![t] = 0]
    /\ key_buffer' = [key_buffer EXCEPT ![t] = [i \in Cells |-> IF i < n THEN Nul ELSE @[i]]]
    /\ Goto("user")
    /\ typed' = [typed EXCEPT ![t] = <<>>]
    /\ clean' = [clean EXCEPT ![t] = num_char[t] = 0]
    /\ UNCHANGED <<num_char, active_term, curr_term>>

Tick == /\ active_term' = (active_term + 1) % TERM_COUNT
        /\ UNCHANGED <<line, enter_flag, read_flag, pc, curr_term, typed, clean>>

Next == \/ \E c \in Letters : TypeLetter(c)
        \/ TypeTab \/ TypeEnter \/ TypeBackspace \/ TypeCtrlL \/ CtrlC
        \/ \E t \in Terms : Switch(t)
        \/ ReadStart \/ ReadWake \/ Tick
        \/ \E n \in Sizes : ReadCopy(n)

Spec == Init /\ [][Next]_vars

\* The PIT never stops, and a slice is time for many rounds of the loop.
FairSpec == /\ Spec
            /\ WF_vars(Tick)
            /\ \A t \in Terms : /\ SF_vars(active_term = t /\ ReadWake)
                                /\ SF_vars(active_term = t /\ \E n \in Sizes : ReadCopy(n))

-----------------------------------------------------------------------------
\* Every variable has its type.
TypeOK == /\ key_buffer \in [Terms -> [Cells -> Chars]]
          /\ buf_idx \in [Terms -> -MAX_UNDER .. KB_BUFFER_SIZE]
          /\ num_char \in [Terms -> Nat]
          /\ enter_flag \in [Terms -> 0 .. 1]
          /\ read_flag \in 0 .. 1
          /\ curr_term \in Terms /\ active_term \in Terms
          /\ pc \in [Terms -> {"user", "wait", "copy"}]
          /\ typed \in [Terms -> Seq(Chars)]
          /\ clean \in [Terms -> BOOLEAN]

\* Unless a line was longer than the buffer, was begun between an Enter and the
\* copy of the line before it, or was dropped by Ctrl-L after its Enter, the
\* buffer holds the text as edited, in whatever order keys, reads, switches and
\* ticks came (keyboard.c:169-232): every Backspace took the right character and
\* none reached a finished line.
Faithful == \A t \in Terms : clean[t] =>
                /\ buf_idx[t] = Len(typed[t])
                /\ \A i \in 1 .. Len(typed[t]) : key_buffer[t][i - 1] = typed[t][i]
                /\ enter_flag[t] = 1 <=> \E i \in 1 .. Len(typed[t]) : typed[t][i] = Newline

\* What a read then returns is the first line that was ended, cut to nbytes
\* (terminal.c:100-105), whatever was typed after its Enter.
ReadsTheLine ==
    \A t \in Terms : clean[t] /\ pc[t] = "copy" =>
        \A n \in Sizes :
            \E k \in 0 .. Len(typed[t]) :
                /\ Copied(t, n) = SubSeq(typed[t], 1, k)
                /\ \A i \in 1 .. k - 1 : typed[t][i] # Newline
                /\ k = n \/ (k < n /\ k > 0 /\ typed[t][k] = Newline)

\* A read that waits returns once a line is ended on its terminal, whichever
\* terminal is displayed or scheduled then (terminal.c:96, 163).
ReadReturns == \A t \in Terms :
    pc[t] = "wait" /\ clean[t] /\ (\E i \in 1 .. Len(typed[t]) : typed[t][i] = Newline)
        ~> pc[t] = "user"

\* The index of the next character stays inside the buffer, as the comments at
\* keyboard.c:205 and 211 take for granted.
IndexInBuffer == \A t \in Terms : buf_idx[t] \in 0 .. KB_BUFFER_SIZE
=============================================================================
