--------------------------------- MODULE Console ---------------------------------
(***************************************************************************)
(* Where characters go on a terminal's screen (lib.c): the cursor,         *)
(* scrolling, and the columns prev_x[y] at which rows were left, which     *)
(* Backspace returns to.  putc prints for the scheduled program and can be *)
(* interrupted between its statements; putc_keyboard echoes for the        *)
(* displayed terminal inside the keyboard interrupt, on the same cursor if *)
(* the two are one terminal.  Which page the byte lands on is Display.     *)
(***************************************************************************)
EXTENDS Integers, Sequences

CONSTANTS
    TERM_COUNT, NUM_ROWS, NUM_COLS,
    BYTE,            \* values of a register of the VGA (code: 256)
    EchoPoints       \* where a program may be in putc when a key is echoed over it

ASSUME CountAssumption == TERM_COUNT \in Nat \ {0}
ASSUME ScreenAssumption == NUM_ROWS \in Nat /\ NUM_ROWS >= 2 /\ NUM_COLS \in Nat /\ NUM_COLS >= 2
ASSUME ByteAssumption == BYTE \in Nat \ {0} /\ NUM_ROWS * NUM_COLS <= BYTE * BYTE

Terms  == 0 .. TERM_COUNT - 1
Rows   == 0 .. NUM_ROWS - 1
Cols   == 0 .. NUM_COLS - 1
Bottom == NUM_ROWS - 1
Chars  == {"letter", "newline", "return", "backspace"}
\* In update_cursor, with the position read: before each of the four outb.
Updating == {"lowindex", "low", "highindex", "high"}
Labels == {"idle", "save", "row", "down", "scroll", "home",
           "right", "left", "wrap", "up", "uprow", "cursor", "show"} \cup Updating

VARIABLES
    screen_x, screen_y, prev_x,   \* fields of terms[t]
    curr_term, active_term,
    index, crtc,                  \* the VGA: the register selected, the cursor registers
    at,                           \* where terminal t's program is in putc
    pos,                          \* its local pos in update_cursor
    returning,                    \* history: the terminals in a row break for '\r'
    overtaken,                    \* history: those whose pos is older than another update
    misplaced                     \* history: one of these has written since the last that was not

layout  == <<screen_x, screen_y, prev_x>>
cursor  == <<index, crtc, overtaken, misplaced>>
vars    == <<layout, curr_term, active_term, cursor, at, pos, returning>>

-----------------------------------------------------------------------------
\* Wrong versions of definitions below, which the properties tell apart from
\* the right ones.
EraseToEdge(s)    == IF s.x > 0 THEN [s EXCEPT !.x = @ - 1]
                     ELSE IF s.y > 0 THEN [s EXCEPT !.x = NUM_COLS - 1, !.y = @ - 1]
                     ELSE s
ScrollLate(t)     == screen_y[t] = NUM_ROWS
BeforeMoving(t)   == screen_y[t] * NUM_COLS + screen_x[t]

-----------------------------------------------------------------------------
Registers == {"low", "high"}
Bytes     == 0 .. BYTE - 1
Low(p)    == p % BYTE
High(p)   == (p \div BYTE) % BYTE

\* terminal_init; the cursor is wherever the boot loader left it.
Init == /\ screen_x = [t \in Terms |-> 0]
        /\ screen_y = [t \in Terms |-> 0]
        /\ prev_x = [t \in Terms |-> [y \in Rows |-> 0]]
        /\ curr_term = 0 /\ active_term = 0
        /\ index \in Registers /\ crtc \in [Registers -> Bytes]
        /\ at = [t \in Terms |-> "idle"]
        /\ pos = [t \in Terms |-> 0]
        /\ returning = {}
        /\ overtaken = {} /\ misplaced = TRUE

\* vertical_scroll and vertical_scroll_keyboard.
Scrolled(prev) == [y \in Rows |-> IF y = Bottom THEN 0 ELSE prev[y + 1]]

(***************************************************************************)
(* putc_keyboard, all at once, on s = [x, y, prev].                        *)
(***************************************************************************)
NewRow(s) == IF s.y = Bottom THEN [s EXCEPT !.x = 0, !.prev = Scrolled(@)]
             ELSE [s EXCEPT !.x = 0, !.y = @ + 1]

LineEnd(s) == NewRow([s EXCEPT !.prev[s.y] = s.x])

Erased(s) == IF s.x > 0 THEN [s EXCEPT !.x = @ - 1]
             ELSE IF s.y > 0 THEN [s EXCEPT !.x = s.prev[s.y - 1], !.y = @ - 1]
             ELSE s

putc_keyboard(s, c) ==
    CASE c = "newline"   -> LineEnd(s)
      [] c = "return"    -> NewRow(s)
      [] c = "backspace" -> Erased(s)
      [] c = "letter"    -> IF s.x = NUM_COLS - 1 THEN LineEnd(s) ELSE [s EXCEPT !.x = @ + 1]

Place(t) == [x |-> screen_x[t], y |-> screen_y[t], prev |-> prev_x[t]]

\* The position update_cursor_key sets, inside an interrupt: no putc comes between
\* its writes, but one whose position is read already writes it afterwards.
KeyPosition(t) == screen_y'[t] * NUM_COLS + screen_x'[t]

update_cursor_key(t) ==
    /\ index' = "high"
    /\ crtc' = [r \in Registers |-> IF r = "low" THEN Low(KeyPosition(t)) ELSE High(KeyPosition(t))]
    /\ overtaken' = overtaken \cup {u \in Terms : at[u] \in Updating}
    /\ misplaced' = FALSE

\* The keyboard has no carriage return.
Echo(c) == LET t == curr_term  s == putc_keyboard(Place(t), c) IN
           /\ at[t] \in EchoPoints
           /\ screen_x' = [screen_x EXCEPT ![t] = s.x]
           /\ screen_y' = [screen_y EXCEPT ![t] = s.y]
           /\ prev_x' = [prev_x EXCEPT ![t] = s.prev]
           /\ IF c = "backspace" /\ screen_x[t] = 0 /\ screen_y[t] = 0
              THEN UNCHANGED cursor ELSE update_cursor_key(t)
           /\ UNCHANGED <<curr_term, active_term, at, pos, returning>>

\* Ctrl-L: clear_key and reset_pos.
CtrlL == /\ at[curr_term] \in EchoPoints
         /\ screen_x' = [screen_x EXCEPT ![curr_term] = 0]
         /\ screen_y' = [screen_y EXCEPT ![curr_term] = 0]
         /\ update_cursor_key(curr_term)
         /\ UNCHANGED <<prev_x, curr_term, active_term, at, pos, returning>>

Switch(t) == /\ t # curr_term
             /\ curr_term' = t
             /\ UNCHANGED <<layout, active_term, at, pos, returning>>
             /\ update_cursor_key(t)

Tick == /\ active_term' = (active_term + 1) % TERM_COUNT
        /\ UNCHANGED <<layout, curr_term, cursor, at, pos, returning>>

(***************************************************************************)
(* putc, statement by statement.                                           *)
(***************************************************************************)
Step(from, to) == /\ at[active_term] = from
                  /\ at' = [at EXCEPT ![active_term] = to]
                  /\ returning' = IF from = "home" THEN returning \ {active_term} ELSE returning
                  /\ UNCHANGED <<curr_term, active_term>>

SetX(x) == screen_x' = [screen_x EXCEPT ![active_term] = x]
SetY(y) == screen_y' = [screen_y EXCEPT ![active_term] = y]
X == screen_x[active_term]
Y == screen_y[active_term]

PutNewline  == Step("idle", "save") /\ UNCHANGED <<layout, cursor, pos>>
PutReturn   == /\ at[active_term] = "idle"
               /\ at' = [at EXCEPT ![active_term] = "row"]
               /\ returning' = returning \cup {active_term}
               /\ UNCHANGED <<layout, curr_term, active_term, cursor, pos>>
PutLetter   == /\ Step("idle", IF X = NUM_COLS - 1 THEN "save" ELSE "right")
               /\ UNCHANGED <<layout, cursor, pos>>
PutBackspace == /\ <<X, Y>> # <<0, 0>>
                /\ Step("idle", IF X = 0 THEN "up" ELSE "left")
                /\ UNCHANGED <<layout, cursor, pos>>

SaveX == /\ Step("save", "row")
         /\ prev_x' = [prev_x EXCEPT ![active_term][Y] = X]
         /\ UNCHANGED <<screen_x, screen_y, cursor, pos>>

AtBottom(t) == screen_y[t] = Bottom

TestRow == /\ Step("row", IF AtBottom(active_term) THEN "scroll" ELSE "down")
           /\ UNCHANGED <<layout, cursor, pos>>

Down == Step("down", "home") /\ SetY(Y + 1) /\ UNCHANGED <<screen_x, prev_x, cursor, pos>>

vertical_scroll == /\ Step("scroll", "home")
                   /\ prev_x' = [prev_x EXCEPT ![active_term] = Scrolled(@)]
                   /\ UNCHANGED <<screen_x, screen_y, cursor, pos>>

Home == Step("home", "cursor") /\ SetX(0) /\ UNCHANGED <<screen_y, prev_x, cursor, pos>>

Right == Step("right", "wrap") /\ SetX(X + 1) /\ UNCHANGED <<screen_y, prev_x, cursor, pos>>
Left  == Step("left", "wrap") /\ SetX(X - 1) /\ UNCHANGED <<screen_y, prev_x, cursor, pos>>

\* The quotient of the reduced column is 0.
Wrap == /\ Step("wrap", "cursor")
        /\ SetX(IF X < 0 THEN X ELSE X % NUM_COLS) /\ SetY(Y % NUM_ROWS)
        /\ UNCHANGED <<prev_x, cursor, pos>>

Up == /\ Step("up", "uprow")
      /\ Y > 0
      /\ SetX(prev_x[active_term][Y - 1])
      /\ UNCHANGED <<screen_y, prev_x, cursor, pos>>
UpRow == Step("uprow", "cursor") /\ SetY(Y - 1) /\ UNCHANGED <<screen_x, prev_x, cursor, pos>>

TestShown == /\ Step("cursor", IF curr_term = active_term THEN "show" ELSE "idle")
             /\ UNCHANGED <<layout, cursor, pos>>

(***************************************************************************)
(* update_cursor, with interrupts on.  What is read is the position of the *)
(* scheduled terminal, which may no longer be the displayed one.           *)
(***************************************************************************)
Position(t) == screen_y[t] * NUM_COLS + screen_x[t]

update_cursor == /\ Step("show", "lowindex")
                 /\ pos' = [pos EXCEPT ![active_term] = Position(active_term)]
                 /\ overtaken' = IF active_term = curr_term THEN overtaken
                                 ELSE overtaken \cup {active_term}
                 /\ UNCHANGED <<layout, index, crtc, misplaced>>

\* A write overtakes the other updates on their way.
Overtakes == overtaken' = overtaken \cup {u \in Terms \ {active_term} : at[u] \in Updating}
Misplaces == misplaced' = (misplaced \/ active_term \in overtaken)

SelectsLow  == Step("lowindex", "low") /\ index' = "low" /\ UNCHANGED <<crtc, pos>>
WritesLow   == /\ Step("low", "highindex")
               /\ crtc' = [crtc EXCEPT ![index] = Low(pos[active_term])]
               /\ UNCHANGED <<index, pos>>
SelectsHigh == Step("highindex", "high") /\ index' = "high" /\ UNCHANGED <<crtc, pos>>

Outb == /\ SelectsLow \/ WritesLow \/ SelectsHigh
        /\ Overtakes /\ Misplaces
        /\ UNCHANGED layout

LastOutb == /\ Step("high", "idle")
            /\ crtc' = [crtc EXCEPT ![index] = High(pos[active_term])]
            /\ pos' = [pos EXCEPT ![active_term] = 0]
            /\ overtaken' = (overtaken \cup {u \in Terms : at[u] \in Updating}) \ {active_term}
            /\ misplaced' = (active_term \in overtaken)
            /\ UNCHANGED <<layout, index>>

putc == \/ PutNewline \/ PutReturn \/ PutLetter \/ PutBackspace
        \/ SaveX \/ TestRow \/ Down \/ vertical_scroll \/ Home
        \/ Right \/ Left \/ Wrap \/ Up \/ UpRow \/ TestShown
        \/ update_cursor \/ Outb \/ LastOutb

Next == \/ putc \/ CtrlL \/ Tick
        \/ \E c \in Chars \ {"return"} : Echo(c)
        \/ \E t \in Terms : Switch(t)

Spec == Init /\ [][Next]_vars

-----------------------------------------------------------------------------
\* The cursor of every terminal stays on its screen, and so does every column
\* Backspace may return to (lib.c:219-268).
OnScreen == /\ screen_x \in [Terms -> Cols]
            /\ screen_y \in [Terms -> Rows]
            /\ prev_x \in [Terms -> [Rows -> Cols]]

\* Every variable has its type.
TypeOK == /\ OnScreen
          /\ curr_term \in Terms /\ active_term \in Terms
          /\ index \in Registers /\ crtc \in [Registers -> Bytes]
          /\ at \in [Terms -> Labels] /\ pos \in [Terms -> 0 .. NUM_ROWS * NUM_COLS - 1]
          /\ returning \subseteq Terms /\ overtaken \subseteq Terms /\ misplaced \in BOOLEAN

\* In the middle of putc: the row break is done but for screen_x, or the step up
\* but for screen_y.
Column(t) == IF at[t] = "home" THEN 0 ELSE screen_x[t]
Row(t)    == IF at[t] = "uprow" THEN screen_y[t] - 1 ELSE screen_y[t]

Abstract == INSTANCE Layout WITH
                col  <- [t \in Terms |-> Column(t)],
                ends <- [t \in Terms |-> [i \in 1 .. Row(t) |-> prev_x[t][i - 1]]]

\* putc, statement by statement, and putc_keyboard keep one account of each
\* terminal's lines, and no terminal touches another's.
KeepsLayout == Abstract!Spec

\* Between two characters the hardware cursor is that of the displayed terminal, and
\* no register of it is torn, unless a key or another terminal came between the
\* position putc reads and its writes; then it is again from the next key, switch or
\* undisturbed character on (lib.c:270, 338, 401-407; terminal.c:194).
CursorShown == at[curr_term] = "idle" /\ ~misplaced =>
                   crtc["high"] * BYTE + crtc["low"] = Position(curr_term)
=============================================================================
