------------------------------ MODULE ConsoleProofs ------------------------------
(***************************************************************************)
(* The cursors, for any number of terminals and any size of the screen: no *)
(* cursor leaves its screen, the hardware cursor is the displayed          *)
(* terminal's unless an older position was written over it, and the lines  *)
(* of each terminal are those of Layout.  All on the condition under which *)
(* it is true: no key is echoed over a putc that is moving the same        *)
(* cursor.                                                                 *)
(***************************************************************************)
EXTENDS Console, TLAPS

SafePoints == EchoPoints \subseteq {"idle", "cursor", "show"} \cup Updating

Cells == 0 .. NUM_ROWS * NUM_COLS - 1

\* The part of TypeOK about the hardware cursor and the writes on their way to it.
DeviceTyped == /\ index \in Registers /\ crtc \in [Registers -> Bytes]
               /\ pos \in [Terms -> Cells]
               /\ overtaken \subseteq Terms /\ misplaced \in BOOLEAN

\* What putc has found out about the cursor and not yet used.
Midway(t) ==
    /\ at[t] = "right" => screen_x[t] < NUM_COLS - 1
    /\ at[t] = "left" => screen_x[t] > 0
    /\ at[t] = "up" => screen_x[t] = 0 /\ screen_y[t] > 0
    /\ at[t] = "uprow" => screen_y[t] > 0 /\ screen_x[t] = prev_x[t][screen_y[t] - 1]
    /\ at[t] = "save" => t \notin returning
    /\ at[t] \in {"row", "down", "scroll"} /\ t \notin returning =>
           prev_x[t][screen_y[t]] = screen_x[t]
    /\ at[t] = "down" => screen_y[t] < Bottom
    /\ at[t] = "scroll" => screen_y[t] = Bottom
    /\ t \in returning => at[t] \in {"row", "down", "scroll", "home"}

Inv == TypeOK /\ \A t \in Terms : Midway(t)

-----------------------------------------------------------------------------
\* The position of a cell of the screen, as the VGA counts them.
LEMMA CellTyped ==
    ASSUME NEW y \in Rows, NEW x \in Cols
    PROVE  y * NUM_COLS + x \in Cells
<1>1. y \in Nat /\ y <= NUM_ROWS - 1 /\ x \in Nat /\ x <= NUM_COLS - 1
  BY ScreenAssumption DEF Rows, Cols
<1>2. NUM_ROWS \in Nat /\ NUM_COLS \in Nat
  BY ScreenAssumption
<1>3. y * NUM_COLS <= (NUM_ROWS - 1) * NUM_COLS
  BY <1>1, <1>2
<1>4. (NUM_ROWS - 1) * NUM_COLS = NUM_ROWS * NUM_COLS - NUM_COLS
  BY <1>2
<1>5. y * NUM_COLS \in Nat /\ NUM_ROWS * NUM_COLS \in Nat
  BY <1>1, <1>2
<1> QED BY <1>1, <1>2, <1>3, <1>4, <1>5 DEF Cells

\* The screen has at least two rows and two columns.
LEMMA Sizes == /\ NUM_ROWS \in Nat /\ NUM_COLS \in Nat /\ NUM_ROWS >= 2 /\ NUM_COLS >= 2
               /\ 0 \in Rows /\ 0 \in Cols /\ Bottom \in Rows /\ NUM_COLS - 1 \in Cols
               /\ 0 \in Terms
BY ScreenAssumption, CountAssumption DEF Rows, Cols, Bottom, Terms

\* The remainders and quotients putc takes change nothing on the screen.
LEMMA Reduced == ASSUME NEW n \in Nat \ {0}, NEW x \in 0 .. n - 1 PROVE x % n = x
OBVIOUS

\* A column is its own remainder, as putc takes it (lib.c:266-267).
LEMMA ReducedColumn == ASSUME NEW x \in Cols PROVE x % NUM_COLS = x
<1>1. NUM_COLS \in Nat \ {0}
  BY ScreenAssumption
<1>2. x \in 0 .. NUM_COLS - 1
  BY DEF Cols
<1> QED BY <1>1, <1>2, Reduced

\* So is a row.
LEMMA ReducedRow == ASSUME NEW y \in Rows PROVE y % NUM_ROWS = y
<1>1. NUM_ROWS \in Nat \ {0}
  BY ScreenAssumption
<1>2. y \in 0 .. NUM_ROWS - 1
  BY DEF Rows
<1> QED BY <1>1, <1>2, Reduced

\* A place on the screen, and what every operation of the keyboard makes of it.
Places == [x : Cols, y : Rows, prev : [Rows -> Cols]]

\* A scroll leaves columns in prev_x (lib.c:349-391).
LEMMA ScrolledTyped == ASSUME NEW prev \in [Rows -> Cols] PROVE Scrolled(prev) \in [Rows -> Cols]
<1>1. ASSUME NEW y \in Rows, y # Bottom PROVE y + 1 \in Rows
  BY <1>1, ScreenAssumption DEF Rows, Bottom
<1> QED BY <1>1, Sizes DEF Scrolled

\* A new row, with or without a scroll, is on the screen.
LEMMA NewRowTyped == ASSUME NEW s \in Places PROVE NewRow(s) \in Places
<1>1. s.y # Bottom => s.y + 1 \in Rows
  BY ScreenAssumption DEF Rows, Bottom, Places
<1>2. Scrolled(s.prev) \in [Rows -> Cols]
  BY ScrolledTyped DEF Places
<1> QED BY <1>1, <1>2, Sizes DEF NewRow, Places

\* The echo of a key keeps cursor and prev_x on the screen (lib.c:282-340).
LEMMA KeyTyped == ASSUME NEW s \in Places, NEW c \in Chars PROVE putc_keyboard(s, c) \in Places
<1>1. LineEnd(s) \in Places
  <2>1. [s EXCEPT !.prev[s.y] = s.x] \in Places
    BY DEF Places
  <2> QED BY <2>1, NewRowTyped DEF LineEnd
<1>2. Erased(s) \in Places
  <2>1. s.x > 0 => s.x - 1 \in Cols
    BY ScreenAssumption DEF Places, Cols
  <2>2. s.y > 0 => s.y - 1 \in Rows
    BY ScreenAssumption DEF Places, Rows
  <2> QED BY <2>1, <2>2 DEF Erased, Places
<1>3. s.x # NUM_COLS - 1 => [s EXCEPT !.x = @ + 1] \in Places
  <2>1. s.x # NUM_COLS - 1 => s.x + 1 \in Cols
    BY ScreenAssumption DEF Places, Cols
  <2> QED BY <2>1 DEF Places
<1> QED BY <1>1, <1>2, <1>3, NewRowTyped DEF putc_keyboard, Chars

-----------------------------------------------------------------------------
\* The cleared screens satisfy the invariant.
LEMMA Initially == Init => Inv
<1> SUFFICES ASSUME Init PROVE Inv
  OBVIOUS
<1>1. 0 \in Cells
  BY Sizes, CellTyped
<1>2. TypeOK
  BY <1>1, Sizes DEF Init, TypeOK, OnScreen, Labels, Cells
<1>3. \A t \in Terms : Midway(t)
  BY DEF Init, Midway
<1> QED BY <1>2, <1>3 DEF Inv

\* A terminal that a step leaves alone.
LEMMA Elsewhere ==
    ASSUME Inv, NEW u \in Terms,
           screen_x'[u] = screen_x[u], screen_y'[u] = screen_y[u], prev_x'[u] = prev_x[u],
           at'[u] = at[u], u \in returning' <=> u \in returning
    PROVE  Midway(u)'
BY DEF Inv, Midway

\* A statement of putc: what it does to the scheduled terminal is all there is.
LEMMA Statement ==
    ASSUME Inv, OnScreen', DeviceTyped',
           UNCHANGED <<curr_term, active_term>>, at' \in [Terms -> Labels], returning' \subseteq Terms,
           \A u \in Terms \ {active_term} :
               /\ screen_x'[u] = screen_x[u] /\ screen_y'[u] = screen_y[u] /\ prev_x'[u] = prev_x[u]
               /\ at'[u] = at[u] /\ (u \in returning' <=> u \in returning),
           Midway(active_term)'
    PROVE  Inv'
<1>1. TypeOK'
  BY DEF Inv, TypeOK, DeviceTyped, Cells
<1>2. ASSUME NEW u \in Terms PROVE Midway(u)'
  <2>1. CASE u = active_term
    BY <2>1
  <2>2. CASE u # active_term
    BY <2>2, Elsewhere
  <2> QED BY <2>1, <2>2
<1> QED BY <1>1, <1>2 DEF Inv

\* Where a step of putc leads.
LEMMA StepTyped ==
    ASSUME Inv, NEW from, NEW to \in Labels, Step(from, to)
    PROVE  /\ at[active_term] = from /\ at'[active_term] = to /\ at' \in [Terms -> Labels]
           /\ returning' \subseteq Terms
           /\ UNCHANGED <<curr_term, active_term>> /\ active_term \in Terms
           /\ \A u \in Terms \ {active_term} : at'[u] = at[u] /\ (u \in returning' <=> u \in returning)
           /\ from # "home" => returning' = returning
           /\ from = "home" => active_term \notin returning'
<1>1. active_term \in Terms /\ at \in [Terms -> Labels] /\ returning \subseteq Terms
  BY DEF Inv, TypeOK
<1>2. at[active_term] = from /\ at' = [at EXCEPT ![active_term] = to]
  BY DEF Step
<1>3. returning' = IF from = "home" THEN returning \ {active_term} ELSE returning
  BY DEF Step
<1>4. UNCHANGED <<curr_term, active_term>>
  BY DEF Step
<1> QED BY <1>1, <1>2, <1>3, <1>4

\* A statement that only moves on.
LEMMA Moves ==
    ASSUME Inv, NEW from, NEW to \in Labels, Step(from, to), UNCHANGED <<layout, cursor, pos>>,
           Midway(active_term)'
    PROVE  Inv'
<1>1. OnScreen' /\ DeviceTyped'
  BY DEF Inv, TypeOK, OnScreen, layout, DeviceTyped, cursor, Cells
<1>2. \A u \in Terms : screen_x'[u] = screen_x[u] /\ screen_y'[u] = screen_y[u] /\ prev_x'[u] = prev_x[u]
  BY DEF layout
<1> QED BY <1>1, <1>2, StepTyped, Statement

\* The steps of putc that move the cursor keep the invariant.
LEMMA MovesInductive ==
    ASSUME Inv, PutNewline \/ PutReturn \/ PutLetter \/ PutBackspace \/ TestRow \/ TestShown
    PROVE  Inv'
<1>t. /\ active_term \in Terms /\ Midway(active_term) /\ X \in Cols /\ Y \in Rows
      /\ at \in [Terms -> Labels] /\ returning \subseteq Terms
  BY DEF Inv, TypeOK, OnScreen, X, Y
<1>1. CASE PutNewline
  <2>1. Step("idle", "save") /\ UNCHANGED <<layout, cursor, pos>> /\ "save" \in Labels
    BY <1>1 DEF PutNewline, Labels
  <2>2. Midway(active_term)'
    BY <1>t, <2>1, StepTyped DEF Midway, layout
  <2> QED BY <2>1, <2>2, Moves
<1>2. CASE PutReturn
  <2>1. /\ at' = [at EXCEPT ![active_term] = "row"] /\ returning' = returning \cup {active_term}
        /\ UNCHANGED <<layout, curr_term, active_term, cursor, pos>> /\ "row" \in Labels
    BY <1>2 DEF PutReturn, Labels
  <2>2. Midway(active_term)'
    BY <1>t, <2>1 DEF Midway, layout
  <2>3. OnScreen' /\ DeviceTyped'
    BY <2>1 DEF Inv, TypeOK, OnScreen, layout, DeviceTyped, cursor, Cells
  <2>4. \A u \in Terms \ {active_term} :
            /\ screen_x'[u] = screen_x[u] /\ screen_y'[u] = screen_y[u] /\ prev_x'[u] = prev_x[u]
            /\ at'[u] = at[u] /\ (u \in returning' <=> u \in returning)
    BY <1>t, <2>1 DEF layout
  <2>5. at' \in [Terms -> Labels] /\ returning' \subseteq Terms
    BY <1>t, <2>1
  <2> QED BY <2>1, <2>2, <2>3, <2>4, <2>5, Statement
<1>3. CASE PutLetter
  <2> DEFINE to == IF X = NUM_COLS - 1 THEN "save" ELSE "right"
  <2>1. Step("idle", to) /\ UNCHANGED <<layout, cursor, pos>> /\ to \in Labels
    BY <1>3 DEF PutLetter, Labels
  <2>2. to = "right" => X < NUM_COLS - 1
    BY <1>t, Sizes DEF Cols
  <2>3. Midway(active_term)'
    BY <1>t, <2>1, <2>2, StepTyped DEF Midway, layout, X
  <2> QED BY <2>1, <2>3, Moves
<1>4. CASE PutBackspace
  <2> DEFINE to == IF X = 0 THEN "up" ELSE "left"
  <2>1. Step("idle", to) /\ UNCHANGED <<layout, cursor, pos>> /\ to \in Labels
    BY <1>4 DEF PutBackspace, Labels
  <2>2. (to = "up" => X = 0 /\ Y > 0) /\ (to = "left" => X > 0)
    BY <1>4, <1>t, Sizes DEF PutBackspace, Cols, Rows
  <2>3. Midway(active_term)'
    BY <1>t, <2>1, <2>2, StepTyped DEF Midway, layout, X, Y
  <2> QED BY <2>1, <2>3, Moves
<1>5. CASE TestRow
  <2> DEFINE to == IF AtBottom(active_term) THEN "scroll" ELSE "down"
  <2>1. Step("row", to) /\ UNCHANGED <<layout, cursor, pos>> /\ to \in Labels
    BY <1>5 DEF TestRow, Labels
  <2>2. (to = "scroll" => Y = Bottom) /\ (to = "down" => Y < Bottom)
    BY <1>t, Sizes DEF AtBottom, Y, Rows, Bottom
  <2>3. Midway(active_term)'
    BY <1>t, <2>1, <2>2, StepTyped DEF Midway, layout, Y
  <2> QED BY <2>1, <2>3, Moves
<1>6. CASE TestShown
  <2> DEFINE to == IF curr_term = active_term THEN "show" ELSE "idle"
  <2>1. Step("cursor", to) /\ UNCHANGED <<layout, cursor, pos>> /\ to \in Labels
    BY <1>6 DEF TestShown, Labels
  <2>2. Midway(active_term)'
    BY <1>t, <2>1, StepTyped DEF Midway, layout
  <2> QED BY <2>1, <2>2, Moves
<1> QED BY <1>1, <1>2, <1>3, <1>4, <1>5, <1>6

\* A statement that changes one field of the scheduled terminal, or two.
LEMMA FieldsInductive ==
    ASSUME Inv, SaveX \/ Down \/ vertical_scroll \/ Home \/ Right \/ Left \/ Wrap \/ Up \/ UpRow
    PROVE  Inv'
<1> DEFINE t == active_term
<1>t. /\ t \in Terms /\ Midway(t) /\ X \in Cols /\ Y \in Rows /\ OnScreen
      /\ DeviceTyped
      /\ screen_x[t] = X /\ screen_y[t] = Y /\ prev_x[t] \in [Rows -> Cols]
  BY DEF Inv, TypeOK, OnScreen, X, Y, DeviceTyped, Cells
<1>s. ASSUME NEW from, NEW to \in Labels, Step(from, to), UNCHANGED <<cursor, pos>>,
             NEW x \in Cols, NEW y \in Rows, NEW prev \in [Rows -> Cols],
             screen_x' = [screen_x EXCEPT ![t] = x], screen_y' = [screen_y EXCEPT ![t] = y],
             prev_x' = [prev_x EXCEPT ![t] = prev],
             screen_x'[t] = x /\ screen_y'[t] = y /\ prev_x'[t] = prev => Midway(t)'
      PROVE  Inv'
  <2>1. OnScreen' /\ screen_x'[t] = x /\ screen_y'[t] = y /\ prev_x'[t] = prev
    BY <1>s, <1>t DEF OnScreen
  <2>2. \A u \in Terms \ {t} : /\ screen_x'[u] = screen_x[u] /\ screen_y'[u] = screen_y[u]
                              /\ prev_x'[u] = prev_x[u]
    BY <1>s, <1>t DEF OnScreen
  <2>3. DeviceTyped'
    BY <1>s, <1>t DEF DeviceTyped, cursor
  <2> QED BY <1>s, <2>1, <2>2, <2>3, StepTyped, Statement
<1>e. /\ screen_x = [screen_x EXCEPT ![t] = X] /\ screen_y = [screen_y EXCEPT ![t] = Y]
      /\ prev_x = [prev_x EXCEPT ![t] = prev_x[t]]
  BY <1>t DEF OnScreen
<1>1. CASE SaveX
  <2> DEFINE prev == [prev_x[t] EXCEPT ![Y] = X]
  <2>1. Step("save", "row") /\ "row" \in Labels /\ prev_x' = [prev_x EXCEPT ![t] = prev]
        /\ UNCHANGED <<screen_x, screen_y, cursor, pos>>
    BY <1>1, <1>t DEF SaveX, Labels, OnScreen
  <2>2. prev \in [Rows -> Cols] /\ prev[Y] = X
    BY <1>t
  <2>3. screen_x'[t] = X /\ screen_y'[t] = Y /\ prev_x'[t] = prev => Midway(t)'
    BY <1>t, <2>1, <2>2, StepTyped DEF Midway
  <2> QED BY <1>s, <1>e, <1>t, <2>1, <2>2, <2>3
<1>2. CASE Down
  <2>1. Step("down", "home") /\ "home" \in Labels /\ screen_y' = [screen_y EXCEPT ![t] = Y + 1]
        /\ UNCHANGED <<screen_x, prev_x, cursor, pos>>
    BY <1>2 DEF Down, SetY, Labels
  <2>2. Y + 1 \in Rows
    BY <1>t, <2>1, Sizes, StepTyped DEF Midway, Rows, Bottom
  <2>3. screen_x'[t] = X /\ screen_y'[t] = Y + 1 /\ prev_x'[t] = prev_x[t] => Midway(t)'
    BY <1>t, <2>1, StepTyped DEF Midway
  <2> QED BY <1>s, <1>e, <1>t, <2>1, <2>2, <2>3
<1>3. CASE vertical_scroll
  <2>1. Step("scroll", "home") /\ "home" \in Labels
        /\ prev_x' = [prev_x EXCEPT ![t] = Scrolled(prev_x[t])]
        /\ UNCHANGED <<screen_x, screen_y, cursor, pos>>
    BY <1>3 DEF vertical_scroll, Labels
  <2>2. Scrolled(prev_x[t]) \in [Rows -> Cols]
    BY <1>t, ScrolledTyped
  <2>3. screen_x'[t] = X /\ screen_y'[t] = Y /\ prev_x'[t] = Scrolled(prev_x[t]) => Midway(t)'
    BY <1>t, <2>1, StepTyped DEF Midway
  <2> QED BY <1>s, <1>e, <1>t, <2>1, <2>2, <2>3
<1>4. CASE Home
  <2>1. Step("home", "cursor") /\ "cursor" \in Labels /\ screen_x' = [screen_x EXCEPT ![t] = 0]
        /\ UNCHANGED <<screen_y, prev_x, cursor, pos>>
    BY <1>4 DEF Home, SetX, Labels
  <2>2. screen_x'[t] = 0 /\ screen_y'[t] = Y /\ prev_x'[t] = prev_x[t] => Midway(t)'
    BY <1>t, <2>1, StepTyped DEF Midway
  <2> QED BY <1>s, <1>e, <1>t, <2>1, <2>2, Sizes
<1>5. CASE Right
  <2>1. Step("right", "wrap") /\ "wrap" \in Labels /\ screen_x' = [screen_x EXCEPT ![t] = X + 1]
        /\ UNCHANGED <<screen_y, prev_x, cursor, pos>>
    BY <1>5 DEF Right, SetX, Labels
  <2>2. X + 1 \in Cols
    BY <1>t, <2>1, Sizes, StepTyped DEF Midway, Cols
  <2>3. screen_x'[t] = X + 1 /\ screen_y'[t] = Y /\ prev_x'[t] = prev_x[t] => Midway(t)'
    BY <1>t, <2>1, StepTyped DEF Midway
  <2> QED BY <1>s, <1>e, <1>t, <2>1, <2>2, <2>3
<1>6. CASE Left
  <2>1. Step("left", "wrap") /\ "wrap" \in Labels /\ screen_x' = [screen_x EXCEPT ![t] = X - 1]
        /\ UNCHANGED <<screen_y, prev_x, cursor, pos>>
    BY <1>6 DEF Left, SetX, Labels
  <2>2. X - 1 \in Cols
    BY <1>t, <2>1, Sizes, StepTyped DEF Midway, Cols
  <2>3. screen_x'[t] = X - 1 /\ screen_y'[t] = Y /\ prev_x'[t] = prev_x[t] => Midway(t)'
    BY <1>t, <2>1, StepTyped DEF Midway
  <2> QED BY <1>s, <1>e, <1>t, <2>1, <2>2, <2>3
<1>7. CASE Wrap
  <2>1. X % NUM_COLS = X /\ Y % NUM_ROWS = Y /\ ~(X < 0)
    <3>1. X % NUM_COLS = X
      BY <1>t, ReducedColumn
    <3>2. Y % NUM_ROWS = Y
      BY <1>t, ReducedRow
    <3>3. ~(X < 0)
      BY <1>t, Sizes DEF Cols
    <3> QED BY <3>1, <3>2, <3>3
  <2>2. Step("wrap", "cursor") /\ "cursor" \in Labels /\ screen_x' = [screen_x EXCEPT ![t] = X]
        /\ screen_y' = [screen_y EXCEPT ![t] = Y] /\ UNCHANGED <<prev_x, cursor, pos>>
    BY <1>7, <2>1 DEF Wrap, SetX, SetY, Labels
  <2>3. screen_x'[t] = X /\ screen_y'[t] = Y /\ prev_x'[t] = prev_x[t] => Midway(t)'
    BY <1>t, <2>2, StepTyped DEF Midway
  <2> QED BY <1>s, <1>e, <1>t, <2>2, <2>3
<1>8. CASE Up
  <2> DEFINE x == prev_x[t][Y - 1]
  <2>1. Step("up", "uprow") /\ "uprow" \in Labels /\ screen_x' = [screen_x EXCEPT ![t] = x]
        /\ UNCHANGED <<screen_y, prev_x, cursor, pos>>
    BY <1>8 DEF Up, SetX, Labels
  <2>2. Y > 0 /\ x \in Cols
    BY <1>8, <1>t, Sizes DEF Up, Rows
  <2>3. screen_x'[t] = x /\ screen_y'[t] = Y /\ prev_x'[t] = prev_x[t] => Midway(t)'
    BY <1>t, <2>1, <2>2, StepTyped DEF Midway
  <2> QED BY <1>s, <1>e, <1>t, <2>1, <2>2, <2>3
<1>9. CASE UpRow
  <2>1. Step("uprow", "cursor") /\ "cursor" \in Labels /\ screen_y' = [screen_y EXCEPT ![t] = Y - 1]
        /\ UNCHANGED <<screen_x, prev_x, cursor, pos>>
    BY <1>9 DEF UpRow, SetY, Labels
  <2>2. Y - 1 \in Rows
    BY <1>t, <2>1, Sizes, StepTyped DEF Midway, Rows
  <2>3. screen_x'[t] = X /\ screen_y'[t] = Y - 1 /\ prev_x'[t] = prev_x[t] => Midway(t)'
    BY <1>t, <2>1, StepTyped DEF Midway
  <2> QED BY <1>s, <1>e, <1>t, <2>1, <2>2, <2>3
<1> QED BY <1>1, <1>2, <1>3, <1>4, <1>5, <1>6, <1>7, <1>8, <1>9

\* What the registers of the VGA are given are bytes.
LEMMA BytesTyped == ASSUME NEW p \in Cells PROVE Low(p) \in Bytes /\ High(p) \in Bytes
<1>1. BYTE \in Nat \ {0} /\ p \in Int
  BY ByteAssumption, Sizes DEF Cells
<1>2. p \div BYTE \in Int
  BY <1>1
<1>3. ASSUME NEW n \in Int PROVE n % BYTE \in 0 .. BYTE - 1
  BY <1>1, <1>3
<1> QED BY <1>1, <1>2, <1>3 DEF Low, High, Bytes

\* update_cursor reads a cell and writes its bytes (lib.c:401-408).
LEMMA WritesInductive == ASSUME Inv, update_cursor \/ Outb \/ LastOutb PROVE Inv'
<1> DEFINE t == active_term
<1>t. t \in Terms /\ Midway(t) /\ OnScreen /\ DeviceTyped /\ pos[t] \in Cells
  BY DEF Inv, TypeOK, DeviceTyped, Cells
<1>b. Low(pos[t]) \in Bytes /\ High(pos[t]) \in Bytes
  BY <1>t, BytesTyped
<1>s. ASSUME NEW from \in {"show"} \cup Updating, NEW to \in {"idle"} \cup Updating,
             Step(from, to), UNCHANGED layout, DeviceTyped'
      PROVE  Inv'
  <2>1. to \in Labels
    BY DEF Labels
  <2>2. OnScreen' /\ Midway(t)'
    BY <1>s, <1>t, <2>1, StepTyped DEF OnScreen, Midway, layout, Updating
  <2>3. \A u \in Terms : screen_x'[u] = screen_x[u] /\ screen_y'[u] = screen_y[u] /\ prev_x'[u] = prev_x[u]
    BY <1>s DEF layout
  <2> QED BY <1>s, <2>1, <2>2, <2>3, StepTyped, Statement
<1>1. CASE update_cursor
  <2>1. Position(t) \in Cells
    BY <1>t, CellTyped DEF Position, OnScreen
  <2>2. pos' = [pos EXCEPT ![t] = Position(t)] /\ Step("show", "lowindex")
        /\ UNCHANGED <<layout, index, crtc, misplaced>> /\ overtaken' \subseteq Terms
    BY <1>1, <1>t DEF update_cursor, DeviceTyped
  <2>3. DeviceTyped'
    BY <1>t, <2>1, <2>2 DEF DeviceTyped
  <2> QED BY <1>s, <2>2, <2>3 DEF Updating
<1>2. CASE Outb
  <2>1. overtaken' \subseteq Terms /\ misplaced' \in BOOLEAN /\ UNCHANGED layout
    BY <1>2, <1>t DEF Outb, Overtakes, Misplaces, DeviceTyped
  <2>2. CASE SelectsLow
    BY <1>s, <1>t, <2>1, <2>2 DEF SelectsLow, DeviceTyped, Registers, Updating
  <2>3. CASE WritesLow
    BY <1>b, <1>s, <1>t, <2>1, <2>3 DEF WritesLow, DeviceTyped, Updating
  <2>4. CASE SelectsHigh
    BY <1>s, <1>t, <2>1, <2>4 DEF SelectsHigh, DeviceTyped, Registers, Updating
  <2> QED BY <1>2, <2>2, <2>3, <2>4 DEF Outb
<1>3. CASE LastOutb
  <2>1. 0 \in Cells
    BY Sizes, CellTyped
  <2>2. overtaken' \subseteq Terms /\ misplaced' \in BOOLEAN /\ UNCHANGED <<layout, index>>
        /\ Step("high", "idle")
        /\ pos' = [pos EXCEPT ![t] = 0] /\ crtc' = [crtc EXCEPT ![index] = High(pos[t])]
    BY <1>3, <1>t DEF LastOutb, DeviceTyped
  <2>3. DeviceTyped'
    BY <1>b, <1>t, <2>1, <2>2 DEF DeviceTyped
  <2> QED BY <1>s, <2>2, <2>3 DEF Updating
<1> QED BY <1>1, <1>2, <1>3

\* So does update_cursor_key.
LEMMA KeyWrites ==
    ASSUME Inv, OnScreen', NEW t \in Terms, update_cursor_key(t), UNCHANGED pos
    PROVE  DeviceTyped'
<1>1. KeyPosition(t) \in Cells
  BY CellTyped DEF KeyPosition, OnScreen
<1>2. Low(KeyPosition(t)) \in Bytes /\ High(KeyPosition(t)) \in Bytes
  BY <1>1, BytesTyped
<1>3. DeviceTyped
  BY DEF Inv, TypeOK, DeviceTyped, Cells
<1> QED BY <1>2, <1>3 DEF update_cursor_key, DeviceTyped, Registers

\* A key, a switch or a tick: the layout of the displayed terminal at most.
LEMMA OthersInductive ==
    ASSUME SafePoints, Inv,
           \/ UNCHANGED vars \/ CtrlL \/ Tick
           \/ (\E c \in Chars \ {"return"} : Echo(c)) \/ (\E t \in Terms : Switch(t))
    PROVE  Inv'
<1>t. /\ curr_term \in Terms /\ active_term \in Terms /\ OnScreen /\ at \in [Terms -> Labels]
      /\ returning \subseteq Terms /\ (\A t \in Terms : Midway(t))
      /\ DeviceTyped
  BY DEF Inv, TypeOK, DeviceTyped, Cells
<1>e. at[curr_term] \in EchoPoints => curr_term \notin returning
  BY <1>t DEF Midway, SafePoints, Updating
<1>1. CASE UNCHANGED vars
  BY <1>1, <1>t DEF vars, layout, Inv, TypeOK, OnScreen, Midway, cursor
<1>3. ASSUME at[curr_term] \in EchoPoints, UNCHANGED <<curr_term, active_term, at, pos, returning>>,
             NEW x \in Cols, NEW y \in Rows, NEW prev \in [Rows -> Cols],
             screen_x' = [screen_x EXCEPT ![curr_term] = x],
             screen_y' = [screen_y EXCEPT ![curr_term] = y],
             prev_x' = [prev_x EXCEPT ![curr_term] = prev],
             cursor' = cursor \/ update_cursor_key(curr_term)
      PROVE  Inv'
  <2>1. OnScreen'
    BY <1>t, <1>3 DEF OnScreen
  <2>2. DeviceTyped'
    <3>1. CASE cursor' = cursor
      BY <1>t, <1>3, <3>1 DEF DeviceTyped, cursor
    <3> QED BY <1>t, <1>3, <2>1, <3>1, KeyWrites
  <2>3. TypeOK'
    BY <1>t, <1>3, <2>1, <2>2 DEF TypeOK, DeviceTyped, Cells
  <2>4. ASSUME NEW u \in Terms PROVE Midway(u)'
    <3>1. CASE u = curr_term
      BY <1>t, <1>e, <1>3, <3>1 DEF Midway, SafePoints, Updating
    <3>2. CASE u # curr_term
      <4>1. screen_x'[u] = screen_x[u] /\ screen_y'[u] = screen_y[u] /\ prev_x'[u] = prev_x[u]
        BY <1>t, <1>3, <3>2 DEF OnScreen
      <4> QED BY <1>3, <4>1, Elsewhere
    <3> QED BY <3>1, <3>2
  <2> QED BY <2>3, <2>4 DEF Inv
<1>4. CASE CtrlL
  <2>1. /\ at[curr_term] \in EchoPoints /\ UNCHANGED <<prev_x, curr_term, active_term, at, pos, returning>>
        /\ screen_x' = [screen_x EXCEPT ![curr_term] = 0]
        /\ screen_y' = [screen_y EXCEPT ![curr_term] = 0]
        /\ update_cursor_key(curr_term)
    BY <1>4 DEF CtrlL
  <2>2. screen_y'[curr_term] = 0 /\ screen_x'[curr_term] = 0
    BY <1>t, <2>1 DEF OnScreen
  <2>3. prev_x' = [prev_x EXCEPT ![curr_term] = prev_x[curr_term]] /\ prev_x[curr_term] \in [Rows -> Cols]
    BY <1>t, <2>1 DEF OnScreen
  <2> QED BY <1>3, <2>1, <2>2, <2>3, Sizes
<1>5. ASSUME NEW c \in Chars \ {"return"}, Echo(c) PROVE Inv'
  <2> DEFINE s == putc_keyboard(Place(curr_term), c)
  <2>1. Place(curr_term) \in Places
    BY <1>t DEF Place, Places, OnScreen
  <2>2. s \in Places
    BY <2>1, KeyTyped
  <2>3. s.x \in Cols /\ s.y \in Rows /\ s.prev \in [Rows -> Cols]
    BY <2>2 DEF Places
  <2>4. /\ at[curr_term] \in EchoPoints /\ UNCHANGED <<curr_term, active_term, at, pos, returning>>
        /\ screen_x' = [screen_x EXCEPT ![curr_term] = s.x]
        /\ screen_y' = [screen_y EXCEPT ![curr_term] = s.y]
        /\ prev_x' = [prev_x EXCEPT ![curr_term] = s.prev]
        /\ cursor' = cursor \/ update_cursor_key(curr_term)
    BY <1>5 DEF Echo
  <2> HIDE DEF s
  <2> QED BY <1>3, <2>3, <2>4
<1>6. ASSUME NEW t \in Terms, Switch(t) PROVE Inv'
  <2>1. /\ curr_term' = t /\ UNCHANGED <<layout, active_term, at, pos, returning>>
        /\ update_cursor_key(t)
    BY <1>6 DEF Switch
  <2>2. OnScreen'
    BY <1>t, <2>1 DEF OnScreen, layout
  <2>3. DeviceTyped'
    BY <1>6, <2>1, <2>2, KeyWrites
  <2>4. TypeOK'
    BY <1>t, <1>6, <2>1, <2>2, <2>3 DEF TypeOK, DeviceTyped, Cells
  <2>5. \A u \in Terms : Midway(u)'
    BY <1>t, <2>1 DEF Midway, layout
  <2> QED BY <2>4, <2>5 DEF Inv
<1>7. CASE Tick
  <2>1. active_term' \in Terms /\ UNCHANGED <<layout, curr_term, cursor, at, pos, returning>>
    BY <1>7, <1>t, CountAssumption DEF Tick, Terms
  <2> QED BY <1>t, <2>1 DEF Inv, TypeOK, OnScreen, Midway, layout, cursor
<1> QED BY <1>1, <1>4, <1>5, <1>6, <1>7

\* Every step keeps the invariant.
LEMMA Inductive == SafePoints /\ Inv /\ [Next]_vars => Inv'
BY MovesInductive, FieldsInductive, WritesInductive, OthersInductive DEF Next, putc

\* No cursor, and no column that Backspace may return to, leaves its screen, of
\* whatever size, in every order of characters printed, keys, switches and ticks.
THEOREM Typed == ASSUME SafePoints PROVE Spec => []TypeOK
<1>1. Inv /\ [Next]_vars => Inv'
  BY Inductive
<1>2. Inv => TypeOK
  BY DEF Inv
<1> QED BY <1>1, <1>2, Initially, PTL DEF Spec

-----------------------------------------------------------------------------
\* The bytes of a cell put together again.
LEMMA Together == ASSUME NEW p \in Cells PROVE High(p) * BYTE + Low(p) = p
<1>1. BYTE \in Nat \ {0} /\ p \in Nat /\ p < BYTE * BYTE
  BY ByteAssumption, ScreenAssumption DEF Cells
<1>2. PICK r \in 0 .. BYTE - 1 : r = p % BYTE
  BY <1>1
<1>3. PICK q \in Int : q = p \div BYTE
  BY <1>1
<1>4. p = q * BYTE + r
  BY <1>1, <1>2, <1>3
<1>5. q >= 0
  <2> SUFFICES ASSUME q <= -1 PROVE FALSE
    OBVIOUS
  <2>1. (-1 - q) * BYTE >= 0
    BY <1>1
  <2>2. (-1 - q) * BYTE = -BYTE - q * BYTE
    BY <1>1
  <2> QED BY <1>1, <1>2, <1>4, <2>1, <2>2
<1>6. q < BYTE
  <2> SUFFICES ASSUME q >= BYTE PROVE FALSE
    BY <1>1
  <2>1. (q - BYTE) * BYTE >= 0
    BY <1>1
  <2>2. (q - BYTE) * BYTE = q * BYTE - BYTE * BYTE
    BY <1>1
  <2> QED BY <1>1, <1>2, <1>4, <2>1, <2>2
<1>7. q % BYTE = q
  <2>1. q \in 0 .. BYTE - 1
    BY <1>1, <1>5, <1>6
  <2> QED BY <1>1, <2>1, Reduced
<1>8. High(p) = q /\ Low(p) = r
  BY <1>2, <1>3, <1>7 DEF High, Low
<1> QED BY <1>4, <1>8

(***************************************************************************)
(* An update of the hardware cursor that nothing has come before since it  *)
(* read the position: the position is the one to show, and the registers   *)
(* are as far as it has come.                                              *)
(***************************************************************************)
Undisturbed(t) ==
    at[t] \in Updating /\ t \notin overtaken =>
        /\ t = curr_term /\ pos[t] = Position(t)
        /\ at[t] = "low" => index = "low"
        /\ at[t] = "high" => index = "high"
        /\ at[t] \in {"highindex", "high"} => crtc["low"] = Low(pos[t])

CursorInv == CursorShown /\ \A t \in Terms : Undisturbed(t)

\* What a key or a switch shows is the displayed terminal's position, and the
\* updates on their way are overtaken.
LEMMA KeyShows ==
    ASSUME OnScreen', update_cursor_key(curr_term'), curr_term' \in Terms, at' = at
    PROVE  CursorInv'
<1>1. KeyPosition(curr_term') \in Cells /\ KeyPosition(curr_term') = Position(curr_term)'
  BY CellTyped DEF KeyPosition, Position, OnScreen
<1>2. /\ crtc'["low"] = Low(KeyPosition(curr_term'))
      /\ crtc'["high"] = High(KeyPosition(curr_term'))
  BY DEF update_cursor_key, Registers
<1>3. CursorShown'
  BY <1>1, <1>2, Together DEF CursorShown
<1>4. \A t \in Terms : Undisturbed(t)'
  BY DEF Undisturbed, update_cursor_key
<1> QED BY <1>3, <1>4 DEF CursorInv

\* A step that leaves the device, the displayed terminal and the updates alone.
LEMMA Untouched ==
    ASSUME CursorInv, UNCHANGED <<cursor, pos, curr_term>>, curr_term \in Terms,
           \A t \in Terms \ {active_term} :
               at'[t] = at[t] /\ screen_x'[t] = screen_x[t] /\ screen_y'[t] = screen_y[t],
           at'[active_term] \notin Updating,
           at'[active_term] = "idle" => curr_term # active_term
    PROVE  CursorInv'
<1>1. CursorShown'
  BY DEF CursorInv, CursorShown, cursor, Position
<1>2. ASSUME NEW t \in Terms PROVE Undisturbed(t)'
  BY DEF CursorInv, Undisturbed, cursor, Position
<1> QED BY <1>1, <1>2 DEF CursorInv

\* Every step keeps the shown cursor where the displayed terminal left it.
LEMMA CursorInductive == Inv /\ CursorInv /\ [Next]_vars /\ OnScreen' => CursorInv'
<1> SUFFICES ASSUME Inv, CursorInv, [Next]_vars, OnScreen' PROVE CursorInv'
  OBVIOUS
<1>t. /\ curr_term \in Terms /\ active_term \in Terms /\ OnScreen /\ at \in [Terms -> Labels]
      /\ DeviceTyped
  BY DEF Inv, TypeOK, DeviceTyped, Cells
<1>1. CASE UNCHANGED vars \/ Tick
  <2>1. UNCHANGED <<screen_x, screen_y, curr_term, index, crtc, overtaken, misplaced, at, pos>>
    BY <1>1 DEF vars, Tick, layout, cursor
  <2> QED BY <2>1 DEF CursorInv, CursorShown, Undisturbed, Position
<1>2. CASE PutNewline \/ PutReturn \/ PutLetter \/ PutBackspace \/ TestRow \/ TestShown
  <2>1. /\ UNCHANGED <<layout, cursor, pos, curr_term>>
        /\ \A t \in Terms \ {active_term} : at'[t] = at[t]
        /\ at'[active_term] \notin Updating
        /\ at'[active_term] = "idle" => curr_term # active_term
    BY <1>2, <1>t DEF PutNewline, PutReturn, PutLetter, PutBackspace, TestRow, TestShown, Step,
                      Updating
  <2> QED BY <1>t, <2>1, Untouched DEF layout
<1>3. CASE SaveX \/ Down \/ vertical_scroll \/ Home \/ Right \/ Left \/ Wrap \/ Up \/ UpRow
  <2>1. /\ UNCHANGED <<cursor, pos, curr_term>> /\ at'[active_term] \notin {"idle"} \cup Updating
        /\ \A t \in Terms \ {active_term} :
               at'[t] = at[t] /\ screen_x'[t] = screen_x[t] /\ screen_y'[t] = screen_y[t]
    BY <1>3, <1>t DEF SaveX, Down, vertical_scroll, Home, Right, Left, Wrap, Up, UpRow, Step, SetX,
                      SetY, OnScreen, Updating
  <2> QED BY <1>t, <2>1, Untouched
<1>4. CASE update_cursor
  <2>1. /\ at[active_term] = "show" /\ at' = [at EXCEPT ![active_term] = "lowindex"]
        /\ UNCHANGED <<screen_x, screen_y, curr_term, index, crtc, misplaced>>
        /\ pos' = [pos EXCEPT ![active_term] = Position(active_term)]
        /\ overtaken \subseteq overtaken' /\ (active_term # curr_term => active_term \in overtaken')
    BY <1>4 DEF update_cursor, Step, layout
  <2>2. CursorShown'
    BY <1>t, <2>1 DEF CursorInv, CursorShown, Position
  <2>3. ASSUME NEW t \in Terms PROVE Undisturbed(t)'
    <3>1. CASE t = active_term
      BY <1>t, <2>1, <3>1 DEF Undisturbed, Position, DeviceTyped
    <3>2. CASE t # active_term
      BY <1>t, <2>1, <3>2 DEF CursorInv, Undisturbed, Position, DeviceTyped
    <3> QED BY <3>1, <3>2
  <2> QED BY <2>2, <2>3 DEF CursorInv
<1>5. ASSUME NEW from \in Updating, NEW to \in {"idle"} \cup Updating, Step(from, to), UNCHANGED layout,
             \A u \in Terms \ {active_term} : at[u] \in Updating => u \in overtaken',
             active_term \in overtaken => misplaced',
             misplaced /\ to # "idle" => misplaced',
             active_term \in overtaken => to = "idle" \/ active_term \in overtaken',
             \A u \in Terms \ {active_term} : pos'[u] = pos[u],
             Undisturbed(active_term)',
             to = "idle" /\ active_term \notin overtaken =>
                 crtc'["low"] = Low(Position(curr_term)) /\ crtc'["high"] = High(Position(curr_term))
      PROVE  CursorInv'
  <2>1. /\ at[active_term] = from /\ at' = [at EXCEPT ![active_term] = to]
        /\ UNCHANGED <<screen_x, screen_y, curr_term>>
    BY <1>5 DEF Step, layout
  <2>2. ASSUME NEW u \in Terms PROVE Undisturbed(u)'
    <3>1. CASE u # active_term
      <4>1. at'[u] = at[u]
        BY <1>t, <2>1, <3>1
      <4>2. at[u] \in Updating => u \in overtaken'
        BY <1>5, <3>1
      <4> QED BY <4>1, <4>2 DEF Undisturbed
    <3>2. CASE u = active_term
      <4>1. active_term' = active_term
        BY <1>5 DEF Step
      <4> QED BY <1>5, <3>2, <4>1 DEF Undisturbed, Position
    <3> QED BY <3>1, <3>2
  <2>3. CursorShown'
    <3> SUFFICES ASSUME at'[curr_term] = "idle", ~misplaced'
                 PROVE  crtc'["high"] * BYTE + crtc'["low"] = Position(curr_term)
      BY <2>1 DEF CursorShown, Position
    <3>1. active_term \notin overtaken /\ active_term = curr_term
      BY <1>5, <1>t, <2>1 DEF CursorInv, Undisturbed
    <3>2. to = "idle"
      BY <1>t, <2>1, <3>1
    <3>3. Position(curr_term) \in Cells
      BY <1>t, CellTyped DEF Position, OnScreen
    <3> QED BY <1>5, <3>1, <3>2, <3>3, Together
  <2> QED BY <2>2, <2>3 DEF CursorInv
<1>6. CASE Outb
  <2>1. /\ UNCHANGED layout /\ overtaken \subseteq overtaken'
        /\ overtaken' = overtaken \cup {u \in Terms \ {active_term} : at[u] \in Updating}
        /\ (misplaced \/ active_term \in overtaken => misplaced')
    BY <1>6 DEF Outb, Overtakes, Misplaces
  <2>2. Undisturbed(active_term)
    BY <1>t DEF CursorInv
  <2>3. CASE SelectsLow
    <3>1. Step("lowindex", "low") /\ index' = "low" /\ UNCHANGED <<crtc, pos>>
      BY <2>3 DEF SelectsLow
    <3>2. Undisturbed(active_term)'
      BY <1>t, <2>1, <2>2, <3>1 DEF Undisturbed, Step, layout, Position, Updating
    <3> QED BY <1>5, <2>1, <3>1, <3>2 DEF Updating
  <2>4. CASE WritesLow
    <3>1. Step("low", "highindex") /\ UNCHANGED <<index, pos>>
          /\ crtc' = [crtc EXCEPT ![index] = Low(pos[active_term])]
      BY <2>4 DEF WritesLow
    <3>2. Undisturbed(active_term)'
      BY <1>t, <2>1, <2>2, <3>1
         DEF Undisturbed, Step, layout, Position, Updating, DeviceTyped, Registers
    <3> QED BY <1>5, <2>1, <3>1, <3>2 DEF Updating
  <2>5. CASE SelectsHigh
    <3>1. Step("highindex", "high") /\ index' = "high" /\ UNCHANGED <<crtc, pos>>
      BY <2>5 DEF SelectsHigh
    <3>2. Undisturbed(active_term)'
      BY <1>t, <2>1, <2>2, <3>1 DEF Undisturbed, Step, layout, Position, Updating
    <3> QED BY <1>5, <2>1, <3>1, <3>2 DEF Updating
  <2> QED BY <1>6, <2>3, <2>4, <2>5 DEF Outb
<1>7. CASE LastOutb
  <2>1. /\ Step("high", "idle") /\ UNCHANGED <<layout, index>>
        /\ crtc' = [crtc EXCEPT ![index] = High(pos[active_term])]
        /\ pos' = [pos EXCEPT ![active_term] = 0]
        /\ overtaken' = (overtaken \cup {u \in Terms : at[u] \in Updating}) \ {active_term}
        /\ misplaced' = (active_term \in overtaken)
    BY <1>7 DEF LastOutb
  <2>2. at[active_term] = "high" /\ at'[active_term] = "idle" /\ Undisturbed(active_term)
    BY <1>t, <2>1 DEF Step, CursorInv
  <2>3. active_term \notin overtaken =>
            /\ crtc'["low"] = Low(Position(curr_term)) /\ crtc'["high"] = High(Position(curr_term))
    BY <1>t, <2>1, <2>2 DEF Undisturbed, Updating, DeviceTyped, Registers
  <2>4. Undisturbed(active_term)'
    BY <2>1, <2>2 DEF Undisturbed, Step, Updating
  <2>5. \A u \in Terms \ {active_term} : pos'[u] = pos[u] /\ (at[u] \in Updating => u \in overtaken')
    BY <1>t, <2>1 DEF DeviceTyped
  <2> QED BY <1>5, <2>1, <2>3, <2>4, <2>5 DEF Updating
<1>8. CASE CtrlL
  <2>1. update_cursor_key(curr_term) /\ curr_term' = curr_term /\ at' = at
    BY <1>8 DEF CtrlL
  <2> QED BY <1>t, <2>1, KeyShows
<1>9. ASSUME NEW c \in Chars \ {"return"}, Echo(c) PROVE CursorInv'
  <2>1. curr_term' = curr_term /\ at' = at /\ pos' = pos
    BY <1>9 DEF Echo
  <2>2. CASE update_cursor_key(curr_term)
    BY <1>t, <2>1, <2>2, KeyShows
  <2>3. CASE c = "backspace" /\ screen_x[curr_term] = 0 /\ screen_y[curr_term] = 0 /\ cursor' = cursor
    <3>1. putc_keyboard(Place(curr_term), c) = Place(curr_term)
      BY <2>3 DEF putc_keyboard, Erased, Place
    <3>2. screen_x' = screen_x /\ screen_y' = screen_y
      BY <1>9, <1>t, <3>1 DEF Echo, Place, OnScreen
    <3> QED BY <2>1, <2>3, <3>2 DEF CursorInv, CursorShown, Undisturbed, Position, cursor
  <2> QED BY <1>9, <2>2, <2>3 DEF Echo
<1>10. ASSUME NEW t \in Terms, Switch(t) PROVE CursorInv'
  BY <1>10, KeyShows DEF Switch
<1> QED BY <1>1, <1>2, <1>3, <1>4, <1>6, <1>7, <1>8, <1>9, <1>10 DEF Next, putc

\* Between two characters the hardware cursor is the displayed terminal's, in both
\* registers, whatever was interrupted where, unless a position that a key, a switch
\* or another update has overtaken was written over it; the next key, switch or
\* undisturbed character puts it right (lib.c:401-417).
THEOREM Shown == ASSUME SafePoints PROVE Spec => []CursorShown
<1>1. Init => Inv /\ CursorInv
  <2>1. Init => CursorInv
    BY DEF Init, CursorInv, CursorShown, Undisturbed, Updating
  <2> QED BY <2>1, Initially
<1>2. (Inv /\ CursorInv) /\ [Next]_vars => (Inv /\ CursorInv)'
  <2>1. Inv' => OnScreen'
    BY DEF Inv, TypeOK
  <2> QED BY <2>1, Inductive, CursorInductive
<1>3. CursorInv => CursorShown
  BY DEF CursorInv
<1> QED BY <1>1, <1>2, <1>3, PTL DEF Spec

-----------------------------------------------------------------------------
(***************************************************************************)
(* The layout: every statement of putc, and every key, is an edit of the   *)
(* lines of one terminal, or changes nothing that Layout shows.            *)
(***************************************************************************)
\* The first y columns that prev remembers, as Layout's ends.
Line(prev, y) == [i \in 1 .. y |-> prev[i - 1]]

columns  == [t \in Terms |-> Column(t)]
lineEnds == [t \in Terms |-> Line(prev_x[t], Row(t))]

\* A remembered line has the columns of the rows above y, in order.
LEMMA LineTyped ==
    ASSUME NEW prev \in [Rows -> Cols], NEW y \in Rows
    PROVE  /\ Line(prev, y) \in Seq(Cols) /\ Len(Line(prev, y)) = y
           /\ \A i \in 1 .. y : Line(prev, y)[i] = prev[i - 1]
<1>1. y \in Nat /\ \A i \in 1 .. y : i - 1 \in Rows
  BY ScreenAssumption DEF Rows
<1>2. Line(prev, y) \in [1 .. y -> Cols]
  BY <1>1 DEF Line
<1> QED BY <1>1, <1>2 DEF Line

\* What a row break does to the account: it is one line longer, or scrolled.
LEMMA LineBroken ==
    ASSUME NEW prev \in [Rows -> Cols], NEW y \in Rows
    PROVE  /\ y < Bottom =>
                Line(prev, y + 1) = Abstract!Remembered(Append(Line(prev, y), prev[y]))
           /\ y = Bottom =>
                Line(Scrolled(prev), y) = Abstract!Remembered(Append(Line(prev, y), prev[y]))
<1> DEFINE old == Line(prev, y)
           long == Append(old, prev[y])
<1>1. /\ y \in Nat /\ prev[y] \in Cols /\ old \in Seq(Cols) /\ Len(old) = y
      /\ \A i \in 1 .. y : old[i] = prev[i - 1]
  BY LineTyped, ScreenAssumption DEF Rows
<1> HIDE DEF old
<1>2. /\ long \in Seq(Cols) /\ Len(long) = y + 1
      /\ \A i \in 1 .. y + 1 : long[i] = prev[i - 1]
  BY <1>1
<1>3. ASSUME y < Bottom PROVE Line(prev, y + 1) = Abstract!Remembered(long)
  <2>1. y + 1 \in Rows /\ y + 1 < NUM_ROWS
    BY <1>3, ScreenAssumption DEF Rows, Bottom
  <2>2. Line(prev, y + 1) \in Seq(Cols) /\ Len(Line(prev, y + 1)) = y + 1
        /\ \A i \in 1 .. y + 1 : Line(prev, y + 1)[i] = prev[i - 1]
    BY <2>1, LineTyped
  <2> HIDE DEF long
  <2>3. Line(prev, y + 1) = long
    BY <1>1, <1>2, <2>2
  <2> QED BY <1>2, <2>1, <2>3 DEF Abstract!Remembered
<1>4. ASSUME y = Bottom PROVE Line(Scrolled(prev), y) = Abstract!Remembered(long)
  <2> HIDE DEF long
  <2>1. Abstract!Remembered(long) = Tail(long)
    BY <1>2, <1>4, ScreenAssumption DEF Abstract!Remembered, Bottom
  <2>2. Tail(long) \in Seq(Cols) /\ Len(Tail(long)) = y /\ \A i \in 1 .. y : Tail(long)[i] = prev[i]
    <3>1. long # <<>>
      BY <1>1, <1>2
    <3>2. Tail(long) \in Seq(Cols) /\ Len(Tail(long)) = y
      BY <1>1, <1>2, <3>1
    <3>3. \A i \in 1 .. y : Tail(long)[i] = long[i + 1]
      BY <1>1, <1>2, <3>1, <3>2
    <3>4. \A i \in 1 .. y : i + 1 \in 1 .. y + 1 /\ (i + 1) - 1 = i
      BY <1>1
    <3> QED BY <1>2, <3>2, <3>3, <3>4
  <2>3. /\ Line(Scrolled(prev), y) \in Seq(Cols) /\ Len(Line(Scrolled(prev), y)) = y
        /\ \A i \in 1 .. y : Line(Scrolled(prev), y)[i] = Scrolled(prev)[i - 1]
    BY ScrolledTyped, LineTyped
  <2>4. \A i \in 1 .. y : Scrolled(prev)[i - 1] = prev[i]
    BY <1>1, <1>4, ScreenAssumption DEF Scrolled, Rows, Bottom
  <2>5. Line(Scrolled(prev), y) = Tail(long)
    <3>1. \A i \in 1 .. y : Line(Scrolled(prev), y)[i] = Tail(long)[i]
      BY <2>2, <2>3, <2>4
    <3> DEFINE new == Line(Scrolled(prev), y)
               rest == Tail(long)
    <3>2. new \in Seq(Cols) /\ rest \in Seq(Cols) /\ Len(new) = Len(rest)
          /\ \A i \in 1 .. Len(new) : new[i] = rest[i]
      BY <2>2, <2>3, <3>1
    <3> HIDE DEF new, rest
    <3>3. new = rest
      BY <3>2
    <3> QED BY <3>3 DEF new, rest
  <2> QED BY <2>1, <2>5
<1> QED BY <1>3, <1>4 DEF old

\* The last line above, which Backspace takes back.
LEMMA LineTaken ==
    ASSUME NEW prev \in [Rows -> Cols], NEW y \in Rows, y > 0
    PROVE  /\ Line(prev, y) # <<>> /\ Abstract!Last(Line(prev, y)) = prev[y - 1]
           /\ Abstract!Front(Line(prev, y)) = Line(prev, y - 1)
<1>1. y \in Nat /\ y - 1 \in Rows /\ y - 1 \in Nat
  BY ScreenAssumption DEF Rows
<1>2. /\ Line(prev, y) \in Seq(Cols) /\ Len(Line(prev, y)) = y
      /\ \A i \in 1 .. y : Line(prev, y)[i] = prev[i - 1]
  BY LineTyped
<1>3. /\ Line(prev, y - 1) \in Seq(Cols) /\ Len(Line(prev, y - 1)) = y - 1
      /\ \A i \in 1 .. y - 1 : Line(prev, y - 1)[i] = prev[i - 1]
  BY <1>1, LineTyped
<1>4. Abstract!Front(Line(prev, y)) = [i \in 1 .. y - 1 |-> Line(prev, y)[i]]
  BY <1>1, <1>2 DEF Abstract!Front
<1>5. Abstract!Front(Line(prev, y)) = Line(prev, y - 1)
  <2>1. \A i \in 1 .. y - 1 : Line(prev, y)[i] = prev[i - 1]
    BY <1>1, <1>2
  <2>2. Line(prev, y - 1) = [i \in 1 .. y - 1 |-> prev[i - 1]]
    BY DEF Line
  <2> QED BY <1>4, <2>1, <2>2
<1> QED BY <1>1, <1>2, <1>5 DEF Abstract!Last

\* A later column of prev is no part of the account, nor is anything in an empty one.
LEMMA LineKept ==
    ASSUME NEW prev \in [Rows -> Cols], NEW y \in Rows, NEW x \in Cols
    PROVE  Line([prev EXCEPT ![y] = x], y) = Line(prev, y) /\ Line(prev, 0) = <<>>
<1>1. \A i \in 1 .. y : i - 1 \in Rows /\ i - 1 # y
  BY ScreenAssumption DEF Rows
<1>2. \A i \in 1 .. y : [prev EXCEPT ![y] = x][i - 1] = prev[i - 1]
  BY <1>1
<1> QED BY <1>2 DEF Line

\* A step that works on terminal t's fields makes c of its column and e of its lines.
LEMMA OneTerminal ==
    ASSUME NEW t \in Terms, NEW c, NEW e,
           \A u \in Terms \ {t} :
               /\ screen_x'[u] = screen_x[u] /\ screen_y'[u] = screen_y[u] /\ prev_x'[u] = prev_x[u]
               /\ at'[u] = at[u],
           c = IF at'[t] = "home" THEN 0 ELSE screen_x'[t],
           e = Line(prev_x'[t], IF at'[t] = "uprow" THEN screen_y'[t] - 1 ELSE screen_y'[t])
    PROVE  /\ columns' = [columns EXCEPT ![t] = c]
           /\ lineEnds' = [lineEnds EXCEPT ![t] = e]
BY DEF columns, lineEnds, Column, Row, Line

\* Such a step that leaves both as they were is not seen.
LEMMA NotSeen ==
    ASSUME NEW t \in Terms, columns' = [columns EXCEPT ![t] = columns[t]],
           lineEnds' = [lineEnds EXCEPT ![t] = lineEnds[t]]
    PROVE  UNCHANGED <<columns, lineEnds>>
BY DEF columns, lineEnds

\* The edits of Layout, in these terms.
LEMMA Advanced ==
    ASSUME NEW t \in Terms, UNCHANGED returning, columns[t] < NUM_COLS - 1,
           columns' = [columns EXCEPT ![t] = columns[t] + 1],
           lineEnds' = [lineEnds EXCEPT ![t] = lineEnds[t]]
    PROVE  Abstract!Next
<1>1. lineEnds' = lineEnds
  BY DEF lineEnds
<1>2. Abstract!Advance(t)
  BY <1>1 DEF Abstract!Advance, columns, lineEnds, Line
<1> QED BY <1>2 DEF Abstract!Next, Abstract!Edit

\* Backspace within a row is an erasure of the abstract layout.
LEMMA ErasedInLine ==
    ASSUME NEW t \in Terms, UNCHANGED returning, columns[t] > 0,
           columns' = [columns EXCEPT ![t] = columns[t] - 1],
           lineEnds' = [lineEnds EXCEPT ![t] = lineEnds[t]]
    PROVE  Abstract!Next
<1>1. lineEnds' = lineEnds
  BY DEF lineEnds
<1>2. Abstract!EraseInLine(t)
  BY <1>1 DEF Abstract!EraseInLine, columns, lineEnds, Line
<1> QED BY <1>2 DEF Abstract!Next, Abstract!Edit

\* Backspace at the start of a row goes back to the end of the row above.
LEMMA Taken ==
    ASSUME NEW t \in Terms, UNCHANGED returning,
           columns[t] = 0, lineEnds[t] # <<>>,
           columns' = [columns EXCEPT ![t] = Abstract!Last(lineEnds[t])],
           lineEnds' = [lineEnds EXCEPT ![t] = Abstract!Front(lineEnds[t])]
    PROVE  Abstract!Next
<1>1. Abstract!EraseBreak(t)
  BY DEF Abstract!EraseBreak, columns, lineEnds, Line
<1> QED BY <1>1 DEF Abstract!Next, Abstract!Edit

\* A cleared screen is an empty layout.
LEMMA Emptied ==
    ASSUME NEW t \in Terms, UNCHANGED returning,
           columns' = [columns EXCEPT ![t] = 0], lineEnds' = [lineEnds EXCEPT ![t] = <<>>]
    PROVE  Abstract!Next
<1>1. Abstract!Clear(t)
  BY DEF Abstract!Clear, columns, lineEnds, Line
<1> QED BY <1>1 DEF Abstract!Next, Abstract!Edit

\* A row break ends the line at the column it was left at.
LEMMA Broken ==
    ASSUME NEW t \in Terms, NEW x \in Cols, UNCHANGED returning, t \notin returning => x = columns[t],
           columns' = [columns EXCEPT ![t] = 0],
           lineEnds' = [lineEnds EXCEPT ![t] = Abstract!Remembered(Append(lineEnds[t], x))]
    PROVE  Abstract!Next
<1>1. Abstract!Break(t, x)
  BY DEF Abstract!Break, columns, lineEnds, Line
<1>2. CASE t \in returning
  <2>1. Abstract!Return(t)
    BY <1>1, <1>2 DEF Abstract!Return, Cols
  <2> QED BY <2>1 DEF Abstract!Next, Abstract!Edit
<1>3. CASE t \notin returning
  <2>1. Abstract!Break(t, columns[t])
    BY <1>3 DEF Abstract!Break, columns, lineEnds, Line
  <2>2. Abstract!EndLine(t)
    BY <1>3, <2>1 DEF Abstract!EndLine, columns
  <2> QED BY <2>2 DEF Abstract!Next, Abstract!Edit
<1> QED BY <1>2, <1>3

-----------------------------------------------------------------------------
\* What Layout sees of a statement of putc.
LEMMA PutcRefines ==
    ASSUME Inv, putc
    PROVE  \/ Abstract!Next
           \/ UNCHANGED <<columns, lineEnds, returning>>
<1> DEFINE t == active_term
           prev == prev_x[t]
<1>t. /\ t \in Terms /\ Midway(t) /\ X \in Cols /\ Y \in Rows /\ OnScreen
      /\ prev \in [Rows -> Cols] /\ screen_x[t] = X /\ screen_y[t] = Y
      /\ at \in [Terms -> Labels] /\ returning \subseteq Terms
  BY DEF Inv, TypeOK, OnScreen, X, Y
\* The account before the step.
<1>b. /\ at[t] # "home" => columns[t] = X
      /\ at[t] = "home" => columns[t] = 0
      /\ at[t] # "uprow" => lineEnds[t] = Line(prev, Y)
      /\ at[t] = "uprow" => lineEnds[t] = Line(prev, Y - 1)
  BY <1>t DEF columns, lineEnds, Column, Row
\* A step from one label to another.
<1>f. UNCHANGED layout => /\ screen_x'[t] = X /\ screen_y'[t] = Y /\ prev_x'[t] = prev
                          /\ \A u \in Terms \ {t} : /\ screen_x'[u] = screen_x[u]
                                                    /\ screen_y'[u] = screen_y[u]
                                                    /\ prev_x'[u] = prev_x[u]
  BY <1>t DEF layout
<1>s. ASSUME NEW from, NEW to \in Labels, Step(from, to),
             \A u \in Terms \ {t} : /\ screen_x'[u] = screen_x[u] /\ screen_y'[u] = screen_y[u]
                                    /\ prev_x'[u] = prev_x[u]
      PROVE  /\ columns' = [columns EXCEPT ![t] = IF to = "home" THEN 0 ELSE screen_x'[t]]
             /\ lineEnds' = [lineEnds EXCEPT ![t] =
                   Line(prev_x'[t], IF to = "uprow" THEN screen_y'[t] - 1 ELSE screen_y'[t])]
             /\ at[t] = from /\ (from # "home" => returning' = returning)
             /\ returning' \subseteq Terms
  <2>1. /\ at'[t] = to /\ \A u \in Terms \ {t} : at'[u] = at[u]
        /\ at[t] = from /\ (from # "home" => returning' = returning)
        /\ returning' \subseteq Terms
    BY <1>s, StepTyped
  <2> QED BY <1>s, <1>t, <2>1, OneTerminal
\* A step that only moves on, neither to nor from the labels that stand for half a break.
<1>m. ASSUME NEW from, NEW to \in Labels, Step(from, to), UNCHANGED layout,
             from \notin {"home", "uprow"}, to \notin {"home", "uprow"}
      PROVE  UNCHANGED <<columns, lineEnds, returning>>
  <2>1. /\ columns' = [columns EXCEPT ![t] = X]
        /\ lineEnds' = [lineEnds EXCEPT ![t] = Line(prev, Y)]
    BY <1>m, <1>f, <1>s
  <2>2. at[t] = from /\ returning' = returning
    BY <1>m, StepTyped
  <2> QED BY <1>b, <1>m, <1>t, <2>1, <2>2, NotSeen
<1>1. CASE PutNewline
  BY <1>1, <1>m DEF PutNewline, Labels
<1>2. CASE PutReturn
  <2>1. /\ at[t] = "idle" /\ at' = [at EXCEPT ![t] = "row"]
        /\ UNCHANGED layout /\ returning' = returning \cup {t}
    BY <1>2 DEF PutReturn
  <2>2. \A u \in Terms : /\ screen_x'[u] = screen_x[u] /\ screen_y'[u] = screen_y[u]
                         /\ prev_x'[u] = prev_x[u]
    BY <2>1 DEF layout
  <2>3. /\ columns' = [columns EXCEPT ![t] = X]
        /\ lineEnds' = [lineEnds EXCEPT ![t] = Line(prev, Y)]
    BY <1>t, <2>1, <2>2, OneTerminal
  <2>4. UNCHANGED <<columns, lineEnds>>
    BY <1>b, <1>t, <2>1, <2>3, NotSeen
  <2> QED BY <1>t, <2>1, <2>4 DEF Abstract!Next, columns, lineEnds, Line
<1>3. CASE PutLetter \/ PutBackspace \/ TestRow \/ TestShown
  BY <1>3, <1>m DEF PutLetter, PutBackspace, TestRow, TestShown, Labels
<1>4. CASE SaveX
  <2>1. /\ Step("save", "row") /\ prev_x' = [prev_x EXCEPT ![t] = [prev EXCEPT ![Y] = X]]
        /\ UNCHANGED <<screen_x, screen_y, cursor, pos>>
    BY <1>4, <1>t DEF SaveX, OnScreen
  <2>2. /\ columns' = [columns EXCEPT ![t] = X]
        /\ lineEnds' = [lineEnds EXCEPT ![t] = Line([prev EXCEPT ![Y] = X], Y)]
    <3>1. /\ "row" \in Labels /\ screen_x'[t] = X /\ screen_y'[t] = Y /\ prev_x'[t] = [prev EXCEPT ![Y] = X]
          /\ \A u \in Terms \ {t} : /\ screen_x'[u] = screen_x[u] /\ screen_y'[u] = screen_y[u]
                                  /\ prev_x'[u] = prev_x[u]
      BY <1>t, <2>1 DEF Labels, OnScreen
    <3> QED BY <1>s, <2>1, <3>1
  <2>3. Line([prev EXCEPT ![Y] = X], Y) = Line(prev, Y)
    BY <1>t, LineKept
  <2>4. at[t] = "save" /\ returning' = returning
    BY <2>1, StepTyped DEF Labels
  <2> QED BY <1>b, <1>t, <2>2, <2>3, <2>4, NotSeen
\* The break itself: EndLine, or Return after a carriage return.
<1>5. ASSUME at[t] \in {"down", "scroll"}, returning' = returning,
             columns' = [columns EXCEPT ![t] = 0],
             lineEnds' = [lineEnds EXCEPT ![t] =
                             Abstract!Remembered(Append(Line(prev, Y), prev[Y]))]
      PROVE  Abstract!Next
  <2>1. columns[t] = X /\ lineEnds[t] = Line(prev, Y) /\ prev[Y] \in Cols
    BY <1>b, <1>t, <1>5
  <2>2. t \notin returning => prev[Y] = columns[t]
    BY <1>5, <1>t, <2>1 DEF Midway
  <2> QED BY <1>5, <1>t, <2>1, <2>2, Broken
<1>6. CASE Down
  <2>1. /\ Step("down", "home") /\ screen_y' = [screen_y EXCEPT ![t] = Y + 1]
        /\ UNCHANGED <<screen_x, prev_x, cursor, pos>>
    BY <1>6 DEF Down, SetY
  <2>2. at[t] = "down" /\ returning' = returning
    BY <2>1, StepTyped DEF Labels
  <2>3. /\ columns' = [columns EXCEPT ![t] = 0]
        /\ lineEnds' = [lineEnds EXCEPT ![t] = Line(prev, Y + 1)]
    <3>1. /\ "home" \in Labels /\ screen_x'[t] = X /\ screen_y'[t] = Y + 1 /\ prev_x'[t] = prev
          /\ \A u \in Terms \ {t} : /\ screen_x'[u] = screen_x[u] /\ screen_y'[u] = screen_y[u]
                                  /\ prev_x'[u] = prev_x[u]
      BY <1>t, <2>1 DEF Labels, OnScreen
    <3> QED BY <1>s, <2>1, <3>1
  <2>4. Line(prev, Y + 1) = Abstract!Remembered(Append(Line(prev, Y), prev[Y]))
    BY <1>t, <2>2, LineBroken DEF Midway
  <2> QED BY <1>5, <2>2, <2>3, <2>4
<1>7. CASE vertical_scroll
  <2>1. /\ Step("scroll", "home") /\ prev_x' = [prev_x EXCEPT ![t] = Scrolled(prev)]
        /\ UNCHANGED <<screen_x, screen_y, cursor, pos>>
    BY <1>7 DEF vertical_scroll
  <2>2. at[t] = "scroll" /\ returning' = returning
    BY <2>1, StepTyped DEF Labels
  <2>3. /\ columns' = [columns EXCEPT ![t] = 0]
        /\ lineEnds' = [lineEnds EXCEPT ![t] = Line(Scrolled(prev), Y)]
    <3>1. /\ "home" \in Labels /\ screen_x'[t] = X /\ screen_y'[t] = Y /\ prev_x'[t] = Scrolled(prev)
          /\ \A u \in Terms \ {t} : /\ screen_x'[u] = screen_x[u] /\ screen_y'[u] = screen_y[u]
                                  /\ prev_x'[u] = prev_x[u]
      BY <1>t, <2>1 DEF Labels, OnScreen
    <3> QED BY <1>s, <2>1, <3>1
  <2>4. Line(Scrolled(prev), Y) = Abstract!Remembered(Append(Line(prev, Y), prev[Y]))
    BY <1>t, <2>2, LineBroken DEF Midway
  <2> QED BY <1>5, <2>2, <2>3, <2>4
<1>8. CASE Home
  <2>1. /\ Step("home", "cursor") /\ screen_x' = [screen_x EXCEPT ![t] = 0]
        /\ UNCHANGED <<screen_y, prev_x, cursor, pos>>
    BY <1>8 DEF Home, SetX
  <2>2. at[t] = "home" /\ returning' \subseteq Terms
    BY <2>1, StepTyped DEF Labels
  <2>3. /\ columns' = [columns EXCEPT ![t] = 0]
        /\ lineEnds' = [lineEnds EXCEPT ![t] = Line(prev, Y)]
    <3>1. /\ "cursor" \in Labels /\ screen_x'[t] = 0 /\ screen_y'[t] = Y /\ prev_x'[t] = prev
          /\ \A u \in Terms \ {t} : /\ screen_x'[u] = screen_x[u] /\ screen_y'[u] = screen_y[u]
                                  /\ prev_x'[u] = prev_x[u]
      BY <1>t, <2>1 DEF Labels, OnScreen
    <3> QED BY <1>s, <2>1, <3>1
  <2>4. UNCHANGED <<columns, lineEnds>>
    BY <1>b, <1>t, <2>2, <2>3, NotSeen
  <2> QED BY <2>2, <2>4 DEF Abstract!Next, columns, lineEnds, Line
\* A statement that moves the column alone.
<1>9. ASSUME NEW from \in {"right", "left", "wrap"}, NEW to \in {"wrap", "cursor"}, Step(from, to),
             NEW x, screen_x' = [screen_x EXCEPT ![t] = x], UNCHANGED <<screen_y, prev_x>>
      PROVE  /\ columns[t] = X /\ columns' = [columns EXCEPT ![t] = x]
             /\ lineEnds[t] = Line(prev, Y) /\ lineEnds' = [lineEnds EXCEPT ![t] = Line(prev, Y)]
             /\ at[t] = from /\ returning' = returning
  <2>1. /\ columns' = [columns EXCEPT ![t] = x]
        /\ lineEnds' = [lineEnds EXCEPT ![t] = Line(prev, Y)]
    <3>1. /\ to \in Labels /\ screen_x'[t] = x /\ screen_y'[t] = Y /\ prev_x'[t] = prev
          /\ \A u \in Terms \ {t} : /\ screen_x'[u] = screen_x[u] /\ screen_y'[u] = screen_y[u]
                                  /\ prev_x'[u] = prev_x[u]
      BY <1>9, <1>t DEF Labels, OnScreen
    <3> QED BY <1>9, <1>s, <3>1
  <2>2. at[t] = from /\ returning' = returning
    BY <1>9, StepTyped DEF Labels
  <2> QED BY <1>b, <1>9, <2>1, <2>2
<1>10. CASE Right
  <2>1. /\ Step("right", "wrap") /\ screen_x' = [screen_x EXCEPT ![t] = X + 1]
        /\ UNCHANGED <<screen_y, prev_x>>
    BY <1>10 DEF Right, SetX
  <2>2. /\ columns[t] = X /\ columns' = [columns EXCEPT ![t] = X + 1] /\ X < NUM_COLS - 1
        /\ lineEnds[t] = Line(prev, Y) /\ lineEnds' = [lineEnds EXCEPT ![t] = Line(prev, Y)]
        /\ returning' = returning
    BY <1>9, <1>t, <2>1 DEF Midway
  <2> QED BY <1>t, <2>2, Advanced
<1>11. CASE Left
  <2>1. /\ Step("left", "wrap") /\ screen_x' = [screen_x EXCEPT ![t] = X - 1]
        /\ UNCHANGED <<screen_y, prev_x>>
    BY <1>11 DEF Left, SetX
  <2>2. /\ columns[t] = X /\ columns' = [columns EXCEPT ![t] = X - 1] /\ X > 0
        /\ lineEnds[t] = Line(prev, Y) /\ lineEnds' = [lineEnds EXCEPT ![t] = Line(prev, Y)]
        /\ returning' = returning
    BY <1>9, <1>t, <2>1 DEF Midway
  <2> QED BY <1>t, <2>2, ErasedInLine
<1>12. CASE Wrap
  <2>1. X % NUM_COLS = X /\ Y % NUM_ROWS = Y /\ ~(X < 0)
    <3>1. X % NUM_COLS = X
      BY <1>t, ReducedColumn
    <3>2. Y % NUM_ROWS = Y
      BY <1>t, ReducedRow
    <3>3. ~(X < 0)
      BY <1>t, Sizes DEF Cols
    <3> QED BY <3>1, <3>2, <3>3
  <2>2. /\ Step("wrap", "cursor") /\ screen_x' = [screen_x EXCEPT ![t] = X]
        /\ UNCHANGED <<screen_y, prev_x>>
    <3>1. /\ Step("wrap", "cursor") /\ screen_x' = [screen_x EXCEPT ![t] = X]
          /\ screen_y' = [screen_y EXCEPT ![t] = Y] /\ UNCHANGED prev_x
      BY <1>12, <2>1 DEF Wrap, SetX, SetY
    <3> QED BY <1>t, <3>1 DEF OnScreen
  <2>3. /\ columns[t] = X /\ columns' = [columns EXCEPT ![t] = X]
        /\ lineEnds[t] = Line(prev, Y) /\ lineEnds' = [lineEnds EXCEPT ![t] = Line(prev, Y)]
        /\ returning' = returning
    BY <1>9, <2>2
  <2> QED BY <1>t, <2>3, NotSeen
<1>13. CASE Up
  <2>1. /\ Step("up", "uprow") /\ screen_x' = [screen_x EXCEPT ![t] = prev[Y - 1]]
        /\ UNCHANGED <<screen_y, prev_x, cursor, pos>>
    BY <1>13 DEF Up, SetX
  <2>2. at[t] = "up" /\ returning' = returning /\ X = 0 /\ Y > 0
    BY <1>t, <2>1, StepTyped DEF Labels, Midway
  <2>3. /\ columns' = [columns EXCEPT ![t] = prev[Y - 1]]
        /\ lineEnds' = [lineEnds EXCEPT ![t] = Line(prev, Y - 1)]
    <3>1. /\ "uprow" \in Labels /\ screen_x'[t] = prev[Y - 1] /\ screen_y'[t] = Y /\ prev_x'[t] = prev
          /\ \A u \in Terms \ {t} : /\ screen_x'[u] = screen_x[u] /\ screen_y'[u] = screen_y[u]
                                  /\ prev_x'[u] = prev_x[u]
      BY <1>t, <2>1 DEF Labels, OnScreen
    <3> QED BY <1>s, <2>1, <3>1
  <2>4. /\ Line(prev, Y) # <<>> /\ Abstract!Last(Line(prev, Y)) = prev[Y - 1]
        /\ Abstract!Front(Line(prev, Y)) = Line(prev, Y - 1)
    BY <1>t, <2>2, LineTaken
  <2>5. columns[t] = 0 /\ lineEnds[t] = Line(prev, Y)
    BY <1>b, <2>2
  <2> QED BY <1>t, <2>2, <2>3, <2>4, <2>5, Taken
<1>14. CASE UpRow
  <2>1. /\ Step("uprow", "cursor") /\ screen_y' = [screen_y EXCEPT ![t] = Y - 1]
        /\ UNCHANGED <<screen_x, prev_x, cursor, pos>>
    BY <1>14 DEF UpRow, SetY
  <2>2. at[t] = "uprow" /\ returning' = returning
    BY <2>1, StepTyped DEF Labels
  <2>3. /\ columns' = [columns EXCEPT ![t] = X]
        /\ lineEnds' = [lineEnds EXCEPT ![t] = Line(prev, Y - 1)]
    <3>1. /\ "cursor" \in Labels /\ screen_x'[t] = X /\ screen_y'[t] = Y - 1 /\ prev_x'[t] = prev
          /\ \A u \in Terms \ {t} : /\ screen_x'[u] = screen_x[u] /\ screen_y'[u] = screen_y[u]
                                  /\ prev_x'[u] = prev_x[u]
      BY <1>t, <2>1 DEF Labels, OnScreen
    <3> QED BY <1>s, <2>1, <3>1
  <2> QED BY <1>b, <1>t, <2>2, <2>3, NotSeen
<1>15. CASE update_cursor
  <2>1. Step("show", "lowindex") /\ UNCHANGED layout
    BY <1>15 DEF update_cursor
  <2> QED BY <1>m, <2>1 DEF Labels, Updating
<1>16. CASE Outb
  <2>1. UNCHANGED layout
    BY <1>16 DEF Outb
  <2>2. CASE SelectsLow
    BY <1>m, <2>1, <2>2 DEF SelectsLow, Labels, Updating
  <2>3. CASE WritesLow
    BY <1>m, <2>1, <2>3 DEF WritesLow, Labels, Updating
  <2>4. CASE SelectsHigh
    BY <1>m, <2>1, <2>4 DEF SelectsHigh, Labels, Updating
  <2> QED BY <1>16, <2>2, <2>3, <2>4 DEF Outb
<1>17. CASE LastOutb
  <2>1. Step("high", "idle") /\ UNCHANGED layout
    BY <1>17 DEF LastOutb
  <2> QED BY <1>m, <2>1 DEF Labels
<1> QED BY <1>1, <1>2, <1>3, <1>4, <1>6, <1>7, <1>8, <1>10, <1>11, <1>12, <1>13, <1>14, <1>15, <1>16,
           <1>17 DEF putc

\* A row break of putc_keyboard, which saves the column and starts a row at once.
LEMMA KeyBreaks ==
    ASSUME NEW s \in Places
    PROVE  /\ LineEnd(s).x = 0
           /\ Line(LineEnd(s).prev, LineEnd(s).y) =
                 Abstract!Remembered(Append(Line(s.prev, s.y), s.x))
<1> DEFINE x == s.x  y == s.y  old == s.prev
           prev == [old EXCEPT ![y] = x]
<1>1. x \in Cols /\ y \in Rows /\ old \in [Rows -> Cols]
  BY DEF Places
<1>2. s = [x |-> x, y |-> y, prev |-> old]
  BY DEF Places
<1> HIDE DEF x, y, old
<1>3. prev \in [Rows -> Cols] /\ prev[y] = x /\ Line(prev, y) = Line(old, y)
  BY <1>1, LineKept
<1>4. LineEnd(s) = NewRow([x |-> x, y |-> y, prev |-> prev])
  BY <1>2 DEF LineEnd
<1> HIDE DEF prev
<1>5. CASE y = Bottom
  <2>1. LineEnd(s) = [x |-> 0, y |-> y, prev |-> Scrolled(prev)]
    BY <1>4, <1>5 DEF NewRow
  <2> QED BY <1>1, <1>3, <1>5, <2>1, LineBroken DEF x, y, old
<1>6. CASE y # Bottom
  <2>1. LineEnd(s) = [x |-> 0, y |-> y + 1, prev |-> prev]
    BY <1>4, <1>6 DEF NewRow
  <2>2. y < Bottom
    BY <1>1, <1>6, ScreenAssumption DEF Rows, Bottom
  <2> QED BY <1>1, <1>3, <2>1, <2>2, LineBroken DEF x, y, old
<1> QED BY <1>5, <1>6

\* A key: one edit of the displayed terminal's lines, unless Backspace has nothing to erase.
LEMMA EchoRefines ==
    ASSUME SafePoints, Inv, NEW c \in Chars \ {"return"}, Echo(c)
    PROVE  \/ Abstract!Next
           \/ UNCHANGED <<columns, lineEnds, returning>>
<1> DEFINE place == Place(curr_term)
           s == putc_keyboard(place, c)
<1>t. /\ curr_term \in Terms /\ OnScreen /\ at[curr_term] \in {"idle", "cursor", "show"} \cup Updating
      /\ curr_term \notin returning /\ returning' = returning /\ at' = at
  BY DEF Inv, TypeOK, Midway, Echo, SafePoints, Updating
<1>1. place \in Places /\ place.x = screen_x[curr_term] /\ place.y = screen_y[curr_term]
      /\ place.prev = prev_x[curr_term]
  BY <1>t DEF Place, Places, OnScreen
<1>2. columns[curr_term] = place.x /\ lineEnds[curr_term] = Line(place.prev, place.y)
  BY <1>t, <1>1 DEF columns, lineEnds, Column, Row, Updating
<1>3. /\ screen_x' = [screen_x EXCEPT ![curr_term] = s.x]
      /\ screen_y' = [screen_y EXCEPT ![curr_term] = s.y]
      /\ prev_x' = [prev_x EXCEPT ![curr_term] = s.prev]
  BY DEF Echo
<1> HIDE DEF s
<1>4. /\ columns' = [columns EXCEPT ![curr_term] = s.x]
      /\ lineEnds' = [lineEnds EXCEPT ![curr_term] = Line(s.prev, s.y)]
  <2>1. /\ screen_x'[curr_term] = s.x /\ screen_y'[curr_term] = s.y /\ prev_x'[curr_term] = s.prev
        /\ \A u \in Terms \ {curr_term} :
               /\ screen_x'[u] = screen_x[u] /\ screen_y'[u] = screen_y[u] /\ prev_x'[u] = prev_x[u]
               /\ at'[u] = at[u]
    BY <1>t, <1>3 DEF OnScreen
  <2> QED BY <1>t, <2>1, OneTerminal DEF Updating
<1> HIDE DEF place
<1>5. CASE s = LineEnd(place)
  <2>1. /\ s.x = 0
        /\ Line(s.prev, s.y) = Abstract!Remembered(Append(Line(place.prev, place.y), place.x))
    BY <1>1, <1>5, KeyBreaks
  <2>2. place.x \in Cols
    BY <1>1 DEF Places
  <2> QED BY <1>t, <1>2, <1>4, <2>1, <2>2, Broken
<1>6. CASE c = "letter" /\ place.x # NUM_COLS - 1
  <2>1. s = [place EXCEPT !.x = place.x + 1]
    BY <1>6 DEF s, putc_keyboard
  <2>2. s.x = place.x + 1 /\ s.y = place.y /\ s.prev = place.prev /\ place.x < NUM_COLS - 1
    BY <1>1, <1>6, <2>1, ScreenAssumption DEF Places, Cols
  <2> QED BY <1>t, <1>2, <1>4, <2>2, Advanced
<1>7. CASE c = "backspace"
  <2>1. s = Erased(place)
    BY <1>7 DEF s, putc_keyboard
  <2>2. place.x \in Cols /\ place.y \in Rows /\ place.prev \in [Rows -> Cols]
    BY <1>1 DEF Places
  <2>3. CASE place.x > 0
    <3>1. s.x = place.x - 1 /\ s.y = place.y /\ s.prev = place.prev
      BY <1>1, <2>1, <2>3 DEF Erased, Places
    <3> QED BY <1>t, <1>2, <1>4, <2>3, <3>1, ErasedInLine
  <2>4. CASE ~(place.x > 0) /\ place.y > 0
    <3>1. s.x = place.prev[place.y - 1] /\ s.y = place.y - 1 /\ s.prev = place.prev
      BY <1>1, <2>1, <2>4 DEF Erased, Places
    <3>2. place.x = 0
      BY <2>2, <2>4, ScreenAssumption DEF Cols
    <3>3. /\ Line(place.prev, place.y) # <<>>
          /\ Abstract!Last(Line(place.prev, place.y)) = s.x
          /\ Abstract!Front(Line(place.prev, place.y)) = Line(s.prev, s.y)
      BY <2>2, <2>4, <3>1, LineTaken
    <3> QED BY <1>t, <1>2, <1>4, <3>2, <3>3, Taken
  <2>5. CASE ~(place.x > 0) /\ ~(place.y > 0)
    <3>1. s = place
      BY <2>1, <2>5 DEF Erased
    <3> QED BY <1>t, <1>2, <1>4, <3>1, NotSeen
  <2> QED BY <2>3, <2>4, <2>5
<1>8. c = "newline" \/ (c = "letter" /\ place.x = NUM_COLS - 1) => s = LineEnd(place)
  BY DEF s, putc_keyboard
<1>9. c \in {"letter", "newline", "backspace"}
  BY DEF Chars
<1> QED BY <1>5, <1>6, <1>7, <1>8, <1>9

\* Every step is a step of Layout, or a stutter.
LEMMA LayoutRefines ==
    ASSUME SafePoints
    PROVE  Inv /\ [Next]_vars => [Abstract!Next]_<<columns, lineEnds, returning>>
<1> SUFFICES ASSUME Inv, [Next]_vars
             PROVE  Abstract!Next \/ UNCHANGED <<columns, lineEnds, returning>>
  OBVIOUS
<1>1. CASE putc
  BY <1>1, PutcRefines
<1>2. CASE CtrlL
  <2>t. /\ curr_term \in Terms /\ OnScreen /\ at[curr_term] \in {"idle", "cursor", "show"} \cup Updating
    BY <1>2 DEF Inv, TypeOK, CtrlL, SafePoints
  <2>1. /\ screen_x' = [screen_x EXCEPT ![curr_term] = 0]
        /\ screen_y' = [screen_y EXCEPT ![curr_term] = 0]
        /\ UNCHANGED <<prev_x, at, returning>>
    BY <1>2 DEF CtrlL
  <2>2. /\ screen_x'[curr_term] = 0 /\ screen_y'[curr_term] = 0
        /\ \A u \in Terms \ {curr_term} :
               /\ screen_x'[u] = screen_x[u] /\ screen_y'[u] = screen_y[u] /\ prev_x'[u] = prev_x[u]
               /\ at'[u] = at[u]
    BY <2>t, <2>1 DEF OnScreen
  <2>3. Line(prev_x'[curr_term], 0) = <<>>
    BY DEF Line
  <2>4. /\ columns' = [columns EXCEPT ![curr_term] = 0]
        /\ lineEnds' = [lineEnds EXCEPT ![curr_term] = <<>>]
    BY <2>t, <2>1, <2>2, <2>3, OneTerminal DEF Updating
  <2> QED BY <2>t, <2>1, <2>4, Emptied
<1>3. ASSUME NEW c \in Chars \ {"return"}, Echo(c)
      PROVE  Abstract!Next \/ UNCHANGED <<columns, lineEnds, returning>>
  BY <1>3, EchoRefines
<1>4. CASE Tick \/ (\E t \in Terms : Switch(t)) \/ UNCHANGED vars
  <2>1. UNCHANGED <<screen_x, screen_y, prev_x, at, returning>>
    BY <1>4 DEF Tick, Switch, vars, layout
  <2> QED BY <2>1 DEF columns, lineEnds, Column, Row, Line
<1> QED BY <1>1, <1>2, <1>3, <1>4 DEF Next

\* putc, statement by statement and interrupted by keys where that is safe, and
\* putc_keyboard implement Layout: one account of the lines of each terminal, in which
\* a Backspace takes back exactly the last character or line break (lib.c:219-338).
THEOREM LinesKept == ASSUME SafePoints PROVE Spec => KeepsLayout
<1>1. Init => Abstract!Init
  <2> SUFFICES ASSUME Init PROVE Abstract!Init
    OBVIOUS
  <2>1. \A t \in Terms : Column(t) = 0 /\ Row(t) = 0
    BY DEF Init, Column, Row
  <2>2. \A t \in Terms : [i \in 1 .. Row(t) |-> prev_x[t][i - 1]] = <<>>
    BY <2>1
  <2> QED BY <2>1, <2>2 DEF Init, Abstract!Init
<1>2. Spec => []Inv
  <2>1. Inv /\ [Next]_vars => Inv'
    BY Inductive
  <2> QED BY <2>1, Initially, PTL DEF Spec
<1>3. Inv /\ [Next]_vars =>
          [Abstract!Next]_<<[t \in Terms |-> Column(t)],
                            [t \in Terms |-> [i \in 1 .. Row(t) |-> prev_x[t][i - 1]]], returning>>
  BY LayoutRefines DEF columns, lineEnds, Line
<1> QED BY <1>1, <1>2, <1>3, PTL DEF Spec, KeepsLayout, Abstract!Spec
=============================================================================
