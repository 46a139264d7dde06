----------------------------- MODULE KeyboardProofs -----------------------------
(***************************************************************************)
(* Line editing for any number of terminals, any size of the buffer and    *)
(* any keys: the buffer holds the text as edited, and a read returns the   *)
(* first line of it.                                                       *)
(***************************************************************************)
EXTENDS Keyboard, SequenceTheorems, TLAPS

Buffers == [Cells -> Chars]

\* A buffer kb, its index b, its count n of erasable characters and its enter_flag e
\* in step with the text s.  Beyond what Faithful says: the erasable characters are
\* the last of the text and none is a newline, the first newline is known, and only
\* a newline takes the buffer's last cell.
InStep(kb, b, n, e, s) ==
    /\ b = Len(s)
    /\ \A i \in 1 .. Len(s) : kb[i - 1] = s[i]
    /\ n <= Len(s)
    /\ \A i \in 1 .. Len(s) : i > Len(s) - n => s[i] # Newline
    /\ e = 0 => \A i \in 1 .. Len(s) : s[i] # Newline
    /\ e = 1 => \E p \in 1 .. Len(s) : s[p] = Newline /\ \A i \in 1 .. p - 1 : s[i] # Newline
    /\ Len(s) = KB_BUFFER_SIZE => e = 1

Line(t) == clean[t] => InStep(key_buffer[t], buf_idx[t], num_char[t], enter_flag[t], typed[t])

\* A read that has woken finds the flag up: only its own copy takes it down.
Woken == \A t \in Terms : pc[t] = "copy" => enter_flag[t] = 1

Inv == TypeOK /\ (\A t \in Terms : Line(t)) /\ Woken

-----------------------------------------------------------------------------
\* Append, and the removal of the last character, cell by cell.
LEMMA Longer ==
    ASSUME NEW s \in Seq(Chars), NEW c \in Chars
    PROVE  /\ Append(s, c) \in Seq(Chars)
           /\ Len(Append(s, c)) = Len(s) + 1
           /\ \A i \in 1 .. Len(s) : Append(s, c)[i] = s[i]
           /\ Append(s, c)[Len(s) + 1] = c
OBVIOUS

\* A part from the start of a text is a text.
LEMMA Prefix ==
    ASSUME NEW s \in Seq(Chars), NEW n \in Nat, n < Len(s)
    PROVE  /\ SubSeq(s, 1, n) \in Seq(Chars)
           /\ Len(SubSeq(s, 1, n)) = n
           /\ \A i \in 1 .. n : SubSeq(s, 1, n)[i] = s[i]
<1>1. SubSeq(s, 1, n) \in Seq(Chars)
  OBVIOUS
<1>2. Len(SubSeq(s, 1, n)) = n
  OBVIOUS
<1>3. \A i \in 1 .. n : SubSeq(s, 1, n)[i] = s[i]
  OBVIOUS
<1> QED BY <1>1, <1>2, <1>3

\* So is a text without its last character.
LEMMA Shorter ==
    ASSUME NEW s \in Seq(Chars), Len(s) > 0
    PROVE  /\ SubSeq(s, 1, Len(s) - 1) \in Seq(Chars)
           /\ Len(SubSeq(s, 1, Len(s) - 1)) = Len(s) - 1
           /\ \A i \in 1 .. Len(s) - 1 : SubSeq(s, 1, Len(s) - 1)[i] = s[i]
<1> DEFINE n == Len(s) - 1
<1>1. n \in Nat /\ n < Len(s)
  BY LenProperties
<1> HIDE DEF n
<1>2. /\ SubSeq(s, 1, n) \in Seq(Chars)
      /\ Len(SubSeq(s, 1, n)) = n
      /\ \A i \in 1 .. n : SubSeq(s, 1, n)[i] = s[i]
  BY <1>1, Prefix
<1> QED BY <1>2 DEF n

\* The buffer has a last cell, and one before it.
LEMMA LastCell == KB_BUFFER_SIZE \in Nat /\ KB_BUFFER_SIZE >= 2 /\ KB_BUFFER_SIZE - 1 \in Cells
BY SizeAssumption DEF Cells

\* A character that is not a newline, stored where there is room (keyboard.c:226-231).
LEMMA CharacterStored ==
    ASSUME NEW kb \in Buffers, NEW b \in Int, NEW n \in Nat, NEW e \in 0 .. 1, NEW s \in Seq(Chars),
           NEW c \in Chars \ {Newline}, InStep(kb, b, n, e, s), b < KB_BUFFER_SIZE - 1
    PROVE  InStep([kb EXCEPT ![b] = c], b + 1, n + 1, e, Append(s, c))
<1> DEFINE r == Append(s, c)
           k == [kb EXCEPT ![b] = c]
<1>1. Len(s) \in Nat /\ b = Len(s) /\ b \in Cells
  BY LastCell DEF InStep, Cells
<1>2. Len(r) = b + 1 /\ (\A i \in 1 .. b : r[i] = s[i]) /\ r[b + 1] = c
  BY <1>1, Longer
<1>3. k[b] = c /\ \A i \in 1 .. b : k[i - 1] = kb[i - 1]
  BY <1>1, LastCell DEF Buffers, Cells
<1> HIDE DEF r, k
<1>4. \A i \in 1 .. Len(r) : k[i - 1] = r[i]
  BY <1>1, <1>2, <1>3 DEF InStep
<1>5. \A i \in 1 .. Len(r) : i > Len(r) - (n + 1) => r[i] # Newline
  BY <1>1, <1>2 DEF InStep
<1>6. e = 0 => \A i \in 1 .. Len(r) : r[i] # Newline
  BY <1>1, <1>2 DEF InStep
<1>7. e = 1 => \E p \in 1 .. Len(r) : r[p] = Newline /\ \A i \in 1 .. p - 1 : r[i] # Newline
  BY <1>1, <1>2 DEF InStep
<1>8. n + 1 <= Len(r) /\ (Len(r) = KB_BUFFER_SIZE => e = 1)
  BY <1>1, <1>2, LastCell DEF InStep
<1>9. InStep(k, b + 1, n + 1, e, r)
  BY <1>2, <1>4, <1>5, <1>6, <1>7, <1>8 DEF InStep
<1> QED BY <1>9 DEF r, k

\* A newline: nothing before it can be erased, and it is the first if none was there
\* (keyboard.c:169-180).
LEMMA NewlineStored ==
    ASSUME NEW kb \in Buffers, NEW b \in Int, NEW n \in Nat, NEW e \in 0 .. 1, NEW s \in Seq(Chars),
           InStep(kb, b, n, e, s), b < KB_BUFFER_SIZE
    PROVE  InStep([kb EXCEPT ![b] = Newline], b + 1, 0, 1, Append(s, Newline))
<1> DEFINE r == Append(s, Newline)
           k == [kb EXCEPT ![b] = Newline]
<1>1. Len(s) \in Nat /\ b = Len(s) /\ b \in Cells /\ Newline \in Chars
  BY LastCell DEF InStep, Cells, Chars
<1>2. Len(r) = b + 1 /\ (\A i \in 1 .. b : r[i] = s[i]) /\ r[b + 1] = Newline
  BY <1>1, Longer
<1>3. k[b] = Newline /\ \A i \in 1 .. b : k[i - 1] = kb[i - 1]
  BY <1>1, LastCell DEF Buffers, Cells
<1> HIDE DEF r, k
<1>4. \A i \in 1 .. Len(r) : k[i - 1] = r[i]
  BY <1>1, <1>2, <1>3 DEF InStep
<1>5. \E p \in 1 .. Len(r) : r[p] = Newline /\ \A i \in 1 .. p - 1 : r[i] # Newline
  <2>1. CASE e = 0
    <3>1. b + 1 \in 1 .. Len(r) /\ \A i \in 1 .. b + 1 - 1 : r[i] # Newline
      BY <1>1, <1>2, <2>1 DEF InStep
    <3> QED BY <1>2, <3>1
  <2>2. CASE e = 1
    BY <1>1, <1>2, <2>2 DEF InStep
  <2> QED BY <2>1, <2>2
<1>6. InStep(k, b + 1, 0, 1, r)
  BY <1>1, <1>2, <1>4, <1>5 DEF InStep
<1> QED BY <1>6 DEF r, k

\* Backspace takes the last character, which no newline is (keyboard.c:182-196).
LEMMA CharacterErased ==
    ASSUME NEW kb \in Buffers, NEW b \in Int, NEW n \in Nat, NEW e \in 0 .. 1, NEW s \in Seq(Chars),
           InStep(kb, b, n, e, s), n > 0, b <= KB_BUFFER_SIZE
    PROVE  InStep(kb, b - 1, n - 1, e, SubSeq(s, 1, Len(s) - 1))
<1> DEFINE r == SubSeq(s, 1, Len(s) - 1)
<1>1. Len(s) \in Nat /\ b = Len(s) /\ Len(s) > 0
  BY DEF InStep
<1>2. Len(r) = b - 1 /\ \A i \in 1 .. b - 1 : r[i] = s[i]
  BY <1>1, Shorter
<1>3. s[b] # Newline
  BY <1>1 DEF InStep
<1> HIDE DEF r
<1>4. \A i \in 1 .. Len(r) : kb[i - 1] = r[i]
  BY <1>1, <1>2 DEF InStep
<1>5. \A i \in 1 .. Len(r) : i > Len(r) - (n - 1) => r[i] # Newline
  BY <1>1, <1>2 DEF InStep
<1>6. e = 0 => \A i \in 1 .. Len(r) : r[i] # Newline
  BY <1>1, <1>2 DEF InStep
<1>7. e = 1 => \E p \in 1 .. Len(r) : r[p] = Newline /\ \A i \in 1 .. p - 1 : r[i] # Newline
  <2>1. SUFFICES ASSUME e = 1
        PROVE  \E p \in 1 .. Len(r) : r[p] = Newline /\ \A i \in 1 .. p - 1 : r[i] # Newline
    OBVIOUS
  <2>2. PICK p \in 1 .. Len(s) : s[p] = Newline /\ \A i \in 1 .. p - 1 : s[i] # Newline
    BY <2>1 DEF InStep
  <2>3. p # b
    BY <1>3, <2>2
  <2>4. p \in 1 .. Len(r) /\ r[p] = Newline /\ \A i \in 1 .. p - 1 : r[i] # Newline
    BY <1>1, <1>2, <2>2, <2>3
  <2> QED BY <2>4
<1>8. n - 1 <= Len(r) /\ (Len(r) = KB_BUFFER_SIZE => e = 1)
  <2>1. n <= Len(s)
    BY DEF InStep
  <2> QED BY <1>1, <1>2, <2>1, LastCell
<1>9. InStep(kb, b - 1, n - 1, e, r)
  BY <1>2, <1>4, <1>5, <1>6, <1>7, <1>8 DEF InStep
<1> QED BY <1>9 DEF r

-----------------------------------------------------------------------------
\* The first state is typed.
LEMMA TypedInitially == Init => TypeOK
<1> SUFFICES ASSUME Init PROVE TypeOK
  OBVIOUS
<1>1. 0 \in Terms /\ Nul \in Chars
  BY CountAssumption DEF Terms, Chars
<1>2. 0 \in -MAX_UNDER .. KB_BUFFER_SIZE
  BY BoundAssumption, SizeAssumption
<1>3. <<>> \in Seq(Chars)
  BY EmptySeq
<1> QED BY <1>1, <1>2, <1>3 DEF Init, TypeOK

\* A key's store, count and text: what TypeLetter, TypeTab and TypeEnter share.
LEMMA StoreTyped ==
    ASSUME TypeOK, NEW c \in Chars, NEW limit \in Nat, limit <= KB_BUFFER_SIZE, Store(c, limit)
    PROVE  /\ key_buffer' \in [Terms -> [Cells -> Chars]]
           /\ buf_idx' \in [Terms -> -MAX_UNDER .. KB_BUFFER_SIZE]
<1>1. curr_term \in Terms /\ buf_idx[curr_term] \in -MAX_UNDER .. KB_BUFFER_SIZE
  BY DEF TypeOK
<1>2. Room(limit) => buf_idx[curr_term] + 1 \in -MAX_UNDER .. KB_BUFFER_SIZE
  BY <1>1, SizeAssumption, BoundAssumption DEF Room, t0
<1>3. Room(limit) /\ buf_idx[curr_term] >= 0 => buf_idx[curr_term] \in Cells
  BY <1>1, SizeAssumption, BoundAssumption DEF Room, t0, Cells
<1>4. buf_idx' \in [Terms -> -MAX_UNDER .. KB_BUFFER_SIZE]
  BY <1>1, <1>2 DEF Store, TypeOK, t0
<1>5. key_buffer' \in [Terms -> [Cells -> Chars]]
  <2>1. ASSUME NEW kb \in [Cells -> Chars] PROVE [kb EXCEPT ![buf_idx[curr_term]] = c] \in [Cells -> Chars]
    OBVIOUS
  <2>2. CASE Room(limit) /\ buf_idx[t0] >= 0
    <3>1. key_buffer' = [key_buffer EXCEPT ![curr_term] =
                             [key_buffer[curr_term] EXCEPT ![buf_idx[curr_term]] = c]]
      BY <2>2 DEF Store, t0
    <3> QED BY <1>1, <2>1, <3>1 DEF TypeOK
  <2>3. CASE ~(Room(limit) /\ buf_idx[t0] >= 0)
    BY <2>3 DEF Store, TypeOK
  <2> QED BY <2>2, <2>3
<1> QED BY <1>4, <1>5

\* An edit leaves a text.
LEMMA EditTyped ==
    ASSUME TypeOK, NEW text \in Seq(Chars), NEW ok \in BOOLEAN, Edited(text, ok)
    PROVE  typed' \in [Terms -> Seq(Chars)] /\ clean' \in [Terms -> BOOLEAN]
<1>1. <<>> \in Seq(Chars)
  BY EmptySeq
<1> QED BY <1>1 DEF Edited, TypeOK, t0

\* One step per action.
LEMMA TypedInductive == TypeOK /\ [Next]_vars => TypeOK'
<1> SUFFICES ASSUME TypeOK, [Next]_vars PROVE TypeOK'
  OBVIOUS
<1>t. /\ curr_term \in Terms /\ active_term \in Terms
      /\ \A t \in Terms : /\ typed[t] \in Seq(Chars) /\ clean[t] \in BOOLEAN
                          /\ enter_flag[t] \in 0 .. 1 /\ num_char[t] \in Nat
  BY DEF TypeOK
<1>k. /\ KB_BUFFER_SIZE \in Nat /\ KB_BUFFER_SIZE - 1 \in Nat /\ KB_BUFFER_SIZE - 1 <= KB_BUFFER_SIZE
      /\ Tab \in Chars /\ Newline \in Chars /\ Nul \in Chars /\ Letters \subseteq Chars
  BY SizeAssumption DEF Chars
<1>n. \A k \in Nat : Counted(k) \in [Terms -> Nat]
  BY <1>t, BoundAssumption DEF TypeOK, Counted, t0
<1>a. ASSUME NEW c \in Chars PROVE Append(typed[t0], c) \in Seq(Chars)
  BY <1>t, Longer DEF t0
<1>1. CASE UNCHANGED vars
  BY <1>1 DEF vars, line, reading, TypeOK
<1>2. ASSUME NEW c \in Chars, Store(c, KB_BUFFER_SIZE - 1),
             \E k \in Nat : num_char' = Counted(k),
             Edited(Append(typed[t0], c), clean[t0] /\ Room(KB_BUFFER_SIZE - 1)),
             UNCHANGED <<enter_flag, reading, curr_term>>
      PROVE  TypeOK'
  <2>1. /\ key_buffer' \in [Terms -> [Cells -> Chars]]
        /\ buf_idx' \in [Terms -> -MAX_UNDER .. KB_BUFFER_SIZE]
    BY <1>2, <1>k, StoreTyped
  <2>2. typed' \in [Terms -> Seq(Chars)] /\ clean' \in [Terms -> BOOLEAN]
    BY <1>2, <1>a, EditTyped
  <2>3. num_char' \in [Terms -> Nat]
    BY <1>2, <1>n
  <2> QED BY <1>2, <2>1, <2>2, <2>3 DEF TypeOK, reading
<1>3. ASSUME NEW c \in Letters, TypeLetter(c) PROVE TypeOK'
  BY <1>2, <1>3, <1>k DEF TypeLetter
<1>4. CASE TypeTab
  <2>1. \E k \in Nat : num_char' = Counted(k)
    BY <1>4 DEF TypeTab
  <2> QED BY <1>2, <1>4, <1>k, <2>1 DEF TypeTab
<1>5. CASE TypeEnter
  <2>1. /\ key_buffer' \in [Terms -> [Cells -> Chars]]
        /\ buf_idx' \in [Terms -> -MAX_UNDER .. KB_BUFFER_SIZE]
    BY <1>5, <1>k, StoreTyped DEF TypeEnter
  <2>2. typed' \in [Terms -> Seq(Chars)] /\ clean' \in [Terms -> BOOLEAN]
    BY <1>5, <1>a, <1>t, <1>k, EditTyped DEF TypeEnter, t0
  <2>3. num_char' \in [Terms -> Nat] /\ enter_flag' \in [Terms -> 0 .. 1]
    <3>1. num_char' = [num_char EXCEPT ![t0] = 0] /\ enter_flag' = [enter_flag EXCEPT ![t0] = 1]
      BY <1>5 DEF TypeEnter, NoneErasable, set_enter_flag
    <3>2. num_char' \in [Terms -> Nat]
      BY <3>1 DEF TypeOK
    <3>3. enter_flag' \in [Terms -> 0 .. 1]
      <4>1. 1 \in 0 .. 1
        OBVIOUS
      <4> QED BY <3>1, <4>1, Zenon DEF TypeOK
    <3> QED BY <3>2, <3>3
  <2> QED BY <1>5, <2>1, <2>2, <2>3 DEF TypeEnter, TypeOK, reading
<1>6. CASE TypeBackspace
  <2>1. num_char' \in [Terms -> Nat]
    <3>1. num_char[t0] - 1 \in Nat
      BY <1>6, <1>t DEF TypeBackspace, t0
    <3>2. num_char' = [num_char EXCEPT ![t0] = num_char[t0] - 1]
      BY <1>6 DEF TypeBackspace
    <3> QED BY <3>1, <3>2 DEF TypeOK
  <2>2. buf_idx' \in [Terms -> -MAX_UNDER .. KB_BUFFER_SIZE]
    <3>1. buf_idx[t0] \in -MAX_UNDER .. KB_BUFFER_SIZE
      BY <1>t DEF TypeOK, t0
    <3>2. buf_idx[t0] - 1 \in -MAX_UNDER .. KB_BUFFER_SIZE
      BY <1>6, <3>1, BoundAssumption, SizeAssumption DEF TypeBackspace
    <3> QED BY <1>6, <3>2 DEF TypeBackspace, StepBack, TypeOK
  <2>3. SubSeq(typed[t0], 1, Len(typed[t0]) - 1) \in Seq(Chars)
    <3>1. CASE Len(typed[t0]) > 0
      BY <1>t, <3>1, Shorter DEF t0
    <3>2. CASE ~(Len(typed[t0]) > 0)
      <4>1. Len(typed[t0]) - 1 < 1 /\ Len(typed[t0]) - 1 \in Int
        BY <1>t, <3>2, LenProperties DEF t0
      <4>2. SubSeq(typed[t0], 1, Len(typed[t0]) - 1) = <<>>
        BY <4>1, SubSeqEmpty
      <4> QED BY <4>2, EmptySeq
    <3> QED BY <3>1, <3>2
  <2>4. typed' \in [Terms -> Seq(Chars)] /\ clean' \in [Terms -> BOOLEAN]
    BY <1>6, <1>t, <2>3, EditTyped DEF TypeBackspace, t0
  <2> QED BY <1>6, <2>1, <2>2, <2>4 DEF TypeBackspace, TypeOK, reading
<1>7. CASE TypeCtrlL
  <2>1. num_char' \in [Terms -> Nat]
    BY <1>7 DEF TypeCtrlL, NoneErasable, TypeOK
  <2>2. /\ buf_idx' \in [Terms -> -MAX_UNDER .. KB_BUFFER_SIZE]
        /\ typed' \in [Terms -> Seq(Chars)] /\ clean' \in [Terms -> BOOLEAN]
    <3>1. 0 \in -MAX_UNDER .. KB_BUFFER_SIZE /\ <<>> \in Seq(Chars)
      BY BoundAssumption, SizeAssumption, EmptySeq
    <3>2. CASE read_flag = 0
      BY <1>7, <3>1, <3>2, EditTyped DEF TypeCtrlL, TypeOK
    <3>3. CASE read_flag # 0
      BY <1>7, <3>3 DEF TypeCtrlL, TypeOK
    <3> QED BY <3>2, <3>3
  <2> QED BY <1>7, <2>1, <2>2 DEF TypeCtrlL, TypeOK, reading
<1>8. ASSUME NEW t \in Terms, Switch(t) PROVE TypeOK'
  BY <1>8 DEF Switch, TypeOK, line, reading
<1>9. CASE CtrlC \/ ReadStart \/ ReadWake
  <2>1. pc' \in [Terms -> {"user", "wait", "copy"}]
    BY <1>9 DEF CtrlC, ReadStart, ReadWake, Goto, TypeOK
  <2>2. read_flag' \in 0 .. 1
    BY <1>9 DEF CtrlC, ReadStart, ReadWake, TypeOK
  <2>3. UNCHANGED <<line, enter_flag, active_term, curr_term, typed, clean>>
    BY <1>9 DEF CtrlC, ReadStart, ReadWake
  <2> QED BY <2>1, <2>2, <2>3 DEF TypeOK, line
<1>10. CASE Tick
  <2>1. active_term' \in Terms
    BY <1>10, <1>t, CountAssumption DEF Tick, Terms
  <2> QED BY <1>10, <2>1 DEF Tick, TypeOK, line
<1>11. ASSUME NEW n \in Sizes, ReadCopy(n) PROVE TypeOK'
  <2>1. key_buffer' \in [Terms -> [Cells -> Chars]]
    <3>1. [i \in Cells |-> IF i < n THEN Nul ELSE key_buffer[active_term][i]] \in [Cells -> Chars]
      BY <1>t, <1>k DEF TypeOK
    <3> QED BY <1>11, <3>1 DEF ReadCopy, TypeOK
  <2>2. buf_idx' \in [Terms -> -MAX_UNDER .. KB_BUFFER_SIZE]
    <3>1. 0 \in -MAX_UNDER .. KB_BUFFER_SIZE
      BY BoundAssumption, SizeAssumption
    <3> QED BY <1>11, <3>1 DEF ReadCopy, TypeOK
  <2>3. typed' \in [Terms -> Seq(Chars)]
    BY <1>11, EmptySeq DEF ReadCopy, TypeOK
  <2>4. /\ enter_flag' \in [Terms -> 0 .. 1] /\ read_flag' \in 0 .. 1
        /\ clean' \in [Terms -> BOOLEAN] /\ pc' \in [Terms -> {"user", "wait", "copy"}]
    BY <1>11 DEF ReadCopy, Goto, TypeOK
  <2> QED BY <1>11, <2>1, <2>2, <2>3, <2>4 DEF ReadCopy, TypeOK
<1> QED BY <1>1, <1>3, <1>4, <1>5, <1>6, <1>7, <1>8, <1>9, <1>10, <1>11 DEF Next

\* Every variable keeps its type, buf_idx between the bound below the buffer and the
\* buffer's end.
THEOREM Typed == Spec => []TypeOK
BY TypedInitially, TypedInductive, PTL DEF Spec

-----------------------------------------------------------------------------
\* How a read's copy and the dropping of a line leave the buffer: empty.
LEMMA Emptied == ASSUME NEW kb PROVE InStep(kb, 0, 0, 0, <<>>)
BY SizeAssumption, EmptySeq DEF InStep

\* Nothing to erase: Enter in a full buffer, and Ctrl-L during a read.
LEMMA NoneLeft ==
    ASSUME NEW kb, NEW b, NEW n \in Nat, NEW e, NEW s \in Seq(Chars), InStep(kb, b, n, e, s)
    PROVE  InStep(kb, b, 0, e, s)
BY LenProperties DEF InStep

\* The first state satisfies the invariant.
LEMMA Initially == Init => Inv
<1> SUFFICES ASSUME Init PROVE Inv
  OBVIOUS
<1>1. \A t \in Terms : Line(t)
  BY Emptied DEF Init, Line
<1>2. Woken
  BY DEF Init, Woken
<1> QED BY <1>1, <1>2, TypedInitially DEF Inv

\* Every step keeps Woken: enter_flag stays set for a read that has seen it.
LEMMA WokenInductive == TypeOK /\ Woken /\ [Next]_vars => Woken'
<1> SUFFICES ASSUME TypeOK, Woken, [Next]_vars PROVE Woken'
  OBVIOUS
<1>t. curr_term \in Terms /\ active_term \in Terms
  BY DEF TypeOK
<1>1. CASE TypeEnter
  BY <1>1, <1>t DEF TypeEnter, set_enter_flag, reading, Woken, TypeOK, t0
<1>2. CASE \/ UNCHANGED vars \/ TypeTab \/ TypeBackspace \/ TypeCtrlL \/ Tick
           \/ (\E c \in Letters : TypeLetter(c)) \/ (\E t \in Terms : Switch(t))
  <2>1. UNCHANGED <<enter_flag, pc>>
    BY <1>2 DEF vars, TypeTab, TypeBackspace, TypeCtrlL, Tick, TypeLetter, Switch, reading
  <2> QED BY <2>1 DEF Woken
<1>3. CASE CtrlC \/ ReadStart
  <2>1. enter_flag' = enter_flag /\ \A t \in Terms : pc'[t] = "copy" => pc[t] = "copy"
    BY <1>3, <1>t DEF CtrlC, ReadStart, Goto, TypeOK
  <2> QED BY <2>1 DEF Woken
<1>4. CASE ReadWake
  BY <1>4, <1>t DEF ReadWake, Goto, Woken, TypeOK
<1>5. CASE \E n \in Sizes : ReadCopy(n)
  BY <1>5, <1>t DEF ReadCopy, Goto, Woken, TypeOK
<1> QED BY <1>1, <1>2, <1>3, <1>4, <1>5 DEF Next

\* A character key on the displayed terminal: other terminals' lines are untouched.
LEMMA CharacterTyped ==
    ASSUME TypeOK, \A t \in Terms : Line(t), NEW c \in Chars \ {Newline},
           Store(c, KB_BUFFER_SIZE - 1),
           Room(KB_BUFFER_SIZE - 1) => num_char' = Counted(1),
           \A t \in Terms \ {t0} : num_char'[t] = num_char[t],
           Edited(Append(typed[t0], c), clean[t0] /\ Room(KB_BUFFER_SIZE - 1)),
           UNCHANGED enter_flag
    PROVE  \A t \in Terms : Line(t)'
<1> SUFFICES ASSUME NEW t \in Terms, clean'[t]
             PROVE  InStep(key_buffer'[t], buf_idx'[t], num_char'[t], enter_flag'[t], typed'[t])
  BY DEF Line
<1>1. CASE t # t0
  <2>1. /\ key_buffer'[t] = key_buffer[t] /\ buf_idx'[t] = buf_idx[t] /\ typed'[t] = typed[t]
        /\ clean'[t] = clean[t]
    BY <1>1 DEF Store, Edited, TypeOK
  <2> QED BY <1>1, <2>1 DEF Line
<1>2. CASE t = t0
  <2>1. clean[t] /\ Room(KB_BUFFER_SIZE - 1) /\ typed'[t] = Append(typed[t], c)
    BY <1>2 DEF Edited, TypeOK
  <2>2. InStep(key_buffer[t], buf_idx[t], num_char[t], enter_flag[t], typed[t])
    BY <2>1 DEF Line
  <2>3. buf_idx[t] >= 0 /\ buf_idx[t] < KB_BUFFER_SIZE - 1
    BY <1>2, <2>1, <2>2, LenProperties DEF InStep, Room, TypeOK
  <2>4. /\ key_buffer'[t] = [key_buffer[t] EXCEPT ![buf_idx[t]] = c]
        /\ buf_idx'[t] = buf_idx[t] + 1
    BY <1>2, <2>1, <2>3 DEF Store, TypeOK
  <2>5. num_char'[t] = num_char[t] + 1
    BY <1>2, <2>1, <2>3 DEF Counted, TypeOK
  <2>6. /\ key_buffer[t] \in Buffers /\ buf_idx[t] \in Int /\ num_char[t] \in Nat
        /\ enter_flag[t] \in 0 .. 1 /\ typed[t] \in Seq(Chars)
    BY DEF TypeOK, Buffers
  <2>7. InStep([key_buffer[t] EXCEPT ![buf_idx[t]] = c], buf_idx[t] + 1, num_char[t] + 1,
               enter_flag[t], Append(typed[t], c))
    BY <2>2, <2>3, <2>6, CharacterStored
  <2> QED BY <2>1, <2>4, <2>5, <2>7
<1> QED BY <1>1, <1>2

\* One step per action: the lemmas on InStep for the terminal that is typed on or
\* read, nothing for the others.
LEMMA LineInductive ==
    TypeOK /\ (\A t \in Terms : Line(t)) /\ [Next]_vars => \A t \in Terms : Line(t)'
<1> SUFFICES ASSUME TypeOK, \A t \in Terms : Line(t), [Next]_vars
             PROVE  \A t \in Terms : Line(t)'
  OBVIOUS
<1>t. \A t \in Terms : /\ key_buffer[t] \in Buffers /\ buf_idx[t] \in Int
                       /\ buf_idx[t] <= KB_BUFFER_SIZE /\ num_char[t] \in Nat
                       /\ enter_flag[t] \in 0 .. 1 /\ typed[t] \in Seq(Chars)
  BY SizeAssumption, BoundAssumption DEF TypeOK, Buffers
<1>c. curr_term \in Terms /\ active_term \in Terms /\ t0 \in Terms
  BY DEF TypeOK, t0
<1>1. CASE UNCHANGED <<line, enter_flag, typed, clean>>
  BY <1>1 DEF line, Line
<1>2. ASSUME NEW c \in Letters, TypeLetter(c) PROVE \A t \in Terms : Line(t)'
  <2>1. c \in Chars \ {Newline}
    BY CharAssumption DEF Chars
  <2>2. \A t \in Terms \ {t0} : num_char'[t] = num_char[t]
    BY <1>2 DEF TypeLetter, Counted, TypeOK
  <2> QED BY <1>2, <2>1, <2>2, CharacterTyped DEF TypeLetter
<1>3. CASE TypeTab
  <2>1. Tab \in Chars \ {Newline}
    BY CharAssumption DEF Chars
  <2>2. \A t \in Terms \ {t0} : num_char'[t] = num_char[t]
    BY <1>3 DEF TypeTab, Counted, TypeOK
  <2>3. Room(KB_BUFFER_SIZE - 1) => num_char' = Counted(1)
    BY <1>3 DEF TypeTab
  <2> QED BY <1>3, <2>1, <2>2, <2>3, CharacterTyped DEF TypeTab
<1>4. ASSUME NEW t \in Terms,
             /\ key_buffer'[t] = key_buffer[t] /\ buf_idx'[t] = buf_idx[t]
             /\ num_char'[t] = num_char[t] /\ enter_flag'[t] = enter_flag[t]
             /\ typed'[t] = typed[t] /\ clean'[t] = clean[t]
      PROVE  Line(t)'
  BY <1>4 DEF Line
<1>5. CASE TypeEnter
  <2>1. ASSUME NEW t \in Terms \ {t0} PROVE Line(t)'
    BY <1>4, <1>5, <2>1
       DEF TypeEnter, Store, NoneErasable, set_enter_flag, Edited, TypeOK
  <2>2. Line(t0)'
    <3> DEFINE t == t0
    <3> SUFFICES ASSUME clean'[t]
                 PROVE  InStep(key_buffer'[t], buf_idx'[t], num_char'[t], enter_flag'[t], typed'[t])
      BY <1>5 DEF Line, TypeEnter, t0
    <3>1. clean[t] /\ num_char'[t] = 0 /\ enter_flag'[t] = 1
      BY <1>5, <1>c DEF TypeEnter, Edited, NoneErasable, set_enter_flag, TypeOK
    <3>2. InStep(key_buffer[t], buf_idx[t], num_char[t], enter_flag[t], typed[t])
      BY <1>c, <3>1 DEF Line
    <3>3. CASE Room(KB_BUFFER_SIZE)
      <4>1. buf_idx[t] >= 0 /\ buf_idx[t] < KB_BUFFER_SIZE
        BY <1>t, <1>c, <3>2, <3>3, LenProperties DEF InStep, Room
      <4>2. /\ key_buffer'[t] = [key_buffer[t] EXCEPT ![buf_idx[t]] = Newline]
            /\ buf_idx'[t] = buf_idx[t] + 1
        BY <1>5, <1>c, <3>3, <4>1 DEF TypeEnter, Store, TypeOK
      <4>3. typed'[t] = Append(typed[t], Newline)
        BY <1>5, <1>c, <3>1, <3>3 DEF TypeEnter, Edited, TypeOK
      <4>4. InStep([key_buffer[t] EXCEPT ![buf_idx[t]] = Newline], buf_idx[t] + 1, 0, 1,
                   Append(typed[t], Newline))
        BY <1>t, <1>c, <3>2, <4>1, NewlineStored
      <4> QED BY <3>1, <4>2, <4>3, <4>4
    <3>4. CASE ~Room(KB_BUFFER_SIZE)
      <4>1. buf_idx[t] = KB_BUFFER_SIZE
        BY <1>t, <1>c, <3>4, SizeAssumption DEF Room
      <4>2. enter_flag[t] = 1
        BY <3>2, <4>1 DEF InStep
      <4>3. /\ key_buffer'[t] = key_buffer[t] /\ buf_idx'[t] = buf_idx[t]
            /\ typed'[t] = typed[t]
        BY <1>5, <1>c, <3>1, <3>4 DEF TypeEnter, Store, Edited, TypeOK
      <4>4. InStep(key_buffer[t], buf_idx[t], 0, enter_flag[t], typed[t])
        BY <1>t, <1>c, <3>2, NoneLeft
      <4> QED BY <3>1, <4>2, <4>3, <4>4
    <3> QED BY <3>3, <3>4
  <2>3. t0' = t0
    BY <1>5 DEF TypeEnter, t0
  <2> QED BY <2>1, <2>2, <2>3
<1>6. CASE TypeBackspace
  <2>1. ASSUME NEW t \in Terms \ {t0} PROVE Line(t)'
    BY <1>4, <1>6, <2>1 DEF TypeBackspace, StepBack, Edited, TypeOK
  <2>2. Line(t0)'
    <3> DEFINE t == t0
    <3> SUFFICES ASSUME clean'[t]
                 PROVE  InStep(key_buffer'[t], buf_idx'[t], num_char'[t], enter_flag'[t], typed'[t])
      BY <1>6 DEF Line, TypeBackspace, t0
    <3>1. clean[t] /\ typed'[t] = SubSeq(typed[t], 1, Len(typed[t]) - 1)
      BY <1>6, <1>c DEF TypeBackspace, Edited, TypeOK
    <3>2. /\ num_char[t] > 0 /\ num_char'[t] = num_char[t] - 1 /\ buf_idx'[t] = buf_idx[t] - 1
          /\ key_buffer' = key_buffer /\ enter_flag' = enter_flag
      BY <1>6, <1>c DEF TypeBackspace, StepBack, TypeOK
    <3>3. InStep(key_buffer[t], buf_idx[t], num_char[t], enter_flag[t], typed[t])
      BY <1>c, <3>1 DEF Line
    <3>4. InStep(key_buffer[t], buf_idx[t] - 1, num_char[t] - 1, enter_flag[t],
                 SubSeq(typed[t], 1, Len(typed[t]) - 1))
      BY <1>t, <1>c, <3>2, <3>3, CharacterErased
    <3> QED BY <3>1, <3>2, <3>4
  <2>3. t0' = t0
    BY <1>6 DEF TypeBackspace, t0
  <2> QED BY <2>1, <2>2, <2>3
<1>7. CASE TypeCtrlL
  <2>1. ASSUME NEW t \in Terms \ {t0} PROVE Line(t)'
    <3>1. num_char'[t] = num_char[t] /\ key_buffer' = key_buffer /\ enter_flag' = enter_flag
      BY <1>7, <2>1 DEF TypeCtrlL, NoneErasable, TypeOK
    <3>2. buf_idx'[t] = buf_idx[t] /\ typed'[t] = typed[t] /\ clean'[t] = clean[t]
      BY <1>7, <2>1 DEF TypeCtrlL, Edited, TypeOK
    <3> QED BY <1>4, <3>1, <3>2
  <2>2. Line(t0)'
    <3> DEFINE t == t0
    <3> SUFFICES ASSUME clean'[t]
                 PROVE  InStep(key_buffer'[t], buf_idx'[t], num_char'[t], enter_flag'[t], typed'[t])
      BY <1>7 DEF Line, TypeCtrlL, t0
    <3>1. num_char'[t] = 0 /\ key_buffer' = key_buffer /\ enter_flag' = enter_flag
      BY <1>7, <1>c DEF TypeCtrlL, NoneErasable, TypeOK
    <3>2. CASE read_flag = 0
      <4>1. buf_idx'[t] = 0 /\ typed'[t] = <<>> /\ enter_flag[t] = 0
        BY <1>7, <1>c, <3>2 DEF TypeCtrlL, Edited, TypeOK
      <4> QED BY <3>1, <4>1, Emptied
    <3>3. CASE read_flag # 0
      <4>1. buf_idx'[t] = buf_idx[t] /\ typed'[t] = typed[t] /\ clean[t]
        BY <1>7, <1>c, <3>3 DEF TypeCtrlL
      <4>2. InStep(key_buffer[t], buf_idx[t], num_char[t], enter_flag[t], typed[t])
        BY <1>c, <4>1 DEF Line
      <4> QED BY <1>t, <1>c, <3>1, <4>1, <4>2, NoneLeft
    <3> QED BY <3>2, <3>3
  <2>3. t0' = t0
    BY <1>7 DEF TypeCtrlL, t0
  <2> QED BY <2>1, <2>2, <2>3
<1>8. CASE \/ CtrlC \/ ReadStart \/ ReadWake \/ Tick \/ (\E t \in Terms : Switch(t)) \/ UNCHANGED vars
  BY <1>1, <1>8 DEF CtrlC, ReadStart, ReadWake, Tick, Switch, vars, reading
<1>9. ASSUME NEW n \in Sizes, ReadCopy(n) PROVE \A t \in Terms : Line(t)'
  <2>1. ASSUME NEW t \in Terms \ {active_term} PROVE Line(t)'
    BY <1>4, <1>9, <2>1 DEF ReadCopy, TypeOK
  <2>2. Line(active_term)'
    <3> DEFINE t == active_term
    <3>1. /\ buf_idx'[t] = 0 /\ num_char'[t] = num_char[t] /\ enter_flag'[t] = 0
          /\ typed'[t] = <<>> /\ (clean'[t] => num_char[t] = 0) /\ active_term' = active_term
      BY <1>9, <1>c DEF ReadCopy, TypeOK
    <3> QED BY <3>1, Emptied DEF Line
  <2>3. active_term' = active_term
    BY <1>9 DEF ReadCopy
  <2> QED BY <2>1, <2>2, <2>3
<1> QED BY <1>2, <1>3, <1>5, <1>6, <1>7, <1>8, <1>9 DEF Next

\* Every step keeps the invariant.
LEMMA Inductive == Inv /\ [Next]_vars => Inv'
BY TypedInductive, LineInductive, WokenInductive DEF Inv

-----------------------------------------------------------------------------
\* The buffer holds the text as edited, for any number of terminals, any buffer and
\* every order of keys, reads, switches and ticks.
THEOREM Edits == Spec => []Faithful
<1>1. Inv => Faithful
  <2> SUFFICES ASSUME Inv, NEW t \in Terms, clean[t]
               PROVE  /\ buf_idx[t] = Len(typed[t])
                      /\ \A i \in 1 .. Len(typed[t]) : key_buffer[t][i - 1] = typed[t][i]
                      /\ enter_flag[t] = 1 <=> \E i \in 1 .. Len(typed[t]) : typed[t][i] = Newline
    BY DEF Faithful
  <2>1. InStep(key_buffer[t], buf_idx[t], num_char[t], enter_flag[t], typed[t])
    BY DEF Inv, Line
  <2>2. enter_flag[t] \in 0 .. 1
    BY DEF Inv, TypeOK
  <2> QED BY <2>1, <2>2 DEF InStep
<1> QED BY <1>1, Initially, Inductive, PTL DEF Spec

\* The length of the copy: up to the first newline, or n.
Length(kb, n, k) == /\ k = n \/ (k > 0 /\ kb[k - 1] = Newline)
                    /\ \A i \in 1 .. k - 1 : kb[i - 1] # Newline

\* If the buffer holds a text whose first newline is at p, there is such a length ...
LEMMA LengthExists ==
    ASSUME NEW kb, NEW p \in Nat \ {0}, NEW n \in Nat,
           kb[p - 1] = Newline, \A i \in 1 .. p - 1 : kb[i - 1] # Newline
    PROVE  \E k \in 0 .. n : Length(kb, n, k)
<1>1. CASE p <= n
  <2>1. p \in 0 .. n /\ Length(kb, n, p)
    BY <1>1 DEF Length
  <2> QED BY <2>1
<1>2. CASE n < p
  <2>1. n \in 0 .. n /\ Length(kb, n, n)
    BY <1>2 DEF Length
  <2> QED BY <2>1
<1> QED BY <1>1, <1>2

\* ... and it is at most p.
LEMMA LengthBounded ==
    ASSUME NEW kb, NEW p \in Nat \ {0}, NEW n \in Nat, NEW k \in 0 .. n, Length(kb, n, k),
           kb[p - 1] = Newline
    PROVE  k <= p
BY DEF Length

\* A read returns the first line that was ended on its terminal, cut to nbytes.
THEOREM Reads == Spec => []ReadsTheLine
<1>1. Inv => ReadsTheLine
  <2> SUFFICES ASSUME Inv, NEW t \in Terms, clean[t], pc[t] = "copy", NEW n \in Sizes
               PROVE  \E k \in 0 .. Len(typed[t]) :
                          /\ Copied(t, n) = SubSeq(typed[t], 1, k)
                          /\ \A i \in 1 .. k - 1 : typed[t][i] # Newline
                          /\ k = n \/ (k < n /\ k > 0 /\ typed[t][k] = Newline)
    BY DEF ReadsTheLine
  <2>1. /\ key_buffer[t] \in Buffers /\ num_char[t] \in Nat /\ typed[t] \in Seq(Chars)
        /\ n \in Nat /\ Len(typed[t]) \in Nat
    BY SizesAssumption, SizeAssumption, LenProperties DEF Inv, TypeOK, Buffers
  <2>2. InStep(key_buffer[t], buf_idx[t], num_char[t], 1, typed[t])
    <3>1. enter_flag[t] = 1
      BY DEF Inv, Woken
    <3> QED BY <3>1 DEF Inv, Line
  <2> DEFINE count == CHOOSE k \in 0 .. n : Length(key_buffer[t], n, k)
  <2>p. PICK p \in 1 .. Len(typed[t]) : /\ typed[t][p] = Newline
                                        /\ \A i \in 1 .. p - 1 : typed[t][i] # Newline
    BY <2>2 DEF InStep
  <2>e. \A i \in 1 .. Len(typed[t]) : key_buffer[t][i - 1] = typed[t][i]
    BY <2>2 DEF InStep
  <2>k. /\ p \in Nat \ {0} /\ key_buffer[t][p - 1] = Newline
        /\ \A i \in 1 .. p - 1 : key_buffer[t][i - 1] # Newline
    <3>1. key_buffer[t][p - 1] = typed[t][p]
      BY <2>e
    <3>2. \A i \in 1 .. p - 1 : key_buffer[t][i - 1] = typed[t][i]
      BY <2>1, <2>e
    <3>3. key_buffer[t][p - 1] = Newline
      BY <2>p, <3>1
    <3>4. \A i \in 1 .. p - 1 : key_buffer[t][i - 1] # Newline
      BY <2>p, <3>2
    <3>5. p \in Nat \ {0}
      BY <2>1
    <3> QED BY <3>3, <3>4, <3>5
  <2>3. count \in 0 .. n /\ Length(key_buffer[t], n, count)
    <3>1. \E k \in 0 .. n : Length(key_buffer[t], n, k)
      BY <2>1, <2>k, LengthExists
    <3> QED BY <3>1
  <2>4. Copied(t, n) = [i \in 1 .. count |-> key_buffer[t][i - 1]]
    BY DEF Copied, Length
  <2> HIDE DEF count
  <2>b. count <= p
    BY <2>1, <2>3, <2>k, LengthBounded
  <2>5. /\ count \in Nat /\ count <= Len(typed[t])
        /\ \A i \in 1 .. count : key_buffer[t][i - 1] = typed[t][i]
        /\ \A i \in 1 .. count - 1 : typed[t][i] # Newline
        /\ count = n \/ (count < n /\ count > 0 /\ typed[t][count] = Newline)
    <3>1. count \in Nat /\ count <= Len(typed[t])
      BY <2>1, <2>3, <2>b
    <3>2. \A i \in 1 .. count : key_buffer[t][i - 1] = typed[t][i]
      BY <2>1, <2>e, <3>1
    <3>3. \A i \in 1 .. count - 1 : typed[t][i] # Newline
      BY <2>1, <2>b, <2>p, <3>1
    <3>4. count = n \/ (count < n /\ count > 0 /\ typed[t][count] = Newline)
      BY <2>1, <2>3, <3>1, <3>2 DEF Length
    <3> QED BY <3>1, <3>2, <3>3, <3>4
  <2>6. SubSeq(typed[t], 1, count) = [i \in 1 .. count |-> typed[t][i]]
    BY <2>1, <2>3, <2>5
  <2>7. Copied(t, n) = SubSeq(typed[t], 1, count) /\ count \in 0 .. Len(typed[t])
    BY <2>1, <2>3, <2>4, <2>5, <2>6
  <2> QED BY <2>5, <2>7
<1> QED BY <1>1, Initially, Inductive, PTL DEF Spec
=============================================================================
