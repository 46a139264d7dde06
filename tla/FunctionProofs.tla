----------------------------- MODULE FunctionProofs -----------------------------
(***************************************************************************)
(* Proofs about the keyboard's scancodes, for every set of keys, about the *)
(* page tables, for every process and every page, and about the library's  *)
(* and the file system's routines: what they compute for every input, and  *)
(* with that the invariants of MCFunctions, for every value of its         *)
(* constants.  A loop is a function of its turns; that a turn keeps what   *)
(* the turns before it reached is proved by the least counterexample       *)
(* (Turns), and that the function exists at all by LoopExists.             *)
(***************************************************************************)
EXTENDS MCFunctions, FiniteSetTheorems, SequenceTheorems, WellFoundedInduction, TLAPS

\* While the Shift keys are not held together, the one flag is as good as the keys;
\* and when neither is held it is clear, also after they were.
ShiftFollowed == /\ Shifts \subseteq held => overlapped
                 /\ overlapped => held \cap Shifts # {}
                 /\ ~overlapped => (shift_flag = 1 <=> held \cap Shifts # {})

FlagsTyped == /\ shift_flag \in 0 .. 1 /\ ctrl_flag \in 0 .. 1 /\ alt_flag \in 0 .. 1
              /\ capslock_flag \in 0 .. 1 /\ held \subseteq Keys
              /\ locked \in BOOLEAN /\ overlapped \in BOOLEAN

OthersFollowed == /\ ctrl_flag = 1 <=> LEFT_CTRL \in held
                  /\ alt_flag = 1 <=> LEFT_ALT \in held
                  /\ capslock_flag = 1 <=> locked

EventFollowed == ~overlapped /\ event.kind = "letter" =>
                    (event.capital = 1 <=> IF IsLetter(event.key)
                                           THEN (held \cap Shifts # {}) # locked
                                           ELSE held \cap Shifts # {})

ScanInv == FlagsTyped /\ ShiftFollowed /\ OthersFollowed /\ EventFollowed

\* The two shift keys and the codes they send.
LEMMA ShiftSets == Shifts = {42, 54} /\ ShiftKeys = {42, 54, 170, 182}
<1>1. Shifts = {42, 54}
  BY DEF Shifts, LEFT_SHIFT, RIGHT_SHIFT
<1>2. {Released(k) : k \in Shifts} = {170, 182}
  <2>1. \A x : x \in {Released(k) : k \in Shifts} <=> x = Released(42) \/ x = Released(54)
    BY <1>1
  <2> QED BY <2>1 DEF Released
<1> QED BY <1>1, <1>2 DEF ShiftKeys

\* Both Shift keys, or either.
LEMMA ShiftHeld ==
    ASSUME NEW h
    PROVE  /\ Shifts \subseteq h <=> 42 \in h /\ 54 \in h
           /\ h \cap Shifts # {} <=> 42 \in h \/ 54 \in h
BY ShiftSets

\* What a scancode does to the flags.
LEMMA FlagsAfter ==
    ASSUME NEW c \in Nat, keyboard_handler(c)
    PROVE  /\ shift_flag' = ShiftAfter(c)
           /\ ctrl_flag' = CASE c = LEFT_CTRL -> 1 [] c = Released(LEFT_CTRL) -> 0 [] OTHER -> ctrl_flag
           /\ alt_flag' = CASE c = LEFT_ALT -> 1 [] c = Released(LEFT_ALT) -> 0 [] OTHER -> alt_flag
           /\ capslock_flag' = IF c = CAPSLOCK THEN 1 - capslock_flag ELSE capslock_flag
<1> USE DEF LEFT_CTRL, LEFT_ALT, CAPSLOCK, Released
<1>1. CASE check_function_key(c)
  BY <1>1 DEF check_function_key
<1>2. CASE Character(c)
  BY <1>2 DEF Character, OtherFunctionKeys, ShiftAfter
<1> QED BY <1>1, <1>2 DEF keyboard_handler

\* What it makes an event of: a character is no function key and no key that comes up.
LEMMA EventAfter ==
    ASSUME NEW c \in Nat, keyboard_handler(c), event'.kind = "letter"
    PROVE  /\ c < KEY_SIZE /\ c \notin ShiftKeys /\ c # CAPSLOCK
           /\ UNCHANGED <<shift_flag, capslock_flag>>
           /\ event'.key = c
           /\ event'.capital = IF IsLetter(c) THEN check_capital ELSE check_switch
<1>1. ~check_function_key(c)
  BY DEF check_function_key, NoEvent
<1>2. Character(c)
  BY <1>1 DEF keyboard_handler
<1>3. event' = [kind |-> Kind(c), key |-> c, capital |-> capital']
  BY <1>2 DEF Character
<1>4. Kind(c) = "letter"
  BY <1>3
<1>5. c < KEY_SIZE
  BY <1>4 DEF Kind, KEY_SIZE
<1> QED BY <1>2, <1>3, <1>4, <1>5 DEF Character, OtherFunctionKeys

\* The invariant of the keys is inductive.
LEMMA ScanInductive == ScanInv /\ [ScanNext]_scan => ScanInv'
<1> SUFFICES ASSUME ScanInv, [ScanNext]_scan PROVE ScanInv'
  OBVIOUS
<1> USE KeysAssumption
        DEF LEFT_SHIFT, RIGHT_SHIFT, LEFT_CTRL, LEFT_ALT, CAPSLOCK, Released, KEY_SIZE
<1>1. CASE UNCHANGED scan
  BY <1>1 DEF scan, flags, keys, ScanInv, FlagsTyped, ShiftFollowed, OthersFollowed, EventFollowed
<1>2. ASSUME NEW k \in Keys, NEW c \in {k, Released(k)}, keyboard_handler(c),
             c = k => held' = held \cup {k} /\ (k = CAPSLOCK => k \notin held),
             c = Released(k) => held' = held \ {k} /\ k \in held,
             locked' = (locked # (c = CAPSLOCK)), overlapped' = Overlap(held')
      PROVE  ScanInv'
  <2>1. k \in 0 .. 127 /\ c \in Nat /\ (c = k \/ c = k + 128)
    BY <1>2
  <2>2. /\ shift_flag' = ShiftAfter(c)
        /\ ctrl_flag' = CASE c = 29 -> 1 [] c = 157 -> 0 [] OTHER -> ctrl_flag
        /\ alt_flag' = CASE c = 56 -> 1 [] c = 184 -> 0 [] OTHER -> alt_flag
        /\ capslock_flag' = IF c = 58 THEN 1 - capslock_flag ELSE capslock_flag
    BY <1>2, <2>1, FlagsAfter
  <2>3. ShiftAfter(c) = IF c \in {42, 54} THEN 1 ELSE IF c \in {170, 182} THEN 0 ELSE shift_flag
    BY ShiftSets DEF ShiftAfter
  <2>4. FlagsTyped'
    BY <1>2, <2>1, <2>2, <2>3 DEF ScanInv, FlagsTyped, Overlap
  <2>5. OthersFollowed'
    <3>0. FlagsTyped /\ OthersFollowed
      BY DEF ScanInv
    <3>1. ctrl_flag' = 1 <=> 29 \in held'
      BY <1>2, <2>1, <2>2, <3>0 DEF FlagsTyped, OthersFollowed
    <3>2. alt_flag' = 1 <=> 56 \in held'
      BY <1>2, <2>1, <2>2, <3>0 DEF FlagsTyped, OthersFollowed
    <3>3. capslock_flag' = 1 <=> locked'
      <4>1. CASE c = 58
        <5>1. capslock_flag' = 1 - capslock_flag /\ capslock_flag \in 0 .. 1
          BY <2>2, <3>0, <4>1 DEF FlagsTyped
        <5>2. capslock_flag' = 1 <=> ~(capslock_flag = 1)
          BY <5>1
        <5>3. locked' = ~locked
          BY <1>2, <3>0, <4>1 DEF FlagsTyped
        <5> QED BY <3>0, <5>2, <5>3 DEF OthersFollowed
      <4>2. CASE c # 58
        <5>1. capslock_flag' = capslock_flag
          BY <2>2, <4>2
        <5>2. locked' = locked
          BY <1>2, <3>0, <4>2 DEF FlagsTyped
        <5> QED BY <3>0, <5>1, <5>2 DEF OthersFollowed
      <4> QED BY <4>1, <4>2
    <3> QED BY <3>1, <3>2, <3>3 DEF OthersFollowed
  <2>6. ShiftFollowed'
    <3>0. /\ 42 \in held /\ 54 \in held => overlapped
          /\ overlapped => 42 \in held \/ 54 \in held
          /\ ~overlapped => (shift_flag = 1 <=> 42 \in held \/ 54 \in held)
      BY ShiftHeld DEF ScanInv, ShiftFollowed
    <3>1. overlapped' <=> \/ 42 \in held' /\ 54 \in held'
                          \/ overlapped /\ (42 \in held' \/ 54 \in held')
      <4>1. overlapped' <=> Overlap(held')
        BY <1>2
      <4> QED BY <4>1, ShiftHeld DEF Overlap
    <3>2. ~overlapped' => (shift_flag' = 1 <=> 42 \in held' \/ 54 \in held')
      <4> SUFFICES ASSUME ~overlapped' PROVE shift_flag' = 1 <=> 42 \in held' \/ 54 \in held'
        OBVIOUS
      <4>1. CASE c \in {42, 54}
        <5>1. c = k /\ held' = held \cup {k} /\ shift_flag' = 1
          BY <1>2, <2>1, <2>2, <2>3, <4>1
        <5> QED BY <4>1, <5>1
      <4>2. CASE c \in {170, 182}
        <5>1. c = k + 128 /\ held' = held \ {k} /\ k \in held /\ shift_flag' = 0
          BY <1>2, <2>1, <2>2, <2>3, <4>2
        <5>2. k = 42 \/ k = 54
          BY <2>1, <4>2, <5>1
        <5>3. ~(42 \in held' \/ 54 \in held')
          BY <3>0, <3>1, <5>1, <5>2
        <5> QED BY <5>1, <5>3
      <4>3. CASE c \notin {42, 54, 170, 182}
        <5>1. shift_flag' = shift_flag
          BY <2>2, <2>3, <4>3
        <5>2. k # 42 /\ k # 54
          BY <2>1, <4>3
        <5>3. (42 \in held' <=> 42 \in held) /\ (54 \in held' <=> 54 \in held)
          BY <1>2, <2>1, <5>2
        <5>4. ~overlapped
          BY <3>0, <3>1, <5>3
        <5> QED BY <3>0, <5>1, <5>3, <5>4
      <4> QED BY <4>1, <4>2, <4>3
    <3> QED BY <3>1, <3>2, ShiftHeld DEF ShiftFollowed
  <2>7. EventFollowed'
    <3> SUFFICES ASSUME ~overlapped', event'.kind = "letter"
                 PROVE  event'.capital = 1 <=> IF IsLetter(event'.key)
                                               THEN (held' \cap Shifts # {}) # locked'
                                               ELSE held' \cap Shifts # {}
      BY DEF EventFollowed
    <3>1. /\ UNCHANGED <<shift_flag, capslock_flag>> /\ event'.key = c
          /\ event'.capital = IF IsLetter(c) THEN check_capital ELSE check_switch
      BY <1>2, <2>1, EventAfter
    <3>2. shift_flag = 1 <=> held' \cap Shifts # {}
      BY <2>6, <3>1 DEF ShiftFollowed
    <3>3. capslock_flag = 1 <=> locked'
      BY <2>5, <3>1 DEF OthersFollowed
    <3> QED BY <2>4, <3>1, <3>2, <3>3 DEF ScanInv, FlagsTyped, check_capital, check_switch
  <2> QED BY <2>4, <2>5, <2>6, <2>7 DEF ScanInv
<1>3. ASSUME NEW k \in Keys, Press(k) PROVE ScanInv'
  BY <1>2, <1>3 DEF Press
<1>4. ASSUME NEW k \in Keys, Repeat(k) PROVE ScanInv'
  <2>1. held' = held \cup {k} /\ locked' = (locked # (k = CAPSLOCK)) /\ k # CAPSLOCK
    BY <1>4 DEF Repeat, ScanInv, FlagsTyped
  <2>2. keyboard_handler(k) /\ overlapped' = Overlap(held')
    BY <1>4 DEF Repeat
  <2>3. k # Released(k)
    OBVIOUS
  <2> QED BY <1>2, <2>1, <2>2, <2>3
<1>5. ASSUME NEW k \in Keys, Release(k) PROVE ScanInv'
  <2>1. held' = held \ {k} /\ k \in held /\ Released(k) # CAPSLOCK /\ k # Released(k)
    BY <1>5 DEF Release
  <2>2. locked' = (locked # (Released(k) = CAPSLOCK))
    BY <1>5, <2>1 DEF Release, ScanInv, FlagsTyped
  <2>3. keyboard_handler(Released(k)) /\ overlapped' = Overlap(held')
    BY <1>5 DEF Release
  <2> QED BY <1>2, <2>1, <2>2, <2>3
<1> QED BY <1>1, <1>3, <1>4, <1>5 DEF ScanNext

\* Whatever keys are pressed, held and released in whatever order, the flags of
\* keyboard.c:215-338 say which of them are down, and a character comes out as they
\* and Caps Lock say, except while the two Shift keys overlap.
THEOREM Followed == ScanSpec => []KeysFollowed
<1>1. ScanInit => ScanInv
  <2> SUFFICES ASSUME ScanInit PROVE ScanInv
    OBVIOUS
  <2>1. FlagsTyped
    <3>1. held \subseteq Keys /\ locked \in BOOLEAN /\ overlapped \in BOOLEAN
      BY Zenon DEF ScanInit
    <3> QED BY <3>1 DEF ScanInit, FlagsTyped
  <2>2. ShiftFollowed
    BY ShiftHeld DEF ScanInit, ShiftFollowed
  <2>3. OthersFollowed
    BY DEF ScanInit, OthersFollowed
  <2>4. EventFollowed
    BY DEF ScanInit, EventFollowed, NoEvent
  <2> QED BY <2>1, <2>2, <2>3, <2>4 DEF ScanInv
<1>2. ScanInv => KeysFollowed
  BY DEF ScanInv, ShiftFollowed, OthersFollowed, EventFollowed, KeysFollowed
<1> QED BY <1>1, <1>2, ScanInductive, PTL DEF ScanSpec

-----------------------------------------------------------------------------
\* What page_init and setup_mem leave in the directory: the entry of the first 4MB
\* leads to page_table, the kernel's and the program's are 4MB pages, and no other is
\* present.
LEMMA Directory ==
    ASSUME NEW pid \in Nat, NEW index \in 0 .. NUM_PDE - 1
    PROVE  LET e == page_directory(pid)[index] IN
           /\ index = 0 => e.present /\ ~e.U_S /\ ~e.p_s
           /\ index = KERNEL_ADDR => e.present /\ ~e.U_S /\ e.p_s /\ e.addr = KERNEL_ADDR
           /\ index = USER_LEVEL_INDEX => e.present /\ e.U_S /\ e.p_s /\ e.addr = Frame(pid)
           /\ index = USER_VM_INDEX => e.present /\ e.U_S /\ ~e.p_s
           /\ index \notin {0, KERNEL_ADDR, USER_LEVEL_INDEX, USER_VM_INDEX} => ~e.present
<1> DEFINE e == page_directory(pid)[index]
           table == [present |-> TRUE, U_S |-> FALSE, p_s |-> FALSE, addr |-> 0]
           unused == [present |-> FALSE, U_S |-> FALSE, p_s |-> TRUE, addr |-> 0]
<1> HIDE DEF e
<1>1. set_init_PDE(index, 0) = table /\ set_init_PDE(index, 1) = unused
  <2>1. (0 = 0) = TRUE /\ (0 = 1) = FALSE /\ (1 = 0) = FALSE /\ (1 = 1) = TRUE
    OBVIOUS
  <2> QED BY <2>1, Zenon DEF set_init_PDE
<1>2. pid # None /\ KERNEL_ADDR = 1 /\ USER_LEVEL_INDEX = 32 /\ USER_VM_INDEX = 33
  BY DEF None, KERNEL_ADDR, USER_LEVEL_INDEX, USER_VM_INDEX
<1>3. e = CASE index = KERNEL_ADDR      -> Present(unused, KERNEL_ADDR)
             [] index = USER_LEVEL_INDEX -> [User(unused) EXCEPT !.addr = Frame(pid)]
             [] index = USER_VM_INDEX    -> [User(unused) EXCEPT !.p_s = FALSE]
             [] OTHER                    -> IF index = 0 THEN table ELSE unused
  <2>1. e = LET d == IF index = 0 THEN table ELSE unused IN
            CASE index = KERNEL_ADDR      -> Present(d, KERNEL_ADDR)
              [] index = USER_LEVEL_INDEX -> [User(d) EXCEPT !.addr = Frame(pid)]
              [] index = USER_VM_INDEX    -> [User(d) EXCEPT !.p_s = FALSE]
              [] OTHER                    -> d
    <3>1. set_init_PDE(index, IF index = 0 THEN 0 ELSE 1) = IF index = 0 THEN table ELSE unused
      <4>1. CASE index = 0
        BY <1>1, <4>1, Zenon
      <4>2. CASE index # 0
        BY <1>1, <4>2, Zenon
      <4> QED BY <4>1, <4>2
    <3>2. (IF pid = None THEN 0 ELSE Frame(pid)) = Frame(pid)
      BY <1>2
    <3>3. e = LET d == set_init_PDE(index, IF index = 0 THEN 0 ELSE 1) IN
              CASE index = KERNEL_ADDR      -> Present(d, KERNEL_ADDR)
                [] index = USER_LEVEL_INDEX -> [User(d) EXCEPT !.addr = IF pid = None THEN 0 ELSE Frame(pid)]
                [] index = USER_VM_INDEX    -> [User(d) EXCEPT !.p_s = FALSE]
                [] OTHER                    -> d
      BY DEF e, page_directory
    <3> HIDE DEF table, unused
    <3> QED BY <3>1, <3>2, <3>3, Zenon
  <2> DEFINE d == IF index = 0 THEN table ELSE unused
  <2>2. index \in {1, 32, 33} => d = unused
    OBVIOUS
  <2>3. e = CASE index = KERNEL_ADDR      -> Present(d, KERNEL_ADDR)
              [] index = USER_LEVEL_INDEX -> [User(d) EXCEPT !.addr = Frame(pid)]
              [] index = USER_VM_INDEX    -> [User(d) EXCEPT !.p_s = FALSE]
              [] OTHER                    -> d
    BY <2>1, Zenon
  <2> HIDE DEF table, unused, d
  <2>4. CASE index \in {1, 32, 33}
    <3>1. d = unused
      BY <2>2, <2>4
    <3> QED BY <1>2, <2>3, <2>4, <3>1
  <2>5. CASE index \notin {1, 32, 33}
    <3>1. e = d
      BY <1>2, <2>3, <2>5
    <3>2. index # KERNEL_ADDR /\ index # USER_LEVEL_INDEX /\ index # USER_VM_INDEX
      BY <1>2, <2>5
    <3> QED BY <3>1, <3>2 DEF d
  <2> QED BY <2>4, <2>5
<1>4. CASE index = 0
  BY <1>2, <1>3, <1>4 DEF e
<1>5. CASE index = KERNEL_ADDR
  <2> HIDE DEF unused, table
  <2>1. e = [unused EXCEPT !.present = TRUE, !.addr = KERNEL_ADDR]
    BY <1>2, <1>3, <1>5 DEF Present
  <2>2. e.present /\ ~e.U_S /\ e.p_s /\ e.addr = KERNEL_ADDR
    BY <2>1 DEF unused
  <2> QED BY <1>2, <1>5, <2>2 DEF e
<1>6. CASE index = USER_LEVEL_INDEX
  <2> HIDE DEF unused, table
  <2>1. e = [[unused EXCEPT !.present = TRUE, !.U_S = TRUE] EXCEPT !.addr = Frame(pid)]
    BY <1>2, <1>3, <1>6 DEF User
  <2>2. e.present /\ e.U_S /\ e.p_s /\ e.addr = Frame(pid)
    BY <2>1 DEF unused
  <2> QED BY <1>2, <1>6, <2>2 DEF e
<1>7. CASE index = USER_VM_INDEX
  <2> HIDE DEF unused, table
  <2>1. e = [[unused EXCEPT !.present = TRUE, !.U_S = TRUE] EXCEPT !.p_s = FALSE]
    BY <1>2, <1>3, <1>7 DEF User
  <2>2. e.present /\ e.U_S /\ ~e.p_s
    BY <2>1 DEF unused
  <2> QED BY <1>2, <1>7, <2>2 DEF e
<1>8. CASE index \notin {0, KERNEL_ADDR, USER_LEVEL_INDEX, USER_VM_INDEX}
  BY <1>2, <1>3, <1>8 DEF e
<1> QED BY <1>4, <1>5, <1>6, <1>7, <1>8

\* The two page tables: video pages, the first two of which change places for the kernel.
LEMMA Tables ==
    ASSUME NEW page \in 0 .. NUM_PDE - 1
    PROVE  /\ ~page_table[page].U_S
           /\ page_table[page].present => \/ page_table[page].addr = page
                                          \/ {page_table[page].addr, page} = {VM_INDEX, VM_T0}
           /\ page_vm_table[page].present => /\ page_vm_table[page].U_S
                                             /\ page_vm_table[page].addr \in VideoPages
<1> DEFINE e == [present |-> FALSE, U_S |-> FALSE, addr |-> page]
<1>0. set_init_PTE(page) = e
  BY DEF set_init_PTE
<1>1. /\ ~page_table[page].U_S
      /\ page_table[page].present => \/ page_table[page].addr = page
                                     \/ page = VM_INDEX /\ page_table[page].addr = VM_T0
                                     \/ page = VM_T0 /\ page_table[page].addr = VM_INDEX
  <2>1. page_table[page] = CASE page = VM_INDEX        -> Present(e, VM_T0)
                             [] page = VM_T0           -> Present(e, VM_INDEX)
                             [] page \in {VM_T1, VM_T2} -> Present(e, page)
                             [] OTHER               -> e
    BY <1>0 DEF page_table
  <2>2. CASE page = VM_INDEX
    BY <2>1, <2>2, ZenonT(60) DEF Present, VM_INDEX, VM_T0, VM_T1, VM_T2
  <2>3. CASE page = VM_T0
    BY <2>1, <2>3, ZenonT(60) DEF Present, VM_INDEX, VM_T0, VM_T1, VM_T2
  <2>4. CASE page \in {VM_T1, VM_T2}
    <3>1. page # VM_INDEX /\ page # VM_T0
      BY <2>4 DEF VM_INDEX, VM_T0, VM_T1, VM_T2
    <3>2. page_table[page] = Present(e, page)
      BY <2>1, <2>4, <3>1
    <3> QED BY <3>2 DEF Present
  <2>5. CASE page \notin {VM_INDEX, VM_T0, VM_T1, VM_T2}
    BY <2>1, <2>5
  <2> QED BY <2>2, <2>3, <2>4, <2>5
<1>2. page_vm_table[page].present => /\ page_vm_table[page].U_S
                                     /\ page_vm_table[page].addr \in VideoPages
  <2> DEFINE frames == <<VM_INDEX, VM_T1, VM_T2>>
  <2>1. page_vm_table[page] = IF page \in 0 .. 2 THEN [User(e) EXCEPT !.addr = frames[page + 1]] ELSE e
    BY <1>0 DEF page_vm_table
  <2>2. CASE page \notin 0 .. 2
    BY <2>1, <2>2
  <2>3. CASE page \in 0 .. 2
    <3>1. frames[page + 1] \in VideoPages
      <4>1. page = 0 \/ page = 1 \/ page = 2
        BY <2>3
      <4>2. frames[1] = VM_INDEX /\ frames[2] = VM_T1 /\ frames[3] = VM_T2
        OBVIOUS
      <4> QED BY <4>1, <4>2 DEF VideoPages
    <3> HIDE DEF frames
    <3>2. page_vm_table[page] = [[e EXCEPT !.present = TRUE, !.U_S = TRUE] EXCEPT !.addr = frames[page + 1]]
      BY <2>1, <2>3 DEF User
    <3> QED BY <3>1, <3>2
  <2> QED BY <2>2, <2>3
<1> QED BY <1>1, <1>2

\* However many processes there are and whatever address one uses, it reaches its own
\* 4MB, the video pages or nothing, and the kernel sees the same byte there
\* (paging.c:31-91, 200-204).
THEOREM Confinement == \A pid \in Nat, index \in 0 .. NUM_PDE - 1 : Confined(pid, index)
<1> SUFFICES ASSUME NEW pid \in Nat, NEW index \in 0 .. NUM_PDE - 1, NEW page \in 0 .. NUM_PDE - 1
             PROVE  LET user   == Translate(pid, index, page, TRUE)
                        kernel == Translate(pid, index, page, FALSE)
                    IN /\ user # None => user \in ((8 + 4 * pid) * 256 .. (12 + 4 * pid) * 256 - 1)
                                                  \cup VideoPages
                       /\ user # None => kernel = user
                       /\ index <= 1 /\ kernel # None =>
                              kernel = index * NUM_PDE + page \/ {kernel, page} = {VM_INDEX, VM_T0}
  BY DEF Confined
<1> DEFINE e == page_directory(pid)[index]
<1> HIDE DEF e
<1>t. /\ Translate(pid, index, page, TRUE) =
            IF ~e.present \/ ~e.U_S THEN None
            ELSE IF e.p_s THEN e.addr * NUM_PDE + page
            ELSE IF ~Table(index)[page].present \/ ~Table(index)[page].U_S THEN None
            ELSE Table(index)[page].addr
      /\ Translate(pid, index, page, FALSE) =
            IF ~e.present THEN None
            ELSE IF e.p_s THEN e.addr * NUM_PDE + page
            ELSE IF ~Table(index)[page].present THEN None
            ELSE Table(index)[page].addr
  BY DEF Translate, e
<1>u. KERNEL_ADDR = 1 /\ USER_LEVEL_INDEX = 32 /\ USER_VM_INDEX = 33 /\ NUM_PDE = 1024
  BY DEF KERNEL_ADDR, USER_LEVEL_INDEX, USER_VM_INDEX, NUM_PDE
<1>1. CASE index = 0
  <2>1. e.present /\ ~e.U_S /\ ~e.p_s
    BY <1>1, Directory DEF e
  <2>2. Table(index) = page_table
    BY <1>1, <1>u DEF Table
  <2>3. Translate(pid, index, page, TRUE) = None
    BY <1>t, <2>1
  <2>4. Translate(pid, index, page, FALSE) \in {None, page_table[page].addr}
    BY <1>t, <2>1, <2>2
  <2>5. Translate(pid, index, page, FALSE) # None => page_table[page].present
    BY <1>t, <2>1, <2>2
  <2>6. index * NUM_PDE + page = page
    BY <1>1, <1>u
  <2> QED BY <2>3, <2>4, <2>5, <2>6, Tables
<1>2. CASE index = KERNEL_ADDR
  <2>1. e.present /\ ~e.U_S /\ e.p_s /\ e.addr = KERNEL_ADDR
    BY <1>2, Directory DEF e
  <2>2. /\ Translate(pid, index, page, TRUE) = None
        /\ Translate(pid, index, page, FALSE) = KERNEL_ADDR * NUM_PDE + page
    BY <1>t, <2>1
  <2> QED BY <1>2, <2>2
<1>3. CASE index = USER_LEVEL_INDEX
  <2>1. e.present /\ e.U_S /\ e.p_s /\ e.addr = Frame(pid)
    BY <1>3, Directory DEF e
  <2>2. /\ Translate(pid, index, page, TRUE) = (2 + pid) * 1024 + page
        /\ Translate(pid, index, page, FALSE) = (2 + pid) * 1024 + page
    <3>1. Frame(pid) * NUM_PDE = (2 + pid) * 1024
      BY <1>u DEF Frame
    <3>2. /\ Translate(pid, index, page, TRUE) = e.addr * NUM_PDE + page
          /\ Translate(pid, index, page, FALSE) = e.addr * NUM_PDE + page
      BY <1>t, <2>1, Zenon
    <3>3. e.addr * NUM_PDE = (2 + pid) * 1024
      BY <2>1, <3>1, ZenonT(60)
    <3> QED BY <3>2, <3>3, ZenonT(60)
  <2>3. (2 + pid) * 1024 + page \in ((8 + 4 * pid) * 256 .. (12 + 4 * pid) * 256 - 1)
    BY <1>u
  <2>4. ~(index <= 1)
    BY <1>3, <1>u
  <2> DEFINE own == (2 + pid) * 1024 + page
             memory == ((8 + 4 * pid) * 256 .. (12 + 4 * pid) * 256 - 1)
  <2> HIDE DEF own, memory
  <2>5. Translate(pid, index, page, TRUE) = own /\ Translate(pid, index, page, FALSE) = own
        /\ own \in memory
    BY <2>2, <2>3, ZenonT(60) DEF own, memory
  <2> QED BY <2>4, <2>5 DEF memory
<1>4. CASE index = USER_VM_INDEX
  <2>1. e.present /\ e.U_S /\ ~e.p_s
    BY <1>4, Directory DEF e
  <2>2. Table(index) = page_vm_table
    BY <1>4 DEF Table
  <2>3. ~(index <= 1)
    BY <1>4, <1>u
  <2>4. /\ Translate(pid, index, page, TRUE) # None =>
                /\ page_vm_table[page].present
                /\ Translate(pid, index, page, TRUE) = page_vm_table[page].addr
                /\ Translate(pid, index, page, FALSE) = page_vm_table[page].addr
    BY <1>t, <2>1, <2>2
  <2>5. page_vm_table[page].present => page_vm_table[page].addr \in VideoPages
    BY Tables
  <2> QED BY <2>3, <2>4, <2>5
<1>5. CASE index \notin {0, KERNEL_ADDR, USER_LEVEL_INDEX, USER_VM_INDEX}
  <2>1. ~e.present
    BY <1>5, Directory DEF e
  <2>2. Translate(pid, index, page, TRUE) = None /\ Translate(pid, index, page, FALSE) = None
    BY <1>t, <2>1
  <2> QED BY <2>2
<1> QED BY <1>1, <1>2, <1>3, <1>4, <1>5

\* Induction over the turns of a loop, for a set of turns given as such.
LEMMA Turns ==
    ASSUME NEW n \in Nat, NEW P, 0 \in P, \A k \in 1 .. n : k - 1 \in P => k \in P
    PROVE  \A k \in 0 .. n : k \in P
<1> DEFINE R == OpToRel(<, Nat)
           B == {i \in 0 .. n : i \notin P}
<1> SUFFICES ASSUME B # {} PROVE FALSE
  OBVIOUS
<1>1. B \subseteq Nat
  OBVIOUS
<1>2. \A i, j \in Nat : i < j => <<i, j>> \in R
  BY DEF OpToRel
<1>3. \E i \in B : \A j \in B : ~ (<<j, i>> \in R)
  <2> HIDE DEF R, B
  <2>1. IsWellFoundedOn(R, Nat)
    BY NatLessThanWellFounded DEF R
  <2> QED BY <1>1, <2>1, WFMin
<1>4. PICK i \in B : \A j \in B : ~ (j < i)
  BY <1>1, <1>2, <1>3
<1>5. i # 0 /\ i - 1 \in 0 .. n /\ i - 1 < i
  BY <1>4
<1>6. i - 1 \in P
  BY <1>4, <1>5
<1> QED BY <1>4, <1>5, <1>6

\* Two loops that start and go on alike.
LEMMA SameTurns ==
    ASSUME NEW n \in Nat, NEW f, NEW g, f[0] = g[0],
           \A k \in 1 .. n : f[k - 1] = g[k - 1] => f[k] = g[k]
    PROVE  \A k \in 0 .. n : f[k] = g[k]
<1> DEFINE P == {k \in 0 .. n : f[k] = g[k]}
<1>1. 0 \in P
  OBVIOUS
<1>2. ASSUME NEW k \in 1 .. n, k - 1 \in P PROVE k \in P
  <2>1. f[k - 1] = g[k - 1] /\ k \in 0 .. n
    BY <1>2
  <2> QED BY <2>1
<1>3. \A k \in 0 .. n : k \in P
  <2> HIDE DEF P
  <2> QED BY <1>1, <1>2, Turns, Zenon
<1> QED BY <1>3

Alike(f, g, n) == f[0] = g[0] /\ \A k \in 1 .. n : f[k - 1] = g[k - 1] => f[k] = g[k]

\* SameTurns, with its hypotheses as one.
LEMMA AlikeTurns ==
    ASSUME NEW n \in Nat, NEW f, NEW g, Alike(f, g, n)
    PROVE  \A k \in 0 .. n : f[k] = g[k]
BY SameTurns DEF Alike

\* A loop of n turns over states of S: what the k-th turn makes of each, and the states
\* it goes through.
Bodies(n, S) == [1 .. n -> [S -> S]]
Runs(n, S, start, step) ==
    {f \in [0 .. n -> S] : f[0] = start /\ \A k \in 1 .. n : f[k] = step[k][f[k - 1]]}

\* There are such states.
LEMMA LoopExists ==
    ASSUME NEW n \in Nat, NEW S, NEW start \in S, NEW step \in Bodies(n, S)
    PROVE  \E f : f \in Runs(n, S, start, step)
<1> USE DEF Bodies
<1> DEFINE Upto(i) == \E f \in [0 .. i -> S] :
                          f[0] = start /\ \A k \in 1 .. i : f[k] = step[k][f[k - 1]]
           P == {i \in 0 .. n : Upto(i)}
<1>1. 0 \in P
  <2> DEFINE f == [k \in 0 .. 0 |-> start]
  <2>1. f \in [0 .. 0 -> S] /\ f[0] = start /\ \A k \in 1 .. 0 : f[k] = step[k][f[k - 1]]
    OBVIOUS
  <2>2. Upto(0)
    BY <2>1
  <2> QED BY <2>2
<1>2. ASSUME NEW i \in 1 .. n, i - 1 \in P PROVE i \in P
  <2>1. PICK f \in [0 .. i - 1 -> S] :
            f[0] = start /\ \A k \in 1 .. i - 1 : f[k] = step[k][f[k - 1]]
    BY <1>2
  <2> DEFINE g == [k \in 0 .. i |-> IF k = i THEN step[i][f[i - 1]] ELSE f[k]]
  <2>2. f[i - 1] \in S /\ step[i][f[i - 1]] \in S
    BY <2>1
  <2>3. g \in [0 .. i -> S]
    BY <2>2
  <2>4. g[0] = start
    BY <2>1
  <2>5. ASSUME NEW k \in 1 .. i PROVE g[k] = step[k][g[k - 1]]
    <3>1. g[k - 1] = f[k - 1]
      OBVIOUS
    <3> QED BY <2>1, <3>1
  <2>6. Upto(i)
    <3>1. g \in [0 .. i -> S] /\ g[0] = start /\ \A k \in 1 .. i : g[k] = step[k][g[k - 1]]
      BY <2>3, <2>4, <2>5
    <3> HIDE DEF g
    <3> QED BY <3>1
  <2> HIDE DEF Upto
  <2> QED BY <2>6
<1>3. \A k \in 0 .. n : k \in P
  <2> HIDE DEF P
  <2> QED BY <1>1, <1>2, Turns, Zenon
<1>4. Upto(n)
  BY <1>3
<1>5. PICK f \in [0 .. n -> S] : f[0] = start /\ \A k \in 1 .. n : f[k] = step[k][f[k - 1]]
  BY <1>4
<1>6. f \in Runs(n, S, start, step)
  BY <1>5 DEF Runs
<1> QED BY <1>6

-----------------------------------------------------------------------------
\* A move of n bytes up never reads a byte it has written, one down neither.
UpSafe(d, s, n) == s >= d \/ s + n <= d

\* Two moves in a row are one of the whole.
LEMMA CopiedTwice ==
    ASSUME NEW m, DOMAIN m \subseteq Int, NEW d \in Int, NEW s \in Int, NEW a \in Nat, NEW b \in Nat,
           s .. s + a + b - 1 \subseteq DOMAIN m, UpSafe(d, s, a + b)
    PROVE  Copied(Copied(m, d, s, a), d + a, s + a, b) = Copied(m, d, s, a + b)
<1> DEFINE c == Copied(m, d, s, a)
<1>1. DOMAIN c = DOMAIN m
  BY DEF Copied
<1>2. ASSUME NEW x \in DOMAIN m
      PROVE  Copied(c, d + a, s + a, b)[x] = Copied(m, d, s, a + b)[x]
  <2>1. CASE x \in d + a .. d + a + b - 1
    <3>1. x - (d + a) + (s + a) = x - d + s /\ x - d + s \in DOMAIN m
      BY <2>1
    <3>2. c[x - d + s] = m[x - d + s]
      BY <2>1, <3>1 DEF UpSafe, Copied
    <3>3. Copied(c, d + a, s + a, b)[x] = c[x - d + s]
      <4> HIDE DEF c
      <4> QED BY <1>1, <2>1, <3>1 DEF Copied
    <3> QED BY <2>1, <3>2, <3>3 DEF Copied
  <2>2. CASE x \notin d + a .. d + a + b - 1
    <3>1. Copied(c, d + a, s + a, b)[x] = c[x]
      <4> HIDE DEF c
      <4> QED BY <1>1, <2>2 DEF Copied
    <3> QED BY <2>2, <3>1 DEF Copied
  <2> QED BY <2>1, <2>2
<1> HIDE DEF c
<1> QED BY <1>1, <1>2 DEF Copied, c

\* A move of no bytes changes nothing.
LEMMA CopiedNone ==
    ASSUME NEW m, DOMAIN m \subseteq Int, NEW d \in Int, NEW s \in Int, m = [x \in DOMAIN m |-> m[x]]
    PROVE  Copied(m, d, s, 0) = m
BY DEF Copied

\* The loop up is a move at once, where the regions allow it.
LEMMA UpCopies ==
    ASSUME NEW m, DOMAIN m \subseteq Int, m = [x \in DOMAIN m |-> m[x]],
           NEW d \in Int, NEW s \in Int, NEW n \in Nat,
           s .. s + n - 1 \subseteq DOMAIN m, UpSafe(d, s, n)
    PROVE  Up(m, d, s, n) = Copied(m, d, s, n)
<1> DEFINE f == CHOOSE mem : mem = [k \in 0 .. n |-> IF k = 0 THEN m
                                       ELSE Copied(mem[k - 1], d + k - 1, s + k - 1, 1)]
           g == [k \in 0 .. n |-> Copied(m, d, s, k)]
<1>1. g = [k \in 0 .. n |-> IF k = 0 THEN m ELSE Copied(g[k - 1], d + k - 1, s + k - 1, 1)]
  <2>1. ASSUME NEW k \in 0 .. n, k # 0
        PROVE  g[k] = Copied(g[k - 1], d + k - 1, s + k - 1, 1)
    <3>1. k - 1 \in Nat /\ 1 \in Nat /\ s .. s + (k - 1) + 1 - 1 \subseteq DOMAIN m /\ UpSafe(d, s, k - 1 + 1)
      BY <2>1 DEF UpSafe
    <3>2. Copied(Copied(m, d, s, k - 1), d + (k - 1), s + (k - 1), 1) = Copied(m, d, s, k - 1 + 1)
      BY <3>1, CopiedTwice
    <3>3. d + (k - 1) = d + k - 1 /\ s + (k - 1) = s + k - 1 /\ k - 1 + 1 = k
      OBVIOUS
    <3>4. g[k - 1] = Copied(m, d, s, k - 1) /\ g[k] = Copied(m, d, s, k)
      BY <2>1
    <3> QED BY <3>2, <3>3, <3>4
  <2>2. g[0] = m
    BY CopiedNone
  <2> QED BY <2>1, <2>2
<1>2. f = [k \in 0 .. n |-> IF k = 0 THEN m ELSE Copied(f[k - 1], d + k - 1, s + k - 1, 1)]
  BY <1>1, Zenon
<1>3. Up(m, d, s, n) = f[n]
  BY Zenon DEF Up
<1> HIDE DEF f, g
<1>4. f[0] = g[0]
  BY <1>1, <1>2
<1>5. ASSUME NEW k \in 1 .. n, f[k - 1] = g[k - 1] PROVE f[k] = g[k]
  BY <1>1, <1>2, <1>5, SMTT(40)
<1>6. \A k \in 0 .. n : f[k] = g[k]
  BY <1>4, <1>5, SameTurns
<1>7. f[n] = g[n]
  BY <1>6
<1> QED BY <1>3, <1>7 DEF g

\* So is the loop over four bytes at a time.
LEMMA DwordsCopy ==
    ASSUME NEW m, DOMAIN m \subseteq Int, m = [x \in DOMAIN m |-> m[x]],
           NEW d \in Int, NEW s \in Int, NEW n \in Nat,
           s .. s + 4 * n - 1 \subseteq DOMAIN m, UpSafe(d, s, 4 * n)
    PROVE  Dwords(m, d, s, n) = Copied(m, d, s, 4 * n)
<1> DEFINE f == CHOOSE mem : mem = [k \in 0 .. n |-> IF k = 0 THEN m
                                       ELSE Copied(mem[k - 1], d + 4 * (k - 1), s + 4 * (k - 1), 4)]
           g == [k \in 0 .. n |-> Copied(m, d, s, 4 * k)]
<1>1. g = [k \in 0 .. n |-> IF k = 0 THEN m ELSE Copied(g[k - 1], d + 4 * (k - 1), s + 4 * (k - 1), 4)]
  <2>1. ASSUME NEW k \in 0 .. n, k # 0
        PROVE  g[k] = Copied(g[k - 1], d + 4 * (k - 1), s + 4 * (k - 1), 4)
    <3>1. /\ 4 * (k - 1) \in Nat /\ 4 \in Nat
          /\ s .. s + 4 * (k - 1) + 4 - 1 \subseteq DOMAIN m /\ UpSafe(d, s, 4 * (k - 1) + 4)
      BY <2>1 DEF UpSafe
    <3>2. Copied(Copied(m, d, s, 4 * (k - 1)), d + 4 * (k - 1), s + 4 * (k - 1), 4)
          = Copied(m, d, s, 4 * (k - 1) + 4)
      BY <3>1, CopiedTwice
    <3>3. 4 * (k - 1) + 4 = 4 * k
      OBVIOUS
    <3>4. g[k - 1] = Copied(m, d, s, 4 * (k - 1)) /\ g[k] = Copied(m, d, s, 4 * k)
      BY <2>1
    <3> QED BY <3>2, <3>3, <3>4
  <2>2. g[0] = m
    BY CopiedNone
  <2> QED BY <2>1, <2>2
<1>2. f = [k \in 0 .. n |-> IF k = 0 THEN m ELSE Copied(f[k - 1], d + 4 * (k - 1), s + 4 * (k - 1), 4)]
  BY <1>1, Zenon
<1>3. Dwords(m, d, s, n) = f[n]
  BY Zenon DEF Dwords
<1> HIDE DEF f, g
<1>4. f[0] = g[0]
  BY <1>1, <1>2
<1>5. ASSUME NEW k \in 1 .. n, f[k - 1] = g[k - 1] PROVE f[k] = g[k]
  BY <1>1, <1>2, <1>5, SMTT(40)
<1>6. \A k \in 0 .. n : f[k] = g[k]
  BY <1>4, <1>5, SameTurns
<1>7. f[n] = g[n]
  BY <1>6
<1> QED BY <1>3, <1>7 DEF g

\* Down from the last byte, where source lies below: k turns have moved the last k bytes.
LEMMA DownCopies ==
    ASSUME NEW m, DOMAIN m \subseteq Int, m = [x \in DOMAIN m |-> m[x]],
           NEW d \in Int, NEW s \in Int, NEW n \in Nat,
           s .. s + n - 1 \subseteq DOMAIN m, s < d
    PROVE  Down(m, d + n - 1, s + n - 1, n) = Copied(m, d, s, n)
<1> DEFINE e == d + n - 1
           t == s + n - 1
           f == CHOOSE mem : mem = [k \in 0 .. n |-> IF k = 0 THEN m
                                       ELSE Copied(mem[k - 1], e - k + 1, t - k + 1, 1)]
           g == [k \in 0 .. n |-> Copied(m, d + n - k, s + n - k, k)]
<1>1. g = [k \in 0 .. n |-> IF k = 0 THEN m ELSE Copied(g[k - 1], e - k + 1, t - k + 1, 1)]
  <2>1. ASSUME NEW k \in 0 .. n, k # 0
        PROVE  g[k] = Copied(g[k - 1], e - k + 1, t - k + 1, 1)
    <3> DEFINE c == Copied(m, d + n - k + 1, s + n - k + 1, k - 1)
    <3>1. g[k - 1] = c
      <4>1. k - 1 \in 0 .. n /\ d + n - (k - 1) = d + n - k + 1 /\ s + n - (k - 1) = s + n - k + 1
        BY <2>1
      <4>2. g[k - 1] = Copied(m, d + n - (k - 1), s + n - (k - 1), k - 1)
        BY <4>1
      <4> QED BY <4>1, <4>2
    <3>2. DOMAIN c = DOMAIN m
      BY DEF Copied
    <3>3. ASSUME NEW x \in DOMAIN m
          PROVE  Copied(c, e - k + 1, t - k + 1, 1)[x] = Copied(m, d + n - k, s + n - k, k)[x]
      <4>1. c[x] = IF x \in d + n - k + 1 .. d + n - 1 THEN m[x - d + s] ELSE m[x]
        BY DEF Copied
      <4>2. Copied(m, d + n - k, s + n - k, k)[x] =
                IF x \in d + n - k .. d + n - 1 THEN m[x - d + s] ELSE m[x]
        BY DEF Copied
      <4>3. CASE x = d + n - k
        <5>1. s + n - k \in DOMAIN m
          <6>1. s + n - k \in s .. s + n - 1
            BY <2>1
          <6> QED BY <6>1
        <5>2. c[s + n - k] = m[s + n - k]
          BY <5>1 DEF Copied
        <5>3. Copied(c, e - k + 1, t - k + 1, 1)[x] = c[s + n - k]
          <6>1. x - (e - k + 1) + (t - k + 1) = s + n - k /\ x \in e - k + 1 .. e - k + 1 + 1 - 1
            BY <4>3
          <6> HIDE DEF c, e, t
          <6> QED BY <3>2, <6>1 DEF Copied
        <5>4. x - d + s = s + n - k
          BY <4>3
        <5> HIDE DEF c
        <5> QED BY <2>1, <4>2, <4>3, <5>2, <5>3, <5>4
      <4>4. CASE x # d + n - k
        <5>1. Copied(c, e - k + 1, t - k + 1, 1)[x] = c[x]
          <6>1. x \notin e - k + 1 .. e - k + 1 + 1 - 1
            BY <4>4
          <6> HIDE DEF c, e, t
          <6> QED BY <3>2, <6>1 DEF Copied
        <5> HIDE DEF c
        <5> QED BY <4>1, <4>2, <4>4, <5>1
      <4> QED BY <4>3, <4>4
    <3>4. Copied(c, e - k + 1, t - k + 1, 1) = Copied(m, d + n - k, s + n - k, k)
      <4> HIDE DEF c
      <4> QED BY <3>2, <3>3 DEF Copied
    <3>5. g[k] = Copied(m, d + n - k, s + n - k, k)
      OBVIOUS
    <3> QED BY <3>1, <3>4, <3>5
  <2>2. g[0] = m
    BY CopiedNone
  <2> QED BY <2>1, <2>2
<1>0. e \in Int /\ t \in Int
  OBVIOUS
<1> HIDE DEF e, t
<1>2. f = [k \in 0 .. n |-> IF k = 0 THEN m ELSE Copied(f[k - 1], e - k + 1, t - k + 1, 1)]
  BY <1>1, Zenon
<1>3. Down(m, e, t, n) = f[n]
  BY Zenon DEF Down
<1> HIDE DEF f, g
<1>4. f[0] = g[0]
  BY <1>1, <1>2
<1>5. ASSUME NEW k \in 1 .. n, f[k - 1] = g[k - 1] PROVE f[k] = g[k]
  <2>0. k \in 0 .. n /\ k # 0
    OBVIOUS
  <2>1. f[k] = Copied(f[k - 1], e - k + 1, t - k + 1, 1)
    BY <1>2, <2>0, Zenon
  <2>2. g[k] = Copied(g[k - 1], e - k + 1, t - k + 1, 1)
    BY <1>1, <2>0, Zenon
  <2> QED BY <1>5, <2>1, <2>2
<1>6. \A k \in 0 .. n : f[k] = g[k]
  BY <1>4, <1>5, SameTurns
<1>7. f[n] = g[n] /\ d + n - n = d /\ s + n - n = s
  BY <1>6
<1> QED BY <1>3, <1>7 DEF g, e, t

-----------------------------------------------------------------------------
\* No more bytes than asked for come before the aligned ones.
LEMMA UnalignedIs ==
    ASSUME NEW d \in Int, NEW n \in Nat
    PROVE  Unaligned(d, n) \in 0 .. n
<1> DEFINE a == (4 - (d % 4)) % 4
<1>1. a \in Nat
  OBVIOUS
<1> HIDE DEF a
<1>2. Unaligned(d, n) \in {n, a} /\ Unaligned(d, n) <= n /\ Unaligned(d, n) <= a
  <2>1. \E x \in {n, a} : \A y \in {n, a} : x =< y
    BY <1>1
  <2> QED BY <2>1 DEF Unaligned, Min, a
<1> QED BY <1>1, <1>2

\* memcpy moves n bytes, the way its three loops divide them, unless it reads what it
\* has written: of regions that do not overlap, or that do with dest below
\* (lib.c:577-614).
THEOREM MemcpyCopies ==
    ASSUME NEW m, DOMAIN m \subseteq Int, m = [x \in DOMAIN m |-> m[x]],
           NEW d \in Int, NEW s \in Int, NEW n \in Nat,
           s .. s + n - 1 \subseteq DOMAIN m, UpSafe(d, s, n)
    PROVE  memcpy(m, d, s, n) = Copied(m, d, s, n)
<1> DEFINE h == Unaligned(d, n)
           w == (n - h) \div 4
           t == h + 4 * w
<1>1. h \in 0 .. n
  BY UnalignedIs
<1>2. w \in Nat /\ t \in Nat /\ t <= n /\ 4 * w \in Nat /\ n - t \in Nat
  BY <1>1
<1>3. memcpy(m, d, s, n) = Up(Dwords(Up(m, d, s, h), d + h, s + h, w), d + t, s + t, n - t)
  BY DEF memcpy
<1>4. t = h + 4 * w
  OBVIOUS
<1> HIDE DEF h, w, t
<1> DEFINE first == Copied(m, d, s, h)
           second == Copied(m, d, s, t)
<1>5. /\ DOMAIN first = DOMAIN m /\ first = [x \in DOMAIN first |-> first[x]]
      /\ DOMAIN second = DOMAIN m /\ second = [x \in DOMAIN second |-> second[x]]
  BY DEF Copied
<1>6. Up(m, d, s, h) = first
  BY <1>1, UpCopies DEF UpSafe
<1>7. Dwords(first, d + h, s + h, w) = second
  <2>1. Dwords(first, d + h, s + h, w) = Copied(first, d + h, s + h, 4 * w)
    <3>1. s + h \in Int /\ d + h \in Int /\ s + h .. s + h + 4 * w - 1 \subseteq DOMAIN first
      BY <1>1, <1>2, <1>4, <1>5
    <3>2. UpSafe(d + h, s + h, 4 * w)
      BY <1>1, <1>2, <1>4 DEF UpSafe
    <3> HIDE DEF first
    <3> QED BY <1>2, <1>5, <3>1, <3>2, DwordsCopy
  <2>2. Copied(first, d + h, s + h, 4 * w) = Copied(m, d, s, h + 4 * w)
    <3>1. s .. s + h + 4 * w - 1 \subseteq DOMAIN m
      BY <1>1, <1>2, <1>4
    <3>2. UpSafe(d, s, h + 4 * w)
      BY <1>1, <1>2, <1>4 DEF UpSafe
    <3>3. h \in Nat
      BY <1>1
    <3>4. \A v \in Nat : v = 4 * w => Copied(first, d + h, s + h, v) = Copied(m, d, s, h + v)
      BY <3>1, <3>2, <3>3, CopiedTwice
    <3> QED BY <1>2, <3>4
  <2> QED BY <1>4, <2>1, <2>2
<1>8. Up(second, d + t, s + t, n - t) = Copied(m, d, s, n)
  <2>1. Up(second, d + t, s + t, n - t) = Copied(second, d + t, s + t, n - t)
    <3>1. s + t \in Int /\ d + t \in Int /\ s + t .. s + t + (n - t) - 1 \subseteq DOMAIN second
      BY <1>1, <1>2, <1>5
    <3>2. UpSafe(d + t, s + t, n - t)
      BY <1>1, <1>2 DEF UpSafe
    <3> HIDE DEF second
    <3> QED BY <1>2, <1>5, <3>1, <3>2, UpCopies
  <2>2. Copied(second, d + t, s + t, n - t) = Copied(m, d, s, t + (n - t))
    BY <1>1, <1>2, CopiedTwice DEF UpSafe
  <2>3. t + (n - t) = n
    BY <1>1, <1>2
  <2> QED BY <2>1, <2>2, <2>3
<1> QED BY <1>3, <1>6, <1>7, <1>8

\* memmove moves n bytes wherever they lie (lib.c:623-641).
THEOREM MemmoveCopies ==
    ASSUME NEW m, DOMAIN m \subseteq Int, m = [x \in DOMAIN m |-> m[x]],
           NEW d \in Int, NEW s \in Int, NEW n \in Nat,
           s .. s + n - 1 \subseteq DOMAIN m
    PROVE  memmove(m, d, s, n) = Copied(m, d, s, n)
<1>1. CASE s >= d
  BY <1>1, UpCopies DEF memmove, UpSafe
<1>2. CASE ~(s >= d)
  BY <1>2, DownCopies DEF memmove
<1> QED BY <1>1, <1>2

\* n bytes filled with b.
FilledWith(m, d, b, n) == [x \in DOMAIN m |-> IF x \in d .. d + n - 1 THEN b ELSE m[x]]

\* Bytes stored are n copies of one.
LEMMA StoredBytes ==
    ASSUME NEW m, DOMAIN m \subseteq Int, NEW d \in Int, NEW b \in 0 .. 255, NEW n \in Nat
    PROVE  Stored(m, d, b, n, 1) = FilledWith(m, d, b, n)
<1>1. ASSUME NEW x \in DOMAIN m PROVE Byte(b, (x - d) % 1) = b
  <2>1. (x - d) % 1 = 0 /\ <<1, 256, 65536, 16777216>>[0 + 1] = 1
    OBVIOUS
  <2> QED BY <2>1 DEF Byte
<1>2. n * 1 = n
  OBVIOUS
<1> QED BY <1>1, <1>2 DEF Stored, FilledWith

\* Two fillings in a row are one of the whole.
LEMMA FilledTwice ==
    ASSUME NEW m, DOMAIN m \subseteq Int, NEW d \in Int, NEW b, NEW k \in Nat, NEW j \in Nat
    PROVE  FilledWith(FilledWith(m, d, b, k), d + k, b, j) = FilledWith(m, d, b, k + j)
BY DEF FilledWith

\* memset fills n bytes with the low byte of c, also as its three loops divide
\* them (lib.c:494-528).
THEOREM MemsetFills ==
    ASSUME NEW m, DOMAIN m \subseteq Int, NEW d \in Int, NEW c \in Int, NEW n \in Nat
    PROVE  memset(m, d, c, n) = FilledWith(m, d, c % 256, n)
<1> DEFINE b == c % 256
           h == Unaligned(d, n)
           w == (n - h) \div 4
           t == h + 4 * w
<1>0. b \in 0 .. 255
  OBVIOUS
<1>1. h \in 0 .. n
  BY UnalignedIs
<1>2. w \in Nat /\ t \in Nat /\ t <= n /\ 4 * w \in Nat /\ n - t \in Nat
  BY <1>1
<1>3. memset(m, d, c, n) = Stored(Stored(Stored(m, d, b, h, 1), d + h, b, 4 * w, 1), d + t, b, n - t, 1)
  BY DEF memset
<1>4. t = h + 4 * w /\ t + (n - t) = n
  BY <1>1
<1>5. h \in Nat /\ d + h \in Int /\ d + t \in Int
  BY <1>1
<1> HIDE DEF b, h, w, t
<1> DEFINE first == FilledWith(m, d, b, h)
           second == FilledWith(m, d, b, t)
<1>6. DOMAIN first \subseteq Int /\ DOMAIN second \subseteq Int
  BY DEF FilledWith
<1>7. Stored(m, d, b, h, 1) = first
  BY <1>0, <1>5, StoredBytes
<1>8. Stored(first, d + h, b, 4 * w, 1) = second
  <2>1. Stored(first, d + h, b, 4 * w, 1) = FilledWith(first, d + h, b, 4 * w)
    <3> HIDE DEF first
    <3> QED BY <1>0, <1>2, <1>5, <1>6, StoredBytes
  <2>2. FilledWith(first, d + h, b, 4 * w) = FilledWith(m, d, b, h + 4 * w)
    BY <1>2, <1>5, FilledTwice
  <2> QED BY <1>4, <2>1, <2>2
<1>9. Stored(second, d + t, b, n - t, 1) = FilledWith(m, d, b, n)
  <2>1. Stored(second, d + t, b, n - t, 1) = FilledWith(second, d + t, b, n - t)
    <3> HIDE DEF second
    <3> QED BY <1>0, <1>2, <1>5, <1>6, StoredBytes
  <2>2. FilledWith(second, d + t, b, n - t) = FilledWith(m, d, b, t + (n - t))
    <3>1. ASSUME NEW v \in Nat
          PROVE  FilledWith(second, d + t, b, v) = FilledWith(m, d, b, t + v)
      <4>1. t \in Nat
        BY <1>2
      <4> QED BY <4>1, FilledTwice
    <3> QED BY <1>2, <3>1, Zenon
  <2> QED BY <1>4, <2>1, <2>2
<1> QED BY <1>3, <1>7, <1>8, <1>9 DEF b

-----------------------------------------------------------------------------
\* The calls a run makes.
Calls == {Idle} \cup BlockCalls \cup NumberCalls \cup FormatCalls \cup FileCalls
                \cup CommandCalls \cup ProgramCalls \cup PageCalls

\* Every state is one before, or in, a call of the run.
LEMMA CallsMade == Spec => [](call \in Calls)
<1>1. Init => call \in Calls
  BY DEF Init, Calls
<1>2. call \in Calls /\ [Next]_vars => (call \in Calls)'
  <2> SUFFICES ASSUME call \in Calls, [Next]_vars PROVE call' \in Calls
    OBVIOUS
  <2> USE DEF Calls
  <2>1. CASE UNCHANGED vars
    BY <2>1 DEF vars
  <2>2. CASE Return
    BY <2>2 DEF Return
  <2>3. CASE PressKeys
    BY <2>3 DEF PressKeys
  <2>4. CASE Call(BlockCalls)
    BY <2>4 DEF Call
  <2>5. CASE Call(NumberCalls)
    BY <2>5 DEF Call
  <2>6. CASE Call(FormatCalls)
    BY <2>6 DEF Call
  <2>7. CASE Call(FileCalls)
    BY <2>7 DEF Call
  <2>8. CASE Call(CommandCalls)
    BY <2>8 DEF Call
  <2>9. CASE Call(ProgramCalls)
    BY <2>9 DEF Call
  <2>10. CASE Call(PageCalls)
    BY <2>10 DEF Call
  <2> QED BY <2>1, <2>2, <2>3, <2>4, <2>5, <2>6, <2>7, <2>8, <2>9, <2>10 DEF Next
<1> QED BY <1>1, <1>2, PTL DEF Spec

\* The routine of a call says what else is in it.
LEMMA CallKinds ==
    ASSUME call \in Calls
    PROVE  /\ call.routine \in {"memcpy", "memmove", "memset"} => call \in BlockCalls
           /\ call.routine = "number" => call \in NumberCalls
           /\ call.routine = "printf" => call \in FormatCalls
           /\ call.routine = "read" => call \in FileCalls
           /\ call.routine = "execute" => call \in CommandCalls
           /\ call.routine = "grep" => call \in ProgramCalls
           /\ call.routine = "translate" => call \in PageCalls
<1> USE DEF Idle, BlockCalls, NumberCalls, FormatCalls, FileCalls, CommandCalls, ProgramCalls, PageCalls
<1>1. CASE call = Idle
  BY <1>1
<1>2. CASE call \in BlockCalls
  BY <1>2
<1>3. CASE call \in NumberCalls
  BY <1>3
<1>4. CASE call \in FormatCalls
  BY <1>4
<1>5. CASE call \in FileCalls
  BY <1>5
<1>6. CASE call \in CommandCalls
  BY <1>6
<1>7. CASE call \in ProgramCalls
  BY <1>7
<1>8. CASE call \in PageCalls
  BY <1>8
<1> QED BY <1>1, <1>2, <1>3, <1>4, <1>5, <1>6, <1>7, <1>8 DEF Calls

\* Two bytes stored as a word, and two words as a dword.
LEMMA WordsStored ==
    ASSUME NEW d \in Int, NEW n \in Nat
    PROVE  /\ memset_word(Memory, d, 255 * 257, n) = memset(Memory, d, 255, 2 * n)
           /\ memset_dword(Memory, d, 258 * 65537, n) = memset_word(Memory, d, 258, 2 * n)
<1>0. /\ <<1, 256, 65536, 16777216>>[1] = 1
      /\ <<1, 256, 65536, 16777216>>[2] = 256
      /\ <<1, 256, 65536, 16777216>>[3] = 65536
      /\ <<1, 256, 65536, 16777216>>[4] = 16777216
  OBVIOUS
<1>d. DOMAIN Memory \subseteq Int
  BY DEF Memory
<1>1. ASSUME NEW i \in {0, 1} PROVE Byte(255 * 257, i) = 255
  BY <1>0 DEF Byte
<1>2. ASSUME NEW x \in Int PROVE Byte(258 * 65537, x % 4) = Byte(258, x % 2)
  <2>1. x % 4 \in 0 .. 3 /\ x % 2 = (x % 4) % 2
    OBVIOUS
  <2>2. /\ Byte(258 * 65537, 0) = 2 /\ Byte(258 * 65537, 1) = 1
        /\ Byte(258 * 65537, 2) = 2 /\ Byte(258 * 65537, 3) = 1
        /\ Byte(258, 0) = 2 /\ Byte(258, 1) = 1
    BY <1>0 DEF Byte
  <2>3. CASE x % 4 = 0
    BY <2>1, <2>2, <2>3
  <2>4. CASE x % 4 = 1
    BY <2>1, <2>2, <2>4
  <2>5. CASE x % 4 = 2
    BY <2>1, <2>2, <2>5
  <2>6. CASE x % 4 = 3
    BY <2>1, <2>2, <2>6
  <2> QED BY <2>1, <2>3, <2>4, <2>5, <2>6
<1>3. memset(Memory, d, 255, 2 * n) = FilledWith(Memory, d, 255, 2 * n)
  <2>1. 2 * n \in Nat /\ 255 % 256 = 255
    OBVIOUS
  <2> QED BY <1>d, <2>1, MemsetFills
<1>4. memset_word(Memory, d, 255 * 257, n) = FilledWith(Memory, d, 255, 2 * n)
  <2>1. ASSUME NEW c, \A x \in Int : Byte(c, (x - d) % 2) = 255
        PROVE  Stored(Memory, d, c, n, 2) = FilledWith(Memory, d, 255, 2 * n)
    <3>1. n * 2 = 2 * n
      OBVIOUS
    <3> QED BY <1>d, <2>1, <3>1 DEF Stored, FilledWith
  <2>2. \A x \in Int : Byte(255 * 257, (x - d) % 2) = 255
    BY <1>1
  <2> QED BY <2>1, <2>2 DEF memset_word
<1>5. memset_dword(Memory, d, 258 * 65537, n) = memset_word(Memory, d, 258, 2 * n)
  <2>1. ASSUME NEW b \in Int, NEW c \in Int, \A x \in Int : Byte(b, (x - d) % 4) = Byte(c, (x - d) % 2)
        PROVE  memset_dword(Memory, d, b, n) = memset_word(Memory, d, c, 2 * n)
    <3>1. n * 4 = 2 * n * 2
      OBVIOUS
    <3> QED BY <1>d, <2>1, <3>1 DEF Stored, memset_dword, memset_word
  <2>2. \A x \in Int : Byte(258 * 65537, (x - d) % 4) = Byte(258, (x - d) % 2)
    BY <1>2
  <2> DEFINE w == 258
             b == w * 65537
  <2>3. /\ \A x \in Int : Byte(b, (x - d) % 4) = Byte(w, (x - d) % 2)
        /\ b \in Int /\ w \in Int
    BY <2>2
  <2> HIDE DEF b, w
  <2>4. memset_dword(Memory, d, b, n) = memset_word(Memory, d, w, 2 * n)
    BY <2>1, <2>3, Zenon
  <2> QED BY <2>4, SMT DEF b, w
<1> QED BY <1>3, <1>4, <1>5

\* The calls of the run are instances of the theorems above.
THEOREM BlocksMoved == Spec => []BlocksRight
<1>1. call \in Calls => BlocksRight
  <2> SUFFICES ASSUME call \in Calls PROVE BlocksRight
    OBVIOUS
  <2>m. DOMAIN Memory = 0 .. 11 /\ Memory = [x \in DOMAIN Memory |-> Memory[x]] /\ DOMAIN Memory \subseteq Int
    BY DEF Memory
  <2>t. ASSUME call.routine \in {"memcpy", "memmove", "memset"}
        PROVE  call.d \in 0 .. 11 /\ call.s \in 0 .. 11 /\ call.n \in 0 .. 11 /\ call.s + call.n <= 12
    BY <2>t, CallKinds DEF BlockCalls
  <2>1. ASSUME call.routine = "memcpy", ~Overlap2(call)
        PROVE  memcpy(Memory, call.d, call.s, call.n) = Copied(Memory, call.d, call.s, call.n)
    <3>1. /\ call.d \in Int /\ call.s \in Int /\ call.n \in Nat
          /\ call.s .. call.s + call.n - 1 \subseteq DOMAIN Memory
      BY <2>m, <2>t, <2>1
    <3>2. UpSafe(call.d, call.s, call.n)
      BY <2>1, <3>1 DEF Overlap2, UpSafe
    <3> QED BY <2>m, <3>1, <3>2, MemcpyCopies
  <2>2. ASSUME call.routine = "memmove"
        PROVE  memmove(Memory, call.d, call.s, call.n) = Copied(Memory, call.d, call.s, call.n)
    <3>1. /\ call.d \in Int /\ call.s \in Int /\ call.n \in Nat
          /\ call.s .. call.s + call.n - 1 \subseteq DOMAIN Memory
      BY <2>m, <2>t, <2>2
    <3> QED BY <2>m, <3>1, MemmoveCopies
  <2>3. ASSUME call.routine = "memset"
        PROVE  memset(Memory, call.d, 511, call.n) =
                   [a \in DOMAIN Memory |-> IF a \in call.d .. call.d + call.n - 1 THEN 255 ELSE a + 1]
    <3>1. call.d \in Int /\ call.n \in Nat /\ 511 % 256 = 255
      BY <2>t, <2>3
    <3>2. memset(Memory, call.d, 511, call.n) = FilledWith(Memory, call.d, 255, call.n)
      BY <2>m, <3>1, MemsetFills
    <3> QED BY <2>m, <3>2 DEF FilledWith, Memory
  <2>4. ASSUME call.routine = "memset"
        PROVE  LET w == 258 IN
               /\ memset_word(Memory, call.d, 255 * 257, call.n) = memset(Memory, call.d, 255, 2 * call.n)
               /\ memset_dword(Memory, call.d, w * 65537, call.n) = memset_word(Memory, call.d, w, 2 * call.n)
    <3>1. call.d \in Int /\ call.n \in Nat
      BY <2>t, <2>4
    <3> QED BY <3>1, WordsStored
  <2> QED BY <2>1, <2>2, <2>3, <2>4 DEF BlocksRight
<1> QED BY <1>1, CallsMade, PTL

-----------------------------------------------------------------------------
\* Dividing a position by the size of a block.
LEMMA Divided ==
    ASSUME NEW x \in Nat, NEW b \in Nat \ {0}
    PROVE  \E q \in Nat, r \in 0 .. b - 1 : q = x \div b /\ r = x % b /\ x = q * b + r
<1>1. PICK r \in 0 .. b - 1 : r = x % b
  OBVIOUS
<1>2. PICK q \in Int : q = x \div b
  OBVIOUS
<1>3. x = q * b + r
  BY <1>1, <1>2
<1>4. q >= 0
  <2> SUFFICES ASSUME q <= -1 PROVE FALSE
    OBVIOUS
  <2>1. (-1 - q) * b >= 0
    OBVIOUS
  <2>2. (-1 - q) * b = -b - q * b
    OBVIOUS
  <2> QED BY <1>3, <2>1, <2>2
<1>5. q \in Nat
  BY <1>4
<1> QED BY <1>1, <1>2, <1>3, <1>5, Zenon

\* A position is its block and its place there.
LEMMA Position ==
    ASSUME NEW q \in Nat, NEW b \in Nat \ {0}, NEW r \in 0 .. b - 1
    PROVE  (q * b + r) \div b = q /\ (q * b + r) % b = r
OBVIOUS

\* The smaller of two numbers.
LEMMA MinOfTwo ==
    ASSUME NEW x \in Int, NEW y \in Int
    PROVE  Min({x, y}) = IF x <= y THEN x ELSE y
<1>1. \E z \in {x, y} : \A w \in {x, y} : z =< w
  OBVIOUS
<1>2. Min({x, y}) \in {x, y} /\ Min({x, y}) <= x /\ Min({x, y}) <= y
  BY <1>1 DEF Min
<1> QED BY <1>2

\* The bytes of a file, in order.
FileBytes(image, inode) ==
    LET node == Inode(image, inode)
    IN [i \in 1 .. node.file_length |->
           DataBlock(image, node.num_of_blocks[(i - 1) \div DATA_BLOCK_SIZE])[(i - 1) % DATA_BLOCK_SIZE]]

\* After k turns: the bytes read are those of the file from offset on, idx_val and j
\* say where the next is, and every byte has taken two turns at most.
ReadSoFar(node, bytes, offset, length, k, p) ==
    /\ p.idx_val \in Nat /\ p.j \in 0 .. DATA_BLOCK_SIZE
    /\ p.idx_val * DATA_BLOCK_SIZE + p.j = offset + Len(p.buf)
    /\ Len(p.buf) <= length /\ offset + Len(p.buf) <= node.file_length
    /\ \A i \in 1 .. Len(p.buf) : p.buf[i] = bytes[offset + i]
    /\ \/ EndTest(node, offset, length, Len(p.buf))
       \/ k + (IF p.j = DATA_BLOCK_SIZE THEN 1 ELSE 0) <= 2 * Len(p.buf)

\* A turn of read_data keeps what was read so far (file_system.c:142-210).
LEMMA ReadingStep ==
    ASSUME NEW image, NEW inode, NEW offset \in Nat, NEW length \in Nat, NEW k \in Nat,
           NEW V, NEW p \in [idx_val : Nat, j : 0 .. DATA_BLOCK_SIZE, buf : Seq(V)],
           Inode(image, inode).file_length \in Nat,
           \A x \in Nat, y \in 0 .. DATA_BLOCK_SIZE :
               DataBlock(image, Inode(image, inode).num_of_blocks[x])[y] \in V
    PROVE  LET node == Inode(image, inode)
               next == Reading(image, node, offset, length, p)
           IN /\ next \in [idx_val : Nat, j : 0 .. DATA_BLOCK_SIZE, buf : Seq(V)]
              /\ ReadSoFar(node, FileBytes(image, inode), offset, length, k, p)
                 => ReadSoFar(node, FileBytes(image, inode), offset, length, k + 1, next)
<1> DEFINE node == Inode(image, inode)
           next == Reading(image, node, offset, length, p)
           bytes == FileBytes(image, inode)
           S == [idx_val : Nat, j : 0 .. DATA_BLOCK_SIZE, buf : Seq(V)]
           Good(i, q) == ReadSoFar(node, bytes, offset, length, i, q)
<1> SUFFICES next \in S /\ (Good(k, p) => Good(k + 1, next))
  OBVIOUS
<1>s. DATA_BLOCK_SIZE \in Nat \ {0}
  BY FileAssumption
<1>p. /\ p = [idx_val |-> p.idx_val, j |-> p.j, buf |-> p.buf]
      /\ p.idx_val \in Nat /\ p.j \in 0 .. DATA_BLOCK_SIZE /\ p.buf \in Seq(V) /\ Len(p.buf) \in Nat
  OBVIOUS
<1>b. \A i \in 1 .. node.file_length : bytes[i] =
          DataBlock(image, node.num_of_blocks[(i - 1) \div DATA_BLOCK_SIZE])[(i - 1) % DATA_BLOCK_SIZE]
  BY DEF FileBytes
<1>f. node.file_length \in Nat
  OBVIOUS
<1> HIDE DEF node, bytes
<1>1. CASE p.j = DATA_BLOCK_SIZE
  <2>1. next = [p EXCEPT !.idx_val = p.idx_val + 1, !.j = 0]
    BY <1>1 DEF Reading
  <2>2. next.idx_val = p.idx_val + 1 /\ next.j = 0 /\ next.buf = p.buf /\ next \in S
    <3>1. next = [idx_val |-> p.idx_val + 1, j |-> 0, buf |-> p.buf]
      <4> HIDE DEF next
      <4> QED BY <1>p, <2>1
    <3>2. p.idx_val + 1 \in Nat /\ 0 \in 0 .. DATA_BLOCK_SIZE
      BY <1>p, <1>s
    <3> HIDE DEF next
    <3> QED BY <1>p, <3>1, <3>2
  <2> HIDE DEF next
  <2>3. ASSUME Good(k, p) PROVE Good(k + 1, next)
    <3>1. (p.idx_val + 1) * DATA_BLOCK_SIZE + 0 = offset + Len(p.buf)
      BY <1>1, <1>p, <2>3 DEF ReadSoFar
    <3>2. \/ EndTest(node, offset, length, Len(p.buf))
          \/ k + 1 <= 2 * Len(p.buf)
      BY <1>1, <2>3 DEF ReadSoFar
    <3> QED BY <1>p, <1>s, <2>2, <2>3, <3>1, <3>2 DEF ReadSoFar
  <2> QED BY <2>2, <2>3
<1>2. CASE p.j # DATA_BLOCK_SIZE /\ EndTest(node, offset, length, Len(p.buf))
  <2>1. next = p
    BY <1>2 DEF Reading
  <2>2. Good(k, p) => Good(k + 1, p)
    BY <1>2 DEF ReadSoFar
  <2> HIDE DEF next
  <2> QED BY <2>1, <2>2
<1>3. CASE p.j # DATA_BLOCK_SIZE /\ ~EndTest(node, offset, length, Len(p.buf))
  <2> DEFINE v == DataBlock(image, node.num_of_blocks[p.idx_val])[p.j]
  <2>0. v \in V
    BY <1>p DEF node
  <2>1. next = [p EXCEPT !.j = p.j + 1, !.buf = Append(p.buf, v)]
    BY <1>3 DEF Reading
  <2>2. next.idx_val = p.idx_val /\ next.j = p.j + 1 /\ next.buf = Append(p.buf, v) /\ next \in S
    <3>1. p.j + 1 \in 0 .. DATA_BLOCK_SIZE /\ Append(p.buf, v) \in Seq(V)
      BY <1>3, <1>p, <1>s, <2>0
    <3> QED BY <1>p, <2>1, <3>1
  <2> HIDE DEF next
  <2>3. ASSUME Good(k, p) PROVE Good(k + 1, next)
    <3> DEFINE x == offset + Len(p.buf)
    <3>1. x = p.idx_val * DATA_BLOCK_SIZE + p.j /\ p.j \in 0 .. DATA_BLOCK_SIZE - 1
      BY <1>3, <1>p, <1>s, <2>3 DEF ReadSoFar
    <3>2. x \div DATA_BLOCK_SIZE = p.idx_val /\ x % DATA_BLOCK_SIZE = p.j
      <4>1. /\ (p.idx_val * DATA_BLOCK_SIZE + p.j) \div DATA_BLOCK_SIZE = p.idx_val
            /\ (p.idx_val * DATA_BLOCK_SIZE + p.j) % DATA_BLOCK_SIZE = p.j
        BY <1>p, <1>s, <3>1, Position
      <4> HIDE DEF x
      <4> QED BY <3>1, <4>1, Zenon
    <3>3. x + 1 \in 1 .. node.file_length /\ Len(p.buf) + 1 <= length
      <4>1. /\ offset + Len(p.buf) <= node.file_length /\ Len(p.buf) <= length
            /\ offset + Len(p.buf) # node.file_length /\ Len(p.buf) # length
        BY <1>3, <2>3 DEF ReadSoFar, EndTest
      <4>2. PICK n \in Nat : n = Len(p.buf)
        BY <1>p
      <4>3. offset + n + 1 \in 1 .. node.file_length /\ n + 1 <= length
        BY <1>f, <4>1, <4>2
      <4> QED BY <4>2, <4>3
    <3>4. \A i : i = x + 1 => bytes[i] = v
      <4>1. ASSUME NEW i, i = x + 1 PROVE i \in 1 .. node.file_length /\ i - 1 = x
        BY <1>p, <3>3, <4>1
      <4> HIDE DEF x
      <4> QED BY <1>b, <3>2, <4>1
    <3>5. /\ Len(next.buf) = Len(p.buf) + 1
          /\ \A i \in 1 .. Len(p.buf) : next.buf[i] = p.buf[i]
          /\ next.buf[Len(p.buf) + 1] = v
      BY <1>p, <2>0, <2>2
    <3>6. \A i \in 1 .. Len(next.buf) : next.buf[i] = bytes[offset + i]
      <4>1. \A i \in 1 .. Len(p.buf) : p.buf[i] = bytes[offset + i]
        BY <2>3 DEF ReadSoFar
      <4>2. next.buf[Len(p.buf) + 1] = bytes[offset + (Len(p.buf) + 1)]
        <5>1. offset + (Len(p.buf) + 1) = x + 1
          BY <1>p
        <5> HIDE DEF x
        <5>2. bytes[offset + (Len(p.buf) + 1)] = v
          BY <3>4, <5>1, Zenon
        <5> QED BY <3>5, <5>2, Zenon
      <4>3. \A i \in 1 .. Len(p.buf) : next.buf[i] = bytes[offset + i]
        BY <3>5, <4>1
      <4>4. \A i \in 1 .. Len(next.buf) : i \in 1 .. Len(p.buf) \/ i = Len(p.buf) + 1
        BY <1>p, <3>5
      <4> QED BY <4>2, <4>3, <4>4 \*  <1>p, <3>5, <4>1, <4>2
    <3>7. k + 1 + (IF next.j = DATA_BLOCK_SIZE THEN 1 ELSE 0) <= 2 * Len(next.buf)
      BY <1>3, <1>p, <2>3, <3>5 DEF ReadSoFar
    <3>8. next.idx_val * DATA_BLOCK_SIZE + next.j = offset + Len(next.buf)
      <4>1. p.idx_val * DATA_BLOCK_SIZE + (p.j + 1) = offset + (Len(p.buf) + 1)
        <5>1. PICK n \in Nat : n = Len(p.buf)
          BY <1>p
        <5>2. PICK y \in Int : y = p.idx_val * DATA_BLOCK_SIZE
          BY <1>p, <1>s
        <5>3. y + p.j = offset + n
          BY <3>1, <5>1, <5>2
        <5>4. y + (p.j + 1) = offset + (n + 1)
          BY <1>p, <5>3
        <5> QED BY <5>1, <5>2, <5>4
      <4> QED BY <2>2, <3>5, <4>1
    <3> QED BY <1>p, <2>2, <3>3, <3>5, <3>6, <3>7, <3>8 DEF ReadSoFar
  <2> QED BY <2>2, <2>3
<1> QED BY <1>1, <1>2, <1>3 DEF node, bytes

\* A file read from a position on: the bytes asked for, or those that are left.
ReadResult(image, inode, offset, length) ==
    SubSeq(FileBytes(image, inode), offset + 1,
           Min({Inode(image, inode).file_length, offset + length}))

\* read_data returns the bytes of the file from the offset on, as many as asked for or
\* left, whatever the size of a block, the file and the read, and wherever the blocks
\* lie (file_system.c:142-210).
THEOREM ReadsBytes ==
    ASSUME NEW image, NEW inode, NEW offset \in Nat, NEW length \in Nat,
           ~(inode >= Boot(image).inode_size), Inode(image, inode).file_length \in Nat
    PROVE  read_data(image, inode, offset, length) = ReadResult(image, inode, offset, length)
<1> DEFINE node == Inode(image, inode)
           size == node.file_length
           bytes == FileBytes(image, inode)
           V == {DataBlock(image, node.num_of_blocks[xy[1]])[xy[2]] : xy \in Nat \X (0 .. DATA_BLOCK_SIZE)}
           S == [idx_val : Nat, j : 0 .. DATA_BLOCK_SIZE, buf : Seq(V)]
           first == [idx_val |-> offset \div DATA_BLOCK_SIZE, j |-> offset % DATA_BLOCK_SIZE,
                     buf |-> <<>>]
           Next1(p) == Reading(image, node, offset, length, p)
           Good(k, p) == ReadSoFar(node, bytes, offset, length, k, p)
           n == 2 * size
           f == CHOOSE turn : turn = [k \in 0 .. n |-> IF k = 0 THEN first ELSE Next1(turn[k - 1])]
<1>s. DATA_BLOCK_SIZE \in Nat \ {0}
  BY FileAssumption
<1>v. \A x \in Nat, y \in 0 .. DATA_BLOCK_SIZE : DataBlock(image, node.num_of_blocks[x])[y] \in V
  <2>1. ASSUME NEW x \in Nat, NEW y \in 0 .. DATA_BLOCK_SIZE
        PROVE  DataBlock(image, node.num_of_blocks[x])[y] \in V
    <3>1. <<x, y>> \in Nat \X (0 .. DATA_BLOCK_SIZE) /\ <<x, y>>[1] = x /\ <<x, y>>[2] = y
      OBVIOUS
    <3> HIDE DEF node
    <3> QED BY <3>1, Zenon
  <2> QED BY <2>1
<1>z. size \in Nat /\ n \in Nat
  OBVIOUS
<1>1. CASE offset >= size
  <2>1. read_data(image, inode, offset, length) = <<>>
    BY <1>1 DEF read_data
  <2>2. Min({size, offset + length}) = size
    BY <1>1, <1>z, MinOfTwo
  <2>3. ReadResult(image, inode, offset, length) = SubSeq(bytes, offset + 1, size)
    BY <2>2 DEF ReadResult
  <2>4. SubSeq(bytes, offset + 1, size) = <<>>
    <3> HIDE DEF bytes, node, size
    <3> QED BY <1>1, <1>z
  <2> QED BY <2>1, <2>3, <2>4
<1>2. CASE ~(offset >= size)
  <2> DEFINE step == [k \in 1 .. n |-> [p \in S |-> Next1(p)]]
  <2>1. ASSUME NEW k \in Nat, NEW p \in S
        PROVE  Next1(p) \in S /\ (Good(k, p) => Good(k + 1, Next1(p)))
    <3>1. p \in [idx_val : Nat, j : 0 .. DATA_BLOCK_SIZE, buf : Seq(V)]
      OBVIOUS
    <3> HIDE DEF V
    <3> QED BY <1>v, <1>z, <3>1, ReadingStep
  <2>2. first \in S /\ Good(0, first)
    <3>1. PICK q \in Nat, r \in 0 .. DATA_BLOCK_SIZE - 1 :
              q = offset \div DATA_BLOCK_SIZE /\ r = offset % DATA_BLOCK_SIZE
              /\ offset = q * DATA_BLOCK_SIZE + r
      BY <1>s, Divided
    <3>2. first = [idx_val |-> q, j |-> r, buf |-> <<>>]
      BY <3>1
    <3> HIDE DEF first, V
    <3>3. first \in S
      BY <1>s, <3>1, <3>2
    <3>4. Good(0, first)
      <4>1. first.idx_val = q /\ first.j = r /\ first.buf = <<>> /\ Len(first.buf) = 0
        BY <3>2
      <4>2. q * DATA_BLOCK_SIZE + r = offset + 0
        BY <3>1
      <4>3. r # DATA_BLOCK_SIZE /\ r \in 0 .. DATA_BLOCK_SIZE
        BY <1>s
      <4> HIDE DEF bytes, node
      <4> QED BY <1>2, <1>z, <4>1, <4>2, <4>3 DEF ReadSoFar
    <3> QED BY <3>3, <3>4
  <2> HIDE DEF first, S, Next1, Good, n
  <2>3. step \in Bodies(n, S)
    BY <2>1 DEF Bodies
  <2>4. PICK g \in [0 .. n -> S] : g[0] = first /\ \A k \in 1 .. n : g[k] = step[k][g[k - 1]]
    <3> HIDE DEF step
    <3>1. PICK g : g \in Runs(n, S, first, step)
      BY <1>z, <2>2, <2>3, LoopExists
    <3> QED BY <3>1 DEF Runs
  <2>5. g = [k \in 0 .. n |-> IF k = 0 THEN first ELSE Next1(g[k - 1])]
    <3>1. ASSUME NEW k \in 0 .. n, k # 0 PROVE g[k] = Next1(g[k - 1])
      <4>1. k \in 1 .. n /\ k - 1 \in 0 .. n
        BY <1>z, <3>1
      <4>2. g[k - 1] \in S
        BY <4>1
      <4> QED BY <2>4, <4>1, <4>2
    <3> QED BY <2>4, <3>1
  <2>6. f = [k \in 0 .. n |-> IF k = 0 THEN first ELSE Next1(f[k - 1])]
    BY <2>5, Zenon
  <2>7. read_data(image, inode, offset, length) = f[n].buf
    <3> USE DEF first, Next1, n
    <3> QED BY <1>2, Zenon DEF read_data
  <2> HIDE DEF f
  <2>8. \A k \in 0 .. n : f[k] \in S /\ Good(k, f[k])
    <3> DEFINE P == {k \in 0 .. n : f[k] \in S /\ Good(k, f[k])}
    <3>1. 0 \in P
      BY <1>z, <2>2, <2>6
    <3>2. ASSUME NEW k \in 1 .. n, k - 1 \in P PROVE k \in P
      <4>1. f[k] = Next1(f[k - 1]) /\ k - 1 \in Nat /\ k - 1 + 1 = k /\ k \in 0 .. n
        BY <1>z, <2>6
      <4> QED BY <2>1, <3>2, <4>1
    <3>3. \A k \in 0 .. n : k \in P
      <4> HIDE DEF P
      <4> QED BY <1>z, <3>1, <3>2, Turns, Zenon
    <3> QED BY <3>3
  <2>9. f[n] \in S /\ Good(n, f[n])
    BY <1>z, <2>8
  <2>10. PICK b \in Seq(V) : b = f[n].buf
    BY <2>9 DEF S
  <2>11. /\ Len(b) \in Nat /\ Len(b) <= length /\ offset + Len(b) <= size
         /\ \A i \in 1 .. Len(b) : b[i] = bytes[offset + i]
         /\ offset + Len(b) = size \/ Len(b) = length
    <3> HIDE DEF bytes, node
    <3>1. /\ Len(b) <= length /\ offset + Len(b) <= node.file_length
          /\ \A i \in 1 .. Len(b) : b[i] = bytes[offset + i]
          /\ \/ EndTest(node, offset, length, Len(b))
             \/ n + (IF f[n].j = DATA_BLOCK_SIZE THEN 1 ELSE 0) <= 2 * Len(b)
      BY <2>9, <2>10 DEF Good, ReadSoFar
    <3>2. PICK l \in Nat : l = Len(b)
      BY <2>10
    <3>3. EndTest(node, offset, length, Len(b)) => offset + Len(b) = size \/ Len(b) = length
      BY DEF EndTest
    <3>4. n + (IF f[n].j = DATA_BLOCK_SIZE THEN 1 ELSE 0) <= 2 * l => offset + l = size
      <4>1. offset + l <= size
        BY <3>1, <3>2
      <4> QED BY <1>z, <4>1 DEF n
    <3> QED BY <3>1, <3>2, <3>3, <3>4
  <2>12. Min({size, offset + length}) = offset + Len(b)
    <3>1. Min({size, offset + length}) = IF size <= offset + length THEN size ELSE offset + length
      <4>1. offset + length \in Int /\ size \in Int
        BY <1>z
      <4> HIDE DEF size
      <4> QED BY <4>1, MinOfTwo
    <3>2. PICK l \in Nat : l = Len(b)
      BY <2>10
    <3> HIDE DEF size
    <3>3. offset + l <= size /\ l <= length /\ (offset + l = size \/ l = length) /\ size \in Nat
      BY <1>z, <2>11, <3>2
    <3> QED BY <3>1, <3>2, <3>3
  <2>13. b = SubSeq(bytes, offset + 1, offset + Len(b))
    <3> DEFINE c == SubSeq(bytes, offset + 1, offset + Len(b))
    <3>1. PICK l \in Nat : l = Len(b)
      BY <2>10
    <3>2. c = [i \in 1 .. l |-> bytes[i + (offset + 1) - 1]]
      <4> HIDE DEF bytes
      <4>1. offset + l - (offset + 1) + 1 = l
        OBVIOUS
      <4> QED BY <3>1, <4>1
    <3>3. \A i \in 1 .. l : i + (offset + 1) - 1 = offset + i
      OBVIOUS
    <3>4. b = [i \in 1 .. l |-> b[i]]
      BY <2>10, <3>1
    <3>5. ASSUME NEW i \in 1 .. l PROVE bytes[i + (offset + 1) - 1] = b[i]
      <4>1. i + (offset + 1) - 1 = offset + i
        OBVIOUS
      <4>2. b[i] = bytes[offset + i]
        BY <2>11, <3>1
      <4> HIDE DEF bytes
      <4> QED BY <4>1, <4>2
    <3> HIDE DEF bytes, c
    <3>6. c = [i \in 1 .. l |-> b[i]]
      BY <3>2, <3>5, Zenon
    <3> QED BY <3>4, <3>6, Zenon DEF c
  <2>14. ReadResult(image, inode, offset, length) = SubSeq(bytes, offset + 1, offset + Len(b))
    BY <2>12 DEF ReadResult
  <2> QED BY <2>7, <2>10, <2>13, <2>14
<1> QED BY <1>1, <1>2

\* The file's bytes are as many as its inode says.
LEMMA BytesTyped ==
    ASSUME NEW image, NEW inode, Inode(image, inode).file_length \in Nat
    PROVE  /\ Len(FileBytes(image, inode)) = Inode(image, inode).file_length
           /\ FileBytes(image, inode) = [i \in 1 .. Len(FileBytes(image, inode)) |-> FileBytes(image, inode)[i]]
<1> DEFINE size == Inode(image, inode).file_length
<1>1. PICK n \in Nat : n = size
  OBVIOUS
<1>2. FileBytes(image, inode) =
          [i \in 1 .. n |-> DataBlock(image, Inode(image, inode).num_of_blocks
                                          [(i - 1) \div DATA_BLOCK_SIZE])[(i - 1) % DATA_BLOCK_SIZE]]
  BY <1>1 DEF FileBytes
<1> QED BY <1>1, <1>2

\* The pieces of a sequence.
LEMMA Pieces ==
    ASSUME NEW s, NEW size \in Nat, s = [i \in 1 .. size |-> s[i]],
           NEW x \in 0 .. size, NEW y \in x .. size
    PROVE  /\ SubSeq(s, 1, x) \o SubSeq(s, x + 1, y) = SubSeq(s, 1, y)
           /\ Len(SubSeq(s, x + 1, y)) = y - x
           /\ SubSeq(s, 1, size) = s
           /\ SubSeq(s, 1, 0) = <<>>
<1>1. SubSeq(s, 1, x) = [i \in 1 .. x |-> s[i]]
  <2>1. SubSeq(s, 1, x) = [i \in 1 .. x - 1 + 1 |-> s[i + 1 - 1]]
    OBVIOUS
  <2>2. x - 1 + 1 = x /\ \A i \in 1 .. x : i + 1 - 1 = i
    OBVIOUS
  <2> QED BY <2>1, <2>2
<1>2. SubSeq(s, x + 1, y) = [i \in 1 .. y - x |-> s[x + i]]
  <2>1. SubSeq(s, x + 1, y) = [i \in 1 .. y - (x + 1) + 1 |-> s[i + (x + 1) - 1]]
    OBVIOUS
  <2>2. y - (x + 1) + 1 = y - x /\ \A i \in 1 .. y - x : i + (x + 1) - 1 = x + i
    OBVIOUS
  <2> QED BY <2>1, <2>2
<1>3. SubSeq(s, 1, y) = [i \in 1 .. y |-> s[i]]
  <2>1. SubSeq(s, 1, y) = [i \in 1 .. y - 1 + 1 |-> s[i + 1 - 1]]
    OBVIOUS
  <2>2. y - 1 + 1 = y /\ \A i \in 1 .. y : i + 1 - 1 = i
    OBVIOUS
  <2> QED BY <2>1, <2>2
<1>4. SubSeq(s, 1, x) \o SubSeq(s, x + 1, y) = SubSeq(s, 1, y)
  <2> DEFINE a == [i \in 1 .. x |-> s[i]]
             b == [i \in 1 .. y - x |-> s[x + i]]
             c == [i \in 1 .. y |-> s[i]]
  <2>1. a \o b = c
    OBVIOUS
  <2> QED BY <1>1, <1>2, <1>3, <2>1
<1>5. Len(SubSeq(s, x + 1, y)) = y - x
  BY <1>2
<1>6. SubSeq(s, 1, size) = s
  OBVIOUS
<1>7. SubSeq(s, 1, 0) = <<>>
  OBVIOUS
<1> QED BY <1>4, <1>5, <1>6, <1>7

\* What a program has after it has read the first x bytes.
HasRead(image, inode, x) == [position |-> x, bytes |-> SubSeq(FileBytes(image, inode), 1, x)]

\* One more read of nbytes goes on where the last ended.
LEMMA ReadsOn ==
    ASSUME NEW image, NEW inode, NEW nbytes \in Nat, ~(inode >= Boot(image).inode_size),
           Inode(image, inode).file_length \in Nat, NEW x \in 0 .. Inode(image, inode).file_length
    PROVE  FileRead(image, inode, nbytes, HasRead(image, inode, x))
           = HasRead(image, inode, Min({Inode(image, inode).file_length, x + nbytes}))
<1> DEFINE bytes == FileBytes(image, inode)
           p == HasRead(image, inode, x)
<1>1. PICK size \in Nat : size = Inode(image, inode).file_length
  OBVIOUS
<1>2. PICK y \in x .. size : y = Min({size, x + nbytes})
  <2>1. Min({size, x + nbytes}) = IF size <= x + nbytes THEN size ELSE x + nbytes
    <3>1. size \in Int /\ x + nbytes \in Int
      OBVIOUS
    <3> QED BY <3>1, MinOfTwo
  <2> QED BY <1>1, <2>1
<1>3. p.position = x /\ p.bytes = SubSeq(bytes, 1, x)
  BY DEF HasRead
<1>4. read_data(image, inode, x, nbytes) = SubSeq(bytes, x + 1, y)
  <2>1. read_data(image, inode, x, nbytes) = ReadResult(image, inode, x, nbytes)
    <3>1. x \in Nat
      BY <1>1
    <3> QED BY <3>1, ReadsBytes
  <2> QED BY <1>1, <1>2, <2>1 DEF ReadResult
<1>5. bytes = [i \in 1 .. size |-> bytes[i]]
  BY <1>1, BytesTyped
<1> HIDE DEF bytes, p
<1>6. Len(SubSeq(bytes, x + 1, y)) = y - x /\ SubSeq(bytes, 1, x) \o SubSeq(bytes, x + 1, y) = SubSeq(bytes, 1, y)
  <2>1. x \in 0 .. size /\ y \in x .. size
    BY <1>1, <1>2
  <2> QED BY <1>5, <2>1, Pieces, SMTT(40)
<1>7. FileRead(image, inode, nbytes, p)
      = [position |-> x + Len(SubSeq(bytes, x + 1, y)), bytes |-> SubSeq(bytes, 1, x) \o SubSeq(bytes, x + 1, y)]
  BY <1>3, <1>4 DEF FileRead
<1>8. x + (y - x) = y
  BY <1>1, <1>2
<1>9. FileRead(image, inode, nbytes, p) = [position |-> y, bytes |-> SubSeq(bytes, 1, y)]
  BY <1>6, <1>7, <1>8
<1> QED BY <1>1, <1>2, <1>9 DEF HasRead, p, bytes

\* A program that reads on until a read returns nothing gets the whole file, however
\* many bytes it asks for at a time (file_system.c:256-272).
THEOREM ReadsWholeFile ==
    ASSUME NEW image, NEW inode, NEW nbytes \in Nat \ {0}, ~(inode >= Boot(image).inode_size),
           Inode(image, inode).file_length \in Nat
    PROVE  ReadAll(image, inode, nbytes) = FileBytes(image, inode)
<1> DEFINE n == Inode(image, inode).file_length
           first == [position |-> 0, bytes |-> <<>>]
           Next1(p) == FileRead(image, inode, nbytes, p)
           At(x) == HasRead(image, inode, x)
           g == [k \in 0 .. n |-> At(Min({n, k * nbytes}))]
           f == CHOOSE file : file = [k \in 0 .. n |-> IF k = 0 THEN first ELSE Next1(file[k - 1])]
<1>1. PICK size \in Nat : size = n
  OBVIOUS
<1>2. \A k \in Nat : Min({n, k * nbytes}) = IF n <= k * nbytes THEN n ELSE k * nbytes
  <2>1. ASSUME NEW k \in Nat PROVE k * nbytes \in Int /\ n \in Int
    OBVIOUS
  <2> HIDE DEF n
  <2> QED BY <2>1, MinOfTwo
<1>t. FileBytes(image, inode) = [i \in 1 .. size |-> FileBytes(image, inode)[i]]
  BY <1>1, BytesTyped
<1>0. size \in 0 .. size /\ 0 \in 0 .. size
  OBVIOUS
<1>3. At(0) = first
  BY <1>0, <1>t, Pieces DEF HasRead
<1>4. ASSUME NEW k \in 1 .. n PROVE g[k] = Next1(g[k - 1])
  <2> HIDE DEF n, Next1, At
  <2>1. PICK z \in Nat : z = (k - 1) * nbytes
    BY <1>1
  <2>2. k * nbytes = z + nbytes
    BY <1>1, <2>1
  <2>3. k - 1 \in Nat /\ k \in Nat
    BY <1>1
  <2>4. PICK x \in 0 .. n : x = IF n <= z THEN n ELSE z
    BY <1>1
  <2>5. Min({n, (k - 1) * nbytes}) = x
    BY <1>2, <2>1, <2>3, <2>4
  <2>6. Min({n, k * nbytes}) = IF n <= z + nbytes THEN n ELSE z + nbytes
    BY <1>2, <2>2, <2>3
  <2>7. Min({n, x + nbytes}) = IF n <= x + nbytes THEN n ELSE x + nbytes
    <3>1. n \in Int /\ x + nbytes \in Int
      BY <1>1
    <3> QED BY <3>1, MinOfTwo
  <2>8. Min({n, x + nbytes}) = Min({n, k * nbytes})
    <3>1. CASE n <= z
      BY <1>1, <2>4, <2>6, <2>7, <3>1
    <3>2. CASE ~(n <= z)
      BY <1>1, <2>4, <2>6, <2>7, <3>2
    <3> QED BY <3>1, <3>2
  <2>9. Next1(At(x)) = At(Min({n, x + nbytes}))
    <3>1. nbytes \in Nat
      OBVIOUS
    <3> QED BY <3>1, ReadsOn DEF Next1, At, n
  <2>10. k - 1 \in 0 .. n /\ k \in 0 .. n
    BY <1>1
  <2> QED BY <2>5, <2>8, <2>9, <2>10
<1>5. g[0] = first
  <2>1. Min({n, 0 * nbytes}) = 0
    BY <1>1, <1>2
  <2> HIDE DEF At, first
  <2>2. g[0] = At(Min({n, 0 * nbytes}))
    BY <1>1
  <2> QED BY <1>3, <2>1, <2>2
<1>6. g = [k \in 0 .. n |-> IF k = 0 THEN first ELSE Next1(g[k - 1])]
  <2>1. \A k \in 0 .. n : k = 0 \/ k \in 1 .. n
    BY <1>1
  <2>2. g = [k \in 0 .. n |-> g[k]]
    OBVIOUS
  <2> HIDE DEF g, first, Next1, n
  <2> QED BY <1>4, <1>5, <2>1, <2>2
<1>7. f = [k \in 0 .. n |-> IF k = 0 THEN first ELSE Next1(f[k - 1])]
  BY <1>6, Zenon
<1>8. ReadAll(image, inode, nbytes) = f[n].bytes
  BY Zenon DEF ReadAll
<1>9. \A k \in 0 .. n : f[k] = g[k]
  <2> HIDE DEF f, g, first, Next1
  <2>1. f[0] = g[0]
    BY <1>1, <1>5, <1>7
  <2>2. ASSUME NEW k \in 1 .. n, f[k - 1] = g[k - 1] PROVE f[k] = g[k]
    <3>1. f[k] = Next1(f[k - 1])
      BY <1>1, <1>7
    <3> QED BY <1>4, <2>2, <3>1
  <2> HIDE DEF n
  <2> QED BY <1>1, <2>1, <2>2, SameTurns
<1>10. f[n] = At(n)
  <2> HIDE DEF f, At
  <2>1. f[n] = At(Min({n, n * nbytes}))
    <3>1. n \in 0 .. n
      BY <1>1
    <3> HIDE DEF n
    <3>2. g[n] = At(Min({n, n * nbytes}))
      BY <3>1
    <3> HIDE DEF g
    <3> QED BY <1>9, <3>1, <3>2
  <2>2. n <= n * nbytes
    <3>1. size * (nbytes - 1) >= 0 /\ size * nbytes = size * (nbytes - 1) + size
      OBVIOUS
    <3> QED BY <1>1, <3>1
  <2> QED BY <1>1, <1>2, <2>1, <2>2
<1>11. At(n).bytes = FileBytes(image, inode)
  BY <1>0, <1>1, <1>t, Pieces DEF HasRead
<1> QED BY <1>8, <1>10, <1>11

\* The images of the run hold the file they are made for.
LEMMA ImageHolds ==
    ASSUME NEW order \in Orders, NEW size \in 0 .. 2 * DATA_BLOCK_SIZE + 1
    PROVE  LET image == FileImage(order, size) IN
           /\ Boot(image).inode_size = 2
           /\ Inode(image, 1).file_length = size
           /\ FileBytes(image, 1) = Content(size)
<1> DEFINE image == FileImage(order, size)
           front == << [inode_size |-> 2, dir_entries |-> <<>>],
                       [file_length |-> 1, num_of_blocks |-> [i \in 0 .. 2 |-> 3]],
                       [file_length |-> size, num_of_blocks |-> order] >>
           back == [k \in 1 .. 4 |-> BlockOf(order, size, k - 1)]
<1>s. DATA_BLOCK_SIZE \in Nat \ {0} /\ size \in Nat
  BY FileAssumption
<1>1. image = front \o back /\ Len(front) = 3 /\ Len(back) = 4
  BY DEF FileImage
<1>2. \A i \in 1 .. 7 : image[i] = IF i <= 3 THEN front[i] ELSE back[i - 3]
  <2> DEFINE V == {front[1], front[2], front[3]} \cup {back[k] : k \in 1 .. 4}
  <2>1. front \in Seq(V) /\ back \in Seq(V)
    OBVIOUS
  <2> HIDE DEF front, back, image, V
  <2>2. \A i \in 1 .. Len(front) + Len(back) :
            (front \o back)[i] = IF i <= Len(front) THEN front[i] ELSE back[i - Len(front)]
    BY <2>1
  <2>3. \A i \in 1 .. 3 + 4 : image[i] = IF i <= 3 THEN front[i] ELSE back[i - 3]
    BY <1>1, <2>2, Zenon
  <2> QED BY <2>3
<1>3. image[1] = [inode_size |-> 2, dir_entries |-> <<>>]
  <2>1. image[1] = front[1]
    BY <1>2
  <2> HIDE DEF image
  <2> QED BY <2>1
<1>4. image[3] = [file_length |-> size, num_of_blocks |-> order]
  <2>1. image[3] = front[3]
    BY <1>2
  <2> HIDE DEF image
  <2> QED BY <2>1
<1>5. \A k \in 0 .. 3 : image[4 + k] = BlockOf(order, size, k)
  <2>1. ASSUME NEW k \in 0 .. 3 PROVE image[4 + k] = BlockOf(order, size, k)
    <3>1. image[4 + k] = back[4 + k - 3]
      BY <1>2
    <3>2. back[4 + k - 3] = BlockOf(order, size, 4 + k - 3 - 1)
      OBVIOUS
    <3>3. 4 + k - 3 - 1 = k
      OBVIOUS
    <3> HIDE DEF image, back
    <3> QED BY <3>1, <3>2, <3>3
  <2> QED BY <2>1
<1> HIDE DEF image, front, back
<1>6. Boot(image).inode_size = 2
  BY <1>3 DEF Boot
<1>7. Inode(image, 1) = [file_length |-> size, num_of_blocks |-> order]
  BY <1>4 DEF Inode
<1>8. \A k \in 0 .. 3 : DataBlock(image, k) = BlockOf(order, size, k)
  BY <1>5, <1>6 DEF DataBlock
<1>9. /\ order \in [0 .. 2 -> 0 .. 3]
      /\ \A i, j \in 0 .. 2 : order[i] = order[j] => i = j
  BY DEF Orders
<1>10. ASSUME NEW i \in 1 .. size
       PROVE  DataBlock(image, order[(i - 1) \div DATA_BLOCK_SIZE])[(i - 1) % DATA_BLOCK_SIZE]
              = Content(size)[i]
  <2>1. i - 1 \in Nat
    OBVIOUS
  <2>2. PICK q \in Nat, r \in 0 .. DATA_BLOCK_SIZE - 1 :
            /\ q = (i - 1) \div DATA_BLOCK_SIZE /\ r = (i - 1) % DATA_BLOCK_SIZE
            /\ i - 1 = q * DATA_BLOCK_SIZE + r
    BY <1>s, <2>1, Divided
  <2>3. q \in 0 .. 2
    <3>1. SUFFICES ASSUME q >= 3 PROVE FALSE
      OBVIOUS
    <3>2. (q - 3) * DATA_BLOCK_SIZE >= 0 /\ (q - 3) * DATA_BLOCK_SIZE = q * DATA_BLOCK_SIZE - 3 * DATA_BLOCK_SIZE
      BY <1>s, <3>1
    <3>3. PICK z \in Int : z = q * DATA_BLOCK_SIZE
      BY <1>s
    <3>4. i - 1 = z + r /\ z >= 3 * DATA_BLOCK_SIZE
      BY <1>s, <2>2, <3>2, <3>3
    <3> QED BY <1>s, <3>4
  <2>4. PICK k \in 0 .. 3 : k = order[q]
    BY <1>9, <2>3
  <2> DEFINE at == {j \in 0 .. 2 : order[j] = k /\ j * DATA_BLOCK_SIZE + r < size}
  <2>5. at = {q}
    <3>1. \A j \in at : j = q
      BY <1>9, <2>3, <2>4
    <3>2. q \in at
      BY <1>s, <2>2, <2>3, <2>4
    <3> HIDE DEF at
    <3> QED BY <3>1, <3>2
  <2>6. Min(at) = q
    <3> HIDE DEF at
    <3>1. \E x \in {q} : \A y \in {q} : x =< y
      OBVIOUS
    <3> QED BY <2>5, <3>1 DEF Min
  <2>7. BlockOf(order, size, k)[r] = IF at = {} THEN 7 ELSE Content(size)[Min(at) * DATA_BLOCK_SIZE + r + 1]
    BY Zenon DEF BlockOf
  <2> HIDE DEF at
  <2>8. BlockOf(order, size, k)[r] = Content(size)[q * DATA_BLOCK_SIZE + r + 1]
    BY <2>5, <2>6, <2>7
  <2>9. q * DATA_BLOCK_SIZE + r + 1 = i
    BY <1>s, <2>2
  <2>10. DataBlock(image, k)[r] = Content(size)[i]
    BY <1>8, <2>8, <2>9, Zenon
  <2> QED BY <2>2, <2>4, <2>10, Zenon
<1>11. FileBytes(image, 1) = [i \in 1 .. size |->
           DataBlock(image, order[(i - 1) \div DATA_BLOCK_SIZE])[(i - 1) % DATA_BLOCK_SIZE]]
  <2>1. Inode(image, 1).file_length = size /\ Inode(image, 1).num_of_blocks = order
    BY <1>7
  <2> QED BY <2>1, Zenon DEF FileBytes
<1>12. Content(size) = [i \in 1 .. size |-> Content(size)[i]]
  BY DEF Content
<1>13. FileBytes(image, 1) = Content(size)
  BY <1>10, <1>11, <1>12
<1> QED BY <1>6, <1>7, <1>13 DEF image

\* The reads of the run are instances of the theorems above (file_system.c:142-210,
\* 256-272).
THEOREM FilesWhole == Spec => []FilesRead
<1>1. call \in Calls => FilesRead
  <2> SUFFICES ASSUME call \in Calls, call.routine = "read"
               PROVE  LET image == FileImage(call.order, call.size)
                          last  == Min({call.size, call.offset + call.n})
                      IN /\ read_data(image, 1, call.offset, call.n)
                            = SubSeq(Content(call.size), call.offset + 1, last)
                         /\ call.n > 0 => ReadAll(image, 1, call.n) = Content(call.size)
                         /\ read_data(image, 2, call.offset, call.n) = Failed
    BY DEF FilesRead
  <2>1. call \in FileCalls
    BY CallKinds
  <2>2. PICK order \in Orders : order = call.order
    BY <2>1 DEF FileCalls
  <2>3. PICK size \in 0 .. 2 * DATA_BLOCK_SIZE + 1 : size = call.size
    BY <2>1 DEF FileCalls
  <2>4. PICK offset \in Nat : offset = call.offset
    BY <2>1 DEF FileCalls
  <2>5. PICK n \in Nat : n = call.n
    BY <2>1 DEF FileCalls
  <2> DEFINE image == FileImage(order, size)
  <2>6. /\ Boot(image).inode_size = 2 /\ Inode(image, 1).file_length = size
        /\ FileBytes(image, 1) = Content(size)
    BY ImageHolds
  <2> HIDE DEF image
  <2>7. ~(1 >= Boot(image).inode_size) /\ Inode(image, 1).file_length \in Nat /\ 2 >= Boot(image).inode_size
    BY <2>6, FileAssumption
  <2>8. read_data(image, 1, offset, n) = SubSeq(Content(size), offset + 1, Min({size, offset + n}))
    <3>1. read_data(image, 1, offset, n) = ReadResult(image, 1, offset, n)
      BY <2>7, ReadsBytes
    <3> QED BY <2>6, <2>7, <3>1, Zenon DEF ReadResult
  <2>9. n > 0 => ReadAll(image, 1, n) = Content(size)
    <3>1. n > 0 => n \in Nat \ {0}
      OBVIOUS
    <3> QED BY <2>6, <2>7, <3>1, ReadsWholeFile
  <2>10. read_data(image, 2, offset, n) = Failed
    BY <2>7 DEF read_data
  <2> QED BY <2>2, <2>3, <2>4, <2>5, <2>8, <2>9, <2>10 DEF image
<1> QED BY <1>1, CallsMade, PTL

-----------------------------------------------------------------------------
\* The least of some numbers.
LEMMA LeastOf ==
    ASSUME NEW S, S \subseteq Nat, S # {}
    PROVE  Min(S) \in S /\ \A x \in S : Min(S) <= x
<1> DEFINE R == OpToRel(<, Nat)
<1>1. \A i, j \in Nat : i < j => <<i, j>> \in R
  BY DEF OpToRel
<1>2. \E i \in S : \A j \in S : ~ (<<j, i>> \in R)
  <2> HIDE DEF R
  <2>1. IsWellFoundedOn(R, Nat)
    BY NatLessThanWellFounded DEF R
  <2> QED BY <2>1, WFMin
<1> HIDE DEF R
<1>3. PICK i \in S : \A j \in S : ~ (j < i)
  BY <1>1, <1>2
<1>4. \E x \in S : \A y \in S : x =< y
  BY <1>3
<1> QED BY <1>4 DEF Min

\* The least element of a set is its minimum.
LEMMA MinIs ==
    ASSUME NEW S, S \subseteq Int, NEW m \in S, \A x \in S : m <= x
    PROVE  Min(S) = m
<1>1. \E x \in S : \A y \in S : x =< y
  OBVIOUS
<1>2. Min(S) \in S /\ \A x \in S : Min(S) <= x
  BY <1>1 DEF Min
<1>3. Min(S) \in Int /\ m \in Int /\ Min(S) <= m /\ m <= Min(S)
  BY <1>2
<1> QED BY <1>3

\* What the powers of two are.
LEMMA Powers ==
    /\ Pow2[0] = 1
    /\ \A i \in 0 .. WORD_BITS : Pow2[i] \in Nat \ {0}
    /\ \A i \in 1 .. WORD_BITS : Pow2[i] = 2 * Pow2[i - 1]
<1> DEFINE n == WORD_BITS
           S == Nat \ {0}
           step == [k \in 1 .. n |-> [p \in S |-> 2 * p]]
<1>1. n \in Nat
  BY WidthAssumption
<1>2. step \in Bodies(n, S) /\ 1 \in S
  BY DEF Bodies
<1>3. PICK g \in [0 .. n -> S] : g[0] = 1 /\ \A k \in 1 .. n : g[k] = step[k][g[k - 1]]
  <2> HIDE DEF step, S, n
  <2>1. PICK g : g \in Runs(n, S, 1, step)
    BY <1>1, <1>2, LoopExists
  <2> QED BY <2>1 DEF Runs
<1>4. g = [k \in 0 .. n |-> IF k = 0 THEN 1 ELSE 2 * g[k - 1]]
  <2>1. ASSUME NEW k \in 0 .. n, k # 0 PROVE g[k] = 2 * g[k - 1]
    <3>1. k \in 1 .. n /\ k - 1 \in 0 .. n
      BY <1>1, <2>1
    <3>2. g[k - 1] \in S
      BY <3>1
    <3> QED BY <1>3, <3>1, <3>2
  <2> QED BY <1>3, <2>1
<1>5. Pow2 = [k \in 0 .. n |-> IF k = 0 THEN 1 ELSE 2 * Pow2[k - 1]]
  BY <1>4, Zenon DEF Pow2
<1>6. Pow2[0] = 1 /\ \A i \in 1 .. n : Pow2[i] = 2 * Pow2[i - 1]
  BY <1>1, <1>5
<1>7. \A k \in 0 .. n : Pow2[k] \in S
  <2> DEFINE P == {k \in 0 .. n : Pow2[k] \in S}
  <2>1. 0 \in P
    BY <1>1, <1>6
  <2>2. ASSUME NEW k \in 1 .. n, k - 1 \in P PROVE k \in P
    BY <1>1, <1>6, <2>2
  <2>3. \A k \in 0 .. n : k \in P
    <3> HIDE DEF P
    <3> QED BY <1>1, <2>1, <2>2, Turns, Zenon
  <2> QED BY <2>3
<1> QED BY <1>6, <1>7

-----------------------------------------------------------------------------
\* The quotients of v by the powers of the radix.
Quotients(v, radix) == {q \in [0 .. WORD_BITS -> Nat] :
                            q[0] = v /\ \A k \in 1 .. WORD_BITS : q[k] = q[k - 1] \div radix}

\* A number can be divided by the radix WORD_BITS times.
LEMMA QuotientsExist ==
    ASSUME NEW v \in Nat, NEW radix \in Nat \ {0}
    PROVE  \E q : q \in Quotients(v, radix)
<1> DEFINE n == WORD_BITS
           step == [k \in 1 .. n |-> [p \in Nat |-> p \div radix]]
<1>1. n \in Nat
  BY WidthAssumption
<1>2. step \in Bodies(n, Nat)
  <2>1. \A p \in Nat : p \div radix \in Nat
    BY Divided
  <2> QED BY <2>1 DEF Bodies
<1>3. PICK q \in [0 .. n -> Nat] : q[0] = v /\ \A k \in 1 .. n : q[k] = step[k][q[k - 1]]
  <2> HIDE DEF step, n
  <2>1. PICK g : g \in Runs(n, Nat, v, step)
    BY <1>1, <1>2, LoopExists
  <2> QED BY <2>1 DEF Runs
<1>4. ASSUME NEW k \in 1 .. n PROVE q[k] = q[k - 1] \div radix
  <2>1. k - 1 \in 0 .. n /\ q[k - 1] \in Nat
    BY <1>1
  <2> QED BY <1>3, <2>1
<1> QED BY <1>3, <1>4 DEF Quotients

\* They go to zero, at least a bit at a time, and four with radix 16.
LEMMA QuotientsEnd ==
    ASSUME NEW v \in 0 .. Pow2[WORD_BITS] - 1, NEW radix \in Nat, radix >= 2,
           NEW q \in Quotients(v, radix)
    PROVE  q[WORD_BITS] = 0
<1> DEFINE n == WORD_BITS
           P == {k \in 0 .. n : q[k] < Pow2[n - k]}
<1>1. n \in Nat
  BY WidthAssumption
<1>q. q \in [0 .. n -> Nat] /\ q[0] = v /\ \A k \in 1 .. n : q[k] = q[k - 1] \div radix
  BY DEF Quotients
<1>2. 0 \in P
  BY <1>1, <1>q, Powers
<1>3. ASSUME NEW k \in 1 .. n, k - 1 \in P PROVE k \in P
  <2>1. q[k - 1] \in Nat /\ q[k - 1] < Pow2[n - (k - 1)] /\ q[k] \in Nat
    BY <1>1, <1>3, <1>q
  <2>2. Pow2[n - (k - 1)] = 2 * Pow2[n - k] /\ Pow2[n - k] \in Nat
    <3>1. n - (k - 1) \in 1 .. n /\ n - (k - 1) - 1 = n - k /\ n - k \in 0 .. n
      BY <1>1
    <3> QED BY <3>1, Powers
  <2>3. PICK r \in 0 .. radix - 1 : q[k - 1] = q[k] * radix + r
    <3>1. \E a \in Nat, r \in 0 .. radix - 1 :
              a = q[k - 1] \div radix /\ r = q[k - 1] % radix /\ q[k - 1] = a * radix + r
      <4>1. radix \in Nat \ {0}
        OBVIOUS
      <4> QED BY <2>1, <4>1, Divided
    <3>2. q[k] = q[k - 1] \div radix
      BY <1>q
    <3> QED BY <3>1, <3>2
  <2>4. q[k] * radix >= 2 * q[k]
    <3>1. \A a \in Nat : a * radix >= 2 * a
      OBVIOUS
    <3> QED BY <2>1, <3>1
  <2>5. q[k] < Pow2[n - k]
    <3>1. PICK z \in Int : z = q[k] * radix
      BY <2>1
    <3> QED BY <2>1, <2>2, <2>3, <2>4, <3>1
  <2> QED BY <1>1, <2>5
<1>4. \A k \in 0 .. n : k \in P
  <2> HIDE DEF P
  <2> QED BY <1>1, <1>2, <1>3, Turns, Zenon
<1>5. q[n] < Pow2[n - n] /\ q[n] \in Nat /\ n - n = 0
  BY <1>1, <1>4, <1>q
<1> QED BY <1>5, Powers

\* A word has no more than HexDigits hexadecimal digits.
LEMMA HexEnd ==
    ASSUME NEW v \in 0 .. Pow2[WORD_BITS] - 1, NEW q \in Quotients(v, 16)
    PROVE  HexDigits \in 1 .. WORD_BITS /\ WORD_BITS = 4 * HexDigits /\ q[HexDigits] = 0
<1> DEFINE n == WORD_BITS
           h == HexDigits
           P == {k \in 0 .. h : q[k] < Pow2[n - 4 * k]}
<1>1. n \in Nat /\ h \in 1 .. n /\ n = 4 * h
  BY WidthAssumption DEF HexDigits
<1>q. q \in [0 .. n -> Nat] /\ q[0] = v /\ \A k \in 1 .. n : q[k] = q[k - 1] \div 16
  BY DEF Quotients
<1>2. 0 \in P
  <2>1. Pow2[n] \in Nat /\ n - 4 * 0 = n /\ 0 \in 0 .. h
    BY <1>1, Powers
  <2>2. q[0] < Pow2[n]
    BY <1>q, <2>1
  <2> QED BY <2>1, <2>2
<1>3. ASSUME NEW k \in 1 .. h, k - 1 \in P PROVE k \in P
  <2>1. q[k - 1] \in Nat /\ q[k - 1] < Pow2[n - 4 * (k - 1)] /\ q[k] \in Nat
    <3>1. k - 1 \in 0 .. n /\ k \in 0 .. n
      BY <1>1
    <3> QED BY <1>3, <1>q, <3>1
  <2>2. Pow2[n - 4 * (k - 1)] = 16 * Pow2[n - 4 * k] /\ Pow2[n - 4 * k] \in Nat
    <3> DEFINE m == n - 4 * k
    <3>1. m \in Nat /\ m + 4 <= n /\ n - 4 * (k - 1) = m + 4
      BY <1>1
    <3> HIDE DEF m
    <3>2. \A i \in 0 .. n - 1 : Pow2[i + 1] = 2 * Pow2[i] /\ Pow2[i] \in Nat
      BY <1>1, Powers
    <3>3. /\ Pow2[m + 4] = 2 * Pow2[m + 3] /\ Pow2[m + 3] = 2 * Pow2[m + 2]
          /\ Pow2[m + 2] = 2 * Pow2[m + 1] /\ Pow2[m + 1] = 2 * Pow2[m] /\ Pow2[m] \in Nat
      BY <1>1, <3>1, <3>2
    <3> QED BY <3>1, <3>3 DEF m
  <2>3. PICK r \in 0 .. 15 : q[k - 1] = q[k] * 16 + r
    <3>1. \E a \in Nat, r \in 0 .. 16 - 1 :
              a = q[k - 1] \div 16 /\ r = q[k - 1] % 16 /\ q[k - 1] = a * 16 + r
      <4>1. 16 \in Nat \ {0}
        OBVIOUS
      <4> QED BY <2>1, <4>1, Divided, Zenon
    <3>2. k \in 1 .. n
      BY <1>1
    <3>3. q[k] = q[k - 1] \div 16
      BY <1>q, <3>2
    <3> QED BY <3>1, <3>3
  <2> QED BY <1>1, <2>1, <2>2, <2>3
<1>4. \A k \in 0 .. h : k \in P
  <2> HIDE DEF P, h
  <2> QED BY <1>1, <1>2, <1>3, Turns
<1>5. q[h] < Pow2[n - 4 * h] /\ q[h] \in Nat /\ n - 4 * h = 0
  <2>1. h \in 0 .. h /\ h \in 0 .. n /\ n - 4 * h = 0
    BY <1>1
  <2>2. h \in P
    BY <1>4, <2>1
  <2> QED BY <1>q, <2>1, <2>2
<1> QED BY <1>1, <1>5, Powers

\* How many digits v has: one at least.
Places(q, len) == /\ len \in 1 .. WORD_BITS /\ q[len] = 0
                  /\ q[0] # 0 => \A k \in 0 .. len - 1 : q[k] # 0
                  /\ q[0] = 0 => len = 1

\* A word has a number of digits in each base.
LEMMA PlacesExist ==
    ASSUME NEW v \in 0 .. Pow2[WORD_BITS] - 1, NEW radix \in Nat, radix >= 2,
           NEW q \in Quotients(v, radix)
    PROVE  \E len : Places(q, len)
<1> DEFINE n == WORD_BITS
           Zeros == {k \in 1 .. n : q[k] = 0}
<1>1. n \in Nat \ {0}
  BY WidthAssumption
<1>q. q \in [0 .. n -> Nat] /\ q[0] = v /\ \A k \in 1 .. n : q[k] = q[k - 1] \div radix
  BY DEF Quotients
<1>2. n \in Zeros
  BY <1>1, QuotientsEnd
<1>3. PICK len \in Zeros : \A x \in Zeros : len <= x
  <2>1. Zeros \subseteq Nat /\ Zeros # {}
    BY <1>2
  <2> HIDE DEF Zeros
  <2> QED BY <2>1, LeastOf
<1>4. q[0] = 0 => len = 1
  <2> SUFFICES ASSUME q[0] = 0 PROVE 1 \in Zeros
    BY <1>3
  <2>1. 0 \div radix = 0
    <3>1. PICK a \in Nat, r \in 0 .. radix - 1 : a = 0 \div radix /\ 0 = a * radix + r
      BY Divided
    <3>2. a * radix >= 2 * a
      OBVIOUS
    <3>3. PICK z \in Int : z = a * radix
      OBVIOUS
    <3> QED BY <3>1, <3>2, <3>3
  <2> QED BY <1>1, <1>q, <2>1
<1>5. q[0] # 0 => \A k \in 0 .. len - 1 : q[k] # 0
  <2>1. ASSUME NEW k \in 0 .. len - 1, k # 0, q[k] = 0 PROVE FALSE
    <3>1. k \in 1 .. n /\ ~(len <= k)
      BY <1>1, <2>1
    <3> QED BY <1>3, <2>1, <3>1
  <2> QED BY <2>1
<1> QED BY <1>3, <1>4, <1>5 DEF Places

-----------------------------------------------------------------------------
\* A string of n bytes at `at`, within a buffer of top + 1.
StringAt(b, top, at, n) == /\ b \in [0 .. top -> Nat] /\ at + n <= top /\ b[at + n] = Nul
                           /\ \A i \in 0 .. n - 1 : b[at + i] # Nul

\* The length of a string is where its first end lies.
LEMMA StrlenIs ==
    ASSUME NEW top \in Nat, NEW at \in Nat, NEW n \in Nat, NEW b, StringAt(b, top, at, n)
    PROVE  strlen(b, at) = n
<1> DEFINE ends == {k \in 0 .. Cardinality(DOMAIN b) - 1 - at : b[at + k] = Nul}
<1>1. Cardinality(DOMAIN b) = top + 1
  <2>1. DOMAIN b = 0 .. top
    BY DEF StringAt
  <2>2. Cardinality(0 .. top) = IF 0 > top THEN 0 ELSE top - 0 + 1
    BY FS_Interval
  <2> QED BY <2>1, <2>2
<1>2. ends \subseteq Int
  OBVIOUS
<1>3. n \in ends /\ \A x \in ends : n <= x
  <2>1. n \in ends
    BY <1>1 DEF StringAt
  <2>2. ASSUME NEW x \in ends, x < n PROVE FALSE
    <3>1. x \in 0 .. n - 1 /\ b[at + x] = Nul
      BY <1>1, <2>2
    <3> QED BY <3>1 DEF StringAt
  <2> QED BY <1>1, <2>1, <2>2
<1>4. Min(ends) = n
  <2> HIDE DEF ends
  <2> QED BY <1>2, <1>3, MinIs
<1> QED BY <1>4 DEF strlen

\* The n bytes at `at`, the other way round.
Mirrored(b, top, at, n, k) ==
    [i \in 0 .. top |-> IF i \in at .. at + k - 1 \/ i \in at + n - k .. at + n - 1
                        THEN b[2 * at + n - 1 - i] ELSE b[i]]

\* A turn of strrev mirrors one more pair.
LEMMA SwapStep ==
    ASSUME NEW top \in Nat, NEW at \in Nat, NEW n \in Nat, NEW b \in [0 .. top -> Nat],
           at + n <= top, NEW k \in Nat \ {0}, 2 * k <= n
    PROVE  Swapped(Mirrored(b, top, at, n, k - 1), at + k - 1, at + n - k)
           = Mirrored(b, top, at, n, k)
<1> DEFINE c == Mirrored(b, top, at, n, k - 1)
           lo == at + k - 1
           hi == at + n - k
<1>1. lo \in 0 .. top /\ hi \in 0 .. top /\ lo < hi
  OBVIOUS
<1>2. c[lo] = b[lo] /\ c[hi] = b[hi]
  BY <1>1 DEF Mirrored
<1>3. Swapped(c, lo, hi) = [i \in 0 .. top |-> IF i = hi THEN c[lo] ELSE IF i = lo THEN c[hi] ELSE c[i]]
  <2>1. DOMAIN c = 0 .. top
    BY DEF Mirrored
  <2>2. Swapped(c, lo, hi) = [c EXCEPT ![lo] = c[hi], ![hi] = c[lo]]
    BY DEF Swapped
  <2>3. c = [i \in 0 .. top |-> c[i]]
    BY DEF Mirrored
  <2> HIDE DEF c, lo, hi
  <2> QED BY <1>1, <2>1, <2>2, <2>3
<1>4. ASSUME NEW i \in 0 .. top
      PROVE  (IF i = hi THEN c[lo] ELSE IF i = lo THEN c[hi] ELSE c[i])
             = IF i \in at .. at + k - 1 \/ i \in at + n - k .. at + n - 1
               THEN b[2 * at + n - 1 - i] ELSE b[i]
  <2>1. CASE i = hi
    <3>1. 2 * at + n - 1 - i = lo /\ i \in at + n - k .. at + n - 1
      BY <2>1
    <3> HIDE DEF c, lo
    <3> QED BY <1>2, <2>1, <3>1
  <2>2. CASE i = lo
    <3>1. 2 * at + n - 1 - i = hi /\ i \in at .. at + k - 1 /\ i # hi
      BY <1>1, <2>2
    <3> HIDE DEF c, hi
    <3> QED BY <1>2, <2>2, <3>1
  <2>3. CASE i # lo /\ i # hi
    <3>1. c[i] = IF i \in at .. at + (k - 1) - 1 \/ i \in at + n - (k - 1) .. at + n - 1
                 THEN b[2 * at + n - 1 - i] ELSE b[i]
      BY DEF Mirrored
    <3>2. i \in at .. at + (k - 1) - 1 <=> i \in at .. at + k - 1
      BY <2>3
    <3>3. i \in at + n - (k - 1) .. at + n - 1 <=> i \in at + n - k .. at + n - 1
      BY <2>3
    <3> HIDE DEF c, lo, hi
    <3> QED BY <2>3, <3>1, <3>2, <3>3, Zenon
  <2> QED BY <2>1, <2>2, <2>3
<1>5. Swapped(c, lo, hi) = Mirrored(b, top, at, n, k)
  <2> HIDE DEF c, lo, hi
  <2> QED BY <1>3, <1>4 DEF Mirrored
<1> QED BY <1>5

\* strrev turns a string round where it is, whatever its length, and leaves all else
\* (lib.c:477-492).
THEOREM StrrevReverses ==
    ASSUME NEW top \in Nat, NEW at \in Nat, NEW n \in Nat, NEW b, StringAt(b, top, at, n)
    PROVE  strrev(b, at) = [i \in 0 .. top |-> IF i \in at .. at + n - 1
                                               THEN b[2 * at + n - 1 - i] ELSE b[i]]
<1> DEFINE m == n \div 2
           S == [0 .. top -> Nat]
           Next1(k, c) == Swapped(c, at + k - 1, at + n - k)
           step == [k \in 1 .. m |-> [c \in S |-> Next1(k, c)]]
           f == CHOOSE str : str = [k \in 0 .. m |-> IF k = 0 THEN b ELSE Next1(k, str[k - 1])]
<1>1. m \in Nat /\ 2 * m <= n /\ n <= 2 * m + 1
  OBVIOUS
<1>2. b \in S /\ at + n <= top
  BY DEF StringAt
<1>3. \A k \in 1 .. m, c \in S : Next1(k, c) \in S
  <2>1. ASSUME NEW k \in 1 .. m, NEW c \in S PROVE Next1(k, c) \in S
    <3>1. at + k - 1 \in 0 .. top /\ at + n - k \in 0 .. top
      BY <1>1, <1>2
    <3> QED BY <3>1 DEF Swapped
  <2> QED BY <2>1
<1> HIDE DEF Next1, S, m
<1>4. step \in Bodies(m, S)
  BY <1>3 DEF Bodies
<1>5. PICK g \in [0 .. m -> S] : g[0] = b /\ \A k \in 1 .. m : g[k] = step[k][g[k - 1]]
  <2> HIDE DEF step
  <2>1. PICK g : g \in Runs(m, S, b, step)
    BY <1>1, <1>2, <1>4, LoopExists
  <2> QED BY <2>1 DEF Runs
<1>6. g = [k \in 0 .. m |-> IF k = 0 THEN b ELSE Next1(k, g[k - 1])]
  <2>1. ASSUME NEW k \in 0 .. m, k # 0 PROVE g[k] = Next1(k, g[k - 1])
    <3>1. k \in 1 .. m /\ k - 1 \in 0 .. m
      BY <1>1, <2>1
    <3>2. g[k - 1] \in S
      BY <3>1
    <3> QED BY <1>5, <3>1, <3>2
  <2> QED BY <1>5, <2>1
<1>7. f = [k \in 0 .. m |-> IF k = 0 THEN b ELSE Next1(k, f[k - 1])]
  BY <1>6, Zenon
<1>8. strlen(b, at) = n
  BY StrlenIs
<1>9. strrev(b, at) = f[m]
  BY <1>8, Zenon DEF strrev, Next1, m
<1> HIDE DEF f
<1>10. \A k \in 0 .. m : f[k] = Mirrored(b, top, at, n, k)
  <2> DEFINE P == {k \in 0 .. m : f[k] = Mirrored(b, top, at, n, k)}
  <2>1. 0 \in P
    <3>1. f[0] = b /\ 0 \in 0 .. m
      BY <1>1, <1>7
    <3>2. \A i \in 0 .. top : ~(i \in at .. at + 0 - 1) /\ ~(i \in at + n - 0 .. at + n - 1)
      OBVIOUS
    <3>3. b = [i \in 0 .. top |-> b[i]]
      BY <1>2 DEF S
    <3>4. Mirrored(b, top, at, n, 0) = b
      BY <3>2, <3>3 DEF Mirrored
    <3> QED BY <3>1, <3>4
  <2>2. ASSUME NEW k \in 1 .. m, k - 1 \in P PROVE k \in P
    <3>1. f[k] = Next1(k, f[k - 1]) /\ k \in 0 .. m /\ k \in Nat \ {0} /\ 2 * k <= n
      BY <1>1, <1>7
    <3>2. f[k - 1] = Mirrored(b, top, at, n, k - 1)
      BY <2>2
    <3>3. b \in [0 .. top -> Nat]
      BY <1>2 DEF S
    <3>4. Swapped(Mirrored(b, top, at, n, k - 1), at + k - 1, at + n - k) = Mirrored(b, top, at, n, k)
      BY <1>2, <3>1, <3>3, SwapStep, SMTT(40)
    <3> QED BY <3>1, <3>2, <3>4 DEF Next1
  <2>3. \A k \in 0 .. m : k \in P
    <3> HIDE DEF P
    <3> QED BY <1>1, <2>1, <2>2, Turns, Zenon
  <2> QED BY <2>3
<1>11. strrev(b, at) = Mirrored(b, top, at, n, m)
  BY <1>1, <1>9, <1>10
<1>12. ASSUME NEW i \in 0 .. top
       PROVE  (IF i \in at .. at + m - 1 \/ i \in at + n - m .. at + n - 1
               THEN b[2 * at + n - 1 - i] ELSE b[i])
              = IF i \in at .. at + n - 1 THEN b[2 * at + n - 1 - i] ELSE b[i]
  <2>1. CASE i \in at .. at + m - 1 \/ i \in at + n - m .. at + n - 1
    <3>1. i \in at .. at + n - 1
      BY <1>1, <2>1
    <3> QED BY <2>1, <3>1
  <2>2. CASE ~(i \in at .. at + m - 1 \/ i \in at + n - m .. at + n - 1) /\ i \in at .. at + n - 1
    <3>1. 2 * at + n - 1 - i = i
      BY <1>1, <2>2
    <3> QED BY <2>2, <3>1
  <2> QED BY <2>1, <2>2
<1> QED BY <1>11, <1>12 DEF Mirrored

-----------------------------------------------------------------------------
\* Parts of sequences.
LEMMA PartIs ==
    ASSUME NEW S, NEW s \in Seq(S), NEW m \in Nat \ {0}, NEW n \in Nat, n <= Len(s), m <= n + 1
    PROVE  /\ SubSeq(s, m, n) \in Seq(S) /\ Len(SubSeq(s, m, n)) = n - m + 1
           /\ \A i \in 1 .. n - m + 1 : SubSeq(s, m, n)[i] = s[m - 1 + i]
<1> DEFINE part == SubSeq(s, m, n)
<1>1. \A i \in m .. n : s[i] \in S
  OBVIOUS
<1>2. /\ part \in Seq(S) /\ Len(part) = IF m <= n THEN n - m + 1 ELSE 0
      /\ \A i \in 1 .. n - m + 1 : part[i] = s[m + i - 1]
  <2>1. m \in Int /\ n \in Int
    OBVIOUS
  <2> QED BY <1>1, <2>1, SubSeqProperties
<1> HIDE DEF part
<1>3. Len(part) = n - m + 1
  BY <1>2
<1>4. ASSUME NEW i \in 1 .. n - m + 1 PROVE part[i] = s[m - 1 + i]
  <2>1. m + i - 1 = m - 1 + i
    OBVIOUS
  <2> QED BY <1>2, <2>1
<1> QED BY <1>2, <1>3, <1>4 DEF part

\* What is left of a sequence from its m-th element on.
LEMMA RestIs ==
    ASSUME NEW S, NEW s \in Seq(S), NEW m \in Nat \ {0}, m <= Len(s) + 1,
           NEW rest, rest = SubSeq(s, m, Len(s))
    PROVE  /\ rest \in Seq(S) /\ Len(rest) = Len(s) - m + 1
           /\ \A i \in 1 .. Len(rest) : rest[i] = s[m - 1 + i]
<1>1. PICK n \in Nat : n = Len(s)
  OBVIOUS
<1>2. rest = SubSeq(s, m, n) /\ n <= Len(s) /\ m <= n + 1
  BY <1>1
<1>3. rest \in Seq(S) /\ Len(rest) = n - m + 1 /\ \A i \in 1 .. n - m + 1 : rest[i] = s[m - 1 + i]
  BY <1>2, PartIs
<1> QED BY <1>1, <1>3

\* An element of a sequence is of its set.
LEMMA OneOf ==
    ASSUME NEW S, NEW s \in Seq(S), NEW i \in 1 .. Len(s)
    PROVE  s[i] \in S
OBVIOUS

\* Concatenation is associative.
LEMMA JoinedTexts ==
    ASSUME NEW s \in Seq(Nat), NEW t \in Seq(Nat), NEW u \in Seq(Nat)
    PROVE  (s \o t) \o u = s \o (t \o u)
OBVIOUS

-----------------------------------------------------------------------------
\* Names of files, directories of them, and a name in a buffer.
Texts == Seq(Nat \ {Nul})
Names == {t \in Texts : Len(t) <= MAX_FILENAME}
Directory63 == [1 .. TOTAL_NUM_DIR -> Names]
Ended(t) == [j \in 0 .. MAX_FILENAME |-> IF j < Len(t) THEN t[j + 1] ELSE Nul]

\* A name is a text without '\0', of 32 bytes at most in the code.
LEMMA NamesAre ==
    ASSUME NEW t \in Names
    PROVE  /\ t \in Seq(Nat) /\ Len(t) \in 0 .. MAX_FILENAME /\ MAX_FILENAME \in Nat \ {0}
           /\ \A i \in 1 .. Len(t) : t[i] \in Nat /\ t[i] # Nul
<1>1. t \in Seq(Nat \ {Nul}) /\ Len(t) <= MAX_FILENAME
  BY DEF Names, Texts
<1>2. Len(t) \in Nat
  BY <1>1
<1>3. \A i \in 1 .. Len(t) : t[i] \in Nat \ {Nul}
  BY <1>1
<1>4. t \in Seq(Nat)
  BY <1>1
<1> QED BY <1>1, <1>2, <1>3, <1>4, FileAssumption

\* The directory of the image has the names it was made for.
LEMMA EntriesAre ==
    ASSUME NEW names \in Directory63, NEW i \in 0 .. TOTAL_NUM_DIR - 1
    PROVE  /\ dentry_name(DirImage(names), i) = Ended(names[i + 1])
           /\ Boot(DirImage(names)).dir_entries[i].inode_idx = i
           /\ names[i + 1] \in Names
<1>1. names[i + 1] \in Names
  BY FileAssumption DEF Directory63
<1>2. Boot(DirImage(names)).dir_entries[i] = [file_name |-> Name(names[i + 1]), inode_idx |-> i]
  BY DEF Boot, DirImage
<1>3. ASSUME NEW j \in 0 .. MAX_FILENAME
      PROVE  (IF j < MAX_FILENAME THEN Boot(DirImage(names)).dir_entries[i].file_name[j] ELSE Nul)
             = IF j < Len(names[i + 1]) THEN names[i + 1][j + 1] ELSE Nul
  <2>1. Len(names[i + 1]) \in 0 .. MAX_FILENAME /\ MAX_FILENAME \in Nat
    BY <1>1, NamesAre
  <2>2. CASE j < MAX_FILENAME
    <3>1. j \in 0 .. MAX_FILENAME - 1
      BY <2>1, <2>2
    <3> QED BY <1>2, <2>2, <3>1 DEF Name
  <2>3. CASE ~(j < MAX_FILENAME)
    <3>1. ~(j < Len(names[i + 1]))
      BY <2>1, <2>3
    <3> QED BY <2>3, <3>1
  <2> QED BY <2>2, <2>3
<1>4. dentry_name(DirImage(names), i) = Ended(names[i + 1])
  BY <1>3 DEF dentry_name, Ended
<1> QED BY <1>1, <1>2, <1>4

\* The kernel's copy of a name has its length.
LEMMA EndedIs ==
    ASSUME NEW t \in Names
    PROVE  StringAt(Ended(t), MAX_FILENAME, 0, Len(t)) /\ strlen(Ended(t), 0) = Len(t)
<1>1. Len(t) \in 0 .. MAX_FILENAME /\ MAX_FILENAME \in Nat /\ Len(t) \in Nat
      /\ \A i \in 1 .. Len(t) : t[i] \in Nat /\ t[i] # Nul
  BY NamesAre
<1>2. Ended(t) \in [0 .. MAX_FILENAME -> Nat]
  BY <1>1 DEF Ended, Nul
<1>3. Ended(t)[0 + Len(t)] = Nul
  BY <1>1 DEF Ended
<1>4. \A i \in 0 .. Len(t) - 1 : Ended(t)[0 + i] # Nul
  BY <1>1 DEF Ended
<1>5. StringAt(Ended(t), MAX_FILENAME, 0, Len(t))
  BY <1>1, <1>2, <1>3, <1>4 DEF StringAt
<1> QED BY <1>1, <1>5, StrlenIs

\* A directory is read name by name, each as it is (file_system.c:331-365).
THEOREM NamesRead ==
    ASSUME NEW names \in Directory63
    PROVE  /\ \A i \in 0 .. TOTAL_NUM_DIR - 1 : dir_read(DirImage(names), i) = names[i + 1]
           /\ dir_read(DirImage(names), TOTAL_NUM_DIR) = Failed
<1>0. TOTAL_NUM_DIR \in Nat
  BY FileAssumption
<1>1. ASSUME NEW i \in 0 .. TOTAL_NUM_DIR - 1 PROVE dir_read(DirImage(names), i) = names[i + 1]
  <2> DEFINE t == names[i + 1]
  <2>1. dentry_name(DirImage(names), i) = Ended(t) /\ t \in Names
        /\ Boot(DirImage(names)).dir_entries[i].inode_idx = i
    BY EntriesAre
  <2> HIDE DEF t
  <2>2. read_dentry_by_index(DirImage(names), i).inode_idx # Failed
    <3>1. i < TOTAL_NUM_DIR /\ i # -1
      BY <1>0
    <3> QED BY <2>1, <3>1 DEF read_dentry_by_index, Failed
  <2>3. strlen(Ended(t), 0) = Len(t) /\ Len(t) \in 0 .. MAX_FILENAME /\ t \in Seq(Nat) /\ MAX_FILENAME \in Nat
    BY <2>1, EndedIs, NamesAre
  <2>4. dir_read(DirImage(names), i) = [j \in 1 .. Len(t) |-> Ended(t)[j - 1]]
    BY <2>1, <2>2, <2>3 DEF dir_read
  <2>5. \A j \in 1 .. Len(t) : Ended(t)[j - 1] = t[j]
    <3> TAKE j \in 1 .. Len(t)
    <3>1. PICK k \in 0 .. MAX_FILENAME : k = j - 1 /\ k < Len(t) /\ k + 1 = j
      BY <2>3
    <3>2. Ended(t)[k] = t[j]
      BY <3>1 DEF Ended
    <3> QED BY <3>1, <3>2
  <2>6. t = [j \in 1 .. Len(t) |-> t[j]]
    BY <2>3
  <2> QED BY <2>4, <2>5, <2>6 DEF t
<1>2. dir_read(DirImage(names), TOTAL_NUM_DIR) = Failed
  <2>1. read_dentry_by_index(DirImage(names), TOTAL_NUM_DIR).inode_idx = Failed
    BY <1>0 DEF read_dentry_by_index
  <2> QED BY <2>1 DEF dir_read
<1> QED BY <1>1, <1>2

-----------------------------------------------------------------------------
\* A name in a buffer, and what is on the stack above it, which ends somewhere.
Stacks == {a \in Seq(Nat) : \E j \in 1 .. Len(a) : a[j] = Nul}

\* A name in command_name: with an end, or running on into the stack (syscall.c:218-268).
LEMMA BufferIs ==
    ASSUME NEW t \in Names, NEW stack \in Stacks, NEW b, b = Buffer(t, MAX_FILENAME, stack)
    PROVE  /\ \A i \in 0 .. MAX_FILENAME - 1 : b[i] = IF i < Len(t) THEN t[i + 1] ELSE Nul
           /\ IF Len(t) < MAX_FILENAME \/ stack[1] = Nul THEN strlen(b, 0) = Len(t)
              ELSE strlen(b, 0) > MAX_FILENAME
<1> DEFINE m == MAX_FILENAME
           n == Len(t)
           a == Len(stack)
           top == m + a - 1
<1>1. /\ n \in 0 .. m /\ m \in Nat \ {0} /\ n \in Nat /\ a \in Nat \ {0} /\ top \in Nat /\ m <= top
      /\ \A i \in 1 .. n : t[i] \in Nat /\ t[i] # Nul
  <2>1. a \in Nat \ {0}
    BY DEF Stacks
  <2> QED BY <2>1, NamesAre
<1>2. stack \in Seq(Nat) /\ \A j \in 1 .. a : stack[j] \in Nat
  BY DEF Stacks
<1> HIDE DEF m, n, a
<1>3. b = [i \in 0 .. top |-> IF i < n THEN t[i + 1] ELSE IF i < m THEN Nul ELSE stack[i - m + 1]]
  BY DEF Buffer, m, n, a
<1>4. \A i \in 0 .. m - 1 : b[i] = IF i < n THEN t[i + 1] ELSE Nul
  BY <1>1, <1>3
<1>5. ASSUME NEW j \in 1 .. a PROVE b[m + j - 1] = stack[j]
  <2>1. PICK i \in 0 .. top : i = m + j - 1 /\ ~(i < n) /\ ~(i < m) /\ i - m + 1 = j
    BY <1>1
  <2> QED BY <1>3, <2>1
<1>6. b \in [0 .. top -> Nat]
  <2>1. ASSUME NEW i \in 0 .. top PROVE b[i] \in Nat
    <3>1. CASE i < n
      <4>1. i + 1 \in 1 .. n
        BY <1>1, <3>1
      <4> QED BY <1>1, <1>3, <3>1, <4>1
    <3>2. CASE ~(i < n) /\ i < m
      BY <1>3, <3>2 DEF Nul
    <3>3. CASE ~(i < n) /\ ~(i < m)
      <4>1. i - m + 1 \in 1 .. a
        BY <1>1, <3>3
      <4> QED BY <1>2, <1>3, <3>3, <4>1
    <3> QED BY <3>1, <3>2, <3>3
  <2> QED BY <1>3, <2>1
<1>7. \A i \in 0 .. n - 1 : b[i] # Nul
  <2> TAKE i \in 0 .. n - 1
  <2>1. i + 1 \in 1 .. n /\ i \in 0 .. m - 1 /\ i < n
    BY <1>1
  <2> QED BY <1>1, <1>4, <2>1
<1>8. CASE n < m
  <2>1. b[n] = Nul /\ n <= top
    BY <1>1, <1>4, <1>8
  <2>2. StringAt(b, top, 0, n)
    BY <1>1, <1>6, <1>7, <2>1 DEF StringAt
  <2>3. strlen(b, 0) = n
    BY <1>1, <2>2, StrlenIs
  <2> QED BY <1>4, <1>8, <2>3 DEF n, m
<1>9. CASE ~(n < m)
  <2>0. n = m
    BY <1>1, <1>9
  <2>1. CASE stack[1] = Nul
    <3>1. b[n] = Nul
      <4>1. 1 \in 1 .. a /\ m + 1 - 1 = n
        BY <1>1, <2>0
      <4> QED BY <1>5, <2>1, <4>1
    <3>2. StringAt(b, top, 0, n)
      BY <1>1, <1>6, <1>7, <2>0, <3>1 DEF StringAt
    <3>3. strlen(b, 0) = n
      BY <1>1, <3>2, StrlenIs
    <3> QED BY <1>4, <2>1, <3>3 DEF n, m
  <2>2. CASE stack[1] # Nul
    <3> DEFINE E == {j \in 1 .. a : stack[j] = Nul}
    <3>1. E \subseteq Nat /\ E # {}
      BY <1>1 DEF Stacks, a
    <3>2. PICK j \in 1 .. a : stack[j] = Nul /\ \A k \in 1 .. j - 1 : stack[k] # Nul
      <4>1. Min(E) \in E /\ \A x \in E : Min(E) <= x
        BY <3>1, LeastOf
      <4>2. PICK j \in 1 .. a : j = Min(E) /\ stack[j] = Nul
        BY <4>1
      <4>3. ASSUME NEW k \in 1 .. j - 1, stack[k] = Nul PROVE FALSE
        <5>1. k \in E /\ ~(j <= k)
          BY <1>1, <4>3
        <5> QED BY <4>1, <4>2, <5>1
      <4> QED BY <4>2, <4>3
    <3>3. j # 1 /\ m + j - 1 \in Nat /\ m + j - 1 > m /\ m + j - 1 <= top
      BY <1>1, <2>2, <3>2
    <3>4. ASSUME NEW i \in 0 .. (m + j - 1) - 1 PROVE b[i] # Nul
      <4>1. CASE i < m
        <5>1. i \in 0 .. n - 1
          BY <1>1, <2>0, <4>1
        <5> QED BY <1>7, <5>1
      <4>2. CASE ~(i < m)
        <5>1. PICK k \in 1 .. j - 1 : i = m + k - 1
          <6>1. i - m + 1 \in 1 .. j - 1 /\ i = m + (i - m + 1) - 1
            BY <1>1, <4>2
          <6> QED BY <6>1
        <5>2. k \in 1 .. a /\ stack[k] # Nul
          BY <1>1, <3>2
        <5> QED BY <1>5, <5>1, <5>2
      <4> QED BY <4>1, <4>2
    <3>5. b[m + j - 1] = Nul
      BY <1>5, <3>2
    <3>6. StringAt(b, top, 0, m + j - 1)
      <4>1. PICK l \in Nat : l = m + j - 1
        BY <3>3
      <4>2. b[0 + l] = Nul /\ 0 + l <= top /\ \A i \in 0 .. l - 1 : b[0 + i] # Nul
        BY <3>3, <3>4, <3>5, <4>1
      <4>3. StringAt(b, top, 0, l)
        BY <1>6, <4>2 DEF StringAt
      <4> QED BY <4>1, <4>3
    <3>7. strlen(b, 0) = m + j - 1
      BY <1>1, <3>3, <3>6, StrlenIs
    <3>8. strlen(b, 0) > m
      BY <3>3, <3>7
    <3> QED BY <1>4, <1>9, <2>2, <3>8 DEF n, m
  <2> QED BY <2>1, <2>2
<1> QED BY <1>8, <1>9

\* The entries of a name.
NamedBy(names, t) == {i \in 0 .. TOTAL_NUM_DIR - 1 : names[i + 1] = t}

\* An entry matches a name if it has that name.
LEMMA MatchesIs ==
    ASSUME NEW names \in Directory63, NEW i \in 0 .. TOTAL_NUM_DIR - 1, NEW t \in Names,
           NEW b, strlen(b, 0) = Len(t),
           \A k \in 0 .. MAX_FILENAME - 1 : b[k] = IF k < Len(t) THEN t[k + 1] ELSE Nul
    PROVE  Matches(DirImage(names), b, i) <=> names[i + 1] = t
<1> DEFINE u == names[i + 1]
           d == Ended(u)
           n == Len(t)
           m == MAX_FILENAME
           ends == {k \in 0 .. m - 1 : d[k] # b[k] \/ d[k] = Nul}
<1>1. dentry_name(DirImage(names), i) = d /\ u \in Names
  BY EntriesAre
<1>2. strlen(d, 0) = Len(u)
  BY <1>1, EndedIs
<1> HIDE DEF u
<1>3. /\ n \in 0 .. m /\ m \in Nat /\ n \in Nat /\ Len(u) \in 0 .. m
      /\ \A k \in 1 .. n : t[k] \in Nat /\ t[k] # Nul
      /\ \A k \in 1 .. Len(u) : u[k] \in Nat /\ u[k] # Nul
      /\ t \in Seq(Nat) /\ u \in Seq(Nat)
  BY <1>1, NamesAre
<1>4. strncmp(d, b, m) = IF ends = {} THEN 0 ELSE d[Min(ends)] - b[Min(ends)]
  BY DEF strncmp
<1>5. Matches(DirImage(names), b, i) <=> Len(u) = n /\ strncmp(d, b, m) = 0
  BY <1>1, <1>2 DEF Matches
<1>6. /\ \A k \in 0 .. m - 1 : d[k] = IF k < Len(u) THEN u[k + 1] ELSE Nul
      /\ \A k \in 0 .. m - 1 : b[k] = IF k < n THEN t[k + 1] ELSE Nul
  BY <1>3 DEF Ended
<1> HIDE DEF d, n, m
<1>7. \A k \in 0 .. m - 1 : d[k] \in Nat /\ b[k] \in Nat
  <2> TAKE k \in 0 .. m - 1
  <2>1. d[k] \in Nat
    <3>1. CASE k < Len(u)
      <4>1. k + 1 \in 1 .. Len(u)
        BY <1>3, <3>1
      <4> QED BY <1>3, <1>6, <3>1, <4>1
    <3>2. CASE ~(k < Len(u))
      BY <1>6, <3>2 DEF Nul
    <3> QED BY <3>1, <3>2
  <2>2. b[k] \in Nat
    <3>1. CASE k < n
      <4>1. k + 1 \in 1 .. n
        BY <1>3, <3>1
      <4> QED BY <1>3, <1>6, <3>1, <4>1
    <3>2. CASE ~(k < n)
      BY <1>6, <3>2 DEF Nul
    <3> QED BY <3>1, <3>2
  <2> QED BY <2>1, <2>2
<1>8. ends # {} => Min(ends) \in ends /\ \A x \in ends : Min(ends) <= x
  <2>1. ends \subseteq Nat
    BY <1>3
  <2> HIDE DEF ends
  <2> QED BY <2>1, LeastOf
<1>9. ASSUME u = t PROVE strncmp(d, b, m) = 0
  <2>1. \A k \in 0 .. m - 1 : d[k] = b[k]
    BY <1>6, <1>9 DEF n
  <2>2. ends # {} => d[Min(ends)] = b[Min(ends)] /\ d[Min(ends)] \in Nat
    <3>1. ends \subseteq 0 .. m - 1
      OBVIOUS
    <3> HIDE DEF ends
    <3> QED BY <1>7, <1>8, <2>1, <3>1
  <2> HIDE DEF ends
  <2> QED BY <1>4, <2>2
<1>10. ASSUME Len(u) = n, strncmp(d, b, m) = 0 PROVE u = t
  <2>1. ASSUME NEW k \in 1 .. n PROVE u[k] = t[k]
    <3>1. ASSUME u[k] # t[k] PROVE FALSE
      <4> DEFINE j == k - 1
      <4>1. j \in 0 .. m - 1 /\ j < n /\ j + 1 = k
        BY <1>3
      <4> HIDE DEF j
      <4>2. d[j] # b[j]
        BY <1>6, <1>10, <3>1, <4>1
      <4>3. j \in ends
        BY <4>1, <4>2
      <4>4. PICK l : l = Min(ends) /\ l \in ends /\ l <= j
        BY <1>8, <4>3
      <4>5. l \in 0 .. m - 1 /\ (d[l] # b[l] \/ d[l] = Nul)
        BY <4>4
      <4>6. ends # {}
        BY <4>3
      <4> HIDE DEF ends
      <4>7. d[l] - b[l] = 0
        BY <1>4, <1>10, <4>4, <4>6
      <4>8. d[l] = b[l] /\ d[l] = Nul
        BY <1>7, <4>5, <4>7
      <4>9. l < n /\ l + 1 \in 1 .. n
        BY <1>3, <4>1, <4>4, <4>5
      <4>10. b[l] = t[l + 1] /\ t[l + 1] # Nul
        BY <1>3, <1>6, <4>5, <4>9
      <4> QED BY <4>8, <4>10
    <3> QED BY <3>1
  <2>2. u = [k \in 1 .. n |-> u[k]]
    BY <1>3, <1>10
  <2>3. t = [k \in 1 .. n |-> t[k]]
    BY <1>3 DEF n
  <2> QED BY <2>1, <2>2, <2>3
<1> QED BY <1>5, <1>9, <1>10 DEF u, n

\* The first entry of that name, if the name leaves room for its end, and never one
\* of another name (file_system.c:47-96).
THEOREM NamesFound ==
    ASSUME NEW names \in Directory63, NEW t \in Names, NEW stack \in Stacks
    PROVE  LET found == read_dentry_by_name(DirImage(names), Buffer(t, MAX_FILENAME, stack))
               named == NamedBy(names, t)
           IN /\ found # Failed => found \in named
              /\ Len(t) < MAX_FILENAME /\ named # {} => found = Min(named)
<1> DEFINE b == Buffer(t, MAX_FILENAME, stack)
           image == DirImage(names)
           result == read_dentry_by_name(image, b)
           named == NamedBy(names, t)
           found == {i \in 0 .. TOTAL_NUM_DIR - 1 : Matches(image, b, i)}
<1> SUFFICES /\ result # Failed => result \in named
             /\ Len(t) < MAX_FILENAME /\ named # {} => result = Min(named)
  OBVIOUS
<1>1. /\ \A i \in 0 .. MAX_FILENAME - 1 : b[i] = IF i < Len(t) THEN t[i + 1] ELSE Nul
      /\ IF Len(t) < MAX_FILENAME \/ stack[1] = Nul THEN strlen(b, 0) = Len(t)
         ELSE strlen(b, 0) > MAX_FILENAME
  BY BufferIs
<1>2. result = IF strlen(b, 0) > MAX_FILENAME \/ found = {} THEN Failed
               ELSE Boot(image).dir_entries[Min(found)].inode_idx
  BY DEF read_dentry_by_name
<1>l. Len(t) \in 0 .. MAX_FILENAME /\ MAX_FILENAME \in Nat
  BY NamesAre
<1> HIDE DEF b
<1>3. CASE strlen(b, 0) = Len(t)
  <2>1. \A i \in 0 .. TOTAL_NUM_DIR - 1 : Matches(image, b, i) <=> names[i + 1] = t
    BY <1>1, <1>3, MatchesIs
  <2>2. found = named
    BY <2>1 DEF NamedBy
  <2>3. named # {} => Min(named) \in named
    <3>1. named \subseteq Nat
      BY FileAssumption DEF NamedBy
    <3> HIDE DEF named
    <3> QED BY <3>1, LeastOf
  <2>4. named # {} => Boot(image).dir_entries[Min(named)].inode_idx = Min(named)
    <3>1. named \subseteq 0 .. TOTAL_NUM_DIR - 1
      BY DEF NamedBy
    <3> HIDE DEF named
    <3> QED BY <2>3, <3>1, EntriesAre
  <2>5. ~(strlen(b, 0) > MAX_FILENAME)
    BY <1>3, <1>l
  <2> HIDE DEF named, found, image
  <2>6. result = IF named = {} THEN Failed ELSE Min(named)
    BY <1>2, <2>2, <2>4, <2>5
  <2> QED BY <2>3, <2>6
<1>4. CASE strlen(b, 0) # Len(t)
  <2>1. strlen(b, 0) > MAX_FILENAME /\ ~(Len(t) < MAX_FILENAME)
    BY <1>1, <1>4
  <2> QED BY <1>2, <2>1
<1> QED BY <1>3, <1>4

-----------------------------------------------------------------------------
\* The words of a command.
LEMMA StartBefore ==
    ASSUME NEW c \in Seq(Nat), NEW j \in 1 .. Len(c), c[j] # Space
    PROVE  \E i \in Starts(c) : i <= j /\ \A k \in i .. j : c[k] # Space
<1> DEFINE S == {x \in 1 .. j : \A k \in x .. j : c[k] # Space}
<1>n. PICK n \in Nat : n = Len(c)
  OBVIOUS
<1>1. j \in S /\ S \subseteq Nat
  OBVIOUS
<1>2. Min(S) \in S /\ \A x \in S : Min(S) <= x
  <2>1. S # {} /\ S \subseteq Nat
    BY <1>1
  <2> HIDE DEF S
  <2> QED BY <2>1, LeastOf
<1>3. PICK i \in 1 .. j : i = Min(S) /\ \A k \in i .. j : c[k] # Space
  BY <1>2
<1>4. i = 1 \/ c[i - 1] = Space
  <2> SUFFICES ASSUME i # 1, c[i - 1] # Space PROVE FALSE
    OBVIOUS
  <2>1. PICK h \in 1 .. j : h = i - 1 /\ c[h] # Space
    OBVIOUS
  <2>2. \A k \in h .. j : c[k] # Space
    <3> TAKE k \in h .. j
    <3>1. k = h \/ k \in i .. j
      BY <2>1
    <3> QED BY <1>3, <2>1, <3>1
  <2>3. h \in S
    BY <2>2
  <2>4. i <= h
    BY <1>2, <1>3, <2>3
  <2> QED BY <2>1, <2>4
<1>5. i \in 1 .. Len(c) /\ c[i] # Space
  BY <1>3, <1>n
<1>6. i \in Starts(c)
  BY <1>4, <1>5 DEF Starts
<1> QED BY <1>3, <1>6

\* The last character of the word that begins at i.
WordEnds(c, i, e) ==
    /\ e \in i .. Len(c) /\ \A k \in i .. e : c[k] # Space
    /\ e < Len(c) => c[e + 1] = Space

\* EndOf is where the word that starts at i ends.
LEMMA EndIs ==
    ASSUME NEW c \in Seq(Nat), NEW i \in Starts(c)
    PROVE  i \in 1 .. Len(c) /\ WordEnds(c, i, EndOf(c, i))
<1>n. PICK n \in Nat : n = Len(c)
  OBVIOUS
<1> DEFINE S == {j \in i .. n : c[j] = Space} \cup {n + 1}
<1>1. i \in 1 .. n /\ c[i] # Space
  BY <1>n DEF Starts
<1>2. S \subseteq Nat /\ S # {} /\ (\A x \in S : x >= i /\ x # i) /\ EndOf(c, i) = Min(S) - 1
  BY <1>1, <1>n DEF EndOf
<1>3. Min(S) \in S /\ \A x \in S : Min(S) <= x
  <2> HIDE DEF S
  <2> QED BY <1>2, LeastOf
<1>4. PICK e \in i .. n : e = Min(S) - 1 /\ e + 1 \in S
  <2>1. Min(S) \in Nat /\ Min(S) >= i /\ Min(S) # i
    <3> HIDE DEF S
    <3> QED BY <1>2, <1>3
  <2>2. n + 1 \in S
    OBVIOUS
  <2>3. Min(S) <= n + 1
    <3> HIDE DEF S
    <3> QED BY <1>3, <2>2
  <2> HIDE DEF S
  <2>4. Min(S) - 1 \in i .. n /\ (Min(S) - 1) + 1 = Min(S)
    BY <1>1, <2>1, <2>3
  <2> QED BY <1>3, <2>4
<1>5. \A k \in i .. e : c[k] # Space
  <2> SUFFICES ASSUME NEW k \in i .. e, c[k] = Space PROVE FALSE
    OBVIOUS
  <2>1. k \in S
    BY <1>1, <1>4
  <2>2. Min(S) <= k
    <3> HIDE DEF S
    <3> QED BY <1>3, <2>1
  <2>3. Min(S) \in Nat
    BY <1>2, <1>3
  <2> HIDE DEF S
  <2> QED BY <1>1, <1>4, <2>2, <2>3
<1>6. e < n => c[e + 1] = Space
  BY <1>1, <1>4
<1> QED BY <1>1, <1>2, <1>4, <1>5, <1>6, <1>n DEF WordEnds

\* The spaces before the first word.
LEMMA SkippedIs ==
    ASSUME NEW c \in Seq(Nat)
    PROVE  /\ Starts(c) # {} => /\ Min(Starts(c)) \in Starts(c) /\ \A i \in Starts(c) : Min(Starts(c)) <= i
                                /\ Skipped(c) = Min(Starts(c)) - 1
           /\ Starts(c) = {} => Skipped(c) = Len(c)
<1>n. PICK n \in Nat : n = Len(c)
  OBVIOUS
<1> DEFINE K == {k \in 0 .. n - 1 : c[k + 1] # Space}
           S == {n} \cup K
<1>1. Skipped(c) = Min(S) /\ S \subseteq Int
  BY <1>n DEF Skipped
<1>2. Starts(c) \subseteq 1 .. n /\ \A i \in Starts(c) : c[i] # Space
  BY <1>n DEF Starts
<1>3. \A k \in K : \E i \in Starts(c) : i <= k + 1
  <2> TAKE k \in K
  <2>1. k + 1 \in 1 .. Len(c) /\ c[k + 1] # Space
    BY <1>n
  <2> QED BY <2>1, StartBefore
<1>4. CASE Starts(c) # {}
  <2>1. Min(Starts(c)) \in Starts(c) /\ \A i \in Starts(c) : Min(Starts(c)) <= i
    <3>1. Starts(c) \subseteq Nat
      BY <1>2
    <3> QED BY <1>4, <3>1, LeastOf
  <2>2. PICK f \in 1 .. n : f = Min(Starts(c)) /\ c[f] # Space
    BY <1>2, <2>1
  <2>3. PICK g \in 0 .. n - 1 : g = f - 1 /\ g + 1 = f
    BY <1>n
  <2>4. g \in S
    BY <2>2, <2>3
  <2>5. \A x \in S : g <= x
    <3> TAKE x \in S
    <3>1. CASE x = n
      BY <2>3, <3>1
    <3>2. CASE x \in K
      <4>1. PICK i \in Starts(c) : i <= x + 1
        BY <1>3, <3>2
      <4>2. f <= i /\ i \in Nat /\ x \in Nat
        BY <1>2, <2>1, <2>2, <3>2, <4>1
      <4> QED BY <2>3, <4>1, <4>2
    <3> QED BY <3>1, <3>2
  <2>6. Min(S) = g
    <3> HIDE DEF S
    <3> QED BY <1>1, <2>4, <2>5, MinIs
  <2> QED BY <1>1, <1>4, <2>1, <2>2, <2>3, <2>6
<1>5. CASE Starts(c) = {}
  <2>1. S = {n}
    BY <1>3, <1>5
  <2>2. Min(S) = n
    <3> HIDE DEF S
    <3>1. n \in S /\ \A x \in S : n <= x
      BY <2>1
    <3> QED BY <1>1, <3>1, MinIs
  <2> QED BY <1>1, <1>5, <1>n, <2>2
<1> QED BY <1>4, <1>5

-----------------------------------------------------------------------------
\* The first len characters from the one at `from` on.
Cut(r, from, len) == [i \in 1 .. len |-> r[from + i - 1]]
AtMost(x, y) == IF x <= y THEN x ELSE y

\* What Cut takes from a text.
LEMMA CutIs ==
    ASSUME NEW r, NEW from \in Nat \ {0}, NEW len \in Nat,
           \A i \in from .. from + len - 1 : r[i] \in Nat
    PROVE  /\ Cut(r, from, len) \in Seq(Nat) /\ Len(Cut(r, from, len)) = len
           /\ \A i \in 1 .. len : Cut(r, from, len)[i] = r[from + i - 1]
<1>1. \A i \in 1 .. len : r[from + i - 1] \in Nat
  <2> TAKE i \in 1 .. len
  <2>1. from + i - 1 \in from .. from + len - 1
    OBVIOUS
  <2> QED BY <2>1
<1>2. Cut(r, from, len) \in [1 .. len -> Nat]
  BY <1>1 DEF Cut
<1>3. Cut(r, from, len) \in Seq(Nat)
  BY <1>2
<1> QED BY <1>2, <1>3 DEF Cut

\* One more character of a text.
LEMMA CutGrows ==
    ASSUME NEW r, NEW from \in Nat \ {0}, NEW len \in Nat,
           \A i \in from .. from + len : r[i] \in Nat
    PROVE  Append(Cut(r, from, len), r[from + len]) = Cut(r, from, len + 1)
<1> DEFINE s == Cut(r, from, len)
           t == Cut(r, from, len + 1)
           x == r[from + len]
<1>1. s \in Seq(Nat) /\ Len(s) = len /\ \A i \in 1 .. len : s[i] = r[from + i - 1]
  BY CutIs
<1>2. t \in Seq(Nat) /\ Len(t) = len + 1 /\ \A i \in 1 .. len + 1 : t[i] = r[from + i - 1]
  <2>1. len + 1 \in Nat /\ from + (len + 1) - 1 = from + len
    OBVIOUS
  <2> QED BY <2>1, CutIs
<1>3. x \in Nat
  OBVIOUS
<1> HIDE DEF s, t, x
<1>4. Append(s, x) \in Seq(Nat) /\ Len(Append(s, x)) = len + 1
      /\ \A i \in 1 .. len + 1 : Append(s, x)[i] = IF i <= len THEN s[i] ELSE x
  BY <1>1, <1>3
<1>5. \A i \in 1 .. len + 1 : Append(s, x)[i] = t[i]
  <2> TAKE i \in 1 .. len + 1
  <2>1. CASE i <= len
    <3>1. s[i] = r[from + i - 1] /\ Append(s, x)[i] = s[i]
      BY <1>1, <1>4, <2>1
    <3>2. t[i] = r[from + i - 1]
      BY <1>2
    <3> QED BY <3>1, <3>2
  <2>2. CASE ~(i <= len)
    <3>1. i = len + 1 /\ from + i - 1 = from + len
      BY <2>2
    <3> QED BY <1>2, <1>4, <2>2, <3>1 DEF x
  <2> QED BY <2>1, <2>2
<1>6. Append(s, x) = t
  BY <1>2, <1>4, <1>5
<1> QED BY <1>6 DEF s, t, x

\* A line that begins with a word of w characters; what is gathered as its argument.
Leading(r, w) == /\ r \in Seq(Nat) /\ w \in 0 .. Len(r)
                 /\ \A k \in 1 .. w : r[k] # Space
                 /\ w < Len(r) => r[w + 1] = Space
Gathered(s, ch, late) ==
    IF late /\ ch # Space /\ Len(s) <= MAX_FILENAME THEN Append(s, ch) ELSE s
Gathers(F, r, w) ==
    /\ F[0] = <<>> /\ \A k \in 0 .. Len(r) : F[k] \in Seq(Nat)
    /\ \A k \in 1 .. Len(r) : F[k] = Gathered(F[k - 1], r[k], k > w)

\* The arguments of a command can be gathered character by character.
LEMMA GatheringExists ==
    ASSUME NEW r, NEW w, Leading(r, w)
    PROVE  \E F : Gathers(F, r, w)
<1>0. PICK n \in Nat : n = Len(r)
  BY DEF Leading
<1>1. w \in 0 .. n /\ \A k \in 1 .. n : r[k] \in Nat
  BY <1>0 DEF Leading
<1> DEFINE S == Seq(Nat)
           step == [k \in 1 .. n |-> [s \in S |-> Gathered(s, r[k], k > w)]]
<1>2. step \in Bodies(n, S)
  <2>1. ASSUME NEW k \in 1 .. n, NEW s \in S PROVE Gathered(s, r[k], k > w) \in S
    <3>1. Append(s, r[k]) \in S
      BY <1>1
    <3> QED BY <3>1 DEF Gathered
  <2> QED BY <2>1 DEF Bodies
<1>3. <<>> \in S
  OBVIOUS
<1>4. PICK F : F \in Runs(n, S, <<>>, step)
  <2> HIDE DEF S, step
  <2> QED BY <1>2, <1>3, LoopExists
<1>5. F \in [0 .. n -> S] /\ F[0] = <<>> /\ \A k \in 1 .. n : F[k] = step[k][F[k - 1]]
  <2> HIDE DEF S, step
  <2> QED BY <1>4 DEF Runs
<1>6. ASSUME NEW k \in 1 .. n PROVE F[k] = Gathered(F[k - 1], r[k], k > w)
  <2>1. k - 1 \in 0 .. n
    OBVIOUS
  <2>2. F[k - 1] \in S
    BY <1>5, <2>1
  <2> HIDE DEF S
  <2> QED BY <1>5, <2>2
<1>7. \A k \in 0 .. n : F[k] \in Seq(Nat)
  BY <1>5
<1> QED BY <1>0, <1>5, <1>6, <1>7 DEF Gathers

\* What is split of it after k characters.
SplitAt(r, w, F, k) ==
    [space_begin  |-> k > w,
     command_name |-> Cut(r, 1, AtMost(AtMost(k, w), MAX_FILENAME)),
     file_name    |-> F[k]]

\* A turn of parse_cmd splits one more character (syscall.c:218-268).
LEMMA PlacedIs ==
    ASSUME NEW r, NEW w, Leading(r, w), NEW F, Gathers(F, r, w), NEW k \in 1 .. Len(r)
    PROVE  Placed(SplitAt(r, w, F, k - 1), r[k]) = SplitAt(r, w, F, k)
<1> DEFINE m == MAX_FILENAME
           cn(j) == AtMost(AtMost(j, w), m)
           q == SplitAt(r, w, F, k - 1)
           z == SplitAt(r, w, F, k)
<1>0. PICK n \in Nat : n = Len(r)
  BY DEF Leading
<1>1. /\ r \in Seq(Nat) /\ w \in 0 .. n /\ m \in Nat \ {0} /\ k \in 1 .. n /\ \A i \in 1 .. n : r[i] \in Nat
  BY <1>0, FileAssumption DEF Leading
<1>2. /\ \A i \in 1 .. w : r[i] # Space
      /\ w < n => r[w + 1] = Space
  BY <1>0 DEF Leading
<1>3. PICK h \in 0 .. n - 1 : h = k - 1 /\ h + 1 = k
  BY <1>1
<1> DEFINE c0 == Cut(r, 1, cn(h))
           c1 == Cut(r, 1, cn(k))
           f0 == F[h]
           f1 == F[k]
           b0 == h > w
           b1 == k > w
<1>4. q = [space_begin |-> b0, command_name |-> c0, file_name |-> f0]
      /\ z = [space_begin |-> b1, command_name |-> c1, file_name |-> f1]
  BY <1>3 DEF SplitAt
<1>g. f1 = Gathered(f0, r[k], b1)
  BY <1>0, <1>1, <1>3 DEF Gathers
<1> SUFFICES Placed(q, r[k]) = z
  OBVIOUS
<1> HIDE DEF m, q, z
<1>5. cn(h) \in Nat /\ cn(k) \in Nat /\ cn(h) <= h /\ cn(h) <= w
  BY <1>1 DEF AtMost
<1>6. Len(c0) = cn(h)
  <2>1. \A i \in 1 .. 1 + cn(h) - 1 : r[i] \in Nat
    BY <1>1, <1>5
  <2> HIDE DEF cn
  <2> QED BY <1>5, <2>1, CutIs
<1> HIDE DEF c0, c1, f0, f1, b0, b1
<1>7. CASE k \in 1 .. w
  <2>1. r[k] # Space /\ b0 = FALSE /\ b1 = FALSE
    BY <1>1, <1>2, <1>3, <1>7 DEF b0, b1
  <2>2. f0 = f1
    BY <1>g, <2>1 DEF Gathered
  <2>3. CASE h < m
    <3>1. cn(h) = h /\ cn(k) = h + 1 /\ 1 + h = k
      BY <1>1, <1>3, <1>7, <2>3 DEF AtMost
    <3>2. Append(c0, r[k]) = c1
      <4>1. \A i \in 1 .. 1 + h : r[i] \in Nat
        BY <1>1, <1>3
      <4>2. Append(Cut(r, 1, h), r[1 + h]) = Cut(r, 1, h + 1)
        BY <4>1, CutGrows
      <4> QED BY <3>1, <4>2 DEF c0, c1
    <3>3. Len(c0) < m
      BY <1>6, <2>3, <3>1
    <3>4. Placed(q, r[k]) = [q EXCEPT !.command_name = Append(c0, r[k])]
      BY <1>4, <2>1, <3>3 DEF Placed, m
    <3> QED BY <1>4, <2>1, <2>2, <3>2, <3>4
  <2>4. CASE ~(h < m)
    <3>1. cn(h) = m /\ cn(k) = m
      BY <1>1, <1>3, <1>7, <2>4 DEF AtMost
    <3>2. c0 = c1 /\ ~(Len(c0) < m)
      BY <1>1, <1>6, <3>1 DEF c0, c1
    <3>3. Placed(q, r[k]) = q
      BY <1>4, <2>1, <3>2 DEF Placed, m
    <3> QED BY <1>4, <2>1, <2>2, <3>2, <3>3
  <2> QED BY <2>3, <2>4
<1>8. ASSUME ~(k \in 1 .. w) PROVE c0 = c1 /\ b1 = TRUE
  <2>1. cn(h) = cn(k)
    BY <1>1, <1>3, <1>8 DEF AtMost
  <2> QED BY <1>1, <1>8, <2>1 DEF c0, c1, b1
<1>9. CASE r[k] = Space
  <2>1. ~(k \in 1 .. w)
    BY <1>2, <1>9
  <2>2. Placed(q, r[k]) = [q EXCEPT !.space_begin = TRUE]
    BY <1>9 DEF Placed
  <2>3. f0 = f1
    BY <1>9, <1>g DEF Gathered
  <2> QED BY <1>4, <1>8, <2>1, <2>2, <2>3
<1>10. CASE ~(k \in 1 .. w) /\ r[k] # Space
  <2>1. b0 = TRUE /\ b1 = TRUE /\ c0 = c1
    <3>1. k # w + 1
      BY <1>1, <1>2, <1>10
    <3> QED BY <1>1, <1>3, <1>8, <1>10, <3>1 DEF b0
  <2>2. CASE Len(f0) <= m
    <3>1. Placed(q, r[k]) = [q EXCEPT !.file_name = Append(f0, r[k])]
      BY <1>4, <1>10, <2>1, <2>2 DEF Placed, m
    <3>2. f1 = Append(f0, r[k])
      BY <1>g, <1>10, <2>1, <2>2 DEF Gathered, m
    <3> QED BY <1>4, <2>1, <3>1, <3>2
  <2>3. CASE ~(Len(f0) <= m)
    <3>1. Placed(q, r[k]) = q
      BY <1>4, <1>10, <2>1, <2>3 DEF Placed, m
    <3>2. f1 = f0
      BY <1>g, <1>10, <2>1, <2>3 DEF Gathered, m
    <3> QED BY <1>4, <2>1, <3>1, <3>2
  <2> QED BY <2>2, <2>3
<1> QED BY <1>7, <1>9, <1>10

\* The command's name and its argument, each as far as there is room for it.
LEMMA SplitIs ==
    ASSUME NEW c \in Seq(Nat), NEW r, r = SubSeq(c, Skipped(c) + 1, Len(c)),
           NEW w, Leading(r, w), NEW F, Gathers(F, r, w)
    PROVE  parse_cmd(c) = SplitAt(r, w, F, Len(r))
<1> DEFINE n == Len(r)
           S == [space_begin |-> FALSE, command_name |-> <<>>, file_name |-> <<>>]
           D == [k \in 0 .. n |-> SplitAt(r, w, F, k)]
           h == CHOOSE split : split = [k \in 0 .. n |-> IF k = 0 THEN S ELSE Placed(split[k - 1], r[k])]
<1>0. n \in Nat /\ n \in 0 .. n /\ 0 \in 0 .. n
  <2>1. n \in Nat
    BY DEF Leading
  <2> HIDE DEF n
  <2> QED BY <2>1
<1> HIDE DEF n
<1>1. D[0] = S
  <2>1. w \in Nat /\ MAX_FILENAME \in Nat /\ F[0] = <<>>
    BY FileAssumption DEF Leading, Gathers
  <2>2. AtMost(AtMost(0, w), MAX_FILENAME) = 0
    BY <2>1 DEF AtMost
  <2>3. Cut(r, 1, 0) = <<>>
    BY DEF Cut
  <2>4. D[0] = SplitAt(r, w, F, 0)
    BY <1>0
  <2>6. SplitAt(r, w, F, 0) = [space_begin |-> 0 > w, command_name |-> Cut(r, 1, 0), file_name |-> F[0]]
    BY <2>2 DEF SplitAt
  <2>7. (0 > w) = FALSE
    BY <2>1
  <2> HIDE DEF D
  <2> QED BY <2>1, <2>3, <2>4, <2>6, <2>7
<1>2. ASSUME NEW k \in 1 .. n PROVE D[k] = Placed(D[k - 1], r[k])
  <2>1. k \in 0 .. n /\ k - 1 \in 0 .. n
    BY <1>0
  <2>2. D[k] = SplitAt(r, w, F, k) /\ D[k - 1] = SplitAt(r, w, F, k - 1)
    BY <2>1
  <2>3. k \in 1 .. Len(r)
    BY DEF n
  <2> HIDE DEF D
  <2> QED BY <2>2, <2>3, PlacedIs
<1>3. D = [k \in 0 .. n |-> IF k = 0 THEN S ELSE Placed(D[k - 1], r[k])]
  <2>1. ASSUME NEW k \in 0 .. n PROVE D[k] = IF k = 0 THEN S ELSE Placed(D[k - 1], r[k])
    <3>1. k = 0 \/ k \in 1 .. n
      BY <1>0
    <3> HIDE DEF D, S
    <3> QED BY <1>1, <1>2, <3>1
  <2>2. D = [k \in 0 .. n |-> D[k]]
    OBVIOUS
  <2> HIDE DEF D, S
  <2> QED BY <2>1, <2>2
<1>4. h = [k \in 0 .. n |-> IF k = 0 THEN S ELSE Placed(h[k - 1], r[k])]
  <2> HIDE DEF D
  <2> QED BY <1>3, Zenon
<1>5. parse_cmd(c) = h[n]
  BY Zenon DEF parse_cmd, n
<1> HIDE DEF h, D, S
<1>6. \A k \in 0 .. n : h[k] = D[k]
  <2>1. h[0] = D[0]
    BY <1>0, <1>1, <1>4
  <2>2. \A k \in 1 .. n : h[k - 1] = D[k - 1] => h[k] = D[k]
    <3> TAKE k \in 1 .. n
    <3>1. k \in 0 .. n /\ k # 0
      BY <1>0
    <3>2. h[k] = Placed(h[k - 1], r[k])
      BY <1>4, <3>1
    <3> QED BY <1>2, <3>2
  <2>3. Alike(h, D, n)
    BY <2>1, <2>2 DEF Alike
  <2> QED BY <1>0, <2>3, AlikeTurns
<1>7. D[n] = SplitAt(r, w, F, n)
  BY <1>0 DEF D
<1> QED BY <1>0, <1>5, <1>6, <1>7 DEF n

\* A character in no word is a space.
LEMMA SpaceOutside ==
    ASSUME NEW c \in Seq(Nat), NEW j \in 1 .. Len(c), \A i \in Starts(c) : i > j \/ EndOf(c, i) < j
    PROVE  c[j] = Space
<1> SUFFICES ASSUME c[j] # Space PROVE FALSE
  OBVIOUS
<1>1. PICK i \in Starts(c) : i <= j /\ \A k \in i .. j : c[k] # Space
  BY StartBefore
<1>2. i \in 1 .. Len(c) /\ WordEnds(c, i, EndOf(c, i))
  BY EndIs
<1>3. PICK e \in i .. Len(c) : e = EndOf(c, i) /\ (e < Len(c) => c[e + 1] = Space)
  BY <1>2 DEF WordEnds
<1>n. PICK n \in Nat : n = Len(c)
  OBVIOUS
<1>4. e < j
  BY <1>1, <1>2, <1>3, <1>n
<1>5. c[e + 1] = Space /\ e + 1 \in i .. j
  BY <1>2, <1>3, <1>4, <1>n
<1> QED BY <1>1, <1>5

\* A command from its first word on: the word has w characters.
FromWord(c, r, w) ==
    /\ r = SubSeq(c, Skipped(c) + 1, Len(c)) /\ Leading(r, w)
    /\ Len(r) = Len(c) - Skipped(c) /\ Skipped(c) \in 0 .. Len(c)
    /\ \A k \in 1 .. Len(r) : r[k] = c[Skipped(c) + k]

\* What is left without the spaces before the name begins with the first word.
LEMMA FromWordIs ==
    ASSUME NEW c \in Seq(Nat)
    PROVE  /\ Starts(c) # {} => FromWord(c, SubSeq(c, Skipped(c) + 1, Len(c)),
                                         EndOf(c, Min(Starts(c))) - Skipped(c))
           /\ Starts(c) = {} => FromWord(c, SubSeq(c, Skipped(c) + 1, Len(c)), 0)
<1> DEFINE s == Skipped(c)
           r == SubSeq(c, s + 1, Len(c))
<1>n. PICK n \in Nat : n = Len(c)
  OBVIOUS
<1>1. ASSUME s \in 0 .. n
      PROVE  r \in Seq(Nat) /\ Len(r) = n - s /\ \A k \in 1 .. n - s : r[k] = c[s + k]
  <2>1. PICK m \in Nat \ {0} : m = s + 1 /\ m <= Len(c) + 1 /\ Len(c) - m + 1 = n - s
    BY <1>1, <1>n
  <2> HIDE DEF s
  <2>2. r = SubSeq(c, m, Len(c))
    BY <2>1
  <2> HIDE DEF r
  <2>3. r \in Seq(Nat) /\ Len(r) = n - s /\ \A k \in 1 .. Len(r) : r[k] = c[m - 1 + k]
    BY <2>1, <2>2, RestIs
  <2> QED BY <1>1, <2>1, <2>3
<1>2. CASE Starts(c) # {}
  <2> DEFINE f == Min(Starts(c))
             e == EndOf(c, f)
             w == e - s
  <2>1. f \in Starts(c) /\ s = f - 1
    BY <1>2, SkippedIs
  <2>2. f \in 1 .. n /\ WordEnds(c, f, e)
    BY <1>n, <2>1, EndIs
  <2> HIDE DEF f
  <2>3. e \in f .. n /\ (\A k \in f .. e : c[k] # Space) /\ (e < n => c[e + 1] = Space)
    BY <1>n, <2>2 DEF WordEnds
  <2> HIDE DEF e, s
  <2>4. s \in 0 .. n /\ w \in 0 .. n - s /\ s + w = e
    BY <2>1, <2>2, <2>3
  <2>5. r \in Seq(Nat) /\ Len(r) = n - s /\ \A k \in 1 .. n - s : r[k] = c[s + k]
    BY <1>1, <2>4
  <2> HIDE DEF r, w
  <2>6. \A k \in 1 .. w : r[k] # Space
    <3> TAKE k \in 1 .. w
    <3>1. k \in 1 .. n - s /\ s + k \in f .. e
      BY <2>1, <2>2, <2>3, <2>4
    <3> QED BY <2>3, <2>5, <3>1
  <2>7. w < n - s => r[w + 1] = Space
    <3> SUFFICES ASSUME w < n - s PROVE r[w + 1] = Space
      OBVIOUS
    <3>1. w + 1 \in 1 .. n - s /\ s + (w + 1) = e + 1 /\ e < n
      BY <2>2, <2>3, <2>4
    <3> QED BY <2>3, <2>5, <3>1
  <2>8. Leading(r, w)
    BY <2>4, <2>5, <2>6, <2>7 DEF Leading
  <2>9. FromWord(c, r, w)
    BY <1>n, <2>4, <2>5, <2>8 DEF FromWord, r, s
  <2> QED BY <1>2, <2>9 DEF r, w, e, s, f
<1>3. CASE Starts(c) = {}
  <2>1. s = n
    BY <1>3, <1>n, SkippedIs
  <2> HIDE DEF s
  <2>2. r \in Seq(Nat) /\ Len(r) = n - s /\ n - s = 0 /\ s \in 0 .. n
    BY <1>1, <2>1
  <2> HIDE DEF r
  <2>3. Leading(r, 0)
    BY <2>2 DEF Leading
  <2>4. FromWord(c, r, 0)
    BY <1>n, <2>2, <2>3 DEF FromWord, r, s
  <2> QED BY <1>3, <2>4 DEF r, s
<1> QED BY <1>2, <1>3

\* The program a command names is its first word, as far as a name can be long
\* (syscall.c:218-268).
THEOREM CommandNamed ==
    ASSUME NEW c \in Seq(Nat)
    PROVE  parse_cmd(c).command_name = SubSeq(FirstWord(c), 1, Min({Len(FirstWord(c)), MAX_FILENAME}))
<1> DEFINE s == Skipped(c)
           r == SubSeq(c, s + 1, Len(c))
           m == MAX_FILENAME
<1>n. PICK n \in Nat : n = Len(c)
  OBVIOUS
<1>m. m \in Nat \ {0}
  BY FileAssumption
<1>1. ASSUME NEW w, FromWord(c, r, w)
      PROVE  /\ parse_cmd(c).command_name = Cut(r, 1, AtMost(w, m))
             /\ w \in 0 .. Len(r) /\ Len(r) = n - s /\ s \in 0 .. n
             /\ \A k \in 1 .. n - s : r[k] = c[s + k]
  <2>1. /\ r = SubSeq(c, Skipped(c) + 1, Len(c)) /\ Leading(r, w)
        /\ Len(r) = n - s /\ s \in 0 .. n /\ \A k \in 1 .. n - s : r[k] = c[s + k]
    BY <1>1, <1>n DEF FromWord
  <2> HIDE DEF r, s
  <2>2. PICK F : Gathers(F, r, w)
    BY <2>1, GatheringExists
  <2>3. parse_cmd(c) = SplitAt(r, w, F, Len(r))
    BY <2>1, <2>2, SplitIs
  <2>4. w \in 0 .. Len(r) /\ Len(r) \in Nat
    BY <2>1 DEF Leading
  <2>5. AtMost(Len(r), w) = w
    BY <2>4 DEF AtMost
  <2>6. parse_cmd(c).command_name = Cut(r, 1, AtMost(AtMost(Len(r), w), m))
    BY <2>3 DEF SplitAt
  <2> HIDE DEF m
  <2> QED BY <2>1, <2>4, <2>5, <2>6
<1>2. CASE Starts(c) # {}
  <2> DEFINE f == Min(Starts(c))
             e == EndOf(c, f)
             w == e - s
             word == SubSeq(c, f, e)
  <2>0. FirstWord(c) = word
    BY <1>2 DEF FirstWord
  <2>1. FromWord(c, r, w)
    BY <1>2, FromWordIs
  <2>2. f \in Starts(c) /\ s = f - 1
    BY <1>2, SkippedIs
  <2>3. f \in 1 .. n /\ e \in f .. n
    BY <1>n, <2>2, EndIs DEF WordEnds
  <2> HIDE DEF f, e, s, r, m
  <2>4. /\ parse_cmd(c).command_name = Cut(r, 1, AtMost(w, m)) /\ w \in 0 .. Len(r)
        /\ Len(r) = n - s /\ s \in 0 .. n /\ \A k \in 1 .. n - s : r[k] = c[s + k]
    BY <1>1, <2>1
  <2>5. word \in Seq(Nat) /\ Len(word) = w /\ \A k \in 1 .. w : word[k] = c[s + k]
    <3>1. f \in Nat \ {0} /\ e \in Nat /\ e <= Len(c) /\ f <= e + 1 /\ e - f + 1 = w /\ f - 1 = s
      BY <1>n, <2>2, <2>3
    <3> HIDE DEF word, w
    <3>2. /\ SubSeq(c, f, e) \in Seq(Nat) /\ Len(SubSeq(c, f, e)) = e - f + 1
          /\ \A k \in 1 .. e - f + 1 : SubSeq(c, f, e)[k] = c[f - 1 + k]
      BY <3>1, PartIs
    <3> QED BY <3>1, <3>2 DEF word
  <2>6. Min({Len(word), m}) = AtMost(w, m) /\ w \in Nat
    <3>1. w \in Int /\ m \in Int /\ w \in Nat
      BY <1>m, <1>n, <2>4
    <3> HIDE DEF w, word
    <3> QED BY <2>5, <3>1, MinOfTwo DEF AtMost
  <2> HIDE DEF word, w
  <2>7. PICK l \in Nat : l = AtMost(w, m) /\ l <= w
    BY <1>m, <2>6 DEF AtMost
  <2>8. SubSeq(word, 1, l) = Cut(r, 1, l)
    <3>1. /\ SubSeq(word, 1, l) \in Seq(Nat) /\ Len(SubSeq(word, 1, l)) = l
          /\ \A k \in 1 .. l : SubSeq(word, 1, l)[k] = word[k]
      <4>1. 1 \in Nat \ {0} /\ l <= Len(word) /\ 1 <= l + 1 /\ l - 1 + 1 = l /\ \A k \in Nat : 1 - 1 + k = k
        BY <2>5, <2>7
      <4>2. /\ SubSeq(word, 1, l) \in Seq(Nat) /\ Len(SubSeq(word, 1, l)) = l - 1 + 1
            /\ \A k \in 1 .. l - 1 + 1 : SubSeq(word, 1, l)[k] = word[1 - 1 + k]
        BY <2>5, <4>1, PartIs
      <4> QED BY <4>1, <4>2
    <3>2. \A k \in 1 .. l : word[k] = r[1 + k - 1]
      <4> TAKE k \in 1 .. l
      <4>1. k \in 1 .. w /\ k \in 1 .. n - s /\ 1 + k - 1 = k
        BY <2>4, <2>6, <2>7
      <4> QED BY <2>4, <2>5, <4>1
    <3>3. SubSeq(word, 1, l) = [k \in 1 .. l |-> SubSeq(word, 1, l)[k]]
      BY <3>1
    <3> QED BY <3>1, <3>2, <3>3 DEF Cut
  <2> QED BY <2>0, <2>4, <2>6, <2>7, <2>8 DEF m
<1>3. CASE Starts(c) = {}
  <2>0. FirstWord(c) = <<>>
    BY <1>3 DEF FirstWord
  <2>1. FromWord(c, r, 0)
    BY <1>3, FromWordIs
  <2> HIDE DEF r
  <2>2. parse_cmd(c).command_name = Cut(r, 1, AtMost(0, m)) /\ AtMost(0, m) = 0
    BY <1>1, <1>m, <2>1 DEF AtMost
  <2>3. Cut(r, 1, 0) = <<>>
    BY DEF Cut
  <2>4. PICK l : l = Min({Len(<<>>), m}) /\ l = 0
    <3> HIDE DEF m
    <3>1. Min({0, m}) = 0 /\ Len(<<>>) = 0
      BY <1>m, MinOfTwo
    <3> QED BY <3>1
  <2>5. SubSeq(<<>>, 1, 0) = <<>>
    OBVIOUS
  <2>6. SubSeq(FirstWord(c), 1, l) = <<>>
    BY <2>0, <2>4, <2>5
  <2>7. l = Min({Len(FirstWord(c)), m})
    BY <2>0, <2>4
  <2> HIDE DEF m
  <2>8. parse_cmd(c).command_name = <<>>
    BY <2>2, <2>3
  <2> QED BY <2>6, <2>7, <2>8 DEF m
<1> QED BY <1>2, <1>3

-----------------------------------------------------------------------------
\* The argument: nothing, if nothing but spaces follows the first word.
LEMMA NothingGathered ==
    ASSUME NEW r, NEW w, Leading(r, w), NEW F, Gathers(F, r, w),
           \A k \in 1 .. Len(r) : k > w => r[k] = Space
    PROVE  F[Len(r)] = <<>>
<1> DEFINE D == [k \in 0 .. Len(r) |-> <<>>]
<1>0. Len(r) \in Nat
  BY DEF Leading
<1>1. F[0] = D[0]
  BY <1>0 DEF Gathers
<1>2. ASSUME NEW k \in 1 .. Len(r), F[k - 1] = D[k - 1] PROVE F[k] = D[k]
  <2>1. F[k] = Gathered(F[k - 1], r[k], k > w)
    BY DEF Gathers
  <2>2. F[k] = F[k - 1]
    BY <2>1 DEF Gathered
  <2>3. D[k - 1] = <<>> /\ D[k] = <<>>
    BY <1>0
  <2> HIDE DEF D
  <2> QED BY <1>2, <2>2, <2>3
<1>3. Alike(F, D, Len(r))
  BY <1>1, <1>2 DEF Alike
<1>4. F[Len(r)] = D[Len(r)]
  <2> HIDE DEF D
  <2> QED BY <1>0, <1>3, AlikeTurns
<1> QED BY <1>0, <1>4

\* One more word, of a characters from the p-th on, is gathered as far as it fits.
OneMore(r, w, p, a) ==
    /\ p \in 1 .. Len(r) /\ a \in Nat \ {0} /\ w < p /\ p + a - 1 <= Len(r)
    /\ \A k \in p .. p + a - 1 : r[k] # Space
    /\ \A k \in 1 .. Len(r) : k > w /\ k \notin p .. p + a - 1 => r[k] = Space
Fitting(k, p, a) == AtMost(AtMost(IF k < p THEN 0 ELSE k - p + 1, a), MAX_FILENAME + 1)

\* With one more word the arguments gathered are that word, as far as it fits.
LEMMA WordGathered ==
    ASSUME NEW r, NEW w, Leading(r, w), NEW F, Gathers(F, r, w), NEW p, NEW a, OneMore(r, w, p, a)
    PROVE  F[Len(r)] = Cut(r, p, AtMost(a, MAX_FILENAME + 1))
<1> DEFINE m == MAX_FILENAME
           D == [k \in 0 .. Len(r) |-> Cut(r, p, Fitting(k, p, a))]
<1>n. PICK n \in Nat : n = Len(r)
  BY DEF Leading
<1>0. /\ r \in Seq(Nat) /\ w \in Nat /\ m \in Nat \ {0} /\ \A k \in 1 .. n : r[k] \in Nat
      /\ p \in 1 .. n /\ a \in Nat \ {0} /\ w < p /\ p + a - 1 <= n
  BY <1>n, FileAssumption DEF Leading, OneMore
<1>1. F[0] = D[0]
  <2>1. Fitting(0, p, a) = 0
    BY <1>0 DEF Fitting, AtMost
  <2>2. Cut(r, p, 0) = <<>>
    BY DEF Cut
  <2>3. D[0] = Cut(r, p, Fitting(0, p, a))
    BY <1>n
  <2> HIDE DEF D
  <2> QED BY <2>1, <2>2, <2>3 DEF Gathers
<1>2. ASSUME NEW k \in 1 .. n, F[k - 1] = D[k - 1] PROVE F[k] = D[k]
  <2>0. PICK h \in 0 .. n - 1 : h = k - 1 /\ h + 1 = k
    BY <1>n
  <2>1. F[k] = Gathered(F[h], r[k], k > w) /\ F[h] = D[h]
    BY <1>2, <1>n, <2>0 DEF Gathers
  <2>2. D[h] = Cut(r, p, Fitting(h, p, a)) /\ D[k] = Cut(r, p, Fitting(k, p, a))
    BY <1>n
  <2> HIDE DEF D
  <2>3. CASE k \in p .. p + a - 1
    <3>1. r[k] # Space /\ k > w
      BY <1>0, <2>3 DEF OneMore
    <3>2. PICK l \in Nat : l = h + 1 - p /\ k = p + l /\ l < a
      BY <1>0, <2>0, <2>3
    <3>3. CASE l <= m
      <4>1. Fitting(h, p, a) = l /\ Fitting(k, p, a) = l + 1
        BY <1>0, <2>0, <3>2, <3>3 DEF Fitting, AtMost
      <4>2. \A i \in p .. p + l : r[i] \in Nat
        BY <1>0, <3>2
      <4>3. p \in Nat \ {0} /\ \A i \in p .. p + l - 1 : r[i] \in Nat
        BY <1>0, <4>2
      <4>4. Len(Cut(r, p, l)) = l
        BY <4>3, CutIs
      <4>5. Append(Cut(r, p, l), r[p + l]) = Cut(r, p, l + 1)
        BY <4>2, <4>3, CutGrows
      <4>6. F[k] = Append(Cut(r, p, l), r[k])
        BY <2>1, <2>2, <3>1, <3>3, <4>1, <4>4 DEF Gathered, m
      <4> QED BY <2>2, <3>2, <4>1, <4>5, <4>6
    <3>4. CASE ~(l <= m)
      <4>1. Fitting(h, p, a) = m + 1 /\ Fitting(k, p, a) = m + 1
        BY <1>0, <2>0, <3>2, <3>4 DEF Fitting, AtMost
      <4>2. m + 1 \in Nat /\ p \in Nat \ {0} /\ \A i \in p .. p + (m + 1) - 1 : r[i] \in Nat
        BY <1>0, <3>2, <3>4
      <4>3. Len(Cut(r, p, m + 1)) = m + 1
        BY <4>2, CutIs
      <4>4. F[k] = F[h]
        BY <1>0, <2>1, <2>2, <4>1, <4>3 DEF Gathered, m
      <4> QED BY <2>1, <2>2, <4>1, <4>4
    <3> QED BY <3>3, <3>4
  <2>4. CASE k \notin p .. p + a - 1
    <3>1. k > w => r[k] = Space
      BY <1>n, <2>4 DEF OneMore
    <3>2. F[k] = F[h]
      BY <2>1, <3>1 DEF Gathered
    <3>3. Fitting(h, p, a) = Fitting(k, p, a)
      BY <1>0, <2>0, <2>4 DEF Fitting, AtMost
    <3> QED BY <2>1, <2>2, <3>2, <3>3
  <2> QED BY <2>3, <2>4
<1>3. Alike(F, D, n)
  BY <1>1, <1>2 DEF Alike
<1>4. F[n] = D[n]
  <2> HIDE DEF D
  <2> QED BY <1>3, AlikeTurns
<1>5. Fitting(n, p, a) = AtMost(a, m + 1)
  BY <1>0 DEF Fitting, AtMost
<1>6. D[n] = Cut(r, p, Fitting(n, p, a))
  BY <1>n
<1> HIDE DEF D
<1> QED BY <1>n, <1>4, <1>5, <1>6 DEF m

\* A word ends, and a space follows, before the next begins.
LEMMA StartsApart ==
    ASSUME NEW c \in Seq(Nat), NEW i \in Starts(c), NEW j \in Starts(c), i < j
    PROVE  EndOf(c, i) + 1 < j
<1>n. PICK n \in Nat : n = Len(c)
  OBVIOUS
<1>1. i \in 1 .. n /\ j \in 1 .. n /\ (j = 1 \/ c[j - 1] = Space)
  BY <1>n DEF Starts
<1>2. WordEnds(c, i, EndOf(c, i))
  BY EndIs
<1>3. PICK e \in i .. n : e = EndOf(c, i) /\ \A k \in i .. e : c[k] # Space
  BY <1>2, <1>n DEF WordEnds
<1>4. PICK h \in 1 .. n : h = j - 1 /\ c[h] = Space
  BY <1>1
<1>5. ~(h \in i .. e)
  BY <1>3, <1>4
<1> QED BY <1>1, <1>3, <1>4, <1>5

\* A text has finitely many words.
LEMMA StartsFinite ==
    ASSUME NEW c \in Seq(Nat)
    PROVE  IsFiniteSet(Starts(c)) /\ Cardinality(Starts(c)) \in Nat /\ Starts(c) \subseteq 1 .. Len(c)
<1>1. Starts(c) \in SUBSET (1 .. Len(c))
  BY DEF Starts
<1>2. IsFiniteSet(1 .. Len(c))
  <2>1. Len(c) \in Int /\ 1 \in Int
    OBVIOUS
  <2> QED BY <2>1, FS_Interval
<1>3. IsFiniteSet(Starts(c))
  BY <1>1, <1>2, FS_Subset
<1> QED BY <1>1, <1>3, FS_CardinalityType

\* A command of one word, or none, passes no argument (syscall.c:218-268).
LEMMA NoArgument ==
    ASSUME NEW c \in Seq(Nat), Cardinality(Starts(c)) <= 1
    PROVE  parse_cmd(c).file_name = <<>>
<1> DEFINE r == SubSeq(c, Skipped(c) + 1, Len(c))
<1>n. PICK n \in Nat : n = Len(c)
  OBVIOUS
<1>1. ASSUME NEW w, FromWord(c, r, w), \A k \in 1 .. Len(r) : k > w => r[k] = Space
      PROVE  parse_cmd(c).file_name = <<>>
  <2>1. r = SubSeq(c, Skipped(c) + 1, Len(c)) /\ Leading(r, w)
    BY <1>1 DEF FromWord
  <2> HIDE DEF r
  <2>2. PICK F : Gathers(F, r, w)
    BY <2>1, GatheringExists
  <2>3. parse_cmd(c) = SplitAt(r, w, F, Len(r))
    BY <2>1, <2>2, SplitIs
  <2>4. F[Len(r)] = <<>>
    BY <1>1, <2>1, <2>2, NothingGathered
  <2> QED BY <2>3, <2>4 DEF SplitAt
<1>2. CASE Starts(c) = {}
  <2>1. FromWord(c, r, 0)
    BY <1>2, FromWordIs
  <2>2. Skipped(c) = n
    BY <1>2, <1>n, SkippedIs
  <2> HIDE DEF r
  <2>3. Len(r) = 0
    BY <1>n, <2>1, <2>2 DEF FromWord
  <2>4. \A k \in 1 .. Len(r) : k > 0 => r[k] = Space
    BY <2>3
  <2> QED BY <1>1, <2>1, <2>4
<1>3. CASE Starts(c) # {}
  <2> DEFINE f == Min(Starts(c))
             e == EndOf(c, f)
             w == e - Skipped(c)
  <2>1. FromWord(c, r, w)
    BY <1>3, FromWordIs
  <2>2. f \in Starts(c) /\ Skipped(c) = f - 1
    BY <1>3, SkippedIs
  <2>3. f \in 1 .. n /\ e \in f .. n
    BY <1>n, <2>2, EndIs DEF WordEnds
  <2> HIDE DEF r, f
  <2>4. \A i \in Starts(c) : i = f
    <3>1. Cardinality(Starts(c) \ {f}) = Cardinality(Starts(c)) - 1 /\ IsFiniteSet(Starts(c) \ {f})
      BY <2>2, StartsFinite, FS_RemoveElement
    <3>2. Cardinality(Starts(c) \ {f}) \in Nat
      BY <3>1, FS_CardinalityType
    <3>3. Cardinality(Starts(c) \ {f}) = 0
      BY <3>1, <3>2, StartsFinite
    <3>4. Starts(c) \ {f} = {}
      BY <3>1, <3>3, FS_EmptySet
    <3> QED BY <3>4
  <2>5. ASSUME NEW k \in 1 .. Len(r), k > w PROVE r[k] = Space
    <3>1. Len(r) = n - (f - 1) /\ r[k] = c[Skipped(c) + k] /\ e \in Nat
      BY <1>n, <2>1, <2>2, <2>3 DEF FromWord
    <3> HIDE DEF e
    <3>2. PICK j \in 1 .. n : j = Skipped(c) + k /\ e < j
      BY <2>2, <2>3, <2>5, <3>1
    <3>3. \A i \in Starts(c) : EndOf(c, i) < j
      BY <2>4, <3>2 DEF e
    <3>4. c[j] = Space
      BY <1>n, <3>3, SpaceOutside
    <3> QED BY <3>1, <3>2, <3>4
  <2> HIDE DEF w
  <2> QED BY <1>1, <2>1, <2>5 DEF r
<1> QED BY <1>2, <1>3

\* The second word.
ArgStart(c) == Min({i \in Starts(c) : i > Min(Starts(c))})
Argument(c) == SubSeq(c, ArgStart(c), EndOf(c, ArgStart(c)))

\* Of two words one is the first and the other the argument.
LEMMA TwoWords ==
    ASSUME NEW c \in Seq(Nat), Cardinality(Starts(c)) = 2
    PROVE  /\ Min(Starts(c)) \in Starts(c) /\ ArgStart(c) \in Starts(c)
           /\ Min(Starts(c)) < ArgStart(c) /\ Starts(c) = {Min(Starts(c)), ArgStart(c)}
<1> DEFINE f == Min(Starts(c))
           S == {i \in Starts(c) : i > f}
<1>1. Starts(c) # {} /\ Starts(c) \subseteq Nat
  <2>1. 2 # 0
    OBVIOUS
  <2>2. Starts(c) # {}
    BY <2>1, FS_EmptySet
  <2>3. \A i \in 1 .. Len(c) : i \in Nat
    OBVIOUS
  <2> QED BY <2>2, <2>3, StartsFinite
<1>2. f \in Starts(c) /\ \A i \in Starts(c) : f <= i
  BY <1>1, SkippedIs
<1> HIDE DEF f
<1>3. Cardinality(Starts(c) \ {f}) = 1 /\ IsFiniteSet(Starts(c) \ {f})
  <2>1. IsFiniteSet(Starts(c)) /\ f \in Starts(c)
    BY <1>2, StartsFinite
  <2>2. Cardinality(Starts(c) \ {f}) = Cardinality(Starts(c)) - 1 /\ IsFiniteSet(Starts(c) \ {f})
    BY <2>1, FS_RemoveElement
  <2>3. 2 - 1 = 1
    OBVIOUS
  <2> QED BY <2>2, <2>3
<1>4. PICK g : Starts(c) \ {f} = {g}
  BY <1>3, FS_Singleton
<1>5. g \in Starts(c) /\ g # f /\ g > f
  <2>1. g \in Starts(c) /\ g # f
    BY <1>4
  <2>2. f <= g /\ f \in Nat /\ g \in Nat
    BY <1>1, <1>2, <2>1
  <2> QED BY <2>1, <2>2
<1>6. S = {g}
  <2>1. ~(f > f)
    BY <1>1, <1>2
  <2>2. \A i \in Starts(c) : i = f \/ i = g
    BY <1>4
  <2> QED BY <1>5, <2>1, <2>2
<1>7. Min(S) = g
  <2>1. S \subseteq Nat /\ S # {}
    BY <1>1, <1>6
  <2> HIDE DEF S
  <2> QED BY <1>6, <2>1, LeastOf
<1>8. ArgStart(c) = g
  BY <1>7 DEF ArgStart, f
<1>9. Starts(c) = {f, g}
  BY <1>2, <1>4
<1> QED BY <1>2, <1>5, <1>8, <1>9 DEF f

\* A command of two words passes the second, as far as there is room for it
\* (syscall.c:218-268).
LEMMA OneArgument ==
    ASSUME NEW c \in Seq(Nat), Cardinality(Starts(c)) = 2
    PROVE  /\ Argument(c) \in Seq(Nat) /\ Argument(c) # <<>>
           /\ \A i \in 1 .. Len(Argument(c)) : \E j \in 1 .. Len(c) : Argument(c)[i] = c[j] /\ c[j] # Space
           /\ parse_cmd(c).file_name = Cut(Argument(c), 1, AtMost(Len(Argument(c)), MAX_FILENAME + 1))
<1> DEFINE m == MAX_FILENAME
           r == SubSeq(c, Skipped(c) + 1, Len(c))
           f == Min(Starts(c))
           e == EndOf(c, f)
           s == Skipped(c)
           w == e - s
           g == ArgStart(c)
           d == EndOf(c, g)
           p == g - s
           a == d - g + 1
           t == Argument(c)
<1>n. PICK n \in Nat : n = Len(c)
  OBVIOUS
<1>m. m \in Nat \ {0}
  BY FileAssumption
<1>1. f \in Starts(c) /\ g \in Starts(c) /\ f < g /\ Starts(c) = {f, g}
  BY TwoWords
<1>2. FromWord(c, r, w) /\ s = f - 1
  BY <1>1, FromWordIs, SkippedIs
<1>t. t = SubSeq(c, g, d)
  BY DEF Argument
<1> HIDE DEF f, g, s, t, m
<1>3. /\ f \in 1 .. n /\ e \in f .. n /\ g \in 1 .. n /\ d \in g .. n
      /\ \A k \in g .. d : c[k] # Space
  BY <1>1, <1>n, EndIs DEF WordEnds
<1>4. e + 1 < g
  BY <1>1, StartsApart
<1> HIDE DEF e, d, r
<1>5. /\ Leading(r, w) /\ Len(r) = n - s /\ s \in 0 .. n /\ \A k \in 1 .. n - s : r[k] = c[s + k]
  BY <1>2, <1>n DEF FromWord, s
<1>6. /\ p \in 1 .. n - s /\ a \in Nat \ {0} /\ w < p /\ p + a - 1 = d - s /\ p + a - 1 <= n - s /\ s + p = g
      /\ w \in Nat
  BY <1>2, <1>3, <1>4, <1>5
<1>7. \A k \in p .. p + a - 1 : r[k] # Space
  <2> TAKE k \in p .. p + a - 1
  <2>1. k \in 1 .. n - s /\ s + k \in g .. d
    BY <1>3, <1>5, <1>6
  <2> QED BY <1>3, <1>5, <2>1
<1>8. ASSUME NEW k \in 1 .. n - s, k > w, k \notin p .. p + a - 1 PROVE r[k] = Space
  <2>1. PICK j \in 1 .. n : j = s + k /\ e < j /\ (g > j \/ d < j)
    <3>1. s + k \in 1 .. n /\ e < s + k
      BY <1>3, <1>5, <1>8
    <3>2. k < p \/ k > p + a - 1
      BY <1>5, <1>6, <1>8
    <3>3. g > s + k \/ d < s + k
      <4>1. s \in Nat /\ k \in Nat /\ g \in Nat /\ d \in Nat
        BY <1>3, <1>5
      <4> QED BY <1>6, <3>2, <4>1
    <3> QED BY <3>1, <3>3
  <2>2. \A i \in Starts(c) : i > j \/ EndOf(c, i) < j
    BY <1>1, <2>1 DEF e, d
  <2>3. c[j] = Space
    BY <1>n, <2>2, SpaceOutside
  <2> QED BY <1>5, <2>1, <2>3
<1>9. OneMore(r, w, p, a)
  <2>1. p \in 1 .. Len(r) /\ a \in Nat \ {0} /\ w < p /\ p + a - 1 <= Len(r)
    BY <1>5, <1>6
  <2>2. \A k \in 1 .. Len(r) : k > w /\ k \notin p .. p + a - 1 => r[k] = Space
    BY <1>5, <1>8
  <2> HIDE DEF p, a, w
  <2> QED BY <1>7, <2>1, <2>2 DEF OneMore
<1> HIDE DEF p, w
<1>10. parse_cmd(c).file_name = Cut(r, p, AtMost(a, m + 1))
  <2>1. r = SubSeq(c, Skipped(c) + 1, Len(c))
    BY DEF r
  <2>2. PICK F : Gathers(F, r, w)
    BY <1>5, GatheringExists
  <2>3. parse_cmd(c) = SplitAt(r, w, F, Len(r))
    BY <1>5, <2>1, <2>2, SplitIs
  <2>4. F[Len(r)] = Cut(r, p, AtMost(a, MAX_FILENAME + 1))
    <3> HIDE DEF a
    <3> QED BY <1>5, <1>9, <2>2, WordGathered
  <2> QED BY <2>3, <2>4 DEF SplitAt, m
<1>11. t \in Seq(Nat) /\ Len(t) = a /\ \A k \in 1 .. a : t[k] = c[g - 1 + k]
  <2>1. g \in Nat \ {0} /\ d \in Nat /\ d <= Len(c) /\ g <= d + 1 /\ d - g + 1 = a
    BY <1>3, <1>n
  <2> HIDE DEF a
  <2>2. /\ SubSeq(c, g, d) \in Seq(Nat) /\ Len(SubSeq(c, g, d)) = d - g + 1
        /\ \A k \in 1 .. d - g + 1 : SubSeq(c, g, d)[k] = c[g - 1 + k]
    BY <2>1, PartIs
  <2> QED BY <1>t, <2>1, <2>2
<1> HIDE DEF a
<1>12. t # <<>>
  <2>1. Len(t) # 0
    BY <1>6, <1>11
  <2> QED BY <2>1
<1>13. ASSUME NEW i \in 1 .. Len(t) PROVE \E j \in 1 .. Len(c) : t[i] = c[j] /\ c[j] # Space
  <2>1. g - 1 + i \in 1 .. n /\ g - 1 + i \in g .. d
    BY <1>3, <1>6, <1>11 DEF a
  <2> QED BY <1>3, <1>n, <1>11, <2>1
<1>14. PICK l \in Nat : l = AtMost(a, m + 1) /\ l <= a
  BY <1>6, <1>m DEF AtMost
<1>15. \A k \in 1 .. l : r[p + k - 1] = t[1 + k - 1]
  <2> TAKE k \in 1 .. l
  <2>1. k \in 1 .. a /\ 1 + k - 1 = k
    BY <1>6, <1>14
  <2>2. PICK h \in 1 .. n - s : h = p + k - 1 /\ s + h = g - 1 + k
    BY <1>5, <1>6, <2>1
  <2> QED BY <1>5, <1>11, <2>1, <2>2
<1>16. Cut(r, p, l) = Cut(t, 1, l)
  BY <1>15 DEF Cut
<1>17. parse_cmd(c).file_name = Cut(t, 1, AtMost(Len(t), m + 1))
  BY <1>10, <1>11, <1>14, <1>16
<1> QED BY <1>11, <1>12, <1>13, <1>17 DEF t, m

\* A text in an array of zeros with room for one more than a name.
LEMMA ArrayIs ==
    ASSUME NEW t \in Seq(Nat), NEW b, b = Buffer(t, MAX_FILENAME + 1, <<>>)
    PROVE  b = [i \in 0 .. MAX_FILENAME |-> IF i < Len(t) THEN t[i + 1] ELSE Nul]
<1>1. MAX_FILENAME \in Nat /\ MAX_FILENAME + 1 + Len(<<>>) - 1 = MAX_FILENAME
  BY FileAssumption
<1>2. \A i \in 0 .. MAX_FILENAME : i < MAX_FILENAME + 1
  BY <1>1
<1> QED BY <1>1, <1>2 DEF Buffer

\* getargs gives a program the argument it was started with: an argument that fits,
\* with its end behind it, of a longer one as much as the buffer holds, without an
\* end; and it fails without one (syscall.c:218-268, 638-652).
THEOREM ArgumentsPassed ==
    ASSUME NEW c \in Seq(Nat), \A i \in 1 .. Len(c) : c[i] # Nul,
           NEW b, DOMAIN b = 0 .. MAX_FILENAME
    PROVE  LET buf == getargs(b, args_name(c), MAX_FILENAME + 1)
           IN /\ Cardinality(Starts(c)) <= 1 => buf = Failed
              /\ Cardinality(Starts(c)) = 2 =>
                     IF Len(Argument(c)) <= MAX_FILENAME
                     THEN buf = Buffer(Argument(c), MAX_FILENAME + 1, <<>>)
                     ELSE buf[MAX_FILENAME] = Argument(c)[MAX_FILENAME + 1]
<1> DEFINE m == MAX_FILENAME
           args == args_name(c)
           buf == getargs(b, args, m + 1)
<1>m. m \in Nat \ {0}
  BY FileAssumption
<1>1. CASE Cardinality(Starts(c)) <= 1
  <2>1. parse_cmd(c).file_name = <<>>
    BY <1>1, NoArgument
  <2>2. args = Buffer(<<>>, m + 1, <<>>)
    BY <2>1 DEF args_name
  <2>3. args = [i \in 0 .. m |-> IF i < Len(<<>>) THEN <<>>[i + 1] ELSE Nul]
    <3>1. <<>> \in Seq(Nat)
      OBVIOUS
    <3> QED BY <2>2, <3>1, ArrayIs
  <2> HIDE DEF args, m
  <2>4. args[0] = Nul
    BY <1>m, <2>3
  <2>5. buf = Failed
    BY <2>4 DEF getargs
  <2>6. Cardinality(Starts(c)) # 2
    BY <1>1, StartsFinite
  <2> QED BY <2>5, <2>6 DEF args, m
<1>2. CASE Cardinality(Starts(c)) = 2
  <2> DEFINE t == Argument(c)
             a == Len(t)
             l == AtMost(a, m + 1)
             fn == Cut(t, 1, l)
  <2>1. /\ t \in Seq(Nat) /\ t # <<>> /\ parse_cmd(c).file_name = fn
        /\ \A i \in 1 .. Len(t) : \E j \in 1 .. Len(c) : t[i] = c[j]
    BY <1>2, OneArgument
  <2> HIDE DEF t, m
  <2>2. a \in Nat \ {0} /\ \A i \in 1 .. a : t[i] \in Nat /\ t[i] # Nul
    BY <2>1, SMTT(40)
  <2> HIDE DEF a
  <2>3. l \in Nat \ {0} /\ l <= a /\ l <= m + 1 /\ (a <= m => l = a) /\ (~(a <= m) => l = m + 1)
    BY <1>m, <2>2 DEF AtMost
  <2> HIDE DEF l
  <2>4. fn \in Seq(Nat) /\ Len(fn) = l /\ \A i \in 1 .. l : fn[i] = t[i]
    <3>1. \A i \in 1 .. 1 + l - 1 : t[i] \in Nat
      BY <2>2, <2>3
    <3>2. fn \in Seq(Nat) /\ Len(fn) = l /\ \A i \in 1 .. l : fn[i] = t[1 + i - 1]
      BY <2>3, <3>1, CutIs
    <3>3. \A i \in 1 .. l : 1 + i - 1 = i
      BY <2>3
    <3> QED BY <3>2, <3>3
  <2> HIDE DEF fn
  <2>5. args = [i \in 0 .. m |-> IF i < l THEN fn[i + 1] ELSE Nul]
    <3>1. args = Buffer(fn, MAX_FILENAME + 1, <<>>)
      BY <2>1 DEF args_name
    <3> HIDE DEF args
    <3>2. args = [i \in 0 .. MAX_FILENAME |-> IF i < Len(fn) THEN fn[i + 1] ELSE Nul]
      BY <2>4, <3>1, ArrayIs
    <3> QED BY <2>4, <3>2 DEF m
  <2> HIDE DEF args
  <2>6. \A i \in 0 .. m : args[i] = IF i < l THEN t[i + 1] ELSE Nul
    <3> TAKE i \in 0 .. m
    <3>1. i < l => i + 1 \in 1 .. l
      BY <1>m, <2>3
    <3> QED BY <2>4, <2>5, <3>1
  <2>7. args[0] # Nul
    <3>1. 0 \in 0 .. m /\ 0 < l /\ 0 + 1 \in 1 .. a
      BY <1>m, <2>2, <2>3
    <3> QED BY <2>2, <2>6, <3>1
  <2>8. buf = [i \in 0 .. m |-> IF i >= m + 1 THEN b[i]
                                ELSE IF \A j \in 0 .. i : args[j] # Nul THEN args[i] ELSE Nul]
    BY <2>7 DEF getargs, strncpy, m
  <2>9. ASSUME NEW i \in 0 .. m PROVE buf[i] = IF i < l THEN t[i + 1] ELSE Nul
    <3>1. ~(i >= m + 1)
      BY <1>m
    <3>2. buf[i] = IF \A j \in 0 .. i : args[j] # Nul THEN args[i] ELSE Nul
      BY <2>8, <3>1
    <3> HIDE DEF buf
    <3>3. CASE i < l
      <4>1. ASSUME NEW j \in 0 .. i PROVE args[j] # Nul
        <5>1. j \in 0 .. m /\ j < l /\ j + 1 \in 1 .. a
          BY <1>m, <2>2, <2>3, <3>3
        <5> QED BY <2>2, <2>6, <5>1
      <4>2. buf[i] = args[i]
        BY <3>2, <4>1
      <4> QED BY <2>6, <3>3, <4>2
    <3>4. CASE ~(i < l)
      <4>1. args[i] = Nul /\ i \in 0 .. i
        BY <1>m, <2>6, <3>4
      <4>2. buf[i] = Nul
        BY <3>2, <4>1
      <4> QED BY <3>4, <4>2
    <3> QED BY <3>3, <3>4
  <2>10. buf = [i \in 0 .. m |-> IF i < l THEN t[i + 1] ELSE Nul]
    <3>1. buf = [i \in 0 .. m |-> buf[i]]
      BY <2>8
    <3> HIDE DEF buf
    <3> QED BY <2>9, <3>1
  <2> HIDE DEF buf
  <2>11. CASE a <= m
    <3>1. Buffer(t, MAX_FILENAME + 1, <<>>) = [i \in 0 .. MAX_FILENAME |-> IF i < Len(t) THEN t[i + 1] ELSE Nul]
      BY <2>1, ArrayIs
    <3>2. l = Len(t)
      BY <2>3, <2>11 DEF a
    <3>3. buf = Buffer(t, MAX_FILENAME + 1, <<>>)
      BY <2>10, <3>1, <3>2 DEF m
    <3> QED BY <1>2, <2>11, <3>3, StartsFinite DEF buf, args, t, m, a
  <2>12. CASE ~(a <= m)
    <3>1. m \in 0 .. m /\ m < l
      BY <1>m, <2>3, <2>12
    <3>2. buf[m] = t[m + 1]
      BY <2>9, <3>1
    <3> QED BY <1>2, <2>12, <3>2, StartsFinite DEF buf, args, t, m, a
  <2> QED BY <2>11, <2>12
<1>3. CASE ~(Cardinality(Starts(c)) <= 1) /\ Cardinality(Starts(c)) # 2
  BY <1>3
<1> QED BY <1>1, <1>2, <1>3

-----------------------------------------------------------------------------
\* Texts put together one after the other: the first k of them.
Joins(P, s, n) ==
    /\ P \in [0 .. n -> Seq(Nat)] /\ P[0] = <<>>
    /\ \A k \in 1 .. n : P[k] = P[k - 1] \o s[k]
Alltexts(n) == [1 .. n -> Seq(Nat)]

\* Texts can be put together one after the other.
LEMMA JoinsExist ==
    ASSUME NEW n \in Nat, NEW s \in Alltexts(n)
    PROVE  \E P : Joins(P, s, n)
<1> DEFINE S == Seq(Nat)
           step == [k \in 1 .. n |-> [p \in S |-> p \o s[k]]]
<1>1. step \in Bodies(n, S)
  <2>1. ASSUME NEW k \in 1 .. n, NEW p \in S PROVE p \o s[k] \in S
    <3>1. s[k] \in Seq(Nat)
      BY DEF Alltexts
    <3> QED BY <3>1
  <2> HIDE DEF S
  <2> QED BY <2>1 DEF Bodies
<1>2. <<>> \in S
  OBVIOUS
<1>3. PICK P : P \in Runs(n, S, <<>>, step)
  <2> HIDE DEF S, step
  <2> QED BY <1>1, <1>2, LoopExists
<1>4. P \in [0 .. n -> S] /\ P[0] = <<>> /\ \A k \in 1 .. n : P[k] = step[k][P[k - 1]]
  <2> HIDE DEF S, step
  <2> QED BY <1>3 DEF Runs
<1>5. ASSUME NEW k \in 1 .. n PROVE P[k] = P[k - 1] \o s[k]
  <2>1. k - 1 \in 0 .. n
    OBVIOUS
  <2>2. P[k - 1] \in S
    BY <1>4, <2>1
  <2> HIDE DEF S
  <2> QED BY <1>4, <2>2
<1> QED BY <1>4, <1>5 DEF Joins

\* And give what FlattenSeq makes of them.
LEMMA FlattenIs ==
    ASSUME NEW n \in Nat, NEW s \in Alltexts(n), NEW P, Joins(P, s, n)
    PROVE  FlattenSeq(s) = P[n]
<1>s. DOMAIN s = 1 .. n /\ s = [i \in 1 .. n |-> s[i]] /\ \A i \in 1 .. n : s[i] \in Seq(Nat)
  BY DEF Alltexts
<1>1. s \in Seq(Seq(Nat)) /\ Len(s) = n
  <2>1. s \in [1 .. n -> Seq(Nat)]
    BY DEF Alltexts
  <2> HIDE DEF Alltexts
  <2>2. s \in Seq(Seq(Nat))
    BY <2>1
  <2>3. Len(s) = n
    BY <2>1, <2>2
  <2> QED BY <2>2, <2>3
<1>p. P \in [0 .. n -> Seq(Nat)] /\ P[0] = <<>> /\ \A k \in 1 .. n : P[k] = P[k - 1] \o s[k]
  BY DEF Joins
<1>2. CASE n = 0
  <2>1. FlattenSeq(s) = s
    BY <1>1, <1>2 DEF FlattenSeq
  <2>2. s = <<>>
    BY <1>1, <1>2
  <2> QED BY <1>2, <1>p, <2>1, <2>2
<1>3. CASE n # 0
  <2> DEFINE h == CHOOSE flatten : flatten = [i \in 1 .. n |-> IF i = 1 THEN s[i] ELSE flatten[i - 1] \o s[i]]
             D == [i \in 1 .. n |-> P[i]]
  <2>0. n \in 1 .. n /\ 1 \in 1 .. n
    BY <1>3
  <2>1. P[1] = s[1]
    <3>1. PICK k \in 1 .. n : k = 1 /\ P[k] = P[k - 1] \o s[k] /\ s[k] \in Seq(Nat)
      <4>1. P[1] = P[1 - 1] \o s[1]
        BY <1>p, <2>0
      <4>2. s[1] \in Seq(Nat)
        BY <1>s, <2>0
      <4> QED BY <2>0, <4>1, <4>2
    <3>2. k - 1 = 0
      BY <3>1
    <3>3. P[k] = <<>> \o s[k]
      BY <1>p, <3>1, <3>2
    <3>4. <<>> \o s[k] = s[k]
      BY <3>1
    <3> QED BY <3>1, <3>3, <3>4
  <2>2. D = [i \in 1 .. n |-> IF i = 1 THEN s[i] ELSE D[i - 1] \o s[i]]
    <3>1. ASSUME NEW i \in 1 .. n PROVE D[i] = IF i = 1 THEN s[i] ELSE D[i - 1] \o s[i]
      <4>1. CASE i = 1
        BY <2>1, <4>1
      <4>2. CASE i # 1
        <5>1. i - 1 \in 1 .. n
          BY <4>2
        <5>2. D[i - 1] = P[i - 1] /\ D[i] = P[i]
          BY <5>1
        <5> HIDE DEF D
        <5> QED BY <1>p, <4>2, <5>2
      <4> QED BY <4>1, <4>2
    <3>2. D = [i \in 1 .. n |-> D[i]]
      OBVIOUS
    <3> HIDE DEF D
    <3> QED BY <3>1, <3>2
  <2>3. h = [i \in 1 .. n |-> IF i = 1 THEN s[i] ELSE h[i - 1] \o s[i]]
    <3> HIDE DEF D
    <3> QED BY <2>2, Zenon
  <2>4. FlattenSeq(s) = h[n]
    <3>1. Len(s) # 0
      BY <1>1, <1>3
    <3>2. FlattenSeq(s) = LET flatten[i \in 1 .. Len(s)] == IF i = 1 THEN s[i] ELSE flatten[i - 1] \o s[i]
                          IN flatten[Len(s)]
      BY <3>1, Zenon DEF FlattenSeq
    <3> QED BY <1>1, <3>2, Zenon
  <2> HIDE DEF h, D
  <2>5. \A k \in 0 .. n - 1 : h[k + 1] = P[k + 1]
    <3> DEFINE f == [k \in 0 .. n - 1 |-> h[k + 1]]
               g == [k \in 0 .. n - 1 |-> P[k + 1]]
    <3>1. f[0] = g[0]
      <4>1. 0 \in 0 .. n - 1 /\ 0 + 1 = 1
        BY <1>3
      <4>2. h[1] = s[1]
        BY <2>0, <2>3
      <4> QED BY <2>1, <4>1, <4>2
    <3>2. ASSUME NEW k \in 1 .. n - 1, f[k - 1] = g[k - 1] PROVE f[k] = g[k]
      <4>1. k - 1 \in 0 .. n - 1 /\ k \in 0 .. n - 1 /\ k - 1 + 1 = k
        OBVIOUS
      <4>2. h[k] = P[k]
        BY <3>2, <4>1
      <4>3. k + 1 \in 1 .. n /\ k + 1 # 1 /\ (k + 1) - 1 = k
        OBVIOUS
      <4>4. h[k + 1] = h[k] \o s[k + 1]
        BY <2>3, <4>3
      <4>5. P[k + 1] = P[k] \o s[k + 1]
        BY <1>p, <4>3
      <4> QED BY <4>1, <4>2, <4>4, <4>5
    <3>3. Alike(f, g, n - 1)
      <4> HIDE DEF f, g
      <4> QED BY <3>1, <3>2 DEF Alike
    <3>4. \A k \in 0 .. n - 1 : f[k] = g[k]
      <4>1. n - 1 \in Nat
        BY <1>3
      <4> HIDE DEF f, g
      <4> QED BY <3>3, <4>1, AlikeTurns
    <3> QED BY <3>4
  <2>6. n - 1 \in 0 .. n - 1 /\ n - 1 + 1 = n
    BY <1>3
  <2> QED BY <2>4, <2>5, <2>6
<1> QED BY <1>2, <1>3

\* What holds no '\0' and no tab reaches the screen as it is (terminal.c:128-155).
LEMMA PlainShown ==
    ASSUME NEW t \in Seq(Nat), \A i \in 1 .. Len(t) : t[i] # Nul /\ t[i] # TabChar
    PROVE  terminal_write(t) = t
<1> DEFINE s == [i \in 1 .. Len(t) |-> Shown(t[i])]
           P == [k \in 0 .. Len(t) |-> Cut(t, 1, k)]
<1>n. PICK n \in Nat : n = Len(t)
  OBVIOUS
<1>0. \A i \in 1 .. n : t[i] \in Nat
  BY <1>n
<1>1. \A i \in 1 .. n : s[i] = <<t[i]>>
  BY <1>n DEF Shown
<1>2. s \in Alltexts(n)
  <2>1. \A i \in 1 .. n : s[i] \in Seq(Nat)
    <3> TAKE i \in 1 .. n
    <3> HIDE DEF s
    <3>1. PICK x \in Nat : x = t[i]
      BY <1>0
    <3>2. <<x>> \in Seq(Nat)
      OBVIOUS
    <3> QED BY <1>1, <3>1, <3>2
  <2>2. s = [i \in 1 .. n |-> s[i]]
    BY <1>n
  <2> HIDE DEF s
  <2>3. s \in [1 .. n -> Seq(Nat)]
    BY <2>1, <2>2
  <2> QED BY <2>3 DEF Alltexts
<1>3. ASSUME NEW k \in 0 .. n PROVE P[k] = Cut(t, 1, k) /\ P[k] \in Seq(Nat)
  <2>1. P[k] = Cut(t, 1, k)
    BY <1>n
  <2>2. \A i \in 1 .. 1 + k - 1 : t[i] \in Nat
    BY <1>0
  <2>3. Cut(t, 1, k) \in Seq(Nat)
    BY <2>2, CutIs
  <2> HIDE DEF P
  <2> QED BY <2>1, <2>3
<1>4. Joins(P, s, n)
  <2>1. P \in [0 .. n -> Seq(Nat)]
    <3>1. P = [k \in 0 .. n |-> P[k]]
      BY <1>n
    <3> HIDE DEF P
    <3> QED BY <1>3, <3>1
  <2>2. P[0] = <<>>
    <3>1. P[0] = Cut(t, 1, 0)
      BY <1>3
    <3> HIDE DEF P
    <3> QED BY <3>1 DEF Cut
  <2>3. ASSUME NEW k \in 1 .. n PROVE P[k] = P[k - 1] \o s[k]
    <3>1. PICK h \in 0 .. n - 1 : h = k - 1 /\ h + 1 = k /\ 1 + h = k
      OBVIOUS
    <3>2. P[h] = Cut(t, 1, h) /\ P[k] = Cut(t, 1, k) /\ P[h] \in Seq(Nat)
      <4>1. h \in 0 .. n /\ k \in 0 .. n
        BY <3>1
      <4> HIDE DEF P
      <4> QED BY <1>3, <4>1
    <3>3. \A i \in 1 .. 1 + h : t[i] \in Nat
      BY <1>0, <3>1
    <3>4. Append(Cut(t, 1, h), t[1 + h]) = Cut(t, 1, h + 1)
      BY <3>1, <3>3, CutGrows
    <3> HIDE DEF P, s
    <3>5. Append(P[h], t[k]) = P[k]
      BY <3>1, <3>2, <3>4
    <3>6. P[h] \o <<t[k]>> = Append(P[h], t[k])
      BY <1>0, <3>2
    <3> QED BY <1>1, <3>1, <3>5, <3>6
  <2> HIDE DEF P, s
  <2> QED BY <2>1, <2>2, <2>3 DEF Joins
<1>5. FlattenSeq(s) = P[n]
  <2> HIDE DEF P, s
  <2> QED BY <1>2, <1>4, FlattenIs
<1>6. P[n] = t
  <2>1. P[n] = [i \in 1 .. n |-> t[1 + i - 1]]
    BY <1>3 DEF Cut
  <2>2. \A i \in 1 .. n : 1 + i - 1 = i
    OBVIOUS
  <2>3. t = [i \in 1 .. n |-> t[i]]
    BY <1>n
  <2> HIDE DEF P
  <2> QED BY <2>1, <2>2, <2>3
<1>7. terminal_write(t) = FlattenSeq(s)
  BY DEF terminal_write
<1> HIDE DEF s, P
<1> QED BY <1>5, <1>6, <1>7

-----------------------------------------------------------------------------
\* Directories of names without tabs; the lines ls prints of one, those of the names
\* in use.
Files63 == {names \in Directory63 : \A i \in 1 .. TOTAL_NUM_DIR : \A j \in 1 .. Len(names[i]) : names[i][j] # TabChar}
Entries(names, n) == [i \in 1 .. n |-> Append(names[i], Newline)]

\* The names in use are the first n.
InUse(names, n) ==
    /\ n \in 0 .. TOTAL_NUM_DIR /\ \A i \in 1 .. n : names[i] # <<>>
    /\ n < TOTAL_NUM_DIR => names[n + 1] = <<>>

\* LastNamed is the last of the names in use before the first that is not.
LEMMA LastNamedIs ==
    ASSUME NEW names \in Directory63
    PROVE  InUse(names, LastNamed(names))
<1> DEFINE N == TOTAL_NUM_DIR
           S == {i \in 1 .. N : names[i] = <<>>} \cup {N + 1}
<1>0. N \in Nat
  BY FileAssumption
<1>1. LastNamed(names) = Min(S) - 1
  BY DEF LastNamed
<1>2. S \subseteq Nat /\ S # {} /\ \A x \in S : x \in 1 .. N + 1
  BY <1>0
<1>3. Min(S) \in S /\ \A x \in S : Min(S) <= x
  <2> HIDE DEF S
  <2> QED BY <1>2, LeastOf
<1>4. PICK n \in 0 .. N : n = Min(S) - 1 /\ n + 1 = Min(S)
  <2>1. Min(S) \in 1 .. N + 1
    <3> HIDE DEF S
    <3> QED BY <1>2, <1>3
  <2> HIDE DEF S
  <2>2. Min(S) - 1 \in 0 .. N /\ (Min(S) - 1) + 1 = Min(S)
    BY <1>0, <2>1
  <2> QED BY <2>2
<1>5. ASSUME NEW i \in 1 .. n, names[i] = <<>> PROVE FALSE
  <2>1. i \in S
    BY <1>0, <1>4, <1>5
  <2>2. Min(S) <= i
    <3> HIDE DEF S
    <3> QED BY <1>3, <2>1
  <2> HIDE DEF S
  <2> QED BY <1>0, <1>4, <2>2
<1>6. n < N => names[n + 1] = <<>>
  BY <1>0, <1>3, <1>4
<1> HIDE DEF S
<1> QED BY <1>1, <1>4, <1>5, <1>6 DEF InUse

\* A turn of ls: the name at a position, if it is in use.
LEMMA ListTurn ==
    ASSUME NEW names \in Files63, NEW p \in 0 .. TOTAL_NUM_DIR
    PROVE  /\ (\/ read_dentry_by_index(DirImage(names), p).inode_idx = Failed
               \/ dir_read(DirImage(names), p) = <<>>) <=> (p = TOTAL_NUM_DIR \/ names[p + 1] = <<>>)
           /\ p < TOTAL_NUM_DIR => /\ terminal_write(Append(dir_read(DirImage(names), p), Newline))
                                      = Append(names[p + 1], Newline)
                                   /\ Append(names[p + 1], Newline) \in Seq(Nat)
<1> DEFINE N == TOTAL_NUM_DIR
<1>0. N \in Nat /\ names \in Directory63
  BY FileAssumption DEF Files63
<1>1. CASE p = N
  <2>1. read_dentry_by_index(DirImage(names), p).inode_idx = Failed
    BY <1>0, <1>1 DEF read_dentry_by_index
  <2> QED BY <1>0, <1>1, <2>1
<1>2. CASE p # N
  <2>1. p \in 0 .. N - 1 /\ p < N /\ p + 1 \in 1 .. N
    BY <1>0, <1>2
  <2>2. dir_read(DirImage(names), p) = names[p + 1]
    BY <1>0, <2>1, NamesRead
  <2>3. read_dentry_by_index(DirImage(names), p).inode_idx # Failed
    <3>1. Boot(DirImage(names)).dir_entries[p].inode_idx = p
      BY <1>0, <2>1, EntriesAre
    <3>2. p # -1
      BY <2>1
    <3> QED BY <2>1, <3>1, <3>2 DEF read_dentry_by_index, Failed
  <2> DEFINE t == names[p + 1]
             u == Append(t, Newline)
  <2>4. t \in Names
    BY <1>0, <2>1 DEF Directory63
  <2>5. t \in Seq(Nat) /\ \A i \in 1 .. Len(t) : t[i] \in Nat /\ t[i] # Nul
    BY <2>4, NamesAre
  <2>6. \A i \in 1 .. Len(t) : t[i] # TabChar
    BY <2>1 DEF Files63
  <2> HIDE DEF t
  <2>7. u \in Seq(Nat) /\ \A i \in 1 .. Len(u) : u[i] # Nul /\ u[i] # TabChar
    <3>1. Newline \in Nat /\ Newline # Nul /\ Newline # TabChar
      BY DEF Newline, Nul, TabChar
    <3>2. u \in Seq(Nat) /\ Len(u) = Len(t) + 1 /\ u[Len(t) + 1] = Newline /\ \A i \in 1 .. Len(t) : u[i] = t[i]
      BY <2>5, <3>1
    <3>3. \A i \in 1 .. Len(t) + 1 : i \in 1 .. Len(t) \/ i = Len(t) + 1
      BY <2>5
    <3> HIDE DEF u
    <3> QED BY <2>5, <2>6, <3>1, <3>2, <3>3
  <2> HIDE DEF u
  <2>8. terminal_write(u) = u
    BY <2>7, PlainShown
  <2> QED BY <1>2, <2>2, <2>3, <2>7, <2>8 DEF t, u
<1> QED BY <1>1, <1>2

\* What ls prints from each position on.
Listed(L, names) ==
    /\ L \in [0 .. TOTAL_NUM_DIR -> Seq(Nat)] /\ L[TOTAL_NUM_DIR] = <<>>
    /\ \A p \in 0 .. TOTAL_NUM_DIR - 1 :
           L[p] = IF names[p + 1] = <<>> THEN <<>> ELSE Append(names[p + 1], Newline) \o L[p + 1]

\* A listing of the directory from each entry on exists.
LEMMA ListingExists ==
    ASSUME NEW names \in Files63
    PROVE  \E L : Listed(L, names)
<1> DEFINE N == TOTAL_NUM_DIR
           S == Seq(Nat)
           Line1(p, s) == IF names[p] = <<>> THEN <<>> ELSE Append(names[p], Newline) \o s
           step == [k \in 1 .. N |-> [s \in S |-> Line1(N + 1 - k, s)]]
<1>0. N \in Nat
  BY FileAssumption
<1>1. ASSUME NEW k \in 1 .. N, NEW s \in S PROVE Line1(N + 1 - k, s) \in S
  <2>1. PICK p \in 1 .. N : p = N + 1 - k
    BY <1>0
  <2>2. names[p] \in Names
    BY <2>1 DEF Files63, Directory63
  <2>3. Append(names[p], Newline) \in Seq(Nat)
    <3>1. names[p] \in Seq(Nat) /\ Newline \in Nat
      BY <2>2, NamesAre DEF Newline
    <3> QED BY <3>1
  <2>4. Append(names[p], Newline) \o s \in Seq(Nat)
    BY <2>3
  <2>5. <<>> \in Seq(Nat)
    OBVIOUS
  <2> QED BY <2>1, <2>4, <2>5
<1>2. step \in Bodies(N, S)
  <2> HIDE DEF S, Line1
  <2> QED BY <1>1 DEF Bodies
<1>3. <<>> \in S
  OBVIOUS
<1>4. PICK G : G \in Runs(N, S, <<>>, step)
  <2> HIDE DEF S, step, N
  <2> QED BY <1>0, <1>2, <1>3, LoopExists
<1>5. G \in [0 .. N -> S] /\ G[0] = <<>> /\ \A k \in 1 .. N : G[k] = step[k][G[k - 1]]
  <2> HIDE DEF S, step
  <2> QED BY <1>4 DEF Runs
<1> HIDE DEF N
<1>6. ASSUME NEW k \in 1 .. N PROVE G[k] = Line1(N + 1 - k, G[k - 1])
  <2>1. k - 1 \in 0 .. N
    BY <1>0
  <2>2. G[k - 1] \in S
    BY <1>5, <2>1
  <2> HIDE DEF S, Line1
  <2> QED BY <1>5, <2>2
<1> HIDE DEF step
<1> DEFINE L == [p \in 0 .. N |-> G[N - p]]
<1>7. L \in [0 .. N -> S]
  <2>1. \A p \in 0 .. N : N - p \in 0 .. N
    BY <1>0
  <2> HIDE DEF S
  <2> QED BY <1>5, <2>1
<1>8. L[N] = <<>>
  BY <1>0, <1>5
<1>9. ASSUME NEW p \in 0 .. N - 1 PROVE L[p] = Line1(p + 1, L[p + 1])
  <2>1. PICK k \in 1 .. N : k = N - p /\ N + 1 - k = p + 1 /\ k - 1 = N - (p + 1)
    BY <1>0
  <2>2. p \in 0 .. N /\ p + 1 \in 0 .. N
    BY <1>0
  <2>3. L[p] = G[k] /\ L[p + 1] = G[k - 1]
    BY <2>1, <2>2
  <2> HIDE DEF L, Line1
  <2> QED BY <1>6, <2>1, <2>3
<1> HIDE DEF L
<1>10. Listed(L, names)
  BY <1>7, <1>8, <1>9 DEF Listed, N
<1> QED BY <1>10

\* And ls prints the one from the first (ece391ls.c).
LEMMA ListingIs ==
    ASSUME NEW names \in Files63, NEW L, Listed(L, names)
    PROVE  ls(DirImage(names)) = L[0]
<1> DEFINE N == TOTAL_NUM_DIR
           image == DirImage(names)
           unused(p) == \/ read_dentry_by_index(image, p).inode_idx = Failed
                        \/ dir_read(image, p) = <<>>
           line(p) == terminal_write(Append(dir_read(image, p), Newline))
           h == CHOOSE listing : listing = [position \in 0 .. N |->
                    IF unused(position) THEN <<>> ELSE line(position) \o listing[position + 1]]
<1>0. N \in Nat
  BY FileAssumption
<1>1. ls(image) = h[0]
  BY Zenon DEF ls
<1>2. L \in [0 .. N -> Seq(Nat)] /\ L[N] = <<>>
      /\ \A p \in 0 .. N - 1 :
           L[p] = IF names[p + 1] = <<>> THEN <<>> ELSE Append(names[p + 1], Newline) \o L[p + 1]
  BY DEF Listed
<1>3. ASSUME NEW p \in 0 .. N
      PROVE  /\ unused(p) <=> (p = N \/ names[p + 1] = <<>>)
             /\ p < N => line(p) = Append(names[p + 1], Newline)
  BY ListTurn
<1> HIDE DEF unused, line, N
<1>4. L = [position \in 0 .. N |-> IF unused(position) THEN <<>> ELSE line(position) \o L[position + 1]]
  <2>1. ASSUME NEW p \in 0 .. N PROVE L[p] = IF unused(p) THEN <<>> ELSE line(p) \o L[p + 1]
    <3>1. CASE p = N
      BY <1>2, <1>3, <3>1
    <3>2. CASE p # N
      <4>1. p \in 0 .. N - 1 /\ p < N
        BY <1>0, <3>2
      <4> QED BY <1>2, <1>3, <3>2, <4>1
    <3> QED BY <3>1, <3>2
  <2>2. L = [p \in 0 .. N |-> L[p]]
    BY <1>2
  <2> QED BY <2>1, <2>2
<1>5. h = [position \in 0 .. N |-> IF unused(position) THEN <<>> ELSE line(position) \o h[position + 1]]
  BY <1>4, Zenon
<1> HIDE DEF h
<1> DEFINE f == [k \in 0 .. N |-> h[N - k]]
           g == [k \in 0 .. N |-> L[N - k]]
<1>6. f[0] = g[0]
  <2>1. h[N] = <<>>
    BY <1>0, <1>3, <1>5
  <2>2. f[0] = h[N] /\ g[0] = L[N]
    BY <1>0
  <2> HIDE DEF f, g
  <2> QED BY <1>2, <2>1, <2>2
<1>7. ASSUME NEW k \in 1 .. N, f[k - 1] = g[k - 1] PROVE f[k] = g[k]
  <2>1. PICK p \in 0 .. N - 1 : p = N - k /\ p + 1 = N - (k - 1)
    BY <1>0
  <2>2. k \in 0 .. N /\ k - 1 \in 0 .. N /\ p \in 0 .. N /\ p + 1 \in 0 .. N
    BY <1>0, <2>1
  <2>3. f[k] = h[p] /\ g[k] = L[p] /\ f[k - 1] = h[p + 1] /\ g[k - 1] = L[p + 1]
    BY <2>1, <2>2
  <2> HIDE DEF f, g
  <2>4. L[p] = IF unused(p) THEN <<>> ELSE line(p) \o L[p + 1]
    <3>1. L[p] = [position \in 0 .. N |-> IF unused(position) THEN <<>> ELSE line(position) \o L[position + 1]][p]
      BY <1>4
    <3> QED BY <2>2, <3>1
  <2>5. h[p] = IF unused(p) THEN <<>> ELSE line(p) \o h[p + 1]
    BY <1>5, <2>2
  <2> QED BY <1>7, <2>3, <2>4, <2>5
<1>8. Alike(f, g, N)
  <2> HIDE DEF f, g
  <2> QED BY <1>6, <1>7 DEF Alike
<1>9. f[N] = g[N]
  <2>1. N \in 0 .. N
    BY <1>0
  <2> HIDE DEF f, g
  <2> QED BY <1>0, <1>8, <2>1, AlikeTurns
<1>10. f[N] = h[0] /\ g[N] = L[0]
  <2>1. N \in 0 .. N /\ N - N = 0
    BY <1>0
  <2> QED BY <2>1
<1> HIDE DEF f, g
<1> QED BY <1>1, <1>9, <1>10

\* ls prints the names in use, up to the first that is not, a line each, as they
\* are (ece391ls.c; file_system.c:331-365).
THEOREM NamesListed ==
    ASSUME NEW names \in Files63
    PROVE  ls(DirImage(names)) = FlattenSeq(Entries(names, LastNamed(names)))
<1> DEFINE n == LastNamed(names)
           N == TOTAL_NUM_DIR
           s == Entries(names, n)
<1>0. N \in Nat /\ names \in Directory63
  BY FileAssumption DEF Files63
<1>1. n \in 0 .. N /\ (\A i \in 1 .. n : names[i] # <<>>) /\ (n < N => names[n + 1] = <<>>)
  BY <1>0, LastNamedIs DEF InUse
<1>s. \A i \in 1 .. n : s[i] = Append(names[i], Newline)
  BY DEF Entries
<1>t. s = [i \in 1 .. n |-> Append(names[i], Newline)]
  BY DEF Entries
<1> HIDE DEF n, N, s
<1>2. PICK L : Listed(L, names)
  BY ListingExists
<1>3. ls(DirImage(names)) = L[0]
  BY <1>2, ListingIs
<1>4. L \in [0 .. N -> Seq(Nat)] /\ L[N] = <<>>
      /\ \A p \in 0 .. N - 1 :
           L[p] = IF names[p + 1] = <<>> THEN <<>> ELSE Append(names[p + 1], Newline) \o L[p + 1]
  BY <1>2 DEF Listed, N
<1>5. ASSUME NEW i \in 1 .. n PROVE s[i] \in Seq(Nat)
  <2>1. PICK p \in 0 .. N - 1 : p + 1 = i
    BY <1>0, <1>1
  <2>2. p \in 0 .. TOTAL_NUM_DIR /\ p < TOTAL_NUM_DIR
    BY <1>0, <2>1 DEF N
  <2>3. Append(names[p + 1], Newline) \in Seq(Nat)
    BY <2>2, ListTurn
  <2> QED BY <1>s, <2>1, <2>3
<1>6. s \in Alltexts(n)
  <2>1. s = [i \in 1 .. n |-> s[i]]
    BY <1>t
  <2>2. s \in [1 .. n -> Seq(Nat)]
    BY <1>5, <2>1
  <2> QED BY <2>2 DEF Alltexts
<1>7. PICK P : Joins(P, s, n)
  BY <1>1, <1>6, JoinsExist
<1>8. P \in [0 .. n -> Seq(Nat)] /\ P[0] = <<>> /\ \A k \in 1 .. n : P[k] = P[k - 1] \o s[k]
  BY <1>7 DEF Joins
<1>9. FlattenSeq(s) = P[n]
  BY <1>1, <1>6, <1>7, FlattenIs
<1> DEFINE f == [k \in 0 .. n |-> P[k] \o L[k]]
           g == [k \in 0 .. n |-> L[0]]
<1>10. f[0] = g[0]
  <2>1. f[0] = <<>> \o L[0] /\ g[0] = L[0]
    <3>1. 0 \in 0 .. n
      BY <1>1
    <3>2. f[0] = P[0] \o L[0] /\ g[0] = L[0]
      BY <3>1
    <3> HIDE DEF f, g
    <3> QED BY <1>8, <3>2
  <2>2. L[0] \in Seq(Nat)
    BY <1>0, <1>4
  <2>3. <<>> \o L[0] = L[0]
    BY <2>2
  <2> HIDE DEF f, g
  <2> QED BY <2>1, <2>3
<1>11. ASSUME NEW k \in 1 .. n, f[k - 1] = g[k - 1] PROVE f[k] = g[k]
  <2>1. PICK p \in 0 .. N - 1 : p = k - 1 /\ p + 1 = k
    BY <1>0, <1>1
  <2>2. k \in 0 .. n /\ p \in 0 .. n
    BY <1>1, <2>1
  <2>3. f[k] = P[k] \o L[k] /\ f[k - 1] = P[p] \o L[p] /\ g[k] = L[0] /\ g[k - 1] = L[0]
    BY <2>1, <2>2
  <2> HIDE DEF f, g
  <2>4. names[k] # <<>>
    BY <1>1
  <2>5. L[p] = s[k] \o L[k]
    BY <1>4, <1>s, <2>1, <2>4
  <2>6. P[k] = P[p] \o s[k]
    BY <1>8, <2>1
  <2>7. P[p] \in Seq(Nat) /\ s[k] \in Seq(Nat) /\ L[k] \in Seq(Nat)
    <3>1. k \in 0 .. N
      BY <1>0, <1>1
    <3> QED BY <1>4, <1>5, <1>8, <2>2, <3>1
  <2>8. (P[p] \o s[k]) \o L[k] = P[p] \o (s[k] \o L[k])
    BY <2>7, JoinedTexts
  <2> QED BY <1>11, <2>3, <2>5, <2>6, <2>8
<1>12. Alike(f, g, n)
  <2> HIDE DEF f, g
  <2> QED BY <1>10, <1>11 DEF Alike
<1>13. f[n] = g[n]
  <2>1. n \in Nat /\ n \in 0 .. n
    BY <1>1
  <2> HIDE DEF f, g
  <2> QED BY <1>12, <2>1, AlikeTurns
<1>14. f[n] = P[n] \o L[n] /\ g[n] = L[0] /\ P[n] \in Seq(Nat)
  <2>1. n \in 0 .. n
    BY <1>1
  <2> QED BY <1>8, <2>1
<1> HIDE DEF f, g
<1>15. L[n] = <<>>
  <2>1. CASE n = N
    BY <1>4, <2>1
  <2>2. CASE n # N
    <3>1. n \in 0 .. N - 1 /\ n < N
      BY <1>0, <1>1, <2>2
    <3> QED BY <1>1, <1>4, <3>1
  <2> QED BY <2>1, <2>2
<1>16. P[n] \o <<>> = P[n]
  BY <1>14
<1> QED BY <1>3, <1>9, <1>13, <1>14, <1>15, <1>16 DEF s, n

-----------------------------------------------------------------------------
\* The name execute looks for is one that a directory could hold.
CutName(c) == SubSeq(FirstWord(c), 1, Min({Len(FirstWord(c)), MAX_FILENAME}))

\* The first word, as far as a name can be long, is a name.
LEMMA CutNameIs ==
    ASSUME NEW c \in Texts
    PROVE  /\ c \in Seq(Nat) /\ CutName(c) \in Names /\ Len(FirstWord(c)) \in Nat
           /\ Len(FirstWord(c)) <= MAX_FILENAME => CutName(c) = FirstWord(c)
<1> DEFINE T == Nat \ {Nul}
           w == FirstWord(c)
           m == MAX_FILENAME
<1>0. c \in Seq(T) /\ c \in Seq(Nat) /\ m \in Nat
  <2>1. c \in Seq(T)
    BY DEF Texts
  <2>2. c \in Seq(Nat)
    BY <2>1
  <2> QED BY <2>1, <2>2, FileAssumption
<1>1. w \in Seq(T)
  <2>1. CASE Starts(c) = {}
    <3>1. w = <<>>
      BY <2>1 DEF FirstWord
    <3>2. <<>> \in Seq(T)
      OBVIOUS
    <3> HIDE DEF w, T
    <3> QED BY <3>1, <3>2
  <2>2. CASE Starts(c) # {}
    <3> DEFINE f == Min(Starts(c))
               e == EndOf(c, f)
    <3>1. w = SubSeq(c, f, e)
      BY <2>2 DEF FirstWord
    <3>2. f \in Starts(c)
      BY <1>0, <2>2, SkippedIs
    <3>3. f \in 1 .. Len(c) /\ e \in f .. Len(c)
      BY <1>0, <3>2, EndIs DEF WordEnds
    <3> HIDE DEF f, e
    <3>4. f \in Nat \ {0} /\ e \in Nat /\ e <= Len(c) /\ f <= e + 1
      <4>1. Len(c) \in Nat
        BY <1>0
      <4> QED BY <3>3, <4>1
    <3> HIDE DEF w, T
    <3>5. SubSeq(c, f, e) \in Seq(T)
      BY <1>0, <3>4, PartIs
    <3> QED BY <3>1, <3>5
  <2> QED BY <2>1, <2>2
<1> HIDE DEF w, T
<1>2. PICK n \in Nat : n = Len(w)
  BY <1>1
<1>3. PICK l \in Nat : l = Min({n, m}) /\ l <= n /\ l <= m /\ (n <= m => l = n)
  <2>1. Min({n, m}) = IF n <= m THEN n ELSE m
    <3> HIDE DEF m
    <3> QED BY <1>0, MinOfTwo
  <2> QED BY <1>0, <2>1
<1>4. SubSeq(w, 1, l) \in Seq(T) /\ Len(SubSeq(w, 1, l)) = l /\ \A k \in 1 .. l : SubSeq(w, 1, l)[k] = w[k]
  <2>1. 1 \in Nat \ {0} /\ l <= Len(w) /\ 1 <= l + 1 /\ l - 1 + 1 = l /\ \A k \in Nat : 1 - 1 + k = k
    BY <1>2, <1>3
  <2>2. /\ SubSeq(w, 1, l) \in Seq(T) /\ Len(SubSeq(w, 1, l)) = l - 1 + 1
        /\ \A k \in 1 .. l - 1 + 1 : SubSeq(w, 1, l)[k] = w[1 - 1 + k]
    BY <1>1, <2>1, PartIs
  <2> QED BY <2>1, <2>2
<1>5. CutName(c) = SubSeq(w, 1, l)
  BY <1>2, <1>3 DEF CutName, w, m
<1>6. SubSeq(w, 1, l) \in Names
  BY <1>3, <1>4 DEF Names, Texts, T, m
<1>7. n <= m => SubSeq(w, 1, l) = w
  <2> SUFFICES ASSUME n <= m PROVE SubSeq(w, 1, l) = w
    OBVIOUS
  <2>1. l = n
    BY <1>3
  <2>2. w = [k \in 1 .. n |-> w[k]]
    BY <1>1, <1>2
  <2>3. SubSeq(w, 1, l) = [k \in 1 .. n |-> SubSeq(w, 1, l)[k]]
    BY <1>4, <2>1
  <2> QED BY <1>4, <2>1, <2>2, <2>3
<1> QED BY <1>0, <1>2, <1>5, <1>6, <1>7 DEF w, m

\* The shell never runs a program of another name than the line's first word, as far
\* as a name can be long, and finds the first entry of that name if the name leaves
\* room for its end, whatever lies on the stack above it (syscall.c:47-54, 218-268;
\* file_system.c:47-96; ece391shell.c:14-27).
THEOREM ProgramsReached ==
    ASSUME NEW names \in Directory63, NEW c \in Texts, NEW stack \in Stacks
    PROVE  LET runs  == shell(DirImage(names), Append(c, Newline), stack)
               named == NamedBy(names, CutName(c))
           IN /\ runs # Failed => runs \in named
              /\ Len(FirstWord(c)) \in 1 .. MAX_FILENAME - 1 /\ named # {} => runs = Min(named)
<1> DEFINE line == Append(c, Newline)
           t == CutName(c)
           named == NamedBy(names, t)
           runs == shell(DirImage(names), line, stack)
           found == read_dentry_by_name(DirImage(names), Buffer(t, MAX_FILENAME, stack))
<1>0. c \in Seq(Nat) /\ t \in Names /\ Newline \in Nat /\ Len(FirstWord(c)) \in Nat
  BY CutNameIs DEF Newline
<1>1. Entered(line) = c
  <2>1. line # <<>> /\ Last(line) = Newline /\ Front(line) = c
    <3>1. line \in Seq(Nat) /\ Len(line) = Len(c) + 1 /\ line[Len(c) + 1] = Newline
          /\ \A i \in 1 .. Len(c) : line[i] = c[i]
      BY <1>0
    <3>2. PICK n \in Nat : n = Len(c)
      BY <1>0
    <3> HIDE DEF line
    <3>3. line # <<>> /\ Last(line) = Newline
      BY <3>1, <3>2 DEF Last
    <3>4. Front(line) = SubSeq(line, 1, n)
      <4>1. Len(line) - 1 = n
        BY <3>1, <3>2
      <4> QED BY <4>1 DEF Front
    <3>5. /\ SubSeq(line, 1, n) \in Seq(Nat) /\ Len(SubSeq(line, 1, n)) = n
          /\ \A k \in 1 .. n : SubSeq(line, 1, n)[k] = line[k]
      <4>1. 1 \in Nat \ {0} /\ n <= Len(line) /\ 1 <= n + 1 /\ n - 1 + 1 = n /\ \A k \in Nat : 1 - 1 + k = k
        BY <3>1, <3>2
      <4>2. /\ SubSeq(line, 1, n) \in Seq(Nat) /\ Len(SubSeq(line, 1, n)) = n - 1 + 1
            /\ \A k \in 1 .. n - 1 + 1 : SubSeq(line, 1, n)[k] = line[1 - 1 + k]
        BY <3>1, <4>1, PartIs
      <4> QED BY <4>1, <4>2
    <3>6. c = [k \in 1 .. n |-> c[k]]
      BY <1>0, <3>2
    <3>7. SubSeq(line, 1, n) = [k \in 1 .. n |-> SubSeq(line, 1, n)[k]]
      BY <3>5
    <3> QED BY <3>1, <3>2, <3>3, <3>4, <3>5, <3>6, <3>7
  <2> QED BY <2>1 DEF Entered
<1>2. parse_cmd(c).command_name = t
  BY <1>0, CommandNamed DEF CutName
<1>3. runs = IF c = <<>> THEN Failed ELSE found
  BY <1>1, <1>2 DEF shell, execute
<1>4. /\ found # Failed => found \in named
      /\ Len(t) < MAX_FILENAME /\ named # {} => found = Min(named)
  BY <1>0, NamesFound
<1>5. ASSUME Len(FirstWord(c)) \in 1 .. MAX_FILENAME - 1 PROVE c # <<>> /\ Len(t) < MAX_FILENAME
  <2>1. MAX_FILENAME \in Nat
    BY FileAssumption
  <2>2. t = FirstWord(c)
    BY <1>0, <1>5, <2>1, CutNameIs
  <2>3. c = <<>> => Starts(c) = {}
    BY DEF Starts
  <2>4. Starts(c) = {} => Len(FirstWord(c)) = 0
    BY DEF FirstWord
  <2> HIDE DEF t
  <2> QED BY <1>5, <2>1, <2>2, <2>3, <2>4
<1> HIDE DEF runs, found, named
<1>6. runs # Failed => runs \in named
  BY <1>3, <1>4
<1>7. Len(FirstWord(c)) \in 1 .. MAX_FILENAME - 1 /\ named # {} => runs = Min(named)
  BY <1>3, <1>4, <1>5
<1> QED BY <1>6, <1>7 DEF runs, named

-----------------------------------------------------------------------------
\* What the calls are made of.
LEMMA FilledDirectory ==
    ASSUME NEW names \in Seq(Seq(Letters)), Len(names) # 0
    PROVE  Filling(names) \in Files63
<1> DEFINE N == TOTAL_NUM_DIR
           m == MAX_FILENAME
           one(i) == LET name == names[1 + ((i - 1) % Len(names))]
                     IN SubSeq(name, 1, Min({Len(name), MAX_FILENAME}))
<1>0. N \in Nat /\ m \in Nat
  BY FileAssumption
<1>1. ASSUME NEW i \in 1 .. N PROVE one(i) \in Names /\ \A j \in 1 .. Len(one(i)) : one(i)[j] # TabChar
  <2>1. PICK n \in Nat \ {0} : n = Len(names)
    OBVIOUS
  <2>2. PICK q \in 0 .. n - 1 : q = (i - 1) % Len(names)
    <3>1. PICK h \in Int : h = i - 1
      OBVIOUS
    <3>2. h % n \in 0 .. n - 1
      OBVIOUS
    <3> QED BY <2>1, <3>1, <3>2
  <2>3. PICK x \in 1 .. n : x = 1 + ((i - 1) % Len(names))
    <3>1. 1 + q \in 1 .. n
      BY <2>2
    <3>2. 1 + q = 1 + ((i - 1) % Len(names))
      BY <2>2
    <3> QED BY <3>1, <3>2, Zenon
  <2>4. PICK t \in Seq(Letters) : t = names[x]
    BY <2>1, <2>3
  <2>5. PICK a \in Nat : a = Len(t)
    OBVIOUS
  <2>6. PICK l \in Nat : l = Min({Len(t), MAX_FILENAME}) /\ l <= a /\ l <= MAX_FILENAME
    <3>1. Min({a, m}) = IF a <= m THEN a ELSE m
      <4>1. a \in Int /\ m \in Int
        BY <1>0
      <4> HIDE DEF m
      <4> QED BY <4>1, MinOfTwo
    <3> QED BY <1>0, <2>5, <3>1
  <2>7. one(i) = SubSeq(t, 1, l)
    BY <2>3, <2>4, <2>6
  <2> HIDE DEF one
  <2>8. one(i) \in Seq(Letters) /\ Len(one(i)) = l
    <3>1. 1 \in Nat \ {0} /\ l <= Len(t) /\ 1 <= l + 1 /\ l - 1 + 1 = l
      BY <2>5, <2>6
    <3>2. SubSeq(t, 1, l) \in Seq(Letters) /\ Len(SubSeq(t, 1, l)) = l - 1 + 1
      BY <3>1, PartIs
    <3> QED BY <2>7, <3>1, <3>2
  <2>9. \A j \in 1 .. l : one(i)[j] \in Letters
    BY <2>8
  <2>10. Letters \subseteq Nat \ {Nul} /\ TabChar \notin Letters
    BY DEF Letters, Nul, TabChar
  <2>11. one(i) \in Seq(Nat \ {Nul})
    <3>1. one(i) = [j \in 1 .. l |-> one(i)[j]]
      BY <2>8
    <3>2. one(i) \in [1 .. l -> Nat \ {Nul}]
      BY <2>9, <2>10, <3>1
    <3> QED BY <3>2
  <2> QED BY <2>6, <2>8, <2>9, <2>10, <2>11 DEF Names, Texts
<1>2. Filling(names) = [i \in 1 .. N |-> one(i)]
  BY DEF Filling
<1> HIDE DEF one
<1> QED BY <1>1, <1>2 DEF Files63, Directory63

\* The commands of the run are among those of the theorems.
LEMMA CommandsAre ==
    ASSUME NEW names \in Directories, NEW c \in SeqsUpTo(Letters \cup {Space}, 6),
           NEW stack \in {<<Nul>>, <<97, Nul>>}
    PROVE  names \in Files63 /\ c \in Texts /\ stack \in Stacks
<1>1. names \in Files63
  <2>1. 97 \in Letters /\ 98 \in Letters
    BY DEF Letters
  <2> DEFINE S == Seq(Letters)
  <2>2. <<>> \in S /\ <<97>> \in S /\ <<98>> \in S /\ <<97, 98>> \in S /\ <<98, 97>> \in S /\ <<97, 97>> \in S
    BY <2>1
  <2> HIDE DEF S
  <2>3. \A x, y, z \in S : <<x, y, z>> \in Seq(S) /\ Len(<<x, y, z>>) = 3 /\ 3 # 0
    OBVIOUS
  <2>4. \A x, y, z \in S : Filling(<<x, y, z>>) \in Files63
    BY <2>3, FilledDirectory DEF S
  <2>5. names \in {Filling(<< <<97>>, <<97, 98>>, <<97>> >>), Filling(<< <<97, 98>>, <<>>, <<98>> >>),
                   Filling(<< <<98, 97>>, <<97>>, <<97, 97>> >>)}
    BY DEF Directories
  <2> QED BY <2>2, <2>4, <2>5
<1>2. c \in Texts
  <2>1. PICK k \in 0 .. 6 : c \in [1 .. k -> Letters \cup {Space}]
    BY DEF SeqsUpTo
  <2>2. Letters \cup {Space} \subseteq Nat \ {Nul}
    BY DEF Letters, Space, Nul
  <2>3. c \in [1 .. k -> Nat \ {Nul}]
    BY <2>1, <2>2
  <2>4. c \in Seq(Nat \ {Nul})
    BY <2>3
  <2> QED BY <2>4 DEF Texts
<1>3. stack \in Stacks
  <2>1. CASE stack = <<Nul>>
    <3>1. stack \in Seq(Nat) /\ 1 \in 1 .. Len(stack) /\ stack[1] = Nul
      BY <2>1 DEF Nul
    <3> QED BY <3>1 DEF Stacks
  <2>2. CASE stack = <<97, Nul>>
    <3>1. stack \in Seq(Nat) /\ 2 \in 1 .. Len(stack) /\ stack[2] = Nul
      BY <2>2 DEF Nul
    <3> QED BY <3>1 DEF Stacks
  <2> QED BY <2>1, <2>2
<1> QED BY <1>1, <1>2, <1>3

\* Every command of every run reaches its program and its argument, and every
\* directory is read and listed as it is.
THEOREM CommandsServed == Spec => []CommandsReach
<1>1. ASSUME NEW names \in Files63, NEW c \in Texts, NEW stack \in Stacks
      PROVE  LET word  == FirstWord(c)
                 cut   == SubSeq(word, 1, Min({Len(word), MAX_FILENAME}))
                 named == {i \in 0 .. TOTAL_NUM_DIR - 1 : names[i + 1] = cut}
                 runs  == shell(DirImage(names), Append(c, Newline), stack)
                 buf   == getargs([i \in 0 .. MAX_FILENAME |-> 1], args_name(c), MAX_FILENAME + 1)
                 from  == Min({i \in Starts(c) : i > Min(Starts(c))})
                 arg   == SubSeq(c, from, EndOf(c, from))
             IN /\ runs # Failed => runs \in named
                /\ Len(word) \in 1 .. MAX_FILENAME - 1 /\ named # {} => runs = Min(named)
                /\ \A i \in 0 .. TOTAL_NUM_DIR :
                       dir_read(DirImage(names), i) = IF i < TOTAL_NUM_DIR THEN names[i + 1] ELSE Failed
                /\ ls(DirImage(names)) = FlattenSeq([i \in 1 .. LastNamed(names) |-> Append(names[i], Newline)])
                /\ Cardinality(Starts(c)) <= 1 => buf = Failed
                /\ Cardinality(Starts(c)) = 2 =>
                       IF Len(arg) <= MAX_FILENAME THEN buf = Buffer(arg, MAX_FILENAME + 1, <<>>)
                       ELSE buf[MAX_FILENAME] = arg[MAX_FILENAME + 1]
  <2> DEFINE runs == shell(DirImage(names), Append(c, Newline), stack)
             b == [i \in 0 .. MAX_FILENAME |-> 1]
             buf == getargs(b, args_name(c), MAX_FILENAME + 1)
  <2>0. names \in Directory63
    BY DEF Files63
  <2>1. /\ runs # Failed => runs \in NamedBy(names, CutName(c))
        /\ Len(FirstWord(c)) \in 1 .. MAX_FILENAME - 1 /\ NamedBy(names, CutName(c)) # {}
           => runs = Min(NamedBy(names, CutName(c)))
    BY <2>0, ProgramsReached
  <2>2. ASSUME NEW i \in 0 .. TOTAL_NUM_DIR
        PROVE  dir_read(DirImage(names), i) = IF i < TOTAL_NUM_DIR THEN names[i + 1] ELSE Failed
    <3>1. TOTAL_NUM_DIR \in Nat
      BY FileAssumption
    <3>2. i \in 0 .. TOTAL_NUM_DIR - 1 \/ i = TOTAL_NUM_DIR
      BY <3>1
    <3> QED BY <2>0, <3>1, <3>2, NamesRead
  <2>3. ls(DirImage(names)) = FlattenSeq([i \in 1 .. LastNamed(names) |-> Append(names[i], Newline)])
    BY NamesListed DEF Entries
  <2>4. /\ Cardinality(Starts(c)) <= 1 => buf = Failed
        /\ Cardinality(Starts(c)) = 2 =>
               IF Len(Argument(c)) <= MAX_FILENAME THEN buf = Buffer(Argument(c), MAX_FILENAME + 1, <<>>)
               ELSE buf[MAX_FILENAME] = Argument(c)[MAX_FILENAME + 1]
    <3>1. c \in Seq(Nat) /\ \A i \in 1 .. Len(c) : c[i] # Nul
      <4>1. c \in Seq(Nat \ {Nul})
        BY DEF Texts
      <4> QED BY <4>1
    <3>2. DOMAIN b = 0 .. MAX_FILENAME
      OBVIOUS
    <3> HIDE DEF b
    <3> QED BY <3>1, <3>2, ArgumentsPassed
  <2>5. Argument(c) = SubSeq(c, Min({i \in Starts(c) : i > Min(Starts(c))}),
                             EndOf(c, Min({i \in Starts(c) : i > Min(Starts(c))})))
    BY DEF Argument, ArgStart
  <2> HIDE DEF runs, buf
  <2>6. NamedBy(names, CutName(c))
        = {i \in 0 .. TOTAL_NUM_DIR - 1 :
              names[i + 1] = SubSeq(FirstWord(c), 1, Min({Len(FirstWord(c)), MAX_FILENAME}))}
    BY DEF NamedBy, CutName
  <2> QED BY <2>1, <2>2, <2>3, <2>4, <2>5, <2>6 DEF runs, buf
<1>2. call \in Calls => CommandsReach
  <2> SUFFICES ASSUME call \in Calls, call.routine = "execute" PROVE CommandsReach
    BY DEF CommandsReach
  <2>1. call \in CommandCalls
    BY CallKinds
  <2>2. /\ call.names \in Directories /\ call.command \in SeqsUpTo(Letters \cup {Space}, 6)
        /\ call.stack \in {<<Nul>>, <<97, Nul>>}
    BY <2>1 DEF CommandCalls
  <2>3. call.names \in Files63 /\ call.command \in Texts /\ call.stack \in Stacks
    BY <2>2, CommandsAre
  <2> QED BY <1>1, <2>3 DEF CommandsReach
<1> QED BY <1>2, CallsMade, PTL

-----------------------------------------------------------------------------
\* The digit of a number below 36, and back.
LEMMA LookupIs ==
    ASSUME NEW d \in 0 .. 35
    PROVE  lookup(d) \in Nat /\ lookup(d) # Nul /\ Digit(lookup(d)) = d
           /\ lookup(d) >= 48 /\ lookup(d) < 128
BY DEF lookup, Digit, Nul

\* The digits of v, and a text in a buffer.
DigitsText(q, len, radix) == [i \in 1 .. len |-> lookup(q[len - i] % radix)]
Spelled(b, top, at, text) ==
    [i \in 0 .. top |-> IF i \in at .. at + Len(text) - 1 THEN text[i - at + 1]
                        ELSE IF i = at + Len(text) THEN Nul ELSE b[i]]

\* The bases whose digits lookup has, and a buffer of top + 1 bytes.
Bases == 2 .. 36
Buffers(top) == [0 .. top -> Nat]

\* Every digit of a number in a base.
LEMMA DigitOf ==
    ASSUME NEW v \in Nat, NEW radix \in Bases, NEW q \in Quotients(v, radix), NEW k \in 0 .. WORD_BITS
    PROVE  /\ q[k] \in Nat /\ q[k] % radix \in 0 .. radix - 1 /\ q[k] % radix \in 0 .. 35
           /\ lookup(q[k] % radix) \in Nat /\ lookup(q[k] % radix) # Nul
           /\ lookup(q[k] % radix) >= 48 /\ lookup(q[k] % radix) < 128
           /\ Digit(lookup(q[k] % radix)) = q[k] % radix
<1> USE DEF Bases, Buffers
<1>1. q[k] \in Nat
  BY DEF Quotients
<1>2. q[k] % radix \in 0 .. radix - 1
  BY <1>1
<1>3. PICK d \in 0 .. 35 : d = q[k] % radix
  BY <1>2
<1> QED BY <1>1, <1>2, <1>3, LookupIs

\* The digits of a number, as a text.
LEMMA TextTyped ==
    ASSUME NEW v \in Nat, NEW radix \in Bases, NEW q \in Quotients(v, radix), NEW len \in 1 .. WORD_BITS
    PROVE  /\ DigitsText(q, len, radix) \in Seq(Nat) /\ Len(DigitsText(q, len, radix)) = len
           /\ \A i \in 1 .. len : /\ DigitsText(q, len, radix)[i] = lookup(q[len - i] % radix)
                                  /\ DigitsText(q, len, radix)[i] \in Nat
                                  /\ DigitsText(q, len, radix)[i] # Nul
<1> USE DEF Bases, Buffers
<1>0. WORD_BITS \in Nat
  BY WidthAssumption
<1> DEFINE t == DigitsText(q, len, radix)
<1>1. ASSUME NEW i \in 1 .. len
      PROVE  lookup(q[len - i] % radix) \in Nat /\ lookup(q[len - i] % radix) # Nul
  <2>1. len - i \in 0 .. WORD_BITS
    BY <1>0
  <2> QED BY <2>1, DigitOf
<1>2. t = [i \in 1 .. len |-> lookup(q[len - i] % radix)]
  BY DEF DigitsText
<1> HIDE DEF t
<1>3. t \in [1 .. len -> Nat] /\ len \in Nat
  BY <1>0, <1>1, <1>2
<1>4. t \in Seq(Nat) /\ Len(t) = len
  BY <1>3
<1> QED BY <1>1, <1>2, <1>4 DEF t

\* The loop of itoa, the last digit first: when all are written it stays.
Half(b, top, at, q, radix, m) ==
    [value |-> q[m], at |-> at + m,
     buf |-> [i \in 0 .. top |-> IF i \in at .. at + m - 1 THEN lookup(q[i - at] % radix) ELSE b[i]]]

\* A turn of itoa writes one more digit (lib.c:426-453).
LEMMA DigitStep ==
    ASSUME NEW v \in Nat, NEW radix \in Bases, NEW q \in Quotients(v, radix),
           NEW top \in Nat, NEW at \in Nat, NEW b \in Buffers(top),
           NEW m \in 0 .. WORD_BITS - 1, at + m <= top
    PROVE  NextDigit(Half(b, top, at, q, radix, m), radix) =
               IF q[m] = 0 THEN Half(b, top, at, q, radix, m) ELSE Half(b, top, at, q, radix, m + 1)
<1> USE DEF Bases, Buffers
<1> DEFINE p == Half(b, top, at, q, radix, m)
<1>1. p.value = q[m] /\ p.at = at + m
      /\ p.buf = [i \in 0 .. top |-> IF i \in at .. at + m - 1 THEN lookup(q[i - at] % radix) ELSE b[i]]
  BY DEF Half
<1> HIDE DEF p
<1>2. CASE q[m] = 0
  <2>1. p.value = 0
    BY <1>1, <1>2
  <2>2. NextDigit(p, radix) = p
    BY <2>1, Zenon DEF NextDigit
  <2> QED BY <1>2, <2>2 DEF p
<1>3. CASE q[m] # 0
  <2> DEFINE new == [p.buf EXCEPT ![at + m] = lookup(q[m] % radix)]
             old == p.buf
  <2>1. NextDigit(p, radix) = [value |-> q[m] \div radix, at |-> at + m + 1, buf |-> new]
    BY <1>1, <1>3, Zenon DEF NextDigit
  <2>2. new = [i \in 0 .. top |-> IF i = at + m THEN lookup(q[m] % radix) ELSE old[i]]
    BY <1>1
  <2>3. ASSUME NEW i \in 0 .. top
        PROVE  (IF i = at + m THEN lookup(q[m] % radix) ELSE old[i])
               = IF i \in at .. at + (m + 1) - 1 THEN lookup(q[i - at] % radix) ELSE b[i]
    <3>1. CASE i = at + m
      <4>1. i - at = m /\ i \in at .. at + (m + 1) - 1
        BY <3>1
      <4> QED BY <3>1, <4>1
    <3>2. CASE i # at + m
      <4>1. i \in at .. at + (m + 1) - 1 <=> i \in at .. at + m - 1
        BY <3>2
      <4>2. old[i] = IF i \in at .. at + m - 1 THEN lookup(q[i - at] % radix) ELSE b[i]
        BY <1>1
      <4> QED BY <3>2, <4>1, <4>2
    <3> QED BY <3>1, <3>2
  <2>4. new = [i \in 0 .. top |-> IF i \in at .. at + (m + 1) - 1 THEN lookup(q[i - at] % radix) ELSE b[i]]
    <3> HIDE DEF new, old
    <3> QED BY <2>2, <2>3
  <2>5. q[m + 1] = q[m] \div radix
    <3>1. m + 1 \in 1 .. WORD_BITS /\ m + 1 - 1 = m
      BY WidthAssumption
    <3> QED BY <3>1 DEF Quotients
  <2>6. at + m + 1 = at + (m + 1)
    OBVIOUS
  <2> HIDE DEF new
  <2>7. NextDigit(p, radix) = Half(b, top, at, q, radix, m + 1)
    BY <2>1, <2>4, <2>5, <2>6, Zenon DEF Half
  <2> QED BY <1>3, <2>7 DEF p
<1> QED BY <1>2, <1>3

\* The digits of v end up in the buffer, the last one first, and a Nul behind them.
LEMMA DigitsWritten ==
    ASSUME NEW v \in 0 .. Pow2[WORD_BITS] - 1, v # 0, NEW radix \in Bases,
           NEW q \in Quotients(v, radix), NEW len, Places(q, len),
           NEW top \in Nat, NEW at \in Nat, NEW b \in Buffers(top), at + len <= top
    PROVE  Digits(v, b, at, radix) =
               [i \in 0 .. top |-> IF i \in at .. at + len - 1 THEN lookup(q[i - at] % radix)
                                   ELSE IF i = at + len THEN Nul ELSE b[i]]
<1> USE DEF Bases, Buffers
<1> DEFINE n == WORD_BITS
           S == [value : Nat, at : Nat, buf : [0 .. top -> Nat]]
           first == [value |-> v, at |-> at, buf |-> b]
           Next1(p) == NextDigit(p, radix)
           step == [k \in 1 .. n |-> [p \in S |-> Next1(p)]]
           f == CHOOSE turn : turn = [k \in 0 .. n |-> IF k = 0 THEN first ELSE Next1(turn[k - 1])]
           Upto(k) == IF k <= len THEN k ELSE len
           State(m) == Half(b, top, at, q, radix, m)
<1>1. n \in Nat \ {0} /\ len \in 1 .. n /\ v \in Nat \ {0} /\ Pow2[n] \in Nat
  <2>1. WORD_BITS \in Nat \ {0} /\ WORD_BITS \in 0 .. WORD_BITS
    BY WidthAssumption
  <2>2. Pow2[WORD_BITS] \in Nat
    BY <2>1, Powers
  <2> QED BY <2>1, <2>2 DEF Places
<1>2. q[0] = v /\ q[len] = 0 /\ \A k \in 0 .. len - 1 : q[k] # 0
  BY <1>1 DEF Places, Quotients
<1>3. first \in S
  BY <1>1
<1>4. \A p \in S : Next1(p) \in S
  <2>1. ASSUME NEW p \in S PROVE Next1(p) \in S
    <3>1. p.value \in Nat /\ p.at \in Nat /\ p.buf \in [0 .. top -> Nat]
      OBVIOUS
    <3>2. p.value \div radix \in Nat /\ p.value % radix \in 0 .. 35
      <4>1. radix \in Nat \ {0}
        OBVIOUS
      <4>2. PICK a \in Nat, r \in 0 .. radix - 1 : a = p.value \div radix /\ r = p.value % radix
        BY <3>1, <4>1, Divided
      <4>3. r \in 0 .. 35
        OBVIOUS
      <4> QED BY <4>2, <4>3, Zenon
    <3>3. lookup(p.value % radix) \in Nat
      BY <3>2, LookupIs
    <3>4. [p.buf EXCEPT ![p.at] = lookup(p.value % radix)] \in [0 .. top -> Nat]
      BY <3>1, <3>3
    <3>5. p.at + 1 \in Nat
      BY <3>1
    <3> QED BY <3>2, <3>4, <3>5 DEF NextDigit
  <2> QED BY <2>1
<1>d. ASSUME NEW m \in 0 .. n - 1, at + m <= top
      PROVE  NextDigit(State(m), radix) = IF q[m] = 0 THEN State(m) ELSE State(m + 1)
  <2>1. v \in Nat
    BY <1>1
  <2> QED BY <1>d, <2>1, DigitStep, ZenonT(60)
<1> HIDE DEF S, Next1, first
<1>5. step \in Bodies(n, S)
  BY <1>4 DEF Bodies
<1>6. PICK g \in [0 .. n -> S] : g[0] = first /\ \A k \in 1 .. n : g[k] = step[k][g[k - 1]]
  <2> HIDE DEF step, n
  <2>1. PICK g : g \in Runs(n, S, first, step)
    BY <1>1, <1>3, <1>5, LoopExists
  <2> QED BY <2>1 DEF Runs
<1>7. g = [k \in 0 .. n |-> IF k = 0 THEN first ELSE Next1(g[k - 1])]
  <2>1. ASSUME NEW k \in 0 .. n, k # 0 PROVE g[k] = Next1(g[k - 1])
    <3>1. k \in 1 .. n /\ k - 1 \in 0 .. n
      BY <1>1, <2>1
    <3>2. g[k - 1] \in S
      BY <3>1
    <3> QED BY <1>6, <3>1, <3>2
  <2> QED BY <1>6, <2>1
<1>8. f = [k \in 0 .. n |-> IF k = 0 THEN first ELSE Next1(f[k - 1])]
  BY <1>7, Zenon
<1>9. Digits(v, b, at, radix) = [f[n].buf EXCEPT ![f[n].at] = Nul]
  BY Zenon DEF Digits, Next1, first, n
<1> HIDE DEF f
<1>10. \A k \in 0 .. n : f[k] = State(Upto(k))
  <2> DEFINE P == {k \in 0 .. n : f[k] = State(Upto(k))}
  <2>1. 0 \in P
    <3>1. State(0) = first
      <4>1. \A i \in 0 .. top : i \notin at .. at + 0 - 1
        OBVIOUS
      <4>2. b = [i \in 0 .. top |-> b[i]] /\ at + 0 = at
        OBVIOUS
      <4> QED BY <1>2, <4>1, <4>2 DEF Half, first
    <3>2. Upto(0) = 0 /\ f[0] = first
      BY <1>1, <1>8
    <3> HIDE DEF State, Upto
    <3> QED BY <1>1, <3>1, <3>2
  <2>2. ASSUME NEW k \in 1 .. n, k - 1 \in P PROVE k \in P
    <3>1. f[k] = Next1(f[k - 1]) /\ k \in 0 .. n
      BY <1>1, <1>8
    <3>2. f[k - 1] = State(Upto(k - 1))
      BY <2>2
    <3>3. CASE k - 1 < len
      <4>1. Upto(k - 1) = k - 1 /\ Upto(k) = k /\ k - 1 \in 0 .. n - 1 /\ at + (k - 1) <= top
            /\ q[k - 1] # 0 /\ k - 1 + 1 = k
        BY <1>1, <1>2, <3>3
      <4>2. \A m \in 0 .. n - 1 : at + m <= top /\ q[m] # 0 => NextDigit(State(m), radix) = State(m + 1)
        <5> HIDE DEF State, Upto
        <5> QED BY <1>d
      <4>3. NextDigit(State(k - 1), radix) = State(k - 1 + 1)
        <5> HIDE DEF State, Upto
        <5> QED BY <4>1, <4>2
      <4> HIDE DEF State, Upto
      <4> QED BY <3>1, <3>2, <4>1, <4>3 DEF Next1
    <3>4. CASE ~(k - 1 < len)
      <4>1. Upto(k - 1) = len /\ Upto(k) = len /\ len \in 0 .. n - 1
        BY <1>1, <3>4
      <4>2. \A m \in 0 .. n - 1 : at + m <= top /\ q[m] = 0 => NextDigit(State(m), radix) = State(m)
        <5> HIDE DEF State, Upto
        <5> QED BY <1>d
      <4>3. NextDigit(State(len), radix) = State(len)
        <5> HIDE DEF State, Upto
        <5> QED BY <1>2, <4>1, <4>2
      <4> HIDE DEF State, Upto
      <4> QED BY <3>1, <3>2, <4>1, <4>3 DEF Next1
    <3> QED BY <3>3, <3>4
  <2>3. \A k \in 0 .. n : k \in P
    <3> HIDE DEF P
    <3> QED BY <1>1, <2>1, <2>2, Turns, Zenon
  <2> QED BY <2>3
<1>11. f[n] = State(len)
  <2>1. n \in 0 .. n /\ Upto(n) = len
    BY <1>1
  <2> HIDE DEF State, Upto
  <2> QED BY <1>10, <2>1
<1>12. f[n].at = at + len
       /\ f[n].buf = [i \in 0 .. top |-> IF i \in at .. at + len - 1 THEN lookup(q[i - at] % radix) ELSE b[i]]
  BY <1>11 DEF Half
<1> DEFINE c == f[n].buf
<1>13. [c EXCEPT ![at + len] = Nul] = [i \in 0 .. top |-> IF i = at + len THEN Nul ELSE c[i]]
  BY <1>12
<1>14. ASSUME NEW i \in 0 .. top
       PROVE  (IF i = at + len THEN Nul ELSE c[i])
              = IF i \in at .. at + len - 1 THEN lookup(q[i - at] % radix)
                ELSE IF i = at + len THEN Nul ELSE b[i]
  <2>1. c[i] = IF i \in at .. at + len - 1 THEN lookup(q[i - at] % radix) ELSE b[i]
    BY <1>12
  <2>2. i = at + len => ~(i \in at .. at + len - 1)
    BY <1>1
  <2> HIDE DEF c
  <2> QED BY <2>1, <2>2
<1>15. Digits(v, b, at, radix) = [i \in 0 .. top |-> IF i = at + len THEN Nul ELSE c[i]]
  BY <1>9, <1>12, <1>13
<1> HIDE DEF c
<1> QED BY <1>14, <1>15

\* A text of bytes other than Nul, in a buffer, is the string there.
LEMMA SpelledIs ==
    ASSUME NEW top \in Nat, NEW at \in Nat, NEW b \in Buffers(top), NEW n \in Nat, at + n <= top,
           NEW text \in Seq(Nat), Len(text) = n, \A i \in 1 .. n : text[i] # Nul
    PROVE  /\ StringAt(Spelled(b, top, at, text), top, at, n)
           /\ strlen(Spelled(b, top, at, text), at) = n
           /\ Text(Spelled(b, top, at, text), at) = text
<1> DEFINE c == Spelled(b, top, at, text)
<1> USE DEF Bases, Buffers
<1>1. c = [i \in 0 .. top |-> IF i \in at .. at + n - 1 THEN text[i - at + 1]
                              ELSE IF i = at + n THEN Nul ELSE b[i]]
  BY DEF Spelled
<1> HIDE DEF c
<1>2. ASSUME NEW i \in 0 .. n - 1 PROVE c[at + i] = text[i + 1] /\ c[at + i] # Nul
  <2>1. at + i \in 0 .. top /\ at + i \in at .. at + n - 1 /\ at + i - at + 1 = i + 1 /\ i + 1 \in 1 .. n
    OBVIOUS
  <2>2. c[at + i] = text[at + i - at + 1]
    BY <1>1, <2>1
  <2> QED BY <2>1, <2>2
<1>3. c[at + n] = Nul
  BY <1>1
<1>4. c \in [0 .. top -> Nat]
  <2>1. ASSUME NEW i \in 0 .. top PROVE c[i] \in Nat
    <3>1. CASE i \in at .. at + n - 1
      <4>1. i - at + 1 \in 1 .. n /\ c[i] = text[i - at + 1]
        BY <1>1, <3>1
      <4> QED BY <4>1
    <3>2. CASE i \notin at .. at + n - 1
      BY <1>1, <3>2 DEF Nul
    <3> QED BY <3>1, <3>2
  <2>2. c = [i \in 0 .. top |-> c[i]]
    BY <1>1
  <2> QED BY <2>1, <2>2
<1>5. StringAt(c, top, at, n)
  BY <1>2, <1>3, <1>4 DEF StringAt
<1>6. strlen(c, at) = n
  BY <1>5, StrlenIs
<1>7. Text(c, at) = text
  <2>1. Text(c, at) = [i \in 1 .. n |-> c[at + i - 1]]
    BY <1>6 DEF Text
  <2>2. ASSUME NEW i \in 1 .. n PROVE c[at + i - 1] = text[i]
    <3>1. i - 1 \in 0 .. n - 1 /\ at + (i - 1) = at + i - 1 /\ i - 1 + 1 = i
      OBVIOUS
    <3> QED BY <1>2, <3>1
  <2>3. text = [i \in 1 .. n |-> text[i]]
    OBVIOUS
  <2> QED BY <2>1, <2>2, <2>3
<1> QED BY <1>5, <1>6, <1>7 DEF c

\* itoa writes the digits of any number of a word, the first one first, whatever the
\* buffer holds (lib.c:426-475).
LEMMA ItoaSpells ==
    ASSUME NEW v \in 0 .. Pow2[WORD_BITS] - 1, NEW radix \in Bases,
           NEW q \in Quotients(v, radix), NEW len, Places(q, len),
           NEW top \in Nat, NEW at \in Nat, NEW b \in Buffers(top), at + len <= top
    PROVE  itoa(v, b, at, radix) = Spelled(b, top, at, DigitsText(q, len, radix))
<1> DEFINE t == DigitsText(q, len, radix)
           s == Spelled(b, top, at, t)
<1> SUFFICES itoa(v, b, at, radix) = s
  OBVIOUS
<1>1. WORD_BITS \in Nat \ {0} /\ len \in 1 .. WORD_BITS /\ len \in Nat
  BY WidthAssumption DEF Places
<1>2. v \in Nat /\ q[0] = v
  <2>1. Pow2[WORD_BITS] \in Nat
    <3>1. WORD_BITS \in 0 .. WORD_BITS
      BY <1>1
    <3> QED BY <3>1, Powers
  <2> QED BY <2>1 DEF Quotients
<1>3. /\ t \in Seq(Nat) /\ Len(t) = len
      /\ \A i \in 1 .. len : t[i] = lookup(q[len - i] % radix) /\ t[i] # Nul
  <2>1. len \in 1 .. WORD_BITS /\ v \in Nat
    BY <1>1, <1>2
  <2> QED BY <2>1, TextTyped
<1> HIDE DEF t
<1>d. v # 0 => Digits(v, b, at, radix) =
                   [i \in 0 .. top |-> IF i \in at .. at + len - 1 THEN lookup(q[i - at] % radix)
                                       ELSE IF i = at + len THEN Nul ELSE b[i]]
  BY DigitsWritten
<1> USE DEF Bases, Buffers
<1>4. s = [i \in 0 .. top |-> IF i \in at .. at + len - 1 THEN t[i - at + 1]
                              ELSE IF i = at + len THEN Nul ELSE b[i]]
  BY <1>3 DEF Spelled
<1> HIDE DEF s
<1>5. CASE v = 0
  <2>1. len = 1
    BY <1>2, <1>5 DEF Places
  <2>2. t[1] = lookup(0)
    <3>1. q[1 - 1] % radix = 0
      BY <1>2, <1>5
    <3> QED BY <1>3, <2>1, <3>1
  <2>3. itoa(v, b, at, radix) = [b EXCEPT ![at] = lookup(0), ![at + 1] = Nul]
    BY <1>5 DEF itoa
  <2> DEFINE z == lookup(0)
  <2> HIDE DEF z
  <2>4. [b EXCEPT ![at] = z, ![at + 1] = Nul]
        = [i \in 0 .. top |-> IF i = at + 1 THEN Nul ELSE IF i = at THEN z ELSE b[i]]
    BY <2>1
  <2>5. ASSUME NEW i \in 0 .. top
        PROVE  (IF i = at + 1 THEN Nul ELSE IF i = at THEN z ELSE b[i])
               = IF i \in at .. at + len - 1 THEN t[i - at + 1] ELSE IF i = at + len THEN Nul ELSE b[i]
    <3>1. CASE i = at
      <4>1. i \in at .. at + len - 1 /\ i - at + 1 = 1 /\ i # at + 1
        BY <2>1, <3>1
      <4> QED BY <2>2, <3>1, <4>1 DEF z
    <3>2. CASE i # at
      <4>1. i \notin at .. at + len - 1 /\ at + len = at + 1
        BY <2>1, <3>2
      <4> QED BY <3>2, <4>1
    <3> QED BY <3>1, <3>2
  <2>6. itoa(v, b, at, radix)
        = [i \in 0 .. top |-> IF i = at + 1 THEN Nul ELSE IF i = at THEN z ELSE b[i]]
    BY <2>3, <2>4 DEF z
  <2> QED BY <1>4, <2>5, <2>6
<1>6. CASE v # 0
  <2> DEFINE c == Digits(v, b, at, radix)
  <2>1. c = [i \in 0 .. top |-> IF i \in at .. at + len - 1 THEN lookup(q[i - at] % radix)
                                ELSE IF i = at + len THEN Nul ELSE b[i]]
    BY <1>6, <1>d
  <2> HIDE DEF c
  <2>2. ASSUME NEW i \in at .. at + len - 1
        PROVE  c[i] = lookup(q[i - at] % radix) /\ c[i] \in Nat /\ c[i] # Nul
    <3>1. i \in 0 .. top /\ i - at \in 0 .. WORD_BITS
      BY <1>1
    <3>2. lookup(q[i - at] % radix) \in Nat /\ lookup(q[i - at] % radix) # Nul
      BY <1>2, <3>1, DigitOf
    <3> QED BY <2>1, <3>1, <3>2
  <2>3. StringAt(c, top, at, len)
    <3>1. ASSUME NEW i \in 0 .. top PROVE c[i] \in Nat
      <4>1. CASE i \in at .. at + len - 1
        BY <2>2, <4>1
      <4>2. CASE i \notin at .. at + len - 1
        BY <2>1, <4>2 DEF Nul
      <4> QED BY <4>1, <4>2
    <3>2. c \in [0 .. top -> Nat]
      <4>1. c = [i \in 0 .. top |-> c[i]]
        BY <2>1
      <4> QED BY <3>1, <4>1
    <3>3. c[at + len] = Nul
      BY <1>1, <2>1
    <3>4. \A i \in 0 .. len - 1 : c[at + i] # Nul
      <4>1. ASSUME NEW i \in 0 .. len - 1 PROVE c[at + i] # Nul
        <5>1. at + i \in at .. at + len - 1
          BY <1>1
        <5> QED BY <2>2, <5>1
      <4> QED BY <4>1
    <3> QED BY <3>2, <3>3, <3>4 DEF StringAt
  <2>4. strrev(c, at) = [i \in 0 .. top |-> IF i \in at .. at + len - 1
                                            THEN c[2 * at + len - 1 - i] ELSE c[i]]
    BY <1>1, <2>3, StrrevReverses
  <2>5. itoa(v, b, at, radix) = strrev(c, at)
    BY <1>6 DEF itoa, c
  <2>6. ASSUME NEW i \in 0 .. top
        PROVE  (IF i \in at .. at + len - 1 THEN c[2 * at + len - 1 - i] ELSE c[i])
               = IF i \in at .. at + len - 1 THEN t[i - at + 1] ELSE IF i = at + len THEN Nul ELSE b[i]
    <3>1. CASE i \in at .. at + len - 1
      <4>1. /\ 2 * at + len - 1 - i \in at .. at + len - 1
            /\ 2 * at + len - 1 - i - at = len - (i - at + 1) /\ i - at + 1 \in 1 .. len
        BY <1>1, <3>1
      <4>2. PICK m \in at .. at + len - 1 : m = 2 * at + len - 1 - i
        BY <4>1
      <4>4. c[m] = lookup(q[m - at] % radix)
        BY <2>2
      <4>3. t[i - at + 1] = lookup(q[len - (i - at + 1)] % radix)
        BY <1>3, <4>1
      <4>5. m - at = len - (i - at + 1)
        BY <1>1, <4>2
      <4>6. c[m] = t[i - at + 1]
        BY <4>3, <4>4, <4>5, Zenon
      <4> QED BY <3>1, <4>2, <4>6, Zenon
    <3>2. CASE i \notin at .. at + len - 1
      BY <2>1, <3>2
    <3> QED BY <3>1, <3>2
  <2> QED BY <1>4, <2>4, <2>5, <2>6
<1> QED BY <1>5, <1>6

\* The value of the digits is the number.
LEMMA ValueOf ==
    ASSUME NEW v \in Nat, NEW radix \in Bases, NEW q \in Quotients(v, radix),
           NEW len \in 1 .. WORD_BITS, q[len] = 0
    PROVE  Value(DigitsText(q, len, radix), radix) = v
<1> DEFINE t == DigitsText(q, len, radix)
           Next1(k, p) == radix * p + Digit(t[k])
           step == [k \in 1 .. len |-> [p \in Nat |-> Next1(k, p)]]
           f == CHOOSE f : f = [i \in 0 .. len |-> IF i = 0 THEN 0 ELSE Next1(i, f[i - 1])]
<1>0. WORD_BITS \in Nat \ {0} /\ len \in Nat \ {0}
  BY WidthAssumption
<1>1. Len(t) = len /\ \A i \in 1 .. len : t[i] = lookup(q[len - i] % radix)
  BY <1>0, TextTyped
<1> HIDE DEF t
<1>2. ASSUME NEW k \in 1 .. len
      PROVE  Digit(t[k]) = q[len - k] % radix /\ Digit(t[k]) \in Nat /\ q[len - k] \in Nat
  <2>1. len - k \in 0 .. WORD_BITS
    BY <1>0
  <2>2. q[len - k] % radix \in Nat /\ q[len - k] \in Nat
        /\ Digit(lookup(q[len - k] % radix)) = q[len - k] % radix
    BY <2>1, DigitOf
  <2> QED BY <1>1, <2>2
<1> USE DEF Bases
<1>3. step \in Bodies(len, Nat)
  <2>1. \A k \in 1 .. len, p \in Nat : Next1(k, p) \in Nat
    BY <1>2
  <2> HIDE DEF Next1
  <2> QED BY <2>1 DEF Bodies
<1> HIDE DEF Next1
<1>4. PICK g \in [0 .. len -> Nat] : g[0] = 0 /\ \A k \in 1 .. len : g[k] = step[k][g[k - 1]]
  <2> HIDE DEF step
  <2>1. PICK g : g \in Runs(len, Nat, 0, step)
    <3>1. len \in Nat /\ 0 \in Nat
      BY <1>0
    <3> QED BY <1>3, <3>1, LoopExists, Zenon
  <2> QED BY <2>1 DEF Runs
<1>5. g = [k \in 0 .. len |-> IF k = 0 THEN 0 ELSE Next1(k, g[k - 1])]
  <2>1. ASSUME NEW k \in 0 .. len, k # 0 PROVE g[k] = Next1(k, g[k - 1])
    <3>1. k \in 1 .. len /\ k - 1 \in 0 .. len
      BY <1>0, <2>1
    <3>2. g[k - 1] \in Nat
      BY <3>1
    <3> QED BY <1>4, <3>1, <3>2
  <2> QED BY <1>4, <2>1
<1>6. f = [i \in 0 .. len |-> IF i = 0 THEN 0 ELSE Next1(i, f[i - 1])]
  BY <1>5, Zenon
<1>7. Value(t, radix) = f[len]
  BY <1>1, Zenon DEF Value, Next1
<1> HIDE DEF f
<1>8. \A k \in 0 .. len : f[k] = q[len - k]
  <2> DEFINE P == {k \in 0 .. len : f[k] = q[len - k]}
  <2>1. 0 \in P
    <3>1. f[0] = 0 /\ len - 0 = len /\ 0 \in 0 .. len
      BY <1>0, <1>6
    <3> QED BY <3>1
  <2>2. ASSUME NEW k \in 1 .. len, k - 1 \in P PROVE k \in P
    <3>1. f[k] = Next1(k, f[k - 1]) /\ k \in 0 .. len
      BY <1>0, <1>6
    <3>2. PICK m \in 0 .. WORD_BITS : m = len - k /\ m + 1 = len - (k - 1) /\ m + 1 \in 1 .. WORD_BITS
      BY <1>0
    <3>3. f[k - 1] = q[m + 1]
      BY <2>2, <3>2
    <3>4. q[m + 1] = q[m] \div radix /\ q[m] \in Nat
      BY <3>2, SMTT(40) DEF Quotients
    <3>5. PICK a \in Nat, r \in 0 .. radix - 1 : a = q[m] \div radix /\ r = q[m] % radix /\ q[m] = a * radix + r
      <4>1. radix \in Nat \ {0}
        OBVIOUS
      <4> QED BY <3>4, <4>1, Divided
    <3>6. Next1(k, f[k - 1]) = radix * a + r
      BY <1>2, <3>2, <3>3, <3>4, <3>5 DEF Next1
    <3>7. radix * a + r = q[m]
      BY <3>5
    <3> QED BY <3>1, <3>2, <3>6, <3>7
  <2>3. \A k \in 0 .. len : k \in P
    <3> HIDE DEF P
    <3> QED BY <1>0, <2>1, <2>2, Turns, Zenon
  <2> QED BY <2>3
<1>9. f[len] = q[0]
  <2>1. len \in 0 .. len /\ len - len = 0
    BY <1>0
  <2> QED BY <1>8, <2>1
<1> QED BY <1>7, <1>9 DEF Quotients, t

WordValues == 0 .. Pow2[WORD_BITS] - 1

\* Words, the buffer they are converted in, and the bases used.
LEMMA WordsAre == /\ WORD_BITS \in Nat \ {0} /\ Pow2[WORD_BITS] \in Nat \ {0} /\ WordValues \subseteq Nat
                  /\ conv_buf \in Buffers(2 * WORD_BITS) /\ DOMAIN conv_buf = 0 .. 2 * WORD_BITS
                  /\ 10 \in Bases /\ 16 \in Bases
<1>1. WORD_BITS \in Nat \ {0} /\ WORD_BITS \in 0 .. WORD_BITS
  BY WidthAssumption
<1>2. Pow2[WORD_BITS] \in Nat \ {0}
  BY <1>1, Powers
<1>3. conv_buf \in Buffers(2 * WORD_BITS) /\ DOMAIN conv_buf = 0 .. 2 * WORD_BITS
  BY DEF conv_buf, Buffers, Hash
<1> QED BY <1>1, <1>2, <1>3 DEF WordValues, Bases

\* What the digits of a number say.
Says(text, v, radix) ==
    /\ text \in Seq(Nat) /\ Len(text) \in 1 .. WORD_BITS
    /\ \A i \in 1 .. Len(text) : text[i] # Nul
    /\ Value(text, radix) = v /\ NoLeadingZero(text)

\* The digits of a word have its value and no leading zero.
LEMMA DigitsSay ==
    ASSUME NEW v \in WordValues, NEW radix \in Bases, NEW q \in Quotients(v, radix), NEW len, Places(q, len)
    PROVE  Says(DigitsText(q, len, radix), v, radix) /\ Len(DigitsText(q, len, radix)) = len
<1> DEFINE t == DigitsText(q, len, radix)
<1>1. v \in Nat /\ WORD_BITS \in Nat /\ len \in 1 .. WORD_BITS /\ q[len] = 0
  BY WordsAre DEF Places
<1>2. /\ t \in Seq(Nat) /\ Len(t) = len
      /\ \A i \in 1 .. len : t[i] = lookup(q[len - i] % radix) /\ t[i] # Nul
  BY <1>1, TextTyped
<1>3. Value(t, radix) = v
  BY <1>1, ValueOf
<1>4. PICK m \in 0 .. WORD_BITS : m = len - 1 /\ m + 1 \in 1 .. WORD_BITS /\ m + 1 = len
  BY <1>1
<1>5. Digit(t[1]) = q[m] % radix /\ q[m] \in Nat
  <2>1. Digit(lookup(q[m] % radix)) = q[m] % radix /\ q[m] \in Nat
    BY <1>1, DigitOf
  <2>2. t[1] = lookup(q[m] % radix)
    BY <1>1, <1>2, <1>4
  <2> QED BY <2>1, <2>2
<1>6. q[m] % radix = 0 => q[m] = 0
  <2>1. q[m] \div radix = 0
    <3>1. \A k \in 1 .. WORD_BITS : q[k] = q[k - 1] \div radix
      BY DEF Quotients
    <3> QED BY <1>1, <1>4, <3>1
  <2>2. radix \in Nat \ {0}
    BY DEF Bases
  <2>3. PICK a \in Nat, r \in 0 .. radix - 1 : a = q[m] \div radix /\ r = q[m] % radix /\ q[m] = a * radix + r
    BY <1>5, <2>2, Divided
  <2>4. a = 0 => a * radix = 0
    BY <2>2
  <2> QED BY <2>1, <2>2, <2>3, <2>4
<1>7. q[m] = 0 => len = 1
  BY <1>1, <1>4 DEF Places
<1>8. NoLeadingZero(t)
  <2> HIDE DEF t
  <2> QED BY <1>1, <1>2, <1>5, <1>6, <1>7 DEF NoLeadingZero
<1> HIDE DEF t
<1> QED BY <1>1, <1>2, <1>3, <1>8 DEF Says, t

\* For every number there are digits that itoa writes, wherever it does.
Writes(text, v, radix) ==
    \A top \in Nat, at \in Nat : \A b \in Buffers(top) :
        at + Len(text) <= top => itoa(v, b, at, radix) = Spelled(b, top, at, text)

\* And are what itoa writes.
LEMMA DigitsWrite ==
    ASSUME NEW v \in WordValues, NEW radix \in Bases, NEW q \in Quotients(v, radix), NEW len, Places(q, len)
    PROVE  Writes(DigitsText(q, len, radix), v, radix)
<1>1. Len(DigitsText(q, len, radix)) = len
  BY DigitsSay
<1>2. ASSUME NEW top \in Nat, NEW at \in Nat, NEW b \in Buffers(top),
             at + Len(DigitsText(q, len, radix)) <= top
      PROVE  itoa(v, b, at, radix) = Spelled(b, top, at, DigitsText(q, len, radix))
  <2>1. at + len <= top /\ v \in 0 .. Pow2[WORD_BITS] - 1
    BY <1>1, <1>2 DEF WordValues
  <2> QED BY <2>1, ItoaSpells
<1> QED BY <1>2 DEF Writes

\* So there is a text that says a word and that itoa writes.
LEMMA TextExists ==
    ASSUME NEW v \in WordValues, NEW radix \in Bases
    PROVE  \E text : Says(text, v, radix) /\ Writes(text, v, radix)
<1>1. v \in Nat /\ v \in 0 .. Pow2[WORD_BITS] - 1 /\ radix \in Nat /\ radix >= 2 /\ radix \in Nat \ {0}
  BY WordsAre DEF Bases, WordValues
<1>2. PICK q : q \in Quotients(v, radix)
  BY <1>1, QuotientsExist
<1>3. PICK len : Places(q, len)
  BY <1>1, <1>2, PlacesExist
<1>4. /\ Says(DigitsText(q, len, radix), v, radix)
      /\ Writes(DigitsText(q, len, radix), v, radix)
  BY <1>2, <1>3, DigitsSay, DigitsWrite
<1> QED BY <1>4

\* In conv_buf there is room for them, at 0 and at 1.
LEMMA TextPrinted ==
    ASSUME NEW v \in WordValues, NEW radix \in Bases, NEW text, Says(text, v, radix), Writes(text, v, radix),
           NEW at \in 0 .. WORD_BITS, NEW b \in Buffers(2 * WORD_BITS)
    PROVE  /\ itoa(v, b, at, radix) = Spelled(b, 2 * WORD_BITS, at, text)
           /\ strlen(itoa(v, b, at, radix), at) = Len(text)
           /\ Text(itoa(v, b, at, radix), at) = text
<1>1. /\ text \in Seq(Nat) /\ Len(text) \in 1 .. WORD_BITS /\ WORD_BITS \in Nat
      /\ \A i \in 1 .. Len(text) : text[i] # Nul
  BY WordsAre DEF Says
<1>2. PICK n \in Nat : n = Len(text) /\ n \in 1 .. WORD_BITS
  BY <1>1
<1>3. PICK top \in Nat : top = 2 * WORD_BITS
  BY <1>1
<1>4. at \in Nat /\ at + n <= top
  BY <1>1, <1>2, <1>3
<1>5. itoa(v, b, at, radix) = Spelled(b, top, at, text)
  BY <1>2, <1>3, <1>4 DEF Writes
<1>6. /\ strlen(Spelled(b, top, at, text), at) = n
      /\ Text(Spelled(b, top, at, text), at) = text
  BY <1>1, <1>2, <1>3, <1>4, SpelledIs
<1> QED BY <1>2, <1>3, <1>5, <1>6

\* Every number of a word prints as itself, in shortest form, in hexadecimal and in
\* decimal (lib.c:85-193, 426-475).
THEOREM NumbersPrint ==
    ASSUME NEW v \in WordValues
    PROVE  Says(Hex(v), v, 16) /\ Says(Unsigned(v), v, 10)
<1>1. PICK t : Says(t, v, 16) /\ Writes(t, v, 16)
  BY WordsAre, TextExists
<1>2. PICK u : Says(u, v, 10) /\ Writes(u, v, 10)
  BY WordsAre, TextExists
<1>0. 0 \in 0 .. WORD_BITS /\ conv_buf \in Buffers(2 * WORD_BITS) /\ 10 \in Bases /\ 16 \in Bases
  BY WordsAre
<1>3. Text(itoa(v, conv_buf, 0, 16), 0) = t
  BY <1>0, <1>1, TextPrinted, Zenon
<1>4. Text(itoa(v, conv_buf, 0, 10), 0) = u
  BY <1>0, <1>2, TextPrinted, Zenon
<1> QED BY <1>1, <1>2, <1>3, <1>4 DEF Hex, Unsigned

\* A copy of a number's digits is the digits (lib.c:665-693).
LEMMA DecimalCopied ==
    ASSUME NEW v \in WordValues
    PROVE  strcpy(conv_buf, itoa(v, conv_buf, 0, 10)) = itoa(v, conv_buf, 0, 10)
<1> DEFINE d == itoa(v, conv_buf, 0, 10)
<1>1. PICK u : Says(u, v, 10) /\ Writes(u, v, 10)
  BY WordsAre, TextExists
<1>0. 0 \in 0 .. WORD_BITS /\ conv_buf \in Buffers(2 * WORD_BITS) /\ 10 \in Bases
      /\ DOMAIN conv_buf = 0 .. 2 * WORD_BITS
  BY WordsAre
<1>2. d = Spelled(conv_buf, 2 * WORD_BITS, 0, u) /\ strlen(d, 0) = Len(u)
  BY <1>0, <1>1, TextPrinted
<1>3. PICK n \in Nat : n = Len(u) /\ n >= 1
  BY <1>1, WordsAre DEF Says
<1>4. d = [i \in 0 .. 2 * WORD_BITS |-> IF i \in 0 .. 0 + n - 1 THEN u[i - 0 + 1]
                                        ELSE IF i = 0 + n THEN Nul ELSE conv_buf[i]]
  BY <1>2, <1>3 DEF Spelled
<1>5. strcpy(conv_buf, d) = [i \in 0 .. 2 * WORD_BITS |-> IF i <= n THEN d[i] ELSE conv_buf[i]]
  BY <1>0, <1>2, <1>3 DEF strcpy
<1> HIDE DEF d
<1>6. ASSUME NEW i \in 0 .. 2 * WORD_BITS
      PROVE  (IF i <= n THEN d[i] ELSE conv_buf[i]) = d[i]
  <2>1. CASE i > n
    <3>1. i \notin 0 .. 0 + n - 1 /\ i # 0 + n /\ ~(i <= n)
      BY <1>3, <2>1
    <3> QED BY <1>4, <3>1
  <2>2. CASE i <= n
    BY <2>2
  <2> QED BY <1>3, <2>1, <2>2, WordsAre
<1>7. d = [i \in 0 .. 2 * WORD_BITS |-> d[i]]
  BY <1>4
<1>8. strcpy(conv_buf, d) = d
  BY <1>5, <1>6, <1>7
<1> QED BY <1>8 DEF d

\* A negative number prints as a minus sign and its absolute value, the most negative one
\* too (lib.c:150-167).
THEOREM NegativesPrint ==
    ASSUME NEW v \in WordValues, ~(v < Pow2[WORD_BITS - 1])
    PROVE  Pow2[WORD_BITS] - v \in WordValues /\ Signed(v) = <<Minus>> \o Unsigned(Pow2[WORD_BITS] - v)
<1> DEFINE n == WORD_BITS
           top == 2 * n
           c == [conv_buf EXCEPT ![0] = Minus]
<1>0. /\ n \in Nat \ {0} /\ Pow2[n] \in Nat \ {0} /\ WordValues \subseteq Nat
      /\ conv_buf \in Buffers(2 * n) /\ 10 \in Bases /\ top \in Nat
  BY WordsAre
<1>1. PICK w \in WordValues : w = Pow2[n] - v
  <2>1. n - 1 \in 0 .. n
    BY <1>0
  <2>2. Pow2[n - 1] \in Nat \ {0}
    BY <2>1, Powers
  <2>3. v \in Nat /\ v <= Pow2[n] - 1
    BY <1>0 DEF WordValues
  <2>4. Pow2[n] - v \in 0 .. Pow2[n] - 1
    BY <1>0, <2>2, <2>3
  <2> QED BY <2>4 DEF WordValues
<1>2. PICK u : Says(u, w, 10) /\ Writes(u, w, 10)
  BY <1>0, TextExists
<1>3. Unsigned(w) = u
  <2>1. 0 \in 0 .. WORD_BITS
    BY <1>0
  <2>2. Text(itoa(w, conv_buf, 0, 10), 0) = u
    BY <1>0, <1>2, <2>1, TextPrinted, Zenon
  <2> QED BY <2>2 DEF Unsigned
<1>4. c \in Buffers(2 * n)
  BY <1>0 DEF Buffers, Minus
<1>5. itoa(w, c, 1, 10) = Spelled(c, top, 1, u)
  <2>1. 1 \in 0 .. WORD_BITS
    BY <1>0
  <2> HIDE DEF c
  <2> QED BY <1>0, <1>2, <1>4, <2>1, TextPrinted
<1>6. /\ u \in Seq(Nat) /\ Len(u) \in 1 .. n /\ \A i \in 1 .. Len(u) : u[i] # Nul
  BY <1>2 DEF Says
<1>7. PICK l \in Nat : l = Len(u) /\ l \in 1 .. n
  BY <1>6
<1> DEFINE s == <<Minus>> \o u
<1>8. /\ s \in Seq(Nat) /\ Len(s) = l + 1 /\ s[1] = Minus
      /\ \A i \in 1 .. l : s[i + 1] = u[i]
  <2>1. <<Minus>> \in Seq(Nat) /\ Len(<<Minus>>) = 1
    BY DEF Minus
  <2> QED BY <1>6, <1>7, <2>1
<1>9. \A i \in 1 .. l + 1 : s[i] # Nul
  <2>1. ASSUME NEW i \in 1 .. l + 1 PROVE s[i] # Nul
    <3>1. CASE i = 1
      BY <1>8, <3>1 DEF Minus, Nul
    <3>2. CASE i # 1
      <4>1. PICK j \in 1 .. l : i = j + 1
        BY <3>2
      <4> HIDE DEF s
      <4> QED BY <1>6, <1>7, <1>8, <4>1
    <3> QED BY <3>1, <3>2
  <2> QED BY <2>1
<1> HIDE DEF s
<1>10. Spelled(c, top, 1, u) = Spelled(c, top, 0, s)
  <2>1. Spelled(c, top, 1, u) = [i \in 0 .. top |-> IF i \in 1 .. 1 + l - 1 THEN u[i - 1 + 1]
                                                    ELSE IF i = 1 + l THEN Nul ELSE c[i]]
    BY <1>7 DEF Spelled
  <2>2. Spelled(c, top, 0, s) = [i \in 0 .. top |-> IF i \in 0 .. 0 + (l + 1) - 1 THEN s[i - 0 + 1]
                                                    ELSE IF i = 0 + (l + 1) THEN Nul ELSE c[i]]
    BY <1>8 DEF Spelled
  <2>3. ASSUME NEW i \in 0 .. top
        PROVE  (IF i \in 1 .. 1 + l - 1 THEN u[i - 1 + 1] ELSE IF i = 1 + l THEN Nul ELSE c[i])
               = IF i \in 0 .. 0 + (l + 1) - 1 THEN s[i - 0 + 1] ELSE IF i = 0 + (l + 1) THEN Nul ELSE c[i]
    <3>1. CASE i = 0
      <4>1. c[0] = Minus
        BY <1>0 DEF Buffers
      <4>2. i \notin 1 .. 1 + l - 1 /\ i # 1 + l /\ i \in 0 .. 0 + (l + 1) - 1 /\ i - 0 + 1 = 1
        BY <3>1
      <4> HIDE DEF c
      <4> QED BY <1>8, <3>1, <4>1, <4>2
    <3>2. CASE i \in 1 .. l
      <4>1. i \in 1 .. 1 + l - 1 /\ i - 1 + 1 = i /\ i \in 0 .. 0 + (l + 1) - 1 /\ i - 0 + 1 = i + 1
        BY <3>2
      <4> HIDE DEF c
      <4> QED BY <1>8, <3>2, <4>1
    <3>3. CASE i > l
      <4>1. i \notin 1 .. 1 + l - 1 /\ i \notin 0 .. 0 + (l + 1) - 1 /\ 0 + (l + 1) = 1 + l
        BY <3>3
      <4> HIDE DEF c
      <4> QED BY <4>1
    <3> QED BY <1>0, <3>1, <3>2, <3>3
  <2> HIDE DEF c
  <2> QED BY <2>1, <2>2, <2>3
<1>11. Text(Spelled(c, top, 0, s), 0) = s
  <2>1. l + 1 \in Nat /\ 0 + (l + 1) <= top /\ 0 \in Nat
    BY <1>0, <1>7
  <2> HIDE DEF c, top
  <2> QED BY <1>0, <1>4, <1>8, <1>9, <2>1, SpelledIs DEF top
<1>12. Signed(v) = s
  <2>1. Signed(v) = Text(itoa(w, c, 1, 10), 0)
    BY <1>1 DEF Signed
  <2> QED BY <1>5, <1>10, <1>11, <2>1
<1> QED BY <1>1, <1>3, <1>12 DEF s

\* After the last digit nothing but zeros comes.
LEMMA ZerosOn ==
    ASSUME NEW v \in Nat, NEW radix \in Bases, NEW q \in Quotients(v, radix),
           NEW len \in 0 .. WORD_BITS, q[len] = 0
    PROVE  \A k \in len .. WORD_BITS : q[k] = 0
<1> DEFINE n == WORD_BITS - len
           P == {j \in 0 .. n : q[len + j] = 0}
<1>0. WORD_BITS \in Nat /\ n \in Nat /\ radix \in Nat \ {0} /\ radix >= 2
  BY WordsAre DEF Bases
<1>1. 0 \in P
  BY <1>0
<1>2. ASSUME NEW j \in 1 .. n, j - 1 \in P PROVE j \in P
  <2>1. PICK k \in 1 .. WORD_BITS : k = len + j /\ k - 1 = len + (j - 1)
    BY <1>0
  <2>2. q[k] = 0 \div radix
    BY <1>2, <2>1 DEF Quotients
  <2>3. PICK a \in Nat, r \in 0 .. radix - 1 : a = 0 \div radix /\ 0 = a * radix + r
    BY <1>0, Divided
  <2>4. a * radix >= 2 * a
    BY <1>0
  <2>5. PICK z \in Int : z = a * radix
    BY <1>0
  <2>6. a = 0
    BY <2>3, <2>4, <2>5
  <2> QED BY <1>0, <2>1, <2>2, <2>3, <2>6
<1>3. \A j \in 0 .. n : j \in P
  <2> HIDE DEF P, n
  <2> QED BY <1>0, <1>1, <1>2, Turns, Zenon
<1>4. ASSUME NEW k \in len .. WORD_BITS PROVE q[k] = 0
  <2>1. k - len \in 0 .. n /\ len + (k - len) = k
    BY <1>0
  <2> QED BY <1>3, <2>1
<1> QED BY <1>4

\* With '#' a number prints as all its hexadecimal digits (lib.c:113-131, 426-475).
THEOREM PaddedPrints ==
    ASSUME NEW v \in WordValues
    PROVE  /\ Padded(v) \in Seq(Nat) /\ Len(Padded(v)) = HexDigits /\ Value(Padded(v), 16) = v
<1> DEFINE top == 2 * WORD_BITS
           h == HexDigits
<1>0. /\ v \in 0 .. Pow2[WORD_BITS] - 1 /\ v \in Nat /\ WORD_BITS \in Nat \ {0} /\ top \in Nat
      /\ conv_buf \in Buffers(top) /\ 16 \in Bases
  BY WordsAre DEF WordValues
<1>1. PICK q : q \in Quotients(v, 16)
  <2>1. 16 \in Nat \ {0}
    OBVIOUS
  <2> QED BY <1>0, <2>1, QuotientsExist
<1>2. PICK len : Places(q, len)
  <2>1. 16 \in Nat /\ 16 >= 2
    OBVIOUS
  <2> QED BY <1>0, <1>1, <2>1, PlacesExist
<1>3. h \in 1 .. WORD_BITS /\ WORD_BITS = 4 * h /\ q[h] = 0
  BY <1>0, <1>1, HexEnd
<1>4. len \in 1 .. h
  <2>1. CASE q[0] = 0
    BY <1>2, <1>3, <2>1 DEF Places
  <2>2. CASE q[0] # 0
    BY <1>2, <1>3, <2>2 DEF Places
  <2> QED BY <2>1, <2>2
<1> DEFINE t == DigitsText(q, len, 16)
           b == itoa(v, conv_buf, h, 16)
           z == lookup(0)
           c == [i \in DOMAIN b |-> IF i \in len .. h - 1 THEN z ELSE b[i]]
<1>5. Says(t, v, 16) /\ Writes(t, v, 16) /\ Len(t) = len
  BY <1>0, <1>1, <1>2, DigitsSay, DigitsWrite
<1>6. b = Spelled(conv_buf, top, h, t) /\ strlen(b, h) = len
  <2>1. h \in 0 .. WORD_BITS
    BY <1>3
  <2> HIDE DEF t, h
  <2> QED BY <1>0, <1>5, <2>1, TextPrinted
<1>7. ASSUME NEW i \in 1 .. len PROVE t[i] = lookup(q[len - i] % 16)
  BY DEF DigitsText
<1>8. \A k \in len .. WORD_BITS : q[k] = 0
  <2>1. len \in 0 .. WORD_BITS /\ q[len] = 0
    BY <1>3, <1>4, <1>2 DEF Places
  <2> QED BY <1>0, <1>1, <2>1, ZerosOn
<1> HIDE DEF t
<1>9. b = [i \in 0 .. top |-> IF i \in h .. h + len - 1 THEN t[i - h + 1]
                              ELSE IF i = h + len THEN Nul ELSE conv_buf[i]]
  BY <1>5, <1>6 DEF Spelled
<1>10. Padded(v) = Text(c, len)
  BY <1>6 DEF Padded
<1> HIDE DEF b, h
<1> DEFINE d == DigitsText(q, h, 16)
<1>11. d \in Seq(Nat) /\ Len(d) = h /\ \A i \in 1 .. h : d[i] = lookup(q[h - i] % 16) /\ d[i] # Nul
  <2>1. h \in 1 .. WORD_BITS
    BY <1>3
  <2> QED BY <1>0, <1>1, <2>1, TextTyped
<1> HIDE DEF d
<1>12. ASSUME NEW i \in 0 .. h - 1 PROVE c[len + i] = d[i + 1]
  <2>0. len + i \in 0 .. top /\ DOMAIN b = 0 .. top /\ i + 1 \in 1 .. h
    BY <1>3, <1>4, <1>9
  <2>1. CASE len + i < h
    <3>1. PICK k \in len .. WORD_BITS : k = h - (i + 1)
      BY <1>3, <1>4, <2>1
    <3>2. d[i + 1] = lookup(q[k] % 16)
      BY <1>11, <2>0, <3>1
    <3>3. q[k] % 16 = 0
      BY <1>8
    <3>4. len + i \in len .. h - 1
      BY <1>3, <1>4, <2>1
    <3> QED BY <2>0, <3>2, <3>3, <3>4
  <2>2. CASE len + i >= h
    <3>1. PICK j \in 1 .. len : j = len + i - h + 1
      BY <1>3, <1>4, <2>2
    <3>2. t[j] = lookup(q[len - j] % 16)
      BY <1>7
    <3>3. len - j = h - (i + 1)
      BY <1>3, <1>4, <3>1
    <3>4. d[i + 1] = lookup(q[h - (i + 1)] % 16)
      BY <1>11, <2>0
    <3>5. len + i \in h .. h + len - 1 /\ len + i \notin len .. h - 1
      BY <1>3, <1>4, <2>2
    <3>6. b[len + i] = t[j]
      <4>1. PICK m \in 0 .. top : m = len + i
        BY <2>0
      <4>2. m \in h .. h + len - 1 /\ m - h + 1 = j
        BY <1>3, <1>4, <3>1, <3>5, <4>1
      <4>3. b[m] = t[m - h + 1]
        BY <1>9, <4>2
      <4> QED BY <4>1, <4>2, <4>3
    <3>7. c[len + i] = b[len + i]
      BY <2>0, <3>5
    <3> QED BY <3>1, <3>2, <3>3, <3>4, <3>6, <3>7
  <2> QED BY <1>3, <1>4, <2>1, <2>2
<1>13. StringAt(c, top, len, h)
  <2>0. DOMAIN b = 0 .. top
    BY <1>9
  <2>1. ASSUME NEW i \in 0 .. top PROVE c[i] \in Nat
    <3>1. b[i] \in Nat
      <4>1. CASE i \in h .. h + len - 1
        <5>1. i - h + 1 \in 1 .. len /\ b[i] = t[i - h + 1]
          BY <1>3, <1>4, <1>9, <4>1
        <5>2. t \in Seq(Nat) /\ Len(t) = len
          BY <1>5 DEF Says
        <5> QED BY <5>1, <5>2
      <4>2. CASE i \notin h .. h + len - 1
        <5>1. conv_buf[i] \in Nat
          BY <1>0 DEF Buffers
        <5> QED BY <1>9, <4>2, <5>1 DEF Nul
      <4> QED BY <4>1, <4>2
    <3>2. z \in Nat
      BY LookupIs
    <3>3. c[i] = IF i \in len .. h - 1 THEN z ELSE b[i]
      BY <2>0
    <3> HIDE DEF c, z
    <3> QED BY <3>1, <3>2, <3>3
  <2>2. c \in [0 .. top -> Nat]
    <3>1. c = [i \in 0 .. top |-> c[i]]
      BY <2>0
    <3> HIDE DEF c
    <3> QED BY <2>1, <3>1
  <2>3. c[len + h] = Nul
    <3>1. len + h \in 0 .. top /\ len + h \notin len .. h - 1 /\ len + h \notin h .. h + len - 1 /\ len + h = h + len
      BY <1>3, <1>4
    <3>2. b[len + h] = Nul
      BY <1>9, <3>1
    <3> QED BY <2>0, <3>1, <3>2
  <2>4. ASSUME NEW i \in 0 .. h - 1 PROVE c[len + i] # Nul
    <3>1. i + 1 \in 1 .. h
      BY <1>3
    <3> HIDE DEF c
    <3> QED BY <1>11, <1>12, <3>1
  <2>5. len + h <= top
    BY <1>3, <1>4
  <2> HIDE DEF c
  <2> QED BY <2>2, <2>3, <2>4, <2>5 DEF StringAt
<1>14. strlen(c, len) = h
  <2>1. len \in Nat /\ h \in Nat
    BY <1>3, <1>4
  <2> HIDE DEF c, top
  <2> QED BY <1>0, <1>13, <2>1, StrlenIs
<1> HIDE DEF c
<1>15. Text(c, len) = d
  <2>1. Text(c, len) = [i \in 1 .. h |-> c[len + i - 1]]
    BY <1>14 DEF Text
  <2>2. ASSUME NEW i \in 1 .. h PROVE c[len + i - 1] = d[i]
    <3>1. PICK j \in 0 .. h - 1 : j = i - 1 /\ len + j = len + i - 1 /\ j + 1 = i
      BY <1>3, <1>4
    <3>2. c[len + j] = d[j + 1]
      BY <1>12
    <3> QED BY <3>1, <3>2
  <2>3. d = [i \in 1 .. h |-> d[i]]
    BY <1>11
  <2> QED BY <2>1, <2>2, <2>3
<1>16. Value(d, 16) = v
  <2>1. h \in 1 .. WORD_BITS /\ q[h] = 0
    BY <1>3
  <2> QED BY <1>0, <1>1, <2>1, ValueOf DEF d
<1> QED BY <1>10, <1>11, <1>15, <1>16 DEF h

-----------------------------------------------------------------------------
\* printf's parser, one character after the other.
Parses(f, p, format, args) ==
    f = [k \in 0 .. Len(format) |-> IF k = 0 THEN p ELSE Parsed(f[k - 1], format[k], args)]

\* The parser has a state after each character of a format.
LEMMA ParserRuns ==
    ASSUME NEW p, NEW format, Len(format) \in Nat, NEW args
    PROVE  \E f : Parses(f, p, format, args) /\ Printing(p, format, args) = f[Len(format)]
<1> DEFINE n == Len(format)
           Next1(k, r) == Parsed(r, format[k], args)
           Upto(i) == \E f : /\ f = [k \in 0 .. i |-> f[k]]
                             /\ f[0] = p /\ \A k \in 1 .. i : f[k] = Next1(k, f[k - 1])
           P == {i \in 0 .. n : Upto(i)}
           h == CHOOSE parser : parser = [k \in 0 .. n |-> IF k = 0 THEN p ELSE Next1(k, parser[k - 1])]
<1> HIDE DEF Next1
<1>1. 0 \in P
  <2> DEFINE f == [k \in 0 .. 0 |-> p]
  <2>1. f = [k \in 0 .. 0 |-> f[k]] /\ f[0] = p /\ \A k \in 1 .. 0 : f[k] = Next1(k, f[k - 1])
    OBVIOUS
  <2>2. Upto(0)
    <3> HIDE DEF f
    <3> QED BY <2>1
  <2> QED BY <2>2
<1>2. ASSUME NEW i \in 1 .. n, i - 1 \in P PROVE i \in P
  <2>1. PICK f : /\ f = [k \in 0 .. i - 1 |-> f[k]]
                 /\ f[0] = p /\ \A k \in 1 .. i - 1 : f[k] = Next1(k, f[k - 1])
    BY <1>2
  <2> DEFINE g == [k \in 0 .. i |-> IF k = i THEN Next1(i, f[i - 1]) ELSE f[k]]
  <2>2. g = [k \in 0 .. i |-> g[k]] /\ g[0] = p
    BY <2>1
  <2>3. ASSUME NEW k \in 1 .. i PROVE g[k] = Next1(k, g[k - 1])
    <3>1. g[k - 1] = f[k - 1]
      OBVIOUS
    <3>2. CASE k = i
      BY <3>1, <3>2
    <3>3. CASE k # i
      <4>1. k \in 1 .. i - 1 /\ g[k] = f[k]
        BY <3>3
      <4> QED BY <2>1, <3>1, <4>1
    <3> QED BY <3>2, <3>3
  <2>4. Upto(i)
    <3> HIDE DEF g
    <3> QED BY <2>2, <2>3
  <2> HIDE DEF Upto
  <2> QED BY <2>4
<1>3. \A i \in 0 .. n : i \in P
  <2> HIDE DEF P
  <2> QED BY <1>1, <1>2, Turns, Zenon
<1>4. PICK g : /\ g = [k \in 0 .. n |-> g[k]]
               /\ g[0] = p /\ \A k \in 1 .. n : g[k] = Next1(k, g[k - 1])
  BY <1>3
<1>5. g = [k \in 0 .. n |-> IF k = 0 THEN p ELSE Next1(k, g[k - 1])]
  <2>1. ASSUME NEW k \in 0 .. n PROVE g[k] = IF k = 0 THEN p ELSE Next1(k, g[k - 1])
    <3>1. k = 0 \/ k \in 1 .. n
      OBVIOUS
    <3> QED BY <1>4, <3>1
  <2> QED BY <1>4, <2>1
<1>6. h = [k \in 0 .. n |-> IF k = 0 THEN p ELSE Next1(k, h[k - 1])]
  BY <1>5, Zenon
<1>7. Printing(p, format, args) = h[n]
  BY Zenon DEF Printing, Next1
<1> QED BY <1>6, <1>7 DEF Parses, Next1

\* And each comes from the one before.
LEMMA ParsesIs ==
    ASSUME NEW f, NEW p, NEW format, NEW args, Parses(f, p, format, args), Len(format) \in Nat
    PROVE  f[0] = p /\ \A k \in 1 .. Len(format) : f[k] = Parsed(f[k - 1], format[k], args)
BY DEF Parses

\* A format after another.
LEMMA PrintingOn ==
    ASSUME NEW p, NEW s \in Seq(Nat), NEW t \in Seq(Nat), NEW args
    PROVE  Printing(p, s \o t, args) = Printing(Printing(p, s, args), t, args)
<1>0. PICK n \in Nat, m \in Nat : n = Len(s) /\ m = Len(t)
  OBVIOUS
<1>1. /\ Len(s \o t) = n + m
      /\ \A k \in 1 .. n : (s \o t)[k] = s[k]
      /\ \A k \in 1 .. m : (s \o t)[n + k] = t[k]
  BY <1>0
<1>2. PICK f : Parses(f, p, s, args) /\ Printing(p, s, args) = f[n]
  BY <1>0, ParserRuns
<1>3. PICK g : Parses(g, f[n], t, args) /\ Printing(f[n], t, args) = g[m]
  BY <1>0, ParserRuns
<1> DEFINE st == s \o t
<1> HIDE DEF st
<1>4. PICK h : Parses(h, p, st, args) /\ Printing(p, st, args) = h[n + m]
  <2>1. Len(st) = n + m /\ n + m \in Nat
    BY <1>1 DEF st
  <2> QED BY <2>1, ParserRuns
<1>l. Len(st) \in Nat /\ Len(st) = n + m
  BY <1>0, <1>1 DEF st
<1>h. h[0] = p /\ \A k \in 1 .. Len(st) : h[k] = Parsed(h[k - 1], st[k], args)
  <2>1. Len(st) \in Nat /\ Parses(h, p, st, args)
    BY <1>4, <1>l
  <2> QED BY <2>1, ParsesIs
<1>5. /\ h[0] = p /\ \A k \in 1 .. n + m : h[k] = Parsed(h[k - 1], st[k], args)
      /\ f[0] = p /\ \A k \in 1 .. n : f[k] = Parsed(f[k - 1], s[k], args)
      /\ g[0] = f[n] /\ \A k \in 1 .. m : g[k] = Parsed(g[k - 1], t[k], args)
  <2>1. Len(st) = n + m /\ n + m \in Nat
    BY <1>1 DEF st
  <2>2. f[0] = p /\ \A k \in 1 .. n : f[k] = Parsed(f[k - 1], s[k], args)
    BY <1>0, <1>2, ParsesIs
  <2>3. g[0] = f[n] /\ \A k \in 1 .. m : g[k] = Parsed(g[k - 1], t[k], args)
    BY <1>0, <1>3, ParsesIs, SMTT(40)
  <2>4. h[0] = p /\ \A k \in 1 .. n + m : h[k] = Parsed(h[k - 1], st[k], args)
    BY <1>l, <1>h
  <2> QED BY <2>2, <2>3, <2>4
<1>6. \A k \in 0 .. n : f[k] = h[k]
  <2>1. f[0] = h[0]
    BY <1>5
  <2>2. ASSUME NEW k \in 1 .. n, f[k - 1] = h[k - 1] PROVE f[k] = h[k]
    <3>0. st[k] = s[k]
      BY <1>1 DEF st
    <3>1. k \in 1 .. n + m /\ st[k] = s[k]
      BY <3>0
    <3> QED BY <1>5, <2>2, <3>1
  <2>3. \A k \in 1 .. n : f[k - 1] = h[k - 1] => f[k] = h[k]
    BY <2>2
  <2>4. Alike(f, h, n)
    BY <2>1, <2>3 DEF Alike
  <2> QED BY <2>4, AlikeTurns
<1>7. h[n + m] = g[m]
  <2> DEFINE D == [k \in 0 .. m |-> h[n + k]]
  <2>1. D[0] = g[0]
    <3>1. n \in 0 .. n /\ n + 0 = n /\ 0 \in 0 .. m
      OBVIOUS
    <3> QED BY <1>5, <1>6, <3>1
  <2>2. ASSUME NEW k \in 1 .. m, D[k - 1] = g[k - 1] PROVE D[k] = g[k]
    <3>1. PICK j \in 1 .. n + m : j = n + k /\ j - 1 = n + (k - 1)
      OBVIOUS
    <3>2. h[j] = Parsed(h[j - 1], st[j], args)
      BY <1>5
    <3>3. st[j] = t[k]
      BY <1>1, <3>1 DEF st
    <3>4. D[k] = h[j] /\ D[k - 1] = h[j - 1]
      BY <3>1
    <3> HIDE DEF D
    <3> QED BY <1>5, <2>2, <3>2, <3>3, <3>4
  <2>3. \A k \in 0 .. m : D[k] = g[k]
    <3> HIDE DEF D
    <3>1. \A k \in 1 .. m : D[k - 1] = g[k - 1] => D[k] = g[k]
      BY <2>2
    <3>2. Alike(D, g, m)
      BY <2>1, <3>1 DEF Alike
    <3> QED BY <3>2, AlikeTurns
  <2>4. m \in 0 .. m /\ D[m] = h[n + m]
    OBVIOUS
  <2> HIDE DEF D
  <2> QED BY <2>3, <2>4
<1> QED BY <1>2, <1>3, <1>4, <1>7 DEF st

-----------------------------------------------------------------------------
\* What a parser is at any time, and which characters take an argument.
Arguments == [n : WordValues, s : Seq(Nat)]
Shaped(r) == /\ r = [out |-> r.out, arg |-> r.arg, conversion |-> r.conversion, alternate |-> r.alternate]
             /\ r.arg \in Nat \ {0} /\ r.conversion \in BOOLEAN /\ r.alternate \in BOOLEAN
             /\ r.alternate => r.conversion
Takes(ch) == ch \in {Conversions.x, Conversions.u, Conversions.d, Conversions.c, Conversions.s}

\* What a conversion prints of an argument.
Conveyed(alternate, ch, a) ==
    CASE ch = Percent       -> <<Percent>>
      [] ch = Conversions.x -> IF alternate THEN Padded(a.n) ELSE Hex(a.n)
      [] ch = Conversions.u -> Unsigned(a.n)
      [] ch = Conversions.d -> Signed(a.n)
      [] ch = Conversions.c -> IF a.n = Nul THEN <<>> ELSE <<a.n>>
      [] ch = Conversions.s -> a.s
      [] OTHER              -> <<>>

\* The letters of the conversions.
LEMMA LettersAre == /\ Conversions.x = 120 /\ Conversions.u = 117 /\ Conversions.d = 100
                    /\ Conversions.c = 99 /\ Conversions.s = 115 /\ Percent = 37 /\ Hash = 35
BY DEF Conversions, Percent, Hash

\* What the end of a conversion leaves.
LEMMA PutIs ==
    ASSUME NEW r, Shaped(r), NEW text, NEW used
    PROVE  Put(r, text, used) = [out |-> r.out \o text, arg |-> r.arg + used,
                                 conversion |-> FALSE, alternate |-> FALSE]
<1> DEFINE o == r.out
           a == r.arg
           c == r.conversion
           l == r.alternate
           new == o \o text
           next == a + used
<1>1. r = [out |-> o, arg |-> a, conversion |-> c, alternate |-> l]
  BY DEF Shaped
<1>2. Put(r, text, used) = [r EXCEPT !.out = new, !.arg = next, !.conversion = FALSE, !.alternate = FALSE]
  BY DEF Put
<1> HIDE DEF o, a, c, l, new, next
<1>3. Put(r, text, used) = [out |-> new, arg |-> next, conversion |-> FALSE, alternate |-> FALSE]
  BY <1>1, <1>2
<1> QED BY <1>3 DEF new, next, o, a

\* A character in a conversion, and one outside.
LEMMA ParsedIs ==
    ASSUME NEW r, Shaped(r), NEW ch, NEW args
    PROVE  Parsed(r, ch, args) =
               IF ~r.conversion
               THEN IF ch = Percent THEN [r EXCEPT !.conversion = TRUE] ELSE Put(r, <<ch>>, 0)
               ELSE IF ch = Hash THEN [r EXCEPT !.alternate = TRUE]
               ELSE Put(r, Conveyed(r.alternate, ch, args[r.arg]), IF Takes(ch) THEN 1 ELSE 0)
<1> DEFINE a == args[r.arg]
<1>1. CASE ~r.conversion
  BY <1>1 DEF Parsed
<1>2. CASE r.conversion
  <2>1. Parsed(r, ch, args) =
            CASE ch = Percent       -> Put(r, <<Percent>>, 0)
              [] ch = Hash          -> [r EXCEPT !.alternate = TRUE]
              [] ch = Conversions.x -> Put(r, IF r.alternate THEN Padded(a.n) ELSE Hex(a.n), 1)
              [] ch = Conversions.u -> Put(r, Unsigned(a.n), 1)
              [] ch = Conversions.d -> Put(r, Signed(a.n), 1)
              [] ch = Conversions.c -> Put(r, IF a.n = Nul THEN <<>> ELSE <<a.n>>, 1)
              [] ch = Conversions.s -> Put(r, a.s, 1)
              [] OTHER              -> Put(r, <<>>, 0)
    BY <1>2, Zenon DEF Parsed
  <2> DEFINE used == IF Takes(ch) THEN 1 ELSE 0
             shown == Conveyed(r.alternate, ch, a)
  <2>u. (Takes(ch) => used = 1) /\ (~Takes(ch) => used = 0)
    OBVIOUS
  <2> SUFFICES Parsed(r, ch, args) = IF ch = Hash THEN [r EXCEPT !.alternate = TRUE] ELSE Put(r, shown, used)
    BY <1>2
  <2> HIDE DEF a, used
  <2>2. ch = Percent => Conveyed(r.alternate, ch, a) = <<Percent>> /\ ~Takes(ch) /\ ch # Hash
    BY LettersAre DEF Conveyed, Takes
  <2>3. ch = Conversions.x => Conveyed(r.alternate, ch, a) = (IF r.alternate THEN Padded(a.n) ELSE Hex(a.n))
                              /\ Takes(ch) /\ ch # Hash /\ ch # Percent
    BY LettersAre DEF Conveyed, Takes
  <2>4. ch = Conversions.u => Conveyed(r.alternate, ch, a) = Unsigned(a.n) /\ Takes(ch)
                              /\ ch # Hash /\ ch # Percent /\ ch # Conversions.x
    BY LettersAre DEF Conveyed, Takes
  <2>5. ch = Conversions.d => Conveyed(r.alternate, ch, a) = Signed(a.n) /\ Takes(ch)
                              /\ ch # Hash /\ ch # Percent /\ ch # Conversions.x /\ ch # Conversions.u
    BY LettersAre DEF Conveyed, Takes
  <2>6. ch = Conversions.c => Conveyed(r.alternate, ch, a) = (IF a.n = Nul THEN <<>> ELSE <<a.n>>) /\ Takes(ch)
                              /\ ch # Hash /\ ch # Percent /\ ch # Conversions.x /\ ch # Conversions.u
                              /\ ch # Conversions.d
    BY LettersAre DEF Conveyed, Takes
  <2>7. ch = Conversions.s => Conveyed(r.alternate, ch, a) = a.s /\ Takes(ch)
                              /\ ch # Hash /\ ch # Percent /\ ch # Conversions.x /\ ch # Conversions.u
                              /\ ch # Conversions.d /\ ch # Conversions.c
    BY LettersAre DEF Conveyed, Takes
  <2>8. ~Takes(ch) /\ ch # Percent => Conveyed(r.alternate, ch, a) = <<>>
    BY DEF Conveyed, Takes
  <2>9. CASE ch = Percent
    <3>1. Parsed(r, ch, args) = Put(r, <<Percent>>, 0) /\ shown = <<Percent>> /\ used = 0 /\ ch # Hash
      BY <2>1, <2>2, <2>9, <2>u, LettersAre
    <3> QED BY <3>1
  <2>10. CASE ch = Hash
    BY <2>1, <2>10, LettersAre
  <2>11. CASE ch = Conversions.x
    <3> DEFINE text == (IF r.alternate THEN Padded(a.n) ELSE Hex(a.n))
    <3>1. shown = text /\ used = 1 /\ ch # Hash
      BY <2>3, <2>11, <2>u
    <3>2. Parsed(r, ch, args) = Put(r, text, 1)
      BY <2>1, <2>3, <2>11, LettersAre
    <3> HIDE DEF text, shown
    <3> QED BY <3>1, <3>2
  <2>12. CASE ch = Conversions.u
    <3> DEFINE text == Unsigned(a.n)
    <3>1. shown = text /\ used = 1 /\ ch # Hash
      BY <2>4, <2>12, <2>u
    <3>2. Parsed(r, ch, args) = Put(r, text, 1)
      BY <2>1, <2>4, <2>12, LettersAre
    <3> HIDE DEF text, shown
    <3> QED BY <3>1, <3>2
  <2>13. CASE ch = Conversions.d
    <3> DEFINE text == Signed(a.n)
    <3>1. shown = text /\ used = 1 /\ ch # Hash
      BY <2>5, <2>13, <2>u
    <3>2. Parsed(r, ch, args) = Put(r, text, 1)
      BY <2>1, <2>5, <2>13, LettersAre
    <3> HIDE DEF text, shown
    <3> QED BY <3>1, <3>2
  <2>14. CASE ch = Conversions.c
    <3> DEFINE text == (IF a.n = Nul THEN <<>> ELSE <<a.n>>)
    <3>1. shown = text /\ used = 1 /\ ch # Hash
      BY <2>6, <2>14, <2>u
    <3>2. Parsed(r, ch, args) = Put(r, text, 1)
      BY <2>1, <2>6, <2>14, LettersAre
    <3> HIDE DEF text, shown
    <3> QED BY <3>1, <3>2
  <2>15. CASE ch = Conversions.s
    <3> DEFINE text == a.s
    <3>1. shown = text /\ used = 1 /\ ch # Hash
      BY <2>7, <2>15, <2>u
    <3>2. Parsed(r, ch, args) = Put(r, text, 1)
      BY <2>1, <2>7, <2>15
    <3> HIDE DEF text, shown
    <3> QED BY <3>1, <3>2
  <2>16. CASE ~Takes(ch) /\ ch # Percent /\ ch # Hash
    <3>1. Parsed(r, ch, args) = Put(r, <<>>, 0)
      BY <2>1, <2>16 DEF Takes
    <3>2. shown = <<>> /\ used = 0
      BY <2>8, <2>16, <2>u
    <3> HIDE DEF shown
    <3> QED BY <2>16, <3>1, <3>2
  <2> QED BY <2>9, <2>10, <2>11, <2>12, <2>13, <2>14, <2>15, <2>16 DEF Takes
<1> QED BY <1>1, <1>2 DEF Shaped

\* A conversion takes one argument or none, and a parser stays one.
LEMMA ShapeKept ==
    ASSUME NEW r, Shaped(r), NEW ch, NEW args
    PROVE  /\ Shaped(Parsed(r, ch, args))
           /\ Parsed(r, ch, args).arg = r.arg + IF r.conversion /\ Takes(ch) THEN 1 ELSE 0
<1> DEFINE next == Parsed(r, ch, args)
           text == Conveyed(r.alternate, ch, args[r.arg])
<1>s. r.arg \in Nat \ {0} /\ r.conversion \in BOOLEAN /\ r.alternate \in BOOLEAN
      /\ (r.alternate => r.conversion)
      /\ r = [out |-> r.out, arg |-> r.arg, conversion |-> r.conversion, alternate |-> r.alternate]
  BY DEF Shaped
<1> HIDE DEF next, text
<1>1. CASE ~r.conversion /\ ch = Percent
  <2>1. next = [r EXCEPT !.conversion = TRUE]
    BY <1>1, ParsedIs DEF next
  <2>2. next = [out |-> r.out, arg |-> r.arg, conversion |-> TRUE, alternate |-> r.alternate]
    BY <1>s, <2>1
  <2> QED BY <1>1, <1>s, <2>2 DEF Shaped, next
<1>2. CASE ~r.conversion /\ ch # Percent
  <2>1. next = Put(r, <<ch>>, 0)
    BY <1>2, ParsedIs DEF next
  <2>2. next = [out |-> r.out \o <<ch>>, arg |-> r.arg + 0, conversion |-> FALSE, alternate |-> FALSE]
    BY <2>1, PutIs
  <2> QED BY <1>2, <1>s, <2>2 DEF Shaped, next
<1>3. CASE r.conversion /\ ch = Hash
  <2>1. next = [r EXCEPT !.alternate = TRUE]
    BY <1>3, ParsedIs DEF next
  <2>2. next = [out |-> r.out, arg |-> r.arg, conversion |-> r.conversion, alternate |-> TRUE]
    BY <1>s, <2>1
  <2>3. ~Takes(ch)
    BY <1>3, LettersAre DEF Takes
  <2> QED BY <1>3, <1>s, <2>2, <2>3 DEF Shaped, next
<1>4. CASE r.conversion /\ ch # Hash
  <2> DEFINE used == IF Takes(ch) THEN 1 ELSE 0
  <2>1. next = Put(r, text, used)
    BY <1>4, ParsedIs DEF next, text
  <2>2. next = [out |-> r.out \o text, arg |-> r.arg + used, conversion |-> FALSE, alternate |-> FALSE]
    BY <2>1, PutIs
  <2>3. used \in 0 .. 1
    OBVIOUS
  <2> QED BY <1>4, <1>s, <2>2, <2>3 DEF Shaped, next
<1> QED BY <1>1, <1>2, <1>3, <1>4, <1>s

\* What is shown of an argument is a text, and of no argument when none is taken.
LEMMA ConveyedIs ==
    ASSUME NEW alternate \in BOOLEAN, NEW ch, NEW a
    PROVE  /\ a \in Arguments => Conveyed(alternate, ch, a) \in Seq(Nat)
           /\ ~Takes(ch) => /\ Conveyed(alternate, ch, a) \in Seq(Nat)
                            /\ \A b : Conveyed(alternate, ch, b) = Conveyed(alternate, ch, a)
<1>0. <<>> \in Seq(Nat) /\ <<Percent>> \in Seq(Nat)
  BY DEF Percent
<1>1. CASE ~Takes(ch)
  <2>1. \A b : Conveyed(alternate, ch, b) = IF ch = Percent THEN <<Percent>> ELSE <<>>
    BY <1>1 DEF Conveyed, Takes
  <2> QED BY <1>0, <2>1
<1>2. CASE Takes(ch)
  <2> SUFFICES ASSUME a \in Arguments PROVE Conveyed(alternate, ch, a) \in Seq(Nat)
    BY <1>2
  <2>1. a.n \in WordValues /\ a.s \in Seq(Nat) /\ WordValues \subseteq Nat
    BY WordsAre DEF Arguments
  <2>2. \A v \in WordValues : Hex(v) \in Seq(Nat) /\ Unsigned(v) \in Seq(Nat)
    BY NumbersPrint DEF Says
  <2>3. Padded(a.n) \in Seq(Nat)
    BY <2>1, PaddedPrints
  <2>4. Signed(a.n) \in Seq(Nat)
    <3>1. CASE a.n < Pow2[WORD_BITS - 1]
      BY <2>1, <2>2, <3>1 DEF Signed
    <3>2. CASE ~(a.n < Pow2[WORD_BITS - 1])
      <4>1. Pow2[WORD_BITS] - a.n \in WordValues
            /\ Signed(a.n) = <<Minus>> \o Unsigned(Pow2[WORD_BITS] - a.n)
        BY <2>1, <3>2, NegativesPrint
      <4>2. <<Minus>> \in Seq(Nat)
        BY DEF Minus
      <4>3. PICK u \in Seq(Nat) : u = Unsigned(Pow2[WORD_BITS] - a.n)
        BY <2>2, <4>1
      <4> QED BY <4>1, <4>2, <4>3
    <3> QED BY <3>1, <3>2
  <2>5. <<a.n>> \in Seq(Nat)
    <3>1. a.n \in Nat
      BY <2>1
    <3> QED BY <3>1
  <2> HIDE DEF Arguments
  <2>6. CASE ch = Conversions.x
    <3>1. Conveyed(alternate, ch, a) = IF alternate THEN Padded(a.n) ELSE Hex(a.n)
      BY <2>6, LettersAre DEF Conveyed
    <3> QED BY <2>1, <2>2, <2>3, <3>1
  <2>7. CASE ch = Conversions.u
    <3>1. Conveyed(alternate, ch, a) = Unsigned(a.n)
      BY <2>7, LettersAre DEF Conveyed
    <3> QED BY <2>1, <2>2, <3>1
  <2>8. CASE ch = Conversions.d
    <3>1. Conveyed(alternate, ch, a) = Signed(a.n)
      BY <2>8, LettersAre DEF Conveyed
    <3> QED BY <2>4, <3>1
  <2>9. CASE ch = Conversions.c
    <3>1. Conveyed(alternate, ch, a) = IF a.n = Nul THEN <<>> ELSE <<a.n>>
      BY <2>9, LettersAre DEF Conveyed
    <3> QED BY <1>0, <2>5, <3>1
  <2>10. CASE ch = Conversions.s
    <3>1. Conveyed(alternate, ch, a) = a.s
      BY <2>10, LettersAre DEF Conveyed
    <3> QED BY <2>1, <3>1
  <2> QED BY <1>2, <2>6, <2>7, <2>8, <2>9, <2>10 DEF Takes
<1> QED BY <1>1, <1>2

Start == [out |-> <<>>, arg |-> 1, conversion |-> FALSE, alternate |-> FALSE]

\* The parser starts with nothing printed.
LEMMA StartShaped == Shaped(Start) /\ Start.out = <<>> /\ Start.arg = 1 /\ ~Start.conversion /\ ~Start.alternate
BY DEF Start, Shaped

\* The parser's states: the arguments taken are counted up.
LEMMA ParserShaped ==
    ASSUME NEW f, NEW p, Shaped(p), NEW format, NEW args, Len(format) \in Nat, Parses(f, p, format, args)
    PROVE  /\ \A k \in 0 .. Len(format) : Shaped(f[k]) /\ f[k].arg <= f[Len(format)].arg
           /\ p.arg <= f[Len(format)].arg
<1> DEFINE n == Len(format)
           P == {k \in 0 .. n : Shaped(f[k])}
<1>0. f[0] = p /\ \A k \in 1 .. n : f[k] = Parsed(f[k - 1], format[k], args)
  BY ParsesIs
<1>n. n \in Nat
  OBVIOUS
<1> HIDE DEF n
<1>1. 0 \in P
  BY <1>0, <1>n
<1>2. ASSUME NEW k \in 1 .. n, k - 1 \in P PROVE k \in P
  <2>1. Shaped(f[k - 1]) /\ f[k] = Parsed(f[k - 1], format[k], args) /\ k \in 0 .. n
    BY <1>0, <1>2, <1>n
  <2> QED BY <2>1, ShapeKept
<1>3. \A k \in 0 .. n : k \in P
  <2> HIDE DEF P
  <2> QED BY <1>1, <1>2, <1>n, Turns, Zenon
<1>4. \A k \in 0 .. n : f[k].arg \in Nat
  BY <1>3 DEF Shaped
<1>5. ASSUME NEW k \in 1 .. n PROVE f[k - 1].arg <= f[k].arg
  <2>1. Shaped(f[k - 1]) /\ f[k] = Parsed(f[k - 1], format[k], args) /\ f[k - 1].arg \in Nat
    BY <1>0, <1>3, <1>4, <1>n
  <2>2. f[k].arg = f[k - 1].arg + IF f[k - 1].conversion /\ Takes(format[k]) THEN 1 ELSE 0
    BY <2>1, ShapeKept
  <2> QED BY <2>1, <2>2
<1> DEFINE Q == {j \in 0 .. n : f[n - j].arg <= f[n].arg}
<1>6. 0 \in Q
  <2>1. n - 0 = n /\ n \in 0 .. n /\ 0 \in 0 .. n
    BY <1>n
  <2> QED BY <1>4, <2>1
<1>7. ASSUME NEW j \in 1 .. n, j - 1 \in Q PROVE j \in Q
  <2>1. PICK k \in 1 .. n : k = n - (j - 1) /\ k - 1 = n - j /\ k - 1 \in 0 .. n /\ j \in 0 .. n /\ n \in 0 .. n
    BY <1>n
  <2>2. f[k - 1].arg <= f[k].arg /\ f[k].arg <= f[n].arg
    BY <1>5, <1>7, <2>1
  <2>3. f[k - 1].arg \in Nat /\ f[k].arg \in Nat /\ f[n].arg \in Nat
    BY <1>4, <2>1
  <2>4. f[n - j].arg <= f[n].arg
    BY <2>1, <2>2, <2>3
  <2> QED BY <2>1, <2>4
<1>8. \A j \in 0 .. n : j \in Q
  <2> HIDE DEF Q
  <2> QED BY <1>6, <1>7, <1>n, Turns, Zenon
<1>9. ASSUME NEW k \in 0 .. n PROVE f[k].arg <= f[n].arg
  <2>1. PICK j \in 0 .. n : j = n - k /\ n - j = k
    BY <1>n
  <2> QED BY <1>8, <2>1
<1>10. p.arg <= f[n].arg
  <2>1. 0 \in 0 .. n
    BY <1>n
  <2> QED BY <1>0, <1>9, <2>1
<1> QED BY <1>3, <1>9, <1>10 DEF n

\* As long as there are arguments, what is printed is a text.
LEMMA PrintedText ==
    ASSUME NEW r, Shaped(r), r.out \in Seq(Nat), NEW ch \in Nat, NEW args \in Seq(Arguments),
           Parsed(r, ch, args).arg <= Len(args) + 1
    PROVE  Parsed(r, ch, args).out \in Seq(Nat)
<1>s. r.arg \in Nat \ {0} /\ r.conversion \in BOOLEAN /\ r.alternate \in BOOLEAN /\ Len(args) \in Nat
      /\ r = [out |-> r.out, arg |-> r.arg, conversion |-> r.conversion, alternate |-> r.alternate]
  BY DEF Shaped
<1> DEFINE next == Parsed(r, ch, args)
           text == Conveyed(r.alternate, ch, args[r.arg])
<1>1. CASE ~r.conversion /\ ch = Percent
  <2>1. next = [r EXCEPT !.conversion = TRUE]
    BY <1>1, ParsedIs
  <2>2. next.out = r.out
    <3> HIDE DEF next
    <3> QED BY <1>s, <2>1
  <2> QED BY <2>2
<1>2. CASE ~r.conversion /\ ch # Percent
  <2> DEFINE one == <<ch>>
  <2>1. next = Put(r, one, 0)
    BY <1>2, ParsedIs
  <2>3. one \in Seq(Nat)
    OBVIOUS
  <2> HIDE DEF next, one
  <2>2. next.out = r.out \o one
    BY <2>1, PutIs
  <2>4. next.out \in Seq(Nat)
    BY <2>2, <2>3
  <2> QED BY <2>4 DEF next
<1>3. CASE r.conversion /\ ch = Hash
  <2>1. next = [r EXCEPT !.alternate = TRUE]
    BY <1>3, ParsedIs
  <2>2. next.out = r.out
    <3> HIDE DEF next
    <3> QED BY <1>s, <2>1
  <2> QED BY <2>2
<1>4. CASE r.conversion /\ ch # Hash
  <2> DEFINE used == IF Takes(ch) THEN 1 ELSE 0
  <2>1. next = Put(r, text, used)
    BY <1>4, ParsedIs
  <2>2. text \in Seq(Nat)
    <3>1. CASE Takes(ch)
      <4>1. next.arg = r.arg + 1
        BY <1>4, <3>1, ShapeKept
      <4>2. r.arg \in 1 .. Len(args)
        BY <1>s, <4>1
      <4>3. args[r.arg] \in Arguments
        BY <4>2
      <4> QED BY <1>s, <4>3, ConveyedIs
    <3>2. CASE ~Takes(ch)
      BY <1>s, <3>2, ConveyedIs
    <3> QED BY <3>1, <3>2
  <2>3. next.out = r.out \o text
    <3> HIDE DEF next, text, used
    <3> QED BY <2>1, PutIs
  <2> HIDE DEF next, text
  <2>4. next.out \in Seq(Nat)
    BY <2>2, <2>3
  <2> QED BY <2>4 DEF next
<1> QED BY <1>1, <1>2, <1>3, <1>4, <1>s

\* A parser that has printed what p has, and taken the arguments it has.
After(p, r) == [out |-> p.out \o r.out, arg |-> p.arg - 1 + r.arg,
                conversion |-> r.conversion, alternate |-> r.alternate]

\* A parser that printed a text; the arguments are typed, and there are enough.
Prints(r) == Shaped(r) /\ r.out \in Seq(Nat)
Enough(args, r) == args \in Seq(Arguments) /\ r.arg <= Len(args) + 1
Left(args, r) == SubSeq(args, r.arg, Len(args))

\* A character is parsed alike after another format, with the arguments left.
LEMMA ParsedAfter ==
    ASSUME NEW p, Prints(p), NEW r, Prints(r), NEW ch \in Nat, NEW args, Enough(args, p),
           Enough(Left(args, p), Parsed(r, ch, Left(args, p)))
    PROVE  Parsed(After(p, r), ch, args) = After(p, Parsed(r, ch, Left(args, p)))
<1> DEFINE rest == Left(args, p)
<1>o. rest = SubSeq(args, p.arg, Len(args))
  BY DEF Left
<1>e. Enough(rest, Parsed(r, ch, rest))
  OBVIOUS
<1> SUFFICES Parsed(After(p, r), ch, args) = After(p, Parsed(r, ch, rest))
  OBVIOUS
<1> HIDE DEF rest
<1>h. /\ Shaped(p) /\ p.out \in Seq(Nat) /\ Shaped(r) /\ r.out \in Seq(Nat)
      /\ args \in Seq(Arguments) /\ p.arg <= Len(args) + 1
      /\ Parsed(r, ch, rest).arg <= Len(rest) + 1
  BY <1>e DEF Prints, Enough
<1> DEFINE q == After(p, r)
           o == p.out
           a == r.out
<1>s. /\ r.arg \in Nat \ {0} /\ r.conversion \in BOOLEAN /\ r.alternate \in BOOLEAN
      /\ (r.alternate => r.conversion) /\ p.arg \in Nat \ {0} /\ Len(args) \in Nat
      /\ r = [out |-> r.out, arg |-> r.arg, conversion |-> r.conversion, alternate |-> r.alternate]
  BY <1>h DEF Shaped
<1>r. /\ rest \in Seq(Arguments) /\ Len(rest) = Len(args) - p.arg + 1
      /\ \A i \in 1 .. Len(rest) : rest[i] = args[p.arg - 1 + i]
  BY <1>h, <1>o, <1>s, RestIs, SMTT(40)
<1>q. /\ Shaped(q) /\ q.out = o \o a /\ q.arg = p.arg - 1 + r.arg
      /\ q.conversion = r.conversion /\ q.alternate = r.alternate
      /\ q = [out |-> o \o a, arg |-> p.arg - 1 + r.arg, conversion |-> r.conversion, alternate |-> r.alternate]
  BY <1>s, SMTT(40) DEF After, Shaped
<1>t. o \in Seq(Nat) /\ a \in Seq(Nat)
  BY <1>h
<1>a. \A b, n, c, l :
          After(p, [out |-> b, arg |-> n, conversion |-> c, alternate |-> l])
          = [out |-> o \o b, arg |-> p.arg - 1 + n, conversion |-> c, alternate |-> l]
  BY DEF After
<1> DEFINE z == Parsed(r, ch, rest)
           w == Parsed(q, ch, args)
<1> SUFFICES w = After(p, z)
  OBVIOUS
<1>b. \A text \in Seq(Nat) : (o \o a) \o text = o \o (a \o text)
  <2> TAKE text \in Seq(Nat)
  <2> HIDE DEF o, a
  <2> QED BY <1>t, JoinedTexts
<1> HIDE DEF o, a
<1>1. CASE ~r.conversion /\ ch = Percent
  <2>1. w = [q EXCEPT !.conversion = TRUE]
    BY <1>1, <1>q, <1>h, ParsedIs
  <2>2. z = [r EXCEPT !.conversion = TRUE]
    BY <1>1, <1>h, ParsedIs
  <2> HIDE DEF q, w, z
  <2>3. z = [out |-> a, arg |-> r.arg, conversion |-> TRUE, alternate |-> r.alternate]
    BY <1>s, <2>2 DEF a
  <2>4. w = [out |-> o \o a, arg |-> p.arg - 1 + r.arg, conversion |-> TRUE, alternate |-> r.alternate]
    BY <1>q, <2>1
  <2>5. After(p, z) = w
    BY <1>a, <2>3, <2>4, Zenon
  <2> QED BY <2>5
<1>2. CASE ~r.conversion /\ ch # Percent
  <2> DEFINE text == <<ch>>
  <2>0. text \in Seq(Nat)
    OBVIOUS
  <2>1. w = Put(q, text, 0)
    BY <1>2, <1>q, <1>h, ParsedIs
  <2>2. z = Put(r, text, 0)
    BY <1>2, <1>h, ParsedIs
  <2> HIDE DEF text, q, w, z
  <2>3. z = [out |-> a \o text, arg |-> r.arg + 0, conversion |-> FALSE, alternate |-> FALSE]
    BY <2>2, <1>h, PutIs DEF a
  <2>4. w = [out |-> (o \o a) \o text, arg |-> p.arg - 1 + r.arg + 0, conversion |-> FALSE, alternate |-> FALSE]
    BY <1>q, <2>1, <1>h, PutIs
  <2>5. p.arg - 1 + r.arg + 0 = p.arg - 1 + (r.arg + 0)
    BY <1>s
  <2>6. w = [out |-> o \o (a \o text), arg |-> p.arg - 1 + (r.arg + 0), conversion |-> FALSE, alternate |-> FALSE]
    BY <1>b, <2>0, <2>4, <2>5
  <2>7. After(p, z) = w
    BY <1>a, <2>3, <2>6, Zenon
  <2> QED BY <2>7
<1>3. CASE r.conversion /\ ch = Hash
  <2>1. w = [q EXCEPT !.alternate = TRUE]
    BY <1>3, <1>q, <1>h, ParsedIs
  <2>2. z = [r EXCEPT !.alternate = TRUE]
    BY <1>3, <1>h, ParsedIs
  <2> HIDE DEF q, w, z
  <2>3. z = [out |-> a, arg |-> r.arg, conversion |-> r.conversion, alternate |-> TRUE]
    BY <1>s, <2>2 DEF a
  <2>4. w = [out |-> o \o a, arg |-> p.arg - 1 + r.arg, conversion |-> r.conversion, alternate |-> TRUE]
    BY <1>q, <2>1
  <2>5. After(p, z) = w
    BY <1>a, <2>3, <2>4, Zenon
  <2> QED BY <2>5
<1>4. CASE r.conversion /\ ch # Hash
  <2> DEFINE used == IF Takes(ch) THEN 1 ELSE 0
             x == args[q.arg]
             y == rest[r.arg]
             text == Conveyed(r.alternate, ch, y)
  <2>0. text \in Seq(Nat) /\ Conveyed(q.alternate, ch, x) = text
    <3>1. CASE Takes(ch)
      <4>1. Parsed(r, ch, rest).arg = r.arg + 1
        BY <1>4, <1>h, <3>1, ShapeKept
      <4>2. r.arg \in 1 .. Len(rest) /\ Len(rest) \in Nat
        BY <1>h, <1>r, <1>s, <4>1
      <4>3. y = x
        <5>1. rest[r.arg] = args[p.arg - 1 + r.arg]
          BY <1>r, <4>2, Zenon
        <5>2. q.arg = p.arg - 1 + r.arg
          BY <1>q
        <5> HIDE DEF q
        <5> QED BY <5>1, <5>2, Zenon
      <4>4. y \in Arguments
        <5> HIDE DEF x
        <5>1. PICK i \in 1 .. Len(rest) : i = r.arg
          BY <4>2
        <5>2. rest[i] \in Arguments
          BY <1>r, OneOf
        <5> QED BY <5>1, <5>2
      <4>5. text \in Seq(Nat)
        BY <1>s, <4>4, ConveyedIs
      <4> QED BY <1>q, <4>3, <4>5
    <3>2. CASE ~Takes(ch)
      <4> HIDE DEF x, y
      <4>1. text \in Seq(Nat) /\ \A b : Conveyed(r.alternate, ch, b) = text
        BY <1>s, <3>2, ConveyedIs
      <4> QED BY <1>q, <4>1
    <3> QED BY <3>1, <3>2
  <2>1. w = Put(q, Conveyed(q.alternate, ch, x), used)
    <3>1. q.conversion /\ Shaped(q)
      BY <1>4, <1>q
    <3> HIDE DEF q
    <3> QED BY <1>4, <3>1, <1>h, ParsedIs
  <2>6. z = Put(r, text, used)
    BY <1>4, <1>h, ParsedIs
  <2>7. used \in Nat
    OBVIOUS
  <2> HIDE DEF text, used, x, y, q, w, z
  <2>2. z = [out |-> a \o text, arg |-> r.arg + used, conversion |-> FALSE, alternate |-> FALSE]
    BY <2>6, <1>h, PutIs DEF a
  <2>3. w = [out |-> (o \o a) \o text, arg |-> p.arg - 1 + r.arg + used, conversion |-> FALSE, alternate |-> FALSE]
    BY <1>q, <2>0, <2>1, <1>h, PutIs
  <2>5. p.arg - 1 + r.arg + used = p.arg - 1 + (r.arg + used)
    <3>1. PICK i \in Nat, j \in Nat, k \in Nat : i = p.arg /\ j = r.arg /\ k = used
      BY <1>s, <2>7
    <3> QED BY <3>1
  <2>8. w = [out |-> o \o (a \o text), arg |-> p.arg - 1 + (r.arg + used), conversion |-> FALSE, alternate |-> FALSE]
    BY <1>b, <2>0, <2>3, <2>5
  <2>9. After(p, z) = w
    BY <1>a, <2>2, <2>8, Zenon
  <2> QED BY <2>9
<1> QED BY <1>1, <1>2, <1>3, <1>4, <1>s

\* What a parser is after each character, and what it printed until then.
LEMMA ParserPrints ==
    ASSUME NEW p, Shaped(p), p.out \in Seq(Nat), NEW format \in Seq(Nat), NEW args \in Seq(Arguments),
           NEW f, Parses(f, p, format, args), f[Len(format)].arg <= Len(args) + 1
    PROVE  \A k \in 0 .. Len(format) : /\ Shaped(f[k]) /\ f[k].arg <= f[Len(format)].arg
                                       /\ f[k].out \in Seq(Nat)
<1> DEFINE n == Len(format)
           P == {k \in 0 .. n : f[k].out \in Seq(Nat)}
<1>n. n \in Nat
  OBVIOUS
<1>0. f[0] = p /\ \A k \in 1 .. n : f[k] = Parsed(f[k - 1], format[k], args)
  BY <1>n, ParsesIs
<1>s. \A k \in 0 .. n : Shaped(f[k]) /\ f[k].arg <= f[n].arg
  BY <1>n, ParserShaped
<1>a. \A k \in 0 .. n : f[k].arg \in Nat
  BY <1>s DEF Shaped
<1>c. \A k \in 1 .. n : format[k] \in Nat
  OBVIOUS
<1>l. f[n].arg <= Len(args) + 1
  OBVIOUS
<1> HIDE DEF n
<1>1. 0 \in P
  BY <1>0, <1>n
<1>2. ASSUME NEW k \in 1 .. n, k - 1 \in P PROVE k \in P
  <2>1. k - 1 \in 0 .. n /\ k \in 0 .. n /\ n \in 0 .. n
    BY <1>n
  <2>2. Shaped(f[k - 1]) /\ f[k - 1].out \in Seq(Nat) /\ format[k] \in Nat
    BY <1>2, <1>s, <1>c, <2>1
  <2>3. f[k].arg <= Len(args) + 1
    BY <1>a, <1>l, <1>s, <2>1
  <2>4. f[k] = Parsed(f[k - 1], format[k], args)
    BY <1>0
  <2>5. f[k].out \in Seq(Nat)
    BY <2>2, <2>3, <2>4, PrintedText
  <2> QED BY <2>1, <2>5
<1>3. \A k \in 0 .. n : k \in P
  <2> HIDE DEF P
  <2> QED BY <1>1, <1>2, <1>n, Turns, Zenon
<1> QED BY <1>3, <1>s DEF n

\* A format that does not end inside a conversion prints before any other format what
\* it prints alone, and the other prints what it does alone with the arguments left,
\* for all formats and arguments (lib.c:85-193).
THEOREM FormatsCompose ==
    ASSUME NEW f \in Seq(Nat), NEW g \in Seq(Nat), NEW args,
           ~printf(f, args).conversion, Enough(args, printf(f, args)),
           Enough(Left(args, printf(f, args)), printf(g, Left(args, printf(f, args))))
    PROVE  printf(f \o g, args) = After(printf(f, args), printf(g, Left(args, printf(f, args))))
<1> DEFINE first  == printf(f, args)
           rest   == Left(args, first)
           second == printf(g, rest)
<1>d. first = printf(f, args) /\ rest = Left(args, first) /\ second = printf(g, rest)
  OBVIOUS
<1>e. ~first.conversion /\ Enough(args, first) /\ Enough(rest, second)
  OBVIOUS
<1> SUFFICES printf(f \o g, args) = After(first, second)
  OBVIOUS
<1> HIDE DEF first, rest, second
<1>t. args \in Seq(Arguments) /\ rest \in Seq(Arguments)
      /\ first.arg <= Len(args) + 1 /\ second.arg <= Len(rest) + 1
  BY <1>e DEF Enough
<1>s. \A format, arguments : printf(format, arguments) = Printing(Start, format, arguments)
  BY DEF printf, Start
<1>0. PICK n \in Nat, m \in Nat : n = Len(f) /\ m = Len(g)
  OBVIOUS
<1>z. /\ Start.out = <<>> /\ Start.out \in Seq(Nat) /\ Start.arg = 1
      /\ Start.conversion = FALSE /\ Start.alternate = FALSE
  BY DEF Start
<1>1. PICK pf : Parses(pf, Start, f, args) /\ first = pf[n]
  BY <1>0, <1>d, <1>s, ParserRuns
<1>2. Shaped(first) /\ first.out \in Seq(Nat)
  <2>1. pf[Len(f)].arg <= Len(args) + 1 /\ n \in 0 .. Len(f) /\ first = pf[n]
    BY <1>0, <1>1, <1>t
  <2>2. \A k \in 0 .. Len(f) : Shaped(pf[k]) /\ pf[k].out \in Seq(Nat)
    BY <1>1, <1>t, <1>z, <2>1, StartShaped, ParserPrints
  <2> QED BY <2>1, <2>2
<1>3. PICK ps : Parses(ps, Start, g, rest) /\ second = ps[m]
  BY <1>0, <1>d, <1>s, ParserRuns
<1>4. \A k \in 0 .. m : Shaped(ps[k]) /\ ps[k].arg <= second.arg /\ ps[k].out \in Seq(Nat)
  <2>1. ps[Len(g)].arg <= Len(rest) + 1
    BY <1>0, <1>3, <1>t
  <2>2. \A k \in 0 .. Len(g) : Shaped(ps[k]) /\ ps[k].arg <= ps[Len(g)].arg /\ ps[k].out \in Seq(Nat)
    BY <1>3, <1>t, <1>z, <2>1, StartShaped, ParserPrints
  <2> QED BY <1>0, <1>3, <2>2
<1>5. PICK pb : Parses(pb, first, g, args) /\ printf(f \o g, args) = pb[m]
  <2>1. printf(f \o g, args) = Printing(first, g, args)
    BY <1>d, <1>s, PrintingOn
  <2> QED BY <1>0, <2>1, ParserRuns
<1>6. first = After(first, Start)
  <2>1. /\ first = [out |-> first.out, arg |-> first.arg, conversion |-> FALSE, alternate |-> FALSE]
        /\ first.arg \in Nat
    BY <1>2, <1>e DEF Shaped
  <2>2. first.out \o Start.out = first.out
    BY <1>2, <1>z
  <2>3. first.arg - 1 + Start.arg = first.arg
    BY <1>z, <2>1
  <2>4. After(first, Start) = [out |-> first.out, arg |-> first.arg, conversion |-> FALSE, alternate |-> FALSE]
    BY <1>z, <2>2, <2>3 DEF After
  <2> QED BY <2>1, <2>4
<1>7. \A k \in 0 .. m : pb[k] = After(first, ps[k])
  <2> DEFINE P == {k \in 0 .. m : pb[k] = After(first, ps[k])}
  <2>0. /\ pb[0] = first /\ ps[0] = Start
        /\ \A k \in 1 .. m : pb[k] = Parsed(pb[k - 1], g[k], args)
        /\ \A k \in 1 .. m : ps[k] = Parsed(ps[k - 1], g[k], rest)
    <3>1. pb[0] = first /\ \A k \in 1 .. m : pb[k] = Parsed(pb[k - 1], g[k], args)
      <4>1. Len(g) \in Nat /\ Parses(pb, first, g, args)
        BY <1>0, <1>5
      <4>2. pb[0] = first /\ \A k \in 1 .. Len(g) : pb[k] = Parsed(pb[k - 1], g[k], args)
        BY <4>1, ParsesIs
      <4> QED BY <1>0, <4>2
    <3>2. ps[0] = Start /\ \A k \in 1 .. m : ps[k] = Parsed(ps[k - 1], g[k], rest)
      <4>1. Len(g) \in Nat /\ Parses(ps, Start, g, rest)
        BY <1>0, <1>3
      <4>2. ps[0] = Start /\ \A k \in 1 .. Len(g) : ps[k] = Parsed(ps[k - 1], g[k], rest)
        BY <4>1, ParsesIs
      <4> QED BY <1>0, <4>2
    <3> QED BY <3>1, <3>2
  <2>1. 0 \in P
    <3>1. pb[0] = After(first, ps[0]) /\ 0 \in 0 .. m
      BY <1>6, <2>0
    <3> QED BY <3>1
  <2>2. ASSUME NEW k \in 1 .. m, k - 1 \in P PROVE k \in P
    <3>1. k - 1 \in 0 .. m /\ k \in 0 .. m /\ g[k] \in Nat
      BY <1>0
    <3>2. pb[k] = Parsed(After(first, ps[k - 1]), g[k], args)
      BY <2>0, <2>2
    <3>3. ps[k] = Parsed(ps[k - 1], g[k], rest)
      BY <2>0
    <3>4. Shaped(ps[k - 1]) /\ ps[k - 1].out \in Seq(Nat)
      BY <1>4, <3>1
    <3>5. Parsed(ps[k - 1], g[k], rest).arg <= Len(rest) + 1
      <4>1. Shaped(ps[k]) /\ ps[k].arg <= second.arg
        BY <1>4, <3>1
      <4>2. Shaped(second)
        <5>1. m \in 0 .. m
          OBVIOUS
        <5>2. Shaped(ps[m])
          BY <1>4, <5>1
        <5> QED BY <1>3, <5>2
      <4>3. ps[k].arg \in Nat /\ second.arg \in Nat
        BY <4>1, <4>2 DEF Shaped
      <4>4. Len(rest) \in Nat
        BY <1>t
      <4>5. ps[k].arg <= Len(rest) + 1
        BY <1>t, <4>1, <4>3, <4>4
      <4> QED BY <3>3, <4>5
    <3>6. Parsed(After(first, ps[k - 1]), g[k], args) = After(first, Parsed(ps[k - 1], g[k], rest))
      <4> DEFINE r == ps[k - 1]
                 ch == g[k]
      <4>1. ch \in Nat /\ Prints(r) /\ Prints(first) /\ Enough(rest, Parsed(r, ch, rest))
        BY <1>2, <1>t, <3>1, <3>4, <3>5 DEF Prints, Enough
      <4> HIDE DEF r, ch
      <4>2. Parsed(After(first, r), ch, args) = After(first, Parsed(r, ch, rest))
        BY <1>d, <1>e, <4>1, ParsedAfter
      <4> QED BY <4>2 DEF r, ch
    <3>7. pb[k] = After(first, ps[k])
      BY <3>2, <3>3, <3>6
    <3> QED BY <3>1, <3>7
  <2>3. \A k \in 0 .. m : k \in P
    <3> HIDE DEF P
    <3> QED BY <2>1, <2>2, Turns, Zenon
  <2> QED BY <2>3
<1>8. m \in 0 .. m
  OBVIOUS
<1> QED BY <1>3, <1>5, <1>7, <1>8

-----------------------------------------------------------------------------
\* The formats of the run: one conversion, or one character.
ItemKinds == {i \in Seq(Nat) : \/ Len(i) = 1 /\ i[1] # Percent
                               \/ Len(i) = 2 /\ i[1] = Percent /\ i[2] # Hash
                               \/ Len(i) = 3 /\ i[1] = Percent /\ i[2] = Hash /\ i[3] # Hash}

\* The items of the run are of the kinds of the theorem.
LEMMA ItemsAre == Items \subseteq ItemKinds
<1> SUFFICES ASSUME NEW i \in Items PROVE i \in ItemKinds
  OBVIOUS
<1>1. CASE i = <<97>>
  BY <1>1, LettersAre DEF ItemKinds
<1>2. CASE i \in {<<Percent, Percent>>, <<Percent, 97>>}
  <2>1. CASE i = <<Percent, Percent>>
    BY <2>1, LettersAre DEF ItemKinds
  <2>2. CASE i = <<Percent, 97>>
    BY <2>2, LettersAre DEF ItemKinds
  <2> QED BY <1>2, <2>1, <2>2
<1>3. CASE i = <<Percent, Hash, Conversions.x>>
  BY <1>3, LettersAre DEF ItemKinds
<1>4. CASE i \in {<<Percent, Conversions[k]>> : k \in DOMAIN Conversions}
  <2>1. PICK k \in DOMAIN Conversions : i = <<Percent, Conversions[k]>>
    BY <1>4
  <2>2. Conversions[k] \in Nat \ {Hash}
    BY LettersAre DEF Conversions
  <2> QED BY <2>1, <2>2, LettersAre DEF ItemKinds
<1> QED BY <1>1, <1>2, <1>3, <1>4 DEF Items

\* When a conversion begins and ends.
LEMMA ConversionIs ==
    ASSUME NEW r, Shaped(r), NEW ch, NEW args
    PROVE  /\ ~r.conversion => (Parsed(r, ch, args).conversion <=> ch = Percent)
           /\ r.conversion => (Parsed(r, ch, args).conversion <=> ch = Hash)
<1> DEFINE z == Parsed(r, ch, args)
<1>s. /\ r.conversion \in BOOLEAN
      /\ r = [out |-> r.out, arg |-> r.arg, conversion |-> r.conversion, alternate |-> r.alternate]
  BY DEF Shaped
<1>1. CASE ~r.conversion /\ ch = Percent
  <2>1. z = [r EXCEPT !.conversion = TRUE]
    BY <1>1, ParsedIs
  <2> HIDE DEF z
  <2>2. z.conversion = TRUE
    BY <1>s, <2>1
  <2> QED BY <1>1, <2>2 DEF z
<1>2. CASE ~r.conversion /\ ch # Percent
  <2> DEFINE one == <<ch>>
  <2>1. z = Put(r, one, 0)
    BY <1>2, ParsedIs
  <2> HIDE DEF z, one
  <2>2. z.conversion = FALSE
    BY <2>1, PutIs
  <2> QED BY <1>2, <2>2 DEF z
<1>3. CASE r.conversion /\ ch = Hash
  <2>1. z = [r EXCEPT !.alternate = TRUE]
    BY <1>3, ParsedIs
  <2> HIDE DEF z
  <2>2. z.conversion = TRUE
    BY <1>s, <1>3, <2>1
  <2> QED BY <1>3, <2>2 DEF z
<1>4. CASE r.conversion /\ ch # Hash
  <2> DEFINE text == Conveyed(r.alternate, ch, args[r.arg])
             used == IF Takes(ch) THEN 1 ELSE 0
  <2>1. z = Put(r, text, used)
    BY <1>4, ParsedIs
  <2> HIDE DEF z, text, used
  <2>2. z.conversion = FALSE
    BY <2>1, PutIs
  <2> QED BY <1>4, <2>2 DEF z
<1> QED BY <1>1, <1>2, <1>3, <1>4, <1>s

\* A parser between two conversions.
Between(r) == Shaped(r) /\ ~r.conversion

\* One conversion, or one character, takes at most one argument and ends where it ends.
LEMMA ItemPrinted ==
    ASSUME NEW p, Between(p), NEW i \in ItemKinds, NEW args
    PROVE  Between(Printing(p, i, args)) /\ Printing(p, i, args).arg <= p.arg + 1
<1>1. i \in Seq(Nat) /\ Len(i) \in 1 .. 3
  BY DEF ItemKinds
<1>2. PICK f : Parses(f, p, i, args) /\ Printing(p, i, args) = f[Len(i)]
  BY <1>1, ParserRuns
<1>3. f[0] = p /\ \A k \in 1 .. Len(i) : f[k] = Parsed(f[k - 1], i[k], args)
  BY <1>1, <1>2, ParsesIs
<1>4. Shaped(p) /\ p.arg \in Nat /\ ~p.conversion
  BY DEF Between, Shaped
<1>5. f[1] = Parsed(p, i[1], args)
  <2>1. 1 \in 1 .. Len(i) /\ 1 - 1 = 0
    BY <1>1
  <2> QED BY <1>3, <2>1
<1>6. Shaped(f[1]) /\ (f[1].conversion <=> i[1] = Percent) /\ f[1].arg = p.arg
  BY <1>4, <1>5, ConversionIs, ShapeKept
<1>7. Len(i) >= 2 => f[2] = Parsed(f[1], i[2], args)
  <2>1. Len(i) >= 2 => 2 \in 1 .. Len(i) /\ 2 - 1 = 1
    BY <1>1
  <2> QED BY <1>3, <2>1
<1>8. Len(i) >= 3 => f[3] = Parsed(f[2], i[3], args)
  <2>1. Len(i) >= 3 => 3 \in 1 .. Len(i) /\ 3 - 1 = 2
    BY <1>1
  <2> QED BY <1>3, <2>1
<1>9. CASE Len(i) = 1 /\ i[1] # Percent
  BY <1>2, <1>4, <1>6, <1>9 DEF Between
<1>10. CASE Len(i) = 2 /\ i[1] = Percent /\ i[2] # Hash
  <2>0. Shaped(f[1]) /\ f[1].conversion /\ f[2] = Parsed(f[1], i[2], args)
    BY <1>6, <1>7, <1>10
  <2>1. Shaped(f[2]) /\ ~f[2].conversion
    BY <1>10, <2>0, ConversionIs, ShapeKept
  <2>2. f[2].arg = p.arg + IF f[1].conversion /\ Takes(i[2]) THEN 1 ELSE 0
    BY <1>6, <1>7, <1>10, ShapeKept
  <2>3. f[2].arg <= p.arg + 1
    BY <1>4, <2>2
  <2> QED BY <1>2, <1>10, <2>1, <2>3 DEF Between
<1>11. CASE Len(i) = 3 /\ i[1] = Percent /\ i[2] = Hash /\ i[3] # Hash
  <2>0. Shaped(f[1]) /\ f[1].conversion /\ f[2] = Parsed(f[1], i[2], args)
    BY <1>6, <1>7, <1>11
  <2>1. Shaped(f[2]) /\ f[2].conversion
    BY <1>11, <2>0, ConversionIs, ShapeKept
  <2>2. f[2].arg = p.arg
    <3>1. ~Takes(i[2])
      BY <1>11, LettersAre DEF Takes
    <3>2. f[2].arg = p.arg + IF f[1].conversion /\ Takes(i[2]) THEN 1 ELSE 0
      BY <1>6, <1>7, <1>11, ShapeKept
    <3> QED BY <1>4, <3>1, <3>2
  <2>3. Shaped(f[3]) /\ ~f[3].conversion
    BY <1>8, <1>11, <2>1, ConversionIs, ShapeKept
  <2>4. f[3].arg = p.arg + IF f[2].conversion /\ Takes(i[3]) THEN 1 ELSE 0
    BY <1>8, <1>11, <2>1, <2>2, ShapeKept
  <2>5. f[3].arg <= p.arg + 1
    BY <1>4, <2>4
  <2> QED BY <1>2, <1>11, <2>3, <2>5 DEF Between
<1> QED BY <1>9, <1>10, <1>11 DEF ItemKinds

\* So are its arguments.
LEMMA ArgsTyped == Args \in Seq(Arguments) /\ Len(Args) = 3
<1>1. WORD_BITS \in Nat \ {0} /\ WORD_BITS >= 4
  BY WidthAssumption
<1>2. Pow2[WORD_BITS] \in Nat /\ Pow2[WORD_BITS] >= 16
  <2>0. /\ Pow2[0] = 1 /\ \A i \in 0 .. WORD_BITS : Pow2[i] \in Nat \ {0}
        /\ \A i \in 1 .. WORD_BITS : Pow2[i] = 2 * Pow2[i - 1]
    BY Powers
  <2>1. Pow2[4] = 16
    <3>1. Pow2[1] = 2 * Pow2[0] /\ Pow2[2] = 2 * Pow2[1] /\ Pow2[3] = 2 * Pow2[2] /\ Pow2[4] = 2 * Pow2[3]
      <4>1. /\ 1 \in 1 .. WORD_BITS /\ 2 \in 1 .. WORD_BITS /\ 3 \in 1 .. WORD_BITS /\ 4 \in 1 .. WORD_BITS
            /\ 1 - 1 = 0 /\ 2 - 1 = 1 /\ 3 - 1 = 2 /\ 4 - 1 = 3
        BY <1>1
      <4> QED BY <2>0, <4>1
    <3> QED BY <2>0, <3>1
  <2> DEFINE n == WORD_BITS
             P == {k \in 0 .. n : k >= 4 => Pow2[k] >= 16}
  <2>2. 0 \in P
    BY <1>1
  <2>3. ASSUME NEW k \in 1 .. n, k - 1 \in P PROVE k \in P
    <3>1. Pow2[k] = 2 * Pow2[k - 1] /\ Pow2[k - 1] \in Nat /\ k \in 0 .. n /\ k - 1 \in 0 .. n
      BY <1>1, <2>0
    <3>2. CASE k = 4
      BY <2>1, <3>1, <3>2
    <3>3. CASE k > 4
      <4>1. Pow2[k - 1] >= 16
        BY <2>3, <3>3
      <4> QED BY <3>1, <4>1
    <3>4. CASE k < 4
      BY <3>1, <3>4
    <3> QED BY <3>2, <3>3, <3>4
  <2>4. \A k \in 0 .. n : k \in P
    <3>1. n \in Nat
      BY <1>1
    <3> HIDE DEF P, n
    <3> QED BY <2>2, <2>3, <3>1, Turns, Zenon
  <2>5. n \in P
    BY <1>1, <2>4
  <2>6. Pow2[n] \in Nat
    BY <1>1, <2>0
  <2> QED BY <1>1, <2>5, <2>6
<1> DEFINE top == Pow2[WORD_BITS]
           N(i) == <<top - 7, 7, 13>>[i]
           S(i) == SubSeq(<<98, 97>>, 1, i - 1)
<1>3. \A i \in 1 .. 3 : N(i) \in WordValues
  <2> SUFFICES \A i \in 1 .. 3 : N(i) \in 0 .. top - 1
    BY DEF WordValues
  <2> HIDE DEF top
  <2> QED BY <1>2 DEF top
<1>4. \A i \in 1 .. 3 : S(i) \in Seq(Nat)
  <2> TAKE i \in 1 .. 3
  <2>1. \A j \in 1 .. i - 1 : <<98, 97>>[j] \in Nat
    OBVIOUS
  <2>2. 1 \in Int /\ i - 1 \in Int
    OBVIOUS
  <2> QED BY <2>1, <2>2, SubSeqProperties
<1>5. Args = [i \in 1 .. 3 |-> [n |-> N(i), s |-> S(i)]]
  BY DEF Args
<1> HIDE DEF N, S
<1>6. \A i \in 1 .. 3 : [n |-> N(i), s |-> S(i)] \in Arguments
  BY <1>3, <1>4 DEF Arguments
<1> HIDE DEF Arguments
<1> QED BY <1>5, <1>6

\* The formats of the run end between two conversions.
LEMMA FormatsEnd ==
    ASSUME NEW f \in Formats, NEW args
    PROVE  f \in Seq(Nat) /\ Between(printf(f, args)) /\ printf(f, args).arg <= 3
<1>s. \A format : printf(format, args) = Printing(Start, format, args)
  BY DEF printf, Start
<1>b. Between(Start) /\ Start.arg = 1
  BY StartShaped DEF Between
<1>k. ItemKinds \subseteq Seq(Nat)
  BY DEF ItemKinds
<1>1. CASE f \in Items
  <2>1. Between(printf(f, args)) /\ printf(f, args).arg <= Start.arg + 1 /\ f \in Seq(Nat)
    BY <1>1, <1>b, <1>k, <1>s, ItemsAre, ItemPrinted
  <2>2. printf(f, args).arg \in Nat
    BY <2>1 DEF Between, Shaped
  <2> QED BY <1>b, <2>1, <2>2
<1>2. CASE f \in {i \o j : i, j \in Items}
  <2>1. PICK i \in Items, j \in Items : f = i \o j
    BY <1>2
  <2>2. i \in ItemKinds /\ j \in ItemKinds /\ i \in Seq(Nat) /\ j \in Seq(Nat)
    BY <1>k, ItemsAre
  <2> DEFINE r == Printing(Start, i, args)
             z == Printing(r, j, args)
  <2>3. Between(r) /\ r.arg <= Start.arg + 1
    BY <1>b, <2>2, ItemPrinted
  <2>4. printf(f, args) = z
    <3>1. Printing(Start, i \o j, args) = z
      BY <2>2, PrintingOn
    <3> QED BY <1>s, <2>1, <3>1
  <2> HIDE DEF r
  <2>5. Between(z) /\ z.arg <= r.arg + 1
    BY <2>2, <2>3, ItemPrinted
  <2> HIDE DEF z
  <2>6. z.arg \in Nat /\ r.arg \in Nat
    BY <2>3, <2>5 DEF Between, Shaped
  <2>7. z.arg <= 3
    BY <1>b, <2>3, <2>5, <2>6
  <2>8. f \in Seq(Nat)
    BY <2>1, <2>2
  <2> QED BY <2>4, <2>5, <2>7, <2>8
<1> QED BY <1>1, <1>2 DEF Formats

\* Every number and every pair of formats of the run prints right, for every width of
\* a word (lib.c:85-193, 426-475).
THEOREM FormatsPrint == Spec => []PrintsRight
<1>1. ASSUME NEW v \in WordValues
      PROVE  /\ Value(Hex(v), 16) = v /\ NoLeadingZero(Hex(v))
             /\ strcpy(conv_buf, itoa(v, conv_buf, 0, 10)) = itoa(v, conv_buf, 0, 10)
             /\ Value(Unsigned(v), 10) = v /\ NoLeadingZero(Unsigned(v))
             /\ Len(Padded(v)) = HexDigits /\ Value(Padded(v), 16) = v
             /\ IF AsSigned(v) >= 0 THEN Signed(v) = Unsigned(v)
                ELSE Signed(v)[1] = Minus /\ Tail(Signed(v)) = Unsigned(-AsSigned(v))
  <2>1. /\ Value(Hex(v), 16) = v /\ NoLeadingZero(Hex(v))
        /\ Value(Unsigned(v), 10) = v /\ NoLeadingZero(Unsigned(v))
    BY NumbersPrint DEF Says
  <2>2. Len(Padded(v)) = HexDigits /\ Value(Padded(v), 16) = v
    BY PaddedPrints
  <2>3. PICK top \in Nat \ {0}, half \in Nat \ {0} :
            top = Pow2[WORD_BITS] /\ half = Pow2[WORD_BITS - 1] /\ v \in 0 .. top - 1
    <3>1. WORD_BITS - 1 \in 0 .. WORD_BITS /\ WORD_BITS \in 0 .. WORD_BITS
      BY WidthAssumption
    <3> QED BY <3>1, Powers DEF WordValues
  <2>4. CASE v < half
    <3>1. AsSigned(v) = v /\ Signed(v) = Unsigned(v)
      BY <2>3, <2>4 DEF AsSigned, Signed
    <3> QED BY <2>1, <2>2, <2>3, <3>1, DecimalCopied
  <2>5. CASE ~(v < half)
    <3>1. AsSigned(v) = v - top /\ ~(v - top >= 0) /\ -(v - top) = top - v
      BY <2>3, <2>5 DEF AsSigned
    <3>2. top - v \in WordValues /\ Signed(v) = <<Minus>> \o Unsigned(top - v)
      BY <2>3, <2>5, NegativesPrint
    <3>3. Signed(v)[1] = Minus /\ Tail(Signed(v)) = Unsigned(top - v)
      <4>1. PICK u \in Seq(Nat) : u = Unsigned(top - v)
        BY <3>2, NumbersPrint DEF Says
      <4>2. Minus \in Nat
        BY DEF Minus
      <4>3. (<<Minus>> \o u)[1] = Minus /\ Tail(<<Minus>> \o u) = u
        BY <4>2
      <4> QED BY <3>2, <4>1, <4>3
    <3>4. -AsSigned(v) = top - v /\ ~(AsSigned(v) >= 0)
      BY <3>1
    <3> QED BY <2>1, <2>2, <3>3, <3>4, DecimalCopied
  <2> QED BY <2>4, <2>5
<1>2. ASSUME NEW f \in Formats, NEW g \in Items, NEW first, first = printf(f, Args), first.arg <= Len(Args)
      PROVE  printf(f \o g, Args).out = first.out \o printf(g, SubSeq(Args, first.arg, Len(Args))).out
  <2> DEFINE rest == SubSeq(Args, first.arg, Len(Args))
             second == printf(g, rest)
  <2>1. f \in Seq(Nat) /\ Between(first) /\ g \in ItemKinds /\ g \in Seq(Nat)
    BY <1>2, FormatsEnd, ItemsAre DEF ItemKinds
  <2>2. Enough(Args, first)
    <3>1. first.arg \in Nat
      BY <2>1 DEF Between, Shaped
    <3>2. first.arg <= Len(Args) + 1
      <4>1. PICK n \in Nat : n = Len(Args)
        BY ArgsTyped
      <4>2. PICK k \in Nat : k = first.arg
        BY <3>1
      <4>3. k <= n
        BY <1>2, <4>1, <4>2
      <4> HIDE <1>2
      <4> QED BY <4>1, <4>2, <4>3
    <3> QED BY <3>2, ArgsTyped DEF Enough
  <2>3. rest \in Seq(Arguments) /\ Len(rest) = Len(Args) - first.arg + 1
    <3>1. first.arg \in Nat \ {0} /\ first.arg <= Len(Args) + 1
      BY <2>1, <2>2 DEF Between, Shaped, Enough
    <3>2. PICK k \in Nat \ {0} : k = first.arg
      BY <3>1
    <3>3. rest = SubSeq(Args, k, Len(Args)) /\ k <= Len(Args) + 1 /\ Args \in Seq(Arguments)
      BY <3>1, <3>2, ArgsTyped
    <3> HIDE DEF rest
    <3>4. rest \in Seq(Arguments) /\ Len(rest) = Len(Args) - k + 1
      BY <3>3, RestIs
    <3> QED BY <3>2, <3>4
  <2>4. Between(second) /\ second.arg <= Start.arg + 1
    <3>1. Between(Start) /\ second = Printing(Start, g, rest)
      BY StartShaped DEF printf, Start, Between
    <3> QED BY <2>1, <3>1, ItemPrinted
  <2>5. Enough(rest, second)
    <3>1. second.arg \in Nat /\ first.arg \in Nat
      BY <2>1, <2>4 DEF Between, Shaped
    <3>2. second.arg <= Len(rest) + 1
      BY <1>2, <2>3, <2>4, <3>1, ArgsTyped, StartShaped
    <3> QED BY <2>3, <3>2 DEF Enough
  <2>6. printf(f \o g, Args) = After(first, second)
    <3>1. ~first.conversion
      BY <2>1 DEF Between
    <3>2. rest = Left(Args, printf(f, Args)) /\ first = printf(f, Args) /\ second = printf(g, rest)
      BY <1>2 DEF Left
    <3> HIDE DEF rest, second
    <3>3. Enough(Left(Args, printf(f, Args)), printf(g, Left(Args, printf(f, Args))))
      BY <2>5, <3>2
    <3>4. ~printf(f, Args).conversion /\ Enough(Args, printf(f, Args))
      BY <2>2, <3>1, <3>2
    <3>5. printf(f \o g, Args) = After(printf(f, Args), printf(g, Left(Args, printf(f, Args))))
      BY <2>1, <3>3, <3>4, FormatsCompose
    <3> QED BY <3>2, <3>5
  <2> HIDE DEF second
  <2>7. After(first, second).out = first.out \o second.out
    BY DEF After
  <2> QED BY <2>6, <2>7 DEF second
<1>3. call \in Calls => PrintsRight
  <2> SUFFICES ASSUME call \in Calls PROVE PrintsRight
    OBVIOUS
  <2>1. call.routine = "number" => call.v \in WordValues
    BY CallKinds DEF NumberCalls, WordValues
  <2>2. call.routine = "printf" => call.f \in Formats /\ call.g \in Items
    BY CallKinds DEF FormatCalls
  <2> QED BY <1>1, <1>2, <2>1, <2>2 DEF PrintsRight
<1> QED BY <1>3, CallsMade, PTL

\* No call of a translation leads a process out of its own memory.
THEOREM PagesConfined == Spec => []UserConfined
<1>1. call \in Calls => UserConfined
  <2> SUFFICES ASSUME call \in Calls, call.routine = "translate"
               PROVE  Confined(call.pid, call.index)
    BY DEF UserConfined
  <2>1. call \in PageCalls
    BY CallKinds
  <2>2. call.pid \in Nat /\ call.index \in 0 .. NUM_PDE - 1
    BY <2>1 DEF PageCalls, NUM_PDE
  <2> QED BY <2>2, Confinement
<1> QED BY <1>1, CallsMade, PTL

\* The keys of a run of the specification are the keyboard's alone.
THEOREM KeysInstance == Spec => ScanSpec
<1>1. Init => ScanInit
  BY DEF Init
<1>2. [Next]_vars => [ScanNext]_scan
  BY DEF Next, vars, Call, Return, PressKeys
<1> QED BY <1>1, <1>2, PTL DEF Spec, ScanSpec

-----------------------------------------------------------------------------
\* A text of which the first d bytes are searched: a line begins there, or one that
\* filled the buffer has ended there.
Fresh(text, d)    == d = 0 \/ text[d] = Newline
Spent(text, d)    == d # 0 /\ text[d] # Newline /\ (d < Len(text) => text[d + 1] = Newline)
Searchable(text, d) == d \in 0 .. Len(text) /\ (Fresh(text, d) \/ Spent(text, d))

\* The bytes from there to e are the rest of a line.
Whole(text, d, e) ==
    /\ e \in d .. Len(text) /\ \A k \in d + 1 .. e : text[k] # Newline
    /\ e < Len(text) => text[e + 1] = Newline

Part(text, d, e) == [i \in 1 .. e - d |-> text[d + i]]
Has(text, s, d, e) ==
    \E k \in d .. e - 1 : k + Len(s) <= e /\ \A j \in 1 .. Len(s) : text[k + j] = s[j]
Printed(fname, line) == ((fname \o <<Colon>>) \o line) \o <<Newline>>
Hit(text, s, fname, d, e) == IF Has(text, s, d, e) THEN Printed(fname, Part(text, d, e)) ELSE <<>>

\* What grep should print for each byte of the text that begins a line.
Hits(text, s, fname) ==
    [i \in 1 .. Len(text) |-> IF LineBegins(text, i) /\ Matched(LineAt(text, i), s)
                              THEN Printed(fname, LineAt(text, i)) ELSE <<>>]

\* What Part takes from a text.
LEMMA PartTyped ==
    ASSUME NEW text \in Seq(Nat), NEW d \in Nat, NEW e \in d .. Len(text)
    PROVE  /\ Part(text, d, e) \in Seq(Nat) /\ Len(Part(text, d, e)) = e - d
           /\ \A i \in 1 .. e - d : Part(text, d, e)[i] = text[d + i]
<1>1. PICK n \in Nat : n = Len(text)
  OBVIOUS
<1>2. PICK l \in Nat : l = e - d
  BY <1>1
<1>3. \A i \in 1 .. l : text[d + i] \in Nat
  <2> TAKE i \in 1 .. l
  <2>1. d + i \in 1 .. n
    BY <1>1, <1>2
  <2> QED BY <1>1, <2>1
<1>4. Part(text, d, e) = [i \in 1 .. l |-> text[d + i]]
  BY <1>2 DEF Part
<1>5. Part(text, d, e) \in [1 .. l -> Nat]
  BY <1>3, <1>4
<1>6. Part(text, d, e) \in Seq(Nat)
  BY <1>5
<1>7. Len(Part(text, d, e)) = l
  BY <1>5, <1>6
<1> QED BY <1>2, <1>4, <1>6, <1>7

\* What grep prints is a text.
LEMMA PrintedTyped ==
    ASSUME NEW fname \in Seq(Nat), NEW line \in Seq(Nat)
    PROVE  Printed(fname, line) \in Seq(Nat)
<1>1. <<Colon>> \in Seq(Nat) /\ <<Newline>> \in Seq(Nat)
  BY DEF Colon, Newline
<1>2. fname \o <<Colon>> \in Seq(Nat)
  BY <1>1
<1>3. (fname \o <<Colon>>) \o line \in Seq(Nat)
  BY <1>2
<1>4. ((fname \o <<Colon>>) \o line) \o <<Newline>> \in Seq(Nat)
  BY <1>1, <1>3
<1> QED BY <1>4 DEF Printed

\* Also of a line that may not match.
LEMMA HitTyped ==
    ASSUME NEW text \in Seq(Nat), NEW s, NEW fname \in Seq(Nat), NEW d \in Nat, NEW e \in d .. Len(text)
    PROVE  Hit(text, s, fname, d, e) \in Seq(Nat)
<1>1. Printed(fname, Part(text, d, e)) \in Seq(Nat)
  BY PartTyped, PrintedTyped
<1>2. <<>> \in Seq(Nat)
  OBVIOUS
<1> QED BY <1>1, <1>2 DEF Hit

\* A line ends somewhere, and LineAt is the line.
LEMMA LineEnds ==
    ASSUME NEW text \in Seq(Nat), NEW d \in 0 .. Len(text) - 1
    PROVE  \E e \in d .. Len(text) : Whole(text, d, e) /\ LineAt(text, d + 1) = Part(text, d, e)
<1>n. PICK n \in Nat : n = Len(text) /\ d < n
  OBVIOUS
<1>d. PICK b \in 1 .. n : b = d + 1
  BY <1>n
<1> DEFINE S == {j \in b .. n : text[j] = Newline} \cup {n + 1}
<1>1. S \subseteq Nat /\ S # {} /\ \A x \in S : x \in b .. n + 1
  BY <1>n, <1>d
<1>2. Min(S) \in S /\ \A x \in S : Min(S) <= x
  <2> HIDE DEF S
  <2> QED BY <1>1, LeastOf
<1>3. PICK x \in b .. n + 1 : x = Min(S) /\ (x = n + 1 \/ text[x] = Newline)
  <2>1. Min(S) \in b .. n + 1
    <3> HIDE DEF S
    <3> QED BY <1>1, <1>2
  <2> QED BY <1>2, <2>1
<1>4. ASSUME NEW k \in b .. n, k < x, text[k] = Newline PROVE FALSE
  <2>1. k \in S
    BY <1>4
  <2>2. x <= k
    <3> HIDE DEF S
    <3> QED BY <1>2, <1>3, <2>1
  <2> QED BY <1>3, <1>4, <2>2
<1>5. LineAt(text, b) = SubSeq(text, b, x - 1)
  BY <1>n, <1>3 DEF LineAt
<1> HIDE DEF S
<1>6. PICK e \in d .. n : e = x - 1 /\ e + 1 = x
  BY <1>d, <1>3, <1>n
<1>7. Whole(text, d, e)
  <2>1. \A k \in d + 1 .. e : text[k] # Newline
    <3> TAKE k \in d + 1 .. e
    <3>1. k \in b .. n /\ k < x
      BY <1>d, <1>6
    <3> QED BY <1>4, <3>1
  <2>2. e < n => text[e + 1] = Newline
    BY <1>3, <1>6
  <2> QED BY <1>n, <2>1, <2>2 DEF Whole
<1>8. SubSeq(text, b, e) = Part(text, d, e)
  <2>1. b \in Nat \ {0} /\ e \in Nat /\ e <= Len(text) /\ b <= e + 1 /\ e - b + 1 = e - d /\ b - 1 = d
    BY <1>d, <1>6, <1>n
  <2>2. /\ SubSeq(text, b, e) \in Seq(Nat) /\ Len(SubSeq(text, b, e)) = e - b + 1
        /\ \A i \in 1 .. e - b + 1 : SubSeq(text, b, e)[i] = text[b - 1 + i]
    BY <2>1, PartIs
  <2>3. PICK l \in Nat : l = e - d /\ l = e - b + 1
    BY <2>1, <1>6
  <2>4. SubSeq(text, b, e) = [i \in 1 .. l |-> SubSeq(text, b, e)[i]]
    BY <2>2, <2>3
  <2>5. \A i \in 1 .. l : SubSeq(text, b, e)[i] = text[d + i]
    BY <2>1, <2>2, <2>3
  <2> QED BY <2>3, <2>4, <2>5 DEF Part
<1> QED BY <1>5, <1>6, <1>7, <1>8, <1>n, <1>d

\* A line has one end.
LEMMA WholeOnce ==
    ASSUME NEW text \in Seq(Nat), NEW d \in 0 .. Len(text), NEW e, NEW f,
           Whole(text, d, e), Whole(text, d, f)
    PROVE  e = f
<1>n. PICK n \in Nat : n = Len(text)
  OBVIOUS
<1>1. /\ e \in d .. n /\ \A k \in d + 1 .. e : text[k] # Newline
      /\ e < n => text[e + 1] = Newline
      /\ f \in d .. n /\ \A k \in d + 1 .. f : text[k] # Newline
      /\ f < n => text[f + 1] = Newline
  BY <1>n DEF Whole
<1>2. CASE e < f
  <2>1. e + 1 \in d + 1 .. f /\ e < n
    BY <1>1, <1>2, <1>n
  <2> QED BY <1>1, <2>1
<1>3. CASE f < e
  <2>1. f + 1 \in d + 1 .. e /\ f < n
    BY <1>1, <1>3, <1>n
  <2> QED BY <1>1, <2>1
<1> QED BY <1>1, <1>2, <1>3

\* A line contains the pattern if the text does within it.
LEMMA MatchIs ==
    ASSUME NEW text \in Seq(Nat), NEW s \in Seq(Nat), s # <<>>, NEW d \in Nat, NEW e \in d .. Len(text)
    PROVE  Matched(Part(text, d, e), s) <=> Has(text, s, d, e)
<1> DEFINE line == Part(text, d, e)
<1>l. PICK l \in Nat : l = e - d
  OBVIOUS
<1>m. PICK m \in Nat \ {0} : m = Len(s)
  OBVIOUS
<1>1. line \in Seq(Nat) /\ Len(line) = l /\ \A i \in 1 .. l : line[i] = text[d + i]
  BY <1>l, PartTyped
<1> HIDE DEF line
<1>2. ASSUME NEW k \in 0 .. l - m
      PROVE  SubSeq(line, k + 1, k + m) = s <=> \A j \in 1 .. m : text[(d + k) + j] = s[j]
  <2>1. PICK b \in Nat \ {0}, c \in Nat : b = k + 1 /\ c = k + m /\ c <= Len(line) /\ b <= c + 1 /\ c - b + 1 = m /\ b - 1 = k
    <3>1. k + 1 \in Nat \ {0} /\ k + m \in Nat /\ k + m <= Len(line) /\ k + 1 <= (k + m) + 1
          /\ (k + m) - (k + 1) + 1 = m /\ (k + 1) - 1 = k
      BY <1>1
    <3> QED BY <3>1
  <2>2. /\ SubSeq(line, b, c) \in Seq(Nat) /\ Len(SubSeq(line, b, c)) = c - b + 1
        /\ \A i \in 1 .. c - b + 1 : SubSeq(line, b, c)[i] = line[b - 1 + i]
    BY <1>1, <2>1, PartIs
  <2>3. \A j \in 1 .. m : SubSeq(line, b, c)[j] = text[(d + k) + j]
    <3> TAKE j \in 1 .. m
    <3>1. PICK i \in 1 .. l : i = k + j /\ d + i = (d + k) + j
      <4>1. k + j \in 1 .. l /\ d + (k + j) = (d + k) + j
        OBVIOUS
      <4> QED BY <4>1
    <3>2. SubSeq(line, b, c)[j] = line[i]
      BY <2>1, <2>2, <3>1
    <3> QED BY <1>1, <3>1, <3>2
  <2>4. SubSeq(line, b, c) = [j \in 1 .. m |-> SubSeq(line, b, c)[j]]
    BY <2>1, <2>2
  <2>5. s = [j \in 1 .. m |-> s[j]]
    BY <1>m
  <2>6. SubSeq(line, b, c) = s <=> \A j \in 1 .. m : SubSeq(line, b, c)[j] = s[j]
    BY <2>4, <2>5
  <2> QED BY <2>1, <2>3, <2>6
<1>3. ASSUME Matched(line, s) PROVE Has(text, s, d, e)
  <2>1. PICK k \in 0 .. l - m : SubSeq(line, k + 1, k + m) = s
    BY <1>1, <1>3, <1>m DEF Matched
  <2>2. \A j \in 1 .. m : text[(d + k) + j] = s[j]
    BY <1>2, <2>1
  <2>3. d + k \in d .. e - 1 /\ (d + k) + m <= e
    BY <1>l, <1>m
  <2> QED BY <1>m, <2>2, <2>3 DEF Has
<1>4. ASSUME Has(text, s, d, e) PROVE Matched(line, s)
  <2>1. PICK x \in d .. e - 1 : x + m <= e /\ \A j \in 1 .. m : text[x + j] = s[j]
    BY <1>4, <1>m DEF Has
  <2>2. PICK k \in 0 .. l - m : d + k = x
    <3>1. x - d \in 0 .. l - m /\ d + (x - d) = x
      BY <1>l, <1>m, <2>1
    <3> QED BY <3>1
  <2>3. SubSeq(line, k + 1, k + m) = s
    BY <1>2, <2>1, <2>2
  <2> QED BY <1>1, <1>m, <2>3 DEF Matched
<1> QED BY <1>3, <1>4 DEF line

\* What grep should print of each line is a text.
LEMMA HitsTyped ==
    ASSUME NEW text \in Seq(Nat), NEW s, NEW fname \in Seq(Nat)
    PROVE  Hits(text, s, fname) \in Alltexts(Len(text))
<1>n. PICK n \in Nat : n = Len(text)
  OBVIOUS
<1> DEFINE H == Hits(text, s, fname)
<1>1. H = [i \in 1 .. n |-> IF LineBegins(text, i) /\ Matched(LineAt(text, i), s)
                            THEN Printed(fname, LineAt(text, i)) ELSE <<>>]
  BY <1>n DEF Hits
<1>2. ASSUME NEW i \in 1 .. n PROVE H[i] \in Seq(Nat)
  <2>1. PICK d \in 0 .. Len(text) - 1 : d + 1 = i
    <3>1. i - 1 \in 0 .. Len(text) - 1 /\ (i - 1) + 1 = i
      BY <1>n
    <3> QED BY <3>1
  <2>2. PICK e \in d .. Len(text) : LineAt(text, d + 1) = Part(text, d, e)
    BY LineEnds
  <2>3. d \in Nat
    BY <1>n
  <2>4. LineAt(text, i) \in Seq(Nat)
    BY <2>1, <2>2, <2>3, PartTyped
  <2>5. Printed(fname, LineAt(text, i)) \in Seq(Nat)
    BY <2>4, PrintedTyped
  <2>6. <<>> \in Seq(Nat)
    OBVIOUS
  <2> HIDE DEF H
  <2>7. H[i] = Printed(fname, LineAt(text, i)) \/ H[i] = <<>>
    BY <1>1
  <2> QED BY <2>5, <2>6, <2>7
<1> HIDE DEF H
<1>3. H = [i \in 1 .. n |-> H[i]]
  BY <1>1
<1>4. H \in [1 .. n -> Seq(Nat)]
  BY <1>2, <1>3
<1> QED BY <1>n, <1>4 DEF Alltexts, H

\* What is to be printed of the first d bytes.
PrintedUpTo(P, text, s, fname) == Joins(P, Hits(text, s, fname), Len(text))

\* What is to be printed grows by the lines that match.
LEMMA PrintedUpToIs ==
    ASSUME NEW text \in Seq(Nat), NEW s, NEW fname, NEW P, PrintedUpTo(P, text, s, fname)
    PROVE  /\ P \in [0 .. Len(text) -> Seq(Nat)] /\ P[0] = <<>>
           /\ \A i \in 1 .. Len(text) : P[i] = P[i - 1] \o Hits(text, s, fname)[i]
BY DEF PrintedUpTo, Joins

\* Within a line nothing is added.
LEMMA NothingBetween ==
    ASSUME NEW text \in Seq(Nat), NEW s, NEW fname, NEW P, PrintedUpTo(P, text, s, fname),
           NEW i \in 1 .. Len(text), ~LineBegins(text, i)
    PROVE  P[i] = P[i - 1]
<1>1. PICK n \in Nat : n = Len(text)
  OBVIOUS
<1>a. /\ P \in [0 .. n -> Seq(Nat)]
      /\ \A k \in 1 .. n : P[k] = P[k - 1] \o Hits(text, s, fname)[k]
  BY <1>1 DEF PrintedUpTo, Joins
<1>2. Hits(text, s, fname)[i] = <<>>
  BY DEF Hits
<1>3. P[i] = P[i - 1] \o <<>>
  <2>1. i \in 1 .. n
    BY <1>1
  <2>2. P[i] = P[i - 1] \o Hits(text, s, fname)[i]
    BY <1>a, <2>1
  <2> QED BY <1>2, <2>2
<1>4. i - 1 \in 0 .. n
  BY <1>1
<1>5. P[i - 1] \in Seq(Nat)
  BY <1>a, <1>4
<1>6. P[i - 1] \o <<>> = P[i - 1]
  BY <1>5
<1> QED BY <1>3, <1>6

\* No line is longer than the buffer.
Fits(text) == \A i \in 1 .. Len(text) : LineBegins(text, i) => Len(LineAt(text, i)) <= BUFSIZE
Greps(text, s, fname, P) ==
    /\ text \in Seq(Nat) /\ s \in Seq(Nat) /\ s # <<>> /\ fname \in Seq(Nat)
    /\ PrintedUpTo(P, text, s, fname) /\ Fits(text)

\* The line after the first d bytes ends with the e-th, and x is there or after its newline.
LineTo(text, d, e, x) ==
    /\ Searchable(text, d) /\ Whole(text, d, e)
    /\ x \in 0 .. Len(text) /\ (x = e \/ x = e + 1)

Handled(text, s, fname, P, d, e, x) == P[x] = P[d] \o Hit(text, s, fname, d, e)

\* With the line after the first d bytes searched, what is to be printed of all up to
\* it, or with its newline.
LEMMA LineHandled ==
    ASSUME NEW text, NEW s, NEW fname, NEW P, Greps(text, s, fname, P),
           NEW d, NEW e, NEW x, LineTo(text, d, e, x)
    PROVE  Handled(text, s, fname, P, d, e, x)
<1> USE DEF Handled
<1>h. /\ text \in Seq(Nat) /\ s \in Seq(Nat) /\ s # <<>> /\ fname \in Seq(Nat)
      /\ PrintedUpTo(P, text, s, fname)
  BY DEF Greps
<1>b. Searchable(text, d) /\ Whole(text, d, e) /\ x \in 0 .. Len(text) /\ (x = e \/ x = e + 1)
  BY DEF LineTo
<1>n. PICK n \in Nat : n = Len(text)
  BY <1>h
<1>0. /\ d \in 0 .. n /\ (Fresh(text, d) \/ Spent(text, d))
      /\ e \in d .. n /\ (\A k \in d + 1 .. e : text[k] # Newline) /\ (e < n => text[e + 1] = Newline)
  BY <1>n, <1>b DEF Searchable, Whole
<1>a. /\ P \in [0 .. n -> Seq(Nat)]
      /\ \A k \in 1 .. n : P[k] = P[k - 1] \o Hits(text, s, fname)[k]
  BY <1>n, <1>h DEF PrintedUpTo, Joins
<1>p. P[d] \in Seq(Nat) /\ P[d] \o <<>> = P[d]
  <2>1. P[d] \in Seq(Nat)
    BY <1>0, <1>a
  <2> QED BY <2>1
<1>1. ASSUME e = d PROVE Hit(text, s, fname, d, e) = <<>>
  <2>1. ~Has(text, s, d, e)
    BY <1>0, <1>1 DEF Has
  <2> QED BY <2>1 DEF Hit
<1>2. CASE x = d
  <2>1. e = d
    BY <1>0, <1>2, <1>b
  <2> QED BY <1>1, <1>2, <1>p, <2>1
<1>3. CASE Spent(text, d) /\ x # d
  <2>1. d # 0 /\ text[d] # Newline /\ d < n
    BY <1>0, <1>3, <1>b, <1>n DEF Spent
  <2>2. e = d
    <3>1. text[d + 1] = Newline
      BY <1>3, <1>n, <2>1 DEF Spent
    <3>2. d + 1 \notin d + 1 .. e
      BY <1>0, <3>1
    <3> QED BY <1>0, <3>2
  <2>3. PICK y \in 1 .. n : y = d + 1 /\ y = x /\ y - 1 = d
    BY <1>0, <1>3, <1>b, <1>n, <2>1, <2>2
  <2>4. ~LineBegins(text, y)
    BY <1>0, <2>1, <2>3 DEF LineBegins
  <2>5. P[y] = P[y - 1]
    BY <1>h, <1>n, <2>3, <2>4, NothingBetween
  <2> QED BY <1>1, <1>p, <2>2, <2>3, <2>5
<1>4. CASE Fresh(text, d) /\ x # d
  <2>1. PICK b \in 1 .. n : b = d + 1 /\ b - 1 = d /\ b <= x
    BY <1>0, <1>4, <1>b, <1>n
  <2>2. LineBegins(text, b)
    BY <1>4, <2>1 DEF Fresh, LineBegins
  <2>3. LineAt(text, b) = Part(text, d, e)
    <3>1. d \in 0 .. Len(text) - 1
      BY <1>0, <1>b, <1>n, <2>1
    <3>2. PICK f \in d .. Len(text) : Whole(text, d, f) /\ LineAt(text, d + 1) = Part(text, d, f)
      BY <1>h, <3>1, LineEnds
    <3>3. f = e
      BY <1>b, <1>h, <3>1, <3>2, <1>0, <1>n, WholeOnce
    <3> QED BY <2>1, <3>2, <3>3
  <2>4. Matched(LineAt(text, b), s) <=> Has(text, s, d, e)
    <3>1. d \in Nat /\ e \in d .. Len(text)
      BY <1>0, <1>n
    <3> QED BY <1>h, <2>3, <3>1, MatchIs
  <2>5. Hits(text, s, fname)[b] = Hit(text, s, fname, d, e)
    <3>1. b \in 1 .. Len(text)
      BY <1>n
    <3>2. Hits(text, s, fname)[b] = IF LineBegins(text, b) /\ Matched(LineAt(text, b), s)
                                    THEN Printed(fname, LineAt(text, b)) ELSE <<>>
      BY <3>1 DEF Hits
    <3> QED BY <2>2, <2>3, <2>4, <3>2 DEF Hit
  <2>6. P[b] = P[d] \o Hit(text, s, fname, d, e)
    <3>1. P[b] = P[b - 1] \o Hits(text, s, fname)[b]
      BY <1>a
    <3> QED BY <2>1, <2>5, <3>1
  <2> DEFINE f == [k \in 0 .. x - b |-> P[b + k]]
             g == [k \in 0 .. x - b |-> P[b]]
  <2>7. x - b \in Nat /\ b + (x - b) = x /\ x - b \in 0 .. x - b
    BY <1>b, <1>n, <2>1
  <2>8. f[0] = g[0]
    <3>1. 0 \in 0 .. x - b /\ b + 0 = b
      BY <2>7
    <3> QED BY <3>1
  <2>9. ASSUME NEW k \in 1 .. x - b, f[k - 1] = g[k - 1] PROVE f[k] = g[k]
    <3>1. PICK i \in 1 .. n : i = b + k /\ i - 1 = b + (k - 1) /\ i - 1 \in d + 1 .. e /\ i - 1 # 0
      <4>1. b + k \in 1 .. n /\ (b + k) - 1 = b + (k - 1) /\ (b + k) - 1 \in d + 1 .. e /\ (b + k) - 1 # 0
        BY <1>0, <1>b, <1>n, <2>1
      <4> QED BY <4>1
    <3>2. k \in 0 .. x - b /\ k - 1 \in 0 .. x - b
      BY <2>7
    <3>3. f[k] = P[i] /\ g[k] = P[b] /\ f[k - 1] = P[i - 1] /\ g[k - 1] = P[b]
      BY <3>1, <3>2
    <3> HIDE DEF f, g
    <3>4. ~LineBegins(text, i)
      BY <1>0, <3>1 DEF LineBegins
    <3>5. P[i] = P[i - 1]
      BY <1>h, <1>n, <3>4, NothingBetween
    <3> QED BY <2>9, <3>3, <3>5
  <2>10. Alike(f, g, x - b)
    <3> HIDE DEF f, g
    <3> QED BY <2>8, <2>9 DEF Alike
  <2>11. f[x - b] = g[x - b]
    <3> HIDE DEF f, g
    <3> QED BY <2>7, <2>10, AlikeTurns
  <2>12. f[x - b] = P[x] /\ g[x - b] = P[b]
    BY <2>7
  <2> HIDE DEF f, g
  <2> QED BY <2>6, <2>11, <2>12
<1> QED BY <1>0, <1>2, <1>3, <1>4

-----------------------------------------------------------------------------
\* grep's buffer: its last bytes, from start on, are those before the file's position.
Contents == [data : [0 .. BUFSIZE -> Nat], last : 0 .. BUFSIZE, position : Nat, out : Seq(Nat)]
Held(g, text, start) ==
    /\ g \in Contents /\ g.position \in 0 .. Len(text) /\ g.last <= g.position
    /\ g.data[BUFSIZE] # Newline
    /\ \A i \in start .. g.last - 1 : g.data[i] = text[(g.position - g.last) + i + 1]

\* LineTo two reads, and before a line of the buffer is searched: all before is.
Rested(g, text, P) ==
    /\ Held(g, text, 0) /\ g.last < BUFSIZE
    /\ Searchable(text, g.position - g.last) /\ g.out = P[g.position - g.last]
AtLine(g, start, text, P, cnt) ==
    /\ start \in 0 .. BUFSIZE /\ start <= g.last /\ (start = 0 \/ start < g.last)
    /\ Held(g, text, start)
    /\ Searchable(text, (g.position - g.last) + start) /\ g.out = P[(g.position - g.last) + start]
    /\ start # 0 => Fresh(text, (g.position - g.last) + start)
    /\ g.last < BUFSIZE \/ cnt = 0 => g.position = Len(text)

EndIn(g, start) == Min({i \in start .. g.last - 1 : g.data[i] = Newline} \cup {g.last})

\* EndIn is the first newline from start on, or the end of what was read.
LEMMA EndFound ==
    ASSUME NEW g \in Contents, NEW start \in 0 .. g.last
    PROVE  /\ EndIn(g, start) \in start .. g.last
           /\ \A i \in start .. EndIn(g, start) - 1 : g.data[i] # Newline
           /\ EndIn(g, start) < g.last => g.data[EndIn(g, start)] = Newline
<1>1. PICK last \in 0 .. BUFSIZE : last = g.last
  BY DEF Contents
<1>b. BUFSIZE \in Nat
  BY BufferAssumption
<1> DEFINE S == {i \in start .. last - 1 : g.data[i] = Newline} \cup {last}
<1>2. S \subseteq Nat /\ S # {} /\ (\A x \in S : x \in start .. last) /\ EndIn(g, start) = Min(S)
  BY <1>1, <1>b DEF EndIn
<1>3. Min(S) \in S /\ \A x \in S : Min(S) <= x
  <2> HIDE DEF S
  <2> QED BY <1>2, LeastOf
<1>4. PICK end \in start .. last : end = Min(S) /\ (end = last \/ g.data[end] = Newline)
  <2>1. Min(S) \in start .. last
    <3> HIDE DEF S
    <3> QED BY <1>2, <1>3
  <2> QED BY <1>3, <2>1
<1>5. ASSUME NEW i \in start .. end - 1, g.data[i] = Newline PROVE FALSE
  <2>1. i \in S
    BY <1>1, <1>4, <1>5, <1>b
  <2>2. end <= i
    <3> HIDE DEF S
    <3> QED BY <1>3, <1>4, <2>1
  <2> QED BY <1>1, <1>4, <1>b, <2>2
<1> HIDE DEF S
<1>6. end < last => g.data[end] = Newline
  BY <1>1, <1>4, <1>b
<1> QED BY <1>1, <1>2, <1>4, <1>5, <1>6

\* Two texts together are a text.
LEMMA JoinedTyped ==
    ASSUME NEW s \in Seq(Nat), NEW t \in Seq(Nat)
    PROVE  s \o t \in Seq(Nat)
OBVIOUS

AllTyped(a, b, c, d, e) ==
    a \in Seq(Nat) /\ b \in Seq(Nat) /\ c \in Seq(Nat) /\ d \in Seq(Nat) /\ e \in Seq(Nat)

AllJoined(a, b, c, d, e) == (((a \o b) \o c) \o d) \o e = a \o (((b \o c) \o d) \o e)

\* Five texts, put together from either end.
LEMMA Joined5 ==
    ASSUME NEW a, NEW b, NEW c, NEW d, NEW e, AllTyped(a, b, c, d, e)
    PROVE  AllJoined(a, b, c, d, e)
<1>1. a \in Seq(Nat) /\ b \in Seq(Nat) /\ c \in Seq(Nat) /\ d \in Seq(Nat) /\ e \in Seq(Nat)
  BY DEF AllTyped
<1>2. b \o c \in Seq(Nat)
  BY <1>1, JoinedTyped, Zenon
<1>3. (b \o c) \o d \in Seq(Nat)
  BY <1>1, <1>2, JoinedTyped, Zenon
<1>4. (a \o b) \o c = a \o (b \o c)
  BY <1>1, JoinedTexts, ZenonT(60)
<1> DEFINE x == b \o c
           y == x \o d
<1>5. a \in Seq(Nat) /\ x \in Seq(Nat) /\ y \in Seq(Nat) /\ d \in Seq(Nat) /\ e \in Seq(Nat)
  BY <1>1, <1>2, <1>3
<1> HIDE DEF x, y
<1>6. (a \o x) \o d = a \o (x \o d)
  <2>1. a \in Seq(Nat) /\ x \in Seq(Nat) /\ d \in Seq(Nat)
    BY <1>5
  <2> QED BY <2>1, JoinedTexts, Zenon
<1>7. (a \o y) \o e = a \o (y \o e)
  <2>1. a \in Seq(Nat) /\ y \in Seq(Nat) /\ e \in Seq(Nat)
    BY <1>5
  <2> QED BY <2>1, JoinedTexts, Zenon
<1> QED BY <1>4, <1>6, <1>7, Zenon DEF x, y, AllJoined

\* What grep prints comes after what it has printed.
LEMMA PrintedAfter ==
    ASSUME NEW o \in Seq(Nat), NEW fname \in Seq(Nat), NEW line \in Seq(Nat)
    PROVE  (((o \o fname) \o <<Colon>>) \o line) \o <<Newline>> = o \o Printed(fname, line)
<1>1. <<Colon>> \in Seq(Nat) /\ <<Newline>> \in Seq(Nat)
  BY DEF Colon, Newline
<1>2. AllTyped(o, fname, <<Colon>>, line, <<Newline>>)
  BY <1>1 DEF AllTyped
<1>3. AllJoined(o, fname, <<Colon>>, line, <<Newline>>)
  BY <1>2, Joined5, Zenon
<1> QED BY <1>3, Zenon DEF Printed, AllJoined

InLine(g, text, start, end, base) ==
    /\ Held(g, text, start) /\ start \in Nat /\ end \in start .. g.last
    /\ base = g.position - g.last

LineEnded(next, g, text, s, fname, start, end, base) ==
    /\ next.out = g.out \o Hit(text, s, fname, base + start, base + end)
    /\ next.last = g.last /\ next.position = g.position /\ next \in Contents
    /\ next.data = [g.data EXCEPT ![end] = Nul]

\* The search of a line finds what is in the text, and changes no more than its end.
LEMMA SearchedIs ==
    ASSUME NEW text, NEW s, NEW fname, NEW P, Greps(text, s, fname, P),
           NEW g, NEW start, NEW end, NEW base, InLine(g, text, start, end, base),
           NEW next, next = Searched(g, s, fname, start, end)
    PROVE  LineEnded(next, g, text, s, fname, start, end, base)
<1>0. text \in Seq(Nat) /\ s \in Seq(Nat) /\ s # <<>> /\ fname \in Seq(Nat)
  BY DEF Greps
<1>h. Held(g, text, start) /\ start \in Nat /\ end \in start .. g.last /\ base = g.position - g.last
  BY DEF InLine
<1>1. /\ g \in Contents /\ g.position \in 0 .. Len(text) /\ g.last <= g.position /\ g.last \in 0 .. BUFSIZE
      /\ BUFSIZE \in Nat /\ g.data \in [0 .. BUFSIZE -> Nat] /\ g.out \in Seq(Nat) /\ g.position \in Nat
      /\ g = [data |-> g.data, last |-> g.last, position |-> g.position, out |-> g.out]
  BY <1>0, <1>h, BufferAssumption DEF Held, Contents
<1>2. base \in Nat /\ base + g.last = g.position
  BY <1>1, <1>h
<1>3. \A i \in start .. g.last - 1 : g.data[i] = text[base + i + 1]
  BY <1>h DEF Held
<1>m. PICK m \in Nat \ {0} : m = Len(s)
  BY <1>0
<1>a. /\ start \in Nat /\ end \in Nat /\ base \in Nat /\ start <= end /\ end <= g.last /\ g.last \in Nat
      /\ base + g.last <= Len(text) /\ Len(text) \in Nat /\ g.last <= BUFSIZE /\ BUFSIZE \in Nat
  <2>1. g.last \in Nat /\ g.position \in 0 .. Len(text) /\ g.last <= BUFSIZE /\ BUFSIZE \in Nat
    BY <1>1
  <2> QED BY <1>2, <1>h, <2>1
<1> DEFINE d == base + start
           e == base + end
           line == Line(g.data, start, end)
           hit == \E check \in start .. end - 1 : Occurs(g.data, end, check, s)
<1>4. d \in Nat /\ e \in d .. Len(text) /\ e - d = end - start
  BY <1>a
<1>5. line = Part(text, d, e)
  <2>1. PICK l \in Nat : l = end - start /\ l = e - d
    BY <1>4, <1>a
  <2>2. \A i \in 1 .. l : g.data[start + i - 1] = text[d + i]
    <3> TAKE i \in 1 .. l
    <3>1. PICK x \in start .. g.last - 1 : x = start + i - 1 /\ base + x + 1 = d + i
      <4>1. start + i - 1 \in start .. g.last - 1 /\ base + (start + i - 1) + 1 = d + i
        BY <1>a, <2>1
      <4> QED BY <4>1
    <3> QED BY <1>3, <3>1
  <2>3. line = [i \in 1 .. l |-> g.data[start + i - 1]]
    BY <2>1 DEF Line
  <2>4. Part(text, d, e) = [i \in 1 .. l |-> text[d + i]]
    BY <2>1 DEF Part
  <2> HIDE DEF line, d, e
  <2> QED BY <2>2, <2>3, <2>4
<1>6. ASSUME NEW check \in start .. end - 1
      PROVE  Occurs(g.data, end, check, s)
             <=> (base + check) + m <= e /\ \A j \in 1 .. m : text[(base + check) + j] = s[j]
  <2>0. check \in Nat /\ check < g.last /\ end \in Nat /\ start <= check
    BY <1>a
  <2>1. Occurs(g.data, end, check, s) <=> check + m <= end /\ Line(g.data, check, check + m) = s
    BY <1>m DEF Occurs
  <2>2. check + m <= end <=> (base + check) + m <= e
    BY <1>2, <2>0
  <2>3. ASSUME check + m <= end
        PROVE  Line(g.data, check, check + m) = s <=> \A j \in 1 .. m : text[(base + check) + j] = s[j]
    <3>1. (check + m) - check = m
      BY <2>0
    <3>2. Line(g.data, check, check + m) = [i \in 1 .. m |-> g.data[check + i - 1]]
      BY <3>1 DEF Line
    <3>3. \A j \in 1 .. m : g.data[check + j - 1] = text[(base + check) + j]
      <4> TAKE j \in 1 .. m
      <4>1. PICK x \in start .. g.last - 1 : x = check + j - 1 /\ base + x + 1 = (base + check) + j
        <5>1. check + j - 1 \in start .. g.last - 1 /\ base + (check + j - 1) + 1 = (base + check) + j
          BY <1>a, <2>0, <2>3
        <5> QED BY <5>1
      <4> QED BY <1>3, <4>1
    <3>4. s = [j \in 1 .. m |-> s[j]]
      BY <1>0, <1>m
    <3>5. Line(g.data, check, check + m) = [j \in 1 .. m |-> text[(base + check) + j]]
      BY <3>2, <3>3
    <3> QED BY <3>4, <3>5
  <2> QED BY <2>1, <2>2, <2>3
<1>7. hit <=> Has(text, s, d, e)
  <2>1. ASSUME hit PROVE Has(text, s, d, e)
    <3>1. PICK check \in start .. end - 1 : Occurs(g.data, end, check, s)
      BY <2>1
    <3>2. (base + check) + m <= e /\ \A j \in 1 .. m : text[(base + check) + j] = s[j]
      BY <1>6, <3>1
    <3>3. base + check \in d .. e - 1
      BY <1>a
    <3> QED BY <1>m, <3>2, <3>3 DEF Has
  <2>2. ASSUME Has(text, s, d, e) PROVE hit
    <3>1. PICK k \in d .. e - 1 : k + m <= e /\ \A j \in 1 .. m : text[k + j] = s[j]
      BY <2>2, <1>m DEF Has
    <3>2. PICK check \in start .. end - 1 : base + check = k
      <4>1. k - base \in start .. end - 1 /\ base + (k - base) = k
        BY <1>a
      <4> QED BY <4>1
    <3>3. Occurs(g.data, end, check, s)
      BY <1>6, <3>1, <3>2
    <3> QED BY <3>3
  <2> QED BY <2>1, <2>2
<1> HIDE DEF hit
<1>8. next = [data |-> [g.data EXCEPT ![end] = Nul], last |-> g.last, position |-> g.position,
              out |-> IF hit THEN (((g.out \o fname) \o <<Colon>>) \o line) \o <<Newline>> ELSE g.out]
  <2> DEFINE text1 == (((g.out \o fname) \o <<Colon>>) \o line) \o <<Newline>>
  <2>1. next = [g EXCEPT !.data[end] = Nul, !.out = IF hit THEN text1 ELSE @]
    BY Zenon DEF Searched, hit
  <2> HIDE DEF text1, line
  <2>2. next = [data |-> [g.data EXCEPT ![end] = Nul], last |-> g.last, position |-> g.position,
                out |-> IF hit THEN text1 ELSE g.out]
    BY <1>1, <2>1
  <2> QED BY <2>2 DEF text1
<1> HIDE DEF line
<1>9. (IF hit THEN (((g.out \o fname) \o <<Colon>>) \o line) \o <<Newline>> ELSE g.out)
      = g.out \o Hit(text, s, fname, d, e)
  <2>1. line \in Seq(Nat)
    BY <1>0, <1>4, <1>5, PartTyped
  <2>2. <<Colon>> \in Seq(Nat) /\ <<Newline>> \in Seq(Nat)
    BY DEF Colon, Newline
  <2>3. CASE hit
    <3>1. Hit(text, s, fname, d, e) = Printed(fname, line)
      BY <1>5, <1>7, <2>3 DEF Hit
    <3>2. g.out \in Seq(Nat)
      BY <1>1
    <3>3. (((g.out \o fname) \o <<Colon>>) \o line) \o <<Newline>> = g.out \o Printed(fname, line)
      BY <1>0, <2>1, <3>2, PrintedAfter, Zenon
    <3> QED BY <2>3, <3>1, <3>3
  <2>4. CASE ~hit
    <3>1. Hit(text, s, fname, d, e) = <<>>
      BY <1>7, <2>4 DEF Hit
    <3>2. g.out \o <<>> = g.out
      BY <1>1
    <3> QED BY <2>4, <3>1, <3>2
  <2> QED BY <2>3, <2>4
<1>10. g.out \o Hit(text, s, fname, d, e) \in Seq(Nat)
  <2>1. Hit(text, s, fname, d, e) \in Seq(Nat)
    BY <1>0, <1>4, HitTyped
  <2> QED BY <1>1, <2>1
<1>11. [g.data EXCEPT ![end] = Nul] \in [0 .. BUFSIZE -> Nat]
  BY <1>1 DEF Nul
<1>12. next = [data |-> [g.data EXCEPT ![end] = Nul], last |-> g.last, position |-> g.position,
               out |-> g.out \o Hit(text, s, fname, d, e)]
  BY <1>8, <1>9
<1> HIDE DEF d, e
<1>13. next \in Contents
  BY <1>1, <1>10, <1>11, <1>12 DEF Contents
<1>14. next.out = g.out \o Hit(text, s, fname, d, e) /\ next.last = g.last /\ next.position = g.position
       /\ next.data = [g.data EXCEPT ![end] = Nul]
  BY <1>12
<1> QED BY <1>13, <1>14 DEF d, e, LineEnded

\* What AtLine says, in terms of the buffer and of the text.
LEMMA AtLineSays ==
    ASSUME NEW text \in Seq(Nat), NEW P, NEW cnt, NEW g, NEW start, AtLine(g, start, text, P, cnt)
    PROVE  /\ g \in Contents /\ g.last \in 0 .. BUFSIZE /\ start \in 0 .. g.last /\ start <= BUFSIZE
           /\ start = 0 \/ start < g.last
           /\ g.position \in 0 .. Len(text) /\ g.position - g.last \in Nat /\ g.last <= g.position
           /\ BUFSIZE \in Nat \ {0} /\ Len(text) \in Nat /\ g.position \in Nat
           /\ g.data \in [0 .. BUFSIZE -> Nat] /\ g.data[BUFSIZE] # Newline /\ g.out \in Seq(Nat)
           /\ \A i \in start .. g.last - 1 : g.data[i] = text[(g.position - g.last) + i + 1]
<1>1. /\ g \in Contents /\ g.position \in 0 .. Len(text) /\ g.last <= g.position
      /\ g.data[BUFSIZE] # Newline
      /\ \A i \in start .. g.last - 1 : g.data[i] = text[(g.position - g.last) + i + 1]
  BY DEF AtLine, Held
<1>2. g.last \in 0 .. BUFSIZE /\ g.data \in [0 .. BUFSIZE -> Nat] /\ g.out \in Seq(Nat) /\ g.position \in Nat
  BY <1>1 DEF Contents
<1>3. start \in 0 .. BUFSIZE /\ start <= g.last /\ (start = 0 \/ start < g.last)
  BY DEF AtLine
<1>4. BUFSIZE \in Nat \ {0} /\ Len(text) \in Nat
  BY BufferAssumption
<1>5. start \in 0 .. g.last /\ start <= BUFSIZE /\ g.position - g.last \in Nat
  BY <1>1, <1>2, <1>3, <1>4
<1> QED BY <1>1, <1>2, <1>3, <1>4, <1>5

\* A line that is not kept for the next read is in the buffer whole.
LEMMA WholeLine ==
    ASSUME NEW text, NEW s, NEW fname, NEW P, Greps(text, s, fname, P),
           NEW cnt, NEW g, NEW start, AtLine(g, start, text, P, cnt),
           ~Unfinished(g, cnt, start, EndIn(g, start))
    PROVE  LET base == g.position - g.last
           IN Whole(text, base + start, base + EndIn(g, start))
<1>0. text \in Seq(Nat)
  BY DEF Greps
<1>1. /\ g \in Contents /\ g.last \in 0 .. BUFSIZE /\ start \in 0 .. g.last
      /\ g.position \in 0 .. Len(text) /\ g.position - g.last \in Nat /\ g.position \in Nat
      /\ BUFSIZE \in Nat \ {0} /\ Len(text) \in Nat /\ g.data[BUFSIZE] # Newline
      /\ \A i \in start .. g.last - 1 : g.data[i] = text[(g.position - g.last) + i + 1]
  BY <1>0, AtLineSays
<1>2. PICK base \in Nat, last \in Nat, n \in Nat :
          base = g.position - g.last /\ base + g.last = g.position /\ last = g.last /\ n = Len(text)
  <2>1. g.last \in Nat /\ (g.position - g.last) + g.last = g.position
    BY <1>1
  <2> QED BY <1>1, <2>1
<1>3. PICK end \in start .. last : end = EndIn(g, start)
  BY <1>1, <1>2, EndFound
<1>4. (\A i \in start .. end - 1 : g.data[i] # Newline) /\ (end < last => g.data[end] = Newline)
  BY <1>1, <1>2, <1>3, EndFound
<1>5. /\ start \in Nat /\ end \in Nat /\ last <= BUFSIZE /\ base + last <= n /\ start <= end /\ end <= last
      /\ base \in Nat /\ last \in Nat /\ n \in Nat /\ BUFSIZE \in Nat \ {0}
  BY <1>1, <1>2, <1>3
<1>d. PICK d \in Nat, e \in Nat : d = base + start /\ e = base + end
  <2>1. base + start \in Nat /\ base + end \in Nat
    BY <1>5
  <2> QED BY <2>1
<1>e. d \in 0 .. n /\ e \in d .. n
  BY <1>5, <1>d
<1>6. \A i \in start .. last - 1 : g.data[i] = text[base + i + 1]
  BY <1>1, <1>2
<1>7. \A k \in d + 1 .. e : text[k] # Newline
  <2> TAKE k \in d + 1 .. e
  <2>1. PICK i \in start .. end - 1 : k = base + i + 1
    <3>1. k - (base + 1) \in start .. end - 1 /\ k = base + (k - (base + 1)) + 1
      BY <1>5, <1>d
    <3> QED BY <3>1
  <2>2. i \in start .. last - 1
    BY <1>5, <2>1
  <2> QED BY <1>4, <1>6, <2>1, <2>2
<1>8. ASSUME e < n PROVE text[e + 1] = Newline
  <2>1. CASE end < last
    <3>1. end \in start .. last - 1 /\ base + end + 1 = e + 1
      BY <1>5, <1>d, <2>1
    <3> QED BY <1>4, <1>6, <2>1, <3>1
  <2>2. CASE end = last
    <3>1. g.position < Len(text)
      BY <1>2, <1>8, <1>d, <2>2
    <3>2. ~(g.last < BUFSIZE) /\ cnt # 0
      BY <1>1, <3>1 DEF AtLine
    <3>3. last = BUFSIZE
      BY <1>1, <1>2, <3>2
    <3>4. start = 0
      BY <1>1, <1>3, <2>2, <3>2, <3>3 DEF Unfinished
    <3>5. d = base /\ e = d + BUFSIZE /\ d < n
      BY <1>1, <1>5, <1>8, <1>d, <2>2, <3>3, <3>4
    <3>6. Searchable(text, d)
      BY <1>2, <1>d DEF AtLine
    <3>7. CASE Spent(text, d) /\ ~Fresh(text, d)
      <4>1. text[d + 1] = Newline
        BY <1>2, <3>5, <3>7 DEF Spent
      <4>2. d + 1 \in d + 1 .. e
        BY <1>5, <1>d, <3>5
      <4> QED BY <1>7, <4>1, <4>2
    <3>8. CASE Fresh(text, d)
      <4>1. d \in 0 .. Len(text) - 1 /\ d + 1 \in 1 .. Len(text) /\ (d + 1) - 1 = d /\ d \in Nat
        <5>1. d \in 0 .. n - 1 /\ d + 1 \in 1 .. n /\ (d + 1) - 1 = d
          BY <1>5, <1>d, <3>5
        <5> QED BY <1>2, <1>d, <5>1
      <4>2. PICK f \in d .. Len(text) : Whole(text, d, f) /\ LineAt(text, d + 1) = Part(text, d, f)
        BY <1>0, <4>1, LineEnds
      <4>3. LineBegins(text, d + 1)
        <5>1. d = 0 \/ text[d] = Newline
          BY <3>8 DEF Fresh
        <5>2. CASE d = 0
          <6>1. d + 1 = 1
            BY <5>2
          <6> QED BY <6>1 DEF LineBegins
        <5>3. CASE text[d] = Newline
          <6>1. text[(d + 1) - 1] = Newline
            BY <4>1, <5>3
          <6> QED BY <6>1 DEF LineBegins
        <5> QED BY <5>1, <5>2, <5>3
      <4>4. Len(Part(text, d, f)) <= BUFSIZE
        BY <4>1, <4>2, <4>3 DEF Greps, Fits
      <4>5. Len(Part(text, d, f)) = f - d
        BY <1>0, <4>1, <4>2, PartTyped
      <4>6. f \in d .. n /\ f <= e
        <5>1. f \in d .. n
          BY <1>2, <4>2
        <5>2. f - d <= BUFSIZE
          BY <4>4, <4>5
        <5> QED BY <1>5, <1>d, <3>5, <5>1, <5>2
      <4>7. f < n => text[f + 1] = Newline
        BY <1>2, <4>2 DEF Whole
      <4>8. ~(f < e)
        <5> SUFFICES ASSUME f < e PROVE FALSE
          OBVIOUS
        <5>1. f < n /\ f + 1 \in d + 1 .. e
          BY <1>5, <1>d, <1>e, <4>6
        <5> QED BY <1>7, <4>7, <5>1
      <4>9. f = e
        BY <1>5, <1>d, <1>e, <4>6, <4>8
      <4> QED BY <1>8, <4>7, <4>9
    <3> QED BY <3>6, <3>7, <3>8 DEF Searchable
  <2> QED BY <1>5, <2>1, <2>2
<1>9. Whole(text, d, e)
  BY <1>2, <1>7, <1>8, <1>e DEF Whole
<1> QED BY <1>2, <1>3, <1>9, <1>d

\* After a whole line, and after its newline, the search may go on.
LEMMA SearchableNext ==
    ASSUME NEW text \in Seq(Nat), NEW d \in Nat, NEW e, Whole(text, d, e),
           NEW x \in 0 .. Len(text), x = e \/ x = e + 1
    PROVE  Searchable(text, x) /\ (x = e + 1 => Fresh(text, x))
<1>1. PICK n \in Nat : n = Len(text)
  OBVIOUS
<1>2. e \in d .. n /\ (e < n => text[e + 1] = Newline)
  BY <1>1 DEF Whole
<1>3. CASE x = e + 1
  <2>1. e < n
    BY <1>1, <1>2, <1>3
  <2>2. text[x] = Newline
    BY <1>2, <1>3, <2>1
  <2> QED BY <2>2 DEF Fresh, Searchable
<1>4. CASE x = e
  <2>1. x # e + 1
    BY <1>2, <1>4
  <2>2. x < n => text[x + 1] = Newline
    BY <1>2, <1>4
  <2>3. Fresh(text, x) \/ Spent(text, x)
    BY <1>1, <2>2 DEF Fresh, Spent
  <2> QED BY <2>1, <2>3 DEF Searchable
<1> QED BY <1>3, <1>4

\* What is not searched and has no end goes to the buffer's start.
LEMMA KeptIs ==
    ASSUME NEW text \in Seq(Nat), NEW P, NEW cnt, NEW g, NEW start, AtLine(g, start, text, P, cnt),
           start # 0
    PROVE  Rested(Kept(g, start), text, P) /\ Kept(g, start).position = g.position
<1>1. /\ g \in Contents /\ g.last \in 0 .. BUFSIZE /\ start \in 0 .. g.last /\ start < g.last
      /\ g.position \in 0 .. Len(text) /\ g.position - g.last \in Nat /\ g.position \in Nat
      /\ BUFSIZE \in Nat \ {0} /\ Len(text) \in Nat /\ g.last <= g.position
      /\ g.data \in [0 .. BUFSIZE -> Nat] /\ g.data[BUFSIZE] # Newline /\ g.out \in Seq(Nat)
      /\ \A i \in start .. g.last - 1 : g.data[i] = text[(g.position - g.last) + i + 1]
  BY AtLineSays
<1>a. PICK last \in Nat, pos \in Nat : last = g.last /\ pos = g.position
  BY <1>1
<1>b. /\ last \in 0 .. BUFSIZE /\ start \in 0 .. last /\ start < last /\ last <= pos /\ start # 0
      /\ BUFSIZE \in Nat \ {0} /\ start \in Nat
  BY <1>1, <1>a
<1>2. PICK l \in Nat : l = last - start
  BY <1>b
<1>c. l \in 1 .. BUFSIZE - 1 /\ start + l = last /\ pos - l = (pos - last) + start /\ l <= pos
  BY <1>2, <1>b
<1> DEFINE h == Kept(g, start)
           D == [i \in 0 .. BUFSIZE |-> IF i < l THEN g.data[start + i]
                                       ELSE IF i = l \/ i = last THEN Nul ELSE g.data[i]]
<1>3. h = [data |-> D, last |-> l, position |-> g.position, out |-> g.out]
  <2>1. h = [g EXCEPT !.last = l, !.data = D]
    BY <1>2, <1>a, Zenon DEF Kept
  <2>2. g = [data |-> g.data, last |-> g.last, position |-> g.position, out |-> g.out]
    BY <1>1 DEF Contents
  <2> HIDE DEF h, D
  <2> QED BY <2>1, <2>2
<1>4. D \in [0 .. BUFSIZE -> Nat]
  <2>1. \A i \in 0 .. BUFSIZE : i < l => g.data[start + i] \in Nat
    <3> SUFFICES ASSUME NEW i \in 0 .. BUFSIZE, i < l PROVE g.data[start + i] \in Nat
      OBVIOUS
    <3>1. start + i \in 0 .. BUFSIZE
      BY <1>b, <1>c
    <3> QED BY <1>1, <3>1
  <2>2. \A i \in 0 .. BUFSIZE : g.data[i] \in Nat
    BY <1>1
  <2> QED BY <2>1, <2>2 DEF Nul
<1>5. D[BUFSIZE] # Newline
  <2>1. BUFSIZE \in 0 .. BUFSIZE /\ ~(BUFSIZE < l) /\ BUFSIZE # l
    BY <1>b, <1>c
  <2>2. D[BUFSIZE] = IF BUFSIZE = last THEN Nul ELSE g.data[BUFSIZE]
    BY <2>1
  <2>3. g.data[BUFSIZE] # Newline
    BY <1>1
  <2>4. D[BUFSIZE] = Nul \/ D[BUFSIZE] = g.data[BUFSIZE]
    BY <2>2, Zenon
  <2>5. Nul # Newline
    BY DEF Nul, Newline
  <2> QED BY <2>3, <2>4, <2>5, Zenon
<1>6. \A i \in 0 .. l - 1 : D[i] = text[(pos - l) + i + 1]
  <2> TAKE i \in 0 .. l - 1
  <2>1. i \in 0 .. BUFSIZE /\ i < l
    BY <1>b, <1>c
  <2>2. PICK x \in start .. last - 1 : x = start + i /\ (pos - last) + x + 1 = (pos - l) + i + 1
    <3>1. start + i \in start .. last - 1 /\ (pos - last) + (start + i) + 1 = (pos - l) + i + 1
      BY <1>b, <1>c
    <3> QED BY <3>1
  <2>3. D[i] = g.data[x]
    BY <2>1, <2>2
  <2> QED BY <1>1, <1>a, <2>2, <2>3
<1> HIDE DEF h, D
<1>7. h \in Contents /\ h.data = D /\ h.last = l /\ h.position = g.position /\ h.out = g.out
  <2>1. l \in 0 .. BUFSIZE
    BY <1>b, <1>c
  <2> QED BY <1>1, <1>3, <1>4, <2>1 DEF Contents
<1>8. Held(h, text, 0)
  BY <1>1, <1>a, <1>c, <1>5, <1>6, <1>7 DEF Held
<1>9. Searchable(text, h.position - h.last) /\ h.out = P[h.position - h.last]
  BY <1>a, <1>c, <1>7 DEF AtLine
<1>10. h.last < BUFSIZE
  BY <1>b, <1>c, <1>7
<1> QED BY <1>7, <1>8, <1>9, <1>10 DEF Rested, h

Over(h, g, text, P) == Rested(h, text, P) /\ h.position = g.position /\ h.last = 0

\* The last line of the buffer leaves nothing of it.
LEMMA LastLine ==
    ASSUME NEW text, NEW s, NEW fname, NEW P, Greps(text, s, fname, P),
           NEW cnt, NEW g, NEW start, AtLine(g, start, text, P, cnt),
           NEW end, end = EndIn(g, start), ~Unfinished(g, cnt, start, end), end + 1 >= g.last,
           NEW h, h = [Searched(g, s, fname, start, end) EXCEPT !.last = 0]
    PROVE  Over(h, g, text, P)
<1>0. text \in Seq(Nat) /\ s \in Seq(Nat) /\ s # <<>> /\ fname \in Seq(Nat) /\ PrintedUpTo(P, text, s, fname)
  BY DEF Greps
<1>1. /\ g \in Contents /\ start \in 0 .. g.last /\ g.last \in 0 .. BUFSIZE
      /\ g.position \in 0 .. Len(text) /\ g.position - g.last \in Nat /\ g.position \in Nat
      /\ BUFSIZE \in Nat \ {0} /\ Len(text) \in Nat /\ g.data[BUFSIZE] # Newline
      /\ g.data \in [0 .. BUFSIZE -> Nat]
  BY <1>0, AtLineSays
<1>2. PICK base \in Nat, last \in Nat, n \in Nat, pos \in Nat :
          base = g.position - g.last /\ base + last = pos /\ last = g.last /\ n = Len(text) /\ pos = g.position
  <2>1. g.last \in Nat /\ (g.position - g.last) + g.last = g.position
    BY <1>1
  <2> QED BY <1>1, <2>1
<1>3. end \in start .. last
  BY <1>1, <1>2, EndFound
<1>4. /\ start \in Nat /\ end \in Nat /\ start <= end /\ end <= last /\ last <= BUFSIZE /\ pos <= n /\ end + 1 >= last
      /\ base \in Nat /\ last \in Nat /\ pos \in Nat /\ base + last = pos /\ n \in Nat /\ BUFSIZE \in Nat \ {0}
  BY <1>1, <1>2, <1>3
<1>5. Whole(text, base + start, base + end)
  BY <1>2, WholeLine
<1>6. PICK d \in Nat, e \in Nat : d = base + start /\ e = base + end
  <2>1. base + start \in Nat /\ base + end \in Nat
    BY <1>4
  <2> QED BY <2>1
<1>7. pos \in 0 .. Len(text) /\ (pos = e \/ pos = e + 1)
  <2>1. pos = e \/ pos = e + 1
    BY <1>4, <1>6
  <2> QED BY <1>1, <1>2, <2>1
<1>8. Searchable(text, d) /\ g.out = P[d]
  BY <1>2, <1>6 DEF AtLine
<1>9. Searchable(text, pos)
  BY <1>0, <1>5, <1>6, <1>7, SearchableNext
<1>10. P[pos] = P[d] \o Hit(text, s, fname, d, e)
  <2>1. LineTo(text, d, e, pos)
    BY <1>5, <1>6, <1>7, <1>8 DEF LineTo
  <2>2. Handled(text, s, fname, P, d, e, pos)
    BY <2>1, LineHandled, Zenon
  <2> QED BY <2>2 DEF Handled
<1> DEFINE next == Searched(g, s, fname, start, end)
<1>11. Held(g, text, start)
  BY DEF AtLine
<1>12. /\ next.out = P[pos] /\ next.position = pos /\ next \in Contents
       /\ next.data = [g.data EXCEPT ![end] = Nul]
  <2>1. end \in start .. g.last /\ start \in Nat
    BY <1>2, <1>3, <1>4
  <2>s. next = Searched(g, s, fname, start, end)
    OBVIOUS
  <2>2. /\ next.out = g.out \o Hit(text, s, fname, base + start, base + end)
        /\ next.position = g.position /\ next \in Contents
        /\ next.data = [g.data EXCEPT ![end] = Nul]
    <3>1. InLine(g, text, start, end, base)
      BY <1>2, <1>11, <2>1 DEF InLine
    <3>2. LineEnded(next, g, text, s, fname, start, end, base)
      <4> HIDE DEF next
      <4> QED BY <2>s, <3>1, SearchedIs, Zenon
    <3> QED BY <3>2 DEF LineEnded
  <2> HIDE DEF next
  <2> QED BY <1>2, <1>6, <1>8, <1>10, <2>2
<1> HIDE DEF next
<1>13. h = [next EXCEPT !.last = 0]
  BY DEF next
<1>14. h \in Contents /\ h.last = 0 /\ h.position = pos /\ h.out = P[pos] /\ h.data = [g.data EXCEPT ![end] = Nul]
  <2>1. 0 \in 0 .. BUFSIZE
    BY <1>1
  <2> QED BY <1>12, <1>13, <2>1 DEF Contents
<1>15. h.data[BUFSIZE] # Newline
  <2>1. BUFSIZE \in 0 .. BUFSIZE /\ end \in 0 .. BUFSIZE
    BY <1>4
  <2>2. g.data \in [0 .. BUFSIZE -> Nat] /\ h.data = [g.data EXCEPT ![end] = Nul]
    BY <1>1, <1>14, Zenon
  <2>3. h.data[BUFSIZE] = Nul \/ h.data[BUFSIZE] = g.data[BUFSIZE]
    BY <2>1, <2>2
  <2>4. g.data[BUFSIZE] # Newline
    BY <1>1
  <2>5. Nul # Newline
    BY DEF Nul, Newline
  <2> QED BY <2>3, <2>4, <2>5, Zenon
<1>16. Held(h, text, 0)
  <2>1. h.last <= h.position /\ h.position \in 0 .. Len(text)
    BY <1>2, <1>7, <1>14
  <2>2. 0 .. h.last - 1 = {}
    BY <1>14
  <2> QED BY <1>14, <1>15, <2>1, <2>2 DEF Held
<1>17. h.position - h.last = pos
  BY <1>2, <1>14
<1>18. h.last < BUFSIZE
  BY <1>1, <1>14
<1> QED BY <1>2, <1>9, <1>14, <1>16, <1>17, <1>18 DEF Rested, Over

\* Another line of the buffer goes on with the next.
LEMMA AnotherLine ==
    ASSUME NEW text, NEW s, NEW fname, NEW P, Greps(text, s, fname, P),
           NEW cnt, NEW g, NEW start, AtLine(g, start, text, P, cnt),
           NEW end, end = EndIn(g, start), ~Unfinished(g, cnt, start, end), ~(end + 1 >= g.last),
           NEW h, h = Searched(g, s, fname, start, end)
    PROVE  AtLine(h, end + 1, text, P, cnt) /\ h.position = g.position /\ end \in Nat /\ end + 1 > start
<1>0. text \in Seq(Nat) /\ s \in Seq(Nat) /\ s # <<>> /\ fname \in Seq(Nat) /\ PrintedUpTo(P, text, s, fname)
  BY DEF Greps
<1>1. /\ g \in Contents /\ start \in 0 .. g.last /\ g.last \in 0 .. BUFSIZE
      /\ g.position \in 0 .. Len(text) /\ g.position - g.last \in Nat /\ g.position \in Nat
      /\ BUFSIZE \in Nat \ {0} /\ Len(text) \in Nat /\ g.data[BUFSIZE] # Newline
      /\ g.data \in [0 .. BUFSIZE -> Nat]
      /\ \A i \in start .. g.last - 1 : g.data[i] = text[(g.position - g.last) + i + 1]
  BY <1>0, AtLineSays
<1>2. PICK base \in Nat, last \in Nat, n \in Nat, pos \in Nat :
          base = g.position - g.last /\ base + last = pos /\ last = g.last /\ n = Len(text) /\ pos = g.position
  <2>1. g.last \in Nat /\ (g.position - g.last) + g.last = g.position
    BY <1>1
  <2> QED BY <1>1, <2>1
<1>3. end \in start .. last
  BY <1>1, <1>2, EndFound
<1>4. /\ start \in Nat /\ end \in Nat /\ start <= end /\ end + 1 < last /\ last <= BUFSIZE /\ pos <= n
      /\ base \in Nat /\ last \in Nat /\ pos \in Nat /\ base + last = pos /\ n \in Nat /\ BUFSIZE \in Nat \ {0}
  <2>1. start \in Nat /\ end \in Nat /\ start <= end /\ end <= last /\ last <= BUFSIZE /\ pos <= n
    BY <1>1, <1>2, <1>3
  <2>2. ~(end + 1 >= last)
    BY <1>2
  <2> QED BY <1>1, <1>2, <2>1, <2>2
<1>5. Whole(text, base + start, base + end)
  BY <1>2, WholeLine
<1>6. PICK d \in Nat, e \in Nat, x \in Nat :
          d = base + start /\ e = base + end /\ x = base + (end + 1) /\ x = e + 1
  <2>1. base + start \in Nat /\ base + end \in Nat /\ base + (end + 1) \in Nat
        /\ base + (end + 1) = (base + end) + 1
    BY <1>4
  <2> QED BY <2>1
<1>7. x \in 0 .. Len(text) /\ (x = e \/ x = e + 1)
  <2>1. x <= n
    BY <1>4, <1>6
  <2> QED BY <1>2, <1>6, <2>1
<1>8. Searchable(text, d) /\ g.out = P[d]
  BY <1>2, <1>6 DEF AtLine
<1>9. Searchable(text, x) /\ Fresh(text, x)
  BY <1>0, <1>5, <1>6, <1>7, SearchableNext
<1>10. P[x] = P[d] \o Hit(text, s, fname, d, e)
  <2>1. LineTo(text, d, e, x)
    BY <1>5, <1>6, <1>7, <1>8 DEF LineTo
  <2>2. Handled(text, s, fname, P, d, e, x)
    BY <2>1, LineHandled, Zenon
  <2> QED BY <2>2 DEF Handled
<1>11. Held(g, text, start)
  BY DEF AtLine
<1>12. /\ h.out = P[x] /\ h.position = pos /\ h \in Contents /\ h.last = last
       /\ h.data = [g.data EXCEPT ![end] = Nul]
  <2>1. end \in start .. g.last /\ start \in Nat
    BY <1>2, <1>3, <1>4
  <2>2. /\ h.out = g.out \o Hit(text, s, fname, base + start, base + end)
        /\ h.position = g.position /\ h \in Contents /\ h.last = g.last
        /\ h.data = [g.data EXCEPT ![end] = Nul]
    <3>1. InLine(g, text, start, end, base)
      BY <1>2, <1>11, <2>1 DEF InLine
    <3>2. LineEnded(h, g, text, s, fname, start, end, base)
      BY <3>1, SearchedIs, Zenon
    <3> QED BY <3>2 DEF LineEnded
  <2> QED BY <1>2, <1>6, <1>8, <1>10, <2>2
<1>13. h.data[BUFSIZE] # Newline
  <2>1. BUFSIZE \in 0 .. BUFSIZE /\ end \in 0 .. BUFSIZE
    BY <1>4
  <2>2. h.data[BUFSIZE] = IF BUFSIZE = end THEN Nul ELSE g.data[BUFSIZE]
    BY <1>1, <1>12, <2>1
  <2> QED BY <1>1, <2>2 DEF Nul, Newline
<1>14. \A i \in end + 1 .. h.last - 1 : h.data[i] = text[(h.position - h.last) + i + 1]
  <2> TAKE i \in end + 1 .. h.last - 1
  <2>1. i \in end + 1 .. last - 1
    BY <1>12
  <2>2. i \in start .. g.last - 1 /\ i # end /\ i \in 0 .. BUFSIZE
    <3>1. i \in start .. last - 1 /\ i # end /\ i \in 0 .. BUFSIZE
      BY <1>4, <2>1
    <3> QED BY <1>2, <3>1
  <2>3. h.data[i] = g.data[i]
    BY <1>1, <1>12, <2>2
  <2>4. h.position - h.last = g.position - g.last
    BY <1>2, <1>12
  <2> QED BY <1>1, <2>2, <2>3, <2>4
<1>15. Held(h, text, end + 1)
  <2>1. h.last <= h.position /\ h.position \in 0 .. Len(text)
    BY <1>1, <1>2, <1>12
  <2> QED BY <1>12, <1>13, <1>14, <2>1 DEF Held
<1>16. (h.position - h.last) + (end + 1) = x
  BY <1>2, <1>6, <1>12
<1>17. h.last < BUFSIZE \/ cnt = 0 => h.position = Len(text)
  <2>1. g.last < BUFSIZE \/ cnt = 0 => g.position = Len(text)
    BY DEF AtLine
  <2> QED BY <1>2, <1>12, <2>1
<1>18. end + 1 \in 0 .. BUFSIZE /\ end + 1 <= h.last /\ end + 1 < h.last
  <2>1. end + 1 \in 0 .. BUFSIZE /\ end + 1 < last
    BY <1>4
  <2> QED BY <1>4, <1>12, <2>1
<1>19. AtLine(h, end + 1, text, P, cnt)
  BY <1>9, <1>12, <1>15, <1>16, <1>17, <1>18 DEF AtLine
<1> QED BY <1>2, <1>4, <1>12, <1>19

\* A turn of the search: the buffer is done with, or its next line is at hand.
Search(p, text, P, cnt, pos) ==
    /\ p \in [g : Contents, start : Nat, done : BOOLEAN] /\ p.g.position = pos
    /\ IF p.done THEN Rested(p.g, text, P) /\ (cnt = 0 => p.g.last = 0)
       ELSE AtLine(p.g, p.start, text, P, cnt)

\* A turn of the search keeps the invariant, and ends or goes up (ece391grep.c:29-56).
LEMMA LineTurn ==
    ASSUME NEW text, NEW s, NEW fname, NEW P, Greps(text, s, fname, P), NEW cnt, NEW pos,
           NEW p, Search(p, text, P, cnt, pos)
    PROVE  LET next == SearchLine(p, s, fname, cnt)
           IN /\ Search(next, text, P, cnt, pos)
              /\ p.done => next = p
              /\ ~p.done => next.done \/ next.start > p.start
<1>0. text \in Seq(Nat)
  BY DEF Greps
<1>t. p \in [g : Contents, start : Nat, done : BOOLEAN] /\ p.g.position = pos
  BY DEF Search
<1> DEFINE g == p.g
           start == p.start
           end == EndIn(g, start)
           h == Searched(g, s, fname, start, end)
           last == [h EXCEPT !.last = 0]
           next == SearchLine(p, s, fname, cnt)
<1>1. next = IF p.done THEN p
             ELSE IF Unfinished(g, cnt, start, end) THEN [p EXCEPT !.g = Kept(g, start), !.done = TRUE]
             ELSE IF end + 1 >= g.last THEN [p EXCEPT !.g = last, !.done = TRUE]
             ELSE [p EXCEPT !.g = h, !.start = end + 1]
  BY Zenon DEF SearchLine, EndIn
<1>2. ASSUME ~p.done PROVE AtLine(g, start, text, P, cnt)
  BY <1>2 DEF Search
<1> HIDE DEF next, h, last, end
<1>3. CASE p.done
  <2>1. next = p
    BY <1>1, <1>3
  <2> QED BY <1>3, <2>1 DEF next
<1>4. CASE ~p.done /\ Unfinished(g, cnt, start, end)
  <2>1. next = [p EXCEPT !.g = Kept(g, start), !.done = TRUE]
    BY <1>1, <1>4
  <2>2. start # 0 /\ cnt # 0
    BY <1>4 DEF Unfinished
  <2>3. Rested(Kept(g, start), text, P) /\ Kept(g, start).position = g.position
    BY <1>0, <1>2, <1>4, <2>2, KeptIs
  <2>4. Kept(g, start) \in Contents
    BY <2>3 DEF Rested, Held
  <2>5. next \in [g : Contents, start : Nat, done : BOOLEAN] /\ next.g = Kept(g, start) /\ next.done
    BY <1>t, <2>1, <2>4
  <2>6. Search(next, text, P, cnt, pos)
    BY <1>t, <2>2, <2>3, <2>5 DEF Search
  <2> QED BY <1>4, <2>5, <2>6 DEF next
<1>5. CASE ~p.done /\ ~Unfinished(g, cnt, start, end) /\ end + 1 >= g.last
  <2>1. next = [p EXCEPT !.g = last, !.done = TRUE]
    BY <1>1, <1>5
  <2>2. Rested(last, text, P) /\ last.position = g.position /\ last.last = 0
    <3>1. ~Unfinished(g, cnt, start, end) /\ end = EndIn(g, start) /\ end + 1 >= g.last
      BY <1>5 DEF end
    <3>2. last = [Searched(g, s, fname, start, end) EXCEPT !.last = 0]
      BY DEF last, h
    <3>3. AtLine(g, start, text, P, cnt)
      BY <1>2, <1>5
    <3>4. Over(last, g, text, P)
      <4> HIDE DEF g, start
      <4> QED BY <3>1, <3>2, <3>3, LastLine, Zenon
    <3> QED BY <3>4 DEF Over
  <2>3. last \in Contents
    BY <2>2 DEF Rested, Held
  <2>4. next \in [g : Contents, start : Nat, done : BOOLEAN] /\ next.g = last /\ next.done
    BY <1>t, <2>1, <2>3
  <2>5. Search(next, text, P, cnt, pos)
    BY <1>t, <2>2, <2>4 DEF Search
  <2> QED BY <1>5, <2>4, <2>5 DEF next
<1>6. CASE ~p.done /\ ~Unfinished(g, cnt, start, end) /\ ~(end + 1 >= g.last)
  <2>1. next = [p EXCEPT !.g = h, !.start = end + 1]
    BY <1>1, <1>6
  <2>2. AtLine(h, end + 1, text, P, cnt) /\ h.position = g.position /\ end \in Nat /\ end + 1 > start
    BY <1>2, <1>6, AnotherLine DEF end, h
  <2>3. h \in Contents
    BY <2>2 DEF AtLine, Held
  <2>4. end + 1 \in Nat
    BY <2>2
  <2>5. /\ next \in [g : Contents, start : Nat, done : BOOLEAN] /\ next.g = h
        /\ next.start = end + 1 /\ ~next.done
    BY <1>t, <1>6, <2>1, <2>3, <2>4
  <2>6. Search(next, text, P, cnt, pos)
    BY <1>t, <2>2, <2>5 DEF Search
  <2> QED BY <1>6, <2>2, <2>5, <2>6 DEF next
<1> QED BY <1>3, <1>4, <1>5, <1>6

\* A buffer searched, and what there was of it.
AllSearched(h, g, text, P, cnt) ==
    Rested(h, text, P) /\ (cnt = 0 => h.last = 0) /\ h.position = g.position

\* BUFSIZE turns search all lines of a buffer.
LEMMA SearchingIs ==
    ASSUME NEW text, NEW s, NEW fname, NEW P, Greps(text, s, fname, P), NEW cnt,
           NEW g, AtLine(g, 0, text, P, cnt)
    PROVE  AllSearched(Searching(g, s, fname, cnt), g, text, P, cnt)
<1>0. text \in Seq(Nat)
  BY DEF Greps
<1> DEFINE n == BUFSIZE
           pos == g.position
           first == [g |-> g, start |-> 0, done |-> FALSE]
           Next1(p) == SearchLine(p, s, fname, cnt)
           S == {p \in [g : Contents, start : Nat, done : BOOLEAN] : Search(p, text, P, cnt, pos)}
           Good(k, p) == p.done \/ p.start >= k
           step == [k \in 1 .. n |-> [p \in S |-> Next1(p)]]
           f == CHOOSE turn : turn = [k \in 0 .. n |-> IF k = 0 THEN first ELSE Next1(turn[k - 1])]
<1>n. n \in Nat \ {0}
  BY BufferAssumption
<1>1. ASSUME NEW p \in S PROVE Next1(p) \in S /\ \A k \in Nat : Good(k, p) => Good(k + 1, Next1(p))
  <2>1. Search(p, text, P, cnt, pos)
    OBVIOUS
  <2>2. /\ Search(Next1(p), text, P, cnt, pos)
        /\ p.done => Next1(p) = p
        /\ ~p.done => Next1(p).done \/ Next1(p).start > p.start
    <3> HIDE DEF pos
    <3> QED BY <2>1, LineTurn
  <2>3. Next1(p) \in [g : Contents, start : Nat, done : BOOLEAN]
    BY <2>2 DEF Search
  <2>4. p.start \in Nat /\ Next1(p).start \in Nat
    BY <2>3
  <2> HIDE DEF Next1, pos
  <2>5. ASSUME NEW k \in Nat, Good(k, p) PROVE Good(k + 1, Next1(p))
    <3>1. CASE p.done
      BY <2>2, <3>1
    <3>2. CASE ~p.done
      BY <2>2, <2>4, <2>5, <3>2
    <3> QED BY <3>1, <3>2
  <2> QED BY <2>2, <2>3, <2>5
<1>2. first \in S /\ Good(0, first)
  <2>1. g \in Contents
    BY <1>0, AtLineSays
  <2>2. first \in [g : Contents, start : Nat, done : BOOLEAN] /\ first.g = g /\ first.start = 0 /\ ~first.done
    BY <2>1
  <2> HIDE DEF first
  <2>3. Search(first, text, P, cnt, pos)
    BY <2>2 DEF Search
  <2> QED BY <2>2, <2>3
<1> HIDE DEF first, S, Next1, Good, n
<1>3. step \in Bodies(n, S)
  BY <1>1 DEF Bodies
<1>4. PICK h \in [0 .. n -> S] : h[0] = first /\ \A k \in 1 .. n : h[k] = step[k][h[k - 1]]
  <2> HIDE DEF step
  <2>1. PICK h : h \in Runs(n, S, first, step)
    BY <1>n, <1>2, <1>3, LoopExists
  <2> QED BY <2>1 DEF Runs
<1>5. h = [k \in 0 .. n |-> IF k = 0 THEN first ELSE Next1(h[k - 1])]
  <2>1. ASSUME NEW k \in 0 .. n, k # 0 PROVE h[k] = Next1(h[k - 1])
    <3>1. k \in 1 .. n /\ k - 1 \in 0 .. n
      BY <1>n, <2>1
    <3>2. h[k - 1] \in S
      BY <3>1
    <3> QED BY <1>4, <3>1, <3>2
  <2> QED BY <1>4, <2>1
<1>6. f = [k \in 0 .. n |-> IF k = 0 THEN first ELSE Next1(f[k - 1])]
  BY <1>5, Zenon
<1>7. Searching(g, s, fname, cnt) = f[n].g
  <2> USE DEF first, Next1, n
  <2> QED BY Zenon DEF Searching
<1> HIDE DEF f
<1>8. \A k \in 0 .. n : f[k] \in S /\ Good(k, f[k])
  <2> DEFINE Q == {k \in 0 .. n : f[k] \in S /\ Good(k, f[k])}
  <2>1. 0 \in Q
    BY <1>n, <1>2, <1>6
  <2>2. ASSUME NEW k \in 1 .. n, k - 1 \in Q PROVE k \in Q
    <3>1. f[k] = Next1(f[k - 1]) /\ k - 1 \in Nat /\ k - 1 + 1 = k /\ k \in 0 .. n
      BY <1>n, <1>6
    <3> QED BY <1>1, <2>2, <3>1
  <2>3. \A k \in 0 .. n : k \in Q
    <3> HIDE DEF Q
    <3> QED BY <1>n, <2>1, <2>2, Turns, Zenon
  <2> QED BY <2>3
<1>9. f[n] \in S /\ Good(n, f[n])
  BY <1>n, <1>8
<1> DEFINE p == f[n]
<1>10. p \in [g : Contents, start : Nat, done : BOOLEAN] /\ Search(p, text, P, cnt, pos) /\ (p.done \/ p.start >= n)
  BY <1>9 DEF S, Good
<1> HIDE DEF p, pos
<1>11. p.done
  <2> SUFFICES ASSUME ~p.done PROVE FALSE
    BY <1>10
  <2>1. AtLine(p.g, p.start, text, P, cnt) /\ p.start >= n /\ p.start \in Nat
    BY <1>10 DEF Search
  <2>2. p.g.last \in 0 .. BUFSIZE /\ (p.start = 0 \/ p.start < p.g.last)
    BY <1>0, <2>1, AtLineSays
  <2> QED BY <1>n, <2>1, <2>2 DEF n
<1>12. Rested(p.g, text, P) /\ (cnt = 0 => p.g.last = 0) /\ p.g.position = pos
  BY <1>10, <1>11 DEF Search
<1> QED BY <1>7, <1>12 DEF AllSearched, p, pos

\* A read fills the buffer, or brings the rest of the file.
Bytes(bytes, text, g, y) ==
    /\ y \in g.position .. Len(text) /\ bytes = SubSeq(text, g.position + 1, y)
    /\ y - g.position <= BUFSIZE - g.last /\ (y = Len(text) \/ y - g.position = BUFSIZE - g.last)

FilledWell(h, bytes, text, P, y) ==
    AtLine(h, 0, text, P, Len(bytes)) /\ h.position = y /\ Len(bytes) \in Nat

\* After a read the buffer's first line is at hand, where the last search rested.
LEMMA FilledIs ==
    ASSUME NEW text \in Seq(Nat), NEW P, NEW g, Rested(g, text, P), NEW bytes, NEW y, Bytes(bytes, text, g, y)
    PROVE  FilledWell(Filled(g, bytes), bytes, text, P, y) /\ Len(bytes) = y - g.position
<1>1. /\ g \in Contents /\ g.position \in 0 .. Len(text) /\ g.last <= g.position
      /\ g.data[BUFSIZE] # Newline /\ g.last < BUFSIZE
      /\ \A i \in 0 .. g.last - 1 : g.data[i] = text[(g.position - g.last) + i + 1]
      /\ Searchable(text, g.position - g.last) /\ g.out = P[g.position - g.last]
  BY DEF Rested, Held
<1>2. /\ g.last \in 0 .. BUFSIZE /\ g.data \in [0 .. BUFSIZE -> Nat] /\ g.out \in Seq(Nat) /\ g.position \in Nat
      /\ g = [data |-> g.data, last |-> g.last, position |-> g.position, out |-> g.out]
  BY <1>1 DEF Contents
<1>3. PICK last \in Nat, pos \in Nat, n \in Nat, B \in Nat :
          last = g.last /\ pos = g.position /\ n = Len(text) /\ B = BUFSIZE
  <2>1. BUFSIZE \in Nat /\ Len(text) \in Nat
    BY BufferAssumption
  <2>2. g.last \in Nat /\ g.position \in Nat
    BY <1>2, <2>1
  <2> QED BY <2>1, <2>2, Zenon
<1>4. last <= pos /\ pos <= n /\ last < B /\ last \in Nat /\ pos \in Nat /\ n \in Nat /\ B \in Nat
  BY <1>1, <1>2, <1>3
<1>5. PICK z \in Nat : z = y
  BY <1>1, <1>2 DEF Bytes
<1>6. PICK cnt \in Nat : cnt = z - pos /\ pos + cnt = z /\ z <= n /\ cnt <= B - last /\ (z = n \/ cnt = B - last)
  <2>1. y \in pos .. n /\ y - pos <= B - last /\ (y = n \/ y - pos = B - last)
    BY <1>3 DEF Bytes
  <2>2. z - pos \in Nat /\ pos + (z - pos) = z /\ z <= n /\ z - pos <= B - last /\ (z = n \/ z - pos = B - last)
    BY <1>4, <1>5, <2>1
  <2> QED BY <2>2
<1>7. bytes = [i \in 1 .. cnt |-> text[pos + i]] /\ Len(bytes) = cnt
  <2>1. PICK b \in Nat \ {0} : b = pos + 1
    BY <1>4
  <2>2. bytes = SubSeq(text, b, z)
    BY <1>3, <1>5, <2>1 DEF Bytes
  <2>3. b \in Nat \ {0} /\ z \in Nat /\ z <= Len(text) /\ b <= z + 1 /\ z - b + 1 = cnt /\ b - 1 = pos
    <3>1. b \in Nat \ {0} /\ z \in Nat /\ z <= n /\ b <= z + 1 /\ z - b + 1 = cnt /\ b - 1 = pos
      BY <1>4, <1>6, <2>1
    <3> QED BY <1>3, <3>1
  <2>4. /\ SubSeq(text, b, z) \in Seq(Nat) /\ Len(SubSeq(text, b, z)) = z - b + 1
        /\ \A i \in 1 .. z - b + 1 : SubSeq(text, b, z)[i] = text[b - 1 + i]
    BY <2>3, PartIs
  <2>5. bytes \in Seq(Nat) /\ Len(bytes) = cnt /\ \A i \in 1 .. cnt : bytes[i] = text[pos + i]
    BY <2>2, <2>3, <2>4
  <2>6. bytes = [i \in 1 .. cnt |-> bytes[i]]
    BY <2>5
  <2> QED BY <2>5, <2>6
<1> DEFINE h == Filled(g, bytes)
           D == [i \in 0 .. B |-> IF i \in last .. last + cnt - 1 THEN bytes[i - last + 1] ELSE g.data[i]]
<1>8. h = [data |-> D, last |-> last + cnt, position |-> pos + cnt, out |-> g.out]
  <2>1. h = [g EXCEPT !.last = last + cnt, !.position = pos + cnt, !.data = D]
    <3> DEFINE E == [i \in 0 .. BUFSIZE |-> IF i \in g.last .. g.last + Len(bytes) - 1
                                            THEN bytes[i - g.last + 1] ELSE g.data[i]]
    <3>1. h = [g EXCEPT !.last = @ + Len(bytes), !.position = @ + Len(bytes), !.data = E]
      BY Zenon DEF Filled
    <3>2. E = D
      BY <1>3, <1>7
    <3> HIDE DEF h, D, E
    <3>3. g.last + Len(bytes) = last + cnt /\ g.position + Len(bytes) = pos + cnt
      BY <1>3, <1>7
    <3> QED BY <1>2, <3>1, <3>2, <3>3
  <2> HIDE DEF h, D
  <2> QED BY <1>2, <2>1
<1>9. ASSUME NEW i \in last .. last + cnt - 1
      PROVE  i \in 0 .. B - 1 /\ bytes[i - last + 1] = text[(pos - last) + i + 1] /\ bytes[i - last + 1] \in Nat
  <2>1. PICK j \in 1 .. cnt : j = i - last + 1
    <3>1. i - last + 1 \in 1 .. cnt
      BY <1>4, <1>6
    <3> QED BY <3>1
  <2>2. PICK x \in 1 .. n : x = pos + j /\ x = (pos - last) + i + 1
    <3>1. pos + j \in 1 .. n /\ pos + j = (pos - last) + i + 1
      BY <1>4, <1>6, <2>1
    <3> QED BY <3>1
  <2>3. bytes[j] = text[x]
    BY <1>7, <2>2
  <2>4. text[x] \in Nat
    BY <1>3
  <2>5. i \in 0 .. B - 1
    BY <1>4, <1>6
  <2> QED BY <2>1, <2>2, <2>3, <2>4, <2>5
<1>10. D \in [0 .. B -> Nat]
  <2>1. \A i \in 0 .. B : g.data[i] \in Nat
    BY <1>2, <1>3
  <2> QED BY <1>9, <2>1
<1>11. D[B] # Newline
  <2>1. B \in 0 .. B /\ B \notin last .. last + cnt - 1
    BY <1>4, <1>6
  <2>2. D[B] = g.data[B]
    BY <2>1
  <2> QED BY <1>1, <1>3, <2>2
<1>12. \A i \in 0 .. last + cnt - 1 : D[i] = text[(pos - last) + i + 1]
  <2> TAKE i \in 0 .. last + cnt - 1
  <2>1. i \in 0 .. B
    BY <1>4, <1>6
  <2>2. CASE i \in last .. last + cnt - 1
    <3>1. D[i] = bytes[i - last + 1]
      BY <2>1, <2>2
    <3> HIDE DEF D
    <3> QED BY <1>9, <2>2, <3>1
  <2>3. CASE i \notin last .. last + cnt - 1
    <3>1. D[i] = g.data[i]
      BY <2>1, <2>3
    <3>2. i \in 0 .. last - 1
      BY <1>4, <1>6, <2>3
    <3> HIDE DEF D
    <3> QED BY <1>1, <1>3, <3>1, <3>2
  <2> QED BY <2>2, <2>3
<1> HIDE DEF h, D
<1>13. /\ last + cnt \in Nat /\ pos + cnt \in Nat /\ last + cnt \in 0 .. B /\ pos + cnt \in 0 .. n
       /\ last + cnt <= pos + cnt /\ (pos + cnt) - (last + cnt) = pos - last /\ ((pos + cnt) - (last + cnt)) + 0 = pos - last
       /\ 0 \in 0 .. B /\ 0 <= last + cnt
       /\ last + cnt < B \/ cnt = 0 => pos + cnt = n
  BY <1>4, <1>6
<1>14. h \in Contents /\ h.data = D /\ h.last = last + cnt /\ h.position = pos + cnt /\ h.out = g.out
  BY <1>2, <1>3, <1>8, <1>10, <1>13 DEF Contents
<1>15. Held(h, text, 0)
  <2>1. h.position \in 0 .. Len(text) /\ h.last <= h.position
    BY <1>3, <1>13, <1>14
  <2>2. h.data[BUFSIZE] # Newline
    BY <1>3, <1>11, <1>14
  <2>3. \A i \in 0 .. h.last - 1 : h.data[i] = text[(h.position - h.last) + i + 1]
    <3> TAKE i \in 0 .. h.last - 1
    <3>1. i \in 0 .. last + cnt - 1 /\ h.position - h.last = pos - last
      BY <1>13, <1>14
    <3> QED BY <1>12, <1>14, <3>1
  <2> QED BY <1>14, <2>1, <2>2, <2>3 DEF Held
<1>16. AtLine(h, 0, text, P, cnt)
  <2>1. (h.position - h.last) + 0 = g.position - g.last
    BY <1>3, <1>13, <1>14
  <2>2. 0 \in 0 .. BUFSIZE /\ 0 <= h.last
    BY <1>3, <1>13, <1>14
  <2>3. h.last < BUFSIZE \/ cnt = 0 => h.position = Len(text)
    BY <1>3, <1>13, <1>14
  <2> QED BY <1>1, <1>14, <1>15, <2>1, <2>2, <2>3 DEF AtLine
<1> QED BY <1>3, <1>5, <1>6, <1>7, <1>14, <1>16 DEF FilledWell, h

\* A file that holds a text.
Holds(image, inode, text) ==
    /\ ~(inode >= Boot(image).inode_size) /\ Inode(image, inode).file_length = Len(text)
    /\ FileBytes(image, inode) = text

\* What read brings is the next bytes of the text, as many as there is room for.
LEMMA NextBytes ==
    ASSUME NEW text \in Seq(Nat), NEW P, NEW image, NEW inode, Holds(image, inode, text),
           NEW g, Rested(g, text, P)
    PROVE  \E y : Bytes(read_data(image, inode, g.position, BUFSIZE - g.last), text, g, y)
<1>1. g \in Contents /\ g.position \in 0 .. Len(text) /\ g.last < BUFSIZE
  BY DEF Rested, Held
<1>2. g.last \in 0 .. BUFSIZE /\ g.position \in Nat
  BY <1>1 DEF Contents
<1>3. PICK last \in Nat, pos \in Nat, n \in Nat, B \in Nat :
          last = g.last /\ pos = g.position /\ n = Len(text) /\ B = BUFSIZE
  BY <1>2, BufferAssumption
<1>4. pos <= n /\ last < B
  BY <1>1, <1>3
<1>5. PICK m \in Nat : m = B - last
  BY <1>4
<1>6. Min({n, pos + m}) = IF n <= pos + m THEN n ELSE pos + m
  <2>1. n \in Int /\ pos + m \in Int
    OBVIOUS
  <2> QED BY <2>1, MinOfTwo
<1>7. PICK y \in pos .. n : y = Min({n, pos + m}) /\ y - pos <= m /\ (y = n \/ y - pos = m)
  <2>1. CASE n <= pos + m
    BY <1>4, <1>6, <2>1
  <2>2. CASE ~(n <= pos + m)
    <3>1. pos + m \in pos .. n /\ (pos + m) - pos = m
      BY <2>2
    <3> QED BY <1>6, <2>2, <3>1
  <2> QED BY <2>1, <2>2
<1>8. /\ ~(inode >= Boot(image).inode_size) /\ Inode(image, inode).file_length = n
      /\ FileBytes(image, inode) = text
  BY <1>3 DEF Holds
<1>9. read_data(image, inode, pos, m) = ReadResult(image, inode, pos, m)
  BY <1>8, ReadsBytes
<1>10. read_data(image, inode, pos, m) = SubSeq(text, pos + 1, y)
  BY <1>7, <1>8, <1>9 DEF ReadResult
<1>11. Bytes(read_data(image, inode, pos, m), text, g, y)
  BY <1>3, <1>5, <1>7, <1>10 DEF Bytes
<1> QED BY <1>3, <1>5, <1>11

\* grep between two buffers, and after the last.
Grep(p, text, P) ==
    /\ p \in [g : Contents, done : BOOLEAN] /\ Rested(p.g, text, P)
    /\ p.done => p.g.last = 0 /\ p.g.position = Len(text)

\* A buffer read and searched: all before is handled, and the file's end is met or more is read.
LEMMA BufferTurn ==
    ASSUME NEW text, NEW s, NEW fname, NEW P, Greps(text, s, fname, P),
           NEW image, NEW inode, Holds(image, inode, text), NEW p, Grep(p, text, P)
    PROVE  LET next == Grepping(image, inode, s, fname, p)
           IN /\ Grep(next, text, P)
              /\ p.done => next = p
              /\ ~p.done => next.done \/ next.g.position > p.g.position
<1>0. text \in Seq(Nat)
  BY DEF Greps
<1>t. p \in [g : Contents, done : BOOLEAN] /\ Rested(p.g, text, P)
  BY DEF Grep
<1> DEFINE g == p.g
           bytes == read_data(image, inode, g.position, BUFSIZE - g.last)
           h == Filled(g, bytes)
           r == Searching(h, s, fname, Len(bytes))
           next == Grepping(image, inode, s, fname, p)
<1>1. next = IF p.done THEN p ELSE [g |-> r, done |-> bytes = <<>>]
  BY Zenon DEF Grepping
<1>2. PICK y : Bytes(bytes, text, g, y)
  BY <1>0, <1>t, NextBytes
<1> HIDE DEF next, bytes
<1>3. FilledWell(h, bytes, text, P, y) /\ Len(bytes) = y - g.position
  BY <1>0, <1>2, <1>t, FilledIs
<1> HIDE DEF h
<1>4. AtLine(h, 0, text, P, Len(bytes)) /\ h.position = y /\ Len(bytes) \in Nat
  BY <1>3 DEF FilledWell
<1>5. AllSearched(r, h, text, P, Len(bytes))
  BY <1>4, SearchingIs
<1> HIDE DEF r
<1>6. Rested(r, text, P) /\ (Len(bytes) = 0 => r.last = 0) /\ r.position = y
  BY <1>4, <1>5 DEF AllSearched
<1>7. bytes = <<>> <=> Len(bytes) = 0
  <2>1. bytes = SubSeq(text, g.position + 1, y)
    BY <1>2 DEF Bytes
  <2>2. bytes \in Seq(Nat)
    <3>1. g.position \in Nat
      BY <1>t DEF Contents
    <3>2. y \in Nat /\ y <= Len(text)
      BY <1>0, <1>2, <3>1 DEF Bytes
    <3> QED BY <1>0, <2>1, <3>1, <3>2
  <2> QED BY <2>2
<1>8. CASE p.done
  <2>1. next = p
    BY <1>1, <1>8
  <2> QED BY <1>8, <2>1 DEF next
<1>9. CASE ~p.done
  <2>1. next = [g |-> r, done |-> bytes = <<>>]
    BY <1>1, <1>9
  <2>2. r \in Contents
    BY <1>6 DEF Rested, Held
  <2>3. next \in [g : Contents, done : BOOLEAN] /\ next.g = r /\ (next.done <=> Len(bytes) = 0)
    BY <1>7, <2>1, <2>2
  <2>4. Len(bytes) = 0 => y = Len(text)
    <3>1. g.position \in Nat /\ y \in g.position .. Len(text) /\ Len(text) \in Nat
      BY <1>0, <1>2, <1>t DEF Bytes, Contents
    <3>2. Len(bytes) = 0 => h.position = Len(text)
      BY <1>4 DEF AtLine
    <3> QED BY <1>4, <3>2
  <2>5. Grep(next, text, P)
    BY <1>6, <2>3, <2>4 DEF Grep
  <2>6. next.done \/ next.g.position > g.position
    <3>1. g.position \in Nat /\ y \in g.position .. Len(text) /\ Len(text) \in Nat
      BY <1>0, <1>2, <1>t DEF Bytes, Contents
    <3>2. y # g.position => y > g.position
      BY <3>1
    <3>3. y = g.position => Len(bytes) = 0
      BY <1>3, <3>1
    <3> QED BY <1>6, <2>3, <3>2, <3>3
  <2> QED BY <1>9, <2>5, <2>6 DEF next
<1> QED BY <1>8, <1>9

GrepRight(text, s, fname, junk, image, inode) ==
    do_one_file(image, inode, s, fname, junk) = terminal_write(FlattenSeq(Hits(text, s, fname)))

\* The search of a whole file, on which the theorem GrepFinds rests.
LEMMA GrepDone ==
    ASSUME NEW text \in Seq(Nat), Fits(text), NEW s \in Seq(Nat), s # <<>>, NEW fname \in Seq(Nat),
           NEW junk \in Nat, junk # Newline, NEW image, NEW inode, Holds(image, inode, text)
    PROVE  GrepRight(text, s, fname, junk, image, inode)
<1> DEFINE n == Inode(image, inode).file_length + 1
           g0 == [data |-> [i \in 0 .. BUFSIZE |-> junk], last |-> 0, position |-> 0, out |-> <<>>]
           first == [g |-> g0, done |-> FALSE]
           Next1(p) == Grepping(image, inode, s, fname, p)
           f == CHOOSE turn : turn = [k \in 0 .. n |-> IF k = 0 THEN first ELSE Next1(turn[k - 1])]
<1>1. do_one_file(image, inode, s, fname, junk) = terminal_write(f[n].g.out)
  BY Zenon DEF do_one_file
<1>2. PICK m \in Nat : m = Len(text) /\ n = m + 1
  BY DEF Holds
<1>3. Hits(text, s, fname) \in Alltexts(m)
  BY <1>2, HitsTyped
<1>4. PICK P : Joins(P, Hits(text, s, fname), m)
  BY <1>3, JoinsExist
<1>5. Greps(text, s, fname, P)
  BY <1>2, <1>4 DEF Greps, PrintedUpTo
<1>6. FlattenSeq(Hits(text, s, fname)) = P[m]
  BY <1>3, <1>4, FlattenIs
<1>7. P[0] = <<>>
  BY <1>4 DEF Joins
<1> DEFINE S == {p \in [g : Contents, done : BOOLEAN] : Grep(p, text, P)}
           Good(k, p) == p.done \/ p.g.position >= k
           step == [k \in 1 .. n |-> [p \in S |-> Next1(p)]]
<1>n. n \in Nat \ {0} /\ n = m + 1 /\ m \in Nat
  BY <1>2
<1>8. ASSUME NEW p \in S PROVE Next1(p) \in S /\ \A k \in Nat : Good(k, p) => Good(k + 1, Next1(p))
  <2>1. Grep(p, text, P)
    OBVIOUS
  <2>2. /\ Grep(Next1(p), text, P)
        /\ p.done => Next1(p) = p
        /\ ~p.done => Next1(p).done \/ Next1(p).g.position > p.g.position
    BY <1>5, <2>1, BufferTurn
  <2>3. Next1(p) \in [g : Contents, done : BOOLEAN]
    BY <2>2 DEF Grep
  <2> HIDE DEF Next1
  <2>4. p.g.position \in Nat /\ Next1(p).g.position \in Nat
    BY <2>3 DEF Contents
  <2>5. ASSUME NEW k \in Nat, Good(k, p) PROVE Good(k + 1, Next1(p))
    <3>1. CASE p.done
      BY <2>2, <3>1
    <3>2. CASE ~p.done
      BY <2>2, <2>4, <2>5, <3>2
    <3> QED BY <3>1, <3>2
  <2> QED BY <2>2, <2>3, <2>5
<1>9. first \in S /\ Good(0, first)
  <2>1. /\ g0.data = [i \in 0 .. BUFSIZE |-> junk] /\ g0.last = 0 /\ g0.position = 0 /\ g0.out = <<>>
        /\ g0 \in Contents /\ g0.data[BUFSIZE] # Newline /\ g0.last < BUFSIZE
    BY BufferAssumption DEF Contents
  <2> HIDE DEF g0
  <2>2. Held(g0, text, 0)
    <3>1. g0.position \in 0 .. Len(text) /\ g0.last <= g0.position /\ 0 .. g0.last - 1 = {}
      BY <2>1
    <3> QED BY <2>1, <3>1 DEF Held
  <2>3. Searchable(text, g0.position - g0.last) /\ g0.out = P[g0.position - g0.last]
    <3>1. g0.position - g0.last = 0 /\ 0 \in 0 .. Len(text)
      BY <2>1
    <3> QED BY <1>7, <2>1, <3>1 DEF Searchable, Fresh
  <2>4. Rested(g0, text, P)
    BY <2>1, <2>2, <2>3 DEF Rested
  <2>5. first \in [g : Contents, done : BOOLEAN] /\ first.g = g0 /\ ~first.done
    BY <2>1
  <2> HIDE DEF first
  <2>6. Grep(first, text, P)
    BY <2>4, <2>5 DEF Grep
  <2>7. first.g.position >= 0
    BY <2>1, <2>5
  <2> QED BY <2>5, <2>6, <2>7
<1> HIDE DEF first, g0, S, Next1, Good, n
<1>10. step \in Bodies(n, S)
  BY <1>8 DEF Bodies
<1>11. PICK h \in [0 .. n -> S] : h[0] = first /\ \A k \in 1 .. n : h[k] = step[k][h[k - 1]]
  <2> HIDE DEF step
  <2>1. PICK h : h \in Runs(n, S, first, step)
    BY <1>n, <1>9, <1>10, LoopExists
  <2> QED BY <2>1 DEF Runs
<1>12. h = [k \in 0 .. n |-> IF k = 0 THEN first ELSE Next1(h[k - 1])]
  <2>1. ASSUME NEW k \in 0 .. n, k # 0 PROVE h[k] = Next1(h[k - 1])
    <3>1. k \in 1 .. n /\ k - 1 \in 0 .. n
      BY <1>n, <2>1
    <3>2. h[k - 1] \in S
      BY <3>1
    <3> QED BY <1>11, <3>1, <3>2
  <2> QED BY <1>11, <2>1
<1>13. f = [k \in 0 .. n |-> IF k = 0 THEN first ELSE Next1(f[k - 1])]
  BY <1>12, Zenon
<1> HIDE DEF f
<1>14. \A k \in 0 .. n : f[k] \in S /\ Good(k, f[k])
  <2> DEFINE Q == {k \in 0 .. n : f[k] \in S /\ Good(k, f[k])}
  <2>1. 0 \in Q
    BY <1>n, <1>9, <1>13
  <2>2. ASSUME NEW k \in 1 .. n, k - 1 \in Q PROVE k \in Q
    <3>1. f[k] = Next1(f[k - 1]) /\ k - 1 \in Nat /\ k - 1 + 1 = k /\ k \in 0 .. n
      BY <1>n, <1>13
    <3> QED BY <1>8, <2>2, <3>1
  <2>3. \A k \in 0 .. n : k \in Q
    <3> HIDE DEF Q
    <3> QED BY <1>n, <2>1, <2>2, Turns, Zenon
  <2> QED BY <2>3
<1>15. f[n] \in S /\ Good(n, f[n])
  BY <1>n, <1>14
<1> DEFINE p == f[n]
<1>16. Grep(p, text, P) /\ (p.done \/ p.g.position >= n)
  BY <1>15 DEF S, Good
<1> HIDE DEF p
<1>17. Rested(p.g, text, P) /\ (p.done => p.g.last = 0 /\ p.g.position = m)
  BY <1>2, <1>16 DEF Grep
<1>18. p.g.position \in 0 .. m /\ p.g.out = P[p.g.position - p.g.last]
  BY <1>2, <1>17 DEF Rested, Held
<1>19. p.done
  BY <1>n, <1>16, <1>18
<1>20. p.g.position - p.g.last = m
  BY <1>17, <1>19
<1>21. p.g.out = P[m]
  BY <1>18, <1>20
<1> QED BY <1>1, <1>6, <1>21 DEF p, GrepRight

\* grep finds every line that contains the pattern, once and in order, in a file of any
\* length, with a buffer of any size that no line of the file exceeds, whatever lies in
\* the buffer before the first read but a newline (ece391grep.c:9-66).
THEOREM GrepFinds ==
    ASSUME NEW text \in Seq(Nat), Fits(text), NEW s \in Seq(Nat), s # <<>>, NEW fname \in Seq(Nat),
           NEW junk \in Nat, junk # Newline, NEW image, NEW inode, Holds(image, inode, text)
    PROVE  do_one_file(image, inode, s, fname, junk)
           = terminal_write(FlattenSeq(Hits(text, s, fname)))
BY GrepDone DEF GrepRight

\* cat prints the file as it is (ece391cat.c:21-28).
THEOREM CatCopies ==
    ASSUME NEW text \in Seq(Nat), NEW image, NEW inode, Holds(image, inode, text)
    PROVE  cat(image, inode) = terminal_write(text)
<1>1. ReadAll(image, inode, BUFSIZE) = FileBytes(image, inode)
  <2>1. BUFSIZE \in Nat \ {0} /\ ~(inode >= Boot(image).inode_size) /\ Inode(image, inode).file_length \in Nat
    BY BufferAssumption DEF Holds
  <2> QED BY <2>1, ReadsWholeFile
<1> QED BY <1>1 DEF cat, Holds

\* The images of the run hold the text they are made for.
TextBlock(text, k) ==
    [j \in 0 .. DATA_BLOCK_SIZE - 1 |->
        LET i == (k - 1) * DATA_BLOCK_SIZE + j + 1 IN IF i <= Len(text) THEN text[i] ELSE 97]

\* The image holds the text.
LEMMA TextHeld ==
    ASSUME NEW text \in Seq(Nat)
    PROVE  Holds(TextImage(text), 0, text)
<1>n. PICK n \in Nat : n = Len(text)
  OBVIOUS
<1> DEFINE image == TextImage(text)
           blocks == [i \in 0 .. n |-> i]
           front == << [inode_size |-> 1, dir_entries |-> <<>>],
                       [file_length |-> n, num_of_blocks |-> blocks] >>
           back == [k \in 1 .. n + 1 |-> TextBlock(text, k)]
<1>s. DATA_BLOCK_SIZE \in Nat \ {0}
  BY FileAssumption
<1>1. image = front \o back /\ Len(front) = 2 /\ Len(back) = n + 1
  BY <1>n DEF TextImage, TextBlock
<1>2. \A i \in 1 .. n + 3 : image[i] = IF i <= 2 THEN front[i] ELSE back[i - 2]
  <2> DEFINE V == {front[1], front[2]} \cup {back[k] : k \in 1 .. n + 1}
  <2>1. front \in Seq(V) /\ back \in Seq(V)
    OBVIOUS
  <2> HIDE DEF front, back, image, V
  <2>2. \A i \in 1 .. Len(front) + Len(back) :
            (front \o back)[i] = IF i <= Len(front) THEN front[i] ELSE back[i - Len(front)]
    BY <2>1
  <2>3. \A i \in 1 .. 2 + (n + 1) : image[i] = IF i <= 2 THEN front[i] ELSE back[i - 2]
    BY <1>1, <2>2, Zenon
  <2>4. 2 + (n + 1) = n + 3
    OBVIOUS
  <2> QED BY <2>3, <2>4
<1>3. image[1] = [inode_size |-> 1, dir_entries |-> <<>>]
  <2>1. 1 \in 1 .. n + 3 /\ 1 <= 2
    OBVIOUS
  <2>2. image[1] = front[1]
    <3> HIDE DEF image, front, back
    <3> QED BY <1>2, <2>1
  <2> HIDE DEF image
  <2> QED BY <2>2
<1>4. image[2] = [file_length |-> n, num_of_blocks |-> blocks]
  <2>1. 2 \in 1 .. n + 3 /\ 2 <= 2
    OBVIOUS
  <2>2. image[2] = front[2]
    <3> HIDE DEF image, front, back
    <3> QED BY <1>2, <2>1
  <2> HIDE DEF image, blocks
  <2> QED BY <2>2
<1>5. ASSUME NEW k \in 0 .. n PROVE image[3 + k] = TextBlock(text, k + 1)
  <2>1. 3 + k \in 1 .. n + 3 /\ ~(3 + k <= 2) /\ (3 + k) - 2 = k + 1 /\ k + 1 \in 1 .. n + 1
    OBVIOUS
  <2> HIDE DEF image, front
  <2>2. image[3 + k] = back[k + 1]
    <3> HIDE DEF back
    <3> QED BY <1>2, <2>1
  <2> QED BY <2>1, <2>2
<1> HIDE DEF image, front, back
<1>6. Boot(image).inode_size = 1
  BY <1>3 DEF Boot
<1>7. Inode(image, 0) = [file_length |-> n, num_of_blocks |-> blocks]
  BY <1>4 DEF Inode
<1>8. ASSUME NEW k \in 0 .. n PROVE DataBlock(image, k) = TextBlock(text, k + 1)
  <2>1. 2 + 1 + k = 3 + k
    OBVIOUS
  <2> QED BY <1>5, <1>6, <2>1 DEF DataBlock
<1>9. ASSUME NEW i \in 1 .. n
      PROVE  DataBlock(image, blocks[(i - 1) \div DATA_BLOCK_SIZE])[(i - 1) % DATA_BLOCK_SIZE] = text[i]
  <2>1. i - 1 \in Nat
    OBVIOUS
  <2>2. PICK q \in Nat, r \in 0 .. DATA_BLOCK_SIZE - 1 :
            /\ q = (i - 1) \div DATA_BLOCK_SIZE /\ r = (i - 1) % DATA_BLOCK_SIZE
            /\ i - 1 = q * DATA_BLOCK_SIZE + r
    BY <1>s, <2>1, Divided
  <2>3. PICK z \in Nat : z = q * DATA_BLOCK_SIZE
    BY <1>s
  <2>4. q <= z
    <3>1. q * (DATA_BLOCK_SIZE - 1) >= 0 /\ q * DATA_BLOCK_SIZE = q * (DATA_BLOCK_SIZE - 1) + q
      BY <1>s
    <3>2. PICK w \in Nat : w = q * (DATA_BLOCK_SIZE - 1)
      BY <1>s, <3>1
    <3>3. z = w + q
      BY <2>3, <3>1, <3>2
    <3> QED BY <3>3
  <2>5. q \in 0 .. n
    BY <1>s, <2>2, <2>3, <2>4
  <2>6. blocks[q] = q
    BY <2>5
  <2>7. DataBlock(image, q) = TextBlock(text, q + 1)
    BY <1>8, <2>5
  <2> DEFINE x == ((q + 1) - 1) * DATA_BLOCK_SIZE + r + 1
  <2>8. TextBlock(text, q + 1)[r] = IF x <= Len(text) THEN text[x] ELSE 97
    BY Zenon DEF TextBlock
  <2>9. x = i
    <3>1. (q + 1) - 1 = q
      OBVIOUS
    <3>2. z + r + 1 = i
      BY <1>s, <2>2, <2>3
    <3> QED BY <2>3, <3>1, <3>2
  <2> HIDE DEF x
  <2>10. TextBlock(text, q + 1)[r] = text[i]
    BY <1>n, <2>8, <2>9
  <2> HIDE DEF blocks
  <2> QED BY <2>2, <2>6, <2>7, <2>10, Zenon
<1>10. FileBytes(image, 0) = [i \in 1 .. n |->
           DataBlock(image, blocks[(i - 1) \div DATA_BLOCK_SIZE])[(i - 1) % DATA_BLOCK_SIZE]]
  <2> HIDE DEF blocks
  <2>1. Inode(image, 0).file_length = n /\ Inode(image, 0).num_of_blocks = blocks
    BY <1>7
  <2> QED BY <2>1, Zenon DEF FileBytes
<1>11. text = [i \in 1 .. n |-> text[i]]
  BY <1>n
<1> HIDE DEF blocks
<1>12. FileBytes(image, 0) = text
  BY <1>9, <1>10, <1>11
<1>13. ~(0 >= Boot(image).inode_size) /\ Inode(image, 0).file_length = Len(text)
  BY <1>n, <1>6, <1>7
<1> QED BY <1>12, <1>13 DEF Holds, image

\* Two texts of one character each.
LEMMA TwoJoined ==
    ASSUME NEW x \in Nat, NEW y \in Nat
    PROVE  <<x>> \o <<y>> = <<x, y>>
<1> DEFINE a == <<x>>
           b == <<y>>
           c == <<x, y>>
<1>1. a \in Seq(Nat) /\ b \in Seq(Nat) /\ c \in Seq(Nat) /\ Len(a) = 1 /\ Len(b) = 1 /\ Len(c) = 2
      /\ a[1] = x /\ b[1] = y /\ c[1] = x /\ c[2] = y
  OBVIOUS
<1> HIDE DEF a, b, c
<1>2. a \o b \in Seq(Nat) /\ Len(a \o b) = 2 /\ (a \o b)[1] = x /\ (a \o b)[2] = y
  <2>0. a \in Seq(Nat) /\ b \in Seq(Nat)
    BY <1>1
  <2>1. a \o b \in Seq(Nat) /\ Len(a \o b) = Len(a) + Len(b)
    BY <2>0
  <2>2. \A i \in 1 .. Len(a) + Len(b) : (a \o b)[i] = IF i <= Len(a) THEN a[i] ELSE b[i - Len(a)]
    BY <2>0
  <2>3. 1 \in 1 .. 1 + 1 /\ 2 \in 1 .. 1 + 1 /\ 1 <= 1 /\ ~(2 <= 1) /\ 2 - 1 = 1
    OBVIOUS
  <2>4. (a \o b)[1] = a[1] /\ (a \o b)[2] = b[1]
    BY <1>1, <2>2, <2>3
  <2> QED BY <1>1, <2>1, <2>4
<1> DEFINE d == a \o b
<1> HIDE DEF d
<1>3. d \in Seq(Nat) /\ Len(d) = 2 /\ d[1] = x /\ d[2] = y
  BY <1>2 DEF d
<1>4. d = [i \in 1 .. 2 |-> d[i]] /\ c = [i \in 1 .. 2 |-> c[i]]
  BY <1>1, <1>3
<1>5. \A i \in 1 .. 2 : d[i] = c[i]
  BY <1>1, <1>3
<1>6. d = c
  BY <1>4, <1>5
<1> QED BY <1>6 DEF a, b, c, d

\* Whatever is called of cat and grep, they print what they should (ece391grep.c:9-66;
\* ece391cat.c:21-28).
THEOREM TextsShown == Spec => []ProgramsShow
<1>1. call \in Calls => ProgramsShow
  <2> SUFFICES ASSUME call \in Calls, call.routine = "grep" PROVE ProgramsShow
    BY DEF ProgramsShow
  <2>1. call \in ProgramCalls
    BY CallKinds
  <2>2. PICK text \in SeqsUpTo({97, TabChar, Newline}, 6) : text = call.text
    BY <2>1 DEF ProgramCalls
  <2>3. PICK s \in {<<97>>, <<97, 97>>, <<TabChar, 97>>} : s = call.s
    BY <2>1 DEF ProgramCalls
  <2>4. PICK junk \in {Nul, 97} : junk = call.junk
    BY <2>1 DEF ProgramCalls
  <2>5. text \in Seq(Nat)
    <3>1. PICK k \in 0 .. 6 : text \in [1 .. k -> {97, TabChar, Newline}]
      BY DEF SeqsUpTo
    <3>2. text \in [1 .. k -> Nat]
      BY <3>1 DEF TabChar, Newline
    <3> QED BY <3>2
  <2>6. s \in Seq(Nat) /\ s # <<>>
    <3>1. CASE s = <<97>>
      BY <3>1
    <3>2. CASE s = <<97, 97>>
      BY <3>2
    <3>3. CASE s = <<TabChar, 97>>
      BY <3>3 DEF TabChar
    <3> QED BY <3>1, <3>2, <3>3
  <2>7. junk \in Nat /\ junk # Newline
    BY DEF Nul, Newline
  <2>8. <<102>> \in Seq(Nat)
    OBVIOUS
  <2>9. Holds(TextImage(text), 0, text)
    BY <2>5, TextHeld
  <2>10. cat(TextImage(text), 0) = terminal_write(text)
    BY <2>5, <2>9, CatCopies
  <2> DEFINE starts == {i \in 1 .. Len(text) : LineBegins(text, i)}
             hits   == {i \in starts : Matched(LineAt(text, i), s)}
             found  == [i \in 1 .. Len(text) |->
                          IF i \in hits THEN <<102, Colon>> \o LineAt(text, i) \o <<Newline>> ELSE <<>>]
  <2>11. found = Hits(text, s, <<102>>)
    <3>1. <<102>> \o <<Colon>> = <<102, Colon>>
      BY TwoJoined DEF Colon
    <3>2. \A i \in 1 .. Len(text) : i \in hits <=> LineBegins(text, i) /\ Matched(LineAt(text, i), s)
      OBVIOUS
    <3>3. \A line : Printed(<<102>>, line) = <<102, Colon>> \o line \o <<Newline>>
      BY <3>1, Zenon DEF Printed
    <3> HIDE DEF hits
    <3> QED BY <3>2, <3>3 DEF Hits
  <2>12. (\A i \in starts : Len(LineAt(text, i)) <= BUFSIZE) => Fits(text)
    BY DEF Fits
  <2>13. Fits(text) => do_one_file(TextImage(text), 0, s, <<102>>, junk)
                       = terminal_write(FlattenSeq(Hits(text, s, <<102>>)))
    <3> HIDE DEF starts, hits, found
    <3> SUFFICES ASSUME Fits(text)
                 PROVE  do_one_file(TextImage(text), 0, s, <<102>>, junk)
                        = terminal_write(FlattenSeq(Hits(text, s, <<102>>)))
      OBVIOUS
    <3>1. GrepRight(text, s, <<102>>, junk, TextImage(text), 0)
      BY <2>5, <2>6, <2>7, <2>8, <2>9, GrepDone
    <3> QED BY <3>1, Zenon DEF GrepRight
  <2> HIDE DEF found
  <2>14. (\A i \in starts : Len(LineAt(text, i)) <= BUFSIZE) =>
             do_one_file(TextImage(text), 0, s, <<102>>, junk) = terminal_write(FlattenSeq(found))
    BY <2>11, <2>12, <2>13
  <2> HIDE DEF starts, hits
  <2> QED BY <2>2, <2>3, <2>4, <2>10, <2>14 DEF ProgramsShow, found, hits, starts
<1> QED BY <1>1, CallsMade, PTL
=============================================================================
