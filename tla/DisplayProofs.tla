---------------------------- MODULE DisplayProofs ----------------------------
(***************************************************************************)
(* The page tables give every terminal its own screen, whatever the number *)
(* of terminals and the size of the screens: Display implements Screens.   *)
(***************************************************************************)
EXTENDS Display, TLAPS

\* Where the kernel's and vidmap's pages are mapped while terminal c is displayed.
Mapping(c)       == [p \in Pages |-> IF p = c THEN DISPLAY ELSE IF p = DISPLAY THEN c ELSE p]
VidmapMapping(c) == [t \in Terms |-> IF t = c THEN DISPLAY ELSE t]

\* The tables agree with the displayed terminal, or with the one to come once
\* terminal_switch has remapped them, and the translations in use follow at the
\* flush; while the switch runs, the screen it leaves is saved in its backup.
Consistent ==
    LET shows  == IF step \in {"flush", "restore"} THEN new_term ELSE curr_term
        in_use == IF step = "restore" THEN new_term ELSE curr_term
    IN  /\ page_table = Mapping(shows) /\ page_vm_table = VidmapMapping(shows)
        /\ tlb = Mapping(in_use) /\ user_tlb = VidmapMapping(in_use)
        /\ step # "idle" => /\ new_term # curr_term
                            /\ memory[curr_term] = memory[DISPLAY]

IInv == TypeOK /\ Consistent

\* The displayed terminal is none of the backup pages.
LEMMA DisplayNotATerm == DISPLAY \notin Terms /\ 0 \in Terms /\ Terms \subseteq Pages /\ DISPLAY \in Pages
BY CountAssumption DEF Terms, Pages, DISPLAY

\* IInv holds at boot (page_init).
LEMMA InitIInv == Init => IInv
BY DisplayNotATerm DEF Init, IInv, TypeOK, Consistent, Mapping, VidmapMapping, Content

\* A write to a page keeps IInv: it happens only while no switch runs.
LEMMA StoreIInv ==
    ASSUME IInv, step = "idle", NEW p \in Pages, NEW x \in Cells, NEW v \in Values,
           Store(p, x, v), byte' \in [Terms -> Values \cup {NoByte}],
           UNCHANGED <<tables, tlbs, curr_term, new_term, step>>
    PROVE  IInv'
BY DEF IInv, TypeOK, Consistent, Store, tables, tlbs, Content, Mapping, VidmapMapping

\* Every step keeps IInv.
LEMMA NextIInv == IInv /\ [Next]_vars => IInv'
<1> SUFFICES ASSUME IInv, [Next]_vars PROVE IInv'
    OBVIOUS
<1> USE DisplayNotATerm
<1>1. ASSUME NEW t \in Terms, NEW x \in Cells, NEW v \in Values, Putc(t, x, v)
      PROVE  IInv'
    BY <1>1, StoreIInv DEF Putc, IInv, TypeOK
<1>2. ASSUME NEW t \in Terms, NEW x \in Cells, NEW v \in Values, VidmapWrite(t, x, v)
      PROVE  IInv'
    BY <1>2, StoreIInv DEF VidmapWrite, IInv, TypeOK
<1>a. \A t \in Terms, y \in Cells : TakenUp(t, y) \in Values
    BY DEF IInv, TypeOK, Content, TakenUp
<1>3. ASSUME NEW x \in Cells, NEW y \in Cells, ScrollByte(x, y) PROVE IInv'
    BY <1>3, <1>a, <1>1 DEF ScrollByte, TakenUp, IInv, TypeOK
<1>b. ASSUME NEW t \in Terms, NEW y \in Cells, ScrollRead(t, y) PROVE IInv'
    BY <1>b, <1>a DEF ScrollRead, IInv, TypeOK, Consistent, tables, tlbs
<1>c. ASSUME NEW t \in Terms, NEW x \in Cells, ScrollWrite(t, x) PROVE IInv'
    BY <1>c, StoreIInv DEF ScrollWrite, IInv, TypeOK
<1>4. ASSUME NEW t \in Terms, SwitchSave(t) PROVE IInv'
    BY <1>4 DEF SwitchSave, Copied, IInv, TypeOK, Consistent, tables, tlbs, Mapping, VidmapMapping
<1>5. ASSUME SwitchRemap PROVE IInv'
    BY <1>5 DEF SwitchRemap, Remapped, VidmapRemapped, IInv, TypeOK, Consistent, tables, tlbs,
                Mapping, VidmapMapping
<1>6. ASSUME SwitchFlush PROVE IInv'
    BY <1>6 DEF SwitchFlush, flush_tlb, IInv, TypeOK, Consistent, tables, tlbs
<1>7. ASSUME SwitchRestore PROVE IInv'
    BY <1>7 DEF SwitchRestore, Copied, IInv, TypeOK, Consistent, tables, tlbs
<1>8. CASE UNCHANGED vars
    BY <1>8 DEF vars, tables, tlbs, IInv, TypeOK, Consistent
<1>9. QED BY <1>1, <1>2, <1>3, <1>b, <1>c, <1>4, <1>5, <1>6, <1>7, <1>8 DEF Next

\* The inductive invariant of the page tables.
THEOREM Invariance == Spec => []IInv
BY InitIInv, NextIInv, PTL DEF Spec

\* Every variable has its type.
THEOREM Typed == Spec => []TypeOK
BY Invariance, PTL DEF IInv

\* putc and vidmap of a terminal reach the same page, no terminal that of another.
THEOREM OnePage == Spec => []OnePagePerTerminal
<1>1. IInv => OnePagePerTerminal
    BY DisplayNotATerm DEF IInv, TypeOK, Consistent, OnePagePerTerminal, Mapping, VidmapMapping, Pages
<1>2. QED BY <1>1, Invariance, PTL

-----------------------------------------------------------------------------
\* A byte stored in the page mapped for terminal t is a write to its screen.
LEMMA StoreWrites ==
    ASSUME IInv, NEW t \in Terms, NEW x \in Cells, NEW v \in Values,
           Store(IF t = curr_term THEN DISPLAY ELSE t, x, v),
           UNCHANGED curr_term
    PROVE  LET s == [u \in Terms |-> Screen(u)]
           IN  s' = [s EXCEPT ![t] = [s[t] EXCEPT ![x] = v]]
<1> DEFINE s == [u \in Terms |-> Screen(u)]
<1>1. ASSUME NEW u \in Terms
      PROVE  Screen(u)' = IF u = t THEN [Screen(u) EXCEPT ![x] = v] ELSE Screen(u)
    BY DisplayNotATerm DEF Screen, Store, IInv, TypeOK, Content
<1>2. QED BY <1>1

\* The initial states are initial states of Screens.
LEMMA InitRefines == Init => Abstract!Init
<1> SUFFICES ASSUME Init PROVE Abstract!Init
    OBVIOUS
<1>1. \A t \in Terms : Screen(t) \in [Cells -> Values]
    BY DisplayNotATerm DEF Init, Screen, Content
<1>2. QED BY <1>1 DEF Init, Abstract!Init

\* Every step is a step of Screens or leaves the screens alone.
LEMMA NextRefines ==
    IInv /\ [Next]_vars => [Abstract!Next]_<<[t \in Terms |-> Screen(t)], curr_term, byte>>
<1> SUFFICES ASSUME IInv, [Next]_vars
             PROVE  [Abstract!Next]_<<[t \in Terms |-> Screen(t)], curr_term, byte>>
    OBVIOUS
<1> USE DisplayNotATerm
<1> DEFINE s == [t \in Terms |-> Screen(t)]
<1>0. ASSUME UNCHANGED <<memory, curr_term>> PROVE s' = s /\ curr_term' = curr_term
    BY <1>0 DEF Screen
<1>1. ASSUME NEW t \in Terms, NEW x \in Cells, NEW v \in Values, Putc(t, x, v)
      PROVE  Abstract!Next
  <2>1. tlb[t] = IF t = curr_term THEN DISPLAY ELSE t
      BY <1>1 DEF Putc, IInv, Consistent, Mapping
  <2>2. Abstract!Write(t, x, v)
      BY <1>1, <2>1, StoreWrites DEF Putc, Abstract!Write
  <2>3. QED BY <2>2 DEF Abstract!Next
<1>2. ASSUME NEW t \in Terms, NEW x \in Cells, NEW v \in Values, VidmapWrite(t, x, v)
      PROVE  Abstract!Next
  <2>1. user_tlb[t] = IF t = curr_term THEN DISPLAY ELSE t
      BY <1>2 DEF VidmapWrite, IInv, Consistent, VidmapMapping
  <2>2. Abstract!Write(t, x, v)
      BY <1>2, <2>1, StoreWrites DEF VidmapWrite, Abstract!Write
  <2>3. QED BY <2>2 DEF Abstract!Next
<1>3. ASSUME NEW x \in Cells, NEW y \in Cells, ScrollByte(x, y) PROVE Abstract!Next
  <2>1. memory[tlb[curr_term]][y] \in Values /\ curr_term \in Terms
      BY DEF IInv, TypeOK, Content
  <2>2. QED BY <1>3, <2>1, <1>1 DEF ScrollByte
<1>b. ASSUME NEW t \in Terms, NEW y \in Cells, ScrollRead(t, y) PROVE Abstract!Next
  <2>1. tlb[t] = IF t = curr_term THEN DISPLAY ELSE t
      BY <1>b DEF ScrollRead, IInv, Consistent, Mapping
  <2>2. TakenUp(t, y) = s[t][y]
      BY <2>1 DEF TakenUp, Screen
  <2>3. Abstract!TakeUp(t, y)
      BY <1>b, <1>0, <2>2 DEF ScrollRead, Abstract!TakeUp
  <2>4. QED BY <2>3 DEF Abstract!Next
<1>c. ASSUME NEW t \in Terms, NEW x \in Cells, ScrollWrite(t, x) PROVE Abstract!Next
  <2>1. tlb[t] = IF t = curr_term THEN DISPLAY ELSE t
      BY <1>c DEF ScrollWrite, IInv, Consistent, Mapping
  <2>2. byte[t] \in Values
      BY <1>c DEF ScrollWrite, IInv, TypeOK
  <2>3. s' = [s EXCEPT ![t] = [s[t] EXCEPT ![x] = byte[t]]]
      BY <1>c, <2>1, <2>2, StoreWrites DEF ScrollWrite
  <2>4. Abstract!PutDown(t, x)
      BY <1>c, <2>3 DEF ScrollWrite, Abstract!PutDown
  <2>5. QED BY <2>4 DEF Abstract!Next
<1>4. ASSUME NEW t \in Terms, SwitchSave(t) PROVE UNCHANGED <<s, curr_term, byte>>
  <2>1. tlb[DISPLAY] = curr_term /\ tlb[curr_term] = DISPLAY
      BY <1>4 DEF SwitchSave, IInv, TypeOK, Consistent, Mapping
  <2>2. \A u \in Terms : Screen(u)' = Screen(u)
      BY <1>4, <2>1 DEF SwitchSave, Copied, Screen, IInv, TypeOK
  <2>3. QED BY <1>4, <2>2 DEF SwitchSave
<1>5. ASSUME SwitchRemap PROVE UNCHANGED <<s, curr_term, byte>>
    BY <1>0, <1>5 DEF SwitchRemap
<1>6. ASSUME SwitchFlush PROVE UNCHANGED <<s, curr_term, byte>>
    BY <1>0, <1>6 DEF SwitchFlush
<1>7. ASSUME SwitchRestore PROVE Abstract!Next
  <2>1. tlb[new_term] = DISPLAY /\ tlb[DISPLAY] = new_term /\ new_term # curr_term
      BY <1>7 DEF SwitchRestore, IInv, TypeOK, Consistent, Mapping
  <2>2. memory[curr_term] = memory[DISPLAY]
      BY <1>7 DEF SwitchRestore, IInv, Consistent
  <2>3. \A u \in Terms : Screen(u)' = Screen(u)
      BY <1>7, <2>1, <2>2 DEF SwitchRestore, Copied, Screen, IInv, TypeOK
  <2>4. Abstract!Show(new_term)
      BY <1>7, <2>3 DEF SwitchRestore, Abstract!Show
  <2>5. QED BY <2>4 DEF Abstract!Next, IInv, TypeOK
<1>8. CASE UNCHANGED vars
    BY <1>0, <1>8 DEF vars
<1>9. QED BY <1>1, <1>2, <1>3, <1>b, <1>c, <1>4, <1>5, <1>6, <1>7, <1>8 DEF Next

\* Display implements Screens: three independent screens, one of them shown.
THEOREM Refinement == Spec => ThreeScreens
BY InitRefines, NextRefines, Invariance, PTL DEF Spec, ThreeScreens, Abstract!Spec
=============================================================================
