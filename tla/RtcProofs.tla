------------------------------- MODULE RtcProofs -------------------------------
(***************************************************************************)
(* Proofs about Rtc for every number of terminals, every range of rates    *)
(* and every word size: its types, that a reader's counter never wraps     *)
(* around, and that a read returns only after a tick.                      *)
(***************************************************************************)
EXTENDS Rtc, TLAPS

\* What halting, closing and opening in any order preserve: whoever may read has a
\* counter that runs through 1 .. Slowest.
Counting == \A t \in Terms :
               /\ opened[t] > 0 \/ pc[t] = "reset" => rtc_count[t] \in 1 .. Slowest
               /\ pc[t] = "wait" => opened[t] > 0
               /\ pc[t] \in {"count", "reset"} => opened[t] < MAX_OPEN

Inv == TypeOK /\ Counting

\* The bounds of a quotient, which rtc_write and rtc_init compute (rtc.c:43, 113).
LEMMA Quotient ==
    ASSUME NEW a \in Nat, NEW b \in Nat \ {0}, NEW c \in Nat, c <= a, b <= c
    PROVE  a \div c \in 1 .. a \div b
<1> DEFINE p == a \div c
           q == a \div b
<1>1. c \in Nat \ {0}
  OBVIOUS
<1>2. p \in Nat /\ q \in Nat
  BY <1>1
<1>3. p * c <= a /\ a < (p + 1) * c
  BY <1>1
<1>4. q * b <= a /\ a < (q + 1) * b
  OBVIOUS
<1>5. p >= 1
  <2>1. ASSUME p = 0 PROVE FALSE
    BY <2>1, <1>3
  <2> QED BY <2>1, <1>2
<1>6. p <= q
  <2>1. SUFFICES ASSUME q + 1 <= p PROVE FALSE
    BY <1>2
  <2>2. (q + 1) * b <= p * b
    BY <2>1, <1>2
  <2>3. p * b <= p * c
    BY <1>1, <1>2
  <2> HIDE DEF p, q
  <2>4. (q + 1) * b \in Nat /\ p * b \in Nat /\ p * c \in Nat
    BY <1>1, <1>2
  <2> QED BY <2>2, <2>3, <2>4, <1>3, <1>4
<1> QED BY <1>2, <1>5, <1>6

\* The rates a program may ask for make counters that start above 0.
LEMMA SlowestPositive == Slowest \in Nat \ {0} /\ Slowest < WORD
BY FreqAssumption, Quotient DEF Slowest

\* Every rate that rtc_write accepts gives a start value in range.
LEMMA Rates == ASSUME NEW f \in Nat, ValidFreq(f)
               PROVE  max_limit_freq \div f \in 1 .. Slowest
BY FreqAssumption, Quotient DEF ValidFreq, Slowest

\* Counting down stays in the word, and from above 0 it is subtraction.
LEMMA CountDown == ASSUME NEW c \in 0 .. WORD - 1
                   PROVE  /\ (c - 1) % WORD \in 0 .. WORD - 1
                          /\ c > 0 => (c - 1) % WORD = c - 1
BY FreqAssumption

\* The first state satisfies the invariant.
LEMMA Initially == Init => Inv
<1> SUFFICES ASSUME Init PROVE Inv
  OBVIOUS
<1> USE SlowestPositive, TermAssumption, FreqAssumption DEF Init, Terms
<1>1. TypeOK
  BY DEF TypeOK
<1>2. Counting
  BY DEF Counting
<1> QED BY <1>1, <1>2 DEF Inv

\* One step per action; the counters move in rtc_handler only.
LEMMA Inductive == Inv /\ [Next]_vars => Inv'
<1> SUFFICES ASSUME Inv, [Next]_vars PROVE Inv'
  OBVIOUS
<1> USE SlowestPositive, TermAssumption, FreqAssumption DEF Inv, TypeOK, Counting
<1> active_term \in Terms
  OBVIOUS
<1>1. CASE RtcOpen
  BY <1>1 DEF RtcOpen, At, Goto
<1>2. CASE InitCount
  BY <1>2 DEF InitCount, At, Goto
<1>3. CASE InitReset
  BY <1>3 DEF InitReset, At, Goto
<1>4. CASE RtcClose
  BY <1>4 DEF RtcClose, At
<1>5. CASE RtcRead
  BY <1>5 DEF RtcRead, At, Goto, Cleared
<1>6. CASE RtcReturn
  BY <1>6 DEF RtcReturn, At, Goto, counters
<1>7. CASE Halt
  BY <1>7 DEF Halt, At, Goto
<1>8. CASE RtcHandler
  <2> DEFINE ends == {t \in Running : rtc_count[t] = 1}
  <2>1. \A t \in Terms : (rtc_count[t] - 1) % WORD \in 0 .. WORD - 1
    BY CountDown
  <2>2. \A t \in Terms : rtc_count[t] > 0 => (rtc_count[t] - 1) % WORD = rtc_count[t] - 1
    BY CountDown
  <2>3. rtc_count' = [t \in Terms |-> IF t \in ends THEN rtc_reset_count
                                      ELSE IF t \in Running THEN (rtc_count[t] - 1) % WORD
                                      ELSE rtc_count[t]]
    BY <1>8 DEF RtcHandler
  <2>4. rtc_count' \in [Terms -> 0 .. WORD - 1]
    <3> HIDE DEF ends
    <3>1. rtc_reset_count \in 0 .. WORD - 1
      OBVIOUS
    <3>2. \A t \in Terms : rtc_count[t] \in 0 .. WORD - 1
      OBVIOUS
    <3> QED BY <2>1, <2>3, <3>1, <3>2
  <2>5. TypeOK'
    BY <1>8, <2>4 DEF RtcHandler
  <2>6. ASSUME NEW t \in Terms, rtc_count[t] \in 1 .. Slowest
        PROVE  rtc_count'[t] \in 1 .. Slowest
    <3>1. CASE t \in ends
      BY <3>1, <2>3
    <3>2. CASE t \notin ends /\ t \in Running
      <4>1. rtc_count[t] > 1
        BY <2>6, <3>2
      <4>2. rtc_count'[t] = rtc_count[t] - 1
        BY <4>1, <3>2, <2>2, <2>3
      <4> QED BY <4>1, <4>2, <2>6
    <3>3. CASE t \notin ends /\ t \notin Running
      BY <3>3, <2>3, <2>6
    <3> QED BY <3>1, <3>2, <3>3
  <2>7. Counting'
    BY <1>8, <2>6 DEF RtcHandler
  <2> QED BY <2>5, <2>7
<1>9. CASE Tick
  <2>1. active_term' \in Terms
    BY <1>9 DEF Tick, Terms
  <2> QED BY <1>9, <2>1 DEF Tick, counters
<1>10. ASSUME NEW f \in 0 .. 2 * max_limit_freq, RtcWrite(f) PROVE Inv'
  <2>1. rtc_reset_count' \in 1 .. Slowest
    BY <1>10, Rates DEF RtcWrite
  <2> QED BY <1>10, <2>1 DEF RtcWrite, At
<1>11. CASE UNCHANGED vars
  BY <1>11 DEF vars, counters
<1> QED BY <1>1, <1>2, <1>3, <1>4, <1>5, <1>6, <1>7, <1>8, <1>9, <1>10, <1>11 DEF Next

\* The inductive invariant, for every range of rates.
THEOREM Invariance == Spec => []Inv
BY Initially, Inductive, PTL DEF Spec

\* Every variable of the driver has its type, whatever the number of terminals.
THEOREM Typed == Spec => []TypeOK
<1>1. Inv => TypeOK
  BY DEF Inv
<1> QED BY Invariance, <1>1, PTL

\* A reader's counter is between 1 and the slowest rate's, so that its tick is
\* never 2^32 interrupts away (rtc.c:73-76): for every rate that may be written,
\* wherever an open is interrupted or killed.
THEOREM NoWrap == Spec => []CountersRun
<1>1. Inv => CountersRun
  BY DEF Inv, TypeOK, Counting, CountersRun, Running
<1> QED BY Invariance, <1>1, PTL

\* A terminal whose counter starts running is in rtc_open, and a read begins by
\* clearing the flag of a counter that runs; rtc_handler sets both together.
LEMMA TickFirst == Inv /\ ReadWaits /\ [Next]_vars => ReadWaits'
<1> SUFFICES ASSUME Inv, ReadWaits, [Next]_vars, NEW t \in Running',
                    pc'[t] = "wait", rtc_int_flag'[t] = 1
             PROVE  ticked'[t]
  BY DEF ReadWaits
<1> USE DEF Inv, TypeOK
<1>1. t \in Terms /\ rtc_active'[t] = 1 /\ active_term \in Terms
  BY DEF Running
\* A read in progress before the step too, whose flag and history the step leaves alone.
<1>2. ASSUME t \in Running, pc[t] = "wait", rtc_int_flag' = rtc_int_flag, ticked' = ticked
      PROVE  ticked'[t]
  BY <1>2 DEF ReadWaits
<1>3. CASE RtcOpen
  <2>1. t # active_term
    BY <1>1, <1>3 DEF RtcOpen, Goto
  <2> QED BY <1>1, <1>2, <1>3, <2>1 DEF RtcOpen, Goto, Running
<1>4. CASE InitCount
  BY <1>1, <1>2, <1>4 DEF InitCount, Goto, Running
<1>5. CASE InitReset
  BY <1>1, <1>2, <1>5 DEF InitReset, Goto, Running
<1>6. CASE RtcClose
  BY <1>1, <1>2, <1>6 DEF RtcClose, Running
<1>7. CASE RtcRead
  <2>1. CASE t = active_term
    <3>1. t \in Running
      BY <1>1, <1>7 DEF RtcRead, Running
    <3>2. rtc_int_flag'[t] = 0
      BY <1>1, <1>7, <2>1, <3>1 DEF RtcRead, Cleared
    <3> QED BY <3>2
  <2>2. CASE t # active_term
    <3>1. t \in Running /\ pc[t] = "wait"
      BY <1>1, <1>7, <2>2 DEF RtcRead, Goto, Running
    <3>2. rtc_int_flag[t] = 1 /\ ticked'[t] = ticked[t]
      BY <1>1, <1>7, <2>2 DEF RtcRead, Cleared
    <3> QED BY <3>1, <3>2 DEF ReadWaits
  <2> QED BY <2>1, <2>2
<1>8. CASE RtcReturn
  BY <1>1, <1>2, <1>8 DEF RtcReturn, Goto, counters, Running
<1>9. CASE Halt
  <2>1. t # active_term
    BY <1>1, <1>9 DEF Halt, Goto
  <2>2. rtc_active'[t] = rtc_active[t] /\ pc'[t] = pc[t]
    BY <1>1, <1>9, <2>1 DEF Halt, Goto
  <2> QED BY <1>1, <1>2, <1>9, <2>2 DEF Halt, Running
<1>10. CASE RtcHandler
  <2>1. t \in Running /\ pc[t] = "wait"
    BY <1>1, <1>10 DEF RtcHandler, Running
  <2>2. CASE rtc_count[t] = 1
    BY <1>1, <1>10, <2>1, <2>2 DEF RtcHandler
  <2>3. CASE rtc_count[t] # 1
    <3>1. rtc_int_flag[t] = 1
      BY <1>1, <1>10, <2>3 DEF RtcHandler
    <3>2. ticked[t]
      BY <2>1, <3>1 DEF ReadWaits
    <3> QED BY <1>1, <1>10, <3>2 DEF RtcHandler
  <2> QED BY <2>2, <2>3
<1>11. CASE Tick
  BY <1>1, <1>2, <1>11 DEF Tick, counters, Running
<1>12. ASSUME NEW f \in 0 .. 2 * max_limit_freq, RtcWrite(f) PROVE ticked'[t]
  BY <1>1, <1>2, <1>12 DEF RtcWrite, Running
<1>13. CASE UNCHANGED vars
  BY <1>1, <1>2, <1>13 DEF vars, counters, Running
<1> QED BY <1>3, <1>4, <1>5, <1>6, <1>7, <1>8, <1>9, <1>10, <1>11, <1>12, <1>13 DEF Next

\* rtc_read on a running counter comes back only when a tick of its terminal's own
\* came during the call (rtc.c:129-133): whatever the handler, the other terminals
\* and a kill in the middle of an open or a read do in between.
THEOREM TickSeen == Spec => []ReadWaits
<1>1. Init => ReadWaits
  BY DEF Init, ReadWaits, Running
<1> QED BY Invariance, <1>1, TickFirst, PTL DEF Spec
=============================================================================
