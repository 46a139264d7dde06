---------------------------------- MODULE Rtc ----------------------------------
(***************************************************************************)
(* The RTC as the terminals see it (rtc.c): the device interrupts at its   *)
(* highest rate, and a counter per terminal makes slower virtual rates.    *)
(* The system calls work on the scheduled terminal; rtc_handler may run    *)
(* between any two of their steps.                                         *)
(***************************************************************************)
EXTENDS Integers

CONSTANTS
    TERM_COUNT,
    max_limit_freq, min_limit_freq,   \* the rates a program may ask for, in Hz
    WORD,                             \* values of an unsigned counter (code: 2^32)
    MAX_OPEN                          \* bound: RTC descriptors open in a terminal

ASSUME TermAssumption == TERM_COUNT \in Nat \ {0} /\ MAX_OPEN \in Nat \ {0}
ASSUME FreqAssumption == /\ min_limit_freq \in Nat \ {0}
                         /\ max_limit_freq \in Nat /\ min_limit_freq <= max_limit_freq
                         /\ WORD \in Nat /\ max_limit_freq < WORD

Terms   == 0 .. TERM_COUNT - 1
Slowest == max_limit_freq \div min_limit_freq     \* interrupts per tick, at most

VARIABLES
    rtc_active,       \* 1 iff terminal t's counter runs
    rtc_count,        \* interrupts left to terminal t's next tick
    rtc_int_flag,     \* 1 iff it came and was not read
    rtc_reset_count,  \* what a counter starts from, for every terminal
    active_term,
    opened,           \* RTC descriptors of the terminal's processes
    pc,               \* where in rtc_open or rtc_read, "user" elsewhere
    ticked            \* history: terminal t's tick came since its read began

counters == <<rtc_active, rtc_count, rtc_int_flag, rtc_reset_count>>
vars     == <<counters, active_term, opened, pc, ticked>>

-----------------------------------------------------------------------------
\* freq & (freq - 1) is 0.
IsPowerOfTwo(f) == \E k \in 0 .. f : f = 2^k

\* Wrong versions of definitions below, which the properties tell apart from
\* the right ones.
NoUpperBound(f) == f >= min_limit_freq /\ IsPowerOfTwo(f)
OnlyScheduled   == {t \in Terms : t = active_term /\ rtc_active[t] = 1}
FlagLeft        == rtc_int_flag

ValidFreq(f) == f <= max_limit_freq /\ f >= min_limit_freq /\ IsPowerOfTwo(f)
Running      == {t \in Terms : rtc_active[t] = 1}

\* rtc_init ran once at boot, on terminal 0.
Init == /\ rtc_active = [t \in Terms |-> 0]
        /\ rtc_count = [t \in Terms |-> IF t = 0 THEN Slowest ELSE 0]
        /\ rtc_int_flag = [t \in Terms |-> 0]
        /\ rtc_reset_count = Slowest
        /\ active_term = 0
        /\ opened = [t \in Terms |-> 0]
        /\ pc = [t \in Terms |-> "user"]
        /\ ticked = [t \in Terms |-> FALSE]

At(label)   == pc[active_term] = label
Goto(label) == pc' = [pc EXCEPT ![active_term] = label]

\* rtc_open, then the two assignments of rtc_init; the second reads a counter that
\* already runs.
RtcOpen == /\ At("user") /\ opened[active_term] < MAX_OPEN
           /\ rtc_active' = [rtc_active EXCEPT ![active_term] = 1]
           /\ Goto("count")
           /\ UNCHANGED <<rtc_count, rtc_int_flag, rtc_reset_count, active_term, opened, ticked>>

InitCount == /\ At("count")
             /\ rtc_count' = [rtc_count EXCEPT ![active_term] = Slowest]
             /\ Goto("reset")
             /\ UNCHANGED <<rtc_active, rtc_int_flag, rtc_reset_count, active_term, opened, ticked>>

InitReset == /\ At("reset")
             /\ rtc_reset_count' = rtc_count[active_term]
             /\ opened' = [opened EXCEPT ![active_term] = @ + 1]
             /\ Goto("user")
             /\ UNCHANGED <<rtc_active, rtc_count, rtc_int_flag, active_term, ticked>>

RtcClose == /\ At("user") /\ opened[active_term] > 0
            /\ rtc_active' = [rtc_active EXCEPT ![active_term] = 0]
            /\ opened' = [opened EXCEPT ![active_term] = @ - 1]
            /\ UNCHANGED <<rtc_count, rtc_int_flag, rtc_reset_count, active_term, pc, ticked>>

\* f is the frequency in the caller's buffer.
RtcWrite(f) == /\ At("user") /\ opened[active_term] > 0 /\ ValidFreq(f)
               /\ rtc_reset_count' = max_limit_freq \div f
               /\ UNCHANGED <<rtc_active, rtc_count, rtc_int_flag, active_term, opened, pc, ticked>>

Cleared == [rtc_int_flag EXCEPT ![active_term] = 0]

RtcRead == /\ At("user") /\ opened[active_term] > 0
           /\ rtc_int_flag' = IF active_term \in Running THEN Cleared ELSE rtc_int_flag
           /\ Goto("wait")
           /\ ticked' = [ticked EXCEPT ![active_term] = FALSE]
           /\ UNCHANGED <<rtc_active, rtc_count, rtc_reset_count, active_term, opened>>

RtcReturn == /\ At("wait") /\ rtc_int_flag[active_term] = 1
             /\ Goto("user")
             /\ UNCHANGED <<counters, active_term, opened, ticked>>

\* The process is halted, perhaps by Ctrl-C in a call: its descriptors are gone
\* without rtc_close, and halt closes those of its parent.
Halt == /\ \E n \in 0 .. opened[active_term] :
              /\ At("wait") => n < opened[active_term]
              /\ opened' = [opened EXCEPT ![active_term] = n]
        /\ rtc_active' \in {rtc_active, [rtc_active EXCEPT ![active_term] = 0]}
        /\ Goto("user")
        /\ UNCHANGED <<rtc_count, rtc_int_flag, rtc_reset_count, active_term, ticked>>

\* rtc_count is unsigned: counting down from 0 would wrap around.
RtcHandler ==
    LET ends == {t \in Running : rtc_count[t] = 1} IN
    /\ rtc_count' = [t \in Terms |-> IF t \in ends THEN rtc_reset_count
                                     ELSE IF t \in Running THEN (rtc_count[t] - 1) % WORD
                                     ELSE rtc_count[t]]
    /\ rtc_int_flag' = [t \in Terms |-> IF t \in ends THEN 1 ELSE rtc_int_flag[t]]
    /\ ticked' = [t \in Terms |-> ticked[t] \/ t \in ends]
    /\ UNCHANGED <<rtc_active, rtc_reset_count, active_term, opened, pc>>

Tick == /\ active_term' = (active_term + 1) % TERM_COUNT
        /\ UNCHANGED <<counters, opened, pc, ticked>>

Next == \/ RtcOpen \/ InitCount \/ InitReset \/ RtcClose
        \/ RtcRead \/ RtcReturn \/ Halt \/ RtcHandler \/ Tick
        \/ \E f \in 0 .. 2 * max_limit_freq : RtcWrite(f)

Spec == Init /\ [][Next]_vars

\* The two timers never stop, and a slice is time for many rounds of a loop.
FairSpec == /\ Spec
            /\ WF_vars(Tick) /\ WF_vars(RtcHandler)
            /\ \A t \in Terms : SF_vars(active_term = t /\ RtcReturn)

-----------------------------------------------------------------------------
\* Every variable has its type.
TypeOK == /\ rtc_active \in [Terms -> 0 .. 1]
          /\ rtc_count \in [Terms -> 0 .. WORD - 1]
          /\ rtc_int_flag \in [Terms -> 0 .. 1]
          /\ rtc_reset_count \in 1 .. Slowest
          /\ active_term \in Terms
          /\ opened \in [Terms -> 0 .. MAX_OPEN]
          /\ pc \in [Terms -> {"user", "count", "reset", "wait"}]
          /\ ticked \in [Terms -> BOOLEAN]

\* A counter that a reader waits for is never at 0, from where it would count down
\* 2^32 interrupts before the next tick (rtc.c:73-76): not after a rate was set, nor
\* after a program was killed in the middle of rtc_open.
CountersRun == \A t \in Running : pc[t] = "wait" => rtc_count[t] \in 1 .. Slowest

\* rtc_read on a running counter returns only when a tick of its own terminal came
\* during the call, however late (rtc.c:129-133).
ReadWaits == \A t \in Running : pc[t] = "wait" /\ rtc_int_flag[t] = 1 => ticked[t]

\* And it does return, whatever the other terminals do with the RTC.
ReadReturns == \A t \in Terms : pc[t] = "wait" /\ rtc_active[t] = 1 ~> pc[t] = "user"
=============================================================================
