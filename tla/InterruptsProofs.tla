---------------------------- MODULE InterruptsProofs ----------------------------
(***************************************************************************)
(* Interrupts: handlers do not nest and every interrupt is ended, for any  *)
(* number of waiting scancodes; the scheduler never runs before the        *)
(* terminals are set up; and, when no scancode comes before the 8259s are  *)
(* set up, no request is lost.                                             *)
(***************************************************************************)
EXTENDS Interrupts, SequenceTheorems, TLAPS

Frame == [irq : Devices, at : {"entered", "read", "acknowledged"}]

\* Interrupts are on again only where nothing is in service; on its own NoneHeldBack
\* says nothing of a processor that is between cli and sti.
Idle == frames = <<>> => isr = {}

Safe == TypeOK /\ NoneHeldBack /\ Idle

\* Until the 8259s are set up interrupts are off, and until pit_init the timer is masked.
TimerOff ==
    /\ boot = "i8259_init" => ~int_flag /\ frames = <<>>
    /\ boot \in {"rtc_periodic", "rtc_register", "rtc_enable", "keyboard_init", "terminal_init",
                  "pit_init"} => PIT_IRQ \in mask

\* The keyboard has nothing to say before the 8259s are set up, nor the RTC before its
\* interrupt is enabled.
Quiet ==
    /\ boot = "i8259_init" => scancodes = 0
    /\ boot \in {"i8259_init", "rtc_periodic"} => ~periodic

-----------------------------------------------------------------------------
\* With at most one handler on the stack, Top is its only frame.
LEMMA TopFrame ==
    ASSUME TypeOK, Len(frames) <= 1, frames # <<>>
    PROVE  Len(frames) = 1 /\ frames \in Seq(Frame) /\ Top = frames[1] /\ Top \in Frame
<1>1. frames \in Seq(Frame)
  BY DEF TypeOK, Frame
<1>2. Len(frames) = 1
  BY <1>1, EmptySeq
<1>3. frames[1] \in Frame
  BY <1>1, <1>2, ElementOfSeq
<1> QED BY <1>1, <1>2, <1>3 DEF Top

\* A handler that goes on stays the only one.
LEMMA GotoTop ==
    ASSUME TypeOK, Len(frames) <= 1, frames # <<>>,
           NEW at \in {"entered", "read", "acknowledged"}, Goto(at)
    PROVE  /\ frames' \in Seq(Frame) /\ Len(frames') = 1 /\ frames' # <<>>
           /\ Top' = [irq |-> Top.irq, at |-> at]
<1>1. Len(frames) = 1 /\ frames \in Seq(Frame) /\ frames[1] \in Frame
  BY TopFrame
<1>2. frames' = [frames EXCEPT ![1].at = at]
  BY <1>1 DEF Goto
<1>3. frames' = [frames EXCEPT ![1] = [frames[1] EXCEPT !.at = at]]
  BY <1>2
<1>4. [frames[1] EXCEPT !.at = at] = [irq |-> frames[1].irq, at |-> at]
  BY <1>1 DEF Frame
<1>5. [irq |-> frames[1].irq, at |-> at] \in Frame
  BY <1>1 DEF Frame
<1>6. frames' \in Seq(Frame) /\ Len(frames') = 1 /\ frames'[1] = [irq |-> frames[1].irq, at |-> at]
  BY <1>1, <1>3, <1>4, <1>5
<1> QED BY <1>1, <1>6 DEF Top

\* A handler that ends leaves the stack empty.
LEMMA PopTop ==
    ASSUME TypeOK, Len(frames) <= 1, frames # <<>>
    PROVE  SubSeq(frames, 1, Len(frames) - 1) = <<>>
BY TopFrame DEF TypeOK

\* An interrupt taken with the stack empty is the only one on it.
LEMMA PushTop ==
    ASSUME frames = <<>>, NEW l \in Devices,
           frames' = Append(frames, [irq |-> l, at |-> "entered"])
    PROVE  /\ frames' \in Seq(Frame) /\ Len(frames') = 1 /\ frames' # <<>>
           /\ Top' = [irq |-> l, at |-> "entered"]
<1>1. [irq |-> l, at |-> "entered"] \in Frame
  BY DEF Frame
<1>2. frames' = <<[irq |-> l, at |-> "entered"]>>
  OBVIOUS
<1> QED BY <1>1, <1>2 DEF Top

-----------------------------------------------------------------------------
\* The first state satisfies the invariant.
LEMMA SafeInitially == Init => Safe
<1> SUFFICES ASSUME Init PROVE Safe
  OBVIOUS
<1>1. TypeOK
  <2>1. frames \in Seq([irq : Devices, at : {"entered", "read", "acknowledged"}])
    BY DEF Init
  <2>2. irr \subseteq Devices
    BY DEF Init, Devices
  <2>3. 0 \in 0 .. MAX_SCANCODES /\ "i8259_init" \in BootSteps
    BY BoundAssumption DEF BootSteps
  <2> QED BY <2>1, <2>2, <2>3 DEF Init, TypeOK
<1>2. NoneHeldBack
  BY DEF Init, NoneHeldBack
<1> QED BY <1>1, <1>2 DEF Init, Safe, Idle

\* One step per action.  The stack holds at most one handler, which the helper
\* lemmas follow; what is in service depends on how far it has got.
LEMMA SafeInductive == Safe /\ [Next]_vars => Safe'
<1> SUFFICES ASSUME Safe, [Next]_vars PROVE Safe'
  OBVIOUS
<1> USE DEF Safe
<1>0. TypeOK /\ Idle /\ Len(frames) <= 1 /\ (int_flag => frames = <<>>)
  BY DEF NoneHeldBack
<1>t. /\ irr \subseteq Devices /\ isr \subseteq Irqs /\ mask \subseteq Irqs
      /\ int_flag \in BOOLEAN /\ boot \in BootSteps /\ frames \in Seq(Frame)
      /\ periodic \in BOOLEAN /\ regC \in BOOLEAN /\ scancodes \in 0 .. MAX_SCANCODES
  BY DEF TypeOK, Frame
<1>d. Devices \subseteq Irqs /\ \A l \in Devices : Pin(l) \in Irqs
  BY DEF Devices, Irqs, Pin
<1>e. /\ PIT_IRQ \in Devices /\ KEYBOARD_IRQ_NUM \in Devices /\ RTC_IRQ_NUM \in Devices
      /\ SLAVE_IRQ_NUM \in Irqs
  BY DEF Devices, Irqs
\* A handler that reads its device, or ends its interrupt, stays on the stack.
<1>k. ASSUME NEW l \in Devices, NEW at \in {"entered", "read"},
             Runs(l, at)
      PROVE  Len(frames) = 1 /\ frames # <<>> /\ ~int_flag /\ isr = {l, Pin(l)}
  BY <1>0, <1>k, TopFrame DEF NoneHeldBack, Runs
<1>1. CASE UNCHANGED vars
  BY <1>1 DEF vars, pic, devices, TypeOK, NoneHeldBack, Idle, Top
<1>2. CASE Boot
  <2>1. frames = <<>> /\ isr = {} /\ frames' = <<>>
    BY <1>0, <1>2 DEF Idle, Boot, BootPic, BootPeriodic, BootEnable, BootTerminals, BootSti, AtBoot
  <2>2. boot' \in BootSteps
    BY <1>2, <1>t DEF Boot, BootPic, BootPeriodic, BootEnable, BootTerminals, BootSti, AtBoot,
                BootNext, BootSteps, Enables
  <2>3. isr' = {}
    BY <1>2, <2>1 DEF Boot, BootPic, BootPeriodic, BootEnable, BootTerminals, BootSti, i8259_init,
                pic, enable_irq
  <2>4. irr' \subseteq Devices
    BY <1>2, <1>t, <1>e DEF Boot, BootPic, BootPeriodic, BootEnable, BootTerminals, BootSti,
                i8259_init, pic
  <2>5. mask' \subseteq Irqs
    BY <1>2, <1>t, <1>e DEF Boot, BootPic, BootPeriodic, BootEnable, BootTerminals, BootSti,
                i8259_init, pic, enable_irq
  <2>6. /\ int_flag' \in BOOLEAN /\ periodic' \in BOOLEAN /\ regC' \in BOOLEAN
        /\ scancodes' \in 0 .. MAX_SCANCODES
    BY <1>2, <1>t DEF Boot, BootPic, BootPeriodic, BootEnable, BootTerminals, BootSti,
                pic, devices
  <2>7. frames' \in Seq(Frame) /\ Len(frames') = 0
    BY <2>1, EmptySeq
  <2> QED BY <2>1, <2>2, <2>3, <2>4, <2>5, <2>6, <2>7 DEF TypeOK, NoneHeldBack, Idle, Frame
<1>3. CASE PitPeriod \/ RtcPeriod \/ KeyPress
  <2>1. irr' \subseteq Devices
    BY <1>3, <1>t, <1>e DEF PitPeriod, RtcPeriod, KeyPress, Request
  <2>2. scancodes' \in 0 .. MAX_SCANCODES
    <3>1. scancodes < MAX_SCANCODES => scancodes + 1 \in 0 .. MAX_SCANCODES
      BY <1>t, BoundAssumption
    <3> QED BY <1>3, <1>t, <3>1 DEF PitPeriod, RtcPeriod, KeyPress, devices
  <2>r. regC' \in BOOLEAN
    BY <1>3, <1>t DEF PitPeriod, RtcPeriod, KeyPress, devices
  <2>3. UNCHANGED <<isr, mask, int_flag, boot, frames, periodic>>
    BY <1>3 DEF PitPeriod, RtcPeriod, KeyPress, devices
  <2> QED BY <2>1, <2>2, <2>r, <2>3 DEF TypeOK, NoneHeldBack, Idle, Top
<1>4. ASSUME NEW l \in Devices, Deliver(l) PROVE Safe'
  <2>1. frames = <<>> /\ isr = {}
    BY <1>0, <1>4 DEF Deliver, Idle
  <2>2. frames' = Append(frames, [irq |-> l, at |-> "entered"])
    BY <1>4 DEF Deliver
  <2>3. /\ frames' \in Seq(Frame) /\ Len(frames') = 1 /\ frames' # <<>>
        /\ Top' = [irq |-> l, at |-> "entered"]
    BY <2>1, <2>2, PushTop
  <2>4. ~int_flag' /\ int_flag' \in BOOLEAN
    BY <1>4 DEF Deliver, Gate
  <2>5. isr' = {l, Pin(l)} /\ isr' \subseteq Irqs
    BY <1>4, <2>1, <1>d DEF Deliver
  <2>6. irr' \subseteq Devices
    BY <1>4, <1>t DEF Deliver
  <2>7. UNCHANGED <<mask, boot, devices>>
    BY <1>4 DEF Deliver
  <2> QED BY <1>t, <2>3, <2>4, <2>5, <2>6, <2>7 DEF TypeOK, NoneHeldBack, Idle, Frame, devices
<1>5. CASE RtcRead \/ KeyRead
  <2> PICK l \in {RTC_IRQ_NUM, KEYBOARD_IRQ_NUM} :
          Runs(l, "entered") /\ (l = RTC_IRQ_NUM => RtcRead) /\ (l = KEYBOARD_IRQ_NUM => KeyRead)
    BY <1>5 DEF RtcRead, KeyRead, RTC_IRQ_NUM, KEYBOARD_IRQ_NUM
  <2>1. Len(frames) = 1 /\ frames # <<>> /\ ~int_flag /\ isr = {l, Pin(l)} /\ Top.irq = l
    BY <1>k, <1>e DEF Runs
  <2>2. Goto("read")
    BY DEF RtcRead, KeyRead
  <2>3. /\ frames' \in Seq(Frame) /\ Len(frames') = 1 /\ frames' # <<>>
        /\ Top' = [irq |-> l, at |-> "read"]
    BY <1>0, <2>1, <2>2, GotoTop
  <2>4. UNCHANGED <<isr, mask, int_flag, boot, periodic>>
    BY DEF RtcRead, KeyRead
  <2>5. irr' \subseteq Devices
    BY <1>t, <1>e DEF RtcRead, KeyRead, ReadRegisterC, ReadScancode, Request
  <2>6. scancodes' \in 0 .. MAX_SCANCODES
    <3>1. scancodes > 0 => scancodes - 1 \in 0 .. MAX_SCANCODES
      BY <1>t, BoundAssumption
    <3> QED BY <1>t, <3>1 DEF RtcRead, KeyRead, ReadScancode
  <2>r. regC' \in BOOLEAN
    BY <1>t DEF RtcRead, KeyRead, ReadRegisterC
  <2> QED BY <1>t, <2>1, <2>3, <2>4, <2>5, <2>6, <2>r DEF TypeOK, NoneHeldBack, Idle, Frame
<1>6. CASE RtcEoi \/ KeyEoi \/ PitEoi
  <2> PICK l \in Devices, at \in {"entered", "read"} :
          Runs(l, at) /\ send_eoi(l) /\ Goto("acknowledged")
    BY <1>6, <1>e DEF RtcEoi, KeyEoi, PitEoi
  <2>1. Len(frames) = 1 /\ frames # <<>> /\ ~int_flag /\ isr = {l, Pin(l)} /\ Top.irq = l
    BY <1>k DEF Runs
  <2>2. isr' = {}
    BY <2>1 DEF send_eoi
  <2>3. /\ frames' \in Seq(Frame) /\ Len(frames') = 1 /\ frames' # <<>>
        /\ Top' = [irq |-> l, at |-> "acknowledged"]
    BY <1>0, <2>1, GotoTop
  <2>4. UNCHANGED <<irr, mask, int_flag, boot, devices>>
    BY <1>6 DEF RtcEoi, KeyEoi, PitEoi
  <2> QED BY <1>t, <2>1, <2>2, <2>3, <2>4 DEF TypeOK, NoneHeldBack, Idle, Frame, devices
<1>7. ASSUME NEW l \in Devices, Return(l) \/ Leave(l) PROVE Safe'
  <2>1. frames # <<>> /\ Top.at = "acknowledged"
    BY <1>7 DEF Return, Leave, Runs
  <2>2. isr = {}
    BY <2>1 DEF NoneHeldBack
  <2>3. frames' = <<>>
    BY <1>0, <1>7, <2>1, PopTop DEF Return, Leave
  <2>4. int_flag' /\ int_flag' \in BOOLEAN /\ UNCHANGED <<pic, boot, devices>>
    BY <1>7 DEF Return, Leave
  <2>5. frames' \in Seq(Frame) /\ Len(frames') = 0
    BY <2>3, EmptySeq
  <2> QED BY <1>t, <2>2, <2>3, <2>4, <2>5 DEF TypeOK, NoneHeldBack, Idle, Frame, pic, devices
<1>8. CASE Cli \/ Sti
  <2>1. frames = <<>> /\ isr = {} /\ UNCHANGED <<pic, boot, frames, devices>> /\ int_flag' \in BOOLEAN
    BY <1>0, <1>8 DEF Cli, Sti, Idle
  <2> QED BY <1>t, <1>0, <2>1 DEF TypeOK, NoneHeldBack, Idle, Frame, pic, devices
<1> QED BY <1>1, <1>2, <1>3, <1>4, <1>5, <1>6, <1>7, <1>8 DEF Next, Handler

\* Every variable keeps its type, for any number of waiting scancodes.
THEOREM Typed == Spec => []TypeOK
<1>1. Safe => TypeOK
  BY DEF Safe
<1> QED BY <1>1, SafeInitially, SafeInductive, PTL DEF Spec

\* Handlers do not nest and none leaves its interrupt in service, wherever key
\* presses, ticks, cli and the steps of entry fall.
THEOREM Ended == Spec => []NoneHeldBack
<1>1. Safe => NoneHeldBack
  BY DEF Safe
<1> QED BY <1>1, SafeInitially, SafeInductive, PTL DEF Spec

-----------------------------------------------------------------------------
\* At first interrupts are off.
LEMMA TimerInitially == Init => TimerOff /\ TicksLast
BY DEF Init, TimerOff, TicksLast

\* Only pit_init unmasks the timer.
LEMMA TimerInductive ==
    Safe /\ TimerOff /\ TicksLast /\ [Next]_vars => TimerOff' /\ TicksLast'
<1> SUFFICES ASSUME Safe, TimerOff, TicksLast, [Next]_vars PROVE TimerOff' /\ TicksLast'
  OBVIOUS
<1>0. TypeOK /\ Idle /\ Len(frames) <= 1 /\ (int_flag => frames = <<>>)
  BY DEF Safe, NoneHeldBack
<1>b. boot \in BootSteps
  BY <1>0 DEF TypeOK
<1>n. PIT_IRQ # KEYBOARD_IRQ_NUM /\ PIT_IRQ # RTC_IRQ_NUM /\ PIT_IRQ # SLAVE_IRQ_NUM /\ PIT_IRQ \in Irqs
  BY DEF PIT_IRQ, RTC_IRQ_NUM, KEYBOARD_IRQ_NUM, SLAVE_IRQ_NUM, Irqs, Devices
<1>u. CASE UNCHANGED <<mask, int_flag, boot, frames>>
  BY <1>u DEF TimerOff, TicksLast, Top
<1>1. CASE UNCHANGED vars \/ PitPeriod \/ RtcPeriod \/ KeyPress
  <2>1. UNCHANGED <<mask, int_flag, boot, frames>>
    BY <1>1 DEF vars, pic, PitPeriod, RtcPeriod, KeyPress
  <2> QED BY <1>u, <2>1
<1>2. CASE Boot
  <2>0. frames = <<>> /\ frames' = <<>>
    BY <1>2 DEF Boot, BootPic, BootPeriodic, BootEnable, BootTerminals, BootSti, AtBoot
  <2>1. CASE BootPic
    BY <1>n, <2>0, <2>1 DEF BootPic, AtBoot, i8259_init, BootNext, TimerOff, TicksLast
  <2>2. CASE BootPeriodic \/ BootTerminals
    <3>1. boot \in {"rtc_periodic", "terminal_init"} /\ boot' = BootNext[boot] /\ mask' = mask
      BY <2>2 DEF BootPeriodic, BootTerminals, AtBoot, pic
    <3> QED BY <2>0, <3>1 DEF BootNext, TimerOff, TicksLast
  <2>3. ASSUME NEW step \in DOMAIN Enables, BootEnable(step) PROVE TimerOff' /\ TicksLast'
    <3>1. boot = step /\ boot' = BootNext[step] /\ mask' = mask \ {Enables[step]}
          /\ step \in {"rtc_enable", "keyboard_init", "pit_init"}
      BY <2>3 DEF BootEnable, AtBoot, enable_irq, Enables
    <3> QED BY <1>n, <2>0, <3>1 DEF BootNext, Enables, TimerOff, TicksLast
  <2>4. ASSUME NEW step \in {"rtc_register", "sti"}, BootSti(step) PROVE TimerOff' /\ TicksLast'
    <3>1. boot = step /\ boot' = BootNext[step] /\ mask' = mask
      BY <2>4 DEF BootSti, AtBoot, pic
    <3> QED BY <2>0, <3>1 DEF BootNext, TimerOff, TicksLast
  <2> QED BY <1>2, <2>1, <2>2, <2>3, <2>4 DEF Boot
<1>3. ASSUME NEW l \in Devices, Deliver(l) PROVE TimerOff' /\ TicksLast'
  <2>1. /\ int_flag /\ l \notin mask /\ UNCHANGED <<mask, boot>>
        /\ frames' = Append(frames, [irq |-> l, at |-> "entered"])
    BY <1>3 DEF Deliver, Asserted, Ready
  <2>2. frames = <<>> /\ Top'.irq = l
    BY <1>0, <2>1, PushTop
  <2>3. boot # "i8259_init"
    BY <2>1 DEF TimerOff
  <2>4. l = PIT_IRQ => boot \in {"sti", "kernel"}
    BY <1>b, <2>1, <2>3 DEF TimerOff, BootSteps
  <2> QED BY <2>1, <2>2, <2>3, <2>4 DEF TimerOff, TicksLast
<1>4. CASE RtcRead \/ RtcEoi \/ KeyRead \/ KeyEoi \/ PitEoi
  <2>1. frames # <<>> /\ \E at \in {"entered", "read", "acknowledged"} : Goto(at)
    BY <1>4 DEF RtcRead, RtcEoi, KeyRead, KeyEoi, PitEoi, Runs
  <2>2. Top'.irq = Top.irq
    BY <1>0, <2>1, GotoTop
  <2>3. UNCHANGED <<mask, int_flag, boot>>
    BY <1>4 DEF RtcRead, RtcEoi, KeyRead, KeyEoi, PitEoi
  <2> QED BY <2>1, <2>2, <2>3 DEF TimerOff, TicksLast
<1>5. ASSUME NEW l \in Devices, Return(l) \/ Leave(l) PROVE TimerOff' /\ TicksLast'
  <2>1. frames # <<>> /\ frames' = <<>>
    BY <1>0, <1>5, PopTop DEF Return, Leave, Runs
  <2>2. UNCHANGED <<mask, boot>>
    BY <1>5 DEF Return, Leave, pic
  <2> QED BY <2>1, <2>2 DEF TimerOff, TicksLast
<1>6. CASE Cli \/ Sti
  BY <1>6 DEF Cli, Sti, TimerOff, TicksLast, pic
<1> QED BY <1>1, <1>2, <1>3, <1>4, <1>5, <1>6 DEF Next, Handler

\* The scheduler never runs on terminals that are not set up, whatever masks and
\* requests the boot loader left and wherever the interrupts of entry fall.
THEOREM SetUpFirst == Spec => []TicksLast
<1>1. Init => Safe /\ TimerOff /\ TicksLast
  BY SafeInitially, TimerInitially
<1>2. (Safe /\ TimerOff /\ TicksLast) /\ [Next]_vars => (Safe /\ TimerOff /\ TicksLast)'
  BY SafeInductive, TimerInductive
<1> QED BY <1>1, <1>2, PTL DEF Spec

-----------------------------------------------------------------------------
\* At first no scancode waits.
LEMMA QuietInitially == Init => Quiet
BY DEF Init, Quiet

\* No key, no scancode; and entry enables the RTC's interrupt after the 8259s are set up.
LEMMA QuietInductive == "i8259_init" \notin KeySteps /\ Safe /\ Quiet /\ [Next]_vars => Quiet'
<1> SUFFICES ASSUME "i8259_init" \notin KeySteps, Safe, Quiet, [Next]_vars PROVE Quiet'
  OBVIOUS
<1>1. CASE Boot
  <2>1. scancodes' = scancodes /\ boot \in DOMAIN BootNext /\ boot' = BootNext[boot]
    BY <1>1 DEF Boot, BootPic, BootPeriodic, BootEnable, BootTerminals, BootSti, AtBoot, devices,
                BootNext, Enables
  <2>2. boot' \in {"i8259_init", "rtc_periodic"} => ~periodic'
    BY <1>1 DEF Boot, BootPic, BootPeriodic, BootEnable, BootTerminals, BootSti, AtBoot, Quiet,
                BootNext, Enables, devices
  <2>3. boot' # "i8259_init"
    BY <2>1 DEF BootNext
  <2> QED BY <2>2, <2>3 DEF Quiet
<1>2. CASE KeyPress
  BY <1>2 DEF KeyPress, Quiet
<1>3. CASE KeyRead
  <2>1. TypeOK /\ (scancodes' = scancodes \/ scancodes > 0) /\ UNCHANGED <<boot, periodic>>
    BY <1>3 DEF KeyRead, Safe
  <2> QED BY <2>1 DEF Quiet, TypeOK
<1>4. CASE \/ UNCHANGED vars \/ PitPeriod \/ RtcPeriod \/ (\E l \in Devices : Deliver(l))
           \/ RtcRead \/ RtcEoi \/ KeyEoi \/ PitEoi \/ (\E l \in Devices : Return(l) \/ Leave(l))
           \/ Cli \/ Sti
  <2>1. UNCHANGED <<boot, periodic, scancodes>>
    BY <1>4 DEF vars, devices, PitPeriod, RtcPeriod, Deliver, RtcRead, RtcEoi, KeyEoi, PitEoi,
                Return, Leave, Cli, Sti
  <2> QED BY <2>1 DEF Quiet
<1> QED BY <1>1, <1>2, <1>3, <1>4 DEF Next, Handler

-----------------------------------------------------------------------------
\* Every step keeps NoneLost, if no scancode comes before the 8259s are set up.
LEMMA LostInductive ==
    "i8259_init" \notin KeySteps /\ Safe /\ Quiet /\ NoneLost /\ [Next]_vars => NoneLost'
<1> SUFFICES ASSUME "i8259_init" \notin KeySteps, Safe, Quiet, NoneLost, [Next]_vars PROVE NoneLost'
  OBVIOUS
<1>0. TypeOK /\ Len(frames) <= 1 /\ (int_flag => frames = <<>>)
  BY DEF Safe, NoneHeldBack
<1>t. scancodes \in Nat
  BY <1>0 DEF TypeOK
<1>n. /\ PIT_IRQ # KEYBOARD_IRQ_NUM /\ RTC_IRQ_NUM # KEYBOARD_IRQ_NUM
      /\ PIT_IRQ # RTC_IRQ_NUM
  BY DEF PIT_IRQ, RTC_IRQ_NUM, KEYBOARD_IRQ_NUM
<1>1. CASE UNCHANGED vars
  BY <1>1 DEF vars, pic, devices, NoneLost, Runs, Top
<1>2. CASE BootPic
  <2>1. ~periodic /\ scancodes = 0
    BY <1>2 DEF BootPic, AtBoot, Quiet
  <2>2. UNCHANGED devices
    BY <1>2 DEF BootPic
  <2> QED BY <2>1, <2>2 DEF NoneLost, devices
<1>3. CASE Boot /\ ~BootPic
  <2>1. frames = <<>>
    BY <1>3 DEF Boot, BootPeriodic, BootEnable, BootTerminals, BootSti, AtBoot
  <2>2. ~Runs(RTC_IRQ_NUM, "entered") /\ ~Runs(KEYBOARD_IRQ_NUM, "entered")
    BY <2>1 DEF Runs
  <2>3. irr \subseteq irr' /\ scancodes' = scancodes /\ regC' = regC
    BY <1>3 DEF Boot, BootPeriodic, BootEnable, BootTerminals, BootSti, pic, devices
  <2>4. periodic' /\ regC' => RTC_IRQ_NUM \in irr' \/ periodic
    BY <1>3 DEF Boot, BootPeriodic, BootEnable, BootTerminals, BootSti, pic, devices
  <2> QED BY <2>2, <2>3, <2>4 DEF NoneLost
<1>4. CASE PitPeriod \/ RtcPeriod \/ KeyPress
  <2>1. irr \subseteq irr' /\ UNCHANGED <<frames, periodic>>
    BY <1>4 DEF PitPeriod, RtcPeriod, KeyPress, Request, devices
  <2>2. periodic /\ regC' => regC \/ RTC_IRQ_NUM \in irr'
    BY <1>4 DEF PitPeriod, RtcPeriod, KeyPress, Request, devices
  <2>3. scancodes' > 0 => scancodes > 0 \/ KEYBOARD_IRQ_NUM \in irr'
    BY <1>4, <1>t DEF PitPeriod, RtcPeriod, KeyPress, Request, devices
  <2> QED BY <2>1, <2>2, <2>3 DEF NoneLost, Runs, Top
<1>5. ASSUME NEW l \in Devices, Deliver(l) PROVE NoneLost'
  <2>1. frames = <<>> /\ frames' = Append(frames, [irq |-> l, at |-> "entered"])
    BY <1>0, <1>5 DEF Deliver
  <2>2. frames' # <<>> /\ Top' = [irq |-> l, at |-> "entered"]
    BY <2>1, PushTop
  <2>3. irr' = irr \ {l} /\ UNCHANGED devices
    BY <1>5 DEF Deliver
  <2>4. ~Runs(RTC_IRQ_NUM, "entered") /\ ~Runs(KEYBOARD_IRQ_NUM, "entered")
    BY <2>1 DEF Runs
  <2> QED BY <2>2, <2>3, <2>4 DEF NoneLost, Runs, devices
<1>6. CASE RtcRead
  <2>1. regC' = FALSE /\ UNCHANGED <<irr, scancodes>> /\ Runs(RTC_IRQ_NUM, "entered")
    BY <1>6 DEF RtcRead, ReadRegisterC
  <2>2. ~Runs(KEYBOARD_IRQ_NUM, "entered")
    BY <2>1, <1>n DEF Runs
  <2> QED BY <2>1, <2>2 DEF NoneLost
<1>7. CASE KeyRead
  <2>1. Runs(KEYBOARD_IRQ_NUM, "entered") /\ UNCHANGED <<periodic, regC>>
    BY <1>7 DEF KeyRead
  <2>2. ~Runs(RTC_IRQ_NUM, "entered") /\ irr \subseteq irr'
    BY <1>7, <2>1, <1>n DEF Runs, KeyRead, ReadScancode, Request
  <2>3. scancodes' > 0 => KEYBOARD_IRQ_NUM \in irr'
    BY <1>7, <1>t DEF KeyRead, ReadScancode, Request
  <2> QED BY <2>1, <2>2, <2>3 DEF NoneLost
<1>8. CASE RtcEoi \/ KeyEoi \/ PitEoi \/ (\E l \in Devices : Return(l) \/ Leave(l))
  <2>1. UNCHANGED <<irr, devices>>
    BY <1>8 DEF RtcEoi, KeyEoi, PitEoi, Return, Leave, pic
  <2>2. ~Runs(RTC_IRQ_NUM, "entered") /\ ~Runs(KEYBOARD_IRQ_NUM, "entered")
    BY <1>8, <1>n DEF RtcEoi, KeyEoi, PitEoi, Return, Leave, Runs
  <2> QED BY <2>1, <2>2 DEF NoneLost, devices
<1>9. CASE Cli \/ Sti
  BY <1>9 DEF Cli, Sti, NoneLost, Runs, Top, pic, devices
<1> QED BY <1>1, <1>2, <1>3, <1>4, <1>5, <1>6, <1>7, <1>8, <1>9 DEF Next, Handler

\* A device whose line is up is latched or about to be read, in every order of
\* periods, key presses and handlers, during entry and after, if no scancode comes
\* before the 8259s are set up: ICW1 would clear its request for good.
THEOREM Latched == ASSUME "i8259_init" \notin KeySteps PROVE Spec => []NoneLost
<1>1. Init => Safe /\ Quiet /\ NoneLost
  <2>1. Init => NoneLost
    BY DEF Init, NoneLost
  <2> QED BY <2>1, SafeInitially, QuietInitially
<1>2. (Safe /\ Quiet /\ NoneLost) /\ [Next]_vars => (Safe /\ Quiet /\ NoneLost)'
  BY SafeInductive, QuietInductive, LostInductive
<1> QED BY <1>1, <1>2, PTL DEF Spec
=============================================================================
