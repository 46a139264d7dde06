-------------------------------- MODULE Interrupts --------------------------------
(***************************************************************************)
(* Interrupts from the devices to their handlers: the two 8259s as i8259.c *)
(* programs them, the gates of idt.c, the entry points of                  *)
(* interrupts_wrapper.S, the order of entry (kernel.c), and the part of    *)
(* each handler that the hardware sees: reading its device, the end of     *)
(* interrupt, and how it ends.                                             *)
(***************************************************************************)
EXTENDS Naturals, Sequences, FiniteSets

CONSTANTS MAX_SCANCODES,   \* bound: scancodes waiting in the keyboard
          KeySteps         \* the steps of entry during which scancodes may come

PIT_IRQ          == 0
KEYBOARD_IRQ_NUM == 1
SLAVE_IRQ_NUM    == 2        \* the master's pin the slave is on
RTC_IRQ_NUM      == 8

Devices == {PIT_IRQ, KEYBOARD_IRQ_NUM, RTC_IRQ_NUM}
Irqs    == Devices \cup {SLAVE_IRQ_NUM}
Pin(l)  == IF l < 8 THEN l ELSE SLAVE_IRQ_NUM      \* where the master sees l

\* entry, step by step; "kernel" is all that comes after.
BootSteps == {"i8259_init", "rtc_periodic", "rtc_register", "rtc_enable",
              "keyboard_init", "terminal_init", "pit_init", "sti", "kernel"}

ASSUME BoundAssumption == MAX_SCANCODES \in Nat \ {0} /\ KeySteps \subseteq BootSteps

VARIABLES
    irr, isr,          \* requests latched and in service, of both 8259s
    mask,              \* master_mask and slave_mask: the lines masked
    int_flag,          \* the processor's interrupt flag
    boot,
    frames,            \* interrupt handlers on the stack: [irq, at], the last runs
    periodic, regC,    \* the RTC: interrupt enabled; its flag, until C is read
    scancodes          \* how many wait in the keyboard

pic     == <<irr, isr, mask>>
devices == <<periodic, regC, scancodes>>
vars    == <<pic, int_flag, boot, frames, devices>>

-----------------------------------------------------------------------------
\* Wrong versions of definitions below, which the properties tell apart from
\* the right ones.
EoiSlaveOnly(l)   == isr' = isr \ {l}
MasksKept         == /\ irr' = {} /\ isr' = {}
                     /\ mask' = mask \ {SLAVE_IRQ_NUM}
MaskAgain(l)      == mask' = Irqs \ {l}          \* outb(~(1 << irq_num))
NoRead            == UNCHANGED <<regC, irr>>

-----------------------------------------------------------------------------
\* The boot loader leaves interrupts off, lines masked at its will, and requests
\* of the timer and the RTC pending.
Init == /\ irr \in SUBSET {PIT_IRQ, RTC_IRQ_NUM} /\ isr = {}
        /\ mask \in SUBSET Irqs
        /\ int_flag = FALSE
        /\ boot = "i8259_init"
        /\ frames = <<>>
        /\ periodic = FALSE /\ regC \in BOOLEAN
        /\ scancodes = 0

(***************************************************************************)
(* i8259.c.                                                                *)
(***************************************************************************)
\* ICW1 clears both chips; then the masks are set, and IRQ 2 is unmasked.
i8259_init == /\ irr' = {} /\ isr' = {}
              /\ mask' = Irqs \ {SLAVE_IRQ_NUM}

enable_irq(l) == mask' = mask \ {l}

\* The specific end of interrupt, for the slave on both chips.
send_eoi(l) == isr' = isr \ {l, Pin(l)}

(***************************************************************************)
(* entry.  The sti of rtc_register already turns interrupts on.            *)
(***************************************************************************)
BootNext == [i8259_init    |-> "rtc_periodic",
             rtc_periodic  |-> "rtc_register",
             rtc_register  |-> "rtc_enable",
             rtc_enable    |-> "keyboard_init",
             keyboard_init |-> "terminal_init",
             terminal_init |-> "pit_init",
             pit_init      |-> "sti",
             sti           |-> "kernel"]

Enables == [rtc_enable    |-> RTC_IRQ_NUM,
            keyboard_init |-> KEYBOARD_IRQ_NUM,
            pit_init      |-> PIT_IRQ]

AtBoot(step) == boot = step /\ frames = <<>> /\ boot' = BootNext[step]

BootPic == AtBoot("i8259_init") /\ i8259_init /\ UNCHANGED <<int_flag, frames, devices>>

\* The flag may be up already: the line then rises at once.
BootPeriodic == /\ AtBoot("rtc_periodic")
                /\ periodic' = TRUE
                /\ irr' = IF regC THEN irr \cup {RTC_IRQ_NUM} ELSE irr
                /\ UNCHANGED <<isr, mask, int_flag, frames, regC, scancodes>>

BootEnable(step) == /\ AtBoot(step) /\ enable_irq(Enables[step])
                    /\ UNCHANGED <<irr, isr, int_flag, frames, devices>>

BootTerminals == AtBoot("terminal_init") /\ UNCHANGED <<pic, int_flag, frames, devices>>

BootSti(step) == /\ AtBoot(step) /\ int_flag' = TRUE
                 /\ UNCHANGED <<pic, frames, devices>>

Boot == \/ BootPic \/ BootPeriodic \/ BootTerminals
        \/ \E step \in DOMAIN Enables : BootEnable(step)
        \/ \E step \in {"rtc_register", "sti"} : BootSti(step)

(***************************************************************************)
(* The devices.                                                            *)
(***************************************************************************)
Request(l) == irr' = irr \cup {l}

\* The period is far longer than a handler.
PitPeriod == /\ frames = <<>>
             /\ Request(PIT_IRQ)
             /\ UNCHANGED <<isr, mask, int_flag, boot, frames, devices>>

\* The line rises with the flag and stays up until register C is read.
RtcPeriod == /\ ~regC
             /\ regC' = TRUE
             /\ IF periodic THEN Request(RTC_IRQ_NUM) ELSE UNCHANGED irr
             /\ UNCHANGED <<isr, mask, int_flag, boot, frames, periodic, scancodes>>

\* The line rises for the first scancode, and for the next one when that is read.  A
\* scancode that is read before terminal_init is that of a key that prints nothing.
KeyPress == /\ scancodes < MAX_SCANCODES
            /\ boot \in KeySteps
            /\ scancodes' = scancodes + 1
            /\ IF scancodes = 0 THEN Request(KEYBOARD_IRQ_NUM) ELSE UNCHANGED irr
            /\ UNCHANGED <<isr, mask, int_flag, boot, frames, periodic, regC>>

(***************************************************************************)
(* The processor takes the request of the highest priority that no line in *)
(* service holds back.                                                     *)
(***************************************************************************)
Ready(l) == /\ l \in irr \ mask
            /\ Pin(l) \notin mask
            /\ l \notin isr
            /\ \A s \in isr : Pin(s) > Pin(l)
Asserted(l) == Ready(l) /\ \A k \in Devices : Ready(k) => Pin(k) >= Pin(l)

\* idt_init: the devices' gates are interrupt gates, the others trap gates.
Gate(l) == l \notin Devices

Deliver(l) == /\ int_flag /\ Asserted(l)
              /\ irr' = irr \ {l}
              /\ isr' = isr \cup {l, Pin(l)}
              /\ int_flag' = Gate(l)
              /\ frames' = Append(frames, [irq |-> l, at |-> "entered"])
              /\ UNCHANGED <<mask, boot, devices>>

(***************************************************************************)
(* The handlers.                                                           *)
(***************************************************************************)
Top == frames[Len(frames)]
Runs(l, at) == frames # <<>> /\ Top = [irq |-> l, at |-> at]
Goto(at) == frames' = [frames EXCEPT ![Len(frames)].at = at]

\* Register C is read: the line falls, and may rise again.
ReadRegisterC == regC' = FALSE /\ UNCHANGED irr
RtcRead == /\ Runs(RTC_IRQ_NUM, "entered")
           /\ ReadRegisterC
           /\ Goto("read")
           /\ UNCHANGED <<isr, mask, int_flag, boot, periodic, scancodes>>

RtcEoi == /\ Runs(RTC_IRQ_NUM, "read")
          /\ send_eoi(RTC_IRQ_NUM)
          /\ Goto("acknowledged")
          /\ UNCHANGED <<irr, mask, int_flag, boot, devices>>

\* The line falls, and rises again if another scancode waits.
ReadScancode == /\ scancodes' = scancodes - 1
                /\ IF scancodes > 1 THEN Request(KEYBOARD_IRQ_NUM) ELSE UNCHANGED irr
KeyRead == /\ Runs(KEYBOARD_IRQ_NUM, "entered")
           /\ IF scancodes > 0 THEN ReadScancode ELSE UNCHANGED <<irr, scancodes>>
           /\ Goto("read")
           /\ UNCHANGED <<isr, mask, int_flag, boot, periodic, regC>>

\* Every way through keyboard_handler sends it once: before terminal_switch and
\* halt, after the rest.
KeyEoi == /\ Runs(KEYBOARD_IRQ_NUM, "read")
          /\ send_eoi(KEYBOARD_IRQ_NUM)
          /\ Goto("acknowledged")
          /\ UNCHANGED <<irr, mask, int_flag, boot, devices>>

PitEoi == /\ Runs(PIT_IRQ, "entered")
          /\ send_eoi(PIT_IRQ)
          /\ Goto("acknowledged")
          /\ UNCHANGED <<irr, mask, int_flag, boot, devices>>

\* The return to the interrupted code, which had interrupts on.
Return(l) == /\ Runs(l, "acknowledged")
             /\ int_flag' = TRUE
             /\ frames' = SubSeq(frames, 1, Len(frames) - 1)
             /\ UNCHANGED <<pic, boot, devices>>

\* A tick that starts a shell, and Ctrl-C, end in execute or halt, which turn
\* interrupts on and go to a program; a tick that switches goes to another thread.
Leave(l) == /\ l # RTC_IRQ_NUM /\ boot = "kernel"
            /\ Runs(l, "acknowledged")
            /\ int_flag' = TRUE
            /\ frames' = <<>>
            /\ UNCHANGED <<pic, boot, devices>>

\* terminal_read copies, and rtc_write programs the RTC, between cli and sti.
Cli == /\ boot = "kernel" /\ frames = <<>> /\ int_flag
       /\ int_flag' = FALSE
       /\ UNCHANGED <<pic, boot, frames, devices>>
Sti == /\ boot = "kernel" /\ frames = <<>> /\ ~int_flag
       /\ int_flag' = TRUE
       /\ UNCHANGED <<pic, boot, frames, devices>>

Handler == \/ RtcRead \/ RtcEoi \/ KeyRead \/ KeyEoi \/ PitEoi
           \/ \E l \in Devices : Return(l) \/ Leave(l)

Next == \/ Boot \/ Handler \/ Cli \/ Sti
        \/ PitPeriod \/ RtcPeriod \/ KeyPress
        \/ \E l \in Devices : Deliver(l)

Spec == Init /\ [][Next]_vars

\* The processor runs and the two clocks never stop.  Their periods are far longer
\* than a handler: the code they interrupt gets on, and so does a line of lower
\* priority.
FairSpec == /\ Spec
            /\ SF_vars(Boot) /\ WF_vars(Handler) /\ WF_vars(Sti)
            /\ \A l \in Devices : SF_vars(Deliver(l))
            /\ SF_vars(PitPeriod) /\ WF_vars(RtcPeriod)

-----------------------------------------------------------------------------
\* Every variable has its type.
TypeOK == /\ irr \subseteq Devices /\ isr \subseteq Irqs /\ mask \subseteq Irqs
          /\ int_flag \in BOOLEAN /\ boot \in BootSteps
          /\ frames \in Seq([irq : Devices, at : {"entered", "read", "acknowledged"}])
          /\ periodic \in BOOLEAN /\ regC \in BOOLEAN
          /\ scancodes \in 0 .. MAX_SCANCODES

\* Handlers do not nest, and when interrupts are on again every interrupt taken has
\* been ended on each chip it came through (i8259.c:132-147; keyboard.c:129-238).
NoneHeldBack == /\ Len(frames) <= 1
                /\ int_flag => frames = <<>> /\ isr = {}
                /\ frames # <<>> =>
                       isr = IF Top.at = "acknowledged" THEN {} ELSE {Top.irq, Pin(Top.irq)}

\* No request is lost: a device whose line is up has its request latched, or its
\* handler is about to read it (rtc.c:65; keyboard.c:124).
NoneLost ==
    /\ periodic /\ regC => RTC_IRQ_NUM \in irr \/ Runs(RTC_IRQ_NUM, "entered")
    /\ scancodes > 0 => KEYBOARD_IRQ_NUM \in irr \/ Runs(KEYBOARD_IRQ_NUM, "entered")

\* The handler of the PIT, which starts the shells and schedules, runs on terminals
\* that are set up, although interrupts are on from rtc_init and the boot loader may
\* have left the timer unmasked and its request pending (kernel.c:154-184; rtc.c:197).
TicksLast == frames # <<>> /\ Top.irq = PIT_IRQ => boot \in {"pit_init", "sti", "kernel"}

\* Every device is served (i8259.c:132; kernel.c:154-186): the timer for ever, the
\* keyboard while scancodes wait, and the RTC, of the lowest priority, for ever
\* once nobody types.
EveryLineServed == /\ []<>Runs(PIT_IRQ, "entered")
                   /\ scancodes > 0 ~> Runs(KEYBOARD_IRQ_NUM, "read")
                   /\ <>[](scancodes = 0) => []<>Runs(RTC_IRQ_NUM, "entered")
=============================================================================
