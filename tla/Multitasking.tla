----------------------------- MODULE Multitasking -----------------------------
(***************************************************************************)
(* Process creation, process exit and preemptive scheduling: execute and   *)
(* halt (syscall.c), pit_handler (pit.c), context_switch (scheduling.c),   *)
(* setup_mem (paging.c), the Ctrl-C branch of keyboard_handler             *)
(* (keyboard.c) and excpHandler (idt.c).                                   *)
(*                                                                         *)
(* Each terminal runs one chain of processes, and the machine has one CPU: *)
(* "thread t" is terminal t's flow of control, cpu names the thread whose  *)
(* context is loaded.  The system calls run with interrupts enabled (trap  *)
(* gate), so execute and halt are cut into the steps between which a PIT   *)
(* tick or Ctrl-C may land; the interrupt and exception handlers run with  *)
(* interrupts disabled and are one action each.                            *)
(***************************************************************************)
EXTENDS Integers

CONSTANTS
    PID_MAX,     \* number of process slots: PCB, kernel stack, 4MB frame
    TERM_COUNT,  \* number of terminals
    TickPoints,  \* kernel points where the PIT may interrupt (code: Points)
    KeyPoints,   \* kernel points where Ctrl-C may arrive (code: Points)
    EarlyTyping  \* FALSE: users act only once all the terminals have started

ExecLabels == {"ex_check", "ex_scan", "ex_claim", "ex_enter", "ex_pcb", "ex_map",
               "ex_load", "ex_save", "ex_tss", "ex_run", "ex_iret"}
HaltLabels == {"ha_test", "ha_base", "ha_free", "ha_parent", "ha_map", "ha_tss", "ha_ret"}

Callers == {"user", "halt", "boot", "tick"}   \* who called execute; "user" for halt too
Points  == Callers \X (ExecLabels \cup HaltLabels)

\* In the code every point is exposed.  At these an interrupt does no harm.
\* Not among them: from the claim test to the claim, from the new page mapping to
\* term_proc, from the freeing of a slot to the end of halt, and the first
\* moments of a terminal's first shell, on another process's kernel stack.
SafeTick ==
    ({"user"} \X {"ex_check", "ex_scan", "ex_enter", "ex_pcb", "ex_map", "ex_iret",
                  "ha_test", "ha_base", "ha_free"})
    \cup ({"halt"} \X {"ex_enter", "ex_pcb", "ex_map", "ex_load", "ex_save", "ex_tss",
                       "ex_run", "ex_iret"})
    \cup ({"boot"} \X ExecLabels)

\* Not among them: from the claim to the saved frame, from the parent becoming
\* current to the return to it, and the same first moments.
SafeKey ==
    ({"user"} \X {"ex_check", "ex_scan", "ex_claim", "ex_tss", "ex_run", "ex_iret",
                  "ha_test", "ha_base", "ha_free", "ha_parent"})
    \cup ({"halt", "boot"} \X ExecLabels)

ASSUME PidMaxAssumption    == PID_MAX \in Nat
ASSUME TermCountAssumption == TERM_COUNT \in Nat \ {0, 1} /\ TERM_COUNT <= PID_MAX
ASSUME PointsAssumption    == TickPoints \subseteq Points /\ KeyPoints \subseteq Points
ASSUME TypingAssumption    == EarlyTyping \in BOOLEAN

Pids  == 0 .. PID_MAX - 1
Terms == 0 .. TERM_COUNT - 1
None  == -1                                   \* the code's "no process"

\* What execute leaves on the kernel stack for halt to return through.
Frames  == [stack : Pids, caller : Callers]
NoFrame == [stack |-> None, caller |-> "user"]

VARIABLES
    pid,               \* pid[p] = 1 iff slot p is taken
    curr_pid,          \* terms[t].curr_pid
    prev_pid,          \* terms[t].prev_pid
    parent_pid,        \* pcb p's parent_pid
    owner,             \* history: the terminal that claimed slot p last
    saved,             \* pcb p's saved_esp and saved_ebp
    image,             \* the slot whose program the 4MB frame p holds
    page,              \* the 4MB frame the user page directory entry maps
    esp0,              \* the process whose kernel stack tss.esp0 names
    active_term,       \* the scheduled terminal
    term_proc,         \* the process the scheduler switches to for terminal t
    schedule,          \* pcb p's schedule_esp and schedule_ebp: a thread
    exception_status,  \* 1 between an exception and the halt that reports it
    cpu,               \* the running thread, None when a lost context was loaded
    pc, caller,        \* where thread t is, who called the execute it is in
    slot,              \* thread t's local i or pcb in execute, curr_pcb in halt
    stack              \* the kernel stack thread t's frames are on

tables == <<pid, owner>>
terms  == <<curr_pid, prev_pid>>
pcbs   == <<parent_pid, saved>>
frames == <<page, image>>
sched  == <<active_term, schedule, cpu>>
thread == <<caller, slot, stack>>
vars   == <<tables, terms, pcbs, frames, esp0, term_proc, sched,
            exception_status, pc, thread>>

-----------------------------------------------------------------------------
(***************************************************************************)
(* Wrong versions of definitions below, which the properties tell apart    *)
(* from the right ones.                                                    *)
(***************************************************************************)
NextSlotStuck(i) == i                           \* i++ forgotten
CreatorIsSelf   == curr_pid[active_term]        \* curr_pid read for prev_pid
FreedParent(p)  == [pid EXCEPT ![parent_pid[p]] = 0]    \* the wrong PCB's pid
FreedNext(p)    == [pid EXCEPT ![(p + 1) % PID_MAX] = 0]  \* PID_OFFSET added
KeepStack(to)   == esp0' = esp0                 \* tss.esp0 not switched
SameTerm        == active_term                  \* active_term not advanced
ContextsByTerminal(from) == [schedule EXCEPT ![active_term] = cpu]
FirstFreeFromOne(table) ==                      \* pids counted from 1
    CHOOSE i \in 1 .. PID_MAX : /\ table[i - 1] = 0
                                /\ \A j \in 1 .. PID_MAX : j < i => table[j - 1] # 0
LastFree(table) ==                              \* searched from the top
    CHOOSE i \in Pids : /\ table[i] = 0
                        /\ \A j \in Pids : j > i => table[j] # 0

-----------------------------------------------------------------------------
AllStarted == \A t \in Terms : term_proc[t] # None
UsersType  == EarlyTyping \/ AllStarted

At(label)   == cpu # None /\ pc[cpu] = label
Goto(label) == pc' = [pc EXCEPT ![cpu] = label]
InUser(t)   == pc[t] = "user"

\* The PCB, stack and frame of the terminal's process exist.
HasProcess == curr_pid[active_term] # None

\* Back in the user program: thread cpu has no frame on a kernel stack.
ReturnToUser == /\ Goto("user")
                /\ caller' = [caller EXCEPT ![cpu] = "user"]
                /\ stack' = [stack EXCEPT ![cpu] = None]

Init == /\ pid = [p \in Pids |-> 0]
        /\ curr_pid = [t \in Terms |-> None]
        /\ prev_pid = [t \in Terms |-> None]
        /\ parent_pid = [p \in Pids |-> None]
        /\ owner = [p \in Pids |-> None]
        /\ saved = [p \in Pids |-> NoFrame]
        /\ image = [p \in Pids |-> None]
        /\ page = None
        /\ esp0 = 0
        /\ active_term = 0
        /\ term_proc = [t \in Terms |-> None]
        /\ schedule = [p \in Pids |-> None]
        /\ exception_status = 0
        /\ cpu = 0
        /\ pc = [t \in Terms |-> IF t = 0 THEN "ex_check" ELSE "off"]
        /\ caller = [t \in Terms |-> IF t = 0 THEN "boot" ELSE "user"]
        /\ slot = [t \in Terms |-> 0]
        /\ stack = [t \in Terms |-> IF t = 0 THEN 0 ELSE None]

-----------------------------------------------------------------------------
(***************************************************************************)
(* execute, called by a user program, by halt to restart a base shell, or  *)
(* by entry() at boot.                                                     *)
(***************************************************************************)
SysExecute == /\ At("user") /\ UsersType
              /\ Goto("ex_check")
              /\ stack' = [stack EXCEPT ![cpu] = esp0]
              /\ UNCHANGED <<tables, terms, pcbs, frames, esp0, term_proc, sched,
                             exception_status, caller, slot>>

\* No such program: only a command typed by the user can name a missing file.
ExBadCommand == /\ At("ex_check") /\ caller[cpu] = "user"
                /\ ReturnToUser
                /\ UNCHANGED <<tables, terms, pcbs, frames, esp0, term_proc, sched,
                               exception_status, slot>>

ExCheck == /\ At("ex_check")
           /\ Goto("ex_scan")
           /\ slot' = [slot EXCEPT ![cpu] = 0]
           /\ UNCHANGED <<tables, terms, pcbs, frames, esp0, term_proc, sched,
                          exception_status, caller, stack>>

IsFree(i) == pid[i] = 0
NextSlot(i) == i + 1

\* One iteration of the search for a free slot.
ExScan == /\ At("ex_scan")
          /\ \/ /\ IsFree(slot[cpu])
                /\ Goto("ex_claim")
                /\ UNCHANGED slot
             \/ /\ ~IsFree(slot[cpu]) /\ slot[cpu] + 1 < PID_MAX
                /\ slot' = [slot EXCEPT ![cpu] = NextSlot(@)]
                /\ UNCHANGED pc
          /\ UNCHANGED <<tables, terms, pcbs, frames, esp0, term_proc, sched,
                         exception_status, caller, stack>>

\* Every slot is taken: execute returns -1, to the user or into halt.
ExFull == /\ At("ex_scan")
          /\ ~IsFree(slot[cpu]) /\ slot[cpu] + 1 = PID_MAX
          /\ \/ /\ caller[cpu] = "user"
                /\ ReturnToUser
                /\ UNCHANGED slot
             \/ /\ caller[cpu] = "halt" /\ HasProcess
                /\ Goto("ha_free")
                /\ slot' = [slot EXCEPT ![cpu] = curr_pid[active_term]]
                /\ caller' = [caller EXCEPT ![cpu] = "user"]
                /\ UNCHANGED stack
          /\ UNCHANGED <<tables, terms, pcbs, frames, esp0, term_proc, sched,
                         exception_status>>

ExClaim == /\ At("ex_claim")
           /\ pid' = [pid EXCEPT ![slot[cpu]] = 1]
           /\ owner' = [owner EXCEPT ![slot[cpu]] = active_term]
           /\ Goto("ex_enter")
           /\ UNCHANGED <<terms, pcbs, frames, esp0, term_proc, sched,
                          exception_status, thread>>

ExEnter == /\ At("ex_enter")
           /\ prev_pid' = [prev_pid EXCEPT ![active_term] = curr_pid[active_term]]
           /\ curr_pid' = [curr_pid EXCEPT ![active_term] = slot[cpu]]
           /\ Goto("ex_pcb")
           /\ UNCHANGED <<tables, pcbs, frames, esp0, term_proc, sched,
                          exception_status, thread>>

Creator == prev_pid[active_term]

ExPcb == /\ At("ex_pcb") /\ HasProcess
         /\ slot' = [slot EXCEPT ![cpu] = curr_pid[active_term]]
         /\ parent_pid' = [parent_pid EXCEPT ![curr_pid[active_term]] = Creator]
         /\ Goto("ex_map")
         /\ UNCHANGED <<tables, terms, saved, frames, esp0, term_proc, sched,
                        exception_status, caller, stack>>

ExMap == /\ At("ex_map") /\ HasProcess
         /\ page' = curr_pid[active_term]
         /\ Goto("ex_load")
         /\ UNCHANGED <<tables, terms, pcbs, image, esp0, term_proc, sched,
                        exception_status, thread>>

\* read_data copies the program to PROG_IMAGE_ADDR, wherever that is mapped.
ExLoad == /\ At("ex_load")
          /\ image' = [image EXCEPT ![page] = slot[cpu]]
          /\ Goto("ex_save")
          /\ UNCHANGED <<tables, terms, pcbs, page, esp0, term_proc, sched,
                         exception_status, thread>>

ExSave == /\ At("ex_save")
          /\ saved' = [saved EXCEPT ![slot[cpu]] =
                         [stack |-> stack[cpu], caller |-> caller[cpu]]]
          /\ Goto("ex_tss")
          /\ UNCHANGED <<tables, terms, parent_pid, frames, esp0, term_proc, sched,
                         exception_status, thread>>

ExTss == /\ At("ex_tss") /\ HasProcess
         /\ esp0' = curr_pid[active_term]
         /\ Goto("ex_run")
         /\ UNCHANGED <<tables, terms, pcbs, frames, term_proc, sched,
                        exception_status, thread>>

ExRun == /\ At("ex_run") /\ HasProcess
         /\ term_proc' = [term_proc EXCEPT ![active_term] = curr_pid[active_term]]
         /\ Goto("ex_iret")
         /\ UNCHANGED <<tables, terms, pcbs, frames, esp0, sched,
                        exception_status, thread>>

ExIret == /\ At("ex_iret")
          /\ ReturnToUser
          /\ UNCHANGED <<tables, terms, pcbs, frames, esp0, term_proc, sched,
                         exception_status, slot>>

-----------------------------------------------------------------------------
(***************************************************************************)
(* halt, called by a user program.                                         *)
(***************************************************************************)
SysHalt == /\ At("user") /\ UsersType
           /\ Goto("ha_test")
           /\ stack' = [stack EXCEPT ![cpu] = esp0]
           /\ UNCHANGED <<tables, terms, pcbs, frames, esp0, term_proc, sched,
                          exception_status, caller, slot>>

\* A terminal's base shell is recognised by its pid, the terminal's number.
IsBaseShell(p) == p = active_term

HaTest == /\ At("ha_test") /\ HasProcess
          /\ slot' = [slot EXCEPT ![cpu] = curr_pid[active_term]]
          /\ Goto(IF IsBaseShell(curr_pid[active_term]) THEN "ha_base" ELSE "ha_free")
          /\ UNCHANGED <<tables, terms, pcbs, frames, esp0, term_proc, sched,
                         exception_status, caller, stack>>

HaBase == /\ At("ha_base")
          /\ pid' = [pid EXCEPT ![active_term] = 0]
          /\ caller' = [caller EXCEPT ![cpu] = "halt"]
          /\ Goto("ex_check")
          /\ UNCHANGED <<owner, terms, pcbs, frames, esp0, term_proc, sched,
                         exception_status, slot, stack>>

Freed(p) == [pid EXCEPT ![p] = 0]

HaFree == /\ At("ha_free")
          /\ pid' = Freed(slot[cpu])
          /\ Goto("ha_parent")
          /\ UNCHANGED <<owner, terms, pcbs, frames, esp0, term_proc, sched,
                         exception_status, thread>>

HaParent == LET p == parent_pid[slot[cpu]] IN
            /\ At("ha_parent") /\ p # None
            /\ curr_pid' = [curr_pid EXCEPT ![active_term] = p]
            /\ term_proc' = [term_proc EXCEPT ![active_term] = p]
            /\ prev_pid' = [prev_pid EXCEPT ![active_term] = parent_pid[p]]
            /\ Goto("ha_map")
            /\ UNCHANGED <<tables, pcbs, frames, esp0, sched, exception_status, thread>>

HaMap == /\ At("ha_map") /\ HasProcess
         /\ page' = curr_pid[active_term]
         /\ Goto("ha_tss")
         /\ UNCHANGED <<tables, terms, pcbs, image, esp0, term_proc, sched,
                        exception_status, thread>>

HaTss == /\ At("ha_tss") /\ HasProcess
         /\ esp0' = curr_pid[active_term]
         /\ Goto("ha_ret")
         /\ UNCHANGED <<tables, terms, pcbs, frames, term_proc, sched,
                        exception_status, thread>>

\* The value halt gives to the parent's execute.
ExitStatus == IF exception_status = 1 THEN "exception" ELSE "status"

\* leave; ret: return from the execute that created p.  The frame is gone then.
\* A frame that is not there, or not of a system call, leads nowhere.
ReturnThrough(p) == /\ saved' = [saved EXCEPT ![p] = NoFrame]
                    /\ exception_status' = 0
                    /\ IF saved[p] # NoFrame /\ saved[p].caller = "user"
                       THEN ReturnToUser /\ UNCHANGED cpu
                       ELSE cpu' = None /\ UNCHANGED <<pc, caller, stack>>

HaRet == /\ At("ha_ret")
         /\ ReturnThrough(slot[cpu])
         /\ UNCHANGED <<tables, terms, parent_pid, frames, esp0, term_proc,
                        active_term, schedule, slot>>

\* The code goes on with process -1, which has no PCB, stack or frame: the
\* terminal has no process, or the process being halted has no parent.
Derail == /\ cpu # None
          /\ \/ /\ ~HasProcess
                /\ pc[cpu] \in {"ex_pcb", "ex_map", "ex_tss", "ex_run",
                               "ha_test", "ha_map", "ha_tss"}
             \/ At("ha_parent") /\ parent_pid[slot[cpu]] = None
          /\ cpu' = None
          /\ UNCHANGED <<tables, terms, pcbs, frames, esp0, term_proc, active_term,
                         schedule, exception_status, pc, thread>>

-----------------------------------------------------------------------------
(***************************************************************************)
(* The handlers, with interrupts disabled.                                 *)
(***************************************************************************)
\* The kernel stack the interrupted thread's registers are pushed on.
StackNow == IF InUser(cpu) THEN esp0 ELSE stack[cpu]

FirstFree(table) == CHOOSE i \in Pids : /\ table[i] = 0
                                        /\ \A j \in Pids : j < i => table[j] # 0
Full(table)      == \A i \in Pids : table[i] # 0

\* execute("shell") to its iret without interruption, for terminal t, by thread
\* u; table is the pid array it finds.
StartShell(t, u, table, from) ==
    LET i == FirstFree(table) IN
    /\ pid' = [table EXCEPT ![i] = 1]
    /\ owner' = [owner EXCEPT ![i] = t]
    /\ prev_pid' = [prev_pid EXCEPT ![t] = curr_pid[t]]
    /\ curr_pid' = [curr_pid EXCEPT ![t] = i]
    /\ parent_pid' = [parent_pid EXCEPT ![i] = curr_pid[t]]
    /\ page' = i
    /\ image' = [image EXCEPT ![i] = i]
    /\ saved' = [saved EXCEPT ![i] = [stack |-> StackNow, caller |-> from]]
    /\ esp0' = i
    /\ term_proc' = [term_proc EXCEPT ![t] = i]
    /\ pc' = [pc EXCEPT ![u] = "ex_iret"]
    /\ caller' = [caller EXCEPT ![u] = from]
    /\ slot' = [slot EXCEPT ![u] = i]

TickArrives == cpu # None /\ (InUser(cpu) \/ <<caller[cpu], pc[cpu]>> \in TickPoints)

\* The next terminal has no process yet, the first one is in its base shell.
StartsTerminal(k) == /\ k + 1 < TERM_COUNT
                     /\ term_proc[0] = 0 /\ term_proc[k] # None
                     /\ term_proc[k + 1] = None

\* pit_handler's first two branches: the tick starts the next terminal's shell,
\* on the kernel stack of the thread it interrupted.
TickStart == LET k == active_term IN
             /\ TickArrives /\ StartsTerminal(k) /\ ~Full(pid)
             /\ schedule' = [schedule EXCEPT ![k] = cpu]
             /\ active_term' = k + 1
             /\ cpu' = k + 1
             /\ StartShell(k + 1, k + 1, pid, "tick")
             /\ stack' = [stack EXCEPT ![cpu] = StackNow, ![k + 1] = StackNow]
             /\ UNCHANGED exception_status

\* No slot is free: execute returns and the interrupted thread goes on, with
\* the next terminal marked as the scheduled one.
TickStartFails == /\ TickArrives /\ StartsTerminal(active_term) /\ Full(pid)
                  /\ schedule' = [schedule EXCEPT ![active_term] = cpu]
                  /\ active_term' = active_term + 1
                  /\ UNCHANGED <<tables, terms, pcbs, frames, esp0, term_proc, cpu,
                                 exception_status, pc, thread>>

\* The context context_switch loads, once it has saved the running one.  A
\* context is good for one resumption: its stack is in use again afterwards.
Contexts(from) == [schedule EXCEPT ![from] = cpu]

NextTerm == (active_term + 1) % TERM_COUNT

SetStack(to) == esp0' = to

TickSwitch ==
    LET from == term_proc[active_term]
        to   == term_proc[NextTerm]
        next == Contexts(from)[to]
    IN  /\ TickArrives /\ ~StartsTerminal(active_term)
        /\ from # None /\ to # None
        /\ active_term' = NextTerm
        /\ schedule' = [Contexts(from) EXCEPT ![to] = None]
        /\ page' = to
        /\ SetStack(to)
        /\ cpu' = next
        /\ stack' = [t \in Terms |-> IF t = next /\ InUser(t) THEN None
                                     ELSE IF t = cpu THEN StackNow ELSE stack[t]]
        /\ UNCHANGED <<tables, terms, pcbs, image, term_proc, exception_status,
                       pc, caller, slot>>

\* context_switch from or to process -1, which has no PCB.  (A tick before any
\* terminal has a process is ignored: pit_handler returns.)
TickNowhere == /\ TickArrives /\ ~StartsTerminal(active_term)
               /\ \E t \in Terms : term_proc[t] # None
               /\ term_proc[active_term] = None \/ term_proc[NextTerm] = None
               /\ active_term' = NextTerm
               /\ cpu' = None
               /\ UNCHANGED <<tables, terms, pcbs, frames, esp0, term_proc, schedule,
                              exception_status, pc, thread>>

Tick == TickStart \/ TickStartFails \/ TickSwitch \/ TickNowhere

\* halt without interruption on the scheduled terminal's process, a base shell.
HaltBase == /\ IsBaseShell(curr_pid[active_term])
            /\ StartShell(active_term, cpu, [pid EXCEPT ![active_term] = 0], "halt")
            /\ stack' = [stack EXCEPT ![cpu] = StackNow]
            /\ UNCHANGED sched

\* The same for a process started by another one.
HaltChild == LET p == curr_pid[active_term]
                 q == parent_pid[p]
             IN  /\ p # None /\ ~IsBaseShell(p) /\ q # None
                 /\ pid' = Freed(p)
                 /\ curr_pid' = [curr_pid EXCEPT ![active_term] = q]
                 /\ term_proc' = [term_proc EXCEPT ![active_term] = q]
                 /\ prev_pid' = [prev_pid EXCEPT ![active_term] = parent_pid[q]]
                 /\ page' = q
                 /\ esp0' = q
                 /\ ReturnThrough(p)
                 /\ UNCHANGED <<owner, parent_pid, image, active_term, schedule, slot>>

\* There is no process, or it has no parent.
HaltNobody == LET p == curr_pid[active_term] IN
              /\ IF p = None THEN TRUE ELSE ~IsBaseShell(p) /\ parent_pid[p] = None
              /\ cpu' = None
              /\ UNCHANGED <<tables, terms, pcbs, frames, esp0, term_proc, active_term,
                             schedule, exception_status, pc, thread>>

\* Ctrl-C halts the process of the scheduled terminal, in user mode or at any
\* point of its system call where interrupts are on.
CtrlC == /\ cpu # None /\ UsersType
         /\ InUser(cpu) \/ <<caller[cpu], pc[cpu]>> \in KeyPoints
         /\ \/ HaltBase /\ UNCHANGED exception_status
            \/ HaltChild
            \/ HaltNobody

\* A processor exception in a user program.  A base shell is restarted before
\* halt comes to reset exception_status.
Fault == /\ At("user") /\ UsersType
         /\ \/ HaltBase /\ exception_status' = 1
            \/ HaltChild

-----------------------------------------------------------------------------
KernelStep == \/ ExBadCommand \/ ExCheck \/ ExScan \/ ExFull \/ ExClaim \/ ExEnter
              \/ ExPcb \/ ExMap \/ ExLoad \/ ExSave \/ ExTss \/ ExRun \/ ExIret
              \/ HaTest \/ HaBase \/ HaFree \/ HaParent \/ Derail \/ HaMap
              \/ HaTss \/ HaRet

Next == KernelStep \/ SysExecute \/ SysHalt \/ Tick \/ CtrlC \/ Fault

Spec == Init /\ [][Next]_vars

\* The PIT ticks every 10 ms, and the PIC holds a tick that comes where it may
\* not be taken; between two ticks the running thread has time for many steps.
\* Nothing makes users type or programs call the kernel.
Fairness == /\ SF_vars(Tick)
            /\ \A t \in Terms : SF_vars(cpu = t /\ KernelStep)
FairSpec == Spec /\ Fairness

-----------------------------------------------------------------------------
Labels == {"off", "user"} \cup ExecLabels \cup HaltLabels

\* Every variable has its type, a kernel thread has a kernel stack, and a
\* context is that of a terminal's thread that has been started.
TypeOK ==
    /\ pid \in [Pids -> 0 .. 1]
    /\ curr_pid \in [Terms -> Pids \cup {None}]
    /\ prev_pid \in [Terms -> Pids \cup {None}]
    /\ parent_pid \in [Pids -> Pids \cup {None}]
    /\ owner \in [Pids -> Terms \cup {None}]
    /\ saved \in [Pids -> Frames \cup {NoFrame}]
    /\ image \in [Pids -> Pids \cup {None}]
    /\ page \in Pids \cup {None}
    /\ esp0 \in Pids
    /\ active_term \in Terms
    /\ term_proc \in [Terms -> Pids \cup {None}]
    /\ schedule \in [Pids -> Terms \cup {None}]
    /\ exception_status \in 0 .. 1
    /\ cpu \in Terms \cup {None}
    /\ pc \in [Terms -> Labels]
    /\ caller \in [Terms -> Callers]
    /\ slot \in [Terms -> Pids]
    /\ stack \in [Terms -> Pids \cup {None}]
    /\ \A t \in Terms : pc[t] \notin {"off", "user"} => stack[t] # None
    /\ \A t \in Terms : t = cpu \/ (\E p \in Pids : schedule[p] = t) => pc[t] # "off"

\* The scheduled terminal's thread is the one that runs, and the machine never
\* resumes a context that is not there (pit.c:87-91, scheduling.c:33-57).
ScheduledRuns == cpu = active_term

\* A slot about to be claimed (syscall.c:70-71) is still free.  With a tick
\* between the test and the claim, which the code admits, this is false.
FreshSlot == At("ex_claim") => pid[slot[cpu]] = 0

\* Whenever a user program runs, it is its terminal's current process, it runs
\* in its own 4MB frame which holds its own program, and its next system call
\* or interrupt enters on its own kernel stack.
UserContext ==
    cpu # None /\ InUser(cpu) =>
        LET p == curr_pid[cpu] IN
        /\ p # None /\ pid[p] = 1 /\ owner[p] = cpu
        /\ term_proc[cpu] = p /\ page = p /\ esp0 = p
        /\ image[p] = p

\* The kernel stack of a suspended thread is used by no other thread.  (A new
\* shell's first moments, up to iret, are spent on its predecessor's stack.)
StacksPrivate ==
    \A t, u \in Terms : t # u /\ u # cpu /\ stack[u] # None /\ ~At("ex_iret")
        => stack[u] # (IF t = cpu THEN StackNow ELSE stack[t])

\* Between ex_claim and ex_pcb a slot is taken and its PCB is not filled in.
SetUp(p) == /\ pid[p] = 1
            /\ \A t \in Terms : pc[t] \in {"ex_enter", "ex_pcb"} => slot[t] # p

Children == {p \in TERM_COUNT .. PID_MAX - 1 : SetUp(p)}

\* The process at the end of terminal t's chain.
Tip(t) == CASE pc[t] = "ex_pcb"    -> prev_pid[t]
            [] pc[t] = "ha_parent" -> parent_pid[slot[t]]
            [] OTHER               -> curr_pid[t]

\* execute is still building process p.
Building(p) == \E t \in Terms : curr_pid[t] = p /\ pc[t] \in {"ex_map", "ex_load", "ex_save"}

\* A child's saved frame is that of the system call that created it, on the
\* kernel stack of its parent: halt returns to the parent (syscall.c:194-202).
FrameReady ==
    \A p \in Children : ~Building(p) =>
        saved[p] = [stack |-> parent_pid[p], caller |-> "user"]

\* The processes of a terminal form one chain: a child's parent is alive and of
\* the same terminal, no parent has two children, and no process is leaked: it
\* is the end of the chain or the parent of another one.
ChainIntact ==
    \A p \in Children :
        /\ parent_pid[p] # None /\ pid[parent_pid[p]] = 1
        /\ owner[parent_pid[p]] = owner[p]
        /\ \A q \in Children : p # q => parent_pid[p] # parent_pid[q]
        /\ p = Tip(owner[p]) \/ \E q \in Children : parent_pid[q] = p

\* Slot t is only ever claimed by terminal t, also when its base shell exits and
\* is started again: the test in halt (syscall.c:149) relies on it.
BaseShells == AllStarted => \A t \in Terms : owner[t] = t

\* A step frees no slot but one of the running terminal.
FreesOwn == [][\A p \in Pids : pid[p] = 1 /\ pid'[p] = 0 => owner[p] = active_term]_vars

\* Every terminal is scheduled again and again.
RoundRobin == AllStarted ~> \A t \in Terms : []<>(active_term = t)

\* Every execute and every halt comes to an end, in some user program.
CallReturns == \A t \in Terms : pc[t] \notin {"off", "user"} ~> InUser(t)

\* A process that calls halt(status) reports its status: the exception flag is
\* clear when halt looks at it (syscall.c:181).
StatusReported == At("ha_ret") => ExitStatus = "status"

=============================================================================
