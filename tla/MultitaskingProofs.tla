-------------------------- MODULE MultitaskingProofs --------------------------
(***************************************************************************)
(* Type correctness of Multitasking, for every number of terminals and of  *)
(* process slots and wherever the PIT and Ctrl-C may interrupt; and its    *)
(* safety invariants, when interrupts land only where they do no harm.     *)
(*                                                                         *)
(* A terminal's slots are written by its own thread alone, so the          *)
(* inductive invariant speaks of one terminal at a time (Good), and a step *)
(* of the running thread has two parts: it leaves the other terminals as   *)
(* they are (OthersKept), and it keeps its own terminal good (Mine).       *)
(* The kernel's tables implement a stack of processes per terminal.        *)
(***************************************************************************)
EXTENDS ProcessStacks, FiniteSetTheorems, WellFoundedInduction, TLAPS

-----------------------------------------------------------------------------
(***************************************************************************)
(* Types.                                                                  *)
(***************************************************************************)
\* Terminal numbers are process numbers, None is neither, and the next terminal
\* in round-robin order is a terminal.
LEMMA Numbers ==
    /\ Terms \subseteq Pids /\ 0 \in Terms /\ 0 \in Pids
    /\ None \notin Pids /\ None \notin Terms
    /\ \A t \in Terms : (t + 1) % TERM_COUNT \in Terms
    /\ \A p \in Pids : p + 1 < PID_MAX => p + 1 \in Pids
    /\ \A t \in Terms : t + 1 < TERM_COUNT => t + 1 \in Terms
BY PidMaxAssumption, TermCountAssumption DEF Terms, Pids, None

\* The first free slot of a table that has one is a slot, it is free, and no
\* lower one is.
LEMMA FirstFreeIsFree ==
    ASSUME NEW table \in [Pids -> 0 .. 1], ~Full(table)
    PROVE  /\ FirstFree(table) \in Pids
           /\ table[FirstFree(table)] = 0
           /\ \A j \in Pids : j < FirstFree(table) => table[j] # 0
<1> DEFINE R    == OpToRel(<, Nat)
           Free == {i \in Pids : table[i] = 0}
<1>1. Free \subseteq Nat /\ Free # {}
    BY PidMaxAssumption DEF Full, Pids
<1>2. \A i, j \in Nat : i < j => <<i, j>> \in R
    BY DEF OpToRel
<1>3. \E i \in Free : \A j \in Free : ~ (<<j, i>> \in R)
  <2> HIDE DEF R, Free
  <2>1. IsWellFoundedOn(R, Nat)
      BY NatLessThanWellFounded DEF R
  <2>2. QED BY <1>1, <2>1, WFMin
<1>4. \E i \in Pids : table[i] = 0 /\ \A j \in Pids : j < i => table[j] # 0
    BY <1>1, <1>2, <1>3
<1>5. QED BY <1>4 DEF FirstFree

\* A shell started while the tables have a free slot gets typed table entries.
LEMMA StartShellType ==
    ASSUME TypeOK, NEW t \in Terms, NEW u \in Terms, NEW table \in [Pids -> 0 .. 1],
           ~Full(table), NEW from \in Callers, cpu \in Terms,
           StartShell(t, u, table, from)
    PROVE  /\ pid' \in [Pids -> 0 .. 1]
           /\ curr_pid' \in [Terms -> Pids \cup {None}]
           /\ prev_pid' \in [Terms -> Pids \cup {None}]
           /\ parent_pid' \in [Pids -> Pids \cup {None}]
           /\ owner' \in [Pids -> Terms \cup {None}]
           /\ saved' \in [Pids -> Frames \cup {NoFrame}]
           /\ image' \in [Pids -> Pids \cup {None}]
           /\ page' \in Pids /\ esp0' \in Pids
           /\ term_proc' \in [Terms -> Pids \cup {None}]
           /\ pc' = [pc EXCEPT ![u] = "ex_iret"] /\ pc' \in [Terms -> Labels]
           /\ caller' \in [Terms -> Callers]
           /\ slot' \in [Terms -> Pids]
<1>1. FirstFree(table) \in Pids
    BY FirstFreeIsFree
<1>2. StackNow \in Pids
    BY DEF TypeOK, StackNow, InUser
<1>3. [stack |-> StackNow, caller |-> from] \in Frames
    BY <1>2 DEF Frames
<1>4. "ex_iret" \in Labels
    BY DEF Labels, ExecLabels
<1>5. QED BY <1>1, <1>3, <1>4 DEF StartShell, TypeOK

\* An interrupted thread's registers go on a kernel stack.
LEMMA StackNowType == TypeOK /\ cpu # None => StackNow \in Pids
BY DEF TypeOK, StackNow, InUser

\* Init has its type.
LEMMA InitType == Init => TypeOK
BY Numbers DEF Init, TypeOK, Labels, ExecLabels, Callers, Frames, NoFrame

\* Each step of execute and of halt keeps the types.
LEMMA KernelType == TypeOK /\ KernelStep => TypeOK'
<1> SUFFICES ASSUME TypeOK, KernelStep PROVE TypeOK'
    OBVIOUS
<1> USE Numbers DEF TypeOK, At, Goto, ReturnToUser, HasProcess, Labels, ExecLabels, HaltLabels,
                    Callers, tables, terms, pcbs, frames, sched, thread
<1>1. CASE ExBadCommand
    BY <1>1 DEF ExBadCommand
<1>2. CASE ExCheck
    BY <1>2 DEF ExCheck
<1>3. CASE ExScan
  <2>1. CASE IsFree(slot[cpu])
      BY <1>3, <2>1 DEF ExScan
  <2>2. CASE ~IsFree(slot[cpu])
    <3>1. slot[cpu] + 1 \in Pids
        BY <1>3, <2>2 DEF ExScan
    <3>2. QED BY <1>3, <2>2, <3>1 DEF ExScan, NextSlot
  <2>3. QED BY <2>1, <2>2
<1>4. CASE ExFull
  <2>1. cpu \in Terms /\ UNCHANGED <<tables, terms, pcbs, frames, esp0, term_proc, sched,
                                     exception_status>>
      BY <1>4 DEF ExFull
  <2>2. CASE ReturnToUser /\ UNCHANGED slot
      BY <2>1, <2>2
  <2>3. CASE /\ HasProcess /\ Goto("ha_free")
             /\ slot' = [slot EXCEPT ![cpu] = curr_pid[active_term]]
             /\ caller' = [caller EXCEPT ![cpu] = "user"]
             /\ UNCHANGED stack
    <3>1. stack[cpu] # None
        BY <1>4, <2>1 DEF ExFull
    <3>2. QED BY <2>1, <2>3, <3>1
  <2>4. QED BY <1>4, <2>2, <2>3 DEF ExFull
<1>5. CASE ExClaim
    BY <1>5 DEF ExClaim
<1>6. CASE ExEnter
    BY <1>6 DEF ExEnter
<1>7. CASE ExPcb
    BY <1>7 DEF ExPcb, Creator
<1>8. CASE ExMap
    BY <1>8 DEF ExMap
<1>9. CASE ExLoad
    BY <1>9 DEF ExLoad
<1>10. CASE ExSave
    BY <1>10 DEF ExSave, Frames
<1>11. CASE ExTss
    BY <1>11 DEF ExTss
<1>12. CASE ExRun
    BY <1>12 DEF ExRun
<1>13. CASE ExIret
    BY <1>13 DEF ExIret
<1>14. CASE HaTest
    BY <1>14 DEF HaTest, IsBaseShell
<1>15. CASE HaBase
    BY <1>15 DEF HaBase
<1>16. CASE HaFree
    BY <1>16 DEF HaFree, Freed
<1>17. CASE HaParent
    BY <1>17 DEF HaParent
<1>18. CASE HaMap
    BY <1>18 DEF HaMap
<1>19. CASE HaTss
    BY <1>19 DEF HaTss
<1>20. CASE HaRet
    BY <1>20 DEF HaRet, ReturnThrough, NoFrame
<1>21. CASE Derail
    BY <1>21 DEF Derail
<1>22. QED BY <1>1, <1>2, <1>3, <1>4, <1>5, <1>6, <1>7, <1>8, <1>9, <1>10, <1>11, <1>12, <1>13, <1>14, <1>15, <1>16, <1>17, <1>18, <1>19, <1>20, <1>21 DEF KernelStep

\* The handlers keep the types.
LEMMA TickType == TypeOK /\ Tick => TypeOK'
<1> SUFFICES ASSUME TypeOK, Tick PROVE TypeOK'
    OBVIOUS
<1> USE Numbers
<1>1. cpu \in Terms /\ active_term \in Terms /\ active_term \in Pids
    BY DEF TypeOK, Tick, TickStart, TickStartFails, TickSwitch, TickNowhere, TickArrives
<1>2. StackNow \in Pids
    BY <1>1, StackNowType
<1>3. CASE TickStart
  <2>1. active_term + 1 \in Terms
      BY <1>1, <1>3 DEF TickStart, StartsTerminal
  <2>2. /\ active_term' = active_term + 1 /\ cpu' = active_term + 1
        /\ schedule' = [schedule EXCEPT ![active_term] = cpu]
        /\ stack' = [stack EXCEPT ![cpu] = StackNow, ![active_term + 1] = StackNow]
        /\ exception_status' = exception_status
      BY <1>3 DEF TickStart
  <2>3. StartShell(active_term + 1, active_term + 1, pid, "tick") /\ ~Full(pid)
      BY <1>3 DEF TickStart
  <2>4. pid \in [Pids -> 0 .. 1] /\ "tick" \in Callers
      BY DEF TypeOK, Callers
  <2> DEFINE k == active_term + 1
  <2>5. /\ pid' \in [Pids -> 0 .. 1]
        /\ curr_pid' \in [Terms -> Pids \cup {None}]
        /\ prev_pid' \in [Terms -> Pids \cup {None}]
        /\ parent_pid' \in [Pids -> Pids \cup {None}]
        /\ owner' \in [Pids -> Terms \cup {None}]
        /\ saved' \in [Pids -> Frames \cup {NoFrame}]
        /\ image' \in [Pids -> Pids \cup {None}]
        /\ page' \in Pids /\ esp0' \in Pids
        /\ term_proc' \in [Terms -> Pids \cup {None}]
        /\ pc' = [pc EXCEPT ![k] = "ex_iret"] /\ pc' \in [Terms -> Labels]
        /\ caller' \in [Terms -> Callers]
        /\ slot' \in [Terms -> Pids]
      BY <1>1, <2>1, <2>3, <2>4, StartShellType
  <2>6. /\ schedule' \in [Pids -> Terms \cup {None}]
        /\ stack' \in [Terms -> Pids \cup {None}]
        /\ active_term' \in Terms /\ cpu' \in Terms /\ exception_status' \in 0 .. 1
      BY <1>1, <1>2, <2>1, <2>2 DEF TypeOK
  <2>7. \A t \in Terms : pc'[t] \notin {"off", "user"} => stack'[t] # None
      BY <1>1, <1>2, <2>1, <2>2, <2>5 DEF TypeOK
  <2>8. \A t \in Terms : t = cpu' \/ (\E p \in Pids : schedule'[p] = t) => pc'[t] # "off"
      BY <1>1, <2>1, <2>2, <2>5 DEF TypeOK
  <2>9. QED BY <2>5, <2>6, <2>7, <2>8 DEF TypeOK
<1>4. CASE TickStartFails
    BY <1>1, <1>4 DEF TickStartFails, StartsTerminal, TypeOK, tables, terms, pcbs, frames, thread
<1>5. CASE TickSwitch
  <2>1. NextTerm \in Terms
      BY <1>1 DEF NextTerm
  <2>2. PICK from \in Pids, to \in Pids :
          /\ from = term_proc[active_term] /\ to = term_proc[NextTerm]
      BY <1>1, <1>5, <2>1 DEF TickSwitch, TypeOK
  <2> DEFINE next == Contexts(from)[to]
  <2>3. /\ active_term' = NextTerm
        /\ schedule' = [Contexts(from) EXCEPT ![to] = None]
        /\ page' = to /\ esp0' = to /\ cpu' = next
        /\ stack' = [t \in Terms |-> IF t = next /\ InUser(t) THEN None
                                     ELSE IF t = cpu THEN StackNow ELSE stack[t]]
        /\ UNCHANGED <<tables, terms, pcbs, image, term_proc, exception_status,
                       pc, caller, slot>>
      BY <1>5, <2>2 DEF TickSwitch, SetStack
  <2>4. Contexts(from) \in [Pids -> Terms \cup {None}]
      BY <1>1 DEF Contexts, TypeOK
  <2>5. \A t \in Terms : t = next => t = cpu \/ \E p \in Pids : schedule[p] = t
      BY <1>1, <2>2 DEF Contexts, TypeOK
  <2>6. \A t \in Terms : (\E p \in Pids : schedule'[p] = t) =>
                            t = cpu \/ \E p \in Pids : schedule[p] = t
      BY <1>1, <2>2, <2>3 DEF Contexts, TypeOK
  <2>7. \A t \in Terms : t = cpu' \/ (\E p \in Pids : schedule'[p] = t) => pc'[t] # "off"
      BY <2>3, <2>5, <2>6 DEF TypeOK
  <2>8. stack' \in [Terms -> Pids \cup {None}]
      BY <1>2, <2>3 DEF TypeOK
  <2>9. \A t \in Terms : pc'[t] \notin {"off", "user"} => stack'[t] # None
      BY <1>2, <2>3 DEF TypeOK, InUser
  <2>10. schedule' \in [Pids -> Terms \cup {None}] /\ cpu' \in Terms \cup {None}
      BY <2>2, <2>3, <2>4
  <2>11. QED BY <2>1, <2>2, <2>3, <2>7, <2>8, <2>9, <2>10 DEF TypeOK, tables, terms, pcbs
<1>6. CASE TickNowhere
  <2>1. NextTerm \in Terms
      BY <1>1 DEF NextTerm
  <2>2. QED BY <1>6, <2>1 DEF TickNowhere, TypeOK, tables, terms, pcbs, frames, thread
<1>7. QED BY <1>3, <1>4, <1>5, <1>6 DEF Tick

\* Halting a base shell keeps the types, whatever becomes of exception_status.
LEMMA HaltBaseType ==
    ASSUME TypeOK, cpu # None, HaltBase, exception_status' \in 0 .. 1
    PROVE  TypeOK'
<1> USE Numbers
<1> DEFINE table == [pid EXCEPT ![active_term] = 0]
<1>1. cpu \in Terms /\ active_term \in Terms
    BY DEF TypeOK
<1>2. StackNow \in Pids
    BY StackNowType
<1>3. table \in [Pids -> 0 .. 1] /\ ~Full(table) /\ "halt" \in Callers
    BY <1>1 DEF TypeOK, Full, Callers
<1>4. StartShell(active_term, cpu, table, "halt")
    BY DEF HaltBase
<1>5. /\ pid' \in [Pids -> 0 .. 1]
      /\ curr_pid' \in [Terms -> Pids \cup {None}]
      /\ prev_pid' \in [Terms -> Pids \cup {None}]
      /\ parent_pid' \in [Pids -> Pids \cup {None}]
      /\ owner' \in [Pids -> Terms \cup {None}]
      /\ saved' \in [Pids -> Frames \cup {NoFrame}]
      /\ image' \in [Pids -> Pids \cup {None}]
      /\ page' \in Pids /\ esp0' \in Pids
      /\ term_proc' \in [Terms -> Pids \cup {None}]
      /\ pc' = [pc EXCEPT ![cpu] = "ex_iret"] /\ pc' \in [Terms -> Labels]
      /\ caller' \in [Terms -> Callers]
      /\ slot' \in [Terms -> Pids]
  <2> HIDE DEF table
  <2>1. QED BY <1>1, <1>3, <1>4, StartShellType
<1>6. stack' = [stack EXCEPT ![cpu] = StackNow] /\ UNCHANGED sched
    BY DEF HaltBase
<1>7. \A t \in Terms : pc'[t] \notin {"off", "user"} => stack'[t] # None
    BY <1>1, <1>2, <1>5, <1>6 DEF TypeOK
<1>8. \A t \in Terms : t = cpu' \/ (\E p \in Pids : schedule'[p] = t) => pc'[t] # "off"
    BY <1>1, <1>5, <1>6 DEF TypeOK, sched
<1>9. stack' \in [Terms -> Pids \cup {None}]
    BY <1>2, <1>6 DEF TypeOK
<1>10. QED BY <1>5, <1>6, <1>7, <1>8, <1>9 DEF TypeOK, sched

\* So does halting a process with a parent.
LEMMA HaltChildType ==
    ASSUME TypeOK, cpu # None, HaltChild
    PROVE  TypeOK'
<1> USE Numbers
<1>1. PICK p \in Pids, q \in Pids : p = curr_pid[active_term] /\ q = parent_pid[p]
    BY DEF HaltChild, TypeOK
<1>2. /\ pid' = Freed(p)
      /\ curr_pid' = [curr_pid EXCEPT ![active_term] = q]
      /\ term_proc' = [term_proc EXCEPT ![active_term] = q]
      /\ prev_pid' = [prev_pid EXCEPT ![active_term] = parent_pid[q]]
      /\ page' = q /\ esp0' = q
      /\ UNCHANGED <<owner, parent_pid, image, active_term, schedule, slot>>
      /\ ReturnThrough(p)
    BY <1>1 DEF HaltChild
<1>3. CASE ReturnToUser /\ UNCHANGED cpu
    BY <1>1, <1>2, <1>3 DEF TypeOK, Freed, ReturnThrough, ReturnToUser, Goto, NoFrame, Labels, Callers
<1>4. CASE cpu' = None /\ UNCHANGED <<pc, caller, stack>>
    BY <1>1, <1>2, <1>4 DEF TypeOK, Freed, ReturnThrough, NoFrame
<1>5. QED BY <1>2, <1>3, <1>4 DEF ReturnThrough

\* So do Ctrl-C, an exception, and every step.
LEMMA CtrlCType == TypeOK /\ CtrlC => TypeOK'
<1> SUFFICES ASSUME TypeOK, CtrlC PROVE TypeOK'
    OBVIOUS
<1>1. cpu # None
    BY DEF CtrlC
<1>2. CASE HaltBase /\ UNCHANGED exception_status
  <2>1. exception_status' \in 0 .. 1
      BY <1>2 DEF TypeOK
  <2>2. QED BY <1>1, <1>2, <2>1, HaltBaseType
<1>3. CASE HaltChild
    BY <1>1, <1>3, HaltChildType
<1>4. CASE HaltNobody
    BY <1>4, Numbers DEF HaltNobody, TypeOK, tables, terms, pcbs, frames, thread
<1>5. QED BY <1>2, <1>3, <1>4 DEF CtrlC

\* An exception keeps the types.
LEMMA FaultType == TypeOK /\ Fault => TypeOK'
<1> SUFFICES ASSUME TypeOK, Fault PROVE TypeOK'
    OBVIOUS
<1>1. cpu # None
    BY DEF Fault, At
<1>2. CASE HaltBase /\ exception_status' = 1
    BY <1>1, <1>2, HaltBaseType
<1>3. CASE HaltChild
    BY <1>1, <1>3, HaltChildType
<1>4. QED BY <1>2, <1>3 DEF Fault

\* Every step keeps the types.
LEMMA NextType == TypeOK /\ [Next]_vars => TypeOK'
<1> SUFFICES ASSUME TypeOK, [Next]_vars PROVE TypeOK'
    OBVIOUS
<1> USE Numbers
<1>1. CASE SysExecute
    BY <1>1 DEF SysExecute, TypeOK, At, Goto, Labels, ExecLabels, tables, terms, pcbs, frames, sched
<1>2. CASE SysHalt
    BY <1>2 DEF SysHalt, TypeOK, At, Goto, Labels, HaltLabels, tables, terms, pcbs, frames, sched
<1>3. CASE UNCHANGED vars
    BY <1>3 DEF vars, TypeOK, tables, terms, pcbs, frames, sched, thread
<1>4. QED BY <1>1, <1>2, <1>3, KernelType, TickType, CtrlCType, FaultType DEF Next

\* Type correctness: no index of the kernel's tables ever leaves its range, a
\* thread in the kernel has a kernel stack, and only contexts of terminals that
\* have been started are ever saved or loaded.
THEOREM Typed == Spec => []TypeOK
BY InitType, NextType, PTL DEF Spec

-----------------------------------------------------------------------------
\* Users wait for the shells, and neither the PIT nor Ctrl-C interrupts execute
\* and halt at one of the points where the code has a window (SafeTick, SafeKey).  The
\* code does not exclude these points: the theorems below say what it guarantees as
\* long as no interrupt lands there.
SafePoints == TickPoints \subseteq SafeTick /\ KeyPoints \subseteq SafeKey /\ ~EarlyTyping

-----------------------------------------------------------------------------
(***************************************************************************)
(* What is true of terminal t wherever its thread stands.                  *)
(***************************************************************************)
Scan  == {"ex_check", "ex_scan", "ex_claim"}
Fill  == {"ex_enter", "ex_pcb"}
Build == {"ex_map", "ex_load", "ex_save", "ex_tss", "ex_run"}
Leave == {"ha_map", "ha_tss", "ha_ret"}

\* The scheduler knows terminal t.
Started(t) == term_proc[t] # None

\* Thread t has claimed slot p and its PCB is not filled in.
Filling(t, p) == pc[t] \in Fill /\ slot[t] = p

\* Process p of terminal t exists, its PCB and its program are in place.
Settled(t, p) == /\ p \in Pids /\ pid[p] = 1 /\ owner[p] = t
                 /\ image[p] = p /\ ~Filling(t, p)

\* Thread t starts its terminal's base shell: at boot, in a tick, or again when
\* the shell has halted.  Only the last search for a slot happens here (the
\* first of the boot is Booting's), and it cannot be interrupted by the PIT.
BaseThread(t) ==
    /\ pc[t] \in ExecLabels
    /\ curr_pid[t] = t /\ term_proc[t] = t /\ owner[t] = t /\ image[t] = t
    /\ caller[t] = "boot" => t = 0
    /\ caller[t] \in {"boot", "tick"} => pc[t] = "ex_iret"
    /\ caller[t] # "tick" => stack[t] = t
    /\ caller[t] = "tick" => cpu = t
    /\ pid[t] = IF pc[t] \in Scan THEN 0 ELSE 1
    /\ pc[t] \in Scan => cpu = t /\ AllStarted
    /\ pc[t] = "ex_scan" => slot[t] <= t
    /\ pc[t] = "ex_pcb" => prev_pid[t] = t
    /\ pc[t] \notin {"ex_check", "ex_scan"} => slot[t] = t

\* Thread t is in a user program or in a system call of it.  Process c calls;
\* execute has claimed slot s until c becomes s, halt has freed slot s.
CallThread(t) ==
    LET c == curr_pid[t]
        s == slot[t]
        q == term_proc[t]
    IN
    /\ pc[t] # "off"
    /\ pc[t] \notin {"user", "ex_iret"} => AllStarted
    /\ pc[t] \in Scan \cup {"user", "ex_enter", "ex_iret", "ha_test", "ha_base", "ha_free"}
         => Settled(t, c) /\ q = c
    /\ pc[t] \in Scan \cup {"ex_enter", "ha_test", "ha_base", "ha_free", "ha_parent"}
         => stack[t] = c
    /\ pc[t] = "ex_claim" => cpu = t /\ pid[s] = 0
    /\ pc[t] \in Fill \cup Build => pid[s] = 1 /\ owner[s] = t /\ s \notin Terms
    /\ pc[t] \in Build \cup {"ex_pcb"} => c = s /\ Settled(t, q) /\ stack[t] = q
    /\ pc[t] = "ex_pcb" => prev_pid[t] = q
    /\ pc[t] \in Build => parent_pid[s] = q
    /\ pc[t] \in {"ex_save", "ex_tss", "ex_run"} => image[s] = s
    /\ pc[t] = "ex_iret" => c \notin Terms /\ stack[t] = parent_pid[c]
    /\ pc[t] = "ha_base" => s = t /\ c = t
    /\ pc[t] = "ha_free" => s = c /\ c # t
    /\ pc[t] \in Leave \cup {"ha_parent"}
         => /\ s \notin Terms /\ pid[s] = 0 /\ owner[s] = t
            /\ saved[s] \in Frames /\ saved[s].caller = "user"
    /\ pc[t] = "ha_parent" => s = c /\ q = c /\ Settled(t, parent_pid[c])
    /\ pc[t] \in Leave => Settled(t, c) /\ q = c /\ stack[t] = s

Thread(t) == IF caller[t] = "user" THEN CallThread(t) ELSE BaseThread(t)

\* A thread that does not run was left where a tick is safe, its context is in
\* its process's PCB and its registers are on that process's kernel stack.
Suspended(t) == /\ pc[t] = "user" \/ <<caller[t], pc[t]>> \in SafeTick
                /\ pc[t] = "user" => stack[t] = curr_pid[t]
                /\ schedule[term_proc[t]] = t

\* The frame and the kernel stack that are in force while thread t runs.
Registers(t) ==
    /\ pc[t] \in Scan \cup Fill \cup {"user", "ex_map", "ex_iret", "ha_test", "ha_base",
                                      "ha_free", "ha_parent"}
         => page = term_proc[t] /\ esp0 = term_proc[t]
    /\ pc[t] \in {"ex_load", "ex_save", "ex_tss", "ex_run", "ha_tss", "ha_ret"}
         => page = curr_pid[t]
    /\ pc[t] \in {"ex_run", "ha_ret"} => esp0 = curr_pid[t]

\* Terminal t's processes other than its base shell, and what makes them a
\* chain.  That the last one has no child is what makes it inductive.
IsChild(t, p) == p \in Pids \ Terms /\ pid[p] = 1 /\ owner[p] = t /\ ~Filling(t, p)

InChain(t, p) ==
    LET q == parent_pid[p] IN
    /\ Settled(t, q) /\ q # Tip(t)
    /\ p = Tip(t) \/ \E r \in Pids : IsChild(t, r) /\ parent_pid[r] = p
    /\ \A r \in Pids : IsChild(t, r) /\ r # p => parent_pid[r] # q
    /\ ~(curr_pid[t] = p /\ pc[t] \in {"ex_map", "ex_load", "ex_save"})
         => saved[p] = [stack |-> q, caller |-> "user"]

Chain(t) == \A p \in Pids : IsChild(t, p) => InChain(t, p)

\* Slot t is terminal t's, and only a restart of its base shell finds it free.
BaseSlot(t) == /\ owner[t] = t /\ image[t] = t
               /\ pid[t] = 0 => cpu = t /\ caller[t] = "halt" /\ pc[t] \in Scan

-----------------------------------------------------------------------------
(***************************************************************************)
(* The first shells: execute("shell") of entry(), then one tick for each   *)
(* further terminal.                                                       *)
(***************************************************************************)
Booting == /\ active_term = 0 /\ caller[0] = "boot" /\ pc[0] \in ExecLabels \ {"ex_iret"}
           /\ slot[0] = 0 /\ stack[0] = 0
           /\ pid[0] = IF pc[0] \in Scan THEN 0 ELSE 1
           /\ curr_pid[0] = IF pc[0] \in Scan \cup {"ex_enter"} THEN None ELSE 0
           /\ pc[0] \notin Scan => owner[0] = 0
           /\ pc[0] \in {"ex_load", "ex_save", "ex_tss", "ex_run"} => page = 0
           /\ pc[0] \in {"ex_save", "ex_tss", "ex_run"} => image[0] = 0
           /\ pc[0] = "ex_run" => esp0 = 0

Starting ==
    /\ \A t \in Terms : t > active_term =>
         ~Started(t) /\ pc[t] = "off" /\ caller[t] = "user" /\ curr_pid[t] = None
                     /\ stack[t] = None
    /\ \A p \in Pids : p > active_term => pid[p] = 0
    /\ \A t \in Terms : t <= active_term =>
         IF Started(t) THEN /\ term_proc[t] = t /\ curr_pid[t] = t
                            /\ pid[t] = 1 /\ owner[t] = t
                            /\ pc[t] \in {"user", "ex_iret"}
                       ELSE t = 0 /\ active_term = 0 /\ Booting

-----------------------------------------------------------------------------
Owned   == \A p \in Pids : pid[p] = 1 => owner[p] \in Terms
Good(t) == Thread(t) /\ Chain(t) /\ (t # cpu => Suspended(t))

\* The inductive invariant.
IInv == /\ ScheduledRuns
        /\ Owned
        /\ \A t \in Terms : Started(t) => Good(t)
        /\ Started(cpu) => Registers(cpu)
        /\ IF AllStarted THEN \A t \in Terms : BaseSlot(t) ELSE Starting

-----------------------------------------------------------------------------
(***************************************************************************)
(* What a step of the running thread leaves alone.                         *)
(***************************************************************************)
OthersKept ==
    /\ cpu \in Terms /\ cpu' = cpu /\ active_term' = active_term
    /\ schedule' = schedule
    /\ \A u \in Terms : u # cpu =>
         /\ pc'[u] = pc[u] /\ caller'[u] = caller[u] /\ slot'[u] = slot[u]
         /\ stack'[u] = stack[u] /\ curr_pid'[u] = curr_pid[u]
         /\ prev_pid'[u] = prev_pid[u] /\ term_proc'[u] = term_proc[u]
    /\ term_proc'[cpu] # None
    /\ \A p \in Pids : pid[p] = 1 /\ owner[p] # cpu =>
         /\ pid'[p] = 1 /\ owner'[p] = owner[p] /\ image'[p] = image[p]
         /\ parent_pid'[p] = parent_pid[p] /\ saved'[p] = saved[p]
    /\ \A p \in Pids : pid'[p] = 1 /\ owner'[p] # cpu => pid[p] = 1 /\ owner[p] # cpu

\* What it must establish for its own terminal.
Mine == Thread(cpu) /\ Chain(cpu) /\ Registers(cpu) /\ BaseSlot(cpu)

\* Another terminal's thread stays good.
LEMMA ThreadKept ==
    ASSUME TypeOK, AllStarted, AllStarted', OthersKept,
           NEW u \in Terms, u # cpu, Thread(u), Suspended(u)
    PROVE  Thread(u)' /\ Suspended(u)'
<1> USE Numbers
<1>1. Suspended(u)'
    BY DEF Suspended, OthersKept
<1>2. CASE caller[u] = "user"
  <2>1. CallThread(u) /\ caller'[u] = "user"
      BY <1>2 DEF Thread, OthersKept
  <2>2. pc[u] \in {"user", "ex_check", "ex_scan", "ex_enter", "ex_pcb", "ex_map", "ex_iret",
                   "ha_test", "ha_base", "ha_free"}
      BY <1>2 DEF Suspended, SafeTick
  <2>3. \A p : Settled(u, p) => Settled(u, p)'
      BY DEF Settled, OthersKept, Filling
  <2>4. CallThread(u)'
      BY <2>1, <2>2, <2>3 DEF CallThread, OthersKept, TypeOK, Scan, Fill, Build, Leave, Settled
  <2>5. QED BY <1>1, <2>1, <2>4 DEF Thread
<1>3. CASE caller[u] # "user"
  <2>1. BaseThread(u) /\ caller'[u] = caller[u]
      BY <1>3 DEF Thread, OthersKept
  <2>2. pc[u] \notin Scan /\ caller[u] # "tick"
      BY <2>1 DEF BaseThread
  <2>3. pid[u] = 1 /\ owner[u] = u
      BY <2>1, <2>2 DEF BaseThread
  <2>4. BaseThread(u)'
      BY <2>1, <2>2, <2>3 DEF BaseThread, OthersKept
  <2>5. QED BY <1>1, <1>3, <2>1, <2>4 DEF Thread
<1>4. QED BY <1>1, <1>2, <1>3

\* Another terminal's chain stays intact.
LEMMA ChainKept ==
    ASSUME TypeOK, OthersKept, NEW u \in Terms, u # cpu, Suspended(u), Chain(u)
    PROVE  Chain(u)'
<1> SUFFICES ASSUME NEW p \in Pids, IsChild(u, p)' PROVE InChain(u, p)'
    BY DEF Chain
<1> USE DEF OthersKept
<1>1. \A r \in Pids : IsChild(u, r)' <=> IsChild(u, r)
    BY DEF IsChild, Filling
<1>2. InChain(u, p)
    BY <1>1 DEF Chain
<1>3. pid[p] = 1 /\ owner[p] = u /\ parent_pid'[p] = parent_pid[p] /\ saved'[p] = saved[p]
    BY <1>1 DEF IsChild
<1>4. Tip(u)' = Tip(u)
  <2>1. pc[u] # "ha_parent" /\ pc'[u] = pc[u]
      BY DEF Suspended, SafeTick, ExecLabels
  <2>2. prev_pid'[u] = prev_pid[u] /\ curr_pid'[u] = curr_pid[u]
      OBVIOUS
  <2>3. QED BY <2>1, <2>2 DEF Tip
<1>5. Settled(u, parent_pid[p])'
    BY <1>2, <1>3 DEF InChain, Settled, Filling
<1>6. p = Tip(u)' \/ \E r \in Pids : IsChild(u, r)' /\ parent_pid'[r] = p
    BY <1>1, <1>2, <1>4 DEF InChain, IsChild
<1>7. \A r \in Pids : IsChild(u, r)' /\ r # p => parent_pid'[r] # parent_pid[p]
    BY <1>1, <1>2 DEF InChain, IsChild
<1>8. QED BY <1>2, <1>3, <1>4, <1>5, <1>6, <1>7 DEF InChain

\* So a step of the running thread that keeps to its own terminal, and keeps it
\* good, keeps the invariant.
LEMMA Compose ==
    ASSUME TypeOK, IInv, AllStarted, OthersKept, Mine'
    PROVE  IInv'
<1> USE Numbers
<1>1. AllStarted'
    BY DEF AllStarted, OthersKept
<1>2. \A u \in Terms : u # cpu => Good(u)'
  <2> SUFFICES ASSUME NEW u \in Terms, u # cpu PROVE Good(u)'
      OBVIOUS
  <2>1. Good(u)
      BY DEF IInv, AllStarted, Started
  <2>2. QED BY <1>1, <2>1, ThreadKept, ChainKept DEF Good
<1>3. Good(cpu)'
    BY DEF Mine, Good, OthersKept
<1>4. \A u \in Terms : u # cpu => BaseSlot(u)'
    BY DEF IInv, BaseSlot, OthersKept, TypeOK
<1>5. Owned'
    BY DEF IInv, Owned, OthersKept
<1>6. ScheduledRuns'
    BY DEF IInv, ScheduledRuns, OthersKept
<1>7. Registers(cpu)' /\ BaseSlot(cpu)'
    BY DEF Mine
<1>8. QED BY <1>1, <1>2, <1>3, <1>4, <1>5, <1>6, <1>7 DEF IInv, OthersKept

-----------------------------------------------------------------------------
(***************************************************************************)
(* Where the running thread stands, once every terminal has its shell.     *)
(***************************************************************************)
LEMMA Now ==
    ASSUME TypeOK, IInv, AllStarted
    PROVE  /\ cpu \in Terms /\ cpu \in Pids /\ active_term = cpu /\ Mine
           /\ \A u \in Terms : owner[u] = u
           /\ \A u \in Terms : u # cpu => pid[u] = 1
           /\ \A u \in Terms : u # cpu => Thread(u) /\ Chain(u) /\ Suspended(u)
<1>1. cpu = active_term /\ cpu \in Terms /\ cpu \in Pids
    BY Numbers DEF IInv, ScheduledRuns, TypeOK
<1>2. Mine
    BY <1>1 DEF IInv, Mine, Good, AllStarted, Started
<1>3. \A u \in Terms : owner[u] = u /\ (u # cpu => pid[u] = 1)
    BY <1>1, Numbers DEF IInv, BaseSlot, TypeOK
<1>4. QED BY <1>1, <1>2, <1>3 DEF IInv, Good, AllStarted, Started

\* A step that adds and removes no child, and disturbs none but the last process.
LEMMA SameChain ==
    ASSUME cpu' = cpu, Chain(cpu), Tip(cpu)' = Tip(cpu),
           \A p \in Pids : IsChild(cpu, p)' <=> IsChild(cpu, p),
           \A p \in Pids : IsChild(cpu, p) =>
                             parent_pid'[p] = parent_pid[p] /\ saved'[p] = saved[p],
           \A p \in Pids : Settled(cpu, p) /\ p # Tip(cpu) => Settled(cpu, p)',
           pc[cpu] \in {"ex_map", "ex_load", "ex_save"} /\ curr_pid[cpu] \notin Terms =>
             /\ curr_pid'[cpu] = curr_pid[cpu]
             /\ pc'[cpu] \in {"ex_map", "ex_load", "ex_save"}
    PROVE  Chain(cpu)'
<1> SUFFICES ASSUME NEW p \in Pids, IsChild(cpu, p)' PROVE InChain(cpu, p)'
    BY DEF Chain
<1>1. IsChild(cpu, p) /\ InChain(cpu, p)
    BY DEF Chain
<1>2. parent_pid'[p] = parent_pid[p] /\ saved'[p] = saved[p] /\ Settled(cpu, parent_pid[p])'
    BY <1>1 DEF InChain, Settled
<1>3. p = Tip(cpu)' \/ \E r \in Pids : IsChild(cpu, r)' /\ parent_pid'[r] = p
    BY <1>1 DEF InChain
<1>4. \A r \in Pids : IsChild(cpu, r)' /\ r # p => parent_pid'[r] # parent_pid[p]
    BY <1>1 DEF InChain
<1>5. QED BY <1>1, <1>2, <1>3, <1>4 DEF InChain, IsChild

\* A step that touches no table but moves the running thread on.
QuietStep == /\ UNCHANGED <<tables, terms, pcbs, image, term_proc, sched>>
             /\ \A u \in Terms : u # cpu =>
                  /\ pc'[u] = pc[u] /\ caller'[u] = caller[u]
                  /\ slot'[u] = slot[u] /\ stack'[u] = stack[u]

\* And it keeps the invariant, if the thread may stand where it comes to.
LEMMA Quiet ==
    ASSUME TypeOK, IInv, AllStarted, QuietStep, Thread(cpu)', Registers(cpu)',
           pc[cpu] \notin Fill, pc'[cpu] \notin Fill,
           pc[cpu] # "ha_parent", pc'[cpu] # "ha_parent",
           pc[cpu] \in {"ex_map", "ex_load", "ex_save"}
             => pc'[cpu] \in {"ex_map", "ex_load", "ex_save"},
           pc[cpu] \in Scan => caller'[cpu] = caller[cpu]
    PROVE  IInv'
<1> USE Now
<1>1. OthersKept
    BY DEF OthersKept, QuietStep, tables, terms, pcbs, sched, AllStarted
<1>2. Tip(cpu)' = Tip(cpu)
  <2>1. pc[cpu] # "ex_pcb" /\ pc'[cpu] # "ex_pcb" /\ curr_pid' = curr_pid /\ cpu' = cpu
      BY DEF Fill, QuietStep, terms, sched
  <2>2. QED BY <2>1 DEF Tip
<1>3. Chain(cpu)'
    BY <1>2, SameChain DEF QuietStep, Mine, IsChild, Settled, Filling, tables, terms, pcbs, sched
<1>4. BaseSlot(cpu)'
    BY DEF BaseSlot, QuietStep, Mine, Thread, BaseThread, tables, pcbs, sched
<1>5. QED BY <1>1, <1>3, <1>4, Compose DEF Mine, OthersKept

\* And what was settled stays so.
LEMMA QuietSettled ==
    ASSUME AllStarted, QuietStep, pc'[cpu] \notin Fill
    PROVE  /\ AllStarted' /\ cpu' = cpu
           /\ \A p : Settled(cpu, p) => Settled(cpu, p)'
BY DEF AllStarted, QuietStep, Settled, Filling, tables, terms, pcbs, sched

-----------------------------------------------------------------------------
(***************************************************************************)
(* execute.                                                                *)
(***************************************************************************)
LEMMA SysExecuteSafe == TypeOK /\ IInv /\ AllStarted /\ SysExecute => IInv'
<1> SUFFICES ASSUME TypeOK, IInv, AllStarted, SysExecute PROVE IInv'
    OBVIOUS
<1> USE Now DEF Scan, Fill, Build, Leave
<1>1. QuietStep /\ pc[cpu] = "user" /\ pc'[cpu] = "ex_check"
    BY DEF SysExecute, QuietStep, At, Goto, TypeOK, pcbs, frames
<1>2. CallThread(cpu) /\ caller[cpu] = "user"
    BY <1>1 DEF Mine, Thread, BaseThread, ExecLabels
<1>3. stack'[cpu] = esp0 /\ caller' = caller /\ slot' = slot /\ page' = page /\ esp0' = esp0
    BY DEF SysExecute, TypeOK, frames
<1>4. AllStarted' /\ cpu' = cpu /\ \A p : Settled(cpu, p) => Settled(cpu, p)'
    BY <1>1, QuietSettled
<1>5. Thread(cpu)'
    BY <1>1, <1>2, <1>3, <1>4 DEF Thread, CallThread, Mine, Registers, QuietStep, terms
<1>6. Registers(cpu)'
    BY <1>1, <1>3, <1>4 DEF Mine, Registers, QuietStep
<1>7. QED BY <1>1, <1>3, <1>5, <1>6, Quiet

\* execute of what is no program (syscall.c:53-65).
LEMMA ExBadCommandSafe == TypeOK /\ IInv /\ AllStarted /\ ExBadCommand => IInv'
<1> SUFFICES ASSUME TypeOK, IInv, AllStarted, ExBadCommand PROVE IInv'
    OBVIOUS
<1> USE Now DEF Scan, Fill, Build, Leave
<1>1. QuietStep /\ pc[cpu] = "ex_check" /\ pc'[cpu] = "user"
    BY DEF ExBadCommand, QuietStep, At, Goto, ReturnToUser, TypeOK, pcbs, frames
<1>2. CallThread(cpu) /\ caller[cpu] = "user" /\ caller'[cpu] = "user"
    BY DEF Mine, Thread, ExBadCommand, ReturnToUser, TypeOK
<1>3. slot' = slot /\ page' = page /\ esp0' = esp0
    BY DEF ExBadCommand, frames
<1>4. AllStarted' /\ cpu' = cpu /\ \A p : Settled(cpu, p) => Settled(cpu, p)'
    BY <1>1, QuietSettled
<1>5. Thread(cpu)'
    BY <1>1, <1>2, <1>3, <1>4 DEF Thread, CallThread, QuietStep, terms
<1>6. Registers(cpu)'
    BY <1>1, <1>3, <1>4 DEF Mine, Registers, QuietStep
<1>7. QED BY <1>1, <1>2, <1>5, <1>6, Quiet

\* execute of a program (syscall.c:53-65).
LEMMA ExCheckSafe == TypeOK /\ IInv /\ AllStarted /\ ExCheck => IInv'
<1> SUFFICES ASSUME TypeOK, IInv, AllStarted, ExCheck PROVE IInv'
    OBVIOUS
<1> USE Now DEF Scan, Fill, Build, Leave
<1>1. QuietStep /\ pc[cpu] = "ex_check" /\ pc'[cpu] = "ex_scan"
    BY DEF ExCheck, QuietStep, At, Goto, TypeOK, pcbs, frames
<1>2. slot'[cpu] = 0 /\ caller' = caller /\ stack' = stack /\ page' = page /\ esp0' = esp0
    BY DEF ExCheck, TypeOK, frames
<1>3. AllStarted' /\ cpu' = cpu /\ \A p : Settled(cpu, p) => Settled(cpu, p)'
    BY <1>1, QuietSettled
<1>4. Thread(cpu)'
  <2>1. CASE caller[cpu] = "user"
      BY <1>1, <1>2, <1>3, <2>1 DEF Mine, Thread, CallThread, QuietStep, terms
  <2>2. CASE caller[cpu] # "user"
      BY <1>1, <1>2, <1>3, <2>2, 0 <= cpu DEF Mine, Thread, BaseThread, QuietStep, tables,
                                              terms, pcbs, ExecLabels, Terms
  <2>3. QED BY <2>1, <2>2
<1>5. Registers(cpu)'
    BY <1>1, <1>2, <1>3 DEF Mine, Registers, QuietStep
<1>6. QED BY <1>1, <1>2, <1>4, <1>5, Quiet

\* The search of a base shell's restart passes the lower slots, all base shells'.
LEMMA ExScanSafe == TypeOK /\ IInv /\ AllStarted /\ ExScan => IInv'
<1> SUFFICES ASSUME TypeOK, IInv, AllStarted, ExScan PROVE IInv'
    OBVIOUS
<1> USE Now DEF Scan, Fill, Build, Leave
<1>1. /\ QuietStep /\ pc[cpu] = "ex_scan" /\ caller' = caller /\ stack' = stack
      /\ page' = page /\ esp0' = esp0
      /\ \/ pc'[cpu] = "ex_claim" /\ pid[slot[cpu]] = 0 /\ slot' = slot
         \/ pc'[cpu] = "ex_scan" /\ pid[slot[cpu]] # 0 /\ slot'[cpu] = slot[cpu] + 1
    BY DEF ExScan, IsFree, NextSlot, QuietStep, At, Goto, TypeOK, pcbs, frames
<1>2. AllStarted' /\ cpu' = cpu /\ \A p : Settled(cpu, p) => Settled(cpu, p)'
    BY <1>1, QuietSettled
<1>3. Thread(cpu)'
  <2>1. CASE caller[cpu] = "user"
      BY <1>1, <1>2, <2>1 DEF Mine, Thread, CallThread, QuietStep, tables, terms
  <2>2. CASE caller[cpu] # "user"
    <3>1. BaseThread(cpu) /\ pid[cpu] = 0 /\ slot[cpu] <= cpu /\ slot[cpu] \in Pids
        BY <1>1, <2>2 DEF Mine, Thread, BaseThread, TypeOK
    <3>2. slot[cpu] = cpu \/ (slot[cpu] < cpu /\ pid[slot[cpu]] = 1)
      <4>1. slot[cpu] < cpu => slot[cpu] \in Terms
          BY <3>1, TermCountAssumption DEF Terms, Pids
      <4>2. QED BY <3>1, <4>1, PidMaxAssumption DEF Pids
    <3>3. slot'[cpu] <= cpu /\ (pc'[cpu] = "ex_claim" => slot'[cpu] = cpu)
        BY <1>1, <3>1, <3>2 DEF Terms, Pids
    <3>4. BaseThread(cpu)'
        BY <1>1, <1>2, <3>1, <3>3 DEF BaseThread, QuietStep, tables, terms, pcbs, ExecLabels
    <3>5. QED BY <1>1, <1>2, <2>2, <3>4 DEF Thread
  <2>3. QED BY <2>1, <2>2
<1>4. Registers(cpu)'
    BY <1>1, <1>2 DEF Mine, Registers, QuietStep
<1>5. QED BY <1>1, <1>3, <1>4, Quiet

\* So it never finds the table full, only a user program's execute may.
LEMMA ExFullSafe == TypeOK /\ IInv /\ AllStarted /\ ExFull => IInv'
<1> SUFFICES ASSUME TypeOK, IInv, AllStarted, ExFull PROVE IInv'
    OBVIOUS
<1> USE Now DEF Scan, Fill, Build, Leave
<1>1. pc[cpu] = "ex_scan" /\ pid[slot[cpu]] # 0 /\ slot[cpu] + 1 = PID_MAX
    BY DEF ExFull, IsFree, At
<1>2. caller[cpu] = "user"
  <2>1. SUFFICES ASSUME caller[cpu] # "user" PROVE FALSE
      OBVIOUS
  <2>2. pid[cpu] = 0 /\ slot[cpu] <= cpu /\ slot[cpu] \in Pids
      BY <1>1, <2>1 DEF Mine, Thread, BaseThread, TypeOK
  <2>3. slot[cpu] = cpu
      BY <1>1, <2>2, TermCountAssumption, PidMaxAssumption DEF Terms, Pids
  <2>4. QED BY <1>1, <2>2, <2>3
<1>3. /\ QuietStep /\ pc'[cpu] = "user" /\ caller'[cpu] = "user" /\ slot' = slot
      /\ page' = page /\ esp0' = esp0
    BY <1>2 DEF ExFull, QuietStep, Goto, ReturnToUser, TypeOK, pcbs, frames
<1>4. AllStarted' /\ cpu' = cpu /\ \A p : Settled(cpu, p) => Settled(cpu, p)'
    BY <1>3, QuietSettled
<1>5. Thread(cpu)'
    BY <1>1, <1>2, <1>3, <1>4 DEF Mine, Thread, CallThread, QuietStep, terms
<1>6. Registers(cpu)'
    BY <1>1, <1>3, <1>4 DEF Mine, Registers, QuietStep
<1>7. QED BY <1>1, <1>2, <1>3, <1>5, <1>6, Quiet

\* A slot is claimed: it is not of the running terminal's chain yet.
LEMMA ExClaimSafe == TypeOK /\ IInv /\ AllStarted /\ ExClaim => IInv'
<1> SUFFICES ASSUME TypeOK, IInv, AllStarted, ExClaim PROVE IInv'
    OBVIOUS
<1> USE Now DEF Scan, Fill, Build, Leave
<1> DEFINE s == slot[cpu]
<1>1. /\ pc[cpu] = "ex_claim" /\ pc' = [pc EXCEPT ![cpu] = "ex_enter"]
      /\ pid' = [pid EXCEPT ![s] = 1] /\ owner' = [owner EXCEPT ![s] = cpu]
      /\ UNCHANGED <<terms, pcbs, frames, esp0, term_proc, sched, thread>>
    BY DEF ExClaim, At, Goto
<1>2. s \in Pids /\ pid[s] = 0 /\ (caller[cpu] # "user" => s = cpu)
    BY <1>1 DEF Mine, Thread, CallThread, BaseThread, TypeOK
<1>3. caller[cpu] = "user" => s \notin Terms
    BY <1>2 DEF Mine, BaseSlot
<1> HIDE DEF s
<1> USE <1>1, <1>2 DEF terms, pcbs, frames, sched, thread
<1>4. OthersKept /\ AllStarted'
    BY DEF OthersKept, TypeOK, AllStarted
<1>5. \A p \in Pids : Settled(cpu, p) => Settled(cpu, p)'
    BY DEF Settled, Filling, TypeOK, s
<1>6. Thread(cpu)'
  <2>1. CASE caller[cpu] = "user"
      BY <1>3, <1>4, <1>5, <2>1 DEF Mine, Thread, CallThread, TypeOK, s, Settled
  <2>2. CASE caller[cpu] # "user"
      BY <1>4, <2>2 DEF Mine, Thread, BaseThread, TypeOK, s, ExecLabels
  <2>3. QED BY <2>1, <2>2
<1>7. Chain(cpu)'
  <2>1. \A p \in Pids : IsChild(cpu, p)' <=> IsChild(cpu, p)
      BY DEF IsChild, Filling, TypeOK, s
  <2>2. Tip(cpu)' = Tip(cpu)
      BY DEF Tip, TypeOK
  <2>3. QED BY <1>4, <1>5, <2>1, <2>2, SameChain DEF Mine, OthersKept
<1>8. Registers(cpu)'
    BY DEF Mine, Registers, TypeOK
<1>9. BaseSlot(cpu)'
    BY <1>3 DEF Mine, BaseSlot, TypeOK
<1>10. QED BY <1>4, <1>6, <1>7, <1>8, <1>9, Compose DEF Mine, OthersKept

\* The new process is current, but its parent ends the chain until it has a PCB.
LEMMA ExEnterSafe == TypeOK /\ IInv /\ AllStarted /\ ExEnter => IInv'
<1> SUFFICES ASSUME TypeOK, IInv, AllStarted, ExEnter PROVE IInv'
    OBVIOUS
<1> USE Now DEF Scan, Fill, Build, Leave
<1>1. /\ pc[cpu] = "ex_enter" /\ pc' = [pc EXCEPT ![cpu] = "ex_pcb"]
      /\ prev_pid' = [prev_pid EXCEPT ![cpu] = curr_pid[cpu]]
      /\ curr_pid' = [curr_pid EXCEPT ![cpu] = slot[cpu]]
      /\ UNCHANGED <<tables, pcbs, frames, esp0, term_proc, sched, thread>>
    BY DEF ExEnter, At, Goto
<1> USE <1>1 DEF tables, pcbs, frames, sched, thread
<1>2. OthersKept /\ AllStarted'
    BY DEF OthersKept, TypeOK, AllStarted
<1>3. \A p \in Pids : Settled(cpu, p) => Settled(cpu, p)'
    BY DEF Settled, Filling, TypeOK
<1>4. Thread(cpu)'
  <2>1. CASE caller[cpu] = "user"
      BY <1>2, <1>3, <2>1 DEF Mine, Thread, CallThread, TypeOK, Settled
  <2>2. CASE caller[cpu] # "user"
      BY <1>2, <2>2 DEF Mine, Thread, BaseThread, TypeOK, ExecLabels
  <2>3. QED BY <2>1, <2>2
<1>5. Chain(cpu)'
  <2>1. \A p \in Pids : IsChild(cpu, p)' <=> IsChild(cpu, p)
      BY DEF IsChild, Filling, TypeOK
  <2>2. Tip(cpu)' = Tip(cpu)
      BY DEF Tip, TypeOK
  <2>3. QED BY <1>2, <1>3, <2>1, <2>2, SameChain DEF Mine, OthersKept
<1>6. Registers(cpu)'
    BY DEF Mine, Registers, TypeOK
<1>7. BaseSlot(cpu)'
    BY DEF Mine, BaseSlot, TypeOK
<1>8. QED BY <1>2, <1>4, <1>5, <1>6, <1>7, Compose DEF Mine, OthersKept

\* The PCB links the new process to its parent: it ends the chain now.
LEMMA ExPcbSafe == TypeOK /\ IInv /\ AllStarted /\ ExPcb => IInv'
<1> SUFFICES ASSUME TypeOK, IInv, AllStarted, ExPcb PROVE IInv'
    OBVIOUS
<1> USE Now DEF Scan, Fill, Build, Leave
<1> DEFINE s == curr_pid[cpu]
           q == prev_pid[cpu]
<1>1. /\ pc[cpu] = "ex_pcb" /\ pc' = [pc EXCEPT ![cpu] = "ex_map"]
      /\ slot' = [slot EXCEPT ![cpu] = s]
      /\ parent_pid' = [parent_pid EXCEPT ![s] = q]
      /\ UNCHANGED <<tables, terms, saved, frames, esp0, term_proc, sched, caller, stack>>
    BY DEF ExPcb, At, Goto, Creator
<1> USE <1>1 DEF tables, terms, frames, sched
<1>2. s \in Pids /\ slot[cpu] = s /\ owner[s] = cpu /\ pid[s] = 1 /\ q = term_proc[cpu]
    BY DEF Mine, Thread, CallThread, BaseThread, TypeOK
<1>3. q = Tip(cpu) /\ Tip(cpu)' = s
    BY <1>2 DEF Tip, TypeOK
<1>4. OthersKept /\ AllStarted'
    BY <1>2 DEF OthersKept, TypeOK, AllStarted
<1>5. \A p \in Pids : Settled(cpu, p) => Settled(cpu, p)' /\ p # s
    BY <1>2 DEF Settled, Filling, TypeOK
<1>6. Thread(cpu)'
  <2>1. CASE caller[cpu] = "user"
      BY <1>2, <1>4, <1>5, <2>1 DEF Mine, Thread, CallThread, TypeOK, Settled
  <2>2. CASE caller[cpu] # "user"
      BY <1>2, <1>4, <2>2 DEF Mine, Thread, BaseThread, TypeOK, ExecLabels
  <2>3. QED BY <2>1, <2>2
<1>7. Chain(cpu)'
  <2>1. \A p \in Pids : IsChild(cpu, p) => p # s /\ IsChild(cpu, p)' /\ parent_pid'[p] = parent_pid[p]
      BY <1>2 DEF IsChild, Filling, TypeOK
  <2>2. \A p \in Pids : IsChild(cpu, p)' => p = s \/ IsChild(cpu, p)
      BY <1>2 DEF IsChild, Filling, TypeOK
  <2>3. CASE caller[cpu] = "user"
    <3>1. IsChild(cpu, s)' /\ parent_pid'[s] = q /\ Settled(cpu, q)' /\ q # s
        BY <1>2, <1>5, <2>3 DEF Mine, Thread, CallThread, IsChild, Filling, TypeOK
    <3>2. SUFFICES ASSUME NEW p \in Pids, IsChild(cpu, p)' PROVE InChain(cpu, p)'
        BY <1>4 DEF Chain, OthersKept
    <3>3. CASE p = s
        BY <1>2, <1>3, <2>1, <2>2, <3>1, <3>3 DEF InChain, Chain, Mine, TypeOK, OthersKept
    <3>4. CASE p # s
      <4>1. IsChild(cpu, p) /\ InChain(cpu, p) /\ parent_pid'[p] = parent_pid[p]
          BY <2>1, <2>2, <3>2, <3>4 DEF Chain, Mine
      <4>2. Settled(cpu, parent_pid[p])' /\ parent_pid[p] # s /\ parent_pid[p] # q
          BY <1>3, <1>5, <4>1 DEF InChain, Settled
      <4>3. \E r \in Pids : IsChild(cpu, r)' /\ parent_pid'[r] = p
          BY <1>2, <1>3, <2>1, <3>1, <4>1 DEF InChain
      <4>4. \A r \in Pids : IsChild(cpu, r)' /\ r # p => parent_pid'[r] # parent_pid[p]
          BY <2>1, <2>2, <3>1, <4>1, <4>2 DEF InChain
      <4>5. saved[p] = [stack |-> parent_pid[p], caller |-> "user"]
          BY <4>1 DEF InChain
      <4>6. QED BY <1>3, <4>1, <4>2, <4>3, <4>4, <4>5 DEF InChain
    <3>5. QED BY <3>3, <3>4
  <2>4. CASE caller[cpu] # "user"
    <3>1. s = cpu /\ q = cpu /\ ~IsChild(cpu, s)'
        BY <1>2, <2>4 DEF Mine, Thread, BaseThread, IsChild
    <3>2. QED BY <1>3, <1>4, <1>5, <2>1, <2>2, <3>1, SameChain DEF Mine, OthersKept
  <2>5. QED BY <2>3, <2>4
<1>8. Registers(cpu)'
    BY <1>2 DEF Mine, Registers, TypeOK
<1>9. BaseSlot(cpu)'
    BY DEF Mine, BaseSlot, TypeOK
<1>10. QED BY <1>4, <1>6, <1>7, <1>8, <1>9, Compose DEF Mine, OthersKept

\* Not in any table yet: the new process's frame is mapped, and esp0 switched.
LEMMA ExMapSafe == TypeOK /\ IInv /\ AllStarted /\ ExMap => IInv'
<1> SUFFICES ASSUME TypeOK, IInv, AllStarted, ExMap PROVE IInv'
    OBVIOUS
<1> USE Now DEF Scan, Fill, Build, Leave
<1>1. /\ QuietStep /\ pc[cpu] = "ex_map" /\ pc'[cpu] = "ex_load" /\ page' = curr_pid[cpu]
      /\ UNCHANGED <<caller, slot, stack, esp0>>
    BY DEF ExMap, QuietStep, At, Goto, TypeOK, pcbs, frames, thread
<1>2. AllStarted' /\ cpu' = cpu /\ \A p : Settled(cpu, p) => Settled(cpu, p)'
    BY <1>1, QuietSettled
<1>3. Thread(cpu)'
  <2>1. CASE caller[cpu] = "user"
      BY <1>1, <1>2, <2>1 DEF Mine, Thread, CallThread, QuietStep, tables, terms, pcbs
  <2>2. CASE caller[cpu] # "user"
      BY <1>1, <1>2, <2>2 DEF Mine, Thread, BaseThread, QuietStep, tables, terms, pcbs, ExecLabels
  <2>3. QED BY <2>1, <2>2
<1>4. Registers(cpu)'
    BY <1>1, <1>2 DEF Registers, QuietStep, terms
<1>5. QED BY <1>1, <1>3, <1>4, Quiet

\* The write of the TSS in execute (syscall.c:105-107).
LEMMA ExTssSafe == TypeOK /\ IInv /\ AllStarted /\ ExTss => IInv'
<1> SUFFICES ASSUME TypeOK, IInv, AllStarted, ExTss PROVE IInv'
    OBVIOUS
<1> USE Now DEF Scan, Fill, Build, Leave
<1>1. /\ QuietStep /\ pc[cpu] = "ex_tss" /\ pc'[cpu] = "ex_run" /\ esp0' = curr_pid[cpu]
      /\ UNCHANGED <<caller, slot, stack, page>>
    BY DEF ExTss, QuietStep, At, Goto, TypeOK, pcbs, frames, thread
<1>2. AllStarted' /\ cpu' = cpu /\ \A p : Settled(cpu, p) => Settled(cpu, p)'
    BY <1>1, QuietSettled
<1>3. Thread(cpu)'
  <2>1. CASE caller[cpu] = "user"
      BY <1>1, <1>2, <2>1 DEF Mine, Thread, CallThread, QuietStep, tables, terms, pcbs
  <2>2. CASE caller[cpu] # "user"
      BY <1>1, <1>2, <2>2 DEF Mine, Thread, BaseThread, QuietStep, tables, terms, pcbs, ExecLabels
  <2>3. QED BY <2>1, <2>2
<1>4. Registers(cpu)'
    BY <1>1, <1>2 DEF Mine, Registers, QuietStep, terms
<1>5. QED BY <1>1, <1>3, <1>4, Quiet

\* The program is copied through the user page, which is the new process's frame.
LEMMA ExLoadSafe == TypeOK /\ IInv /\ AllStarted /\ ExLoad => IInv'
<1> SUFFICES ASSUME TypeOK, IInv, AllStarted, ExLoad PROVE IInv'
    OBVIOUS
<1> USE Now DEF Scan, Fill, Build, Leave
<1> DEFINE s == slot[cpu]
<1>1. /\ pc[cpu] = "ex_load" /\ pc' = [pc EXCEPT ![cpu] = "ex_save"]
      /\ image' = [image EXCEPT ![page] = s]
      /\ UNCHANGED <<tables, terms, pcbs, page, esp0, term_proc, sched, thread>>
    BY DEF ExLoad, At, Goto
<1> USE <1>1 DEF tables, terms, pcbs, sched, thread
<1>2. s \in Pids /\ page = s /\ curr_pid[cpu] = s /\ owner[s] = cpu
    BY DEF Mine, Thread, CallThread, BaseThread, Registers, TypeOK
<1> HIDE DEF s
<1>3. OthersKept /\ AllStarted'
    BY <1>2 DEF OthersKept, TypeOK, AllStarted
<1>4. \A p \in Pids : Settled(cpu, p) => Settled(cpu, p)'
    BY <1>2 DEF Settled, Filling, TypeOK
<1>5. Thread(cpu)'
  <2>1. CASE caller[cpu] = "user"
      BY <1>2, <1>3, <1>4, <2>1 DEF Mine, Thread, CallThread, TypeOK, s, Settled
  <2>2. CASE caller[cpu] # "user"
      BY <1>2, <1>3, <2>2 DEF Mine, Thread, BaseThread, TypeOK, s, ExecLabels
  <2>3. QED BY <2>1, <2>2
<1>6. Chain(cpu)'
  <2>1. \A p \in Pids : IsChild(cpu, p)' <=> IsChild(cpu, p)
      BY DEF IsChild, Filling, TypeOK
  <2>2. Tip(cpu)' = Tip(cpu)
      BY DEF Tip, TypeOK
  <2>3. pc'[cpu] = "ex_save"
      BY DEF TypeOK
  <2>4. QED BY <1>3, <1>4, <2>1, <2>2, <2>3, SameChain DEF Mine, OthersKept
<1>7. Registers(cpu)'
    BY DEF Mine, Registers, TypeOK
<1>8. BaseSlot(cpu)'
    BY <1>2 DEF Mine, BaseSlot, TypeOK
<1>9. QED BY <1>3, <1>5, <1>6, <1>7, <1>8, Compose DEF Mine, OthersKept

\* The frame that halt will return through is on the parent's kernel stack.
LEMMA ExSaveSafe == TypeOK /\ IInv /\ AllStarted /\ ExSave => IInv'
<1> SUFFICES ASSUME TypeOK, IInv, AllStarted, ExSave PROVE IInv'
    OBVIOUS
<1> USE Now DEF Scan, Fill, Build, Leave
<1> DEFINE s == slot[cpu]
<1>1. /\ pc[cpu] = "ex_save" /\ pc' = [pc EXCEPT ![cpu] = "ex_tss"]
      /\ saved' = [saved EXCEPT ![s] = [stack |-> stack[cpu], caller |-> caller[cpu]]]
      /\ UNCHANGED <<tables, terms, parent_pid, frames, esp0, term_proc, sched, thread>>
    BY DEF ExSave, At, Goto
<1> USE <1>1 DEF tables, terms, frames, sched, thread
<1>2. s \in Pids /\ curr_pid[cpu] = s /\ owner[s] = cpu /\ Tip(cpu) = s
    BY DEF Mine, Thread, CallThread, BaseThread, TypeOK, Tip
<1>3. OthersKept /\ AllStarted'
    BY <1>2 DEF OthersKept, TypeOK, AllStarted
<1>4. \A p \in Pids : Settled(cpu, p) => Settled(cpu, p)'
    BY DEF Settled, Filling, TypeOK
<1>5. Thread(cpu)'
  <2>1. CASE caller[cpu] = "user"
      BY <1>3, <1>4, <2>1 DEF Mine, Thread, CallThread, TypeOK, Settled
  <2>2. CASE caller[cpu] # "user"
      BY <1>3, <2>2 DEF Mine, Thread, BaseThread, TypeOK, ExecLabels
  <2>3. QED BY <2>1, <2>2
<1>6. Chain(cpu)'
  <2>1. \A p \in Pids : IsChild(cpu, p)' <=> IsChild(cpu, p)
      BY DEF IsChild, Filling, TypeOK
  <2>2. Tip(cpu)' = Tip(cpu)
      BY DEF Tip, TypeOK
  <2>3. SUFFICES ASSUME NEW p \in Pids, IsChild(cpu, p)' PROVE InChain(cpu, p)'
      BY <1>3 DEF Chain, OthersKept
  <2>4. IsChild(cpu, p) /\ InChain(cpu, p)
      BY <2>1, <2>3 DEF Chain, Mine
  <2>5. saved'[p] = [stack |-> parent_pid[p], caller |-> "user"]
    <3>1. CASE p = s
      <4>1. caller[cpu] = "user" /\ stack[cpu] = parent_pid[s]
          BY <1>2, <2>4, <3>1 DEF Mine, Thread, BaseThread, CallThread, IsChild
      <4>2. QED BY <3>1, <4>1 DEF TypeOK
    <3>2. CASE p # s
        BY <1>2, <2>4, <3>2 DEF InChain, TypeOK
    <3>3. QED BY <3>1, <3>2
  <2>6. p = Tip(cpu)' \/ \E r \in Pids : IsChild(cpu, r)' /\ parent_pid'[r] = p
      BY <2>1, <2>2, <2>4 DEF InChain
  <2>7. \A r \in Pids : IsChild(cpu, r)' /\ r # p => parent_pid'[r] # parent_pid[p]
      BY <2>1, <2>4 DEF InChain
  <2>8. Settled(cpu, parent_pid[p])' /\ parent_pid[p] # Tip(cpu)'
      BY <1>4, <2>2, <2>4 DEF InChain, Settled
  <2>9. QED BY <2>5, <2>6, <2>7, <2>8 DEF InChain
<1>7. Registers(cpu)'
    BY DEF Mine, Registers, TypeOK
<1>8. BaseSlot(cpu)'
    BY DEF Mine, BaseSlot, TypeOK
<1>9. QED BY <1>3, <1>5, <1>6, <1>7, <1>8, Compose DEF Mine, OthersKept

\* From here on the scheduler comes back to the new process.
LEMMA ExRunSafe == TypeOK /\ IInv /\ AllStarted /\ ExRun => IInv'
<1> SUFFICES ASSUME TypeOK, IInv, AllStarted, ExRun PROVE IInv'
    OBVIOUS
<1> USE Now DEF Scan, Fill, Build, Leave
<1> DEFINE s == curr_pid[cpu]
<1>1. /\ pc[cpu] = "ex_run" /\ pc' = [pc EXCEPT ![cpu] = "ex_iret"] /\ s # None
      /\ term_proc' = [term_proc EXCEPT ![cpu] = s]
      /\ UNCHANGED <<tables, terms, pcbs, frames, esp0, sched, thread>>
    BY DEF ExRun, At, Goto, HasProcess
<1> USE <1>1 DEF tables, terms, pcbs, frames, sched, thread
<1>2. OthersKept /\ AllStarted'
    BY DEF OthersKept, TypeOK, AllStarted
<1>3. \A p \in Pids : Settled(cpu, p) => Settled(cpu, p)'
    BY DEF Settled, Filling, TypeOK
<1>4. Thread(cpu)'
  <2>1. CASE caller[cpu] = "user"
    <3>1. Settled(cpu, s) /\ s \notin Terms /\ stack[cpu] = parent_pid[s]
        BY <2>1 DEF Mine, Thread, CallThread, Settled, Filling, TypeOK
    <3>2. Settled(cpu, s)'
        BY <1>3, <3>1 DEF Settled
    <3>3. QED BY <1>2, <2>1, <3>1, <3>2 DEF Mine, Thread, CallThread, TypeOK
  <2>2. CASE caller[cpu] # "user"
      BY <1>2, <2>2 DEF Mine, Thread, BaseThread, TypeOK, ExecLabels
  <2>3. QED BY <2>1, <2>2
<1>5. Chain(cpu)'
  <2>1. \A p \in Pids : IsChild(cpu, p)' <=> IsChild(cpu, p)
      BY DEF IsChild, Filling, TypeOK
  <2>2. Tip(cpu)' = Tip(cpu)
      BY DEF Tip, TypeOK
  <2>3. QED BY <1>2, <1>3, <2>1, <2>2, SameChain DEF Mine, OthersKept
<1>6. Registers(cpu)'
    BY DEF Mine, Registers, TypeOK
<1>7. BaseSlot(cpu)'
    BY DEF Mine, BaseSlot, TypeOK
<1>8. QED BY <1>2, <1>4, <1>5, <1>6, <1>7, Compose DEF Mine, OthersKept

\* The start of the program.
LEMMA ExIretSafe == TypeOK /\ IInv /\ AllStarted /\ ExIret => IInv'
<1> SUFFICES ASSUME TypeOK, IInv, AllStarted, ExIret PROVE IInv'
    OBVIOUS
<1> USE Now DEF Scan, Fill, Build, Leave
<1>1. /\ QuietStep /\ pc[cpu] = "ex_iret" /\ pc'[cpu] = "user" /\ caller'[cpu] = "user"
      /\ UNCHANGED <<slot, page, esp0>>
    BY DEF ExIret, QuietStep, At, Goto, ReturnToUser, TypeOK, pcbs, frames
<1>2. AllStarted' /\ cpu' = cpu /\ \A p : Settled(cpu, p) => Settled(cpu, p)'
    BY <1>1, QuietSettled
<1>3. Settled(cpu, curr_pid[cpu]) /\ term_proc[cpu] = curr_pid[cpu]
    BY <1>1 DEF Mine, Thread, CallThread, BaseThread, Settled, Filling
<1>4. Thread(cpu)'
    BY <1>1, <1>2, <1>3 DEF Thread, CallThread, QuietStep, terms
<1>5. Registers(cpu)'
    BY <1>1, <1>2 DEF Mine, Registers, QuietStep
<1>6. QED BY <1>1, <1>4, <1>5, Quiet

-----------------------------------------------------------------------------
(***************************************************************************)
(* halt.                                                                   *)
(***************************************************************************)
LEMMA SysHaltSafe == TypeOK /\ IInv /\ AllStarted /\ SysHalt => IInv'
<1> SUFFICES ASSUME TypeOK, IInv, AllStarted, SysHalt PROVE IInv'
    OBVIOUS
<1> USE Now DEF Scan, Fill, Build, Leave
<1>1. QuietStep /\ pc[cpu] = "user" /\ pc'[cpu] = "ha_test"
    BY DEF SysHalt, QuietStep, At, Goto, TypeOK, pcbs, frames
<1>2. CallThread(cpu) /\ caller[cpu] = "user"
    BY <1>1 DEF Mine, Thread, BaseThread, ExecLabels
<1>3. stack'[cpu] = esp0 /\ caller' = caller /\ slot' = slot /\ page' = page /\ esp0' = esp0
    BY DEF SysHalt, TypeOK, frames
<1>4. AllStarted' /\ cpu' = cpu /\ \A p : Settled(cpu, p) => Settled(cpu, p)'
    BY <1>1, QuietSettled
<1>5. Thread(cpu)'
    BY <1>1, <1>2, <1>3, <1>4 DEF Thread, CallThread, Mine, Registers, QuietStep, terms
<1>6. Registers(cpu)'
    BY <1>1, <1>3, <1>4 DEF Mine, Registers, QuietStep
<1>7. QED BY <1>1, <1>3, <1>5, <1>6, Quiet

\* Only the threads that serve a user program are ever in halt.
LEMMA Halting ==
    ASSUME TypeOK, IInv, AllStarted, pc[cpu] \in HaltLabels
    PROVE  caller[cpu] = "user" /\ CallThread(cpu)
BY Now DEF Mine, Thread, BaseThread, ExecLabels, HaltLabels

\* The test of halt for a base shell.
LEMMA HaTestSafe == TypeOK /\ IInv /\ AllStarted /\ HaTest => IInv'
<1> SUFFICES ASSUME TypeOK, IInv, AllStarted, HaTest PROVE IInv'
    OBVIOUS
<1> USE Now DEF Scan, Fill, Build, Leave
<1>1. /\ QuietStep /\ pc[cpu] = "ha_test" /\ slot'[cpu] = curr_pid[cpu]
      /\ pc'[cpu] = IF curr_pid[cpu] = cpu THEN "ha_base" ELSE "ha_free"
      /\ UNCHANGED <<caller, stack, page, esp0>>
    BY DEF HaTest, IsBaseShell, QuietStep, At, Goto, TypeOK, pcbs, frames
<1>2. CallThread(cpu) /\ caller[cpu] = "user"
    BY <1>1, Halting DEF HaltLabels
<1>3. AllStarted' /\ cpu' = cpu /\ \A p : Settled(cpu, p) => Settled(cpu, p)'
    BY <1>1, QuietSettled
<1>4. Thread(cpu)'
    BY <1>1, <1>2, <1>3 DEF Thread, CallThread, QuietStep, terms
<1>5. Registers(cpu)'
    BY <1>1, <1>3 DEF Mine, Registers, QuietStep
<1>6. QED BY <1>1, <1>4, <1>5, Quiet

\* The base shell's slot is free until it is started again: it ends the chain,
\* so no process is left without its parent.
LEMMA HaBaseSafe == TypeOK /\ IInv /\ AllStarted /\ HaBase => IInv'
<1> SUFFICES ASSUME TypeOK, IInv, AllStarted, HaBase PROVE IInv'
    OBVIOUS
<1> USE Now DEF Scan, Fill, Build, Leave
<1>1. /\ pc[cpu] = "ha_base" /\ pc' = [pc EXCEPT ![cpu] = "ex_check"]
      /\ pid' = [pid EXCEPT ![cpu] = 0] /\ caller' = [caller EXCEPT ![cpu] = "halt"]
      /\ UNCHANGED <<owner, terms, pcbs, frames, esp0, term_proc, sched, slot, stack>>
    BY DEF HaBase, At, Goto
<1>2. CallThread(cpu)
    BY <1>1, Halting DEF HaltLabels
<1> USE <1>1 DEF terms, pcbs, frames, sched
<1>3. curr_pid[cpu] = cpu /\ owner[cpu] = cpu /\ image[cpu] = cpu /\ term_proc[cpu] = cpu /\ Tip(cpu) = cpu
    BY <1>2 DEF CallThread, Settled, Tip
<1>4. OthersKept /\ AllStarted'
    BY <1>3 DEF OthersKept, TypeOK, AllStarted
<1>5. Thread(cpu)'
    BY <1>2, <1>3, <1>4 DEF Thread, CallThread, BaseThread, TypeOK, ExecLabels
<1>6. Chain(cpu)'
  <2>1. \A p \in Pids : IsChild(cpu, p)' <=> IsChild(cpu, p)
      BY DEF IsChild, Filling, TypeOK
  <2>2. \A p \in Pids : Settled(cpu, p) /\ p # Tip(cpu) => Settled(cpu, p)'
      BY <1>3 DEF Settled, Filling, TypeOK
  <2>3. Tip(cpu)' = Tip(cpu)
      BY DEF Tip, TypeOK
  <2>4. QED BY <1>4, <2>1, <2>2, <2>3, SameChain DEF Mine, OthersKept
<1>7. Registers(cpu)'
    BY DEF Mine, Registers, TypeOK
<1>8. BaseSlot(cpu)'
    BY DEF Mine, BaseSlot, TypeOK
<1>9. QED BY <1>4, <1>5, <1>6, <1>7, <1>8, Compose DEF Mine, OthersKept

\* The end of the chain without its last process.
LEMMA Popped ==
    ASSUME TypeOK, cpu \in Terms, cpu' = cpu, Chain(cpu),
           NEW c \in Pids, IsChild(cpu, c), c = Tip(cpu), Tip(cpu)' = parent_pid[c],
           \A p \in Pids : IsChild(cpu, p)' <=> IsChild(cpu, p) /\ p # c,
           \A p \in Pids : Settled(cpu, p) /\ p # c => Settled(cpu, p)',
           parent_pid' = parent_pid, \A p \in Pids : p # c => saved'[p] = saved[p],
           pc[cpu] \notin {"ex_map", "ex_load", "ex_save"}
    PROVE  Chain(cpu)' /\ Settled(cpu, parent_pid[c])'
<1>1. InChain(cpu, c)
    BY DEF Chain
<1>2. Settled(cpu, parent_pid[c])'
    BY <1>1 DEF InChain, Settled
<1>3. SUFFICES ASSUME NEW p \in Pids, IsChild(cpu, p)' PROVE InChain(cpu, p)'
    BY <1>2 DEF Chain
<1>4. IsChild(cpu, p) /\ p # c /\ InChain(cpu, p)
    BY <1>3 DEF Chain
<1>5. Settled(cpu, parent_pid[p])' /\ parent_pid[p] # parent_pid[c]
    BY <1>1, <1>4 DEF InChain, Settled
<1>6. p = parent_pid[c] \/ \E r \in Pids : IsChild(cpu, r)' /\ parent_pid[r] = p
    BY <1>4 DEF InChain
<1>7. \A r \in Pids : IsChild(cpu, r)' /\ r # p => parent_pid[r] # parent_pid[p]
    BY <1>4 DEF InChain
<1>8. saved[p] = [stack |-> parent_pid[p], caller |-> "user"]
    BY <1>4 DEF InChain
<1>9. QED BY <1>4, <1>5, <1>6, <1>7, <1>8 DEF InChain

\* The release of the slot in halt.
LEMMA HaFreeSafe == TypeOK /\ IInv /\ AllStarted /\ HaFree => IInv'
<1> SUFFICES ASSUME TypeOK, IInv, AllStarted, HaFree PROVE IInv'
    OBVIOUS
<1> USE Now DEF Scan, Fill, Build, Leave
<1> DEFINE c == curr_pid[cpu]
<1>1. CallThread(cpu) /\ caller[cpu] = "user"
    BY Halting DEF HaltLabels, HaFree, At
<1>2. slot[cpu] = c /\ c # cpu /\ Settled(cpu, c) /\ term_proc[cpu] = c /\ stack[cpu] = c
    BY <1>1 DEF HaFree, At, CallThread
<1>3. /\ pc[cpu] = "ha_free" /\ pc' = [pc EXCEPT ![cpu] = "ha_parent"]
      /\ pid' = [pid EXCEPT ![c] = 0]
      /\ UNCHANGED <<owner, terms, pcbs, frames, esp0, term_proc, sched, thread>>
    BY <1>2 DEF HaFree, At, Goto, Freed
<1> USE <1>3 DEF terms, pcbs, frames, sched, thread
<1>4. c \in Pids \ Terms /\ IsChild(cpu, c) /\ c = Tip(cpu)
    BY <1>2 DEF Settled, IsChild, Tip
<1>5. OthersKept /\ AllStarted'
    BY <1>2, <1>4 DEF OthersKept, TypeOK, AllStarted, Settled
<1>6. Chain(cpu)' /\ Settled(cpu, parent_pid[c])'
  <2>1. \A p \in Pids : IsChild(cpu, p)' <=> IsChild(cpu, p) /\ p # c
      BY <1>4 DEF IsChild, Filling, TypeOK
  <2>2. \A p \in Pids : Settled(cpu, p) /\ p # c => Settled(cpu, p)'
      BY <1>4 DEF Settled, Filling, TypeOK
  <2>3. Tip(cpu)' = parent_pid[c]
      BY <1>2 DEF Tip, TypeOK
  <2>4. QED BY <1>4, <1>5, <2>1, <2>2, <2>3, Popped DEF Mine, OthersKept
<1>7. Thread(cpu)'
  <2>1. saved[c] = [stack |-> parent_pid[c], caller |-> "user"] /\ parent_pid[c] \in Pids
      BY <1>4 DEF Mine, Chain, InChain, Settled
  <2>2. saved[c] \in Frames /\ saved[c].caller = "user" /\ saved' = saved
      BY <2>1 DEF Frames, Callers
  <2>3. QED BY <1>1, <1>2, <1>4, <1>5, <1>6, <2>2 DEF Thread, CallThread, TypeOK, Settled
<1>8. Registers(cpu)'
    BY DEF Mine, Registers, TypeOK
<1>9. BaseSlot(cpu)'
    BY <1>4 DEF Mine, BaseSlot, TypeOK
<1>10. QED BY <1>5, <1>6, <1>7, <1>8, <1>9, Compose DEF Mine, OthersKept

\* The parent is current and scheduled again; its frame and stack follow.
LEMMA HaParentSafe == TypeOK /\ IInv /\ AllStarted /\ HaParent => IInv'
<1> SUFFICES ASSUME TypeOK, IInv, AllStarted, HaParent PROVE IInv'
    OBVIOUS
<1> USE Now DEF Scan, Fill, Build, Leave
<1> DEFINE q == parent_pid[slot[cpu]]
<1>1. CallThread(cpu) /\ caller[cpu] = "user"
    BY Halting DEF HaltLabels, HaParent, At
<1>2. /\ pc[cpu] = "ha_parent" /\ pc' = [pc EXCEPT ![cpu] = "ha_map"]
      /\ curr_pid' = [curr_pid EXCEPT ![cpu] = q]
      /\ term_proc' = [term_proc EXCEPT ![cpu] = q]
      /\ prev_pid' = [prev_pid EXCEPT ![cpu] = parent_pid[q]] /\ q # None
      /\ UNCHANGED <<tables, pcbs, frames, esp0, sched, thread>>
    BY DEF HaParent, At, Goto
<1> USE <1>2 DEF tables, pcbs, frames, sched, thread
<1>3. OthersKept /\ AllStarted'
    BY DEF OthersKept, TypeOK, AllStarted
<1>4. \A p \in Pids : Settled(cpu, p) => Settled(cpu, p)'
    BY DEF Settled, Filling, TypeOK
<1>5. Thread(cpu)'
  <2>1. Settled(cpu, q)' /\ curr_pid'[cpu] = q /\ term_proc'[cpu] = q /\ pc'[cpu] = "ha_map"
      BY <1>1, <1>4 DEF CallThread, Settled, TypeOK
  <2>2. QED BY <1>1, <1>3, <2>1 DEF Thread, CallThread
<1>6. Chain(cpu)'
  <2>1. \A p \in Pids : IsChild(cpu, p)' <=> IsChild(cpu, p)
      BY DEF IsChild, Filling, TypeOK
  <2>2. Tip(cpu)' = Tip(cpu)
      BY DEF Tip, TypeOK
  <2>3. QED BY <1>3, <1>4, <2>1, <2>2, SameChain DEF Mine, OthersKept
<1>7. Registers(cpu)'
    BY DEF Registers, TypeOK
<1>8. BaseSlot(cpu)'
    BY DEF Mine, BaseSlot, TypeOK
<1>9. QED BY <1>3, <1>5, <1>6, <1>7, <1>8, Compose DEF Mine, OthersKept

\* The mapping of the parent's page in halt.
LEMMA HaMapSafe == TypeOK /\ IInv /\ AllStarted /\ HaMap => IInv'
<1> SUFFICES ASSUME TypeOK, IInv, AllStarted, HaMap PROVE IInv'
    OBVIOUS
<1> USE Now DEF Scan, Fill, Build, Leave
<1>1. /\ QuietStep /\ pc[cpu] = "ha_map" /\ pc'[cpu] = "ha_tss" /\ page' = curr_pid[cpu]
      /\ UNCHANGED <<caller, slot, stack, esp0>>
    BY DEF HaMap, QuietStep, At, Goto, TypeOK, pcbs, frames, thread
<1>2. CallThread(cpu) /\ caller[cpu] = "user"
    BY <1>1, Halting DEF HaltLabels
<1>3. AllStarted' /\ cpu' = cpu /\ \A p : Settled(cpu, p) => Settled(cpu, p)'
    BY <1>1, QuietSettled
<1>4. Thread(cpu)'
    BY <1>1, <1>2, <1>3 DEF Thread, CallThread, QuietStep, tables, terms, pcbs
<1>5. Registers(cpu)'
    BY <1>1, <1>3 DEF Registers, QuietStep, terms
<1>6. QED BY <1>1, <1>4, <1>5, Quiet

\* The write of the TSS in halt.
LEMMA HaTssSafe == TypeOK /\ IInv /\ AllStarted /\ HaTss => IInv'
<1> SUFFICES ASSUME TypeOK, IInv, AllStarted, HaTss PROVE IInv'
    OBVIOUS
<1> USE Now DEF Scan, Fill, Build, Leave
<1>1. /\ QuietStep /\ pc[cpu] = "ha_tss" /\ pc'[cpu] = "ha_ret" /\ esp0' = curr_pid[cpu]
      /\ UNCHANGED <<caller, slot, stack, page>>
    BY DEF HaTss, QuietStep, At, Goto, TypeOK, pcbs, frames, thread
<1>2. CallThread(cpu) /\ caller[cpu] = "user"
    BY <1>1, Halting DEF HaltLabels
<1>3. AllStarted' /\ cpu' = cpu /\ \A p : Settled(cpu, p) => Settled(cpu, p)'
    BY <1>1, QuietSettled
<1>4. Thread(cpu)'
    BY <1>1, <1>2, <1>3 DEF Thread, CallThread, QuietStep, tables, terms, pcbs
<1>5. Registers(cpu)'
    BY <1>1, <1>3 DEF Mine, Registers, QuietStep, terms
<1>6. QED BY <1>1, <1>4, <1>5, Quiet

\* The frame that halt returns through is that of the parent's own execute.
LEMMA HaRetSafe == TypeOK /\ IInv /\ AllStarted /\ HaRet => IInv'
<1> SUFFICES ASSUME TypeOK, IInv, AllStarted, HaRet PROVE IInv'
    OBVIOUS
<1> USE Now DEF Scan, Fill, Build, Leave
<1> DEFINE s == slot[cpu]
<1>1. CallThread(cpu) /\ caller[cpu] = "user"
    BY Halting DEF HaltLabels, HaRet, At
<1>2. /\ pid[s] = 0 /\ s \in Pids \ Terms /\ owner[s] = cpu
      /\ saved[s] # NoFrame /\ saved[s].caller = "user"
      /\ Settled(cpu, curr_pid[cpu]) /\ term_proc[cpu] = curr_pid[cpu]
    BY <1>1, Numbers DEF CallThread, HaRet, At, NoFrame, Frames, TypeOK
<1>3. /\ pc[cpu] = "ha_ret" /\ pc' = [pc EXCEPT ![cpu] = "user"]
      /\ caller' = [caller EXCEPT ![cpu] = "user"]
      /\ stack' = [stack EXCEPT ![cpu] = None]
      /\ saved' = [saved EXCEPT ![s] = NoFrame]
      /\ UNCHANGED <<tables, terms, parent_pid, frames, esp0, term_proc, sched, slot>>
    BY <1>2 DEF HaRet, ReturnThrough, ReturnToUser, At, Goto, sched
<1> USE <1>3 DEF tables, terms, frames, sched
<1>4. OthersKept /\ AllStarted'
    BY <1>2 DEF OthersKept, TypeOK, AllStarted
<1>5. \A p \in Pids : Settled(cpu, p) => Settled(cpu, p)'
    BY DEF Settled, Filling, TypeOK
<1>6. Thread(cpu)'
    BY <1>1, <1>2, <1>4, <1>5 DEF Thread, CallThread, TypeOK, Settled
<1>7. Chain(cpu)'
  <2>1. \A p \in Pids : IsChild(cpu, p)' <=> IsChild(cpu, p)
      BY DEF IsChild, Filling, TypeOK
  <2>2. \A p \in Pids : IsChild(cpu, p) => saved'[p] = saved[p]
      BY <1>2 DEF IsChild, TypeOK
  <2>3. Tip(cpu)' = Tip(cpu)
      BY DEF Tip, TypeOK
  <2>4. QED BY <1>4, <1>5, <2>1, <2>2, <2>3, SameChain DEF Mine, OthersKept
<1>8. Registers(cpu)'
    BY <1>2 DEF Mine, Registers, TypeOK
<1>9. BaseSlot(cpu)'
    BY DEF Mine, BaseSlot, TypeOK
<1>10. QED BY <1>4, <1>6, <1>7, <1>8, <1>9, Compose DEF Mine, OthersKept

\* A thread is never at a step that needs a process its terminal does not have.
LEMMA NoDerail == TypeOK /\ IInv /\ AllStarted => ~Derail
<1> SUFFICES ASSUME TypeOK, IInv, AllStarted, Derail PROVE FALSE
    OBVIOUS
<1> USE Now, Numbers DEF Scan, Fill, Build, Leave
<1>1. CASE ~HasProcess /\ pc[cpu] \in {"ex_pcb", "ex_map", "ex_tss", "ex_run",
                                       "ha_test", "ha_map", "ha_tss"}
  <2>1. curr_pid[cpu] = None
      BY <1>1 DEF HasProcess
  <2>2. caller[cpu] = "user"
      BY <2>1 DEF Mine, Thread, BaseThread
  <2>3. QED BY <1>1, <2>1, <2>2 DEF Mine, Thread, CallThread, Settled, TypeOK
<1>2. CASE At("ha_parent") /\ parent_pid[slot[cpu]] = None
  <2>1. CallThread(cpu)
      BY <1>2, Halting DEF HaltLabels, At
  <2>2. QED BY <1>2, <2>1 DEF CallThread, Settled, At
<1>3. QED BY <1>1, <1>2 DEF Derail

-----------------------------------------------------------------------------
(***************************************************************************)
(* Ctrl-C and exceptions: halt to its end in one step.                     *)
(***************************************************************************)
KeySafe == pc[cpu] = "user" \/ <<caller[cpu], pc[cpu]>> \in SafeKey

\* The slot of the base shell that exits is the first free one: the lower slots
\* are those of the other terminals' base shells.
LEMMA OwnSlotFirst ==
    ASSUME TypeOK, IInv, AllStarted
    PROVE  FirstFree([pid EXCEPT ![cpu] = 0]) = cpu
<1> USE Now
<1> DEFINE table == [pid EXCEPT ![cpu] = 0]
           i == FirstFree(table)
<1>1. table \in [Pids -> 0 .. 1] /\ table[cpu] = 0 /\ \A u \in Terms : u # cpu => table[u] = 1
    BY Numbers DEF TypeOK
<1>2. ~Full(table)
    BY <1>1 DEF Full
<1>3. i \in Pids /\ table[i] = 0 /\ \A j \in Pids : j < i => table[j] # 0
  <2> HIDE DEF table
  <2>1. QED BY <1>1, <1>2, FirstFreeIsFree
<1> HIDE DEF i, table
<1>4. ~(cpu < i)
    BY <1>1, <1>3
<1>5. ~(i < cpu)
  <2>1. i < cpu => i \in Terms /\ i # cpu
      BY <1>3, TermCountAssumption DEF Terms, Pids
  <2>2. QED BY <1>1, <1>3, <2>1
<1>6. QED BY <1>3, <1>4, <1>5 DEF i, table, Pids

\* What it does to the tables, and where it may happen.
LEMMA HaltBaseDoes ==
    ASSUME TypeOK, IInv, AllStarted, KeySafe, HaltBase
    PROVE  /\ curr_pid[cpu] = cpu /\ StackNow = cpu /\ Tip(cpu) = cpu
           /\ pid' = [pid EXCEPT ![cpu] = 1] /\ owner' = [owner EXCEPT ![cpu] = cpu]
           /\ curr_pid' = [curr_pid EXCEPT ![cpu] = cpu]
           /\ prev_pid' = [prev_pid EXCEPT ![cpu] = cpu]
           /\ parent_pid' = [parent_pid EXCEPT ![cpu] = cpu]
           /\ page' = cpu /\ esp0' = cpu /\ image' = [image EXCEPT ![cpu] = cpu]
           /\ saved' = [saved EXCEPT ![cpu] = [stack |-> cpu, caller |-> "halt"]]
           /\ term_proc' = [term_proc EXCEPT ![cpu] = cpu]
           /\ pc' = [pc EXCEPT ![cpu] = "ex_iret"] /\ caller' = [caller EXCEPT ![cpu] = "halt"]
           /\ slot' = [slot EXCEPT ![cpu] = cpu] /\ stack' = [stack EXCEPT ![cpu] = cpu]
           /\ UNCHANGED sched
<1> USE Now DEF Scan, Fill, Build, Leave
<1>1. curr_pid[cpu] = cpu
    BY DEF HaltBase, IsBaseShell
<1>2. StackNow = cpu /\ Tip(cpu) = cpu
  <2>1. CASE caller[cpu] = "user"
    <3>1. /\ CallThread(cpu)
          /\ pc[cpu] \in {"user", "ex_check", "ex_scan", "ex_claim", "ex_tss", "ex_run", "ex_iret",
                          "ha_test", "ha_base", "ha_free", "ha_parent"}
        BY <2>1 DEF KeySafe, SafeKey, Mine, Thread
    <3>2. pc[cpu] \notin {"ex_tss", "ex_run", "ex_iret", "ha_parent"}
        BY <1>1, <3>1 DEF CallThread
    <3>3. QED BY <1>1, <3>1, <3>2 DEF CallThread, StackNow, InUser, Tip, Mine, Registers
  <2>2. CASE caller[cpu] # "user"
    <3>1. BaseThread(cpu) /\ caller[cpu] # "tick"
        BY <2>2 DEF KeySafe, SafeKey, Mine, Thread, BaseThread, ExecLabels
    <3>2. QED BY <1>1, <3>1 DEF BaseThread, StackNow, InUser, Tip, ExecLabels
  <2>3. QED BY <2>1, <2>2
<1>3. /\ pid' = [pid EXCEPT ![cpu] = 1] /\ owner' = [owner EXCEPT ![cpu] = cpu]
      /\ curr_pid' = [curr_pid EXCEPT ![cpu] = cpu]
      /\ prev_pid' = [prev_pid EXCEPT ![cpu] = cpu]
      /\ parent_pid' = [parent_pid EXCEPT ![cpu] = cpu]
      /\ page' = cpu /\ esp0' = cpu /\ image' = [image EXCEPT ![cpu] = cpu]
      /\ saved' = [saved EXCEPT ![cpu] = [stack |-> cpu, caller |-> "halt"]]
      /\ term_proc' = [term_proc EXCEPT ![cpu] = cpu]
      /\ pc' = [pc EXCEPT ![cpu] = "ex_iret"] /\ caller' = [caller EXCEPT ![cpu] = "halt"]
      /\ slot' = [slot EXCEPT ![cpu] = cpu] /\ stack' = [stack EXCEPT ![cpu] = cpu]
      /\ UNCHANGED sched
  <2>1. StartShell(cpu, cpu, [pid EXCEPT ![cpu] = 0], "halt")
      BY DEF HaltBase
  <2>2. [[pid EXCEPT ![cpu] = 0] EXCEPT ![cpu] = 1] = [pid EXCEPT ![cpu] = 1]
      BY DEF TypeOK
  <2>3. QED BY <1>1, <1>2, <2>1, <2>2, OwnSlotFirst DEF StartShell, HaltBase
<1>4. QED BY <1>1, <1>2, <1>3

\* A halt by Ctrl-C or an exception in a base shell, all at once.
LEMMA HaltBaseSafe ==
    ASSUME TypeOK, IInv, AllStarted, KeySafe, HaltBase
    PROVE  IInv'
<1> USE Now DEF Scan, Fill, Build, Leave
<1>1. curr_pid[cpu] = cpu /\ StackNow = cpu /\ Tip(cpu) = cpu
    BY HaltBaseDoes
<1>2. /\ pid' = [pid EXCEPT ![cpu] = 1] /\ owner' = [owner EXCEPT ![cpu] = cpu]
      /\ curr_pid' = [curr_pid EXCEPT ![cpu] = cpu]
      /\ prev_pid' = [prev_pid EXCEPT ![cpu] = cpu]
      /\ parent_pid' = [parent_pid EXCEPT ![cpu] = cpu]
      /\ page' = cpu /\ esp0' = cpu /\ image' = [image EXCEPT ![cpu] = cpu]
      /\ saved' = [saved EXCEPT ![cpu] = [stack |-> cpu, caller |-> "halt"]]
      /\ term_proc' = [term_proc EXCEPT ![cpu] = cpu]
      /\ pc' = [pc EXCEPT ![cpu] = "ex_iret"] /\ caller' = [caller EXCEPT ![cpu] = "halt"]
      /\ slot' = [slot EXCEPT ![cpu] = cpu] /\ stack' = [stack EXCEPT ![cpu] = cpu]
      /\ UNCHANGED sched
    BY HaltBaseDoes
<1> USE <1>2 DEF sched
<1>4. owner[cpu] = cpu
    OBVIOUS
<1>5. OthersKept /\ AllStarted'
    BY <1>4, Numbers DEF OthersKept, TypeOK, AllStarted
<1>6. Thread(cpu)'
    BY <1>5 DEF Thread, BaseThread, TypeOK, ExecLabels
<1>7. Chain(cpu)'
  <2>1. \A p \in Pids : IsChild(cpu, p)' <=> IsChild(cpu, p)
    <3>1. ~Filling(cpu, cpu)' /\ \A p \in Pids \ Terms : ~Filling(cpu, p)'
        BY DEF Filling, TypeOK
    <3>2. \A p \in Pids \ Terms : pid[p] = 1 /\ owner[p] = cpu => ~Filling(cpu, p)
        BY <1>1 DEF Mine, Thread, CallThread, BaseThread, Filling, KeySafe, SafeKey
    <3>3. QED BY <3>1, <3>2 DEF IsChild, TypeOK
  <2>2. \A p \in Pids : IsChild(cpu, p) => parent_pid'[p] = parent_pid[p] /\ saved'[p] = saved[p]
      BY DEF IsChild, TypeOK
  <2>3. \A p \in Pids : Settled(cpu, p) /\ p # Tip(cpu) => Settled(cpu, p)'
      BY <1>1 DEF Settled, Filling, TypeOK
  <2>4. Tip(cpu)' = Tip(cpu)
      BY <1>1 DEF Tip, TypeOK
  <2>5. QED BY <1>1, <1>5, <2>1, <2>2, <2>3, <2>4, SameChain DEF Mine, OthersKept
<1>8. Registers(cpu)'
    BY DEF Registers, TypeOK
<1>9. BaseSlot(cpu)'
    BY DEF Mine, BaseSlot, TypeOK
<1>10. QED BY <1>5, <1>6, <1>7, <1>8, <1>9, Compose DEF Mine, OthersKept

\* What it does to the tables: process c is taken off, its parent q is back.
LEMMA HaltChildDoes ==
    ASSUME TypeOK, IInv, AllStarted, KeySafe, HaltChild
    PROVE  \E c \in Pids \ Terms, q \in Pids :
             /\ c = curr_pid[cpu] /\ q = parent_pid[c] /\ owner[c] = cpu /\ ~Filling(cpu, c)
             /\ caller[cpu] = "user" /\ CallThread(cpu)
             /\ pc[cpu] \in {"user", "ex_check", "ex_scan", "ex_claim", "ex_tss", "ex_run", "ex_iret",
                             "ha_test", "ha_free", "ha_parent"}
             /\ pc[cpu] # "ha_parent" => IsChild(cpu, c) /\ c = Tip(cpu) /\ InChain(cpu, c)
             /\ Settled(cpu, q)
             /\ pid' = [pid EXCEPT ![c] = 0]
             /\ curr_pid' = [curr_pid EXCEPT ![cpu] = q]
             /\ term_proc' = [term_proc EXCEPT ![cpu] = q]
             /\ prev_pid' = [prev_pid EXCEPT ![cpu] = parent_pid[q]]
             /\ page' = q /\ esp0' = q /\ saved' = [saved EXCEPT ![c] = NoFrame]
             /\ pc' = [pc EXCEPT ![cpu] = "user"] /\ caller' = [caller EXCEPT ![cpu] = "user"]
             /\ stack' = [stack EXCEPT ![cpu] = None]
             /\ UNCHANGED <<owner, parent_pid, image, active_term, schedule, slot, cpu>>
<1> USE Now DEF Scan, Fill, Build, Leave
<1>1. PICK c, q : /\ c = curr_pid[cpu] /\ q = parent_pid[c]
                  /\ c # None /\ c # cpu /\ q # None
    BY DEF HaltChild, IsBaseShell
<1>2. caller[cpu] = "user" /\ CallThread(cpu)
    BY <1>1 DEF Mine, Thread, BaseThread
<1>3. pc[cpu] \in {"user", "ex_check", "ex_scan", "ex_claim", "ex_tss", "ex_run", "ex_iret",
                  "ha_test", "ha_free", "ha_parent"}
    BY <1>1, <1>2 DEF KeySafe, SafeKey, CallThread
<1>4. /\ c \in Pids \ Terms /\ owner[c] = cpu /\ ~Filling(cpu, c)
      /\ pc[cpu] # "ha_parent" => IsChild(cpu, c) /\ c = Tip(cpu) /\ InChain(cpu, c)
  <2>1. c \in Pids /\ owner[c] = cpu /\ ~Filling(cpu, c) /\ (pc[cpu] # "ha_parent" => pid[c] = 1)
      BY <1>1, <1>2, <1>3 DEF CallThread, Settled, Filling, TypeOK
  <2>2. c \notin Terms
      BY <1>1, <2>1
  <2>3. pc[cpu] # "ha_parent" => c = Tip(cpu)
      BY <1>1, <1>3 DEF Tip
  <2>4. QED BY <2>1, <2>2, <2>3 DEF IsChild, Mine, Chain
<1>5. Settled(cpu, q) /\ saved[c] # NoFrame /\ saved[c].caller = "user"
  <2>1. CASE pc[cpu] = "ha_parent"
      BY <1>1, <1>2, <2>1, Numbers DEF CallThread, NoFrame, Frames
  <2>2. CASE pc[cpu] # "ha_parent"
    <3>1. saved[c] = [stack |-> q, caller |-> "user"] /\ Settled(cpu, q)
        BY <1>1, <1>3, <1>4, <2>2 DEF InChain
    <3>2. QED BY <1>1, <3>1 DEF NoFrame
  <2>3. QED BY <2>1, <2>2
<1>6. /\ pid' = [pid EXCEPT ![c] = 0]
      /\ curr_pid' = [curr_pid EXCEPT ![cpu] = q]
      /\ term_proc' = [term_proc EXCEPT ![cpu] = q]
      /\ prev_pid' = [prev_pid EXCEPT ![cpu] = parent_pid[q]]
      /\ page' = q /\ esp0' = q /\ saved' = [saved EXCEPT ![c] = NoFrame]
      /\ pc' = [pc EXCEPT ![cpu] = "user"] /\ caller' = [caller EXCEPT ![cpu] = "user"]
      /\ stack' = [stack EXCEPT ![cpu] = None]
      /\ UNCHANGED <<owner, parent_pid, image, active_term, schedule, slot, cpu>>
    BY <1>1, <1>5 DEF HaltChild, Freed, ReturnThrough, ReturnToUser, Goto
<1>7. c \in Pids \ Terms /\ q \in Pids
    BY <1>4, <1>5 DEF Settled
<1>8. QED BY <1>1, <1>2, <1>3, <1>4, <1>5, <1>6, <1>7

\* And in a child.
LEMMA HaltChildSafe ==
    ASSUME TypeOK, IInv, AllStarted, KeySafe, HaltChild
    PROVE  IInv'
<1> USE Now DEF Scan, Fill, Build, Leave
<1>1. PICK c \in Pids \ Terms, q \in Pids :
             /\ c = curr_pid[cpu] /\ q = parent_pid[c] /\ owner[c] = cpu /\ ~Filling(cpu, c)
             /\ caller[cpu] = "user" /\ CallThread(cpu)
             /\ pc[cpu] \in {"user", "ex_check", "ex_scan", "ex_claim", "ex_tss", "ex_run", "ex_iret",
                             "ha_test", "ha_free", "ha_parent"}
             /\ pc[cpu] # "ha_parent" => IsChild(cpu, c) /\ c = Tip(cpu) /\ InChain(cpu, c)
             /\ Settled(cpu, q)
             /\ pid' = [pid EXCEPT ![c] = 0]
             /\ curr_pid' = [curr_pid EXCEPT ![cpu] = q]
             /\ term_proc' = [term_proc EXCEPT ![cpu] = q]
             /\ prev_pid' = [prev_pid EXCEPT ![cpu] = parent_pid[q]]
             /\ page' = q /\ esp0' = q /\ saved' = [saved EXCEPT ![c] = NoFrame]
             /\ pc' = [pc EXCEPT ![cpu] = "user"] /\ caller' = [caller EXCEPT ![cpu] = "user"]
             /\ stack' = [stack EXCEPT ![cpu] = None]
             /\ UNCHANGED <<owner, parent_pid, image, active_term, schedule, slot, cpu>>
    BY HaltChildDoes
<1> USE <1>1
<1>7. OthersKept /\ AllStarted'
    BY <1>1, Numbers DEF OthersKept, TypeOK, AllStarted
<1>8. /\ \A p \in Pids : IsChild(cpu, p)' <=> IsChild(cpu, p) /\ p # c
      /\ \A p \in Pids : Settled(cpu, p) /\ p # c => Settled(cpu, p)'
      /\ Tip(cpu)' = q
      /\ \A p \in Pids : p # c => saved'[p] = saved[p]
    BY <1>1 DEF IsChild, Settled, Filling, Tip, TypeOK
<1>9. Settled(cpu, q)' /\ Chain(cpu)'
  <2>1. CASE pc[cpu] = "ha_parent"
    <3>1. pid[c] = 0 /\ Tip(cpu) = q
        BY <1>1, <2>1 DEF CallThread, Tip
    <3>2. \A p \in Pids : Settled(cpu, p) \/ IsChild(cpu, p) => p # c
        BY <3>1 DEF Settled, IsChild
    <3>3. \A p \in Pids : IsChild(cpu, p)' <=> IsChild(cpu, p)
        BY <1>8, <3>2
    <3>4. \A p \in Pids : Settled(cpu, p) => Settled(cpu, p)'
        BY <1>8, <3>2
    <3>5. \A p \in Pids : IsChild(cpu, p) => saved'[p] = saved[p]
        BY <1>8, <3>2
    <3>6. Chain(cpu)'
        BY <1>8, <2>1, <3>1, <3>3, <3>4, <3>5, SameChain DEF Mine
    <3>7. QED BY <1>1, <3>4, <3>6 DEF Settled
  <2>2. CASE pc[cpu] # "ha_parent"
      BY <1>1, <1>8, <2>2, Popped DEF Mine
  <2>3. QED BY <2>1, <2>2
<1>10. Thread(cpu)'
    BY <1>1, <1>9 DEF Thread, CallThread, TypeOK
<1>11. Registers(cpu)'
    BY DEF Registers, TypeOK
<1>12. BaseSlot(cpu)'
    BY <1>1 DEF Mine, BaseSlot, TypeOK
<1>13. QED BY <1>7, <1>9, <1>10, <1>11, <1>12, Compose DEF Mine, OthersKept

\* There is always a process to halt.
LEMMA NoNobody ==
    ASSUME TypeOK, IInv, AllStarted, KeySafe
    PROVE  ~HaltNobody
<1> USE Now, Numbers DEF Scan, Fill, Build, Leave
<1>1. SUFFICES ASSUME HaltNobody PROVE FALSE
    OBVIOUS
<1> DEFINE c == curr_pid[cpu]
<1>2. caller[cpu] = "user" /\ CallThread(cpu)
    BY <1>1 DEF HaltNobody, IsBaseShell, Mine, Thread, BaseThread
<1>3. pc[cpu] \in {"user", "ex_check", "ex_scan", "ex_claim", "ex_tss", "ex_run", "ex_iret",
                  "ha_test", "ha_base", "ha_free", "ha_parent"}
    BY <1>2 DEF KeySafe, SafeKey
<1>4. c \in Pids /\ owner[c] = cpu /\ ~Filling(cpu, c) /\ (pc[cpu] # "ha_parent" => pid[c] = 1)
    BY <1>2, <1>3 DEF CallThread, Settled, Filling, TypeOK
<1>5. c # cpu /\ parent_pid[c] = None
    BY <1>1, <1>4 DEF HaltNobody, IsBaseShell
<1>6. CASE pc[cpu] = "ha_parent"
    BY <1>2, <1>5, <1>6 DEF CallThread, Settled
<1>7. CASE pc[cpu] # "ha_parent"
    BY <1>4, <1>5, <1>7 DEF IsChild, Mine, Chain, InChain, Settled
<1>8. QED BY <1>6, <1>7

\* Ctrl-C keeps the invariant.
LEMMA CtrlCSafe == SafePoints /\ TypeOK /\ IInv /\ CtrlC => IInv'
<1> SUFFICES ASSUME SafePoints, TypeOK, IInv, CtrlC PROVE IInv'
    OBVIOUS
<1>1. AllStarted /\ KeySafe
    BY DEF SafePoints, CtrlC, UsersType, KeySafe, InUser
<1>2. QED BY <1>1, HaltBaseSafe, HaltChildSafe, NoNobody DEF CtrlC

\* An exception keeps the invariant.
LEMMA FaultSafe == SafePoints /\ TypeOK /\ IInv /\ Fault => IInv'
<1> SUFFICES ASSUME SafePoints, TypeOK, IInv, Fault PROVE IInv'
    OBVIOUS
<1>1. AllStarted /\ KeySafe
    BY DEF SafePoints, Fault, UsersType, KeySafe, At
<1>2. QED BY <1>1, HaltBaseSafe, HaltChildSafe DEF Fault

-----------------------------------------------------------------------------
(***************************************************************************)
(* The scheduler.                                                          *)
(***************************************************************************)
\* The process a terminal resumes is its own.
LEMMA Homes ==
    ASSUME TypeOK, NEW u \in Terms, Thread(u), Started(u)
    PROVE  term_proc[u] \in Pids /\ owner[term_proc[u]] = u
<1> USE DEF Scan, Fill, Build, Leave
<1>1. CASE caller[u] = "user"
  <2>1. CallThread(u) /\ pc[u] \in Labels
      BY <1>1 DEF Thread, TypeOK
  <2>2. CASE pc[u] = "ha_parent"
      BY <2>1, <2>2 DEF CallThread, Started, TypeOK
  <2>3. CASE pc[u] \in Build \cup {"ex_pcb"}
      BY <2>1, <2>3 DEF CallThread, Settled
  <2>4. CASE pc[u] \notin Build \cup {"ex_pcb", "ha_parent"}
      BY <2>1, <2>4 DEF CallThread, Settled, Labels, ExecLabels, HaltLabels
  <2>5. QED BY <2>2, <2>3, <2>4
<1>2. CASE caller[u] # "user"
    BY <1>2, Numbers DEF Thread, BaseThread
<1>3. QED BY <1>1, <1>2

\* The next terminal is another one.
LEMMA NextTermIsOther ==
    ASSUME active_term \in Terms
    PROVE  NextTerm \in Terms /\ NextTerm # active_term
<1>1. active_term \in Nat /\ TERM_COUNT \in Nat /\ TERM_COUNT > 1 /\ active_term < TERM_COUNT
    BY TermCountAssumption DEF Terms
<1>2. CASE active_term + 1 < TERM_COUNT
  <2>1. (active_term + 1) % TERM_COUNT = active_term + 1
      BY <1>1, <1>2
  <2>2. QED BY <1>1, <1>2, <2>1 DEF NextTerm, Terms
<1>3. CASE active_term + 1 = TERM_COUNT
  <2>1. TERM_COUNT % TERM_COUNT = 0
      BY <1>1
  <2>2. QED BY <1>1, <1>3, <2>1 DEF NextTerm, Terms
<1>4. QED BY <1>1, <1>2, <1>3

\* Between any two points where ticks are safe, the scheduler goes round.
LEMMA TickSwitchSafe == SafePoints /\ TypeOK /\ IInv /\ AllStarted /\ TickSwitch => IInv'
<1> SUFFICES ASSUME SafePoints, TypeOK, IInv, AllStarted, TickSwitch PROVE IInv'
    OBVIOUS
<1> USE Now, Numbers DEF Scan, Fill, Build, Leave
<1>1. PICK n \in Terms : n = NextTerm /\ n # cpu
    BY NextTermIsOther
<1>2. \A u \in Terms : /\ Thread(u) /\ Chain(u) /\ BaseSlot(u)
                       /\ term_proc[u] \in Pids /\ owner[term_proc[u]] = u
    BY Homes DEF Mine, IInv, AllStarted, Started
<1>3. \A u \in Terms : pc[u] = "user" \/ <<caller[u], pc[u]>> \in SafeTick
    BY DEF Suspended, TickSwitch, TickArrives, InUser, SafePoints
<1>4. /\ \A u, v \in Terms : u # v => term_proc[u] # term_proc[v]
      /\ \A u \in Terms : u # cpu => schedule[term_proc[u]] = u
      /\ Contexts(term_proc[cpu])[term_proc[n]] = n
  <2>1. \A u, v \in Terms : u # v => term_proc[u] # term_proc[v]
      BY <1>2
  <2>2. \A u \in Terms : u # cpu => schedule[term_proc[u]] = u
      BY DEF Suspended
  <2>3. QED BY <1>1, <1>2, <2>1, <2>2 DEF Contexts, TypeOK
<1>5. /\ active_term' = n /\ cpu' = n
      /\ schedule' = [schedule EXCEPT ![term_proc[cpu]] = cpu, ![term_proc[n]] = None]
      /\ page' = term_proc[n] /\ esp0' = term_proc[n]
      /\ stack' = [t \in Terms |-> IF t = n /\ InUser(t) THEN None
                                   ELSE IF t = cpu THEN StackNow ELSE stack[t]]
      /\ UNCHANGED <<tables, terms, pcbs, image, term_proc, exception_status, pc, caller, slot>>
    BY <1>1, <1>4 DEF TickSwitch, SetStack, Contexts
<1> USE <1>5 DEF tables, terms, pcbs
<1>6. AllStarted' /\ ScheduledRuns' /\ Owned'
    BY DEF AllStarted, ScheduledRuns, IInv, Owned
<1>7. \A u \in Terms : pc[u] # "user" => stack'[u] = stack[u]
    BY DEF InUser, StackNow
<1>8. \A u \in Terms : Thread(u)'
  <2> SUFFICES ASSUME NEW u \in Terms PROVE Thread(u)'
      OBVIOUS
  <2>1. CASE caller[u] = "user"
    <3>1. \A p : Settled(u, p)' <=> Settled(u, p)
        BY DEF Settled, Filling
    <3>2. CallThread(u) /\ pc[u] # "ex_claim"
        BY <1>2, <1>3, <2>1 DEF Thread, SafeTick
    <3>3. CallThread(u)'
        BY <1>6, <1>7, <3>1, <3>2 DEF CallThread
    <3>4. QED BY <2>1, <3>3 DEF Thread
  <2>2. CASE caller[u] # "user"
    <3>1. BaseThread(u) /\ pc[u] \notin Scan /\ caller[u] # "tick" /\ pc[u] # "user"
        BY <1>2, <1>3, <2>2 DEF Thread, BaseThread, SafeTick, ExecLabels
    <3>2. BaseThread(u)'
        BY <1>7, <3>1 DEF BaseThread
    <3>3. QED BY <2>2, <3>2 DEF Thread
  <2>3. QED BY <2>1, <2>2
<1>9. \A u \in Terms : Chain(u)'
  <2>1. \A u \in Terms : Tip(u)' = Tip(u)
      BY DEF Tip
  <2>2. QED BY <1>2, <2>1 DEF Chain, InChain, IsChild, Settled, Filling
<1>10. \A u \in Terms : u # n => Suspended(u)'
  <2> SUFFICES ASSUME NEW u \in Terms, u # n PROVE Suspended(u)'
      OBVIOUS
  <2>1. schedule'[term_proc[u]] = u
      BY <1>1, <1>2, <1>4 DEF TypeOK
  <2>2. pc[u] = "user" => stack'[u] = curr_pid[u]
    <3>1. CASE u = cpu
        BY <3>1 DEF Mine, Registers, Thread, CallThread, BaseThread, StackNow, InUser, ExecLabels
    <3>2. CASE u # cpu
        BY <3>2 DEF Suspended
    <3>3. QED BY <3>1, <3>2
  <2>3. QED BY <1>3, <2>1, <2>2 DEF Suspended
<1>11. Registers(n)'
  <2>1. pc[n] \in {"ex_load", "ex_save", "ex_tss", "ex_run"} => caller[n] # "user"
      BY <1>3 DEF SafeTick
  <2>2. pc[n] \in {"ex_load", "ex_save", "ex_tss", "ex_run"} => curr_pid[n] = term_proc[n]
      BY <1>2, <2>1 DEF Thread, BaseThread
  <2>3. pc[n] \notin {"ha_tss", "ha_ret"}
      BY <1>3 DEF SafeTick, ExecLabels
  <2>4. QED BY <2>2, <2>3 DEF Registers
<1>12. \A u \in Terms : BaseSlot(u)'
  <2> SUFFICES ASSUME NEW u \in Terms PROVE BaseSlot(u)'
      OBVIOUS
  <2>1. pid[u] # 0
      BY <1>2, <1>3 DEF BaseSlot, SafeTick
  <2>2. QED BY <1>2, <2>1 DEF BaseSlot
<1>13. QED BY <1>6, <1>8, <1>9, <1>10, <1>11, <1>12 DEF IInv, Good

\* Once every terminal has its shell, a tick does nothing else.
LEMMA TickSafe == SafePoints /\ TypeOK /\ IInv /\ AllStarted /\ Tick => IInv'
<1> SUFFICES ASSUME SafePoints, TypeOK, IInv, AllStarted, Tick PROVE IInv'
    OBVIOUS
<1>1. ~StartsTerminal(active_term)
    BY Now, Numbers DEF StartsTerminal, AllStarted
<1>2. ~TickNowhere
    BY Now, NextTermIsOther DEF TickNowhere, AllStarted
<1>3. QED BY <1>1, <1>2, TickSwitchSafe DEF Tick, TickStart, TickStartFails

-----------------------------------------------------------------------------
(***************************************************************************)
(* Until every terminal has its shell.                                     *)
(***************************************************************************)
LEMMA Early ==
    ASSUME TypeOK, IInv, ~AllStarted
    PROVE  /\ cpu \in Terms /\ active_term = cpu /\ Starting
           /\ \A p \in Pids \ Terms : pid[p] = 0
           /\ \A u \in Terms : Started(u) => Thread(u) /\ (u # cpu => Suspended(u))
<1>1. cpu \in Terms /\ active_term = cpu /\ Starting
    BY Numbers DEF IInv, ScheduledRuns, TypeOK
<1>2. \A p \in Pids \ Terms : p > active_term
    BY <1>1, TermCountAssumption, PidMaxAssumption DEF Pids, Terms
<1>3. QED BY <1>1, <1>2 DEF IInv, Good, Starting

\* The first shell: until ex_run no terminal has one.
LEMMA BootSafe == TypeOK /\ IInv /\ ~Started(cpu) /\ KernelStep => IInv'
<1> SUFFICES ASSUME TypeOK, IInv, ~Started(cpu), KernelStep PROVE IInv'
    OBVIOUS
<1>1. ~AllStarted
    BY Numbers DEF AllStarted, Started, IInv, ScheduledRuns, TypeOK
<1>2. /\ cpu = 0 /\ active_term = 0 /\ Booting
      /\ \A p \in Pids : p # 0 => pid[p] = 0
      /\ \A u \in Terms : u # 0 => u > 0
      /\ \A u \in Terms : u # 0 => /\ ~Started(u) /\ pc[u] = "off" /\ caller[u] = "user"
                                   /\ curr_pid[u] = None /\ stack[u] = None
  <2>1. cpu <= active_term
      BY <1>1, Early DEF Terms
  <2>2. cpu = 0 /\ active_term = 0 /\ Booting
      BY <1>1, <2>1, Early DEF Starting
  <2>3. \A p \in Pids : p # 0 => p > 0
      BY DEF Pids
  <2>4. \A u \in Terms : u # 0 => u > 0
      BY DEF Terms
  <2>5. QED BY <1>1, <2>2, <2>3, <2>4, Early DEF Starting
<1>3. caller[0] = "boot" /\ pc[0] \in ExecLabels \ {"ex_iret"} /\ slot[0] = 0 /\ pid[0] \in 0 .. 1
    BY <1>2, Numbers DEF Booting, TypeOK
\* What every one of its steps keeps.
<1> DEFINE Rest == /\ UNCHANGED <<active_term, cpu, caller>>
                   /\ slot'[0] = 0 /\ stack'[0] = 0
                   /\ \A p \in Pids : p # 0 => pid'[p] = 0
                   /\ \A u \in Terms : u # 0 =>
                        /\ term_proc'[u] = None /\ pc'[u] = "off"
                        /\ curr_pid'[u] = None /\ stack'[u] = None
<1>4. Rest /\ term_proc' = term_proc /\ Booting' => IInv'
  <2> SUFFICES ASSUME Rest, term_proc' = term_proc, Booting' PROVE IInv'
      OBVIOUS
  <2>1. ~AllStarted' /\ \A u \in Terms : ~Started(u)'
      BY <1>1, <1>2 DEF AllStarted, Started
  <2>2. Starting'
    <3>1. \A t \in Terms : t > 0 => t # 0
        OBVIOUS
    <3>2. \A p \in Pids : p > 0 => p # 0
        OBVIOUS
    <3>3. \A t \in Terms : t <= 0 => t = 0
        BY DEF Terms
    <3>4. QED BY <1>2, <2>1, <3>1, <3>2, <3>3 DEF Starting
  <2>3. Owned'
      BY <1>2, Numbers DEF Owned, Booting
  <2>4. QED BY <1>2, <2>1, <2>2, <2>3, Numbers DEF IInv, ScheduledRuns
<1> USE <1>2, <1>3, Numbers DEF Scan, Booting, At, Goto, HasProcess, tables, terms, pcbs, frames,
                                sched, thread, TypeOK, Started, ExecLabels
<1> HIDE DEF Rest
<1>5. CASE ExCheck
    BY <1>4, <1>5 DEF ExCheck, Rest
<1>6. CASE ExScan
  <2>1. IsFree(slot[0])
      BY <1>6 DEF ExScan, IsFree
  <2>2. QED BY <1>4, <1>6, <2>1 DEF ExScan, Rest
<1>7. CASE ExClaim
    BY <1>4, <1>7 DEF ExClaim, Rest
<1>8. CASE ExEnter
    BY <1>4, <1>8 DEF ExEnter, Rest
<1>9. CASE ExPcb
    BY <1>4, <1>9 DEF ExPcb, Rest
<1>10. CASE ExMap
    BY <1>4, <1>10 DEF ExMap, Rest
<1>11. CASE ExLoad
    BY <1>4, <1>11 DEF ExLoad, Rest
<1>12. CASE ExSave
    BY <1>4, <1>12 DEF ExSave, Rest
<1>13. CASE ExTss
    BY <1>4, <1>13 DEF ExTss, Rest
<1>14. CASE ExRun
  <2>1. /\ Rest /\ term_proc' = [term_proc EXCEPT ![0] = 0] /\ pc'[0] = "ex_iret"
        /\ UNCHANGED <<tables, terms, pcbs, frames, esp0, sched, thread>>
        /\ pc[0] = "ex_run" /\ curr_pid[0] = 0
      BY <1>14 DEF ExRun, Rest
  <2>2. /\ pid[0] = 1 /\ owner[0] = 0 /\ image[0] = 0 /\ page = 0 /\ esp0 = 0 /\ stack[0] = 0
        /\ curr_pid[0] = 0
      BY <2>1
  <2>3. Thread(0)' /\ Registers(0)'
      BY <2>1, <2>2 DEF Thread, BaseThread, Registers, Fill, Build
  <2>4. Chain(0)' /\ Owned'
      BY <2>1, <2>2 DEF Chain, IsChild, Owned
  <2>5. ~AllStarted'
    <3>1. 1 \in Terms
        BY TermCountAssumption DEF Terms
    <3>2. QED BY <2>1, <3>1 DEF AllStarted, Rest
  <2>6. Starting'
    <3>1. \A t \in Terms : t > 0 => t # 0
        OBVIOUS
    <3>2. \A p \in Pids : p > 0 => p # 0
        OBVIOUS
    <3>3. \A t \in Terms : t <= 0 => t = 0
        BY DEF Terms
    <3>4. QED BY <2>1, <2>2, <3>1, <3>2, <3>3 DEF Starting, Rest
  <2>7. QED BY <2>1, <2>3, <2>4, <2>5, <2>6 DEF IInv, ScheduledRuns, Good, Rest
<1>15. ~ExBadCommand /\ ~ExFull /\ ~ExIret
    BY DEF ExBadCommand, ExFull, IsFree, ExIret
<1>16. ~HaTest /\ ~HaBase /\ ~HaFree /\ ~HaParent /\ ~HaMap /\ ~HaTss /\ ~HaRet
    BY DEF HaTest, HaBase, HaFree, HaParent, HaMap, HaTss, HaRet
<1>17. ~Derail
    BY DEF Derail
<1>18. QED BY <1>5, <1>6, <1>7, <1>8, <1>9, <1>10, <1>11, <1>12, <1>13, <1>14, <1>15, <1>16, <1>17
           DEF KernelStep

\* The other steps of the kernel before then: a new shell enters its program.
LEMMA EarlyStepSafe ==
    TypeOK /\ IInv /\ ~AllStarted /\ Started(cpu) /\ KernelStep => IInv'
<1> SUFFICES ASSUME TypeOK, IInv, ~AllStarted, Started(cpu), KernelStep PROVE IInv'
    OBVIOUS
<1> USE Early DEF Scan, Fill, Build, Leave
<1>1. /\ pc[cpu] \in {"user", "ex_iret"} /\ term_proc[cpu] = cpu /\ curr_pid[cpu] = cpu
      /\ pid[cpu] = 1 /\ owner[cpu] = cpu
    BY DEF Starting, Terms
<1>2. ExIret
    BY <1>1 DEF KernelStep, At, ExBadCommand, ExCheck, ExScan, ExFull, ExClaim, ExEnter, ExPcb,
                ExMap, ExLoad, ExSave, ExTss, ExRun, HaTest, HaBase, HaFree, HaParent, HaMap,
                HaTss, HaRet, Derail
<1>3. /\ pc' = [pc EXCEPT ![cpu] = "user"] /\ caller' = [caller EXCEPT ![cpu] = "user"]
      /\ stack' = [stack EXCEPT ![cpu] = None] /\ pc[cpu] = "ex_iret"
      /\ UNCHANGED <<tables, terms, pcbs, frames, esp0, term_proc, sched, slot>>
    BY <1>2 DEF ExIret, At, Goto, ReturnToUser
<1> USE <1>3 DEF tables, terms, pcbs, frames, sched
<1>4. image[cpu] = cpu /\ page = cpu /\ esp0 = cpu
    BY <1>1 DEF Thread, BaseThread, CallThread, Settled, IInv, Registers
<1>5. Thread(cpu)' /\ Registers(cpu)'
    BY <1>1, <1>4, Numbers DEF Thread, CallThread, Settled, Filling, Registers, TypeOK
<1>6. ~AllStarted' /\ \A u \in Terms : Started(u)' <=> Started(u)
    BY DEF AllStarted, Started
<1>7. \A u \in Terms : u # cpu /\ Started(u) => Thread(u)' /\ Suspended(u)'
  <2> SUFFICES ASSUME NEW u \in Terms, u # cpu, Started(u) PROVE Thread(u)' /\ Suspended(u)'
      OBVIOUS
  <2>1. Thread(u) /\ Suspended(u)
      OBVIOUS
  <2>2. /\ pc'[u] = pc[u] /\ caller'[u] = caller[u] /\ stack'[u] = stack[u]
        /\ pc[u] # "ex_claim" /\ (caller[u] = "user" => pc[u] \in {"user", "ex_iret"})
    <3>1. u <= active_term
        BY DEF Starting, Terms
    <3>2. pc[u] \in {"user", "ex_iret"}
        BY <3>1 DEF Starting
    <3>3. QED BY <3>2 DEF TypeOK
  <2>3. Suspended(u)'
      BY <2>1, <2>2 DEF Suspended
  <2>4. Thread(u)'
      BY <2>1, <2>2 DEF Thread, CallThread, BaseThread, Settled, Filling
  <2>5. QED BY <2>3, <2>4
<1>8. \A u \in Terms : Chain(u)'
    BY DEF Chain, IsChild
<1>9. Starting'
  <2>1. \A t \in Terms : t > active_term => t # cpu
      BY DEF Terms
  <2>2. \A t \in Terms : t <= active_term /\ ~Started(t) => t = 0 /\ active_term = 0
      BY DEF Starting
  <2>3. \A t \in Terms : t <= active_term => Started(t)
      BY <2>2
  <2>4. QED BY <1>1, <1>6, <2>1, <2>3 DEF Starting, TypeOK
<1>10. Owned' /\ ScheduledRuns'
    BY DEF IInv, Owned, ScheduledRuns
<1>11. QED BY <1>5, <1>6, <1>7, <1>8, <1>9, <1>10 DEF IInv, Good

\* A tick starts the next terminal's shell in the slot with its number: the
\* lower slots are the earlier shells'.
LEMMA NextSlotFirst ==
    ASSUME TypeOK, IInv, ~AllStarted, Started(cpu), active_term + 1 \in Terms
    PROVE  ~Full(pid) /\ FirstFree(pid) = active_term + 1
<1> USE Early, Numbers
<1> DEFINE k == active_term
<1>1. k \in Nat /\ k + 1 \in Pids
    BY DEF Terms
<1>2. pid \in [Pids -> 0 .. 1] /\ pid[k + 1] = 0
    BY <1>1 DEF TypeOK, Starting
<1>3. \A j \in Pids : j <= k => pid[j] = 1
  <2>1. \A j \in Pids : j <= k => j \in Terms
      BY TermCountAssumption DEF Pids, Terms
  <2>2. \A t \in Terms : t <= k => Started(t)
      BY DEF Starting
  <2>3. QED BY <2>1, <2>2 DEF Starting
<1>4. ~Full(pid)
    BY <1>1, <1>2 DEF Full
<1> DEFINE i == FirstFree(pid)
<1>5. i \in Pids /\ pid[i] = 0 /\ \A j \in Pids : j < i => pid[j] # 0
    BY <1>2, <1>4, FirstFreeIsFree
<1> HIDE DEF i
<1>6. ~(i <= k) /\ ~(k + 1 < i)
    BY <1>1, <1>2, <1>3, <1>5
<1>7. i = k + 1
    BY <1>1, <1>5, <1>6 DEF Pids
<1>8. QED BY <1>4, <1>7 DEF i

\* A tick before every terminal has its shell starts the next one's.
LEMMA EarlyTickDoes ==
    ASSUME SafePoints, TypeOK, IInv, ~AllStarted, Tick
    PROVE  \E k \in Terms :
             /\ k = cpu /\ Started(cpu) /\ TickStart
             /\ \A t \in Terms : t <= k => /\ Started(t) /\ term_proc[t] = t /\ curr_pid[t] = t
                                           /\ pid[t] = 1 /\ owner[t] = t /\ pc[t] \in {"user", "ex_iret"}
             /\ k + 1 \in Terms
             /\ schedule' = [schedule EXCEPT ![k] = k] /\ active_term' = k + 1 /\ cpu' = k + 1
             /\ pid' = [pid EXCEPT ![k + 1] = 1] /\ owner' = [owner EXCEPT ![k + 1] = k + 1]
             /\ curr_pid' = [curr_pid EXCEPT ![k + 1] = k + 1]
             /\ prev_pid' = [prev_pid EXCEPT ![k + 1] = curr_pid[k + 1]]
             /\ parent_pid' = [parent_pid EXCEPT ![k + 1] = curr_pid[k + 1]]
             /\ page' = k + 1 /\ esp0' = k + 1 /\ image' = [image EXCEPT ![k + 1] = k + 1]
             /\ term_proc' = [term_proc EXCEPT ![k + 1] = k + 1]
             /\ pc' = [pc EXCEPT ![k + 1] = "ex_iret"] /\ caller' = [caller EXCEPT ![k + 1] = "tick"]
             /\ slot' = [slot EXCEPT ![k + 1] = k + 1]
             /\ stack' = [stack EXCEPT ![k] = StackNow, ![k + 1] = StackNow]
             /\ pc[k] = "user" \/ <<caller[k], pc[k]>> \in TickPoints
<1> USE Early, Numbers DEF Scan, Fill, Build, Leave
<1>1. Started(cpu)
  <2>1. SUFFICES ASSUME ~Started(cpu) PROVE FALSE
      OBVIOUS
  <2>2. \A t \in Terms : ~Started(t)
      BY <2>1 DEF Starting, Terms
  <2>3. QED BY <2>2 DEF Tick, TickStart, TickStartFails, TickSwitch, TickNowhere, StartsTerminal,
                        Started
<1>2. PICK k \in Terms : k = cpu
    OBVIOUS
<1>3. \A t \in Terms : t <= k => /\ Started(t) /\ term_proc[t] = t /\ curr_pid[t] = t
                                 /\ pid[t] = 1 /\ owner[t] = t /\ pc[t] \in {"user", "ex_iret"}
    BY <1>1, <1>2 DEF Starting
<1>4. k + 1 \in Terms
  <2>1. \A t \in Terms : t <= TERM_COUNT - 1
      BY DEF Terms
  <2>2. k # TERM_COUNT - 1
      BY <1>3, <2>1 DEF AllStarted, Started
  <2>3. QED BY <1>2, <2>2, TermCountAssumption DEF Terms
<1>5. StartsTerminal(k) /\ ~Full(pid) /\ FirstFree(pid) = k + 1
  <2>1. 0 <= k /\ k <= k /\ k + 1 > k /\ k + 1 < TERM_COUNT
      BY <1>4, TermCountAssumption DEF Terms
  <2>2. term_proc[0] = 0 /\ term_proc[k] # None
      BY <1>3, <2>1 DEF Started
  <2>3. term_proc[k + 1] = None
      BY <1>2, <1>4, <2>1 DEF Starting, Started
  <2>4. QED BY <1>1, <1>2, <1>4, <2>1, <2>2, <2>3, NextSlotFirst DEF StartsTerminal
<1>6. TickStart
    BY <1>2, <1>5 DEF Tick, TickStartFails, TickSwitch, TickNowhere
<1>7. /\ schedule' = [schedule EXCEPT ![k] = k] /\ active_term' = k + 1 /\ cpu' = k + 1
      /\ pid' = [pid EXCEPT ![k + 1] = 1] /\ owner' = [owner EXCEPT ![k + 1] = k + 1]
      /\ curr_pid' = [curr_pid EXCEPT ![k + 1] = k + 1]
      /\ prev_pid' = [prev_pid EXCEPT ![k + 1] = curr_pid[k + 1]]
      /\ parent_pid' = [parent_pid EXCEPT ![k + 1] = curr_pid[k + 1]]
      /\ page' = k + 1 /\ esp0' = k + 1 /\ image' = [image EXCEPT ![k + 1] = k + 1]
      /\ term_proc' = [term_proc EXCEPT ![k + 1] = k + 1]
      /\ pc' = [pc EXCEPT ![k + 1] = "ex_iret"] /\ caller' = [caller EXCEPT ![k + 1] = "tick"]
      /\ slot' = [slot EXCEPT ![k + 1] = k + 1]
      /\ stack' = [stack EXCEPT ![k] = StackNow, ![k + 1] = StackNow]
      /\ pc[k] = "user" \/ <<caller[k], pc[k]>> \in TickPoints
    BY <1>2, <1>5, <1>6 DEF TickStart, StartShell, TickArrives, InUser
<1>8. QED BY <1>1, <1>2, <1>3, <1>4, <1>6, <1>7

\* The first ticks, which start the base shells, keep the invariant.
LEMMA EarlyTickSafe == SafePoints /\ TypeOK /\ IInv /\ ~AllStarted /\ Tick => IInv'
<1> SUFFICES ASSUME SafePoints, TypeOK, IInv, ~AllStarted, Tick PROVE IInv'
    OBVIOUS
<1> USE Early, Numbers DEF Scan, Fill, Build, Leave
<1>1. PICK k \in Terms :
             /\ k = cpu /\ Started(cpu) /\ TickStart
             /\ \A t \in Terms : t <= k => /\ Started(t) /\ term_proc[t] = t /\ curr_pid[t] = t
                                           /\ pid[t] = 1 /\ owner[t] = t /\ pc[t] \in {"user", "ex_iret"}
             /\ k + 1 \in Terms
             /\ schedule' = [schedule EXCEPT ![k] = k] /\ active_term' = k + 1 /\ cpu' = k + 1
             /\ pid' = [pid EXCEPT ![k + 1] = 1] /\ owner' = [owner EXCEPT ![k + 1] = k + 1]
             /\ curr_pid' = [curr_pid EXCEPT ![k + 1] = k + 1]
             /\ prev_pid' = [prev_pid EXCEPT ![k + 1] = curr_pid[k + 1]]
             /\ parent_pid' = [parent_pid EXCEPT ![k + 1] = curr_pid[k + 1]]
             /\ page' = k + 1 /\ esp0' = k + 1 /\ image' = [image EXCEPT ![k + 1] = k + 1]
             /\ term_proc' = [term_proc EXCEPT ![k + 1] = k + 1]
             /\ pc' = [pc EXCEPT ![k + 1] = "ex_iret"] /\ caller' = [caller EXCEPT ![k + 1] = "tick"]
             /\ slot' = [slot EXCEPT ![k + 1] = k + 1]
             /\ stack' = [stack EXCEPT ![k] = StackNow, ![k + 1] = StackNow]
             /\ pc[k] = "user" \/ <<caller[k], pc[k]>> \in TickPoints
    BY EarlyTickDoes
<1> USE <1>1
<1>8. k # k + 1 /\ k + 1 \in Pids /\ k \in Nat
    BY <1>1 DEF Terms
<1>9. Thread(k + 1)' /\ Registers(k + 1)'
    BY <1>1, <1>8 DEF Thread, BaseThread, Registers, ExecLabels, TypeOK
<1>10. \A p \in Pids \ Terms : pid'[p] = 0
    BY <1>1, <1>8 DEF TypeOK
<1>11. \A u \in Terms : Chain(u)'
    BY <1>10 DEF Chain, IsChild
<1>12. \A u \in Terms : u # k + 1 => (Started(u)' <=> Started(u)) /\ (Started(u) => u <= k)
  <2>1. \A u \in Terms : Started(u) => u <= k
      BY <1>1 DEF Starting, Terms
  <2>2. QED BY <1>1, <2>1 DEF Started, TypeOK
<1>13. \A u \in Terms : u # k + 1 /\ Started(u) => Thread(u)' /\ Suspended(u)'
  <2> SUFFICES ASSUME NEW u \in Terms, u # k + 1, Started(u) PROVE Thread(u)' /\ Suspended(u)'
      OBVIOUS
  <2>1. /\ term_proc[u] = u /\ curr_pid[u] = u /\ pid[u] = 1 /\ owner[u] = u
        /\ pc[u] \in {"user", "ex_iret"} /\ Thread(u) /\ (u # k => Suspended(u))
      BY <1>1, <1>12
  <2>2. /\ pc'[u] = pc[u] /\ caller'[u] = caller[u] /\ slot'[u] = slot[u]
        /\ curr_pid'[u] = curr_pid[u] /\ prev_pid'[u] = prev_pid[u]
        /\ term_proc'[u] = term_proc[u] /\ pid'[u] = 1 /\ owner'[u] = owner[u]
        /\ image'[u] = image[u] /\ parent_pid'[u] = parent_pid[u]
        /\ stack'[u] = (IF u = k THEN StackNow ELSE stack[u])
        /\ schedule'[u] = (IF u = k THEN k ELSE schedule[u])
      BY <1>1, <1>8, <2>1 DEF TypeOK
  <2>3. pc[u] = "user" \/ <<caller[u], pc[u]>> \in SafeTick
      BY <2>1 DEF Suspended, SafePoints
  <2>4. pc[u] # "user" => stack'[u] = stack[u]
      BY <1>1, <2>2 DEF StackNow, InUser
  <2>5. pc[u] = "user" => stack'[u] = curr_pid[u]
    <3>1. CASE u = k
      <4>1. pc[k] = "user" => esp0 = k
          BY <1>1, <2>1, <3>1 DEF IInv, Registers
      <4>2. QED BY <1>1, <2>1, <2>2, <3>1, <4>1 DEF StackNow, InUser
    <3>2. CASE u # k
        BY <2>1, <2>2, <3>2 DEF Suspended
    <3>3. QED BY <3>1, <3>2
  <2>6. Suspended(u)'
      BY <2>1, <2>2, <2>3, <2>5 DEF Suspended
  <2>7. Thread(u)'
    <3>1. CASE caller[u] = "user"
      <4>1. CallThread(u) /\ ~(pc[u] = "ex_iret")
          BY <2>1, <3>1 DEF Thread, CallThread
      <4>2. Settled(u, u)'
          BY <2>1, <2>2, <4>1 DEF CallThread, Settled, Filling
      <4>3. QED BY <2>1, <2>2, <3>1, <4>1, <4>2 DEF Thread, CallThread
    <3>2. CASE caller[u] # "user"
      <4>1. BaseThread(u) /\ pc[u] = "ex_iret" /\ caller[u] # "tick"
          BY <2>1, <2>3, <3>2 DEF Thread, BaseThread, SafeTick, ExecLabels
      <4>2. QED BY <2>2, <2>4, <3>2, <4>1 DEF Thread, BaseThread
    <3>3. QED BY <3>1, <3>2
  <2>8. QED BY <2>6, <2>7
<1>14. Owned' /\ ScheduledRuns'
    BY <1>1, <1>8 DEF IInv, Owned, ScheduledRuns, TypeOK
<1>15. CASE AllStarted'
  <2>1. \A u \in Terms : u <= k \/ u = k + 1
      BY <1>12, <1>15 DEF AllStarted, Started
  <2>2. \A u \in Terms : u <= k => image[u] = u
      BY <1>1 DEF Thread, BaseThread, CallThread, Settled
  <2>3. \A u \in Terms : pid'[u] = 1 /\ owner'[u] = u /\ image'[u] = u
      BY <1>1, <1>8, <2>1, <2>2 DEF TypeOK
  <2>4. QED BY <1>9, <1>11, <1>12, <1>13, <1>14, <1>15, <2>3 DEF IInv, Good, BaseSlot
<1>16. CASE ~AllStarted'
  <2>1. \A t \in Terms : t > k + 1 => t > k /\ t # k + 1
      BY <1>8 DEF Terms
  <2>2. \A t \in Terms : t > k + 1 =>
           ~Started(t)' /\ pc'[t] = "off" /\ caller'[t] = "user" /\ curr_pid'[t] = None
                        /\ stack'[t] = None
    <3>1. \A t \in Terms : t > k + 1 => t # k
        BY <1>8 DEF Terms
    <3>2. QED BY <1>1, <2>1, <3>1 DEF Starting, Started, TypeOK
  <2>3. \A p \in Pids : p > k + 1 => pid'[p] = 0
    <3>1. \A p \in Pids : p > k + 1 => p > k /\ p # k + 1
        BY <1>8 DEF Pids
    <3>2. QED BY <1>1, <1>8, <3>1 DEF Starting, TypeOK
  <2>4. \A t \in Terms : t <= k + 1 => t <= k \/ t = k + 1
      BY <1>8 DEF Terms
  <2>5. \A t \in Terms : t <= k + 1 =>
           /\ Started(t)' /\ term_proc'[t] = t /\ curr_pid'[t] = t
           /\ pid'[t] = 1 /\ owner'[t] = t /\ pc'[t] \in {"user", "ex_iret"}
    <3>1. \A t \in Terms : t <= k => t # k + 1
        BY <1>8 DEF Terms
    <3>2. QED BY <1>1, <1>8, <2>4, <3>1 DEF Started, TypeOK
  <2>6. Starting'
    <3>1. active_term' = k + 1
        OBVIOUS
    <3> HIDE <1>1
    <3>2. QED BY <2>2, <2>3, <2>5, <3>1 DEF Starting
  <2>7. QED BY <1>9, <1>11, <1>12, <1>13, <1>14, <1>16, <2>6 DEF IInv, Good
<1>17. QED BY <1>15, <1>16

-----------------------------------------------------------------------------
(***************************************************************************)
(* The invariant and what follows from it.                                 *)
(***************************************************************************)
LEMMA InitSafe == Init => IInv
<1> SUFFICES ASSUME Init PROVE IInv
    OBVIOUS
<1> USE Numbers DEF Init
<1>1. ~AllStarted /\ \A t \in Terms : ~Started(t)
    BY DEF AllStarted, Started
<1>2. Booting
    BY DEF Booting, ExecLabels, Scan
<1>3. Starting
  <2>1. \A t \in Terms : t > 0 => t # 0
      BY DEF Terms
  <2>2. \A t \in Terms : t <= 0 => t = 0
      BY DEF Terms
  <2>3. QED BY <1>1, <1>2, <2>1, <2>2 DEF Starting
<1>4. Owned /\ ScheduledRuns
    BY DEF Owned, ScheduledRuns
<1>5. QED BY <1>1, <1>3, <1>4 DEF IInv

\* Every step keeps the invariant.
LEMMA NextSafe == SafePoints /\ TypeOK /\ IInv /\ [Next]_vars => IInv'
<1> SUFFICES ASSUME SafePoints, TypeOK, IInv, [Next]_vars PROVE IInv'
    OBVIOUS
<1>1. CASE UNCHANGED vars
    BY <1>1 DEF vars, tables, terms, pcbs, frames, sched, thread, IInv, ScheduledRuns, Owned, Good,
                Started, Thread, CallThread, BaseThread, Settled, Filling, AllStarted, Chain,
                InChain, IsChild, Tip, Suspended, Registers, BaseSlot, Starting, Booting
<1>2. CASE Tick
    BY <1>2, TickSafe, EarlyTickSafe
<1>3. CASE CtrlC \/ Fault
    BY <1>3, CtrlCSafe, FaultSafe
<1>4. CASE (SysExecute \/ SysHalt)
  <2>1. AllStarted
      BY <1>4 DEF SafePoints, SysExecute, SysHalt, UsersType
  <2>2. QED BY <1>4, <2>1, SysExecuteSafe, SysHaltSafe
<1>5. CASE KernelStep /\ ~AllStarted
    BY <1>5, BootSafe, EarlyStepSafe
<1>6. CASE KernelStep /\ AllStarted
    BY <1>6, ExBadCommandSafe, ExCheckSafe, ExScanSafe, ExFullSafe, ExClaimSafe, ExEnterSafe,
       ExPcbSafe, ExMapSafe, ExLoadSafe, ExSaveSafe, ExTssSafe, ExRunSafe, ExIretSafe, HaTestSafe,
       HaBaseSafe, HaFreeSafe, HaParentSafe, HaMapSafe, HaTssSafe, HaRetSafe, NoDerail DEF KernelStep
<1>7. QED BY <1>1, <1>2, <1>3, <1>4, <1>5, <1>6 DEF Next

\* The invariant holds in every state.
LEMMA Safe == ASSUME SafePoints PROVE Spec => [](TypeOK /\ IInv)
<1>1. Init => TypeOK /\ IInv
    BY InitType, InitSafe
<1>2. TypeOK /\ IInv /\ [Next]_vars => (TypeOK /\ IInv)'
    BY NextType, NextSafe
<1>3. QED BY <1>1, <1>2, PTL DEF Spec

\* With interrupts at the safe points only, the terminal that is scheduled is the one
\* whose thread runs: the machine never resumes a context that is not there
\* (pit_handler, context_switch).
THEOREM Scheduled == ASSUME SafePoints PROVE Spec => []ScheduledRuns
<1>1. IInv => ScheduledRuns
    BY DEF IInv
<1>2. QED BY <1>1, Safe, PTL

\* The slot that execute has found free is still free when it claims it: no two
\* terminals create the same process.
LEMMA FreshSlotHolds == TypeOK /\ IInv => FreshSlot
<1> SUFFICES ASSUME TypeOK, IInv, At("ex_claim") PROVE pid[slot[cpu]] = 0
    BY DEF FreshSlot
<1> USE DEF Scan
<1>1. CASE AllStarted
    BY <1>1, Now DEF At, Mine, Thread, CallThread, BaseThread
<1>2. CASE ~AllStarted
  <2>1. Started(cpu) => pc[cpu] # "ex_claim"
      BY <1>2, Early DEF Starting, Terms
  <2>2. ~Started(cpu) => cpu = 0 /\ Booting
      BY <1>2, Early DEF Starting, Terms
  <2>3. QED BY <2>1, <2>2 DEF Booting, At
<1>3. QED BY <1>1, <1>2

\* A user program runs in its own frame and enters the kernel on its own stack.
LEMMA UserContextHolds == TypeOK /\ IInv => UserContext
<1> SUFFICES ASSUME TypeOK, IInv, cpu # None, InUser(cpu)
             PROVE  LET p == curr_pid[cpu] IN
                    /\ p # None /\ pid[p] = 1 /\ owner[p] = cpu
                    /\ term_proc[cpu] = p /\ page = p /\ esp0 = p
                    /\ image[p] = p
    BY DEF UserContext
<1>1. cpu \in Terms
    BY DEF TypeOK
<1>2. Started(cpu)
  <2>1. CASE AllStarted
      BY <1>1, <2>1 DEF AllStarted, Started
  <2>2. CASE ~AllStarted
      BY <2>2, Early DEF Starting, Terms, Booting, InUser, ExecLabels
  <2>3. QED BY <2>1, <2>2
<1>3. CallThread(cpu) /\ Registers(cpu)
    BY <1>1, <1>2 DEF IInv, Good, Thread, BaseThread, InUser, ExecLabels
<1>4. QED BY <1>3, Numbers DEF CallThread, Registers, Settled, InUser

\* With interrupts at the safe points only, the loading of a program (syscall.c:92-108)
\* not among them, a user program runs as its terminal's current process, in its own
\* frame, over its own program, and tss.esp0 names its own kernel stack.
THEOREM InItsOwnFrame == ASSUME SafePoints PROVE Spec => []UserContext
BY Safe, UserContextHolds, PTL

\* A thread's kernel stack is that of a process of its terminal.
LEMMA OwnStack ==
    ASSUME TypeOK, IInv, NEW u \in Terms, Started(u)
    PROVE  /\ u # cpu => stack[u] \in Pids /\ owner[stack[u]] = u
           /\ u = cpu /\ pc[u] # "ex_iret" => StackNow \in Pids /\ owner[StackNow] = u
<1> USE DEF Scan, Fill, Build, Leave
<1> DEFINE mine == IF u = cpu THEN StackNow ELSE stack[u]
<1>1. Good(u) /\ pc[u] \in Labels /\ u \in Pids
    BY Numbers DEF IInv, TypeOK
<1>2. CASE caller[u] # "user"
    BY <1>1, <1>2 DEF Good, Thread, BaseThread, Suspended, SafeTick, StackNow, InUser, ExecLabels
<1>3. CASE caller[u] = "user"
  <2>1. CallThread(u)
      BY <1>1, <1>3 DEF Good, Thread
  <2>2. CASE pc[u] = "user"
    <3>1. u = cpu => StackNow = curr_pid[u]
        BY <2>1, <2>2 DEF CallThread, Registers, IInv, StackNow, InUser
    <3>2. u # cpu => stack[u] = curr_pid[u]
        BY <1>1, <2>2 DEF Good, Suspended
    <3>3. QED BY <2>1, <2>2, <3>1, <3>2 DEF CallThread, Settled
  <2>3. CASE pc[u] = "ex_iret"
    <3>1. IsChild(u, curr_pid[u])
        BY <2>1, <2>3 DEF CallThread, IsChild, Settled
    <3>2. Settled(u, parent_pid[curr_pid[u]])
        BY <1>1, <3>1 DEF Good, Chain, InChain, IsChild
    <3>3. QED BY <2>1, <2>3, <3>2 DEF CallThread, Settled
  <2>4. CASE pc[u] \in HaltLabels \cup (ExecLabels \ {"ex_iret"})
    <3>1. u = cpu => StackNow = stack[u]
        BY <2>4 DEF StackNow, InUser, ExecLabels, HaltLabels
    <3>2. stack[u] \in Pids /\ owner[stack[u]] = u
      <4>1. CASE pc[u] \in Build \cup {"ex_pcb"}
          BY <2>1, <4>1 DEF CallThread, Settled
      <4>2. CASE pc[u] \in Leave \cup {"ha_parent"}
          BY <2>1, <4>2 DEF CallThread, TypeOK
      <4>3. CASE pc[u] \in Scan \cup {"ex_enter", "ha_test", "ha_base", "ha_free"}
          BY <2>1, <4>3 DEF CallThread, Settled
      <4>4. QED BY <2>4, <4>1, <4>2, <4>3 DEF ExecLabels, HaltLabels
    <3>3. QED BY <3>1, <3>2
  <2>5. QED BY <1>1, <2>1, <2>2, <2>3, <2>4 DEF Labels, CallThread
<1>4. QED BY <1>2, <1>3

\* No other thread uses the kernel stack of a suspended one.
LEMMA StacksPrivateHolds == TypeOK /\ IInv => StacksPrivate
<1> SUFFICES ASSUME TypeOK, IInv, NEW t \in Terms, NEW u \in Terms,
                    t # u, u # cpu, stack[u] # None, ~At("ex_iret")
             PROVE  stack[u] # (IF t = cpu THEN StackNow ELSE stack[t])
    BY DEF StacksPrivate
<1>1. cpu \in Terms /\ cpu = active_term
    BY Numbers DEF IInv, ScheduledRuns, TypeOK
<1>2. \A v \in Terms : ~Started(v) => v = cpu \/ stack[v] = None
  <2>1. CASE AllStarted
      BY <2>1 DEF AllStarted, Started
  <2>2. CASE ~AllStarted
      BY <1>1, <2>2 DEF IInv, Starting, Terms
  <2>3. QED BY <2>1, <2>2
<1>3. Started(u) /\ owner[stack[u]] = u
    BY <1>2, OwnStack
<1>4. Started(cpu)
  <2>1. CASE AllStarted
      BY <1>1, <2>1 DEF AllStarted, Started
  <2>2. CASE ~AllStarted
    <3>1. \A v \in Terms : v > 0 /\ v <= active_term => Started(v)
        BY <2>2 DEF IInv, Starting
    <3>2. ~Started(cpu) => cpu = 0
        BY <1>1, <2>2 DEF IInv, Starting, Terms
    <3>3. ~Started(cpu) => ~Started(u)
        BY <1>1, <2>2, <3>2 DEF IInv, Starting, Terms
    <3>4. QED BY <1>3, <3>3
  <2>3. QED BY <2>1, <2>2
<1>5. CASE t = cpu
    BY <1>1, <1>3, <1>4, <1>5, OwnStack, Numbers DEF At
<1>6. CASE t # cpu
    BY <1>2, <1>3, <1>6, OwnStack
<1>7. QED BY <1>5, <1>6

\* With interrupts at the safe points only, the test and claim of a slot
\* (syscall.c:70-71) not among them, no other thread uses the kernel stack a suspended
\* one will go on with.
THEOREM Private == ASSUME SafePoints PROVE Spec => []StacksPrivate
BY Safe, StacksPrivateHolds, PTL

\* The children are those of the terminals' chains.
LEMMA ChildrenAre ==
    ASSUME TypeOK, IInv
    PROVE  /\ \A p \in Children : p \in Pids /\ owner[p] \in Terms /\ IsChild(owner[p], p)
           /\ \A p \in Pids, t \in Terms : IsChild(t, p) => p \in Children
           /\ Children # {} => AllStarted
<1> USE DEF Fill
<1>1. \A p : p \in TERM_COUNT .. PID_MAX - 1 <=> p \in Pids \ Terms
    BY TermCountAssumption, PidMaxAssumption DEF Pids, Terms
<1>2. \A p \in Children : p \in Pids \ Terms /\ pid[p] = 1 /\ owner[p] \in Terms
    BY <1>1 DEF Children, SetUp, IInv, Owned
<1>3. \A p \in Children : IsChild(owner[p], p)
    BY <1>2 DEF Children, SetUp, IsChild, Filling
<1>4. ~AllStarted => \A p \in Pids \ Terms : pid[p] = 0
    BY Early
<1>5. ASSUME NEW p \in Pids, NEW t \in Terms, IsChild(t, p) PROVE p \in Children
  <2>1. AllStarted /\ pid[p] = 1 /\ owner[p] = t /\ p \notin Terms
      BY <1>4, <1>5 DEF IsChild
  <2>2. ASSUME NEW u \in Terms, pc[u] \in Fill, slot[u] = p PROVE FALSE
    <3>1. Thread(u)
        BY <2>1 DEF IInv, Good, AllStarted, Started
    <3>2. caller[u] = "user" => owner[p] = u
        BY <2>2, <3>1 DEF Thread, CallThread
    <3>3. caller[u] # "user" => p \in Terms
        BY <2>2, <3>1 DEF Thread, BaseThread
    <3>4. QED BY <1>5, <2>1, <2>2, <3>2, <3>3 DEF IsChild, Filling
  <2>3. QED BY <1>1, <2>1, <2>2 DEF Children, SetUp
<1>6. QED BY <1>2, <1>3, <1>4, <1>5

\* A child returns into the execute of its parent.
LEMMA FrameReadyHolds == TypeOK /\ IInv => FrameReady
<1> SUFFICES ASSUME TypeOK, IInv, NEW p \in Children, ~Building(p)
             PROVE  saved[p] = [stack |-> parent_pid[p], caller |-> "user"]
    BY DEF FrameReady
<1>1. p \in Pids /\ owner[p] \in Terms /\ IsChild(owner[p], p) /\ AllStarted
    BY ChildrenAre
<1>2. InChain(owner[p], p)
    BY <1>1 DEF IInv, Good, Chain, AllStarted, Started
<1>3. QED BY <1>1, <1>2 DEF InChain, Building

\* With interrupts at the safe points only, for ticks not syscall.c:70-71 and 155-204,
\* for Ctrl-C not 71-104 and 159-204, halt of a child returns through the frame its
\* parent's execute saved.
THEOREM FrameSaved == ASSUME SafePoints PROVE Spec => []FrameReady
BY Safe, FrameReadyHolds, PTL

\* The processes of each terminal form one chain, and none is leaked.
LEMMA ChainIntactHolds == TypeOK /\ IInv => ChainIntact
<1> SUFFICES ASSUME TypeOK, IInv, NEW p \in Children
             PROVE  /\ parent_pid[p] # None /\ pid[parent_pid[p]] = 1
                    /\ owner[parent_pid[p]] = owner[p]
                    /\ \A q \in Children : p # q => parent_pid[p] # parent_pid[q]
                    /\ p = Tip(owner[p]) \/ \E q \in Children : parent_pid[q] = p
    BY DEF ChainIntact
<1>1. p \in Pids /\ owner[p] \in Terms /\ AllStarted
    BY ChildrenAre
<1>2. \A q \in Children : IsChild(owner[q], q) /\ InChain(owner[q], q)
    BY <1>1, ChildrenAre DEF IInv, Good, Chain, AllStarted, Started
<1>3. \A q \in Children : Settled(owner[q], parent_pid[q])
    BY <1>2 DEF InChain
<1>4. \A q \in Children : p # q => parent_pid[p] # parent_pid[q]
  <2> SUFFICES ASSUME NEW q \in Children, p # q PROVE parent_pid[p] # parent_pid[q]
      OBVIOUS
  <2>1. CASE owner[p] = owner[q]
      BY <1>2, <2>1, ChildrenAre DEF InChain
  <2>2. CASE owner[p] # owner[q]
      BY <1>3, <2>2 DEF Settled
  <2>3. QED BY <2>1, <2>2
<1>5. p = Tip(owner[p]) \/ \E q \in Children : parent_pid[q] = p
    BY <1>1, <1>2, ChildrenAre DEF InChain
<1>6. QED BY <1>3, <1>4, <1>5, Numbers DEF Settled

\* With interrupts at the safe points only, the test and claim of a slot
\* (syscall.c:70-71) not among them, parents are alive and in the same terminal, none
\* has two children and no process is left behind (syscall.c:86-89, 160-205).
THEOREM ChainsKept == ASSUME SafePoints PROVE Spec => []ChainIntact
BY Safe, ChainIntactHolds, PTL

\* If nobody types before the shells are up and no tick lands in a restart
\* (syscall.c:150-71) or at another point left out, the test by which halt recognises a
\* base shell is right: slot t is terminal t's.
THEOREM BaseShellsStay == ASSUME SafePoints PROVE Spec => []BaseShells
<1>1. IInv => BaseShells
    BY DEF IInv, BaseShells, BaseSlot
<1>2. QED BY <1>1, Safe, PTL

\* No step frees a slot of another terminal.
LEMMA FreesOwnStep ==
    ASSUME SafePoints, TypeOK, IInv, Next, NEW p \in Pids, pid[p] = 1, pid'[p] = 0
    PROVE  owner[p] = active_term
<1> USE Numbers DEF Scan, Fill, Build, Leave
<1>1. AllStarted
  <2>1. SUFFICES ASSUME ~AllStarted PROVE FALSE
      OBVIOUS
  <2>2. ~SysExecute /\ ~SysHalt /\ ~CtrlC /\ ~Fault
      BY <2>1 DEF SafePoints, SysExecute, SysHalt, CtrlC, Fault, UsersType
  <2>3. pc[cpu] \notin HaltLabels
      BY <2>1, Early DEF Starting, Booting, HaltLabels, ExecLabels, Terms
  <2>4. CASE KernelStep
      BY <2>3, <2>4 DEF KernelStep, At, HaltLabels, ExBadCommand, ExCheck, ExScan, ExFull, ExClaim,
         ExEnter, ExPcb, ExMap, ExLoad, ExSave, ExTss, ExRun, ExIret, HaTest, HaBase, HaFree,
         HaParent, HaMap, HaTss, HaRet, Derail, tables, TypeOK
  <2>5. CASE Tick
    <3>1. pid \in [Pids -> 0 .. 1] /\ (~Full(pid) => FirstFree(pid) \in Pids)
        BY FirstFreeIsFree DEF TypeOK
    <3>2. QED BY <2>5, <3>1 DEF Tick, TickStart, StartShell, TickStartFails, TickSwitch, TickNowhere, tables
  <2>6. QED BY <2>2, <2>4, <2>5 DEF Next
<1>2. CASE KernelStep
  <2>1. HaBase => owner[p] = cpu
      BY <1>1, Now DEF HaBase, TypeOK
  <2>2. HaFree => owner[p] = cpu
    <3>1. HaFree => CallThread(cpu)
        BY <1>1, Halting DEF HaFree, At, HaltLabels
    <3>2. HaFree => owner[slot[cpu]] = cpu
        BY <3>1 DEF HaFree, At, CallThread, Settled
    <3>3. QED BY <3>2 DEF HaFree, Freed, TypeOK
  <2>3. QED BY <1>1, <1>2, <2>1, <2>2, Now DEF KernelStep, At, ExBadCommand, ExCheck, ExScan, ExFull,
       ExClaim, ExEnter, ExPcb, ExMap, ExLoad, ExSave, ExTss, ExRun, ExIret, HaTest,
       HaParent, HaMap, HaTss, HaRet, Derail, tables, TypeOK
<1>3. CASE Tick
  <2>1. ~TickStart
      BY <1>1, Now DEF TickStart, StartsTerminal, AllStarted
  <2>2. QED BY <1>3, <2>1 DEF Tick, TickStartFails, TickSwitch, TickNowhere, tables
<1>4. CASE HaltBase
  <2>1. StartShell(active_term, cpu, [pid EXCEPT ![active_term] = 0], "halt")
      BY <1>4 DEF HaltBase
  <2>2. pid' = [[pid EXCEPT ![cpu] = 0] EXCEPT ![cpu] = 1]
      BY <1>1, <2>1, Now, OwnSlotFirst DEF StartShell
  <2>3. QED BY <1>1, <2>2, Now DEF TypeOK
<1>5. CASE HaltChild /\ KeySafe
  <2>1. pid' = [pid EXCEPT ![curr_pid[cpu]] = 0] /\ curr_pid[cpu] # cpu
      BY <1>1, <1>5, Now DEF HaltChild, Freed, IsBaseShell
  <2>2. p = curr_pid[cpu]
      BY <2>1 DEF TypeOK
  <2>3. caller[cpu] = "user" /\ CallThread(cpu)
      BY <1>1, <2>1, Now DEF Mine, Thread, BaseThread
  <2>4. pc[cpu] \in {"user", "ex_check", "ex_scan", "ex_claim", "ex_tss", "ex_run", "ex_iret",
                    "ha_test", "ha_base", "ha_free", "ha_parent"}
      BY <1>5, <2>3 DEF KeySafe, SafeKey
  <2>5. owner[curr_pid[cpu]] = cpu
      BY <2>3, <2>4 DEF CallThread, Settled
  <2>6. QED BY <1>1, <2>2, <2>5, Now
<1>6. CASE CtrlC \/ Fault
  <2>1. KeySafe
      BY <1>6 DEF SafePoints, CtrlC, Fault, KeySafe, InUser, At
  <2>2. ~HaltNobody
      BY <1>1, <2>1, NoNobody
  <2>3. QED BY <1>4, <1>5, <1>6, <2>1, <2>2 DEF CtrlC, Fault
<1>7. CASE SysExecute \/ SysHalt
    BY <1>7 DEF SysExecute, SysHalt, tables
<1>8. QED BY <1>2, <1>3, <1>6, <1>7 DEF Next

\* With interrupts at the safe points only, so that no slot has two owners
\* (syscall.c:70-71), a step frees no slot of another terminal (syscall.c:155).
THEOREM Freeing == ASSUME SafePoints PROVE Spec => FreesOwn
<1>1. TypeOK /\ IInv /\ [Next]_vars =>
        [\A p \in Pids : pid[p] = 1 /\ pid'[p] = 0 => owner[p] = active_term]_vars
    BY FreesOwnStep
<1>2. QED BY <1>1, Safe, PTL DEF Spec, FreesOwn

-----------------------------------------------------------------------------
(***************************************************************************)
(* The refinement of TerminalStacks.  The processes that are set up on a   *)
(* terminal can be listed from the base shell up in one way and no other,  *)
(* and a step does nothing to that list, appends one process or takes the  *)
(* last one off.                                                           *)
(***************************************************************************)
\* Nestings as a function of the tables: of the processes, their parents and the end
\* of the chain.
Ways(live, parent, tip, t) ==
    {s \in [1 .. Cardinality(live) -> live] :
        /\ \A i \in DOMAIN s : /\ IF i = 1 THEN s[i] = t ELSE parent[s[i]] = s[i - 1]
                               /\ i = Len(s) => s[i] = tip
        /\ \A i, j \in DOMAIN s : s[i] = s[j] => i = j}

\* A way is a list of all processes of a terminal, each once, from the base shell to the tip.
LEMMA WayIs ==
    ASSUME NEW live, IsFiniteSet(live), NEW parent, NEW tip, NEW t, NEW s
    PROVE  LET n == Cardinality(live) IN
           s \in Ways(live, parent, tip, t) <=>
               /\ s \in [1 .. n -> live] /\ s \in Seq(live) /\ Len(s) = n /\ DOMAIN s = 1 .. n /\ n \in Nat
               /\ n > 0 => s[1] = t /\ s[n] = tip
               /\ \A i \in 2 .. n : parent[s[i]] = s[i - 1]
               /\ \A i, j \in 1 .. n : s[i] = s[j] => i = j
<1> DEFINE n == Cardinality(live)
<1>1. n \in Nat
  BY FS_CardinalityType
<1> HIDE DEF n
<1>2. ASSUME s \in [1 .. n -> live] PROVE s \in Seq(live) /\ Len(s) = n /\ DOMAIN s = 1 .. n
  BY <1>1, <1>2
<1>3. s \in Ways(live, parent, tip, t) <=>
        /\ s \in [1 .. n -> live]
        /\ \A i \in DOMAIN s : /\ IF i = 1 THEN s[i] = t ELSE parent[s[i]] = s[i - 1]
                               /\ i = Len(s) => s[i] = tip
        /\ \A i, j \in DOMAIN s : s[i] = s[j] => i = j
  BY DEF Ways, n
<1>4. ASSUME s \in [1 .. n -> live]
      PROVE  (\A i \in DOMAIN s : /\ IF i = 1 THEN s[i] = t ELSE parent[s[i]] = s[i - 1]
                                  /\ i = Len(s) => s[i] = tip)
             <=> (/\ n > 0 => s[1] = t /\ s[n] = tip
                  /\ \A i \in 2 .. n : parent[s[i]] = s[i - 1])
  BY <1>1, <1>2, <1>4
<1>5. ASSUME s \in [1 .. n -> live]
      PROVE  (\A i, j \in DOMAIN s : s[i] = s[j] => i = j) <=> (\A i, j \in 1 .. n : s[i] = s[j] => i = j)
  BY <1>2, <1>5
<1> QED BY <1>1, <1>2, <1>3, <1>4, <1>5 DEF n

\* There are never two: from the end of the chain each process has one parent.
LEMMA OneWay ==
    ASSUME NEW live, IsFiniteSet(live), NEW parent, NEW tip, NEW t,
           NEW s \in Ways(live, parent, tip, t), NEW r \in Ways(live, parent, tip, t)
    PROVE  s = r
<1> DEFINE n == Cardinality(live)
           R == OpToRel(<, Nat)
           Bad == {k \in Nat : k < n /\ s[n - k] # r[n - k]}
<1>1. /\ n \in Nat /\ s \in [1 .. n -> live] /\ r \in [1 .. n -> live]
      /\ n > 0 => s[n] = tip /\ r[n] = tip
      /\ \A i \in 2 .. n : parent[s[i]] = s[i - 1] /\ parent[r[i]] = r[i - 1]
  BY WayIs
<1> HIDE DEF n
<1>2. Bad = {}
  <2> SUFFICES ASSUME Bad # {} PROVE FALSE
    OBVIOUS
  <2>1. Bad \subseteq Nat
    OBVIOUS
  <2>2. PICK k \in Bad : \A j \in Bad : ~ (<<j, k>> \in R)
    <3> HIDE DEF R, Bad
    <3>1. IsWellFoundedOn(R, Nat)
      BY NatLessThanWellFounded DEF R
    <3> QED BY <2>1, <3>1, WFMin
  <2>3. k \in Nat /\ k < n /\ s[n - k] # r[n - k]
    BY <2>2
  <2>4. k > 0
    BY <1>1, <2>3
  <2>5. k - 1 \notin Bad
    <3>1. <<k - 1, k>> \in R
      BY <2>3, <2>4 DEF OpToRel
    <3> QED BY <2>2, <3>1
  <2>6. s[n - k + 1] = r[n - k + 1]
    <3>1. k - 1 \in Nat /\ k - 1 < n /\ n - (k - 1) = n - k + 1
      BY <1>1, <2>3, <2>4
    <3> QED BY <2>5, <3>1
  <2>7. n - k + 1 \in 2 .. n /\ (n - k + 1) - 1 = n - k
    BY <1>1, <2>3, <2>4
  <2> QED BY <1>1, <2>3, <2>6, <2>7
<1>3. \A i \in 1 .. n : s[i] = r[i]
  <2> SUFFICES ASSUME NEW i \in 1 .. n PROVE s[i] = r[i]
    OBVIOUS
  <2>1. n - i \in Nat /\ n - i < n /\ n - (n - i) = i
    BY <1>1
  <2> QED BY <1>2, <2>1
<1> QED BY <1>1, <1>3

\* A process whose parent is the end of the chain is put last.
LEMMA PushedWay ==
    ASSUME NEW live, IsFiniteSet(live), NEW parent, NEW tip, NEW t, NEW p, p \notin live,
           NEW parent2, \A q \in live \ {t} : parent2[q] = parent[q],
           live = {} => p = t, live # {} => parent2[p] = tip,
           NEW s \in Ways(live, parent, tip, t)
    PROVE  Append(s, p) \in Ways(live \cup {p}, parent2, p, t)
<1> DEFINE n == Cardinality(live)
           r == Append(s, p)
           more == live \cup {p}
<1>1. /\ n \in Nat /\ s \in [1 .. n -> live] /\ s \in Seq(live) /\ Len(s) = n
      /\ n > 0 => s[1] = t /\ s[n] = tip
      /\ \A i \in 2 .. n : parent[s[i]] = s[i - 1]
      /\ \A i, j \in 1 .. n : s[i] = s[j] => i = j
  BY WayIs
<1>2. IsFiniteSet(more) /\ Cardinality(more) = n + 1
  BY FS_AddElement
<1>3. n > 0 <=> live # {}
  BY <1>1, FS_EmptySet
<1> HIDE DEF n
<1>4. /\ r \in Seq(more) /\ Len(r) = n + 1 /\ r[n + 1] = p
      /\ \A i \in 1 .. n : r[i] = s[i]
  BY <1>1
<1> HIDE DEF r
<1>5. r \in [1 .. n + 1 -> more] /\ DOMAIN r = 1 .. n + 1
  BY <1>1, <1>4
<1>6. \A i \in 1 .. n : s[i] \in live
  BY <1>1
<1>7. r[1] = t
  BY <1>1, <1>3, <1>4
<1>8. \A i \in 2 .. n + 1 : parent2[r[i]] = r[i - 1]
  <2> SUFFICES ASSUME NEW i \in 2 .. n + 1 PROVE parent2[r[i]] = r[i - 1]
    OBVIOUS
  <2>1. CASE i = n + 1
    BY <1>1, <1>3, <1>4, <2>1
  <2>2. CASE i # n + 1
    <3>1. i \in 2 .. n /\ i \in 1 .. n /\ i - 1 \in 1 .. n /\ 1 \in 1 .. n
      BY <1>1, <2>2
    <3>2. s[i] \in live \ {t}
      BY <1>1, <1>6, <3>1
    <3> QED BY <1>1, <1>4, <3>1, <3>2
  <2> QED BY <2>1, <2>2
<1>9. \A i, j \in 1 .. n + 1 : r[i] = r[j] => i = j
  <2> SUFFICES ASSUME NEW i \in 1 .. n + 1, NEW j \in 1 .. n + 1, r[i] = r[j] PROVE i = j
    OBVIOUS
  <2>1. \A k \in 1 .. n + 1 : k = n + 1 \/ k \in 1 .. n
    BY <1>1
  <2> QED BY <1>1, <1>4, <1>6, <2>1
<1> HIDE DEF more
<1>10. n + 1 \in Nat
  BY <1>1
<1>11. r \in Ways(more, parent2, p, t)
  BY <1>2, <1>4, <1>5, <1>7, <1>8, <1>9, <1>10, WayIs
<1> QED BY <1>11 DEF r, more

\* And the last one is taken off.
LEMMA PoppedWay ==
    ASSUME NEW live, IsFiniteSet(live), NEW parent, NEW tip \in live, NEW t,
           NEW parent2, \A q \in live \ {t, tip} : parent2[q] = parent[q],
           NEW tip2, live \ {tip} # {} => tip2 = parent[tip],
           NEW s \in Ways(live, parent, tip, t)
    PROVE  s # <<>> /\ SubSeq(s, 1, Len(s) - 1) \in Ways(live \ {tip}, parent2, tip2, t)
<1> DEFINE n == Cardinality(live)
           r == SubSeq(s, 1, Len(s) - 1)
           less == live \ {tip}
<1>1. /\ n \in Nat /\ s \in [1 .. n -> live] /\ s \in Seq(live) /\ Len(s) = n
      /\ n > 0 => s[1] = t /\ s[n] = tip
      /\ \A i \in 2 .. n : parent[s[i]] = s[i - 1]
      /\ \A i, j \in 1 .. n : s[i] = s[j] => i = j
  BY WayIs
<1>2. IsFiniteSet(less) /\ Cardinality(less) = n - 1
  BY FS_RemoveElement
<1>3. n > 0 /\ (n > 1 => less # {})
  <2>1. live # {}
    OBVIOUS
  <2>2. n - 1 = 0 <=> less = {}
    BY <1>2, FS_EmptySet
  <2> QED BY <1>1, <2>1, <2>2, FS_EmptySet
<1> HIDE DEF n
<1>4. s # <<>>
  BY <1>1, <1>3
<1>5. r \in Seq(live) /\ Len(r) = n - 1 /\ \A i \in 1 .. n - 1 : r[i] = s[i]
  BY <1>1, <1>3
<1> HIDE DEF r
<1>6. \A i \in 1 .. n - 1 : s[i] \in less
  <2> SUFFICES ASSUME NEW i \in 1 .. n - 1 PROVE s[i] \in less
    OBVIOUS
  <2>1. i \in 1 .. n /\ n \in 1 .. n /\ i # n
    BY <1>1, <1>3
  <2> QED BY <1>1, <1>3, <2>1
<1>7. r \in [1 .. n - 1 -> less] /\ r \in Seq(less) /\ DOMAIN r = 1 .. n - 1 /\ n - 1 \in Nat
  <2>1. r \in [1 .. n - 1 -> less] /\ DOMAIN r = 1 .. n - 1
    BY <1>1, <1>3, <1>5, <1>6
  <2> HIDE DEF less
  <2>2. n - 1 \in Nat
    BY <1>1, <1>3
  <2> QED BY <2>1, <2>2
<1>8. n - 1 > 0 => r[1] = t /\ r[n - 1] = tip2
  <2> SUFFICES ASSUME n - 1 > 0 PROVE r[1] = t /\ r[n - 1] = tip2
    OBVIOUS
  <2>1. n \in 2 .. n /\ 1 \in 1 .. n - 1 /\ n - 1 \in 1 .. n - 1
    BY <1>1
  <2> QED BY <1>1, <1>3, <1>5, <2>1
<1>9. \A i \in 2 .. n - 1 : parent2[r[i]] = r[i - 1]
  <2> SUFFICES ASSUME NEW i \in 2 .. n - 1 PROVE parent2[r[i]] = r[i - 1]
    OBVIOUS
  <2>1. i \in 2 .. n /\ i \in 1 .. n /\ i \in 1 .. n - 1 /\ i - 1 \in 1 .. n - 1 /\ 1 \in 1 .. n
    BY <1>1
  <2>2. s[i] \in live \ {t, tip}
    BY <1>1, <1>3, <1>6, <2>1
  <2> QED BY <1>1, <1>5, <2>1, <2>2
<1>10. \A i, j \in 1 .. n - 1 : r[i] = r[j] => i = j
  BY <1>1, <1>5
<1> HIDE DEF less
<1>11. r \in Ways(less, parent2, tip2, t)
  BY <1>2, <1>5, <1>7, <1>8, <1>9, <1>10, WayIs
<1> QED BY <1>4, <1>11 DEF r, less

\* The parent of a base shell does not matter, nor the end of an empty chain.
LEMMA SameWay ==
    ASSUME NEW live, IsFiniteSet(live), NEW parent, NEW tip, NEW t,
           NEW parent2, \A q \in live \ {t} : parent2[q] = parent[q],
           NEW tip2, live # {} => tip2 = tip,
           NEW s \in Ways(live, parent, tip, t)
    PROVE  s \in Ways(live, parent2, tip2, t)
<1> DEFINE n == Cardinality(live)
<1>1. /\ n \in Nat /\ s \in [1 .. n -> live] /\ s \in Seq(live) /\ Len(s) = n /\ DOMAIN s = 1 .. n
      /\ n > 0 => s[1] = t /\ s[n] = tip
      /\ \A i \in 2 .. n : parent[s[i]] = s[i - 1]
      /\ \A i, j \in 1 .. n : s[i] = s[j] => i = j
  BY WayIs
<1>2. n > 0 <=> live # {}
  BY <1>1, FS_EmptySet
<1>3. \A i \in 2 .. n : parent2[s[i]] = s[i - 1]
  <2> HIDE DEF n
  <2> SUFFICES ASSUME NEW i \in 2 .. n PROVE parent2[s[i]] = s[i - 1]
    OBVIOUS
  <2>1. i \in 1 .. n /\ 1 \in 1 .. n
    BY <1>1
  <2>2. s[i] \in live \ {t}
    BY <1>1, <2>1
  <2> QED BY <1>1, <2>2
<1> QED BY <1>1, <1>2, <1>3, WayIs

-----------------------------------------------------------------------------
\* What a step does to terminal t: nothing, or one process more, or one less.
Same(t) == /\ Alive(t)' = Alive(t)
           /\ Alive(t) # {} => Tip(t)' = Tip(t)
           /\ \A q \in Alive(t) \ {t} : parent_pid'[q] = parent_pid[q]

Grows(t, p) == /\ p \in Pids /\ \A u \in Terms : p \notin Alive(u)
               /\ Alive(t)' = Alive(t) \cup {p} /\ Tip(t)' = p
               /\ \A q \in Alive(t) \ {t} : parent_pid'[q] = parent_pid[q]
               /\ IF Alive(t) = {} THEN p = t ELSE parent_pid'[p] = Tip(t)

Shrinks(t) == /\ Tip(t) \in Alive(t) /\ Alive(t)' = Alive(t) \ {Tip(t)}
              /\ \A q \in Alive(t) \ {t, Tip(t)} : parent_pid'[q] = parent_pid[q]
              /\ Alive(t)' # {} => Tip(t)' = parent_pid[Tip(t)]

\* A set of slots is finite.
LEMMA PidsFinite == ASSUME NEW S \in SUBSET Pids PROVE IsFiniteSet(S)
<1>1. IsFiniteSet(Pids)
  BY PidMaxAssumption, FS_Interval DEF Pids
<1> QED BY <1>1, FS_Subset

\* The nesting of a terminal is its way.
LEMMA NestingIs ==
    ASSUME NEW t \in Terms
    PROVE  /\ Nestings(t) = Ways(Alive(t), parent_pid, Tip(t), t)
           /\ \A s \in Nestings(t) : nesting[t] = s
<1>1. Nestings(t) = Ways(Alive(t), parent_pid, Tip(t), t)
  BY DEF Nestings, IsNesting, Ways
<1>2. IsFiniteSet(Alive(t))
  BY PidsFinite DEF Alive
<1>3. ASSUME NEW s \in Nestings(t), NEW r \in Nestings(t) PROVE s = r
  BY <1>1, <1>2, <1>3, OneWay
<1>4. nesting[t] = IF Nestings(t) = {} THEN <<>> ELSE CHOOSE s \in Nestings(t) : TRUE
  BY DEF nesting
<1> QED BY <1>1, <1>3, <1>4

\* Also after the step.
LEMMA NestingNext ==
    ASSUME NEW t \in Terms
    PROVE  /\ Nestings(t)' = Ways(Alive(t)', parent_pid', Tip(t)', t)
           /\ \A s \in Nestings(t)' : nesting'[t] = s
<1>1. Nestings(t)' = Ways(Alive(t)', parent_pid', Tip(t)', t)
  BY DEF Nestings, IsNesting, Ways
<1>2. IsFiniteSet(Alive(t)')
  BY PidsFinite DEF Alive
<1>3. ASSUME NEW s \in Nestings(t)', NEW r \in Nestings(t)' PROVE s = r
  BY <1>1, <1>2, <1>3, OneWay
<1>4. nesting'[t] = IF Nestings(t)' = {} THEN <<>> ELSE CHOOSE s \in Nestings(t)' : TRUE
  BY DEF nesting
<1> QED BY <1>1, <1>3, <1>4

\* A step that leaves the tables of a terminal leaves its nesting.
LEMMA SameNesting ==
    ASSUME NEW t \in Terms, Nestings(t) # {}, Same(t)
    PROVE  Nestings(t)' # {} /\ nesting'[t] = nesting[t]
<1>1. PICK s : s \in Nestings(t)
  OBVIOUS
<1>2. PICK live, parent, tip, parent2, tip2 :
        live = Alive(t) /\ parent = parent_pid /\ tip = Tip(t) /\ parent2 = parent_pid' /\ tip2 = Tip(t)'
  OBVIOUS
<1>3. IsFiniteSet(live)
  BY <1>2, PidsFinite DEF Alive
<1>4. s \in Ways(live, parent, tip, t)
  BY <1>1, <1>2, NestingIs
<1>5. /\ live # {} => tip2 = tip
      /\ \A q \in live \ {t} : parent2[q] = parent[q]
  BY <1>2 DEF Same
<1>6. s \in Ways(live, parent2, tip2, t)
  BY <1>3, <1>4, <1>5, SameWay
<1>7. s \in Nestings(t)'
  BY <1>2, <1>6, NestingNext DEF Same
<1> QED BY <1>1, <1>7, NestingIs, NestingNext

\* One that sets up a child puts it on top.
LEMMA GrownNesting ==
    ASSUME NEW t \in Terms, Nestings(t) # {}, NEW p, Grows(t, p)
    PROVE  Nestings(t)' # {} /\ nesting'[t] = Append(nesting[t], p)
<1>1. PICK s : s \in Nestings(t)
  OBVIOUS
<1>2. PICK live, parent, tip, parent2 :
        live = Alive(t) /\ parent = parent_pid /\ tip = Tip(t) /\ parent2 = parent_pid'
  OBVIOUS
<1>3. IsFiniteSet(live)
  BY <1>2, PidsFinite DEF Alive
<1>4. s \in Ways(live, parent, tip, t)
  BY <1>1, <1>2, NestingIs
<1>5. /\ p \notin live /\ (live = {} => p = t) /\ (live # {} => parent2[p] = tip)
      /\ \A q \in live \ {t} : parent2[q] = parent[q]
  BY <1>2 DEF Grows
<1>6. Append(s, p) \in Ways(live \cup {p}, parent2, p, t)
  BY <1>3, <1>4, <1>5, PushedWay
<1>7. Append(s, p) \in Nestings(t)'
  BY <1>2, <1>6, NestingNext DEF Grows
<1> QED BY <1>1, <1>7, NestingIs, NestingNext

\* One that ends the tip takes it off.
LEMMA ShrunkNesting ==
    ASSUME NEW t \in Terms, Nestings(t) # {}, Shrinks(t)
    PROVE  /\ Nestings(t)' # {} /\ nesting[t] # <<>>
           /\ nesting'[t] = SubSeq(nesting[t], 1, Len(nesting[t]) - 1)
<1>1. PICK s : s \in Nestings(t)
  OBVIOUS
<1>2. PICK live, parent, tip, parent2, tip2 :
        live = Alive(t) /\ parent = parent_pid /\ tip = Tip(t) /\ parent2 = parent_pid' /\ tip2 = Tip(t)'
  OBVIOUS
<1>3. IsFiniteSet(live)
  BY <1>2, PidsFinite DEF Alive
<1>4. s \in Ways(live, parent, tip, t)
  BY <1>1, <1>2, NestingIs
<1>5. /\ tip \in live /\ (live \ {tip} # {} => tip2 = parent[tip])
      /\ \A q \in live \ {t, tip} : parent2[q] = parent[q]
  BY <1>2 DEF Shrinks
<1>6. s # <<>> /\ SubSeq(s, 1, Len(s) - 1) \in Ways(live \ {tip}, parent2, tip2, t)
  BY <1>3, <1>4, <1>5, PoppedWay
<1>7. SubSeq(s, 1, Len(s) - 1) \in Nestings(t)'
  BY <1>2, <1>6, NestingNext DEF Shrinks
<1> QED BY <1>1, <1>6, <1>7, NestingIs, NestingNext

\* A terminal whose chain ends with its base shell has no other process.
LEMMA OnlyBase ==
    ASSUME NEW t \in Terms, Nestings(t) # {}, Tip(t) = t, Alive(t) # {}
    PROVE  Alive(t) = {t}
<1>1. PICK s : s \in Nestings(t)
  OBVIOUS
<1>2. PICK live, parent, tip : live = Alive(t) /\ parent = parent_pid /\ tip = Tip(t)
  OBVIOUS
<1> DEFINE n == Cardinality(live)
<1>3. IsFiniteSet(live)
  BY <1>2, PidsFinite DEF Alive
<1>4. s \in Ways(live, parent, tip, t)
  BY <1>1, <1>2, NestingIs
<1>5. /\ n \in Nat /\ s \in [1 .. n -> live]
      /\ n > 0 => s[1] = t /\ s[n] = t
      /\ \A i, j \in 1 .. n : s[i] = s[j] => i = j
  BY <1>2, <1>3, <1>4, WayIs
<1>6. n # 0
  BY <1>2, <1>3, FS_EmptySet
<1> HIDE DEF n
<1>7. n = 1 /\ t \in live
  BY <1>5, <1>6
<1>8. PICK x : live = {x}
  BY <1>3, <1>7, FS_Singleton DEF n
<1> QED BY <1>2, <1>7, <1>8

Nested == \A t \in Terms : Nestings(t) # {}

\* A step that does one of the three to one terminal and nothing to the others is a
\* step of TerminalStacks, and leaves every terminal with a nesting.
LEMMA OneTerminal ==
    ASSUME Nested, NEW t \in Terms, \A u \in Terms \ {t} : Same(u),
           Same(t) \/ (\E p \in Pids : Grows(t, p)) \/ Shrinks(t)
    PROVE  Nested' /\ [Abstract!Next]_nesting
<1>1. \A u \in Terms : Nestings(u) # {}
  BY DEF Nested
<1>2. \A u \in Terms \ {t} : Nestings(u)' # {} /\ nesting'[u] = nesting[u]
  BY <1>1, SameNesting
<1>3. DOMAIN nesting = Terms /\ DOMAIN nesting' = Terms
  BY DEF nesting
<1>4. nesting = [u \in Terms |-> nesting[u]] /\ nesting' = [u \in Terms |-> nesting'[u]]
  BY DEF nesting
<1>5. CASE Same(t)
  <2>1. Nestings(t)' # {} /\ nesting'[t] = nesting[t]
    BY <1>1, <1>5, SameNesting
  <2>2. nesting' = nesting
    BY <1>2, <1>4, <2>1
  <2> QED BY <1>2, <2>1, <2>2 DEF Nested
<1>6. ASSUME NEW p \in Pids, Grows(t, p) PROVE Nested' /\ [Abstract!Next]_nesting
  <2>1. Nestings(t)' # {} /\ nesting'[t] = Append(nesting[t], p)
    BY <1>1, <1>6, GrownNesting
  <2>2. nesting' = [nesting EXCEPT ![t] = Append(@, p)]
    BY <1>2, <1>3, <1>4, <2>1
  <2>3. p \notin Abstract!Live
    <3> SUFFICES ASSUME NEW u \in Terms, p \in Abstract!Range(nesting[u]) PROVE FALSE
      BY DEF Abstract!Live
    <3>1. PICK s : s \in Nestings(u)
      BY <1>1
    <3>2. nesting[u] = s /\ s \in [1 .. Cardinality(Alive(u)) -> Alive(u)]
      BY <3>1, NestingIs DEF Nestings
    <3>3. p \notin Alive(u)
      BY <1>6 DEF Grows
    <3> QED BY <3>2, <3>3 DEF Abstract!Range
  <2>4. Abstract!Next
    BY <2>2, <2>3 DEF Abstract!Next, Abstract!Start
  <2> QED BY <1>2, <2>1, <2>4 DEF Nested
<1>7. CASE Shrinks(t)
  <2>1. /\ Nestings(t)' # {} /\ nesting[t] # <<>>
        /\ nesting'[t] = SubSeq(nesting[t], 1, Len(nesting[t]) - 1)
    BY <1>1, <1>7, ShrunkNesting
  <2>2. nesting' = [nesting EXCEPT ![t] = Abstract!Front(@)]
    BY <1>2, <1>3, <1>4, <2>1 DEF Abstract!Front
  <2>3. Abstract!Next
    BY <2>1, <2>2 DEF Abstract!Next, Abstract!Exit
  <2> QED BY <1>2, <2>1, <2>3 DEF Nested
<1> QED BY <1>5, <1>6, <1>7

-----------------------------------------------------------------------------
\* A slot that thread u is filling in is terminal u's, so that whose processes are
\* set up depends on its own thread alone.
FillsOwn == \A u \in Terms : pc[u] \in Fill => owner[slot[u]] = u

\* A slot that is being filled in belongs to the thread that does.
LEMMA FillsOwnHolds == TypeOK /\ IInv => FillsOwn
<1> SUFFICES ASSUME TypeOK, IInv, NEW u \in Terms, pc[u] \in Fill PROVE owner[slot[u]] = u
  BY DEF FillsOwn
<1>1. CASE Started(u)
  <2>1. Thread(u)
    BY <1>1 DEF IInv, Good
  <2> QED BY <2>1 DEF Thread, CallThread, BaseThread, Fill
<1>2. CASE ~Started(u)
  <2>1. Starting /\ pc[u] # "off"
    BY <1>2 DEF IInv, AllStarted, Started, Fill
  <2>2. ~(u > active_term)
    BY <2>1 DEF Starting
  <2>3. u = 0 /\ Booting
    BY <1>2, <2>1, <2>2 DEF Starting, Terms, TypeOK
  <2> QED BY <2>3 DEF Booting, Fill, Scan
<1> QED BY <1>1, <1>2

\* The processes that are set up in a terminal, from its own tables.
LEMMA AliveIs ==
    ASSUME FillsOwn, NEW t \in Terms
    PROVE  Alive(t) = {p \in Pids : pid[p] = 1 /\ owner[p] = t /\ ~(pc[t] \in Fill /\ slot[t] = p)}
BY DEF Alive, SetUp, FillsOwn, Fill

\* Also after the step.
LEMMA AliveNext ==
    ASSUME FillsOwn', NEW t \in Terms
    PROVE  Alive(t)' = {p \in Pids : pid'[p] = 1 /\ owner'[p] = t /\ ~(pc'[t] \in Fill /\ slot'[t] = p)}
BY DEF Alive, SetUp, FillsOwn, Fill

\* A step of terminal t on slot x leaves the other terminals as they are.
LEMMA OthersSame ==
    ASSUME FillsOwn, FillsOwn', NEW t \in Terms, NEW x,
           \A u \in Terms \ {t} :
               /\ pc[u] # "ha_parent" /\ pc'[u] = pc[u] /\ slot'[u] = slot[u]
               /\ curr_pid'[u] = curr_pid[u] /\ prev_pid'[u] = prev_pid[u],
           \A p \in Pids \ {x} :
               pid'[p] = pid[p] /\ owner'[p] = owner[p] /\ parent_pid'[p] = parent_pid[p],
           pid[x] = 1 => owner[x] = t, pid'[x] = 1 => owner'[x] = t
    PROVE  \A u \in Terms \ {t} : Same(u)
<1> SUFFICES ASSUME NEW u \in Terms \ {t} PROVE Same(u)
  OBVIOUS
<1>1. \A p \in Pids : pid'[p] = 1 /\ owner'[p] = u <=> pid[p] = 1 /\ owner[p] = u
  OBVIOUS
<1>2. pc'[u] = pc[u] /\ slot'[u] = slot[u]
  OBVIOUS
<1>3. Alive(u)' = Alive(u)
  <2>1. Alive(u)' = {p \in Pids : pid'[p] = 1 /\ owner'[p] = u /\ ~(pc'[u] \in Fill /\ slot'[u] = p)}
    BY AliveNext
  <2>2. Alive(u) = {p \in Pids : pid[p] = 1 /\ owner[p] = u /\ ~(pc[u] \in Fill /\ slot[u] = p)}
    BY AliveIs
  <2> QED BY <1>1, <1>2, <2>1, <2>2
<1>4. Tip(u)' = Tip(u)
  <2>1. pc'[u] = pc[u] /\ pc[u] # "ha_parent" /\ curr_pid'[u] = curr_pid[u] /\ prev_pid'[u] = prev_pid[u]
    OBVIOUS
  <2> QED BY <2>1 DEF Tip
<1>5. \A q \in Alive(u) : parent_pid'[q] = parent_pid[q]
  BY AliveIs
<1> QED BY <1>3, <1>4, <1>5 DEF Same

\* A step that touches no table does nothing to any terminal.
LEMMA QuietSame ==
    ASSUME UNCHANGED <<pid, owner, curr_pid, prev_pid, parent_pid>>,
           \A u \in Terms : \/ pc'[u] = pc[u] /\ slot'[u] = slot[u]
                            \/ {pc[u], pc'[u]} \cap {"ex_enter", "ex_pcb", "ha_parent"} = {}
    PROVE  \A u \in Terms : Same(u)
<1> SUFFICES ASSUME NEW t \in Terms PROVE Same(t)
  OBVIOUS
<1>1. \A p \in Pids : (\A u \in Terms : pc'[u] \in {"ex_enter", "ex_pcb"} => slot'[u] # p)
                      <=> (\A u \in Terms : pc[u] \in {"ex_enter", "ex_pcb"} => slot[u] # p)
  <2> SUFFICES ASSUME NEW p \in Pids, NEW u \in Terms
               PROVE  (pc'[u] \in {"ex_enter", "ex_pcb"} => slot'[u] # p)
                      <=> (pc[u] \in {"ex_enter", "ex_pcb"} => slot[u] # p)
    OBVIOUS
  <2>1. CASE pc'[u] = pc[u] /\ slot'[u] = slot[u]
    BY <2>1
  <2>2. CASE {pc[u], pc'[u]} \cap {"ex_enter", "ex_pcb", "ha_parent"} = {}
    BY <2>2
  <2> QED BY <2>1, <2>2
<1>2. Alive(t)' = Alive(t)
  BY <1>1 DEF Alive, SetUp
<1>3. Tip(t)' = Tip(t)
  <2>1. CASE pc'[t] = pc[t] /\ slot'[t] = slot[t]
    BY <2>1 DEF Tip
  <2>2. CASE {pc[t], pc'[t]} \cap {"ex_enter", "ex_pcb", "ha_parent"} = {}
    <3>1. pc[t] # "ex_pcb" /\ pc[t] # "ha_parent" /\ pc'[t] # "ex_pcb" /\ pc'[t] # "ha_parent"
      BY <2>2
    <3> QED BY <3>1 DEF Tip
  <2> QED BY <2>1, <2>2
<1> QED BY <1>2, <1>3 DEF Same

\* Steps of the kernel outside of the tables leave every nesting.
LEMMA QuietKernel ==
    ASSUME TypeOK, KernelStep, ~ExClaim, ~ExEnter, ~ExPcb, ~HaBase, ~HaFree, ~HaParent
    PROVE  \A u \in Terms : Same(u)
<1> USE DEF At, Goto, ReturnToUser, tables, terms, pcbs, thread, TypeOK
<1>1. CASE ExBadCommand
  BY <1>1, QuietSame DEF ExBadCommand
<1>2. CASE ExCheck
  BY <1>2, QuietSame DEF ExCheck
<1>3. CASE ExScan
  BY <1>3, QuietSame DEF ExScan
<1>4. CASE ExFull
  BY <1>4, QuietSame DEF ExFull
<1>5. CASE ExMap
  BY <1>5, QuietSame DEF ExMap
<1>6. CASE ExLoad
  BY <1>6, QuietSame DEF ExLoad
<1>7. CASE ExSave
  BY <1>7, QuietSame DEF ExSave
<1>8. CASE ExTss
  BY <1>8, QuietSame DEF ExTss
<1>9. CASE ExRun
  BY <1>9, QuietSame DEF ExRun
<1>10. CASE ExIret
  BY <1>10, QuietSame DEF ExIret
<1>11. CASE HaTest
  BY <1>11, QuietSame DEF HaTest
<1>12. CASE HaMap
  BY <1>12, QuietSame DEF HaMap
<1>13. CASE HaTss
  BY <1>13, QuietSame DEF HaTss
<1>14. CASE HaRet
  BY <1>14, QuietSame DEF HaRet, ReturnThrough
<1>15. CASE Derail
  BY <1>15, QuietSame DEF Derail
<1> QED BY <1>1, <1>2, <1>3, <1>4, <1>5, <1>6, <1>7, <1>8, <1>9, <1>10, <1>11, <1>12, <1>13,
           <1>14, <1>15 DEF KernelStep

\* So do the entries of the system calls and all later ticks.
LEMMA QuietOther ==
    ASSUME TypeOK, (SysExecute \/ SysHalt \/ (Tick /\ ~TickStart))
    PROVE  \A u \in Terms : Same(u)
<1> USE DEF At, Goto, tables, terms, pcbs, thread, TypeOK
<1>1. CASE SysExecute
  BY <1>1, QuietSame DEF SysExecute
<1>2. CASE SysHalt
  BY <1>2, QuietSame DEF SysHalt
<1>3. CASE Tick /\ ~TickStart
  BY <1>3, QuietSame DEF Tick, TickStartFails, TickSwitch, TickNowhere
<1> QED BY <1>1, <1>2, <1>3

\* No other thread than the running one is between halt's freeing of its process and
\* the return of the terminal to the parent.
LEMMA NotReturning ==
    ASSUME TypeOK, IInv
    PROVE  /\ cpu \in Terms /\ cpu = active_term
           /\ \A u \in Terms \ {cpu} : pc[u] # "ha_parent"
<1>1. cpu \in Terms /\ cpu = active_term
  BY Numbers DEF IInv, ScheduledRuns, TypeOK
<1>2. ASSUME NEW u \in Terms \ {cpu}, pc[u] = "ha_parent" PROVE FALSE
  <2>1. CASE Started(u)
    BY <1>2, <2>1 DEF IInv, Good, Suspended, SafeTick, ExecLabels
  <2>2. CASE ~Started(u)
    <3>1. Starting
      BY <2>2 DEF IInv, AllStarted, Started
    <3> QED BY <1>1, <1>2, <2>2, <3>1 DEF Starting, Terms
  <2> QED BY <2>1, <2>2
<1> QED BY <1>1, <1>2

\* A slot that is only claimed is on no stack.
LEMMA ExClaimNesting ==
    ASSUME TypeOK, IInv, FillsOwn, FillsOwn', ExClaim
    PROVE  \A u \in Terms : Same(u)
<1> USE NotReturning DEF TypeOK
<1>t. PICK t \in Terms : t = cpu
  OBVIOUS
<1> USE <1>t
<1>1. PICK x \in Pids : x = slot[t]
  OBVIOUS
<1>2. /\ pid[x] = 0 /\ pc[t] = "ex_claim"
  BY <1>1, FreshSlotHolds DEF ExClaim, At, FreshSlot
<1>3. /\ pid' = [pid EXCEPT ![x] = 1] /\ owner' = [owner EXCEPT ![x] = t]
      /\ pc' = [pc EXCEPT ![t] = "ex_enter"]
      /\ UNCHANGED <<curr_pid, prev_pid, parent_pid, slot>>
  BY <1>1 DEF ExClaim, Goto, terms, pcbs, thread
<1>4. \A u \in Terms \ {t} : Same(u)
  BY <1>2, <1>3, OthersSame
<1>5. Alive(t)' = Alive(t)
  <2>1. Alive(t)' = {p \in Pids : pid'[p] = 1 /\ owner'[p] = t /\ ~(pc'[t] \in Fill /\ slot'[t] = p)}
    BY AliveNext
  <2>2. Alive(t) = {p \in Pids : pid[p] = 1 /\ owner[p] = t /\ ~(pc[t] \in Fill /\ slot[t] = p)}
    BY AliveIs
  <2>3. pc'[t] \in Fill /\ slot'[t] = x /\ pc[t] \notin Fill
    BY <1>1, <1>2, <1>3 DEF Fill
  <2> QED BY <1>2, <1>3, <2>1, <2>2, <2>3
<1>6. Tip(t)' = Tip(t)
  BY <1>2, <1>3 DEF Tip
<1> QED BY <1>3, <1>4, <1>5, <1>6 DEF Same

\* Nor does an entry that is not yet filled in change one.
LEMMA ExEnterNesting ==
    ASSUME TypeOK, IInv, FillsOwn, FillsOwn', ExEnter
    PROVE  \A u \in Terms : Same(u)
<1> USE NotReturning DEF TypeOK
<1>t. PICK t \in Terms : t = cpu
  OBVIOUS
<1> USE <1>t
<1>1. PICK x \in Pids : x = slot[t]
  OBVIOUS
<1>2. /\ pc[t] = "ex_enter" /\ pc' = [pc EXCEPT ![t] = "ex_pcb"]
      /\ prev_pid' = [prev_pid EXCEPT ![t] = curr_pid[t]]
      /\ curr_pid' = [curr_pid EXCEPT ![t] = x]
      /\ UNCHANGED <<pid, owner, parent_pid, slot>>
  BY <1>1 DEF ExEnter, At, Goto, tables, pcbs, thread
<1>3. owner[x] = t
  BY <1>1, <1>2 DEF FillsOwn, Fill
<1>4. \A u \in Terms \ {t} : Same(u)
  BY <1>2, <1>3, OthersSame
<1>5. Alive(t)' = Alive(t)
  <2>1. Alive(t)' = {p \in Pids : pid'[p] = 1 /\ owner'[p] = t /\ ~(pc'[t] \in Fill /\ slot'[t] = p)}
    BY AliveNext
  <2>2. Alive(t) = {p \in Pids : pid[p] = 1 /\ owner[p] = t /\ ~(pc[t] \in Fill /\ slot[t] = p)}
    BY AliveIs
  <2>3. pc'[t] \in Fill /\ pc[t] \in Fill
    BY <1>2 DEF Fill
  <2> QED BY <1>2, <2>1, <2>2, <2>3
<1>6. Tip(t)' = Tip(t)
  BY <1>2 DEF Tip
<1> QED BY <1>2, <1>4, <1>5, <1>6 DEF Same

\* The PCB that is filled in names the end of the chain as the parent, or is the base
\* shell's.
LEMMA ExPcbNesting ==
    ASSUME TypeOK, IInv, FillsOwn, FillsOwn', ExPcb
    PROVE  \E t \in Terms : (\A u \in Terms \ {t} : Same(u)) /\ \E p \in Pids : Grows(t, p)
<1> USE NotReturning DEF TypeOK
<1>t. PICK t \in Terms : t = cpu
  OBVIOUS
<1> USE <1>t
<1>1. PICK x \in Pids : x = slot[t]
  OBVIOUS
<1>2. pc[t] = "ex_pcb" /\ pc[t] \in Fill /\ pc[t] \notin Scan
  BY DEF ExPcb, At, Fill, Scan
<1>3. /\ curr_pid[t] = x /\ pid[x] = 1 /\ owner[x] = t
      /\ \/ x = t
         \/ term_proc[t] \in Alive(t)
  <2>1. CASE ~Started(t)
    <3>1. Booting /\ t = 0
      BY <2>1 DEF IInv, AllStarted, Started, Starting, Terms
    <3> QED BY <1>1, <1>2, <3>1 DEF Booting, Scan
  <2>2. CASE Started(t) /\ caller[t] = "user"
    <3>1. CallThread(t)
      BY <2>2 DEF IInv, Good, Thread
    <3>2. /\ curr_pid[t] = x /\ pid[x] = 1 /\ owner[x] = t
          /\ Settled(t, term_proc[t])
      BY <1>1, <1>2, <3>1 DEF CallThread, Fill
    <3>3. term_proc[t] \in Alive(t)
      BY <3>2, AliveIs DEF Settled, Filling
    <3> QED BY <3>2, <3>3
  <2>3. CASE Started(t) /\ caller[t] # "user"
    <3>1. BaseThread(t)
      BY <2>3 DEF IInv, Good, Thread
    <3> QED BY <1>1, <1>2, <3>1 DEF BaseThread, Scan
  <2> QED BY <2>1, <2>2, <2>3
<1>4. /\ pc' = [pc EXCEPT ![t] = "ex_map"]
      /\ parent_pid' = [parent_pid EXCEPT ![x] = prev_pid[t]]
      /\ slot' = [slot EXCEPT ![t] = x]
      /\ UNCHANGED <<pid, owner, curr_pid, prev_pid>>
  BY <1>3 DEF ExPcb, Goto, Creator, tables, terms
<1>5. \A u \in Terms \ {t} : Same(u)
  BY <1>3, <1>4, OthersSame
<1>6. \A u \in Terms : x \notin Alive(u)
  <2>1. ~SetUp(x)
    BY <1>1, <1>2 DEF SetUp
  <2> QED BY <2>1 DEF Alive
<1>7. Alive(t)' = Alive(t) \cup {x}
  <2>1. Alive(t)' = {p \in Pids : pid'[p] = 1 /\ owner'[p] = t /\ ~(pc'[t] \in Fill /\ slot'[t] = p)}
    BY AliveNext
  <2>2. Alive(t) = {p \in Pids : pid[p] = 1 /\ owner[p] = t /\ ~(pc[t] \in Fill /\ slot[t] = p)}
    BY AliveIs
  <2>3. pc'[t] \notin Fill
    BY <1>4 DEF Fill
  <2> QED BY <1>1, <1>2, <1>3, <1>4, <2>1, <2>2, <2>3
<1>8. Tip(t)' = x /\ Tip(t) = prev_pid[t]
  BY <1>2, <1>3, <1>4 DEF Tip
<1>9. \A q \in Alive(t) : parent_pid'[q] = parent_pid[q]
  BY <1>4, <1>6 DEF Alive
<1>10. parent_pid'[x] = Tip(t)
  BY <1>4, <1>8
<1>11. Grows(t, x)
  BY <1>3, <1>6, <1>7, <1>8, <1>9, <1>10 DEF Grows
<1> QED BY <1>5, <1>11

\* The base shell is all there is when it halts.
LEMMA HaBaseNesting ==
    ASSUME TypeOK, IInv, AllStarted, Nested, FillsOwn, FillsOwn', HaBase
    PROVE  \E t \in Terms : (\A u \in Terms \ {t} : Same(u)) /\ Shrinks(t)
<1> USE NotReturning DEF TypeOK
<1>t. PICK t \in Terms : t = cpu
  OBVIOUS
<1> USE <1>t
<1>1. pc[t] = "ha_base" /\ CallThread(t)
  BY Halting DEF HaBase, At, HaltLabels
<1>2. /\ pid' = [pid EXCEPT ![t] = 0] /\ pc' = [pc EXCEPT ![t] = "ex_check"]
      /\ UNCHANGED <<owner, curr_pid, prev_pid, parent_pid, slot>>
  BY DEF HaBase, Goto, terms, pcbs
<1>3. t \in Pids /\ Settled(t, t) /\ curr_pid[t] = t
  BY <1>1, Numbers DEF CallThread
<1>4. \A u \in Terms \ {t} : Same(u)
  BY <1>2, <1>3, OthersSame DEF Settled
<1>5. t \in Alive(t) /\ Tip(t) = t
  BY <1>1, <1>3, AliveIs DEF Settled, Filling, Tip
<1>6. Alive(t) = {t}
  BY <1>5, OnlyBase DEF Nested
<1>7. Alive(t)' = {}
  <2>1. Alive(t)' = {p \in Pids : pid'[p] = 1 /\ owner'[p] = t /\ ~(pc'[t] \in Fill /\ slot'[t] = p)}
    BY AliveNext
  <2>2. Alive(t) = {p \in Pids : pid[p] = 1 /\ owner[p] = t /\ ~(pc[t] \in Fill /\ slot[t] = p)}
    BY AliveIs
  <2>3. pc[t] \notin Fill
    BY <1>1 DEF Fill
  <2> QED BY <1>2, <1>3, <1>6, <2>1, <2>2, <2>3
<1>8. Shrinks(t)
  BY <1>2, <1>5, <1>6, <1>7 DEF Shrinks
<1> QED BY <1>4, <1>8

\* The release of its slot takes a child off.
LEMMA HaFreeNesting ==
    ASSUME TypeOK, IInv, AllStarted, FillsOwn, FillsOwn', HaFree
    PROVE  \E t \in Terms : (\A u \in Terms \ {t} : Same(u)) /\ Shrinks(t)
<1> USE NotReturning DEF TypeOK
<1>t. PICK t \in Terms : t = cpu
  OBVIOUS
<1> USE <1>t
<1>1. pc[t] = "ha_free" /\ CallThread(t)
  BY Halting DEF HaFree, At, HaltLabels
<1>2. PICK c \in Pids : c = slot[t]
  OBVIOUS
<1>3. curr_pid[t] = c /\ pid[c] = 1 /\ owner[c] = t
  BY <1>1, <1>2 DEF CallThread, Settled
<1>4. /\ pid' = [pid EXCEPT ![c] = 0] /\ pc' = [pc EXCEPT ![t] = "ha_parent"]
      /\ UNCHANGED <<owner, curr_pid, prev_pid, parent_pid, slot>>
  BY <1>2 DEF HaFree, Freed, Goto, terms, pcbs, thread
<1>5. \A u \in Terms \ {t} : Same(u)
  BY <1>3, <1>4, OthersSame
<1>6. Tip(t) = c /\ Tip(t)' = parent_pid[c]
  BY <1>1, <1>2, <1>3, <1>4 DEF Tip
<1>7. c \in Alive(t) /\ Alive(t)' = Alive(t) \ {c}
  <2>1. Alive(t)' = {p \in Pids : pid'[p] = 1 /\ owner'[p] = t /\ ~(pc'[t] \in Fill /\ slot'[t] = p)}
    BY AliveNext
  <2>2. Alive(t) = {p \in Pids : pid[p] = 1 /\ owner[p] = t /\ ~(pc[t] \in Fill /\ slot[t] = p)}
    BY AliveIs
  <2>3. pc[t] \notin Fill /\ pc'[t] \notin Fill
    BY <1>1, <1>4 DEF Fill
  <2> QED BY <1>3, <1>4, <2>1, <2>2, <2>3
<1>8. Shrinks(t)
  BY <1>4, <1>6, <1>7 DEF Shrinks
<1> QED BY <1>5, <1>8

\* The return to the parent leaves the nesting, which has lost the child already.
LEMMA HaParentNesting ==
    ASSUME TypeOK, IInv, AllStarted, FillsOwn, FillsOwn', HaParent
    PROVE  \A u \in Terms : Same(u)
<1> USE NotReturning DEF TypeOK
<1>t. PICK t \in Terms : t = cpu
  OBVIOUS
<1> USE <1>t
<1>1. pc[t] = "ha_parent" /\ CallThread(t)
  BY Halting DEF HaParent, At, HaltLabels
<1>2. PICK c \in Pids : c = slot[t]
  OBVIOUS
<1>q. PICK q : q = parent_pid[c]
  OBVIOUS
<1>3. pid[c] = 0
  BY <1>1, <1>2 DEF CallThread
<1>4. /\ pc' = [pc EXCEPT ![t] = "ha_map"] /\ curr_pid' = [curr_pid EXCEPT ![t] = q]
      /\ prev_pid' = [prev_pid EXCEPT ![t] = parent_pid[q]]
      /\ UNCHANGED <<pid, owner, parent_pid, slot>>
  BY <1>2, <1>q DEF HaParent, Goto, tables, pcbs, thread
<1>5. \A u \in Terms \ {t} : Same(u)
  BY <1>3, <1>4, OthersSame
<1>6. Tip(t)' = Tip(t)
  BY <1>1, <1>2, <1>q, <1>4 DEF Tip
<1>7. Alive(t)' = Alive(t)
  <2>1. Alive(t)' = {p \in Pids : pid'[p] = 1 /\ owner'[p] = t /\ ~(pc'[t] \in Fill /\ slot'[t] = p)}
    BY AliveNext
  <2>2. Alive(t) = {p \in Pids : pid[p] = 1 /\ owner[p] = t /\ ~(pc[t] \in Fill /\ slot[t] = p)}
    BY AliveIs
  <2>3. pc[t] \notin Fill /\ pc'[t] \notin Fill
    BY <1>1, <1>4 DEF Fill
  <2> QED BY <1>4, <2>1, <2>2, <2>3
<1> QED BY <1>4, <1>5, <1>6, <1>7 DEF Same

\* A base shell that halts and is started again in one step is there before and
\* after, unless it had been about to be started.
LEMMA HaltBaseNesting ==
    ASSUME TypeOK, IInv, AllStarted, Nested, FillsOwn, FillsOwn', KeySafe, HaltBase
    PROVE  \E t \in Terms : /\ \A u \in Terms \ {t} : Same(u)
                            /\ Same(t) \/ \E p \in Pids : Grows(t, p)
<1> USE NotReturning DEF TypeOK
<1>t. PICK t \in Terms : t = cpu /\ t \in Pids
  BY Numbers
<1> USE <1>t
<1>1. /\ Tip(t) = t
      /\ pid' = [pid EXCEPT ![t] = 1] /\ owner' = [owner EXCEPT ![t] = t]
      /\ curr_pid' = [curr_pid EXCEPT ![t] = t] /\ prev_pid' = [prev_pid EXCEPT ![t] = t]
      /\ parent_pid' = [parent_pid EXCEPT ![t] = t]
      /\ pc' = [pc EXCEPT ![t] = "ex_iret"] /\ slot' = [slot EXCEPT ![t] = t]
  BY HaltBaseDoes
<1>2. owner[t] = t
  BY Now
<1>3. \A u \in Terms \ {t} : Same(u)
  BY <1>1, <1>2, OthersSame
<1>4. Tip(t)' = t
  BY <1>1 DEF Tip
<1>5. Alive(t) = {} \/ Alive(t) = {t}
  BY <1>1, OnlyBase DEF Nested
<1>6. Alive(t)' = {t}
  <2>1. Alive(t)' = {p \in Pids : pid'[p] = 1 /\ owner'[p] = t /\ ~(pc'[t] \in Fill /\ slot'[t] = p)}
    BY AliveNext
  <2>2. Alive(t) = {p \in Pids : pid[p] = 1 /\ owner[p] = t /\ ~(pc[t] \in Fill /\ slot[t] = p)}
    BY AliveIs
  <2>3. pc'[t] \notin Fill
    BY <1>1 DEF Fill
  <2>4. t \in Alive(t)'
    BY <1>1, <2>1, <2>3
  <2>5. ASSUME NEW p \in Alive(t)', p # t PROVE FALSE
    <3>1. pid[p] = 1 /\ owner[p] = t /\ p \in Pids /\ p \notin Alive(t)
      BY <1>1, <1>5, <2>1, <2>5
    <3>2. pc[t] \in Fill /\ slot[t] = p
      BY <2>2, <3>1
    <3>3. CASE caller[t] = "user"
      BY <3>2, <3>3 DEF KeySafe, SafeKey, Fill, ExecLabels
    <3>4. CASE caller[t] # "user"
      <4>1. BaseThread(t)
        BY <3>4, Now DEF Mine, Thread
      <4> QED BY <2>5, <3>2, <4>1 DEF BaseThread, Fill
    <3> QED BY <3>3, <3>4
  <2> QED BY <2>4, <2>5
<1>7. CASE Alive(t) = {t}
  BY <1>1, <1>3, <1>4, <1>6, <1>7 DEF Same
<1>8. CASE Alive(t) = {}
  <2>1. \A u \in Terms : t \notin Alive(u)
    BY <1>2, <1>8 DEF Alive
  <2>2. Grows(t, t)
    BY <1>4, <1>6, <1>8, <2>1 DEF Grows
  <2> QED BY <1>3, <2>2
<1> QED BY <1>5, <1>7, <1>8

\* A halt by Ctrl-C or an exception takes a child off, unless its slot is free already.
LEMMA HaltChildNesting ==
    ASSUME TypeOK, IInv, AllStarted, FillsOwn, FillsOwn', KeySafe, HaltChild
    PROVE  \E t \in Terms : /\ \A u \in Terms \ {t} : Same(u)
                            /\ Same(t) \/ Shrinks(t)
<1> USE NotReturning DEF TypeOK
<1>t. PICK t \in Terms : t = cpu
  OBVIOUS
<1> USE <1>t
<1>1. PICK c \in Pids, q \in Pids :
        /\ c = curr_pid[t] /\ q = parent_pid[c] /\ owner[c] = t
        /\ CallThread(t)
        /\ pc[t] \in {"user", "ex_check", "ex_scan", "ex_claim", "ex_tss", "ex_run", "ex_iret",
                      "ha_test", "ha_free", "ha_parent"}
        /\ pc[t] # "ha_parent" => pid[c] = 1 /\ c = Tip(t)
        /\ pid' = [pid EXCEPT ![c] = 0]
        /\ curr_pid' = [curr_pid EXCEPT ![t] = q]
        /\ prev_pid' = [prev_pid EXCEPT ![t] = parent_pid[q]]
        /\ pc' = [pc EXCEPT ![t] = "user"]
        /\ UNCHANGED <<owner, parent_pid, slot>>
  BY HaltChildDoes DEF IsChild
<1>2. \A u \in Terms \ {t} : Same(u)
  BY <1>1, OthersSame
<1>3. Tip(t)' = q
  BY <1>1 DEF Tip
<1>4. Alive(t)' = Alive(t) \ {c}
  <2>1. Alive(t)' = {p \in Pids : pid'[p] = 1 /\ owner'[p] = t /\ ~(pc'[t] \in Fill /\ slot'[t] = p)}
    BY AliveNext
  <2>2. Alive(t) = {p \in Pids : pid[p] = 1 /\ owner[p] = t /\ ~(pc[t] \in Fill /\ slot[t] = p)}
    BY AliveIs
  <2>3. pc[t] \notin Fill /\ pc'[t] \notin Fill
    BY <1>1 DEF Fill
  <2> QED BY <1>1, <2>1, <2>2, <2>3
<1>5. CASE pc[t] = "ha_parent"
  <2>1. pid[c] = 0 /\ slot[t] = c
    BY <1>1, <1>5 DEF CallThread
  <2>2. c \notin Alive(t) /\ Tip(t) = q
    BY <1>1, <1>5, <2>1 DEF Alive, SetUp, Tip
  <2>3. Alive(t)' = Alive(t)
    BY <1>4, <2>2
  <2>4. Tip(t)' = Tip(t)
    BY <1>3, <2>2
  <2>5. Same(t)
    BY <1>1, <2>3, <2>4 DEF Same
  <2> QED BY <1>2, <2>5
<1>6. CASE pc[t] # "ha_parent"
  <2>1. c \in Alive(t) /\ c = Tip(t)
    <3>1. pc[t] \notin Fill
      BY <1>1 DEF Fill
    <3> QED BY <1>1, <1>6, <3>1, AliveIs
  <2>2. Shrinks(t)
    BY <1>1, <1>3, <1>4, <2>1 DEF Shrinks
  <2> QED BY <1>2, <2>2
<1> QED BY <1>5, <1>6

\* A first tick puts the base shell on the empty stack.
LEMMA EarlyTickNesting ==
    ASSUME SafePoints, TypeOK, IInv, ~AllStarted, FillsOwn, FillsOwn', Tick
    PROVE  \E t \in Terms : (\A u \in Terms \ {t} : Same(u)) /\ \E p \in Pids : Grows(t, p)
<1> USE NotReturning DEF TypeOK
<1>1. PICK k \in Terms :
        /\ k = cpu /\ k + 1 \in Terms
        /\ \A t \in Terms : t <= k => pid[t] = 1 /\ owner[t] = t /\ pc[t] \in {"user", "ex_iret"}
        /\ pid' = [pid EXCEPT ![k + 1] = 1] /\ owner' = [owner EXCEPT ![k + 1] = k + 1]
        /\ curr_pid' = [curr_pid EXCEPT ![k + 1] = k + 1]
        /\ prev_pid' = [prev_pid EXCEPT ![k + 1] = curr_pid[k + 1]]
        /\ parent_pid' = [parent_pid EXCEPT ![k + 1] = curr_pid[k + 1]]
        /\ pc' = [pc EXCEPT ![k + 1] = "ex_iret"] /\ slot' = [slot EXCEPT ![k + 1] = k + 1]
  BY EarlyTickDoes
<1>2. PICK t \in Terms : t = k + 1 /\ t \in Pids
  BY <1>1, Numbers
<1>3. /\ \A u \in Terms : u > k => pc[u] = "off"
      /\ \A p \in Pids : p > k => pid[p] = 0
  BY <1>1, Early DEF Starting
<1>4. pid[t] = 0 /\ \A u \in Terms \ {t} : pc[u] # "ha_parent"
  <2>1. t > k /\ \A u \in Terms : u <= k \/ u > k
    BY <1>2 DEF Terms
  <2> QED BY <1>1, <1>2, <1>3, <2>1
<1>5. \A u \in Terms \ {t} : Same(u)
  BY <1>1, <1>2, <1>4, OthersSame
<1>6. Alive(t) = {} /\ \A u \in Terms : t \notin Alive(u)
  <2>1. \A p \in Pids : pid[p] = 1 => owner[p] # t
    <3> SUFFICES ASSUME NEW p \in Pids, pid[p] = 1 PROVE owner[p] # t
      OBVIOUS
    <3>1. p <= k /\ p # t
      BY <1>2, <1>3 DEF Pids, Terms
    <3>2. p \in Terms
      BY <3>1, TermCountAssumption DEF Pids, Terms
    <3> QED BY <1>1, <3>1, <3>2
  <2> QED BY <1>4, <2>1 DEF Alive, SetUp
<1>7. Alive(t)' = {t}
  <2>1. Alive(t)' = {p \in Pids : pid'[p] = 1 /\ owner'[p] = t /\ ~(pc'[t] \in Fill /\ slot'[t] = p)}
    BY AliveNext
  <2>2. pc'[t] \notin Fill
    BY <1>1, <1>2 DEF Fill
  <2>3. pid'[t] = 1 /\ owner'[t] = t
    BY <1>1, <1>2
  <2>4. \A p \in Pids : pid'[p] = 1 /\ owner'[p] = t => p = t
    <3> SUFFICES ASSUME NEW p \in Pids, pid'[p] = 1, owner'[p] = t, p # t PROVE FALSE
      OBVIOUS
    <3>1. pid[p] = 1 /\ owner[p] = t
      BY <1>1, <1>2
    <3>2. p <= k
      BY <1>3, <3>1 DEF Pids, Terms
    <3>3. p \in Terms
      BY <3>2, TermCountAssumption DEF Pids, Terms
    <3> QED BY <1>1, <3>1, <3>2, <3>3
  <2> QED BY <1>2, <2>1, <2>2, <2>3, <2>4
<1>8. Tip(t)' = t
  BY <1>1, <1>2 DEF Tip
<1>9. Grows(t, t)
  BY <1>2, <1>6, <1>7, <1>8 DEF Grows
<1> QED BY <1>2, <1>5, <1>9

\* Until every base shell has been started nothing halts.
LEMMA EarlyNoHalt ==
    ASSUME SafePoints, TypeOK, IInv, ~AllStarted
    PROVE  /\ ~CtrlC /\ ~Fault
           /\ ~HaBase /\ ~HaFree /\ ~HaParent
<1> USE Numbers DEF Scan, Fill, Build, Leave
<1>1. pc[cpu] \notin HaltLabels
  BY Early DEF Starting, Booting, HaltLabels, ExecLabels, Terms
<1>2. ~HaBase /\ ~HaFree /\ ~HaParent
  BY <1>1 DEF At, HaltLabels, HaBase, HaFree, HaParent
<1>3. ~CtrlC /\ ~Fault
  BY DEF SafePoints, CtrlC, Fault, UsersType
<1> QED BY <1>2, <1>3

\* Every step does one of the three to one terminal and nothing to the others.
LEMMA StepNests ==
    ASSUME SafePoints, TypeOK, IInv, FillsOwn, FillsOwn', Nested, [Next]_vars
    PROVE  \E t \in Terms : /\ \A u \in Terms \ {t} : Same(u)
                            /\ Same(t) \/ (\E p \in Pids : Grows(t, p)) \/ Shrinks(t)
<1>1. cpu \in Terms
  BY NotReturning
<1>2. CASE \A u \in Terms : Same(u)
  BY <1>1, <1>2
<1>3. CASE UNCHANGED vars
  <2>1. /\ UNCHANGED <<pid, owner, curr_pid, prev_pid, parent_pid>>
        /\ \A u \in Terms : pc'[u] = pc[u] /\ slot'[u] = slot[u]
    BY <1>3 DEF vars, tables, terms, pcbs, frames, sched, thread
  <2>2. \A u \in Terms : Same(u)
    BY <2>1, QuietSame
  <2> QED BY <1>2, <2>2
<1>4. CASE KernelStep
  <2>1. CASE ExClaim
    BY <1>2, <2>1, ExClaimNesting
  <2>2. CASE ExEnter
    BY <1>2, <2>2, ExEnterNesting
  <2>3. CASE ExPcb
    BY <2>3, ExPcbNesting
  <2>4. CASE HaBase
    BY <2>4, EarlyNoHalt, HaBaseNesting
  <2>5. CASE HaFree
    BY <2>5, EarlyNoHalt, HaFreeNesting
  <2>6. CASE HaParent
    BY <1>2, <2>6, EarlyNoHalt, HaParentNesting
  <2>7. CASE ~ExClaim /\ ~ExEnter /\ ~ExPcb /\ ~HaBase /\ ~HaFree /\ ~HaParent
    BY <1>2, <1>4, <2>7, QuietKernel
  <2> QED BY <2>1, <2>2, <2>3, <2>4, <2>5, <2>6, <2>7
<1>5. CASE SysExecute \/ SysHalt
  BY <1>2, <1>5, QuietOther
<1>6. CASE Tick
  <2>1. CASE AllStarted
    <3>1. ~TickStart
      BY <2>1, Now, Numbers DEF TickStart, StartsTerminal, AllStarted
    <3> QED BY <1>2, <1>6, <3>1, QuietOther
  <2>2. CASE ~AllStarted
    BY <1>6, <2>2, EarlyTickNesting
  <2> QED BY <2>1, <2>2
<1>7. CASE CtrlC \/ Fault
  <2>1. AllStarted
    BY <1>7, EarlyNoHalt
  <2>2. KeySafe
    BY <1>7 DEF SafePoints, CtrlC, Fault, KeySafe, InUser, At
  <2>3. HaltBase \/ HaltChild
    BY <1>7, <2>1, <2>2, NoNobody DEF CtrlC, Fault
  <2>4. CASE HaltBase
    BY <2>1, <2>2, <2>4, HaltBaseNesting
  <2>5. CASE HaltChild
    BY <2>1, <2>2, <2>5, HaltChildNesting
  <2> QED BY <2>3, <2>4, <2>5
<1> QED BY <1>3, <1>4, <1>5, <1>6, <1>7 DEF Next

\* Every step is a step of TerminalStacks, or a stutter.
LEMMA StepRefines ==
    ASSUME SafePoints, TypeOK, IInv, FillsOwn, FillsOwn', Nested, [Next]_vars
    PROVE  Nested' /\ [Abstract!Next]_nesting
<1>1. PICK t \in Terms : /\ \A u \in Terms \ {t} : Same(u)
                         /\ Same(t) \/ (\E p \in Pids : Grows(t, p)) \/ Shrinks(t)
  BY StepNests
<1> QED BY <1>1, OneTerminal

\* At boot no process is set up and every stack is empty.
LEMMA InitRefines == Init => Nested /\ Abstract!Init
<1> SUFFICES ASSUME Init PROVE Nested /\ Abstract!Init
  OBVIOUS
<1>1. \A t \in Terms : Alive(t) = {}
  BY DEF Init, Alive, SetUp
<1>2. ASSUME NEW t \in Terms PROVE <<>> \in Nestings(t)
  <2>1. PICK live, parent, tip : live = Alive(t) /\ parent = parent_pid /\ tip = Tip(t)
    OBVIOUS
  <2>2. live = {} /\ IsFiniteSet(live) /\ Cardinality(live) = 0
    BY <1>1, <2>1, FS_EmptySet
  <2>3. <<>> \in [1 .. 0 -> live] /\ <<>> \in Seq(live) /\ Len(<<>>) = 0 /\ DOMAIN <<>> = 1 .. 0
    OBVIOUS
  <2>4. <<>> \in Ways(live, parent, tip, t)
    BY <2>2, <2>3 DEF Ways
  <2> QED BY <2>1, <2>4, NestingIs
<1>3. \A t \in Terms : nesting[t] = <<>>
  BY <1>2, NestingIs
<1>4. nesting = [t \in Terms |-> nesting[t]]
  BY DEF nesting
<1> QED BY <1>2, <1>3, <1>4 DEF Nested, Abstract!Init

\* With interrupts at the safe points only, the kernel implements TerminalStacks
\* (ProcessStacks): every step of execute, halt, the tick and Ctrl-C pushes one process on one terminal's stack, pops one, or leaves
\* all of them alone (syscall.c:51-148, 160-205).
THEOREM StacksRefined == ASSUME SafePoints PROVE Spec => RefinesStacks
<1>1. Init => Nested /\ Abstract!Init
  BY InitRefines
<1>2. TypeOK /\ IInv => FillsOwn
  BY FillsOwnHolds
<1>3. TypeOK /\ IInv /\ FillsOwn /\ FillsOwn' /\ Nested /\ [Next]_vars => Nested' /\ [Abstract!Next]_nesting
  BY StepRefines
<1> QED BY <1>1, <1>2, <1>3, Safe, PTL DEF Spec, RefinesStacks, Abstract!Spec
=============================================================================
