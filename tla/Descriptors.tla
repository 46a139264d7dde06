------------------------------ MODULE Descriptors ------------------------------
(***************************************************************************)
(* The file descriptor tables: open, close, read and getargs (syscall.c),  *)
(* the file and directory drivers (file_system.c), and what execute and    *)
(* halt do to the tables.  The two globals pcb_val_read and dentry_temp    *)
(* are shared by the processes of all the terminals.                       *)
(*                                                                         *)
(* Processes are the stacks of TerminalStacks, which the kernel implements *)
(* (see MCMultitasking); the scheduler may switch to any terminal.  A      *)
(* directory entry, and the file it names, is its index.                   *)
(***************************************************************************)
EXTENDS Integers, Sequences, SequencesExt

CONSTANTS
    Pids, Terms,
    MAX_OPEN_FILES,   \* descriptors of a process, stdin and stdout included
    TOTAL_NUM_DIR,    \* directory entries
    file_type,        \* the type of each
    FILE_LENGTH,      \* length of a regular file, in the smallest unit read
    TickPoints        \* points of a call where the PIT may interrupt (code: Points)

Points == {"open", "dispatch", "file", "advance", "dir", "copy"}

\* Not among them: any point of a read, from the assignment to pcb_val_read on.
SafeTick == {"open"}

ASSUME OpenFilesAssumption  == MAX_OPEN_FILES \in Nat \ {0, 1, 2}
ASSUME DirectoryAssumption  == /\ TOTAL_NUM_DIR \in Nat \ {0}
                               /\ file_type \in [0 .. TOTAL_NUM_DIR - 1 -> {"rtc", "dir", "file"}]
ASSUME FileLengthAssumption == FILE_LENGTH \in Nat
ASSUME PointsAssumption     == TickPoints \subseteq Points

FD_START == 2
Fds      == 0 .. MAX_OPEN_FILES - 1
Dentries == 0 .. TOTAL_NUM_DIR - 1
None     == -1

VARIABLES
    chain,          \* chain[t]: terminal t's processes, the running one last
    active_term,    \* the scheduled terminal
    file_desc_arr,  \* file_desc_arr[p]: the table in the PCB of process p
    pcb_val_read,   \* global: the process that called read or getargs last
    dentry_temp,    \* global: the directory entry looked up last
    pc, fd,         \* where terminal t's process is, the descriptor it works on
    local,          \* bytes_read of file_read, counterVal of dir_read
    units           \* history: units read through each descriptor, None if closed

globals == <<pcb_val_read, dentry_temp>>
thread  == <<pc, fd, local>>
tables  == <<file_desc_arr, units>>
vars    == <<chain, active_term, tables, globals, thread>>

Stacks == INSTANCE TerminalStacks

-----------------------------------------------------------------------------
Current == Last(chain[active_term])
Parent  == Last(Front(chain[active_term]))

\* Of an entry whose flag is 0 nothing else is used before it is set again.
Closed    == [op |-> "none", inode |-> None, position |-> 0, flag |-> 0]
Std(op)   == [op |-> op, inode |-> None, position |-> 0, flag |-> 1]
Opened(d) == [op |-> file_type[d], inode |-> d, position |-> 0, flag |-> 1]

\* Wrong versions of definitions below, which the properties tell apart from
\* the right ones.
FlagsLeft(table) == [table EXCEPT ![0] = Std("stdin"), ![1] = Std("stdout")]
ClosableFromOne(table, i) == i > 0 /\ table[i].flag = 1
ValidIndexOffByOne(i) == i <= TOTAL_NUM_DIR

file_desc_arr_initial(table) == [i \in Fds |-> IF i = 0 THEN Std("stdin")
                                               ELSE IF i = 1 THEN Std("stdout")
                                               ELSE Closed]

Closable(table, i) == i >= FD_START /\ table[i].flag = 1
FreeFds(table)     == {i \in Fds : i >= FD_START /\ table[i].flag = 0}
ValidIndex(i)      == i < TOTAL_NUM_DIR
ReadPcb            == Current

Init == /\ Stacks!Init
        /\ active_term \in Terms
        /\ file_desc_arr = [p \in Pids |-> [i \in Fds |-> Closed]]
        /\ pcb_val_read = None
        /\ dentry_temp = None
        /\ pc = [t \in Terms |-> "user"]
        /\ fd = [t \in Terms |-> 0]
        /\ local = [t \in Terms |-> 0]
        /\ units = [p \in Pids |-> [i \in Fds |-> None]]

At(label)   == chain[active_term] # <<>> /\ pc[active_term] = label
Goto(label) == pc' = [pc EXCEPT ![active_term] = label]
Own(i)      == file_desc_arr[Current][i]
Return      == /\ Goto("user")
               /\ fd' = [fd EXCEPT ![active_term] = 0]
               /\ local' = [local EXCEPT ![active_term] = 0]

-----------------------------------------------------------------------------
(***************************************************************************)
(* execute and halt, as far as the tables go; of the PCB only the calling  *)
(* terminal's processes are concerned, so each is one step.                *)
(***************************************************************************)
Initialise(p) ==
    /\ file_desc_arr' = [file_desc_arr EXCEPT ![p] = file_desc_arr_initial(@)]
    /\ units' = [units EXCEPT ![p] = [i \in Fds |-> IF i < FD_START THEN 0 ELSE None]]

Execute == /\ chain[active_term] = <<>> \/ At("user")
           /\ Stacks!Start(active_term)
           /\ Initialise(Last(chain'[active_term]))
           /\ UNCHANGED <<active_term, globals, thread>>

\* A base shell is started again in its own slot.
HaltBase == /\ Len(chain[active_term]) = 1
            /\ Initialise(Current)
            /\ Return
            /\ UNCHANGED <<chain, active_term, globals>>

\* halt, also by Ctrl-C anywhere in a call.  The parent is current by the time
\* of the loop that closes the descriptors.
HaltChild == /\ Len(chain[active_term]) > 1
             /\ Stacks!Exit(active_term)
             /\ LET table == file_desc_arr[Parent]
                    closing == {i \in Fds : Closable(table, i)}
                IN  /\ file_desc_arr' = [file_desc_arr EXCEPT ![Parent] =
                          [i \in Fds |-> IF i \in closing THEN Closed ELSE @[i]]]
                    /\ units' = [units EXCEPT ![Parent] =
                          [i \in Fds |-> IF i \in closing THEN None ELSE @[i]]]
             /\ Return
             /\ UNCHANGED <<active_term, globals>>

-----------------------------------------------------------------------------
(***************************************************************************)
(* The calls.  open takes the lowest free descriptor and then calls the    *)
(* driver, which looks the name up again.                                  *)
(***************************************************************************)
Open(d) == LET free == FreeFds(file_desc_arr[Current])
               i    == CHOOSE i \in free : \A j \in free : i <= j
           IN  /\ At("user") /\ free # {}
               /\ file_desc_arr' = [file_desc_arr EXCEPT ![Current][i] = Opened(d)]
               /\ units' = [units EXCEPT ![Current][i] = 0]
               /\ fd' = [fd EXCEPT ![active_term] = i]
               /\ Goto("open")
               /\ UNCHANGED <<chain, active_term, globals, local>>

OpenCall == /\ At("open")
            /\ dentry_temp' = LET entry == Own(fd[active_term]) IN
                              IF entry.op = "rtc" THEN dentry_temp ELSE entry.inode
            /\ Return
            /\ UNCHANGED <<chain, active_term, tables, pcb_val_read>>

Close(i) == /\ At("user") /\ Closable(file_desc_arr[Current], i)
            /\ file_desc_arr' = [file_desc_arr EXCEPT ![Current][i] = Closed]
            /\ units' = [units EXCEPT ![Current][i] = None]
            /\ UNCHANGED <<chain, active_term, globals, thread>>

GetArgs == /\ At("user")
           /\ pcb_val_read' = ReadPcb
           /\ UNCHANGED <<chain, active_term, tables, dentry_temp, thread>>

\* read sets the global before it looks at the flag.
Read(i) == /\ At("user")
           /\ pcb_val_read' = ReadPcb
           /\ IF Own(i).flag = 1
              THEN Goto("dispatch") /\ fd' = [fd EXCEPT ![active_term] = i]
              ELSE UNCHANGED <<pc, fd>>
           /\ UNCHANGED <<chain, active_term, tables, dentry_temp, local>>

\* The entry the global leads to, from here to the end of the call.
Entry == file_desc_arr[pcb_val_read][fd[active_term]]

\* The other drivers do not use the tables.  (An entry never opened has no
\* operation to call.)
Dispatch == /\ At("dispatch") /\ Entry.op # "none"
            /\ IF Entry.op \in {"file", "dir"}
               THEN Goto(Entry.op) /\ UNCHANGED <<fd, local>>
               ELSE Return
            /\ UNCHANGED <<chain, active_term, tables, globals>>

Count(n) == units' = [units EXCEPT ![Current][fd[active_term]] = @ + n]

\* read_data gives n units or what is left of the file.
FileRead == /\ At("file")
            /\ \E n \in 0 .. FILE_LENGTH - Entry.position :
                  /\ local' = [local EXCEPT ![active_term] = n]
                  /\ Count(n)
            /\ Goto("advance")
            /\ UNCHANGED <<chain, active_term, file_desc_arr, globals, fd>>

FileAdvance == /\ At("advance")
               /\ file_desc_arr' = [file_desc_arr EXCEPT
                     ![pcb_val_read][fd[active_term]].position = @ + local[active_term]]
               /\ Return
               /\ UNCHANGED <<chain, active_term, globals, units>>

\* Past the last entry dir_read fails.
DirRead == /\ At("dir")
           /\ IF ValidIndex(Entry.position)
              THEN /\ dentry_temp' = Entry.position
                   /\ local' = [local EXCEPT ![active_term] = Entry.position]
                   /\ Goto("copy")
                   /\ UNCHANGED fd
              ELSE Return /\ UNCHANGED dentry_temp
           /\ UNCHANGED <<chain, active_term, tables, pcb_val_read>>

DirCopy == /\ At("copy")
           /\ file_desc_arr' = [file_desc_arr EXCEPT
                 ![pcb_val_read][fd[active_term]].position = local[active_term] + 1]
           /\ Count(1)
           /\ Return
           /\ UNCHANGED <<chain, active_term, globals>>

Tick == /\ chain[active_term] = <<>> \/ pc[active_term] \in TickPoints \cup {"user"}
        /\ active_term' \in Terms \ {active_term}
        /\ UNCHANGED <<chain, tables, globals, thread>>

Next == \/ Execute \/ HaltBase \/ HaltChild
        \/ \E d \in Dentries : Open(d)
        \/ \E i \in Fds : Close(i) \/ Read(i)
        \/ OpenCall \/ GetArgs \/ Dispatch \/ FileRead \/ FileAdvance \/ DirRead \/ DirCopy
        \/ Tick

Spec == Init /\ [][Next]_vars

-----------------------------------------------------------------------------
Entries == [op : {"none", "stdin", "stdout", "rtc", "dir", "file"},
            inode : Dentries \cup {None}, position : Nat, flag : 0 .. 1]

\* Every variable has its type.
TypeOK == /\ chain \in [Terms -> Seq(Pids)]
          /\ active_term \in Terms
          /\ file_desc_arr \in [Pids -> [Fds -> Entries]]
          /\ pcb_val_read \in Pids \cup {None}
          /\ dentry_temp \in Dentries \cup {None}
          /\ pc \in [Terms -> {"user"} \cup Points]
          /\ fd \in [Terms -> Fds]
          /\ local \in [Terms -> Nat]
          /\ units \in [Pids -> [Fds -> Nat \cup {None}]]

\* stdin and stdout are open in every process, whatever it and the programs it
\* starts close (syscall.c:511).
StdOpen == \A p \in Stacks!Live : /\ file_desc_arr[p][0] = Std("stdin")
                                  /\ file_desc_arr[p][1] = Std("stdout")

\* What a process has open is what it opened itself, and the position of a
\* descriptor is what was read through it: reads of one descriptor continue one
\* another, whatever the other processes read (file_system.c:262-268, 335-361).
ReadsContinue ==
    \A t \in Terms : \A p \in Range(chain[t]) : \A i \in Fds :
        LET entry   == file_desc_arr[p][i]
            pending == IF p = Last(chain[t]) /\ pc[t] = "advance" /\ fd[t] = i
                       THEN local[t] ELSE 0
        IN  units[p][i] = IF entry.flag = 1 THEN entry.position + pending ELSE None

\* From its start to its end a read works on the table of the process that called
\* it, and a directory read copies the name it looked up (syscall.c:563-575,
\* file_system.c:345-356).
ReadsOwnTable ==
    chain[active_term] # <<>> =>
        /\ pc[active_term] \in Points \ {"open"} => pcb_val_read = Current
        /\ pc[active_term] = "copy" => dentry_temp = local[active_term]

\* A step changes the descriptors of the process that runs and, when it starts
\* another, of the new one: what a process opened stays open until it closes it.
OthersKeepTheirFiles ==
    [][\A t \in Terms : \A p \in Range(chain[t]) :
          t # active_term \/ p # Current => file_desc_arr'[p] = file_desc_arr[p]]_vars
=============================================================================
