--------------------------- MODULE DescriptorsProofs ---------------------------
(***************************************************************************)
(* Proofs about Descriptors for every number of processes, terminals and   *)
(* descriptors and every directory.  The first part holds wherever the     *)
(* PIT interrupts a call; the second, about reads, when it interrupts none *)
(* of them (SafePoints).                                                   *)
(***************************************************************************)
EXTENDS Descriptors, WellFoundedInduction, TLAPS

\* The driver that is called works on a descriptor of its own, after open or a
\* dispatch through the table of the process that pcb_val_read names.
InDriver == \A t \in Terms :
               /\ pc[t] \in {"open", "file", "advance", "dir", "copy"} => fd[t] >= FD_START
               /\ pc[t] \in Points \ {"open"} => pcb_val_read \in Pids

\* Entries 0 and 1 are those that file_desc_arr_initial made, or were never made.
StdIntact == \A p \in Pids : /\ file_desc_arr[p][0] \in {Closed, Std("stdin")}
                             /\ file_desc_arr[p][1] \in {Closed, Std("stdout")}

Inv == TypeOK /\ InDriver /\ StdIntact /\ StdOpen

-----------------------------------------------------------------------------
\* The last of a chain is one of it.
LEMMA LastTyped == ASSUME NEW S, NEW s \in Seq(S), s # <<>>
                   PROVE  Last(s) \in S /\ Last(s) \in Stacks!Range(s)
BY DEF Last, Stacks!Range

\* A chain without its last has nothing new.
LEMMA FrontTyped == ASSUME NEW S, NEW s \in Seq(S), s # <<>>
                    PROVE  /\ Front(s) \in Seq(S)
                           /\ Len(Front(s)) = Len(s) - 1
                           /\ Stacks!Range(Front(s)) \subseteq Stacks!Range(s)
<1>1. 0 <= Len(s) - 1 /\ Len(s) - 1 <= Len(s) /\ Len(s) \in Nat
  OBVIOUS
<1>2. Front(s) = [i \in 1 .. Len(s) - 1 |-> s[i]]
  BY <1>1 DEF Front
<1>3. Front(s) \in Seq(S) /\ Len(Front(s)) = Len(s) - 1
  <2>1. \A i \in 1 .. Len(s) - 1 : s[i] \in S
    BY <1>1
  <2>2. Front(s) \in [1 .. Len(s) - 1 -> S]
    BY <1>2, <2>1
  <2>3. \E n \in Nat : Front(s) \in [1 .. n -> S]
    BY <1>1, <2>2
  <2> QED BY <1>1, <1>2, <2>2, <2>3
<1>4. Stacks!Range(Front(s)) \subseteq Stacks!Range(s)
  BY <1>1, <1>2 DEF Stacks!Range
<1> QED BY <1>3, <1>4

\* A chain that grows has one process more, at its end.
LEMMA AppendTyped == ASSUME NEW S, NEW s \in Seq(S), NEW e \in S
                     PROVE  /\ Append(s, e) \in Seq(S)
                            /\ Last(Append(s, e)) = e
                            /\ Stacks!Range(Append(s, e)) \subseteq Stacks!Range(s) \cup {e}
BY DEF Last, Stacks!Range

\* The process that runs, and the one that started it, are processes.
LEMMA CurrentTyped == ASSUME TypeOK, chain[active_term] # <<>>
                      PROVE  Current \in Pids /\ Current \in Stacks!Live
<1>1. chain[active_term] \in Seq(Pids) /\ active_term \in Terms
  BY DEF TypeOK
<1> QED BY <1>1, LastTyped DEF Current, Stacks!Live

\* The parent of the current process is a process.
LEMMA ParentTyped == ASSUME TypeOK, Len(chain[active_term]) > 1
                     PROVE  Parent \in Pids
<1>1. chain[active_term] \in Seq(Pids) /\ chain[active_term] # <<>>
  BY DEF TypeOK
<1>2. Front(chain[active_term]) \in Seq(Pids) /\ Front(chain[active_term]) # <<>>
  BY <1>1, FrontTyped
<1> QED BY <1>2, LastTyped DEF Parent

\* What open and close write into a table are entries.
LEMMA EntriesTyped ==
    /\ Closed \in Entries
    /\ Std("stdin") \in Entries /\ Std("stdout") \in Entries
    /\ \A d \in Dentries : Opened(d) \in Entries
BY DirectoryAssumption DEF Entries, Closed, Std, Opened, Dentries, None

-----------------------------------------------------------------------------
\* The table execute makes has stdin and stdout open (syscall.c:282-314).
LEMMA InitialTable ==
    ASSUME NEW table
    PROVE  /\ file_desc_arr_initial(table) \in [Fds -> Entries]
           /\ file_desc_arr_initial(table)[0] = Std("stdin")
           /\ file_desc_arr_initial(table)[1] = Std("stdout")
BY EntriesTyped, OpenFilesAssumption DEF file_desc_arr_initial, Fds

\* What is done to a table of a process, above its first two entries, keeps the
\* invariant of the tables.
LEMMA TableUpdate ==
    ASSUME TypeOK, StdIntact, StdOpen,
           NEW p \in Pids, NEW table \in [Fds -> Entries],
           table[0] = file_desc_arr[p][0], table[1] = file_desc_arr[p][1],
           file_desc_arr' = [file_desc_arr EXCEPT ![p] = table],
           Stacks!Live' \subseteq Stacks!Live
    PROVE  file_desc_arr' \in [Pids -> [Fds -> Entries]] /\ StdIntact' /\ StdOpen'
<1>1. file_desc_arr \in [Pids -> [Fds -> Entries]]
  BY DEF TypeOK
<1>2. \A q \in Pids : file_desc_arr'[q][0] = file_desc_arr[q][0]
                       /\ file_desc_arr'[q][1] = file_desc_arr[q][1]
  BY <1>1
<1>3. Stacks!Live \subseteq Pids
  BY DEF TypeOK, Stacks!Live, Stacks!Range
<1> QED BY <1>1, <1>2, <1>3 DEF StdIntact, StdOpen, Std, Closed

\* A new table, made by execute for a process that joins the live ones.
LEMMA TableInitialised ==
    ASSUME TypeOK, StdIntact, StdOpen, NEW p \in Pids, Initialise(p),
           Stacks!Live' \subseteq Stacks!Live \cup {p}
    PROVE  /\ file_desc_arr' \in [Pids -> [Fds -> Entries]]
           /\ units' \in [Pids -> [Fds -> Nat \cup {None}]]
           /\ StdIntact' /\ StdOpen'
<1>1. /\ file_desc_arr \in [Pids -> [Fds -> Entries]]
      /\ units \in [Pids -> [Fds -> Nat \cup {None}]]
  BY DEF TypeOK
<1>2. file_desc_arr' = [file_desc_arr EXCEPT ![p] = file_desc_arr_initial(file_desc_arr[p])]
  BY DEF Initialise
<1>3. /\ file_desc_arr' \in [Pids -> [Fds -> Entries]]
      /\ file_desc_arr'[p][0] = Std("stdin") /\ file_desc_arr'[p][1] = Std("stdout")
      /\ \A q \in Pids \ {p} : file_desc_arr'[q] = file_desc_arr[q]
  BY <1>1, <1>2, InitialTable
<1>4. Stacks!Live \subseteq Pids
  BY DEF TypeOK, Stacks!Live, Stacks!Range
<1>5. units' \in [Pids -> [Fds -> Nat \cup {None}]]
  <2>1. [i \in Fds |-> IF i < FD_START THEN 0 ELSE None] \in [Fds -> Nat \cup {None}]
    OBVIOUS
  <2> QED BY <1>1, <2>1 DEF Initialise
<1>6. StdIntact'
  BY <1>3 DEF StdIntact, Std, Closed
<1>7. StdOpen'
  BY <1>3, <1>4 DEF StdOpen, Std
<1> QED BY <1>3, <1>5, <1>6, <1>7

\* A set of numbers has a least element, which open takes (syscall.c:443-446).
LEMMA Minimum == ASSUME NEW S \in SUBSET Nat, S # {}
                 PROVE  \E k \in S : \A j \in S : k <= j
<1> DEFINE R == OpToRel(<, Nat)
<1>1. \A i, j \in Nat : i < j => <<i, j>> \in R
  BY DEF OpToRel
<1>2. \E k \in S : \A j \in S : ~ (<<j, k>> \in R)
  <2> HIDE DEF R
  <2>1. IsWellFoundedOn(R, Nat)
    BY NatLessThanWellFounded DEF R
  <2> QED BY <2>1, WFMin
<1> HIDE DEF R
<1>3. PICK k \in S : \A j \in S : ~ (<<j, k>> \in R)
  BY <1>2
<1>4. \A j \in S : ~ (j < k)
  BY <1>1, <1>3
<1> QED BY <1>4

-----------------------------------------------------------------------------
\* The first state satisfies the invariant.
LEMMA Initially == Init => Inv
<1> SUFFICES ASSUME Init PROVE Inv
  OBVIOUS
<1>1. TypeOK
  <2>1. chain \in [Terms -> Seq(Pids)]
    BY DEF Init, Stacks!Init
  <2> QED BY <2>1, EntriesTyped, OpenFilesAssumption DEF Init, TypeOK, Fds, None
<1>2. Stacks!Live = {}
  BY DEF Init, Stacks!Init, Stacks!Live, Stacks!Range
<1>3. InDriver
  BY DEF Init, InDriver, Points
<1>4. StdIntact
  BY OpenFilesAssumption DEF Init, StdIntact, Fds
<1>5. StdOpen
  BY <1>2 DEF StdOpen
<1> QED BY <1>1, <1>3, <1>4, <1>5 DEF Inv

\* Steps that move the running thread along or leave the tables and the processes
\* alone.
LEMMA TablesKept ==
    ASSUME Inv, UNCHANGED <<chain, file_desc_arr>>
    PROVE  StdIntact' /\ StdOpen'
BY DEF Inv, StdIntact, StdOpen, Stacks!Live

\* What every call that returns does to its terminal's thread.
LEMMA ReturnTyped ==
    ASSUME TypeOK, Return
    PROVE  /\ pc' \in [Terms -> {"user"} \cup Points]
           /\ fd' \in [Terms -> Fds]
           /\ local' \in [Terms -> Nat]
BY OpenFilesAssumption DEF TypeOK, Return, Goto, Fds

\* The calls from a user program, and the dispatch to a driver.
LEMMA CallsPreserve ==
    ASSUME Inv, chain[active_term] # <<>>
    PROVE  /\ \A d \in Dentries : Open(d) => Inv'
           /\ \A i \in Fds : Close(i) \/ Read(i) => Inv'
           /\ OpenCall \/ GetArgs \/ Dispatch => Inv'
<1> active_term \in Terms
  BY DEF Inv, TypeOK
<1>c. Current \in Pids
  BY CurrentTyped DEF Inv
<1>l. UNCHANGED chain => Stacks!Live' = Stacks!Live
  BY DEF Stacks!Live
<1>1. ASSUME NEW d \in Dentries, Open(d) PROVE Inv'
  <2> DEFINE free == FreeFds(file_desc_arr[Current])
             i == CHOOSE i \in free : \A j \in free : i <= j
             table == [file_desc_arr[Current] EXCEPT ![i] = Opened(d)]
  <2>1. i \in Fds /\ i >= FD_START
    <3>1. free \subseteq Nat /\ free # {}
      BY <1>1 DEF Open, FreeFds, Fds
    <3>2. \E k \in free : \A j \in free : k <= j
      BY <3>1, Minimum
    <3> QED BY <3>2 DEF FreeFds
  <2> HIDE DEF i
  <2>2. file_desc_arr' = [file_desc_arr EXCEPT ![Current] = table]
    BY <1>1 DEF Open, i
  <2>3. table \in [Fds -> Entries]
    BY <1>c, EntriesTyped DEF Inv, TypeOK
  <2>4. table[0] = file_desc_arr[Current][0] /\ table[1] = file_desc_arr[Current][1]
    BY <2>1, <1>c, OpenFilesAssumption DEF Inv, TypeOK, Fds, FD_START
  <2> HIDE DEF table
  <2>5. file_desc_arr' \in [Pids -> [Fds -> Entries]] /\ StdIntact' /\ StdOpen'
    BY <1>1, <1>c, <1>l, <2>2, <2>3, <2>4, TableUpdate DEF Inv, Open
  <2>6. TypeOK'
    <3>1. /\ UNCHANGED <<chain, active_term, globals, local>>
          /\ units' = [units EXCEPT ![Current][i] = 0]
          /\ fd' = [fd EXCEPT ![active_term] = i]
          /\ pc' = [pc EXCEPT ![active_term] = "open"]
      BY <1>1 DEF Open, Goto, i
    <3> QED BY <3>1, <2>1, <2>5 DEF Inv, TypeOK, globals, Points
  <2>7. InDriver'
    <3>1. /\ UNCHANGED pcb_val_read
          /\ fd' = [fd EXCEPT ![active_term] = i]
          /\ pc' = [pc EXCEPT ![active_term] = "open"]
      BY <1>1 DEF Open, Goto, globals, i
    <3> QED BY <3>1, <2>1 DEF Inv, TypeOK, InDriver
  <2> QED BY <2>5, <2>6, <2>7 DEF Inv
<1>2. ASSUME NEW i \in Fds, Close(i) PROVE Inv'
  <2> DEFINE table == [file_desc_arr[Current] EXCEPT ![i] = Closed]
  <2>1. i >= FD_START
    BY <1>2 DEF Close, Closable
  <2>2. file_desc_arr' = [file_desc_arr EXCEPT ![Current] = table]
    BY <1>2 DEF Close
  <2>3. table \in [Fds -> Entries]
    BY <1>c, EntriesTyped DEF Inv, TypeOK
  <2>4. table[0] = file_desc_arr[Current][0] /\ table[1] = file_desc_arr[Current][1]
    BY <2>1, <1>c, OpenFilesAssumption DEF Inv, TypeOK, Fds, FD_START
  <2> HIDE DEF table
  <2>5. file_desc_arr' \in [Pids -> [Fds -> Entries]] /\ StdIntact' /\ StdOpen'
    BY <1>2, <1>c, <1>l, <2>2, <2>3, <2>4, TableUpdate DEF Inv, Close
  <2>6. TypeOK'
    BY <1>2, <2>5 DEF Close, Inv, TypeOK, globals, thread
  <2>7. InDriver'
    BY <1>2 DEF Close, Inv, InDriver, globals, thread
  <2> QED BY <2>5, <2>6, <2>7 DEF Inv
<1>3. ASSUME NEW i \in Fds, Read(i) PROVE Inv'
  <2>1. TypeOK'
    BY <1>3, <1>c DEF Read, ReadPcb, Goto, Inv, TypeOK, tables, Points
  <2>2. InDriver'
    BY <1>3, <1>c DEF Read, ReadPcb, Goto, Inv, TypeOK, InDriver
  <2> QED BY <1>3, <2>1, <2>2, TablesKept DEF Inv, Read, tables
<1>4. ASSUME OpenCall PROVE Inv'
  <2>1. fd[active_term] \in Fds /\ Own(fd[active_term]) \in Entries
    BY <1>c DEF Inv, TypeOK, Own
  <2>2. dentry_temp' \in Dentries \cup {None}
    BY <1>4, <2>1 DEF OpenCall, Inv, TypeOK, Entries
  <2>3. TypeOK'
    BY <1>4, <2>2, OpenFilesAssumption DEF OpenCall, Return, Goto, Inv, TypeOK, tables, Fds
  <2>4. InDriver'
    BY <1>4 DEF OpenCall, Return, Goto, Inv, TypeOK, InDriver, Points
  <2> QED BY <1>4, <2>3, <2>4, TablesKept DEF Inv, OpenCall, tables
<1>5. ASSUME GetArgs PROVE Inv'
  <2>1. TypeOK' /\ InDriver'
    BY <1>5, <1>c DEF GetArgs, ReadPcb, Inv, TypeOK, InDriver, tables, thread
  <2> QED BY <1>5, <2>1, TablesKept DEF Inv, GetArgs, tables
<1>6. ASSUME Dispatch PROVE Inv'
  <2>1. pcb_val_read \in Pids
    BY <1>6 DEF Dispatch, At, Inv, InDriver, Points
  <2>2. Entry.op \in {"file", "dir"} => fd[active_term] >= FD_START
    <3>1. fd[active_term] \in Fds
      BY DEF Inv, TypeOK
    <3>2. ASSUME fd[active_term] \in {0, 1} PROVE Entry.op \notin {"file", "dir"}
      BY <2>1, <3>2 DEF Entry, Inv, StdIntact, Closed, Std
    <3> QED BY <3>1, <3>2 DEF Fds, FD_START
  <2>3. TypeOK'
    <3>1. /\ pc' \in [Terms -> {"user"} \cup Points]
          /\ fd' \in [Terms -> Fds] /\ local' \in [Terms -> Nat]
      <4>1. CASE Entry.op \in {"file", "dir"}
        BY <1>6, <4>1 DEF Dispatch, Goto, Inv, TypeOK, Points
      <4>2. CASE Entry.op \notin {"file", "dir"}
        BY <1>6, <4>2, ReturnTyped DEF Dispatch, Inv
      <4> QED BY <4>1, <4>2
    <3> QED BY <1>6, <3>1 DEF Dispatch, Inv, TypeOK, globals, tables
  <2>4. InDriver'
    BY <1>6, <2>1, <2>2
    DEF Dispatch, Return, Goto, Inv, TypeOK, InDriver, globals, Points
  <2> QED BY <1>6, <2>3, <2>4, TablesKept DEF Inv, Dispatch, tables
<1> QED BY <1>1, <1>2, <1>3, <1>4, <1>5, <1>6

-----------------------------------------------------------------------------
\* The steps of file_read and dir_read, whose descriptor is above the first two.
LEMMA DriversPreserve ==
    ASSUME Inv, chain[active_term] # <<>>
    PROVE  FileRead \/ FileAdvance \/ DirRead \/ DirCopy => Inv'
<1> active_term \in Terms /\ fd[active_term] \in Fds /\ local[active_term] \in Nat
  BY DEF Inv, TypeOK
<1>c. Current \in Pids
  BY CurrentTyped DEF Inv
<1>l. UNCHANGED chain => Stacks!Live' = Stacks!Live
  BY DEF Stacks!Live
<1>u. ASSUME NEW n \in Nat, Count(n) PROVE units' \in [Pids -> [Fds -> Nat \cup {None}]]
  <2>1. units[Current][fd[active_term]] + n \in Nat \cup {None}
    BY <1>c DEF Inv, TypeOK, None
  <2> QED BY <1>u, <1>c, <2>1 DEF Count, Inv, TypeOK
<1>p. ASSUME At("file") \/ At("advance") \/ At("dir") \/ At("copy")
      PROVE  /\ pcb_val_read \in Pids
             /\ fd[active_term] >= FD_START
             /\ Entry \in Entries
  BY <1>p DEF At, Inv, InDriver, TypeOK, Points, Entry
\* An entry above the first two moves to another position.
<1>m. ASSUME NEW k \in Nat, pcb_val_read \in Pids, fd[active_term] >= FD_START,
             file_desc_arr' = [file_desc_arr EXCEPT
                                  ![pcb_val_read][fd[active_term]].position = k],
             UNCHANGED chain
      PROVE  file_desc_arr' \in [Pids -> [Fds -> Entries]] /\ StdIntact' /\ StdOpen'
  <2> DEFINE old   == file_desc_arr[pcb_val_read]
             table == [old EXCEPT ![fd[active_term]].position = k]
  <2>1. file_desc_arr' = [file_desc_arr EXCEPT ![pcb_val_read] = table]
    BY <1>m
  <2>2. [old[fd[active_term]] EXCEPT !.position = k] \in Entries
    <3>1. old[fd[active_term]] \in Entries
      BY <1>m DEF Inv, TypeOK
    <3> HIDE DEF old
    <3> QED BY <1>m, <3>1 DEF Entries
  <2>3. table \in [Fds -> Entries]
    BY <1>m, <2>2 DEF Inv, TypeOK
  <2>4. table[0] = old[0] /\ table[1] = old[1]
    BY <1>m, OpenFilesAssumption DEF Inv, TypeOK, Fds, FD_START
  <2> HIDE DEF table
  <2> QED BY <1>m, <1>l, <2>1, <2>3, <2>4, TableUpdate DEF Inv
<1>1. ASSUME FileRead PROVE Inv'
  <2>1. PICK n \in 0 .. FILE_LENGTH - Entry.position :
             local' = [local EXCEPT ![active_term] = n] /\ Count(n)
    BY <1>1 DEF FileRead
  <2>2. n \in Nat
    BY <1>1, <1>p, <2>1, FileLengthAssumption DEF FileRead, Entries
  <2>3. units' \in [Pids -> [Fds -> Nat \cup {None}]]
    BY <1>u, <2>1, <2>2
  <2>4. TypeOK'
    BY <1>1, <2>1, <2>2, <2>3 DEF FileRead, Goto, Inv, TypeOK, globals, Points
  <2>5. InDriver'
    BY <1>1, <1>p DEF FileRead, Goto, Inv, TypeOK, InDriver, globals, Points
  <2> QED BY <1>1, <2>4, <2>5, TablesKept DEF Inv, FileRead
<1>2. ASSUME FileAdvance PROVE Inv'
  <2>1. Entry.position + local[active_term] \in Nat
    BY <1>2, <1>p DEF FileAdvance, Entries
  <2>2. file_desc_arr' \in [Pids -> [Fds -> Entries]] /\ StdIntact' /\ StdOpen'
    BY <1>2, <1>p, <1>m, <2>1 DEF FileAdvance, Entry
  <2>3. TypeOK'
    BY <1>2, <2>2, ReturnTyped DEF FileAdvance, Inv, TypeOK, globals
  <2>4. InDriver'
    BY <1>2 DEF FileAdvance, Return, Goto, Inv, TypeOK, InDriver, globals, Points
  <2> QED BY <2>2, <2>3, <2>4 DEF Inv
<1>3. ASSUME DirRead PROVE Inv'
  <2>1. TypeOK'
    <3>1. CASE ValidIndex(Entry.position)
      <4>1. Entry.position \in Dentries /\ Entry.position \in Nat
        BY <1>3, <1>p, <3>1, DirectoryAssumption DEF DirRead, Entries, ValidIndex, Dentries
      <4> QED BY <1>3, <3>1, <4>1 DEF DirRead, Goto, Inv, TypeOK, tables, Points
    <3>2. CASE ~ValidIndex(Entry.position)
      BY <1>3, <3>2, ReturnTyped DEF DirRead, Inv, TypeOK, tables
    <3> QED BY <3>1, <3>2
  <2>2. InDriver'
    <3>1. CASE ValidIndex(Entry.position)
      BY <1>3, <1>p, <3>1 DEF DirRead, Goto, Inv, TypeOK, InDriver, Points
    <3>2. CASE ~ValidIndex(Entry.position)
      BY <1>3, <3>2 DEF DirRead, Return, Goto, Inv, TypeOK, InDriver, Points
    <3> QED BY <3>1, <3>2
  <2> QED BY <1>3, <2>1, <2>2, TablesKept DEF Inv, DirRead, tables
<1>4. ASSUME DirCopy PROVE Inv'
  <2>1. local[active_term] + 1 \in Nat
    OBVIOUS
  <2>2. file_desc_arr' \in [Pids -> [Fds -> Entries]] /\ StdIntact' /\ StdOpen'
    BY <1>4, <1>p, <1>m, <2>1 DEF DirCopy
  <2>3. units' \in [Pids -> [Fds -> Nat \cup {None}]]
    BY <1>4, <1>u DEF DirCopy
  <2>4. TypeOK'
    BY <1>4, <2>2, <2>3, ReturnTyped DEF DirCopy, Inv, TypeOK, globals
  <2>5. InDriver'
    BY <1>4 DEF DirCopy, Return, Goto, Inv, TypeOK, InDriver, globals, Points
  <2> QED BY <2>2, <2>4, <2>5 DEF Inv
<1> QED BY <1>1, <1>2, <1>3, <1>4

\* The steps that start and end processes.
LEMMA ProcessesPreserve == ASSUME Inv PROVE Execute \/ HaltBase \/ HaltChild => Inv'
<1> active_term \in Terms /\ chain \in [Terms -> Seq(Pids)]
  BY DEF Inv, TypeOK
<1>1. ASSUME Execute PROVE Inv'
  <2>1. PICK p \in Pids : chain' = [chain EXCEPT ![active_term] = Append(@, p)]
    BY <1>1 DEF Execute, Stacks!Start
  <2>2. /\ chain' \in [Terms -> Seq(Pids)]
        /\ Last(chain'[active_term]) = p
        /\ Stacks!Live' \subseteq Stacks!Live \cup {p}
    BY <2>1, AppendTyped DEF Stacks!Live
  <2>3. /\ file_desc_arr' \in [Pids -> [Fds -> Entries]]
        /\ units' \in [Pids -> [Fds -> Nat \cup {None}]]
        /\ StdIntact' /\ StdOpen'
    BY <1>1, <2>2, TableInitialised DEF Execute, Inv
  <2>4. TypeOK'
    BY <1>1, <2>2, <2>3 DEF Execute, Inv, TypeOK, globals, thread
  <2>5. InDriver'
    BY <1>1 DEF Execute, Inv, InDriver, globals, thread
  <2> QED BY <2>3, <2>4, <2>5 DEF Inv
<1>2. ASSUME HaltBase PROVE Inv'
  <2>1. Current \in Pids
    <3>1. Len(chain[active_term]) > 0
      BY <1>2 DEF HaltBase
    <3>2. chain[active_term] # <<>>
      BY <3>1
    <3> QED BY <3>2, CurrentTyped DEF Inv
  <2>2. Stacks!Live' \subseteq Stacks!Live \cup {Current}
    BY <1>2 DEF HaltBase, Stacks!Live
  <2>3. /\ file_desc_arr' \in [Pids -> [Fds -> Entries]]
        /\ units' \in [Pids -> [Fds -> Nat \cup {None}]]
        /\ StdIntact' /\ StdOpen'
    BY <1>2, <2>1, <2>2, TableInitialised DEF HaltBase, Inv
  <2>4. TypeOK'
    BY <1>2, <2>3, ReturnTyped DEF HaltBase, Inv, TypeOK, globals
  <2>5. InDriver'
    BY <1>2 DEF HaltBase, Return, Goto, Inv, TypeOK, InDriver, globals, Points
  <2> QED BY <2>3, <2>4, <2>5 DEF Inv
<1>3. ASSUME HaltChild PROVE Inv'
  <2>1. Parent \in Pids /\ chain[active_term] # <<>>
    BY <1>3, ParentTyped DEF HaltChild, Inv
  <2>2. chain' = [chain EXCEPT ![active_term] = Stacks!Front(chain[active_term])]
    BY <1>3 DEF HaltChild, Stacks!Exit
  <2>3. Stacks!Front(chain[active_term]) = Front(chain[active_term])
    BY DEF Stacks!Front, Front
  <2>4. /\ chain' \in [Terms -> Seq(Pids)]
        /\ Stacks!Live' \subseteq Stacks!Live
    BY <2>1, <2>2, <2>3, FrontTyped DEF Stacks!Live
  <2> DEFINE old     == file_desc_arr[Parent]
             closing == {i \in Fds : Closable(old, i)}
             table   == [i \in Fds |-> IF i \in closing THEN Closed ELSE old[i]]
  <2>5. old \in [Fds -> Entries]
    BY <2>1 DEF Inv, TypeOK
  <2>6. closing \subseteq Fds /\ 0 \notin closing /\ 1 \notin closing
    BY DEF Closable, FD_START
  <2>7. file_desc_arr' = [file_desc_arr EXCEPT ![Parent] = table]
    BY <1>3 DEF HaltChild
  <2>8. units' \in [Pids -> [Fds -> Nat \cup {None}]]
    <3>1. units' = [units EXCEPT ![Parent] =
                       [i \in Fds |-> IF i \in closing THEN None ELSE units[Parent][i]]]
      BY <1>3 DEF HaltChild
    <3> HIDE DEF closing
    <3> QED BY <2>1, <3>1 DEF Inv, TypeOK
  <2> HIDE DEF closing
  <2>9. table \in [Fds -> Entries] /\ table[0] = old[0] /\ table[1] = old[1]
    BY <2>5, <2>6, EntriesTyped, OpenFilesAssumption DEF Fds
  <2> HIDE DEF table
  <2>10. file_desc_arr' \in [Pids -> [Fds -> Entries]] /\ StdIntact' /\ StdOpen'
    BY <2>1, <2>4, <2>7, <2>9, TableUpdate DEF Inv
  <2>11. TypeOK'
    BY <1>3, <2>4, <2>8, <2>10, ReturnTyped DEF HaltChild, Inv, TypeOK, globals
  <2>12. InDriver'
    BY <1>3 DEF HaltChild, Return, Goto, Inv, TypeOK, InDriver, globals, Points
  <2> QED BY <2>10, <2>11, <2>12 DEF Inv
<1> QED BY <1>1, <1>2, <1>3

\* Every step keeps the invariant.
LEMMA Inductive == Inv /\ [Next]_vars => Inv'
<1> SUFFICES ASSUME Inv, [Next]_vars PROVE Inv'
  OBVIOUS
<1>1. CASE Execute \/ HaltBase \/ HaltChild
  BY <1>1, ProcessesPreserve
<1>2. ASSUME NEW d \in Dentries, Open(d) PROVE Inv'
  BY <1>2, CallsPreserve DEF Open, At
<1>3. ASSUME NEW i \in Fds, Close(i) \/ Read(i) PROVE Inv'
  BY <1>3, CallsPreserve DEF Close, Read, At
<1>4. CASE OpenCall \/ GetArgs \/ Dispatch
  BY <1>4, CallsPreserve DEF OpenCall, GetArgs, Dispatch, At
<1>5. CASE FileRead \/ FileAdvance \/ DirRead \/ DirCopy
  BY <1>5, DriversPreserve DEF FileRead, FileAdvance, DirRead, DirCopy, At
<1>6. CASE Tick
  <2>1. TypeOK' /\ InDriver'
    BY <1>6 DEF Tick, Inv, TypeOK, InDriver, tables, globals, thread
  <2> QED BY <1>6, <2>1, TablesKept DEF Inv, Tick, tables
<1>7. CASE UNCHANGED vars
  <2>1. TypeOK' /\ InDriver'
    BY <1>7 DEF vars, Inv, TypeOK, InDriver, tables, globals, thread
  <2> QED BY <1>7, <2>1, TablesKept DEF Inv, vars, tables
<1> QED BY <1>1, <1>2, <1>3, <1>4, <1>5, <1>6, <1>7 DEF Next

\* The inductive invariant, wherever ticks land.
THEOREM Invariance == Spec => []Inv
BY Initially, Inductive, PTL DEF Spec

\* Every variable has its type, and a read past the last directory entry never looks
\* one up (file_system.c:114), wherever ticks land.
THEOREM Typed == Spec => []TypeOK
<1>1. Inv => TypeOK
  BY DEF Inv
<1> QED BY Invariance, <1>1, PTL

\* No sequence of calls, exits and ticks closes, moves or replaces a live process's
\* stdin or stdout (syscall.c:511), not even where a tick sends a read to the table
\* of another process.
THEOREM StdStaysOpen == Spec => []StdOpen
<1>1. Inv => StdOpen
  BY DEF Inv
<1> QED BY Invariance, <1>1, PTL
-----------------------------------------------------------------------------
(***************************************************************************)
(* Reads, when the PIT interrupts no read.  The globals belong to the      *)
(* running process from the first assignment of its read to the last.      *)
(***************************************************************************)
SafePoints == TickPoints \subseteq SafeTick

\* No process is in two places.
Apart == \A t, u \in Terms : \A i \in 1 .. Len(chain[t]), j \in 1 .. Len(chain[u]) :
            chain[t][i] = chain[u][j] => t = u /\ i = j

\* Only the scheduled terminal is in the middle of a read.
Parked == \A t \in Terms : /\ t # active_term => pc[t] \in {"user", "open"}
                           /\ chain[t] = <<>> => pc[t] = "user"

\* It works on an open descriptor of its own, and between looking a name up and copying
\* it has everything from the same entry of the directory.
Reading ==
    pc[active_term] \in Points \ {"open"} =>
        /\ pcb_val_read = Current
        /\ Own(fd[active_term]).flag = 1
        /\ pc[active_term] = "copy" => /\ dentry_temp = local[active_term]
                                       /\ local[active_term] = Own(fd[active_term]).position

IInv == Apart /\ Parked /\ Reading /\ ReadsContinue

\* What ReadsContinue says of descriptor i of process p, in terminal t.
Pending(t, p, i) == IF p = Last(chain[t]) /\ pc[t] = "advance" /\ fd[t] = i
                    THEN local[t] ELSE 0
Continues(t, p, i) == units[p][i] = IF file_desc_arr[p][i].flag = 1
                                    THEN file_desc_arr[p][i].position + Pending(t, p, i)
                                    ELSE None

\* ReadsContinue, descriptor by descriptor.
LEMMA AllContinue ==
    ReadsContinue <=> \A t \in Terms : \A p \in Range(chain[t]) : \A i \in Fds : Continues(t, p, i)
BY DEF ReadsContinue, Continues, Pending

\* What a sequence ranges over.
LEMMA InRange ==
    ASSUME NEW S, NEW s \in Seq(S)
    PROVE  \A p : p \in Range(s) <=> \E i \in 1 .. Len(s) : p = s[i]
BY DEF Range

\* The running process is the last of the scheduled terminal's and of nobody else's.
LEMMA CurrentOnly ==
    ASSUME TypeOK, Apart, chain[active_term] # <<>>
    PROVE  /\ Current \in Range(chain[active_term])
           /\ \A t \in Terms : Current \in Range(chain[t]) => t = active_term
<1>1. chain[active_term] \in Seq(Pids) /\ active_term \in Terms
  BY DEF TypeOK
<1>2. Len(chain[active_term]) \in 1 .. Len(chain[active_term])
  BY <1>1
<1>3. Current = chain[active_term][Len(chain[active_term])]
  BY DEF Current, Last
<1>4. Current \in Range(chain[active_term])
  BY <1>1, <1>2, <1>3, InRange
<1>5. ASSUME NEW t \in Terms, Current \in Range(chain[t]) PROVE t = active_term
  <2>1. chain[t] \in Seq(Pids)
    BY DEF TypeOK
  <2>2. PICK i \in 1 .. Len(chain[t]) : Current = chain[t][i]
    BY <1>5, <2>1, InRange
  <2> QED BY <1>1, <1>2, <1>3, <2>2 DEF Apart
<1> QED BY <1>4, <1>5

\* A terminal's thread does the calls of its own process only: a step of the running
\* process that touches descriptor k of its table alone, and leaves that one in order,
\* leaves them all in order.
LEMMA OneDescriptor ==
    ASSUME Inv, IInv, chain[active_term] # <<>>, UNCHANGED <<chain, active_term>>, NEW k \in Fds,
           \A t \in Terms \ {active_term} : pc'[t] = pc[t],
           \A p \in Pids, i \in Fds : p # Current \/ i # k =>
               file_desc_arr'[p][i] = file_desc_arr[p][i] /\ units'[p][i] = units[p][i],
           pc[active_term] = "advance" => fd[active_term] = k,
           pc'[active_term] = "advance" => fd'[active_term] = k,
           Continues(active_term, Current, k)'
    PROVE  ReadsContinue'
<1> SUFFICES ASSUME NEW t \in Terms, NEW p \in Range(chain[t]), NEW i \in Fds
             PROVE  Continues(t, p, i)'
  <2>1. ReadsContinue' <=> \A t \in Terms : \A p \in Range(chain'[t]) : \A i \in Fds :
                                Continues(t, p, i)'
    BY DEF ReadsContinue, Continues, Pending
  <2> QED BY <2>1
<1>1. active_term \in Terms /\ chain[t] \in Seq(Pids) /\ Current' = Current
  BY DEF Inv, TypeOK, Current
<1>2. CASE p = Current /\ i = k
  <2>1. t = active_term
    BY <1>2, CurrentOnly DEF Inv, IInv
  <2> QED BY <1>1, <1>2, <2>1 DEF Continues, Pending
<1>3. CASE p # Current \/ i # k
  <2>1. p \in Pids
    BY <1>1 DEF Range
  <2>2. Pending(t, p, i) = 0
    BY <1>1, <1>3 DEF Pending, IInv, Parked, Current
  <2>3. Pending(t, p, i)' = 0
    <3>1. CASE t = active_term
      BY <1>1, <1>3, <3>1 DEF Pending, Current
    <3>2. CASE t # active_term
      BY <3>2 DEF Pending, IInv, Parked
    <3> QED BY <3>1, <3>2
  <2>4. Continues(t, p, i)
    BY AllContinue DEF IInv
  <2> QED BY <1>3, <2>1, <2>2, <2>3, <2>4 DEF Continues
<1> QED BY <1>2, <1>3

\* A step of the running process leaves the other terminals where they are.
LEMMA StillParked ==
    ASSUME Inv, IInv, chain[active_term] # <<>>, UNCHANGED <<chain, active_term>>,
           \A t \in Terms \ {active_term} : pc'[t] = pc[t]
    PROVE  Apart' /\ Parked'
<1>1. Apart'
  BY DEF IInv, Apart
<1>2. Parked'
  BY DEF IInv, Parked
<1> QED BY <1>1, <1>2

-----------------------------------------------------------------------------
\* The calls whose steps leave the tables alone.
LEMMA LooksSafe ==
    ASSUME Inv, IInv, chain[active_term] # <<>>
    PROVE  /\ \A i \in Fds : Read(i) => IInv'
           /\ OpenCall \/ GetArgs \/ Dispatch \/ DirRead => IInv'
<1> active_term \in Terms /\ fd[active_term] \in Fds /\ pc \in [Terms -> {"user"} \cup Points]
  BY DEF Inv, TypeOK
<1>c. Current \in Pids /\ Current \in Range(chain[active_term])
  BY CurrentTyped, CurrentOnly DEF Inv, IInv
\* The thread is nowhere near the end of a file read, before the step or after it.
<1>k. ASSUME UNCHANGED <<chain, active_term, tables>>, pc[active_term] # "advance",
             pc'[active_term] # "advance", \A t \in Terms \ {active_term} : pc'[t] = pc[t],
             Reading'
      PROVE  IInv'
  <2>1. Continues(active_term, Current, 0)
    BY <1>c, AllContinue, OpenFilesAssumption DEF IInv, Fds
  <2>2. Continues(active_term, Current, 0)'
    BY <1>k, <2>1 DEF Continues, Pending, tables, Current
  <2>3. ReadsContinue'
    BY <1>k, <2>2, OneDescriptor, OpenFilesAssumption DEF tables, Fds
  <2> QED BY <1>k, <2>3, StillParked DEF IInv
<1>1. ASSUME NEW i \in Fds, Read(i) PROVE IInv'
  <2>1. UNCHANGED <<chain, active_term, tables>> /\ pc[active_term] = "user"
    BY <1>1 DEF Read, At
  <2>2. CASE Own(i).flag = 1
    <3>1. /\ pc' = [pc EXCEPT ![active_term] = "dispatch"]
          /\ fd' = [fd EXCEPT ![active_term] = i] /\ pcb_val_read' = Current
      BY <1>1, <2>2 DEF Read, Goto, ReadPcb
    <3>2. Reading'
      BY <2>1, <2>2, <3>1 DEF Reading, Own, Current, tables, Inv, TypeOK
    <3> QED BY <1>k, <2>1, <3>1, <3>2
  <2>3. CASE Own(i).flag # 1
    <3>1. UNCHANGED pc
      BY <1>1, <2>3 DEF Read
    <3>2. Reading'
      BY <2>1, <3>1 DEF Reading, Points
    <3> QED BY <1>k, <2>1, <3>1, <3>2
  <2> QED BY <2>2, <2>3
<1>2. ASSUME OpenCall PROVE IInv'
  <2>1. /\ UNCHANGED <<chain, active_term, tables>> /\ pc[active_term] = "open"
        /\ pc' = [pc EXCEPT ![active_term] = "user"]
    BY <1>2 DEF OpenCall, At, Return, Goto
  <2>2. Reading'
    BY <2>1 DEF Reading, Points
  <2> QED BY <1>k, <2>1, <2>2
<1>3. ASSUME GetArgs PROVE IInv'
  <2>1. UNCHANGED <<chain, active_term, tables, pc>> /\ pc[active_term] = "user"
    BY <1>3 DEF GetArgs, At, thread
  <2>2. Reading'
    BY <2>1 DEF Reading, Points
  <2> QED BY <1>k, <2>1, <2>2
<1>4. ASSUME Dispatch PROVE IInv'
  <2>1. UNCHANGED <<chain, active_term, tables, globals>> /\ pc[active_term] = "dispatch"
    BY <1>4 DEF Dispatch, At
  <2>2. CASE Entry.op \in {"file", "dir"}
    <3>1. pc' = [pc EXCEPT ![active_term] = Entry.op] /\ UNCHANGED <<fd, local>>
      BY <1>4, <2>2 DEF Dispatch, Goto
    <3>2. Reading'
      BY <2>1, <2>2, <3>1 DEF Reading, IInv, Own, Current, Points, tables, globals
    <3> QED BY <1>k, <2>1, <2>2, <3>1, <3>2
  <2>3. CASE Entry.op \notin {"file", "dir"}
    <3>1. pc' = [pc EXCEPT ![active_term] = "user"]
      BY <1>4, <2>3 DEF Dispatch, Return, Goto
    <3>2. Reading'
      BY <2>1, <3>1 DEF Reading, Points
    <3> QED BY <1>k, <2>1, <3>1, <3>2
  <2> QED BY <2>2, <2>3
<1>5. ASSUME DirRead PROVE IInv'
  <2>1. UNCHANGED <<chain, active_term, tables, pcb_val_read>> /\ pc[active_term] = "dir"
    BY <1>5 DEF DirRead, At
  <2>2. pcb_val_read = Current /\ Own(fd[active_term]).flag = 1
    BY <2>1 DEF IInv, Reading, Points
  <2>3. CASE ValidIndex(Entry.position)
    <3>1. /\ pc' = [pc EXCEPT ![active_term] = "copy"] /\ UNCHANGED fd
          /\ dentry_temp' = Entry.position
          /\ local' = [local EXCEPT ![active_term] = Entry.position]
      BY <1>5, <2>3 DEF DirRead, Goto
    <3>2. Entry.position = Own(fd[active_term]).position
      BY <2>2 DEF Entry, Own
    <3>3. Reading'
      <4>1. UNCHANGED file_desc_arr /\ Current' = Current /\ local'[active_term] = Entry.position
        BY <2>1, <3>1 DEF tables, Current, Inv, TypeOK
      <4> QED BY <2>1, <2>2, <3>1, <3>2, <4>1 DEF Reading, Own
    <3> QED BY <1>k, <2>1, <3>1, <3>3
  <2>4. CASE ~ ValidIndex(Entry.position)
    <3>1. pc' = [pc EXCEPT ![active_term] = "user"]
      BY <1>5, <2>4 DEF DirRead, Return, Goto
    <3>2. Reading'
      BY <2>1, <3>1 DEF Reading, Points
    <3> QED BY <1>k, <2>1, <3>1, <3>2
  <2> QED BY <2>3, <2>4
<1> QED BY <1>1, <1>2, <1>3, <1>4, <1>5

-----------------------------------------------------------------------------
\* The steps that open, close or move one descriptor of the running process.
LEMMA MovesSafe ==
    ASSUME Inv, IInv, chain[active_term] # <<>>
    PROVE  /\ \A d \in Dentries : Open(d) => IInv'
           /\ \A i \in Fds : Close(i) => IInv'
           /\ FileRead \/ FileAdvance \/ DirCopy => IInv'
<1> active_term \in Terms /\ fd[active_term] \in Fds /\ local[active_term] \in Nat
  BY DEF Inv, TypeOK
<1>c. Current \in Pids /\ Current \in Range(chain[active_term])
  BY CurrentTyped, CurrentOnly DEF Inv, IInv
<1>t. /\ file_desc_arr \in [Pids -> [Fds -> Entries]]
      /\ units \in [Pids -> [Fds -> Nat \cup {None}]]
      /\ pc \in [Terms -> {"user"} \cup Points]
      /\ fd \in [Terms -> Fds] /\ local \in [Terms -> Nat]
  BY DEF Inv, TypeOK
<1>1. ASSUME NEW d \in Dentries, Open(d) PROVE IInv'
  <2>1. PICK i \in Fds :
           /\ file_desc_arr' = [file_desc_arr EXCEPT ![Current][i] = Opened(d)]
           /\ units' = [units EXCEPT ![Current][i] = 0]
    <3> DEFINE free == FreeFds(file_desc_arr[Current])
    <3>1. free \subseteq Nat /\ free # {}
      BY <1>1 DEF Open, FreeFds, Fds
    <3>2. \E k \in free : \A j \in free : k <= j
      BY <3>1, Minimum
    <3>3. (CHOOSE i \in free : \A j \in free : i <= j) \in Fds
      BY <3>2 DEF FreeFds
    <3> QED BY <1>1, <3>3 DEF Open
  <2>2. /\ pc[active_term] = "user" /\ pc' = [pc EXCEPT ![active_term] = "open"]
        /\ UNCHANGED <<chain, active_term>>
    BY <1>1 DEF Open, At, Goto
  <2>3. file_desc_arr'[Current][i] = Opened(d) /\ units'[Current][i] = 0
    BY <1>c, <1>t, <2>1, <2>2
  <2>4. Continues(active_term, Current, i)'
    <3>1. Pending(active_term, Current, i)' = 0 /\ Current' = Current
      BY <2>2, <1>t DEF Pending, Current
    <3>2. Opened(d).flag = 1 /\ Opened(d).position = 0
      BY DEF Opened
    <3> QED BY <2>2, <2>3, <3>1, <3>2 DEF Continues
  <2>5. ReadsContinue'
    <3>1. \A p \in Pids, j \in Fds : p # Current \/ j # i =>
             file_desc_arr'[p][j] = file_desc_arr[p][j] /\ units'[p][j] = units[p][j]
      BY <1>c, <1>t, <2>1, <2>2
    <3> QED BY <1>t, <2>1, <2>2, <2>4, <3>1, OneDescriptor
  <2>6. Reading'
    BY <1>t, <2>2 DEF Reading
  <2> QED BY <1>t, <2>2, <2>5, <2>6, StillParked DEF IInv
<1>2. ASSUME NEW i \in Fds, Close(i) PROVE IInv'
  <2>1. /\ file_desc_arr' = [file_desc_arr EXCEPT ![Current][i] = Closed]
        /\ units' = [units EXCEPT ![Current][i] = None]
        /\ pc[active_term] = "user" /\ UNCHANGED <<chain, active_term, pc>>
    BY <1>2 DEF Close, At, thread
  <2>2. file_desc_arr'[Current][i] = Closed /\ units'[Current][i] = None
    BY <1>c, <1>t, <2>1
  <2>3. Continues(active_term, Current, i)'
    BY <2>1, <2>2 DEF Continues, Pending, Current, Closed
  <2>4. ReadsContinue'
    BY <1>c, <1>t, <2>1, <2>3, OneDescriptor
  <2>5. Reading'
    BY <2>1 DEF Reading, Points
  <2> QED BY <2>1, <2>4, <2>5, StillParked DEF IInv
\* What is known of the descriptor a driver works on.
<1>k. PICK k \in Fds : k = fd[active_term]
  OBVIOUS
<1> DEFINE here == file_desc_arr[Current][k]
<1>h. ASSUME pc[active_term] \in Points \ {"open"}
      PROVE  /\ pcb_val_read = Current /\ here.flag = 1 /\ Entry = here
             /\ here.position \in Nat
             /\ units[Current][k] = here.position + (IF pc[active_term] = "advance"
                                                     THEN local[active_term] ELSE 0)
  <2>1. pcb_val_read = Current /\ here.flag = 1
    BY <1>h, <1>k DEF IInv, Reading, Own
  <2>2. Continues(active_term, Current, k)
    BY <1>c, AllContinue DEF IInv
  <2>3. here \in Entries
    BY <1>c, <1>t
  <2>4. here.position \in Nat
    BY <2>3 DEF Entries
  <2> QED BY <1>k, <2>1, <2>2, <2>4 DEF Continues, Pending, Current, Entry
<1>3. ASSUME FileRead PROVE IInv'
  <2>1. pc[active_term] = "file"
    BY <1>3 DEF FileRead, At
  <2>2. PICK n \in 0 .. FILE_LENGTH - Entry.position :
             local' = [local EXCEPT ![active_term] = n] /\ Count(n)
    BY <1>3 DEF FileRead
  <2>3. n \in Nat
    BY <2>1, <2>2, <1>h, FileLengthAssumption DEF Points
  <2>4. /\ pc' = [pc EXCEPT ![active_term] = "advance"]
        /\ units' = [units EXCEPT ![Current][k] = @ + n]
        /\ UNCHANGED <<chain, active_term, file_desc_arr, pcb_val_read, dentry_temp, fd>>
    BY <1>3, <1>k, <2>2 DEF FileRead, Goto, Count, globals
  <2>5. units'[Current][k] = here.position + n
    BY <1>c, <1>t, <1>h, <2>1, <2>3, <2>4 DEF Points
  <2>6. Continues(active_term, Current, k)'
    <3>1. Pending(active_term, Current, k)' = n
      BY <1>k, <1>t, <2>2, <2>4 DEF Pending, Current
    <3>2. here.flag = 1
      BY <1>h, <2>1 DEF Points
    <3> QED BY <2>4, <2>5, <3>1, <3>2 DEF Continues, Current
  <2>7. ReadsContinue'
    BY <1>c, <1>k, <1>t, <2>1, <2>4, <2>6, OneDescriptor
  <2>8. Reading'
    BY <1>h, <1>k, <1>t, <2>1, <2>4 DEF Reading, Own, Current, Points
  <2> QED BY <1>t, <2>4, <2>7, <2>8, StillParked DEF IInv
<1>4. ASSUME FileAdvance PROVE IInv'
  <2>1. pc[active_term] = "advance"
    BY <1>4 DEF FileAdvance, At
  <2>2. /\ file_desc_arr' = [file_desc_arr EXCEPT ![Current][k].position = @ + local[active_term]]
        /\ pc' = [pc EXCEPT ![active_term] = "user"]
        /\ UNCHANGED <<chain, active_term, units>>
    BY <1>4, <1>h, <1>k, <2>1 DEF FileAdvance, Return, Goto, Points
  <2>3. file_desc_arr'[Current][k] = [here EXCEPT !.position = here.position + local[active_term]]
    BY <1>c, <1>t, <2>2
  <2>4. file_desc_arr'[Current][k].flag = 1
        /\ file_desc_arr'[Current][k].position = here.position + local[active_term]
    <3>1. here \in Entries /\ here.flag = 1
      BY <1>c, <1>t, <1>h, <2>1 DEF Points
    <3> HIDE DEF here
    <3> QED BY <2>3, <3>1 DEF Entries
  <2>5. Continues(active_term, Current, k)'
    <3>1. Pending(active_term, Current, k)' = 0
      BY <1>t, <2>2 DEF Pending
    <3>2. units'[Current][k] = here.position + local[active_term]
      BY <1>h, <2>1, <2>2 DEF Points
    <3>3. here.position + local[active_term] \in Nat
      BY <1>h, <2>1 DEF Points
    <3>4. Current' = Current
      BY <2>2 DEF Current
    <3> HIDE DEF here
    <3> QED BY <2>2, <2>4, <3>1, <3>2, <3>3, <3>4 DEF Continues
  <2>6. ReadsContinue'
    <3>1. \A p \in Pids, j \in Fds : p # Current \/ j # k =>
             file_desc_arr'[p][j] = file_desc_arr[p][j] /\ units'[p][j] = units[p][j]
      BY <1>c, <1>t, <2>2
    <3> QED BY <1>k, <1>t, <2>1, <2>2, <2>5, <3>1, OneDescriptor
  <2>7. Reading'
    BY <1>t, <2>2 DEF Reading, Points
  <2> QED BY <1>t, <2>2, <2>6, <2>7, StillParked DEF IInv
<1>5. ASSUME DirCopy PROVE IInv'
  <2>1. pc[active_term] = "copy" /\ local[active_term] = here.position
    BY <1>5, <1>k DEF DirCopy, At, IInv, Reading, Own, Points
  <2>2. /\ file_desc_arr' = [file_desc_arr EXCEPT ![Current][k].position = local[active_term] + 1]
        /\ units' = [units EXCEPT ![Current][k] = @ + 1]
        /\ pc' = [pc EXCEPT ![active_term] = "user"]
        /\ UNCHANGED <<chain, active_term>>
    BY <1>5, <1>h, <1>k, <2>1 DEF DirCopy, Count, Return, Goto, Points
  <2>3. file_desc_arr'[Current][k] = [here EXCEPT !.position = local[active_term] + 1]
    BY <1>c, <1>t, <2>2
  <2>4. file_desc_arr'[Current][k].flag = 1
        /\ file_desc_arr'[Current][k].position = local[active_term] + 1
    <3>1. here \in Entries /\ here.flag = 1
      BY <1>c, <1>t, <1>h, <2>1 DEF Points
    <3> HIDE DEF here
    <3> QED BY <2>3, <3>1 DEF Entries
  <2>5. Continues(active_term, Current, k)'
    <3>1. Pending(active_term, Current, k)' = 0
      BY <1>t, <2>2 DEF Pending
    <3>2. units'[Current][k] = local[active_term] + 1
      BY <1>c, <1>t, <1>h, <2>1, <2>2 DEF Points
    <3>3. Current' = Current
      BY <2>2 DEF Current
    <3> HIDE DEF here
    <3> QED BY <2>2, <2>4, <3>1, <3>2, <3>3 DEF Continues
  <2>6. ReadsContinue'
    <3>1. \A p \in Pids, j \in Fds : p # Current \/ j # k =>
             file_desc_arr'[p][j] = file_desc_arr[p][j] /\ units'[p][j] = units[p][j]
      BY <1>c, <1>t, <2>2
    <3> QED BY <1>k, <1>t, <2>1, <2>2, <2>5, <3>1, OneDescriptor
  <2>7. Reading'
    BY <1>t, <2>2 DEF Reading, Points
  <2> QED BY <1>t, <2>2, <2>6, <2>7, StillParked DEF IInv
<1> QED BY <1>1, <1>2, <1>3, <1>4, <1>5

-----------------------------------------------------------------------------
\* The table that Initialise gives p is in order, whoever p's terminal is.
LEMMA InitialContinues ==
    ASSUME Inv, NEW p \in Pids, Initialise(p), NEW t \in Terms, pc'[t] # "advance"
    PROVE  /\ \A i \in Fds : Continues(t, p, i)'
           /\ \A q \in Pids \ {p} : file_desc_arr'[q] = file_desc_arr[q] /\ units'[q] = units[q]
<1>1. /\ file_desc_arr \in [Pids -> [Fds -> Entries]]
      /\ units \in [Pids -> [Fds -> Nat \cup {None}]]
  BY DEF Inv, TypeOK
<1>2. /\ file_desc_arr'[p] = file_desc_arr_initial(file_desc_arr[p])
      /\ units'[p] = [i \in Fds |-> IF i < FD_START THEN 0 ELSE None]
      /\ \A q \in Pids \ {p} : file_desc_arr'[q] = file_desc_arr[q] /\ units'[q] = units[q]
  BY <1>1 DEF Initialise
<1>3. ASSUME NEW i \in Fds PROVE Continues(t, p, i)'
  <2>1. Pending(t, p, i)' = 0
    BY DEF Pending
  <2>2. CASE i \in {0, 1}
    BY <1>2, <2>1, <2>2 DEF Continues, file_desc_arr_initial, Std, FD_START
  <2>3. CASE i \notin {0, 1}
    <3>1. file_desc_arr'[p][i] = Closed /\ units'[p][i] = None
      BY <1>2, <2>3 DEF file_desc_arr_initial, Fds, FD_START
    <3> QED BY <3>1 DEF Continues, Closed
  <2> QED BY <2>2, <2>3
<1> QED BY <1>2, <1>3

\* Processes start and end outside reads, or take the read they are in with them.
LEMMA ExecuteSafe == ASSUME Inv, IInv, Execute PROVE IInv'
<1> active_term \in Terms /\ chain \in [Terms -> Seq(Pids)]
  BY DEF Inv, TypeOK
<1>1. PICK p \in Pids \ Stacks!Live : chain' = [chain EXCEPT ![active_term] = Append(@, p)]
  BY DEF Execute, Stacks!Start
<1> DEFINE s == chain[active_term]
<1>2. /\ s \in Seq(Pids) /\ Append(s, p) \in Seq(Pids) /\ Len(Append(s, p)) = Len(s) + 1
      /\ Append(s, p)[Len(s) + 1] = p /\ \A i \in 1 .. Len(s) : Append(s, p)[i] = s[i]
      /\ chain'[active_term] = Append(s, p) /\ Last(chain'[active_term]) = p
      /\ \A t \in Terms \ {active_term} : chain'[t] = chain[t]
  BY <1>1, AppendTyped
<1>3. \A t \in Terms : \A i \in 1 .. Len(chain[t]) : chain[t][i] \in Pids /\ chain[t][i] # p
  BY <1>1 DEF Stacks!Live, Stacks!Range
<1>4. pc[active_term] = "user" /\ Initialise(p) /\ UNCHANGED <<active_term, globals, thread>>
  BY <1>2 DEF Execute, At, IInv, Parked
<1>5. Apart'
  <2> SUFFICES ASSUME NEW t \in Terms, NEW u \in Terms, NEW i \in 1 .. Len(chain'[t]),
                      NEW j \in 1 .. Len(chain'[u]), chain'[t][i] = chain'[u][j]
               PROVE  t = u /\ i = j
    BY DEF Apart
  <2>1. ASSUME NEW v \in Terms, NEW m \in 1 .. Len(chain'[v])
        PROVE  \/ m \in 1 .. Len(chain[v]) /\ chain'[v][m] = chain[v][m]
               \/ v = active_term /\ m = Len(s) + 1 /\ chain'[v][m] = p
    <3>1. CASE v = active_term
      <4>1. m \in 1 .. Len(s) + 1
        BY <1>2, <3>1
      <4>2. m \in 1 .. Len(s) \/ m = Len(s) + 1
        BY <1>2, <4>1
      <4> QED BY <1>2, <3>1, <4>2
    <3>2. CASE v # active_term
      BY <1>2, <3>2
    <3> QED BY <3>1, <3>2
  <2>2. \/ i \in 1 .. Len(chain[t]) /\ chain'[t][i] = chain[t][i]
        \/ t = active_term /\ i = Len(s) + 1 /\ chain'[t][i] = p
    BY <2>1
  <2>3. \/ j \in 1 .. Len(chain[u]) /\ chain'[u][j] = chain[u][j]
        \/ u = active_term /\ j = Len(s) + 1 /\ chain'[u][j] = p
    BY <2>1
  <2> QED BY <1>3, <2>2, <2>3 DEF IInv, Apart
<1>6. Parked'
  <2>1. chain'[active_term] # <<>>
    BY <1>2
  <2> QED BY <1>2, <1>4, <2>1 DEF IInv, Parked, thread
<1>7. Reading'
  BY <1>4 DEF Reading, Points, thread
<1>8. ReadsContinue'
  <2>1. \A t \in Terms : pc'[t] # "advance" /\ pc[t] # "advance"
    BY <1>4 DEF IInv, Parked, thread
  <2> SUFFICES ASSUME NEW t \in Terms, NEW q \in Range(chain'[t]), NEW i \in Fds
               PROVE  Continues(t, q, i)'
    BY DEF ReadsContinue, Continues, Pending
  <2>2. CASE q = p
    BY <1>4, <2>1, <2>2, InitialContinues
  <2>3. CASE q # p
    <3>1. q \in Range(chain[t]) /\ q \in Pids
      <4>1. PICK m \in 1 .. Len(chain'[t]) : q = chain'[t][m]
        <5>1. chain'[t] \in Seq(Pids)
          BY <1>2
        <5> QED BY <5>1, InRange
      <4>2. m \in 1 .. Len(chain[t]) /\ q = chain[t][m]
        BY <1>2, <2>3, <4>1
      <4>3. q \in Pids
        BY <1>3, <4>2
      <4>4. chain[t] \in Seq(Pids)
        OBVIOUS
      <4> QED BY <4>2, <4>3, <4>4, InRange
    <3>2. Continues(t, q, i)
      BY <3>1, AllContinue DEF IInv
    <3>3. file_desc_arr'[q] = file_desc_arr[q] /\ units'[q] = units[q]
      BY <1>4, <2>1, <2>3, <3>1, InitialContinues
    <3> QED BY <2>1, <3>2, <3>3 DEF Continues, Pending
  <2> QED BY <2>2, <2>3
<1> QED BY <1>5, <1>6, <1>7, <1>8 DEF IInv

\* The end of a base shell, which starts again, keeps the invariant of the reads.
LEMMA HaltBaseSafe == ASSUME Inv, IInv, HaltBase PROVE IInv'
<1>1. active_term \in Terms /\ chain[active_term] \in Seq(Pids) /\ chain[active_term] # <<>>
  <2>1. Len(chain[active_term]) > 0
    BY DEF HaltBase
  <2>2. active_term \in Terms /\ chain[active_term] \in Seq(Pids)
    BY DEF Inv, TypeOK
  <2> QED BY <2>1, <2>2
<1>2. Current \in Pids
  BY <1>1, CurrentTyped DEF Inv
<1>3. /\ Initialise(Current) /\ UNCHANGED <<chain, active_term, globals>>
      /\ pc' = [pc EXCEPT ![active_term] = "user"] /\ pc'[active_term] = "user"
  BY <1>1 DEF HaltBase, Return, Goto, Inv, TypeOK
<1>4. Apart' /\ Parked'
  BY <1>1, <1>3, StillParked
<1>5. Reading'
  BY <1>3 DEF Reading, Points
<1>6. ReadsContinue'
  <2>1. \A t \in Terms : pc'[t] # "advance" /\ (t # active_term => pc[t] # "advance")
    BY <1>1, <1>3, <1>4 DEF IInv, Parked
  <2> SUFFICES ASSUME NEW t \in Terms, NEW q \in Range(chain[t]), NEW i \in Fds
               PROVE  Continues(t, q, i)'
    <3>1. ReadsContinue' <=> \A t \in Terms : \A q \in Range(chain'[t]) : \A i \in Fds :
                                Continues(t, q, i)'
      BY DEF ReadsContinue, Continues, Pending
    <3> QED BY <1>3, <3>1
  <2>2. CASE q = Current
    BY <1>2, <1>3, <2>1, <2>2, InitialContinues
  <2>3. CASE q # Current
    <3>1. t # active_term
      <4>1. Len(chain[active_term]) = 1
        BY DEF HaltBase
      <4>2. ASSUME t = active_term PROVE q = Current
        BY <1>1, <4>1, <4>2 DEF Range, Current, Last
      <4> QED BY <2>3, <4>2
    <3>2. q \in Pids
      BY DEF Range, Inv, TypeOK
    <3>3. Continues(t, q, i)
      BY AllContinue DEF IInv
    <3>4. file_desc_arr'[q] = file_desc_arr[q] /\ units'[q] = units[q]
      BY <1>2, <1>3, <2>1, <2>3, <3>2, InitialContinues
    <3> QED BY <2>1, <3>1, <3>3, <3>4 DEF Continues, Pending
  <2> QED BY <2>2, <2>3
<1> QED BY <1>4, <1>5, <1>6 DEF IInv

\* The parent's descriptors that halt closes are closed, and the others go on.
LEMMA HaltChildSafe == ASSUME Inv, IInv, HaltChild PROVE IInv'
<1> DEFINE s == chain[active_term]
<1>1. active_term \in Terms /\ s \in Seq(Pids) /\ Len(s) > 1 /\ chain \in [Terms -> Seq(Pids)]
  BY DEF Inv, TypeOK, HaltChild
<1>2. /\ Front(s) \in Seq(Pids) /\ Len(Front(s)) = Len(s) - 1
      /\ \A i \in 1 .. Len(s) - 1 : Front(s)[i] = s[i]
  <2>1. s # <<>>
    BY <1>1
  <2>2. Front(s) \in Seq(Pids) /\ Len(Front(s)) = Len(s) - 1
    BY <1>1, <2>1, FrontTyped
  <2>3. \A i \in 1 .. Len(s) - 1 : Front(s)[i] = s[i]
    BY <1>1 DEF Front
  <2> QED BY <2>2, <2>3
<1>3. /\ chain'[active_term] = Front(s) /\ chain' \in [Terms -> Seq(Pids)]
      /\ \A t \in Terms \ {active_term} : chain'[t] = chain[t]
  BY <1>1, <1>2 DEF HaltChild, Stacks!Exit, Stacks!Front, Front
<1>4. \A t \in Terms : Len(chain'[t]) <= Len(chain[t])
                       /\ \A i \in 1 .. Len(chain'[t]) : chain'[t][i] = chain[t][i]
  <2> TAKE t \in Terms
  <2> HIDE DEF s
  <2>1. CASE t = active_term
    BY <1>1, <1>2, <1>3, <2>1 DEF s
  <2>2. CASE t # active_term
    BY <1>1, <1>3, <2>2
  <2> QED BY <2>1, <2>2
<1>5. UNCHANGED <<active_term, globals>> /\ pc' = [pc EXCEPT ![active_term] = "user"]
      /\ pc'[active_term] = "user"
  BY <1>1 DEF HaltChild, Return, Goto, Inv, TypeOK
<1>6. Apart'
  <2> SUFFICES ASSUME NEW t \in Terms, NEW u \in Terms, NEW i \in 1 .. Len(chain'[t]),
                      NEW j \in 1 .. Len(chain'[u]), chain'[t][i] = chain'[u][j]
               PROVE  t = u /\ i = j
    BY DEF Apart
  <2>1. i \in 1 .. Len(chain[t]) /\ j \in 1 .. Len(chain[u])
    <3>1. Len(chain[t]) \in Nat /\ Len(chain[u]) \in Nat /\ Len(chain'[t]) \in Nat
          /\ Len(chain'[u]) \in Nat
      BY <1>1, <1>3
    <3>2. Len(chain'[t]) <= Len(chain[t]) /\ Len(chain'[u]) <= Len(chain[u])
      BY <1>4
    <3> QED BY <3>1, <3>2
  <2>2. chain[t][i] = chain[u][j]
    BY <1>4
  <2> QED BY <2>1, <2>2 DEF IInv, Apart
<1>7. Parked'
  BY <1>1, <1>3, <1>5 DEF IInv, Parked, Inv, TypeOK
<1>8. Reading'
  BY <1>5 DEF Reading, Points
<1>9. ReadsContinue'
  <2>1. \A t \in Terms : pc'[t] # "advance" /\ (t # active_term => pc[t] # "advance")
    BY <1>1, <1>5, <1>7 DEF IInv, Parked
  <2> DEFINE closing == {i \in Fds : Closable(file_desc_arr[Parent], i)}
  <2>2. /\ file_desc_arr' = [file_desc_arr EXCEPT ![Parent] =
               [i \in Fds |-> IF i \in closing THEN Closed ELSE file_desc_arr[Parent][i]]]
        /\ units' = [units EXCEPT ![Parent] =
               [i \in Fds |-> IF i \in closing THEN None ELSE units[Parent][i]]]
    BY DEF HaltChild
  <2>3. /\ file_desc_arr \in [Pids -> [Fds -> Entries]]
        /\ units \in [Pids -> [Fds -> Nat \cup {None}]]
    BY DEF Inv, TypeOK
  <2> SUFFICES ASSUME NEW t \in Terms, NEW q \in Range(chain'[t]), NEW i \in Fds
               PROVE  Continues(t, q, i)'
    BY DEF ReadsContinue, Continues, Pending
  <2>4. PICK m \in 1 .. Len(chain'[t]) : q = chain'[t][m]
    <3>1. chain'[t] \in Seq(Pids)
      BY <1>3
    <3> QED BY <3>1, InRange
  <2>5. m \in 1 .. Len(chain[t]) /\ q = chain[t][m]
    <3>1. Len(chain[t]) \in Nat /\ Len(chain'[t]) \in Nat /\ Len(chain'[t]) <= Len(chain[t])
      BY <1>1, <1>3, <1>4
    <3> QED BY <1>4, <2>4, <3>1
  <2>6. q \in Range(chain[t]) /\ q \in Pids
    <3>1. chain[t] \in Seq(Pids)
      BY <1>1
    <3> QED BY <2>5, <3>1, InRange
  <2>7. Continues(t, q, i)
    BY <2>6, AllContinue DEF IInv
  \* Nothing is pending: the process that might have been reading is the one that ends.
  <2>8. Pending(t, q, i) = 0
    <3>1. CASE t = active_term
      <4>1. m <= Len(s) - 1
        BY <1>1, <1>2, <1>3, <2>4, <3>1
      <4>2. Len(s) \in 1 .. Len(s) /\ m # Len(s)
        BY <1>1, <2>5, <3>1, <4>1
      <4>3. q # Last(chain[t])
        BY <1>1, <2>5, <3>1, <4>2 DEF Last, IInv, Apart
      <4> QED BY <4>3 DEF Pending
    <3>2. CASE t # active_term
      BY <2>1, <3>2 DEF Pending
    <3> QED BY <3>1, <3>2
  <2>9. Pending(t, q, i)' = 0
    BY <2>1 DEF Pending
  <2> HIDE DEF closing
  <2>10. CASE q = Parent /\ i \in closing
    <3>1. file_desc_arr'[q][i] = Closed /\ units'[q][i] = None
      BY <2>2, <2>3, <2>6, <2>10
    <3> QED BY <3>1 DEF Continues, Closed
  <2>11. CASE ~ (q = Parent /\ i \in closing)
    <3>1. file_desc_arr'[q][i] = file_desc_arr[q][i] /\ units'[q][i] = units[q][i]
      BY <2>2, <2>3, <2>6, <2>11
    <3> QED BY <2>7, <2>8, <2>9, <3>1 DEF Continues
  <2> QED BY <2>10, <2>11
<1> QED BY <1>6, <1>7, <1>8, <1>9 DEF IInv

\* A tick finds the running process in its own code, or in open, which has nothing
\* of a read in the globals.
LEMMA TickSafe == ASSUME SafePoints, Inv, IInv, Tick PROVE IInv'
<1>1. /\ UNCHANGED <<chain, file_desc_arr, units, globals, pc, fd, local>>
      /\ active_term' \in Terms \ {active_term} /\ active_term \in Terms
  BY DEF Tick, tables, thread, Inv, TypeOK
<1>2. pc[active_term] \in {"user", "open"}
  BY DEF Tick, IInv, Parked, SafePoints, SafeTick, Inv, TypeOK
<1>3. Apart'
  BY <1>1 DEF IInv, Apart
<1>4. Parked'
  BY <1>1, <1>2 DEF IInv, Parked
<1>5. Reading'
  BY <1>1 DEF IInv, Parked, Reading, Points
<1>6. ReadsContinue'
  BY <1>1 DEF IInv, ReadsContinue
<1> QED BY <1>3, <1>4, <1>5, <1>6 DEF IInv

\* The first state satisfies the invariant of the reads.
LEMMA InitSafe == Init => IInv
<1> SUFFICES ASSUME Init PROVE IInv
  OBVIOUS
<1>1. \A t \in Terms : chain[t] = <<>> /\ pc[t] = "user"
  BY DEF Init, Stacks!Init
<1>2. Apart /\ ReadsContinue
  BY <1>1 DEF Apart, ReadsContinue, Range
<1>3. Parked /\ Reading
  BY <1>1 DEF Init, Parked, Reading, Points
<1> QED BY <1>2, <1>3 DEF IInv

\* Every step keeps it, if no tick lands in a read.
LEMMA NextSafe == ASSUME SafePoints PROVE Inv /\ IInv /\ [Next]_vars => IInv'
<1> SUFFICES ASSUME Inv, IInv, [Next]_vars PROVE IInv'
  OBVIOUS
<1>1. CASE Execute
  BY <1>1, ExecuteSafe
<1>2. CASE HaltBase
  BY <1>2, HaltBaseSafe
<1>3. CASE HaltChild
  BY <1>3, HaltChildSafe
<1>4. ASSUME NEW d \in Dentries, Open(d) PROVE IInv'
  BY <1>4, MovesSafe DEF Open, At
<1>5. ASSUME NEW i \in Fds, Close(i) \/ Read(i) PROVE IInv'
  BY <1>5, MovesSafe, LooksSafe DEF Close, Read, At
<1>6. CASE OpenCall \/ GetArgs \/ Dispatch \/ DirRead
  BY <1>6, LooksSafe DEF OpenCall, GetArgs, Dispatch, DirRead, At
<1>7. CASE FileRead \/ FileAdvance \/ DirCopy
  BY <1>7, MovesSafe DEF FileRead, FileAdvance, DirCopy, At
<1>8. CASE Tick
  BY <1>8, TickSafe
<1>9. CASE UNCHANGED vars
  <2>1. UNCHANGED <<chain, active_term, file_desc_arr, units, pcb_val_read, dentry_temp, pc, fd, local>>
    BY <1>9 DEF vars, tables, globals, thread
  <2>2. Apart' /\ Parked' /\ ReadsContinue'
    BY <2>1 DEF IInv, Apart, Parked, ReadsContinue
  <2>3. Reading'
    BY <2>1 DEF IInv, Reading, Current, Own
  <2> QED BY <2>2, <2>3 DEF IInv
<1> QED BY <1>1, <1>2, <1>3, <1>4, <1>5, <1>6, <1>7, <1>8, <1>9 DEF Next

\* Both invariants hold in every state.
LEMMA Safe == ASSUME SafePoints PROVE Spec => [](Inv /\ IInv)
BY Initially, Inductive, InitSafe, NextSafe, PTL DEF Spec

\* While no tick lands in a read, every descriptor of every process is where its own
\* reads left it, whatever the other processes read, start, halt or close
\* (file_system.c:262-268, 335-361).
THEOREM Continued == ASSUME SafePoints PROVE Spec => []ReadsContinue
<1>1. IInv => ReadsContinue
  BY DEF IInv
<1> QED BY Safe, <1>1, PTL

\* What the exit of a child does to its parent is all that a process suffers from the
\* others (syscall.c:168-174): no call of theirs, no execute and no tick in between
\* changes its descriptors.
OnlyAChildExit ==
    [][\A t \in Terms : \A p \in Range(chain[t]) :
          \/ t = active_term /\ p = Current
          \/ HaltChild /\ p = Parent
          \/ file_desc_arr'[p] = file_desc_arr[p]]_vars

\* No step changes the table of a process that is neither the current one nor its parent at its exit.
LEMMA OthersKept ==
    ASSUME Inv, IInv, Next, NEW t \in Terms, NEW p \in Range(chain[t]),
           ~ (t = active_term /\ p = Current), ~ (HaltChild /\ p = Parent)
    PROVE  file_desc_arr'[p] = file_desc_arr[p]
<1>1. chain[t] \in Seq(Pids) /\ file_desc_arr \in [Pids -> [Fds -> Entries]]
  BY DEF Inv, TypeOK
<1>2. p \in Pids
  BY <1>1, InRange
<1>3. ASSUME chain[active_term] # <<>> PROVE p # Current
  BY <1>3, CurrentOnly DEF Inv, IInv
<1>4. CASE Execute
  <2>1. PICK q \in Pids \ Stacks!Live : chain' = [chain EXCEPT ![active_term] = Append(@, q)]
    BY <1>4 DEF Execute, Stacks!Start
  <2>2. Last(chain'[active_term]) = q
    BY <2>1, AppendTyped DEF Inv, TypeOK
  <2>3. p # q
    <3>1. PICK i \in 1 .. Len(chain[t]) : p = chain[t][i]
      BY <1>1, InRange
    <3> QED BY <1>1, <2>1, <3>1 DEF Stacks!Live, Stacks!Range
  <2> QED BY <1>1, <1>2, <1>4, <2>2, <2>3 DEF Execute, Initialise
<1>5. CASE HaltBase
  <2>1. chain[active_term] # <<>>
    <3>1. Len(chain[active_term]) > 0
      BY <1>5 DEF HaltBase
    <3> QED BY <3>1
  <2> QED BY <1>1, <1>2, <1>3, <1>5, <2>1 DEF HaltBase, Initialise
<1>6. CASE HaltChild
  BY <1>1, <1>2, <1>6 DEF HaltChild
<1>7. ASSUME NEW d \in Dentries, Open(d) PROVE file_desc_arr'[p] = file_desc_arr[p]
  BY <1>1, <1>2, <1>3, <1>7 DEF Open, At
<1>8. ASSUME NEW i \in Fds, Close(i) \/ Read(i) PROVE file_desc_arr'[p] = file_desc_arr[p]
  BY <1>1, <1>2, <1>3, <1>8 DEF Close, Read, At, tables
<1>9. CASE OpenCall \/ GetArgs \/ Dispatch \/ DirRead \/ FileRead \/ Tick
  BY <1>9 DEF OpenCall, GetArgs, Dispatch, DirRead, FileRead, Tick, tables
<1>10. CASE FileAdvance \/ DirCopy
  <2>1. chain[active_term] # <<>> /\ pcb_val_read = Current
    BY <1>10 DEF FileAdvance, DirCopy, At, IInv, Reading, Points
  <2> QED BY <1>1, <1>2, <1>3, <1>10, <2>1 DEF FileAdvance, DirCopy
<1> QED BY <1>4, <1>5, <1>6, <1>7, <1>8, <1>9, <1>10 DEF Next

\* While no tick lands in a read, a process's table is changed by its own calls and
\* by the exit of its child, and by nothing else (syscall.c:169-174).
THEOREM Isolated == ASSUME SafePoints PROVE Spec => OnlyAChildExit
<1>1. Inv /\ IInv /\ [Next]_vars =>
          [\A t \in Terms : \A p \in Range(chain[t]) :
             \/ t = active_term /\ p = Current
             \/ HaltChild /\ p = Parent
             \/ file_desc_arr'[p] = file_desc_arr[p]]_vars
  BY OthersKept
<1> QED BY Safe, <1>1, PTL DEF Spec, OnlyAChildExit
=============================================================================
