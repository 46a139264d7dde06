---------------------------------- MODULE Paging ----------------------------------
(***************************************************************************)
(* The page tables page_init builds and setup_mem changes (paging.c): one  *)
(* directory, page_table for the first 4MB, page_vm_table for the video    *)
(* pages of user programs.  Addresses are numbers of 4KB pages, so that a  *)
(* 4MB page is 1024 of them; frames likewise.                              *)
(***************************************************************************)
EXTENDS Integers

NUM_PDE          == 1024
VM_INDEX         == 184      \* 0xB8
VM_T0            == 185
VM_T1            == 186
VM_T2            == 187
KERNEL_ADDR      == 1        \* in 4MB pages
USER_LEVEL_INDEX == 32
USER_VM_INDEX    == 33
None             == -1

VideoPages == {VM_INDEX, VM_T0, VM_T1, VM_T2}

\* A wrong version of set_init_PDE: user programs may use every page.
UserEverywhere(index, cmd) == [present |-> cmd = 0, U_S |-> TRUE, p_s |-> cmd = 1, addr |-> 0]

\* set_init_PDE: cmd 0 for the entry of a page table, 1 for one of a 4MB page.
set_init_PDE(index, cmd) == [present |-> cmd = 0, U_S |-> FALSE, p_s |-> cmd = 1, addr |-> 0]

\* set_init_PTE and set_init_vm_PTE.
set_init_PTE(index) == [present |-> FALSE, U_S |-> FALSE, addr |-> index]

Present(e, addr) == [e EXCEPT !.present = TRUE, !.addr = addr]
User(e)          == [e EXCEPT !.present = TRUE, !.U_S = TRUE]

page_table == [i \in 0 .. NUM_PDE - 1 |->
    LET e == set_init_PTE(i) IN
    CASE i = VM_INDEX        -> Present(e, VM_T0)
      [] i = VM_T0           -> Present(e, VM_INDEX)
      [] i \in {VM_T1, VM_T2} -> Present(e, i)
      [] OTHER               -> e]

page_vm_table == [i \in 0 .. NUM_PDE - 1 |->
    LET e == set_init_PTE(i) IN
    IF i \in 0 .. 2 THEN [User(e) EXCEPT !.addr = <<VM_INDEX, VM_T1, VM_T2>>[i + 1]] ELSE e]

\* setup_mem: physical memory starts at 8MB + pid*4MB.
Frame(pid) == 2 + pid

\* The directory after page_init and, for a process, setup_mem.
page_directory(pid) == [i \in 0 .. NUM_PDE - 1 |->
    LET e == set_init_PDE(i, IF i = 0 THEN 0 ELSE 1) IN
    CASE i = KERNEL_ADDR      -> Present(e, KERNEL_ADDR)
      [] i = USER_LEVEL_INDEX -> [User(e) EXCEPT !.addr = IF pid = None THEN 0 ELSE Frame(pid)]
      [] i = USER_VM_INDEX    -> [User(e) EXCEPT !.p_s = FALSE]
      [] OTHER                -> e]

\* The processor's translation of a page, the frame or None for a fault.
Table(index) == IF index = USER_VM_INDEX THEN page_vm_table ELSE page_table
Translate(pid, index, page, user) ==
    LET pde == page_directory(pid)[index]
        pte == Table(index)[page]
    IN IF ~pde.present \/ (user /\ ~pde.U_S) THEN None
       ELSE IF pde.p_s THEN pde.addr * NUM_PDE + page
       ELSE IF ~pte.present \/ (user /\ ~pte.U_S) THEN None
       ELSE pte.addr

-----------------------------------------------------------------------------
\* A user program reaches its own 4MB at 8MB + pid*4MB, the pages its terminal is
\* shown on, and nothing else of memory; the kernel's own addresses are the
\* physical ones, but for two pages of the video memory that change places
\* (paging.c:31-91, 200-204).
Confined(pid, index) == \A page \in 0 .. NUM_PDE - 1 :
    LET user   == Translate(pid, index, page, TRUE)
        kernel == Translate(pid, index, page, FALSE)
    IN /\ user # None => user \in ((8 + 4 * pid) * 256 .. (12 + 4 * pid) * 256 - 1)
                                  \cup VideoPages
       /\ user # None => kernel = user
       /\ index <= 1 /\ kernel # None =>
              kernel = index * NUM_PDE + page \/ {kernel, page} = {VM_INDEX, VM_T0}
=============================================================================
