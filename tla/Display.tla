-------------------------------- MODULE Display --------------------------------
(***************************************************************************)
(* Video memory: the page tables set up by page_init (paging.c), the       *)
(* switch of the displayed terminal by terminal_switch (terminal.c), and   *)
(* the writes of putc, clear_key and the scroll functions (lib.c) and of   *)
(* user programs through vidmap (syscall.c).                               *)
(*                                                                         *)
(* A physical page is the text buffer the monitor shows (DISPLAY) or the   *)
(* backup page of a terminal (the terminal's number).  The kernel's        *)
(* virtual pages have the same names: terms[t].vidmem is virtual page t,   *)
(* VIDEO is virtual page DISPLAY.                                          *)
(***************************************************************************)
EXTENDS Naturals

CONSTANTS TERM_COUNT, Cells, Values,
          NoByte           \* no byte is being moved

ASSUME CountAssumption == TERM_COUNT \in Nat \ {0}

Terms   == 0 .. TERM_COUNT - 1
DISPLAY == TERM_COUNT
Pages   == Terms \cup {DISPLAY}
Content == [Cells -> Values]

VARIABLES
    page_table,      \* kernel virtual page -> physical page
    page_vm_table,   \* terminal t's vidmap page -> physical page
    tlb, user_tlb,   \* the translations in use since the last flush
    memory,          \* physical page -> content
    byte,            \* the byte terminal t's vertical_scroll has read and not written
    curr_term,       \* the displayed terminal
    new_term,        \* terminal_switch's argument
    step             \* where terminal_switch is, "idle" when it is not running

tables == <<page_table, page_vm_table>>
tlbs   == <<tlb, user_tlb>>
vars   == <<tables, tlbs, memory, byte, curr_term, new_term, step>>

-----------------------------------------------------------------------------
(***************************************************************************)
(* Wrong versions of definitions below, which the properties tell apart    *)
(* from the right ones.                                                    *)
(***************************************************************************)
NoFlush == UNCHANGED tlbs                        \* flush_tlb() missing
TakenFromShown(t, y) == memory[DISPLAY][y]       \* video_mem read for vidmem
VidmapNotReset(from, to) == [page_vm_table EXCEPT ![to] = DISPLAY]

-----------------------------------------------------------------------------
\* The mapping page_init sets up; memory holds whatever it held at boot.
Init == /\ page_table = [p \in Pages |-> IF p = 0 THEN DISPLAY
                                         ELSE IF p = DISPLAY THEN 0 ELSE p]
        /\ page_vm_table = [t \in Terms |-> IF t = 0 THEN DISPLAY ELSE t]
        /\ tlb = page_table
        /\ user_tlb = page_vm_table
        /\ memory \in [Pages -> Content]
        /\ byte = [t \in Terms |-> NoByte]
        /\ curr_term = 0
        /\ new_term = 0
        /\ step = "idle"

Store(p, x, v) == memory' = [memory EXCEPT ![p][x] = v]

\* One byte written by putc for the scheduled terminal or by putc_keyboard for
\* the displayed one, by clear_key or by color_init.
Putc(t, x, v) == /\ step = "idle"
                 /\ Store(tlb[t], x, v)
                 /\ UNCHANGED <<tables, tlbs, byte, curr_term, new_term, step>>

\* vertical_scroll_keyboard moves a character from the row below, inside the
\* keyboard interrupt.
ScrollByte(x, y) == Putc(curr_term, x, memory[tlb[curr_term]][y])

\* vertical_scroll reads a character and writes it with interrupts on: a key, a
\* tick or terminal_switch may come in between.  After a Ctrl-C there the byte
\* read is not written, and the terminal's next scroll begins with another.
TakenUp(t, y) == memory[tlb[t]][y]

ScrollRead(t, y) == /\ step = "idle"
                    /\ byte' = [byte EXCEPT ![t] = TakenUp(t, y)]
                    /\ UNCHANGED <<tables, tlbs, memory, curr_term, new_term, step>>

ScrollWrite(t, x) == /\ step = "idle" /\ byte[t] # NoByte
                     /\ Store(tlb[t], x, byte[t])
                     /\ byte' = [byte EXCEPT ![t] = NoByte]
                     /\ UNCHANGED <<tables, tlbs, curr_term, new_term, step>>

\* A user program writes to the page that vidmap gave it.
VidmapWrite(t, x, v) == /\ step = "idle"
                        /\ Store(user_tlb[t], x, v)
                        /\ UNCHANGED <<tables, tlbs, byte, curr_term, new_term, step>>

Copied(to, from) == memory' = [memory EXCEPT ![to] = memory[from]]

\* terminal_switch runs in the keyboard handler with interrupts disabled.
SwitchSave(t) == /\ step = "idle" /\ t # curr_term
                 /\ Copied(tlb[DISPLAY], tlb[curr_term])
                 /\ new_term' = t
                 /\ step' = "remap"
                 /\ UNCHANGED <<tables, tlbs, byte, curr_term>>

Remapped(table, from, to) ==
    [table EXCEPT ![to] = DISPLAY, ![from] = from, ![DISPLAY] = to]

VidmapRemapped(from, to) == [page_vm_table EXCEPT ![to] = DISPLAY, ![from] = from]

SwitchRemap == /\ step = "remap"
               /\ page_table' = Remapped(page_table, curr_term, new_term)
               /\ page_vm_table' = VidmapRemapped(curr_term, new_term)
               /\ step' = "flush"
               /\ UNCHANGED <<tlbs, memory, byte, curr_term, new_term>>

flush_tlb == tlb' = page_table /\ user_tlb' = page_vm_table

SwitchFlush == /\ step = "flush"
               /\ flush_tlb
               /\ step' = "restore"
               /\ UNCHANGED <<tables, memory, byte, curr_term, new_term>>

SwitchRestore == /\ step = "restore"
                 /\ Copied(tlb[new_term], tlb[DISPLAY])
                 /\ curr_term' = new_term
                 /\ step' = "idle"
                 /\ UNCHANGED <<tables, tlbs, byte, new_term>>

Next == \/ \E t \in Terms, x \in Cells, v \in Values : Putc(t, x, v) \/ VidmapWrite(t, x, v)
        \/ \E x, y \in Cells : ScrollByte(x, y)
        \/ \E t \in Terms, x \in Cells : ScrollRead(t, x) \/ ScrollWrite(t, x)
        \/ \E t \in Terms : SwitchSave(t)
        \/ SwitchRemap \/ SwitchFlush \/ SwitchRestore

Spec == Init /\ [][Next]_vars

-----------------------------------------------------------------------------
(***************************************************************************)
(* Correctness.                                                            *)
(***************************************************************************)
\* Every variable has its type.
TypeOK == /\ page_table \in [Pages -> Pages]
          /\ page_vm_table \in [Terms -> Pages]
          /\ tlb \in [Pages -> Pages]
          /\ user_tlb \in [Terms -> Pages]
          /\ memory \in [Pages -> Content]
          /\ byte \in [Terms -> Values \cup {NoByte}]
          /\ curr_term \in Terms
          /\ new_term \in Terms
          /\ step \in {"idle", "remap", "flush", "restore"}

\* A program that writes through vidmap and its terminal's putc write to the
\* same page, and no two terminals share a page (terminal.c:181-188).
OnePagePerTerminal ==
    step = "idle" => /\ \A t \in Terms : user_tlb[t] = tlb[t]
                     /\ \A t, u \in Terms : t # u => tlb[t] # tlb[u]

\* The screen of a terminal: what the monitor shows if it is displayed, its
\* backup page otherwise.
Screen(t) == IF t = curr_term THEN memory[DISPLAY] ELSE memory[t]

Abstract == INSTANCE Screens WITH screen <- [t \in Terms |-> Screen(t)],
                                  shown <- curr_term, First <- 0

\* Three independent screens: every write reaches the screen of its terminal
\* and no other, a scroll moves bytes of its own screen also if a switch comes
\* between the read and the write of one, and a switch changes which screen is
\* shown and none of them.
ThreeScreens == Abstract!Spec
=============================================================================
