----------------------------- MODULE ProcessStacks -----------------------------
(***************************************************************************)
(* How the tables of Multitasking stand for the stacks of TerminalStacks:  *)
(* a terminal's processes, in the order of the PCBs' parent links.         *)
(***************************************************************************)
EXTENDS Multitasking, Sequences, FiniteSets

Alive(t) == {p \in Pids : SetUp(p) /\ owner[p] = t}

\* A list of terminal t's processes, each once: the base shell comes first, every
\* other one follows its parent, and the end of the chain is last.
IsNesting(t, s) ==
    /\ \A i \in DOMAIN s : /\ IF i = 1 THEN s[i] = t ELSE parent_pid[s[i]] = s[i - 1]
                           /\ i = Len(s) => s[i] = Tip(t)
    /\ \A i, j \in DOMAIN s : s[i] = s[j] => i = j

Nestings(t) == LET live == Alive(t)
               IN {s \in [1 .. Cardinality(live) -> live] : IsNesting(t, s)}

\* The only one.
nesting == [t \in Terms |-> LET lists == Nestings(t)
                            IN IF lists = {} THEN <<>> ELSE CHOOSE s \in lists : TRUE]

Abstract == INSTANCE TerminalStacks WITH chain <- nesting

\* The kernel implements a stack of processes per terminal: execute pushes a fresh
\* one, halt pops it and gives the terminal back to its parent (syscall.c:51-148,
\* 160-205).
RefinesStacks == Abstract!Spec
=============================================================================
