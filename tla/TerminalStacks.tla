---------------------------- MODULE TerminalStacks ----------------------------
(***************************************************************************)
(* What the kernel promises about processes, without saying how: each      *)
(* terminal runs a stack of processes, only the top one of which can start *)
(* another or exit; a process gets a number nobody else has; and when the  *)
(* top process exits, the one that started it is on top again.  A base     *)
(* shell that exits leaves the stack empty until it is started again.      *)
(***************************************************************************)
EXTENDS Naturals, Sequences, SequencesExt

CONSTANTS Pids, Terms

VARIABLE chain    \* chain[t]: terminal t's processes, the running one last

Live == UNION {Range(chain[t]) : t \in Terms}

Init == chain = [t \in Terms |-> <<>>]

Start(t) == \E p \in Pids \ Live : chain' = [chain EXCEPT ![t] = Append(@, p)]

Exit(t) == /\ chain[t] # <<>>
           /\ chain' = [chain EXCEPT ![t] = Front(@)]

Next == \E t \in Terms : Start(t) \/ Exit(t)

Spec == Init /\ [][Next]_chain
=============================================================================
