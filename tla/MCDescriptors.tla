----------------------------- MODULE MCDescriptors -----------------------------
(***************************************************************************)
(* Instances of Descriptors: a directory of one entry of each type.        *)
(***************************************************************************)
EXTENDS Descriptors, TLC

ADirectory == [i \in 0 .. 2 |-> <<"dir", "rtc", "file">>[i + 1]]

Symmetry == Permutations(Pids) \cup Permutations(Terms)
=============================================================================
