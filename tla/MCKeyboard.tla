------------------------------- MODULE MCKeyboard -------------------------------
(* Keyboard on two terminals: everything is typed on the first, less on the other. *)
EXTENDS Keyboard

MCMaxKeys == [t \in Terms |-> IF t = 0 THEN 4 ELSE 0]
=============================================================================
