---------------------------- MODULE MCMultitasking ----------------------------
(***************************************************************************)
(* Instances of Multitasking: other points where interrupts may land.      *)
(***************************************************************************)
EXTENDS ProcessStacks

\* One of the points left out.
ClaimTick == SafeTick \cup {<<"user", "ex_claim">>}
LoadTick  == SafeTick \cup {<<"user", "ex_load">>}

\* A few of the points left out, enough to reach every branch of the handlers.
SomeTick == {<<"halt", "ex_scan">>}
SomeKey  == {<<"user", "ex_enter">>, <<"boot", "ex_scan">>}

=============================================================================
