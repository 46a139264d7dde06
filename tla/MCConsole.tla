-------------------------------- MODULE MCConsole --------------------------------
(* The points of putc at which the keyboard interrupt leaves the lines in order. *)
EXTENDS Console

SafeEcho == {"idle", "cursor", "show"} \cup Updating
=============================================================================
