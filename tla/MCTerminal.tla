------------------------------- MODULE MCTerminal -------------------------------
(* Terminal under TLC: the values of its constants are in the configurations. *)
EXTENDS Terminal
=============================================================================
