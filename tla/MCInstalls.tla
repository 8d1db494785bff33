------------------------------- MODULE MCInstalls -------------------------------
(* Two stores that each have an app of the same name, as two shops may. *)
EXTENDS Installs, TLC

CONSTANTS s1, s2, n1, theirs, ours

MCStoreOf == (theirs :> s1) @@ (ours :> s2)
MCNameOf == [a \in Apps |-> n1]
=============================================================================
