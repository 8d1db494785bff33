--------------------------------- MODULE MCDisk ---------------------------------
(***************************************************************************)
(* What is on the disk: the checkout of a store and its updates, the two   *)
(* files of a project and their saves, the stores and the compose          *)
(* directory.  The parts share no state here; a behaviour is one of one    *)
(* part.                                                                   *)
(***************************************************************************)
EXTENDS MCStoreUpdate, MCStackFiles, MCInstalls

VARIABLE part
Parts == {"store", "stack", "installs"}
vars == <<part, StoreVars, StackVars, InstallsVars>>

\* The parts that do not run stay in one initial state.
Init ==
  /\ part \in Parts
  /\ part # "store" => changes = [v \in 1..MaxVersions |-> Files]
  /\ part # "stack" => dir = "nobody"
  /\ StoreInit /\ StackInit /\ InstallsInit

StoreTurn    == part = "store" /\ StoreNext /\ UNCHANGED <<StackVars, InstallsVars>>
StackTurn    == part = "stack" /\ StackNext /\ UNCHANGED <<StoreVars, InstallsVars>>
InstallsTurn == part = "installs" /\ InstallsNext /\ UNCHANGED <<StoreVars, StackVars>>

Next == UNCHANGED part /\ (StoreTurn \/ StackTurn \/ InstallsTurn)

Spec == Init /\ [][Next]_vars

\* The type invariants of the parts.
TypeOK == part \in Parts /\ StoreTypeOK /\ StackTypeOK /\ InstallsTypeOK

Symmetry == StoreSymmetry \union StackSymmetry
=============================================================================
