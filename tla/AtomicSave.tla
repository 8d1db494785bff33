------------------------------- MODULE AtomicSave -------------------------------
(***************************************************************************)
(* What Stack.write, StackSettings.write and stacks.create promise of one  *)
(* compose project: a save either replaces the file it is for, and docker  *)
(* compose then accepts the project, or it leaves the project exactly as   *)
(* it was; and whoever asked is told which.  Nothing in between is seen.   *)
(***************************************************************************)
EXTENDS Naturals

CONSTANTS
  Savers,     \* who saves: browser tabs and CLI processes
  Projects,   \* the states a project can be in: [compose |-> ..., env |-> ...]
  Works       \* those that docker compose config accepts

VARIABLES
  project,    \* the project's files
  told,       \* per saver: what it was told of its last save
  hand,       \* how often the files were changed by hand, from a shell
  disturbed   \* two saves have met, one was edited into, or cut off: nothing is promised

vars == <<project, told, hand, disturbed>>

Outcomes == {"none", "saved", "rejected"}

Init ==
  /\ project \in Projects
  /\ told = [s \in Savers |-> "none"]
  /\ hand = 0 /\ disturbed = FALSE

Ask(s) == told' = [told EXCEPT ![s] = "none"] /\ UNCHANGED <<project, hand>>

Save(s) ==
  /\ \E file \in {"compose", "env"} :
       \A other \in {"compose", "env"} \ {file} : project'[other] = project[other]
  /\ project' \in Works
  /\ told' = [told EXCEPT ![s] = "saved"]
  /\ UNCHANGED hand

Reject(s) == told' = [told EXCEPT ![s] = "rejected"] /\ UNCHANGED <<project, hand>>

EditByHand == project' \in Projects /\ hand' = hand + 1 /\ UNCHANGED told

Next ==
  \/ UNCHANGED disturbed /\ (EditByHand \/ \E s \in Savers : Ask(s) \/ Save(s) \/ Reject(s))
  \/ disturbed'

Spec == Init /\ [][Next]_vars
=============================================================================
