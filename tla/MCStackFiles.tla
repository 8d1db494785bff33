------------------------------ MODULE MCStackFiles ------------------------------
(***************************************************************************)
(* An app whose compose file comes in two versions: plain needs nothing,   *)
(* needy has a ${PORT:?} that the .env must set.  The user keeps a TOKEN   *)
(* of their own in the .env, which the form does not declare.              *)
(***************************************************************************)
EXTENDS StackFiles, TLC

CONSTANTS blank, plain, needy, port, token, unset, v1

HasPort(env) == env # Missing /\ env[port] # unset

MCWorks == {p \in [compose : ComposeTexts, env : EnvTexts \union {Missing}] :
              p.compose = plain \/ (p.compose = needy /\ HasPort(p.env))}

StackSymmetry == Permutations(Savers)
=============================================================================
