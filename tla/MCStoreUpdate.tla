----------------------------- MODULE MCStoreUpdate -----------------------------
(* Symmetry for checking StoreUpdate with TLC. *)
EXTENDS StoreUpdate, TLC

StoreSymmetry == Permutations(Files) \union Permutations(Sessions)
=============================================================================
