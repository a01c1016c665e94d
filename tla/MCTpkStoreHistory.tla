-------------------------- MODULE MCTpkStoreHistory --------------------------
(***************************************************************************)
(* The instances of MCTpkStore with history variables and the mapping.     *)
(***************************************************************************)
EXTENDS MCTpkStore, TpkStoreRefines
=============================================================================
