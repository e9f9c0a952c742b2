-------------------------------- MODULE MCVault --------------------------------
(* Instances of VaultStore for TLC. *)
EXTENDS VaultStore, TLC

Interchange == Permutations(Token) \cup Permutations(Caller)
=============================================================================
