-------------------------- MODULE MCProviderHealth --------------------------
(* Small instances of ProviderHealth for TLC. *)
EXTENDS ProviderHealth, TLC

ProviderSymmetry == Permutations(Providers)
=============================================================================
