---------------------------- MODULE MCSecretServer -----------------------------
(* SecretServer on small instances.                                           *)
EXTENDS SecretServer, TLC

ClientOrIdSymmetry == Permutations(Clients) \cup Permutations(DataIds)
=============================================================================
