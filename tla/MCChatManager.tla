---------------------------- MODULE MCChatManager ----------------------------
(* ChatManager on small instances.                                            *)
EXTENDS ChatManager, TLC

ClientSymmetry == Permutations(Clients)
=============================================================================
