--------------------------- MODULE MCLibraryServer ----------------------------
(* LibraryServer on small instances.                                          *)
EXTENDS LibraryServer, TLC

\* As in main(), a shelf of more than one genre.
Shelf == <<[author |-> 1, genre |-> "novel"], [author |-> 1, genre |-> "novel"],
           [author |-> 1, genre |-> "scifi"]>>

ClientSymmetry == Permutations(Clients)
=============================================================================
