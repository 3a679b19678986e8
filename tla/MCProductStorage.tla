-------------------------- MODULE MCProductStorage ---------------------------
(* The storage on small instances: clients that never send a list.            *)
EXTENDS ProductStorage

NoList == {<<>>}
=============================================================================
