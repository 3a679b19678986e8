------------------------- MODULE MCEcommerceService --------------------------
(* The service on small instances.  There is no entry with id 3.              *)
EXTENDS EcommerceService

SomeLists == {<<>>, <<1>>, <<1, 1>>, <<2, 3>>}
OneLink == {<<1>>}
ClientSymmetry == Permutations(Clients)
=============================================================================
