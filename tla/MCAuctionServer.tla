--------------------------- MODULE MCAuctionServer ---------------------------
(* AuctionServer on small instances.                                          *)
EXTENDS AuctionServer, TLC

SessionSymmetry == Permutations(Sessions)
=============================================================================
