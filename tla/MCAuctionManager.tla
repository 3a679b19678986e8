-------------------------- MODULE MCAuctionManager --------------------------
(* AuctionManager on small instances.                                         *)
EXTENDS AuctionManager

\* The deltas of the run, which a .cfg cannot write.
GainOrLoseTwo == {-2, 2}
=============================================================================
