--------------------------- MODULE EnglishAuction ---------------------------
(* What the auction core promises: open ascending auctions paid from purses.  *)
(* There is no bid history, no limit and no mutex here; how bids come about   *)
(* is left open.  AuctionManager implements this specification.               *)
EXTENDS Integers, Sequences

CONSTANTS
    MaxBidders,   \* bound on the bidders
    MaxLots,      \* bound on the lots
    MaxPurse,     \* bound on what a purse may hold
    Prices        \* the opening prices of lots

VARIABLES
    purses,    \* what each bidder can spend
    lots       \* each lot's status, price and leader

lotVars == <<purses, lots>>

Nobody == 0

Init == purses = <<>> /\ lots = <<>>

Register ==
    /\ Len(purses) < MaxBidders
    /\ \E p \in 0..MaxPurse : purses' = Append(purses, p)
    /\ UNCHANGED lots

\* Money enters and leaves a purse freely, leading bids or not.
Transfer(b) ==
    /\ \E p \in 0..MaxPurse : purses' = [purses EXCEPT ![b] = p]
    /\ UNCHANGED lots

Offer ==
    /\ Len(lots) < MaxLots
    /\ \E p \in Prices :
         /\ p > 0
         /\ lots' = Append(lots, [status |-> "Draft", price |-> p,
                                  leader |-> Nobody])
    /\ UNCHANGED purses

Open(l) ==
    /\ lots[l].status = "Draft"
    /\ lots' = [lots EXCEPT ![l].status = "Active"]
    /\ UNCHANGED purses

\* The price of an open lot only rises, to what the new leader can pay.
Raise(l, b) ==
    /\ lots[l].status = "Active"
    /\ \E p \in lots[l].price + 1 .. purses[b] :
         lots' = [lots EXCEPT ![l].price = p, ![l].leader = b]
    /\ UNCHANGED purses

\* The lot goes to its leader, who pays its price once.
Hammer(l) ==
    /\ lots[l].status = "Active"
    /\ lots[l].leader # Nobody
    /\ lots[l].price <= purses[lots[l].leader]
    /\ purses' = [purses EXCEPT ![lots[l].leader] = @ - lots[l].price]
    /\ lots' = [lots EXCEPT ![l].status = "Sold"]

Withdraw(l) ==
    /\ lots[l].status = "Active"
    /\ lots[l].leader = Nobody
    /\ lots' = [lots EXCEPT ![l].status = "ClosedNoBids"]
    /\ UNCHANGED purses

Next ==
    \/ Register
    \/ Offer
    \/ \E b \in DOMAIN purses : Transfer(b)
    \/ \E l \in DOMAIN lots :
         \/ Open(l) \/ Hammer(l) \/ Withdraw(l)
         \/ \E b \in DOMAIN purses : Raise(l, b)

Spec == Init /\ [][Next]_lotVars

=============================================================================
