--------------------------- MODULE AuctionManager ---------------------------
(* The auction core of the WebSocket server, class Auction::AuctionManager.   *)
(*                                                                            *)
(* Every public method takes mutex_ for its whole body, so a call is one step *)
(* here, with one exception: PlaceBid and SetAutoBid end in ApplyAutoBids,    *)
(* whose loop is stepped through one iteration at a time while the mutex      *)
(* stays held (`pass` is not Idle).  That makes the loop's invariants         *)
(* ordinary state predicates and its termination a liveness property.         *)
(*                                                                            *)
(* A call that returns an error changes nothing: it is a stuttering step.     *)
(* Money is counted in units of a fixed grid, MinBidStep units to the 1.0 of  *)
(* min_bid_step_, so half steps are expressible; doubles are exact on it.     *)
EXTENDS Integers, Sequences

CONSTANTS
    MaxUsers,     \* bound on CreateUser calls
    MaxItems,     \* bound on AddItem calls
    MaxBalance,   \* bound on what a balance may grow to
    Balances,     \* the initial balances clients send to CreateUser
    Prices,       \* the starting bids clients send to AddItem
    Amounts,      \* the bids and limits clients send
    Deltas,       \* the deltas clients send to UpdateBalance
    MinBidStep    \* min_bid_step_ in grid units

ASSUME AuctionAssumption ==
    /\ MaxUsers \in Nat
    /\ MaxItems \in Nat
    /\ MaxBalance \in Nat
    /\ Balances \subseteq Int
    /\ Prices \subseteq Int
    /\ Amounts \subseteq Int
    /\ Deltas \subseteq Int
    /\ MinBidStep \in Nat \ {0}

VARIABLES
    users,      \* users_: the balance of user id u is users[u]; ids count from 1
    items,      \* items_: item id i is items[i]; ids count from 1
    pass,       \* the ApplyAutoBids loop in progress under mutex_, or Idle
    credited    \* history variable: all money user u ever brought in

vars == <<users, items, pass, credited>>

NoUser == 0     \* highest_bidder_id == nullopt
NoItem == 0     \* no ApplyAutoBids call in progress
NoLimit == 0    \* no entry in auto_bid_limits; a stored limit is above a price

UserIds == 1..MaxUsers
ItemIds == 1..MaxItems
ItemStatus == {"Draft", "Active", "Sold", "ClosedNoBids"}

\* `auto` is not stored by the program: it tells ApplyAutoBids' bids from the
\* ones clients placed, for the properties.
Positive == Nat \ {0}

Bid == [user_id : UserIds, amount : Positive, auto : BOOLEAN]

Item == [status : ItemStatus,
         starting_bid : Positive,
         current_bid : Positive,
         highest_bidder_id : UserIds \cup {NoUser},
         bid_history : Seq(Bid),
         auto_bid_limits : [UserIds -> Nat]]

\* `user` is the next id the for loop looks at, `progressed` its local flag.
Pass == [item : ItemIds \cup {NoItem}, user : Nat, progressed : BOOLEAN]

Idle == [item |-> NoItem, user |-> 0, progressed |-> FALSE]
MutexFree == pass.item = NoItem

Init ==
    /\ users = <<>>
    /\ items = <<>>
    /\ pass = Idle
    /\ credited = <<>>

-----------------------------------------------------------------------------
(* Accounts *)

CreateUser(initial) ==
    /\ MutexFree
    /\ Len(users) < MaxUsers
    /\ initial \in 0..MaxBalance
    /\ users' = Append(users, initial)
    /\ credited' = Append(credited, initial)
    /\ UNCHANGED <<items, pass>>

UpdateBalance(u, delta) ==
    /\ MutexFree
    /\ u \in DOMAIN users
    /\ users[u] + delta \in 0..MaxBalance
    /\ users' = [users EXCEPT ![u] = @ + delta]
    /\ credited' = [credited EXCEPT ![u] = @ + delta]
    /\ UNCHANGED <<items, pass>>

-----------------------------------------------------------------------------
(* Items and their life cycle *)

NewItem(starting) ==
    [status |-> "Draft", starting_bid |-> starting, current_bid |-> starting,
     highest_bidder_id |-> NoUser, bid_history |-> <<>>,
     auto_bid_limits |-> [u \in UserIds |-> NoLimit]]

\* Slip: the check rejects negative prices only.
NonNegativeStart(starting) == starting >= 0

ValidStart(starting) == starting > 0

AddItem(starting) ==
    /\ MutexFree
    /\ Len(items) < MaxItems
    /\ ValidStart(starting)
    /\ items' = Append(items, NewItem(starting))
    /\ UNCHANGED <<users, pass, credited>>

StartAuction(i) ==
    /\ MutexFree
    /\ i \in DOMAIN items
    /\ items[i].status = "Draft"
    /\ items' = [items EXCEPT ![i].status = "Active"]
    /\ UNCHANGED <<users, pass, credited>>

\* Slip: the second check of the winner's money left out.
EndChecksStatusOnly(i) == items[i].status = "Active"

\* Slip: an item that was sold can be ended again.
EndChecksAnyStatus(i) ==
    items[i].highest_bidder_id # NoUser =>
      users[items[i].highest_bidder_id] >= items[i].current_bid

\* EndAuction re-checks the winner's money: a leader may have spent it on
\* another item, or withdrawn it, since bidding.
EndChecks(i) ==
    /\ items[i].status = "Active"
    /\ items[i].highest_bidder_id # NoUser =>
         users[items[i].highest_bidder_id] >= items[i].current_bid

EndAuction(i) ==
    /\ MutexFree
    /\ i \in DOMAIN items
    /\ EndChecks(i)
    /\ \/ /\ items[i].highest_bidder_id = NoUser
          /\ items' = [items EXCEPT ![i].status = "ClosedNoBids"]
          /\ UNCHANGED users
       \/ /\ items[i].highest_bidder_id # NoUser
          /\ users' = [users EXCEPT ![items[i].highest_bidder_id]
                                       = @ - items[i].current_bid]
          /\ items' = [items EXCEPT ![i].status = "Sold"]
    /\ UNCHANGED <<pass, credited>>

-----------------------------------------------------------------------------
(* Bidding *)

\* Slip: an equal bid counts as better.
IsAsGoodABid(amount, current_bid) == amount >= current_bid

IsBetterBid(amount, current_bid) == amount > current_bid

WithBid(item, u, amount, auto) ==
    [item EXCEPT !.current_bid = amount,
                 !.highest_bidder_id = u,
                 !.bid_history = Append(@, [user_id |-> u, amount |-> amount,
                                            auto |-> auto])]

\* Slip: progressed is not reset before a pass.
EnterWithoutReset(i) == pass' = [item |-> i, user |-> 1, progressed |-> TRUE]

EnterApplyAutoBids(i) == pass' = [item |-> i, user |-> 1, progressed |-> FALSE]

PlaceBid(i, u, amount) ==
    /\ MutexFree
    /\ i \in DOMAIN items
    /\ u \in DOMAIN users
    /\ items[i].status = "Active"
    /\ IsBetterBid(amount, items[i].current_bid)
    /\ users[u] >= amount
    /\ items' = [items EXCEPT ![i] = WithBid(@, u, amount, FALSE)]
    /\ EnterApplyAutoBids(i)
    /\ UNCHANGED <<users, credited>>

SetAutoBid(i, u, max_amount) ==
    /\ MutexFree
    /\ i \in DOMAIN items
    /\ u \in DOMAIN users
    /\ items[i].status = "Active"
    /\ max_amount > items[i].current_bid
    /\ users[u] >= max_amount
    /\ items' = [items EXCEPT ![i].auto_bid_limits[u] = max_amount]
    /\ EnterApplyAutoBids(i)
    /\ UNCHANGED <<users, credited>>

-----------------------------------------------------------------------------
(* ApplyAutoBids: passes over the auto-bidders in id order until a whole pass *)
(* has placed no bid.                                                         *)

\* Slip: max for min.
LooseLimit(limit, balance) == IF limit < balance THEN balance ELSE limit

EffectiveLimit(limit, balance) == IF limit < balance THEN limit ELSE balance

\* Slip: the leader is not passed over, and bids against himself.
NobodyLeads(i, u) == FALSE

Leads(i, u) == items[i].highest_bidder_id = u

CanOutbid(i, u) ==
    /\ ~Leads(i, u)
    /\ items[i].auto_bid_limits[u] # NoLimit
    /\ EffectiveLimit(items[i].auto_bid_limits[u], users[u])
         >= items[i].current_bid + MinBidStep

\* The two outcomes of an iteration of the inner for loop.
OutbidFor(i, u) ==
    /\ CanOutbid(i, u)
    /\ items' = [items EXCEPT ![i] =
                   WithBid(@, u, @.current_bid + MinBidStep, TRUE)]
    /\ pass' = [pass EXCEPT !.user = u + 1, !.progressed = TRUE]

SkipOver(i, u) ==
    /\ ~CanOutbid(i, u)
    /\ pass' = [pass EXCEPT !.user = u + 1]
    /\ UNCHANGED items

ConsiderUser ==
    /\ ~MutexFree
    /\ pass.user \in DOMAIN users
    /\ OutbidFor(pass.item, pass.user) \/ SkipOver(pass.item, pass.user)
    /\ UNCHANGED <<users, credited>>

\* Slip: one pass only, whatever it did.
SinglePass ==
    /\ ~MutexFree
    /\ pass.user \notin DOMAIN users
    /\ pass' = Idle
    /\ UNCHANGED <<users, items, credited>>

\* while (progressed): run another pass, or return and release mutex_.
EndOfPass ==
    /\ ~MutexFree
    /\ pass.user \notin DOMAIN users
    /\ IF pass.progressed
       THEN EnterApplyAutoBids(pass.item)
       ELSE pass' = Idle
    /\ UNCHANGED <<users, items, credited>>

ApplyAutoBids == ConsiderUser \/ EndOfPass

\* GetUsers and GetItems copy the tables out under the mutex.
GetUsers == MutexFree /\ UNCHANGED vars
GetItems == MutexFree /\ UNCHANGED vars

-----------------------------------------------------------------------------

Next ==
    \/ \E b \in Balances : CreateUser(b)
    \/ \E p \in Prices : AddItem(p)
    \/ \E u \in UserIds, d \in Deltas : UpdateBalance(u, d)
    \/ \E i \in ItemIds : StartAuction(i) \/ EndAuction(i)
    \/ \E i \in ItemIds, u \in UserIds, a \in Amounts :
         PlaceBid(i, u, a) \/ SetAutoBid(i, u, a)
    \/ ApplyAutoBids
    \/ GetUsers
    \/ GetItems

Spec == Init /\ [][Next]_vars

\* A call that holds the mutex is not suspended for ever: its thread runs on.
FairSpec == Spec /\ WF_vars(ApplyAutoBids)

-----------------------------------------------------------------------------
(* Properties *)

\* The leader and the auto-bidders of an item are registered users.
KnownBidders(item) ==
    /\ item.highest_bidder_id \in DOMAIN users \cup {NoUser}
    /\ \A u \in UserIds : item.auto_bid_limits[u] # NoLimit => u \in DOMAIN users

TypeOK ==
    /\ users \in Seq(Int)
    /\ Len(users) <= MaxUsers
    /\ items \in Seq(Item)
    /\ Len(items) <= MaxItems
    /\ pass \in Pass
    /\ pass.item \in DOMAIN items \cup {NoItem}
    /\ credited \in Seq(Int)
    /\ Len(credited) = Len(users)
    /\ \A i \in DOMAIN items : KnownBidders(items[i])

\* No balance goes below zero, although a user may lead several auctions whose
\* prices together exceed the balance, and may withdraw money while leading:
\* EndAuction re-checks the balance (lines 158-164).
Solvent == \A u \in DOMAIN users : users[u] >= 0

\* What user u has paid: the final prices, one by one, of the items he won.
Charge(item, u) ==
    IF item.status = "Sold" /\ item.highest_bidder_id = u THEN item.current_bid ELSE 0

Paid(list, u) ==
    LET upTo[n \in 0..Len(list)] ==
          IF n = 0 THEN 0 ELSE upTo[n - 1] + Charge(list[n], u)
    IN  upTo[Len(list)]

\* A balance is what came in minus the final prices of the items won: nobody is
\* charged twice, or for an item someone else won, and a sold item's price does
\* not move after it was paid (EndAuction, lines 150-170).
MoneyConserved == \A u \in DOMAIN users : users[u] = credited[u] - Paid(items, u)

\* The bid history and the cached price and leader tell the same story: amounts
\* strictly increase from above the starting price, and the last entry is the
\* current bid and bidder.  Two code paths append to the history (lines 212-219
\* and 351-358), each updating the three fields by hand.
HistoryAgreesOn(item) ==
    LET h == item.bid_history IN
    /\ \A j, k \in DOMAIN h : j < k => h[j].amount < h[k].amount
    /\ \A k \in DOMAIN h : item.starting_bid < h[k].amount
    /\ h = <<>> => /\ item.highest_bidder_id = NoUser
                  /\ item.current_bid = item.starting_bid
    /\ h # <<>> => /\ item.highest_bidder_id = h[Len(h)].user_id
                  /\ item.current_bid = h[Len(h)].amount

HistoryAgrees == \A i \in DOMAIN items : HistoryAgreesOn(items[i])

\* ApplyAutoBids never bids more for a user than the limit that user has set,
\* not even a limit set after the bid: SetAutoBid refuses one at or below the
\* current price (line 255), so lowering it cannot undercut a bid already made.
AutoBidsWithinLimitOn(item) ==
    \A k \in DOMAIN item.bid_history :
      item.bid_history[k].auto =>
        item.bid_history[k].amount
          <= item.auto_bid_limits[item.bid_history[k].user_id]

AutoBidsWithinLimit == \A i \in DOMAIN items : AutoBidsWithinLimitOn(items[i])

\* An automatic bid is exactly one step above the bid it beats, which is another
\* user's: nobody is driven up against himself, whatever the order in which
\* limits were set and passes ran.
AutoBidsMinimalOn(item) ==
    \A k \in DOMAIN item.bid_history :
      LET h == item.bid_history IN
      h[k].auto =>
        IF k = 1
        THEN h[k].amount = item.starting_bid + MinBidStep
        ELSE /\ h[k].amount = h[k - 1].amount + MinBidStep
             /\ h[k].user_id # h[k - 1].user_id

AutoBidsMinimal == \A i \in DOMAIN items : AutoBidsMinimalOn(items[i])

\* PlaceBid and SetAutoBid return only when no auto-bidder could still outbid
\* the leader: the last pass changed nothing, so every user it looked at early
\* is still unable to bid when it ends (while loop, lines 326-363).
QuiescentOnRelease ==
    [][\A i \in ItemIds : (pass.item = i /\ MutexFree') =>
         \A u \in DOMAIN users : ~CanOutbid(i, u)']_vars

Lot(item) == [status |-> item.status, price |-> item.current_bid,
              leader |-> item.highest_bidder_id]

Lots == [i \in DOMAIN items |-> Lot(items[i])]

Auction == INSTANCE EnglishAuction WITH
    MaxBidders <- MaxUsers, MaxLots <- MaxItems, MaxPurse <- MaxBalance,
    purses <- users, lots <- Lots

\* Without its history, limits and loop, the manager is an English auction: an
\* open item's price only rises, to what the new leader can pay at that moment,
\* the winner pays exactly that price, once, and a closed item never changes.
ImplementsEnglishAuction == Auction!Spec

\* The bidding war of ApplyAutoBids comes to an end and the mutex is released.
AutoBidsTerminate == ~MutexFree ~> MutexFree

=============================================================================
