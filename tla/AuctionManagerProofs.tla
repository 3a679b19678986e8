------------------------ MODULE AuctionManagerProofs ------------------------
(* Theorems about AuctionManager, for every value of its constants.           *)
EXTENDS AuctionManager, DataLemmas

\* An item with one more bid is still an item.
LEMMA WithBidType ==
    ASSUME NEW it \in Item, NEW u \in UserIds, NEW a \in Positive,
           NEW auto \in BOOLEAN
    PROVE  WithBid(it, u, a, auto) \in Item
<1>1. [user_id |-> u, amount |-> a, auto |-> auto] \in Bid
  BY DEF Bid
<1>2. Append(it.bid_history, [user_id |-> u, amount |-> a, auto |-> auto])
        \in Seq(Bid)
  BY <1>1, SeqAppend DEF Item
<1> QED
  BY <1>2 DEF WithBid, Item

\* An item's fields.
LEMMA ItemFields ==
    ASSUME NEW it \in Item
    PROVE  /\ it.starting_bid \in Nat \ {0}
           /\ it.current_bid \in Nat \ {0}
           /\ it.highest_bidder_id \in UserIds \cup {NoUser}
           /\ it.bid_history \in Seq(Bid)
           /\ it.auto_bid_limits \in [UserIds -> Nat]
  BY DEF Item, Positive

\* Starting or ending an auction changes the status of an item only.
LEMMA WithStatus ==
    ASSUME NEW it \in Item, NEW s \in ItemStatus, NEW jt,
           jt = [it EXCEPT !.status = s]
    PROVE  /\ jt \in Item
           /\ jt.status = s
           /\ jt.starting_bid = it.starting_bid
           /\ jt.current_bid = it.current_bid
           /\ jt.highest_bidder_id = it.highest_bidder_id
           /\ jt.bid_history = it.bid_history
           /\ jt.auto_bid_limits = it.auto_bid_limits
           /\ KnownBidders(it) => KnownBidders(jt)
<1>1. /\ jt \in Item
      /\ jt.status = s
      /\ jt.starting_bid = it.starting_bid
      /\ jt.current_bid = it.current_bid
      /\ jt.highest_bidder_id = it.highest_bidder_id
      /\ jt.bid_history = it.bid_history
      /\ jt.auto_bid_limits = it.auto_bid_limits
  BY DEF Item
<1> QED
  BY <1>1 DEF KnownBidders

LEMMA NewItemType == ASSUME NEW p \in Positive PROVE NewItem(p) \in Item
  BY EmptySeq DEF NewItem, Item, ItemStatus, NoUser, NoLimit

\* What TypeOK says of items, the part of it that each call can disturb.
ItemsOK ==
    /\ items \in Seq(Item)
    /\ Len(items) <= MaxItems
    /\ \A i \in DOMAIN items : KnownBidders(items[i])

\* Replacing item i by a well-formed item keeps ItemsOK.
LEMMA ItemsOKExcept ==
    ASSUME ItemsOK, NEW i \in DOMAIN items, NEW it \in Item,
           KnownBidders(it),
           items' = [items EXCEPT ![i] = it],
           DOMAIN users' = DOMAIN users
    PROVE  ItemsOK' /\ DOMAIN items' = DOMAIN items
<1>1. /\ items' \in Seq(Item)
      /\ Len(items') = Len(items)
      /\ DOMAIN items' = DOMAIN items
      /\ items'[i] = it
      /\ \A j \in DOMAIN items : j # i => items'[j] = items[j]
  BY SeqExcept DEF ItemsOK
<1>2. ASSUME NEW j \in DOMAIN items'
      PROVE  KnownBidders(items[j])'
  <2>1. KnownBidders(items'[j])
    BY <1>1, <1>2 DEF ItemsOK
  <2> QED
    BY <2>1 DEF KnownBidders
<1> QED
  BY <1>1, <1>2 DEF ItemsOK

\* Every reachable state of the manager is well formed: users, items and the
\* pass in progress have their types, and items name registered users only.
THEOREM TypeCorrect == Spec => []TypeOK
<1> USE AuctionAssumption DEF AuctionAssumption
<1>1. Init => TypeOK
  <2> SUFFICES ASSUME Init PROVE TypeOK
    OBVIOUS
  <2>1. users \in Seq(Int) /\ credited \in Seq(Int) /\ items \in Seq(Item)
    BY EmptySeq DEF Init
  <2>2. Len(users) = 0 /\ Len(items) = 0 /\ Len(credited) = 0 /\ DOMAIN items = {}
    BY EmptySeq DEF Init
  <2> QED
    BY <2>1, <2>2 DEF Init, TypeOK, Pass, Idle, NoItem
<1>2. TypeOK /\ [Next]_vars => TypeOK'
  <2> SUFFICES ASSUME TypeOK, [Next]_vars PROVE TypeOK'
    OBVIOUS
  <2>0. /\ users \in Seq(Int) /\ credited \in Seq(Int) /\ Len(credited) = Len(users)
        /\ Len(users) <= MaxUsers /\ Len(users) \in Nat
        /\ DOMAIN users = 1..Len(users) /\ DOMAIN users \subseteq UserIds
        /\ DOMAIN credited = 1..Len(users)
        /\ DOMAIN items = 1..Len(items) /\ Len(items) \in Nat /\ DOMAIN items \subseteq ItemIds
        /\ \A u \in DOMAIN users : users[u] \in Int /\ credited[u] \in Int
        /\ \A i \in DOMAIN items : items[i] \in Item
        /\ ItemsOK /\ pass \in Pass /\ pass.item \in DOMAIN items \cup {NoItem}
    BY LenProperties, ElementOfSeq DEF TypeOK, ItemsOK, UserIds, ItemIds
  <2>1. ASSUME NEW b \in Balances, CreateUser(b) PROVE TypeOK'
    <3>1. /\ users' \in Seq(Int) /\ credited' \in Seq(Int)
          /\ Len(users') = Len(users) + 1 /\ Len(credited') = Len(users) + 1
          /\ DOMAIN users \subseteq DOMAIN users'
      BY <2>0, <2>1, SeqAppend DEF CreateUser
    <3>2. Len(users') <= MaxUsers
      BY <2>0, <2>1, <3>1 DEF CreateUser
    <3>3. \A i \in DOMAIN items' : KnownBidders(items[i])'
      BY <2>0, <2>1, <3>1 DEF CreateUser, ItemsOK, KnownBidders
    <3> QED
      BY <2>0, <2>1, <3>1, <3>2, <3>3 DEF CreateUser, TypeOK, ItemsOK
  <2>2. ASSUME NEW p \in Prices, AddItem(p) PROVE TypeOK'
    <3>1. NewItem(p) \in Item
      BY <2>2, NewItemType DEF AddItem, ValidStart, Positive
    <3>2. /\ items' \in Seq(Item) /\ Len(items') = Len(items) + 1
          /\ DOMAIN items' = 1..(Len(items) + 1)
          /\ items'[Len(items) + 1] = NewItem(p)
          /\ \A i \in DOMAIN items : items'[i] = items[i]
      BY <2>0, <2>2, <3>1, SeqAppend DEF AddItem, ItemsOK
    <3>3. KnownBidders(NewItem(p))
      BY DEF KnownBidders, NewItem
    <3>4. \A i \in DOMAIN items' : KnownBidders(items'[i])
      BY SMTT(60), <2>0, <3>2, <3>3 DEF ItemsOK
    <3>5. \A i \in DOMAIN items' : KnownBidders(items[i])'
      BY <2>2, <3>4 DEF AddItem, KnownBidders
    <3>6. Len(items') <= MaxItems
      BY <2>0, <2>2, <3>2 DEF AddItem
    <3> QED
      BY <2>0, <2>2, <3>2, <3>5, <3>6 DEF AddItem, TypeOK
  <2>3. ASSUME NEW u \in UserIds, NEW d \in Deltas, UpdateBalance(u, d) PROVE TypeOK'
    <3>1. /\ users' \in Seq(Int) /\ credited' \in Seq(Int)
          /\ Len(users') = Len(users) /\ Len(credited') = Len(users)
          /\ DOMAIN users' = DOMAIN users
      BY <2>0, <2>3, SeqExcept DEF UpdateBalance
    <3> QED
      BY <2>0, <2>3, <3>1 DEF UpdateBalance, TypeOK, ItemsOK, KnownBidders
  <2>4. ASSUME NEW i \in ItemIds, StartAuction(i) PROVE TypeOK'
    <3> DEFINE it == [items[i] EXCEPT !.status = "Active"]
    <3>1. it \in Item /\ KnownBidders(it)
      BY <2>0, <2>4, WithStatus DEF StartAuction, ItemStatus, ItemsOK
    <3>2. items' = [items EXCEPT ![i] = it]
      BY <2>4 DEF StartAuction
    <3>3. ItemsOK' /\ DOMAIN items' = DOMAIN items
      BY <2>0, <2>4, <3>1, <3>2, ItemsOKExcept DEF StartAuction
    <3> QED
      BY <2>0, <2>4, <3>3 DEF StartAuction, TypeOK, ItemsOK
  <2>5. ASSUME NEW i \in ItemIds, EndAuction(i) PROVE TypeOK'
    <3>1. CASE items' = [items EXCEPT ![i].status = "ClosedNoBids"] /\ UNCHANGED users
      <4> DEFINE it == [items[i] EXCEPT !.status = "ClosedNoBids"]
      <4>1. it \in Item /\ KnownBidders(it)
        BY <2>0, <2>5, WithStatus DEF EndAuction, ItemStatus, ItemsOK
      <4>3. ItemsOK' /\ DOMAIN items' = DOMAIN items
        BY <2>0, <2>5, <3>1, <4>1, ItemsOKExcept DEF EndAuction
      <4> QED
        BY <2>0, <2>5, <3>1, <4>3 DEF EndAuction, TypeOK, ItemsOK
    <3>2. CASE /\ items[i].highest_bidder_id # NoUser
               /\ users' = [users EXCEPT ![items[i].highest_bidder_id]
                                            = @ - items[i].current_bid]
               /\ items' = [items EXCEPT ![i].status = "Sold"]
      <4> DEFINE it == [items[i] EXCEPT !.status = "Sold"]
                 w == items[i].highest_bidder_id
      <4>1. it \in Item /\ KnownBidders(it)
        BY <2>0, <2>5, WithStatus DEF EndAuction, ItemStatus, ItemsOK
      <4>2. w \in DOMAIN users /\ items[i].current_bid \in Int
        BY <2>0, <2>5, <3>2 DEF EndAuction, ItemsOK, KnownBidders, Item, Positive
      <4>3. users' \in Seq(Int) /\ Len(users') = Len(users) /\ DOMAIN users' = DOMAIN users
        BY SMTT(60), <2>0, <3>2, <4>2, SeqExcept
      <4>4. ItemsOK' /\ DOMAIN items' = DOMAIN items
        BY <2>0, <2>5, <3>2, <4>1, <4>3, ItemsOKExcept DEF EndAuction
      <4> QED
        BY <2>0, <2>5, <3>2, <4>3, <4>4 DEF EndAuction, TypeOK, ItemsOK
    <3> QED
      BY <2>5, <3>1, <3>2 DEF EndAuction
  <2>6. ASSUME NEW i \in ItemIds, NEW u \in UserIds, NEW a \in Amounts,
               PlaceBid(i, u, a)
        PROVE  TypeOK'
    <3> DEFINE it == WithBid(items[i], u, a, FALSE)
    <3>1. a \in Positive
      <4>1. a \in Int /\ a > items[i].current_bid
        BY <2>6 DEF PlaceBid, IsBetterBid
      <4>2. items[i].current_bid \in Nat \ {0}
        BY <2>0, <2>6, ItemFields DEF PlaceBid
      <4> QED
        BY <4>1, <4>2 DEF Positive
    <3>2. it \in Item
      BY <2>0, <2>6, <3>1, WithBidType DEF PlaceBid
    <3>3. KnownBidders(it)
      BY <2>0, <2>6 DEF PlaceBid, KnownBidders, WithBid, ItemsOK, Item
    <3>4. items' = [items EXCEPT ![i] = it]
      BY <2>6 DEF PlaceBid
    <3>5. ItemsOK' /\ DOMAIN items' = DOMAIN items
      BY <2>0, <2>6, <3>2, <3>3, <3>4, ItemsOKExcept DEF PlaceBid
    <3>6. pass' \in Pass /\ pass'.item \in DOMAIN items
      BY <2>6 DEF PlaceBid, EnterApplyAutoBids, Pass
    <3> QED
      BY <2>0, <2>6, <3>5, <3>6 DEF PlaceBid, TypeOK, ItemsOK
  <2>7. ASSUME NEW i \in ItemIds, NEW u \in UserIds, NEW a \in Amounts,
               SetAutoBid(i, u, a)
        PROVE  TypeOK'
    <3> DEFINE it == [items[i] EXCEPT !.auto_bid_limits =
                        [items[i].auto_bid_limits EXCEPT ![u] = a]]
    <3>1. a \in Positive
      <4>1. a \in Int /\ a > items[i].current_bid
        BY <2>7 DEF SetAutoBid
      <4>2. items[i].current_bid \in Nat \ {0}
        BY <2>0, <2>7, ItemFields DEF SetAutoBid
      <4> QED
        BY <4>1, <4>2 DEF Positive
    <3>2. it \in Item
      BY <2>0, <2>7, <3>1 DEF SetAutoBid, Item, Positive
    <3>3. KnownBidders(it)
      BY <2>0, <2>7 DEF SetAutoBid, KnownBidders, ItemsOK, Item
    <3>4. items' = [items EXCEPT ![i] = it]
      BY <2>7 DEF SetAutoBid
    <3>5. ItemsOK' /\ DOMAIN items' = DOMAIN items
      BY <2>0, <2>7, <3>2, <3>3, <3>4, ItemsOKExcept DEF SetAutoBid
    <3>6. pass' \in Pass /\ pass'.item \in DOMAIN items
      BY <2>7 DEF SetAutoBid, EnterApplyAutoBids, Pass
    <3> QED
      BY <2>0, <2>7, <3>5, <3>6 DEF SetAutoBid, TypeOK, ItemsOK
  <2>8. ASSUME ConsiderUser PROVE TypeOK'
    <3> DEFINE i == pass.item
               u == pass.user
               n == items[i].current_bid + MinBidStep
               it == WithBid(items[i], u, n, TRUE)
    <3>1. i \in DOMAIN items /\ u \in UserIds /\ u \in DOMAIN users
      BY <2>0, <2>8 DEF ConsiderUser, MutexFree
    <3>2. pass' \in Pass /\ pass'.item = i
      <4>1. pass.user + 1 \in Nat /\ pass.progressed \in BOOLEAN
        BY <2>0, <3>1 DEF Pass
      <4>2. CASE pass' = [pass EXCEPT !.user = u + 1, !.progressed = TRUE]
        BY <2>0, <4>1, <4>2 DEF Pass
      <4>3. CASE pass' = [pass EXCEPT !.user = u + 1]
        BY <2>0, <4>1, <4>3 DEF Pass
      <4> QED
        BY <2>8, <4>2, <4>3 DEF ConsiderUser, OutbidFor, SkipOver
    <3>3. CASE OutbidFor(i, u)
      <4>1. n \in Positive
        BY SMTT(60), <2>0, <3>1 DEF Item, Positive
      <4>2. it \in Item
        BY <2>0, <3>1, <4>1, WithBidType
      <4>3. KnownBidders(it)
        BY <2>0, <3>1 DEF KnownBidders, WithBid, ItemsOK, Item
      <4>4. items' = [items EXCEPT ![i] = it]
        BY <3>3 DEF OutbidFor
      <4>5. ItemsOK' /\ DOMAIN items' = DOMAIN items
        BY <2>0, <2>8, <3>1, <4>2, <4>3, <4>4, ItemsOKExcept DEF ConsiderUser
      <4> QED
        BY <2>0, <2>8, <3>1, <3>2, <4>5 DEF ConsiderUser, TypeOK, ItemsOK
    <3>4. CASE SkipOver(i, u)
      BY <2>0, <2>8, <3>1, <3>2, <3>4
         DEF ConsiderUser, SkipOver, TypeOK, ItemsOK, KnownBidders
    <3> QED
      BY <2>8, <3>3, <3>4 DEF ConsiderUser
  <2>9. ASSUME EndOfPass PROVE TypeOK'
    <3>1. pass' \in Pass /\ pass'.item \in DOMAIN items \cup {NoItem}
      <4>1. CASE pass' = [item |-> pass.item, user |-> 1, progressed |-> FALSE]
        BY <2>0, <4>1 DEF Pass
      <4>2. CASE pass' = Idle
        BY <4>2 DEF Pass, Idle, NoItem
      <4> QED
        BY <2>9, <4>1, <4>2 DEF EndOfPass, EnterApplyAutoBids
    <3> QED
      BY <2>0, <2>9, <3>1 DEF EndOfPass, TypeOK, ItemsOK, KnownBidders
  <2>10. ASSUME UNCHANGED vars PROVE TypeOK'
    BY <2>0, <2>10 DEF vars, TypeOK, ItemsOK, KnownBidders
  <2> QED
    BY <2>1, <2>2, <2>3, <2>4, <2>5, <2>6, <2>7, <2>8, <2>9, <2>10
       DEF Next, ApplyAutoBids, GetUsers, GetItems
<1> QED
  BY <1>1, <1>2, PTL DEF Spec

-----------------------------------------------------------------------------
(* What a call may do to one item.  Every invariant of items follows from the *)
(* next definition and lemma, without looking at the calls again.             *)

\* A new status, a limit above the current bid, or a higher bid, which is a
\* minimal one within the limit of someone else than the leader if automatic.
StatusChanges(it, jt) == \E s \in ItemStatus : jt = [it EXCEPT !.status = s]

LimitSet(it, jt) ==
    \E u \in UserIds, a \in Positive :
      /\ a > it.current_bid
      /\ jt = [it EXCEPT !.auto_bid_limits = [it.auto_bid_limits EXCEPT ![u] = a]]

BidMade(it, jt) ==
    \E u \in UserIds, a \in Positive, auto \in BOOLEAN :
      /\ a > it.current_bid
      /\ auto => /\ a = it.current_bid + MinBidStep
                 /\ it.highest_bidder_id # u
                 /\ a <= it.auto_bid_limits[u]
      /\ jt = WithBid(it, u, a, auto)

ItemEvolves(it, jt) == StatusChanges(it, jt) \/ LimitSet(it, jt) \/ BidMade(it, jt)

ItemsEvolve ==
    \/ items' = items
    \/ \E p \in Positive : items' = Append(items, NewItem(p))
    \/ \E i \in DOMAIN items :
         \E jt \in Item : /\ items' = [items EXCEPT ![i] = jt]
                         /\ ItemEvolves(items[i], jt)

LEMMA StepsEvolveItems == TypeOK /\ [Next]_vars => ItemsEvolve
<1> USE AuctionAssumption DEF AuctionAssumption
<1> SUFFICES ASSUME TypeOK, [Next]_vars PROVE ItemsEvolve
  OBVIOUS
<1>0. /\ \A i \in DOMAIN items : items[i] \in Item
      /\ DOMAIN users = 1..Len(users) /\ DOMAIN users \subseteq UserIds
      /\ Len(users) \in Nat /\ Len(users) <= MaxUsers
      /\ \A u \in DOMAIN users : users[u] \in Int
      /\ pass \in Pass /\ pass.item \in DOMAIN items \cup {NoItem}
  BY LenProperties, ElementOfSeq DEF TypeOK, UserIds
<1>1. ASSUME NEW p \in Prices, AddItem(p) PROVE ItemsEvolve
  <2>1. p \in Positive
    BY <1>1 DEF AddItem, ValidStart, Positive
  <2> QED
    BY <1>1, <2>1 DEF AddItem, ItemsEvolve
<1>2. ASSUME NEW i \in ItemIds, StartAuction(i) PROVE ItemsEvolve
  <2> DEFINE jt == [items[i] EXCEPT !.status = "Active"]
  <2>1. items' = [items EXCEPT ![i] = jt] /\ i \in DOMAIN items
    BY <1>2 DEF StartAuction
  <2>2. "Active" \in ItemStatus
    BY DEF ItemStatus
  <2>3. jt \in Item /\ ItemEvolves(items[i], jt)
    BY <1>0, <2>1, <2>2, WithStatus DEF ItemEvolves, StatusChanges
  <2> QED
    BY <2>1, <2>3 DEF ItemsEvolve
<1>3. ASSUME NEW i \in ItemIds, EndAuction(i) PROVE ItemsEvolve
  <2>1. PICK s \in {"Sold", "ClosedNoBids"} :
          items' = [items EXCEPT ![i].status = s] /\ i \in DOMAIN items
    BY <1>3 DEF EndAuction
  <2> DEFINE jt == [items[i] EXCEPT !.status = s]
  <2>2. items' = [items EXCEPT ![i] = jt] /\ s \in ItemStatus
    BY <2>1 DEF ItemStatus
  <2>3. jt \in Item /\ ItemEvolves(items[i], jt)
    BY <1>0, <2>1, <2>2, WithStatus DEF ItemEvolves, StatusChanges
  <2> QED
    BY <2>1, <2>2, <2>3 DEF ItemsEvolve
<1>4. ASSUME NEW i \in ItemIds, NEW u \in UserIds, NEW a \in Amounts,
             PlaceBid(i, u, a)
      PROVE  ItemsEvolve
  <2> DEFINE jt == WithBid(items[i], u, a, FALSE)
  <2>1. items' = [items EXCEPT ![i] = jt] /\ i \in DOMAIN items
    BY <1>4 DEF PlaceBid
  <2>2. a \in Int /\ a > items[i].current_bid
    BY <1>4 DEF PlaceBid, IsBetterBid
  <2>3. items[i].current_bid \in Nat \ {0}
    BY <1>0, <2>1, ItemFields
  <2>4. a \in Positive
    BY <2>2, <2>3 DEF Positive
  <2>5. jt \in Item
    BY <1>0, <2>1, <2>4, WithBidType
  <2>6. BidMade(items[i], jt)
    BY <2>2, <2>4 DEF BidMade
  <2> QED
    BY <2>1, <2>5, <2>6 DEF ItemsEvolve, ItemEvolves
<1>5. ASSUME NEW i \in ItemIds, NEW u \in UserIds, NEW a \in Amounts,
             SetAutoBid(i, u, a)
      PROVE  ItemsEvolve
  <2> DEFINE jt == [items[i] EXCEPT !.auto_bid_limits =
                      [items[i].auto_bid_limits EXCEPT ![u] = a]]
  <2>1. items' = [items EXCEPT ![i] = jt] /\ i \in DOMAIN items
    BY <1>5 DEF SetAutoBid
  <2>2. a \in Int /\ a > items[i].current_bid
    BY <1>5 DEF SetAutoBid
  <2>3. items[i].current_bid \in Nat \ {0}
    BY <1>0, <2>1, ItemFields
  <2>4. a \in Positive
    BY <2>2, <2>3 DEF Positive
  <2>5. jt \in Item
    BY <1>0, <2>1, <2>4 DEF Item, Positive
  <2>6. LimitSet(items[i], jt)
    BY <2>2, <2>4 DEF LimitSet
  <2> QED
    BY <2>1, <2>5, <2>6 DEF ItemsEvolve, ItemEvolves
<1>6. ASSUME ConsiderUser PROVE ItemsEvolve
  <2> DEFINE i == pass.item
             u == pass.user
             a == items[i].current_bid + MinBidStep
             jt == WithBid(items[i], u, a, TRUE)
  <2>1. i \in DOMAIN items /\ u \in DOMAIN users /\ u \in UserIds
    BY <1>0, <1>6 DEF ConsiderUser, MutexFree
  <2>2. CASE OutbidFor(i, u)
    <3>1. items' = [items EXCEPT ![i] = jt]
      BY <2>2 DEF OutbidFor
    <3>2. /\ items[i].current_bid \in Nat \ {0}
          /\ items[i].auto_bid_limits \in [UserIds -> Nat]
      BY <1>0, <2>1, ItemFields
    <3>3. a \in Positive /\ a > items[i].current_bid
      BY <3>2 DEF Positive
    <3>4. users[u] \in Int /\ items[i].auto_bid_limits[u] \in Nat
      BY <1>0, <2>1, <3>2
    <3>5. items[i].highest_bidder_id # u /\ a <= items[i].auto_bid_limits[u]
      BY <2>2, <3>2, <3>3, <3>4
         DEF OutbidFor, CanOutbid, Leads, EffectiveLimit, Positive
    <3>6. jt \in Item
      BY <1>0, <2>1, <3>3, WithBidType
    <3>7. BidMade(items[i], jt)
      BY <2>1, <3>3, <3>5 DEF BidMade
    <3> QED
      BY <2>1, <3>1, <3>6, <3>7 DEF ItemsEvolve, ItemEvolves
  <2>3. CASE SkipOver(i, u)
    BY <2>3 DEF SkipOver, ItemsEvolve
  <2> QED
    BY <1>6, <2>2, <2>3 DEF ConsiderUser
<1>7. ASSUME UNCHANGED items PROVE ItemsEvolve
  BY <1>7 DEF ItemsEvolve
<1> QED
  BY <1>1, <1>2, <1>3, <1>4, <1>5, <1>6, <1>7
     DEF Next, vars, CreateUser, UpdateBalance, ApplyAutoBids, EndOfPass,
         GetUsers, GetItems

-----------------------------------------------------------------------------
(* The invariants of one item.  HistoryAgreesOn makes the other two inductive *)
(* as it ties the fields the code reads to the last entry of the history.     *)

ItemInv(it) ==
    /\ HistoryAgreesOn(it)
    /\ AutoBidsWithinLimitOn(it)
    /\ AutoBidsMinimalOn(it)

LEMMA NewItemInv == ASSUME NEW p PROVE ItemInv(NewItem(p))
<1>1. NewItem(p).bid_history = <<>> /\ DOMAIN NewItem(p).bid_history = {}
  BY DEF NewItem
<1> QED
  BY <1>1 DEF ItemInv, HistoryAgreesOn, AutoBidsWithinLimitOn, AutoBidsMinimalOn,
              NewItem

\* The entries of an item's history.
LEMMA HistoryEntries ==
    ASSUME NEW it \in Item
    PROVE  /\ Len(it.bid_history) \in Nat
           /\ DOMAIN it.bid_history = 1..Len(it.bid_history)
           /\ \A k \in DOMAIN it.bid_history :
                /\ it.bid_history[k].amount \in Nat \ {0}
                /\ it.bid_history[k].user_id \in UserIds
<1> DEFINE h == it.bid_history
<1>1. h \in Seq(Bid) /\ Len(h) \in Nat /\ DOMAIN h = 1..Len(h)
  BY ItemFields, LenProperties
<1>2. \A k \in DOMAIN h : h[k] \in Bid
  BY <1>1, ElementOfSeq
<1>3. \A b \in Bid : b.amount \in Nat \ {0} /\ b.user_id \in UserIds
  BY DEF Bid, Positive
<1> QED
  BY <1>1, <1>2, <1>3

\* Everything in the history is at or below the current bid.
LEMMA CurrentBidTops ==
    ASSUME NEW it \in Item, HistoryAgreesOn(it)
    PROVE  /\ \A k \in DOMAIN it.bid_history :
                it.bid_history[k].amount <= it.current_bid
           /\ it.starting_bid <= it.current_bid
<1> DEFINE h == it.bid_history
<1>1. h \in Seq(Bid) /\ Len(h) \in Nat /\ DOMAIN h = 1..Len(h)
  BY ItemFields, LenProperties
<1>2. \A k \in DOMAIN h : h[k].amount \in Nat
  BY HistoryEntries
<1>3. it.starting_bid \in Nat /\ it.current_bid \in Nat
  BY ItemFields
<1>4. CASE h = <<>>
  BY <1>1, <1>3, <1>4 DEF HistoryAgreesOn
<1>5. CASE h # <<>>
  <2>1. Len(h) \in DOMAIN h
    BY <1>1, <1>5, EmptySeq
  <2>2. it.current_bid = h[Len(h)].amount /\ it.starting_bid < h[Len(h)].amount
    BY <1>5, <2>1 DEF HistoryAgreesOn
  <2>3. \A k \in DOMAIN h : k = Len(h) \/ k < Len(h)
    BY <1>1
  <2>4. \A k \in DOMAIN h : k < Len(h) => h[k].amount < h[Len(h)].amount
    BY <2>1 DEF HistoryAgreesOn
  <2> QED
    BY <1>2, <1>3, <2>1, <2>2, <2>3, <2>4
<1> QED
  BY <1>4, <1>5

\* Whatever a call does to an item preserves its invariants.
LEMMA ItemInvPreserved ==
    ASSUME NEW it \in Item, NEW jt \in Item, ItemInv(it), ItemEvolves(it, jt)
    PROVE  ItemInv(jt)
<1> USE AuctionAssumption DEF AuctionAssumption
<1> DEFINE h == it.bid_history
<1>0. /\ h \in Seq(Bid) /\ Len(h) \in Nat /\ DOMAIN h = 1..Len(h)
      /\ \A k \in DOMAIN h : h[k].amount \in Nat
      /\ it.starting_bid \in Nat /\ it.current_bid \in Nat
      /\ \A k \in DOMAIN h : h[k].amount <= it.current_bid
      /\ \A k \in DOMAIN h : h[k].user_id \in UserIds
      /\ \A u \in UserIds : it.auto_bid_limits[u] \in Nat
      /\ it.auto_bid_limits \in [UserIds -> Nat]
  BY ItemFields, HistoryEntries, CurrentBidTops DEF ItemInv
<1>1. CASE StatusChanges(it, jt)
  <2>1. /\ jt.starting_bid = it.starting_bid
        /\ jt.current_bid = it.current_bid
        /\ jt.highest_bidder_id = it.highest_bidder_id
        /\ jt.bid_history = it.bid_history
        /\ jt.auto_bid_limits = it.auto_bid_limits
    BY <1>1, WithStatus DEF StatusChanges
  <2> QED
    BY <2>1 DEF ItemInv, HistoryAgreesOn, AutoBidsWithinLimitOn, AutoBidsMinimalOn
<1>2. CASE LimitSet(it, jt)
  <2>1. PICK u \in UserIds, a \in Positive :
          /\ a > it.current_bid
          /\ jt = [it EXCEPT !.auto_bid_limits = [it.auto_bid_limits EXCEPT ![u] = a]]
    BY <1>2 DEF LimitSet
  <2>2. /\ jt.starting_bid = it.starting_bid
        /\ jt.current_bid = it.current_bid
        /\ jt.highest_bidder_id = it.highest_bidder_id
        /\ jt.bid_history = it.bid_history
        /\ jt.auto_bid_limits = [it.auto_bid_limits EXCEPT ![u] = a]
    BY <2>1 DEF Item
  <2>3. HistoryAgreesOn(jt) /\ AutoBidsMinimalOn(jt)
    BY <2>2 DEF ItemInv, HistoryAgreesOn, AutoBidsMinimalOn
  <2>4. ASSUME NEW k \in DOMAIN h, h[k].auto
        PROVE  h[k].amount <= jt.auto_bid_limits[h[k].user_id]
    <3>1. CASE h[k].user_id = u
      BY <1>0, <2>1, <2>2, <3>1 DEF Positive
    <3>2. CASE h[k].user_id # u
      BY <1>0, <2>2, <2>4, <3>2 DEF ItemInv, AutoBidsWithinLimitOn
    <3> QED
      BY <3>1, <3>2
  <2> QED
    BY <2>2, <2>3, <2>4 DEF ItemInv, AutoBidsWithinLimitOn
<1>3. CASE BidMade(it, jt)
  <2>1. PICK u \in UserIds, a \in Positive, auto \in BOOLEAN :
          /\ a > it.current_bid
          /\ auto => /\ a = it.current_bid + MinBidStep
                     /\ it.highest_bidder_id # u
                     /\ a <= it.auto_bid_limits[u]
          /\ jt = WithBid(it, u, a, auto)
    BY <1>3 DEF BidMade
  <2> DEFINE b == [user_id |-> u, amount |-> a, auto |-> auto]
             g == Append(h, b)
             n == Len(h) + 1
  <2>2. /\ jt.starting_bid = it.starting_bid
        /\ jt.current_bid = a
        /\ jt.highest_bidder_id = u
        /\ jt.bid_history = g
        /\ jt.auto_bid_limits = it.auto_bid_limits
    BY <2>1 DEF WithBid, Item
  <2>3. b \in Bid /\ a \in Nat
    BY DEF Bid, Positive
  <2>4. /\ Len(g) = n /\ DOMAIN g = 1..n /\ g[n] = b /\ g # <<>>
        /\ \A k \in DOMAIN h : g[k] = h[k]
    BY <1>0, <2>3, SeqAppend
  <2>5. /\ \A k \in DOMAIN g : k = n \/ k \in DOMAIN h
        /\ n \in DOMAIN g /\ n \in Nat
        /\ \A k \in DOMAIN h : k < n
    BY <1>0, <2>4
  <2>6. it.starting_bid <= it.current_bid
    BY CurrentBidTops DEF ItemInv
  <2> HIDE DEF g, n, b
  <2>7. HistoryAgreesOn(jt)
    <3>1. ASSUME NEW j \in DOMAIN g, NEW k \in DOMAIN g, j < k
          PROVE  g[j].amount < g[k].amount
      <4>1. j \in DOMAIN h
        BY <1>0, <2>4, <2>5, <3>1
      <4>2. CASE k \in DOMAIN h
        BY <2>4, <3>1, <4>1, <4>2 DEF ItemInv, HistoryAgreesOn
      <4>3. CASE k = n
        <5>1. g[k].amount = a /\ h[j].amount \in Nat /\ h[j].amount <= it.current_bid
          BY <1>0, <2>4, <4>1, <4>3 DEF b
        <5> QED
          BY <1>0, <2>1, <2>3, <2>4, <4>1, <5>1
      <4> QED
        BY <2>5, <4>2, <4>3
    <3>2. ASSUME NEW k \in DOMAIN g PROVE it.starting_bid < g[k].amount
      <4>1. CASE k \in DOMAIN h
        BY <2>4, <4>1 DEF ItemInv, HistoryAgreesOn
      <4>2. CASE k = n
        <5>1. g[k].amount = a
          BY <2>4, <4>2 DEF b
        <5> QED
          BY <1>0, <2>1, <2>3, <2>6, <5>1
      <4> QED
        BY <2>5, <4>1, <4>2
    <3>3. jt.highest_bidder_id = g[Len(g)].user_id /\ jt.current_bid = g[Len(g)].amount
      BY <2>2, <2>4 DEF b
    <3> QED
      BY <2>2, <2>4, <3>1, <3>2, <3>3 DEF HistoryAgreesOn
  <2>8. AutoBidsWithinLimitOn(jt)
    <3>1. ASSUME NEW k \in DOMAIN g, g[k].auto
          PROVE  g[k].amount <= it.auto_bid_limits[g[k].user_id]
      <4>1. CASE k \in DOMAIN h
        BY <2>4, <3>1, <4>1 DEF ItemInv, AutoBidsWithinLimitOn
      <4>2. CASE k = n
        BY <2>1, <2>4, <3>1, <4>2 DEF b
      <4> QED
        BY <2>5, <4>1, <4>2
    <3> QED
      BY <2>2, <3>1 DEF AutoBidsWithinLimitOn
  <2>9. AutoBidsMinimalOn(jt)
    <3>1. ASSUME NEW k \in DOMAIN g, g[k].auto
          PROVE  IF k = 1
                 THEN g[k].amount = it.starting_bid + MinBidStep
                 ELSE /\ g[k].amount = g[k - 1].amount + MinBidStep
                      /\ g[k].user_id # g[k - 1].user_id
      <4>1. CASE k \in DOMAIN h
        <5>1. k # 1 => k - 1 \in DOMAIN h
          BY <1>0, <4>1
        <5> QED
          BY <2>4, <3>1, <4>1, <5>1 DEF ItemInv, AutoBidsMinimalOn
      <4>2. CASE k = n
        <5>1. /\ g[k].amount = it.current_bid + MinBidStep
              /\ g[k].user_id # it.highest_bidder_id
          BY <2>1, <2>4, <3>1, <4>2 DEF b
        <5>2. CASE h = <<>>
          <6>1. k = 1
            BY <4>2, <5>2 DEF n
          <6> QED
            BY <5>1, <5>2, <6>1 DEF ItemInv, HistoryAgreesOn
        <5>3. CASE h # <<>>
          <6>1. Len(h) \in DOMAIN h /\ k # 1 /\ k - 1 = Len(h)
            BY <1>0, <4>2, <5>3, EmptySeq DEF n
          <6>2. /\ it.highest_bidder_id = h[Len(h)].user_id
                /\ it.current_bid = h[Len(h)].amount
            BY <5>3 DEF ItemInv, HistoryAgreesOn
          <6> QED
            BY <2>4, <5>1, <6>1, <6>2
        <5> QED
          BY <5>2, <5>3
      <4> QED
        BY <2>5, <4>1, <4>2
    <3> QED
      BY <2>2, <3>1 DEF AutoBidsMinimalOn
  <2> QED
    BY <2>7, <2>8, <2>9 DEF ItemInv
<1> QED
  BY <1>1, <1>2, <1>3 DEF ItemEvolves

AllItemsInv == \A i \in DOMAIN items : ItemInv(items[i])

LEMMA ItemInvariants == Spec => []AllItemsInv
<1>1. Init => AllItemsInv
  BY DEF Init, AllItemsInv
<1>2. TypeOK /\ AllItemsInv /\ [Next]_vars => AllItemsInv'
  <2> SUFFICES ASSUME TypeOK, AllItemsInv, [Next]_vars PROVE AllItemsInv'
    OBVIOUS
  <2>0. items \in Seq(Item) /\ \A i \in DOMAIN items : items[i] \in Item
    BY LenProperties, ElementOfSeq DEF TypeOK
  <2>1. ItemsEvolve
    BY StepsEvolveItems
  <2>2. CASE items' = items
    BY <2>2 DEF AllItemsInv
  <2>3. ASSUME NEW p \in Positive, items' = Append(items, NewItem(p))
        PROVE  AllItemsInv'
    <3>1. NewItem(p) \in Item
      BY NewItemType
    <3>2. /\ DOMAIN items' = 1..(Len(items) + 1) /\ DOMAIN items = 1..Len(items)
          /\ items'[Len(items) + 1] = NewItem(p)
          /\ \A i \in DOMAIN items : items'[i] = items[i]
      BY <2>0, <2>3, <3>1, SeqAppend
    <3>3. ASSUME NEW i \in DOMAIN items' PROVE ItemInv(items'[i])
      <4>1. Len(items) \in Nat
        BY <2>0, LenProperties
      <4>2. i = Len(items) + 1 \/ i \in DOMAIN items
        BY <3>2, <4>1
      <4> QED
        BY <3>2, <4>2, NewItemInv DEF AllItemsInv
    <3> QED
      BY <3>3 DEF AllItemsInv
  <2>4. ASSUME NEW i \in DOMAIN items, NEW jt \in Item,
               items' = [items EXCEPT ![i] = jt], ItemEvolves(items[i], jt)
        PROVE  AllItemsInv'
    <3>1. ItemInv(jt)
      BY <2>0, <2>4, ItemInvPreserved DEF AllItemsInv
    <3>2. /\ DOMAIN items' = DOMAIN items
          /\ items'[i] = jt
          /\ \A j \in DOMAIN items : j # i => items'[j] = items[j]
      BY <2>0, <2>4, SeqExcept
    <3>3. ASSUME NEW j \in DOMAIN items' PROVE ItemInv(items'[j])
      BY <3>1, <3>2 DEF AllItemsInv
    <3> QED
      BY <3>3 DEF AllItemsInv
  <2> QED
    BY <2>1, <2>2, <2>3, <2>4 DEF ItemsEvolve
<1> QED
  BY <1>1, <1>2, TypeCorrect, PTL DEF Spec

\* The two code paths that append a bid keep the history, the price and the
\* leader of every item consistent, for any number of users, items and bids.
THEOREM HistoryCorrect == Spec => []HistoryAgrees
<1>1. AllItemsInv => HistoryAgrees
  BY DEF AllItemsInv, ItemInv, HistoryAgrees
<1> QED
  BY <1>1, ItemInvariants, PTL

\* No automatic bid exceeds the limit its user has set, then or later.
THEOREM LimitsRespected == Spec => []AutoBidsWithinLimit
<1>1. AllItemsInv => AutoBidsWithinLimit
  BY DEF AllItemsInv, ItemInv, AutoBidsWithinLimit
<1> QED
  BY <1>1, ItemInvariants, PTL

\* An automatic bid is one step above another user's bid.
THEOREM AutoBidsAreMinimal == Spec => []AutoBidsMinimal
<1>1. AllItemsInv => AutoBidsMinimal
  BY DEF AllItemsInv, ItemInv, AutoBidsMinimal
<1> QED
  BY <1>1, ItemInvariants, PTL

-----------------------------------------------------------------------------
(* Balances                                                                   *)

\* Balances stay non-negative: what leaves one is checked against it first.
LEMMA SolventStep == TypeOK /\ Solvent /\ [Next]_vars => Solvent'
<1> SUFFICES ASSUME TypeOK, Solvent, [Next]_vars PROVE Solvent'
  OBVIOUS
<1>0. /\ users \in Seq(Int) /\ \A u \in DOMAIN users : users[u] \in Int
      /\ Len(users) \in Nat /\ DOMAIN users = 1..Len(users)
      /\ \A i \in DOMAIN items : items[i] \in Item /\ KnownBidders(items[i])
  BY LenProperties, ElementOfSeq DEF TypeOK
<1>1. ASSUME NEW b \in Balances, CreateUser(b) PROVE Solvent'
  <2>1. b \in Int /\ b >= 0 /\ users' = Append(users, b)
    BY <1>1, AuctionAssumption DEF AuctionAssumption, CreateUser
  <2>2. /\ DOMAIN users' = 1..(Len(users) + 1) /\ users'[Len(users) + 1] = b
        /\ \A u \in DOMAIN users : users'[u] = users[u]
    BY <1>0, <2>1, SeqAppend
  <2>3. \A u \in DOMAIN users' : u = Len(users) + 1 \/ u \in DOMAIN users
    BY <1>0, <2>2
  <2> QED
    BY <2>1, <2>2, <2>3 DEF Solvent
<1>2. ASSUME NEW u \in UserIds, NEW d \in Deltas, UpdateBalance(u, d) PROVE Solvent'
  <2>1. /\ u \in DOMAIN users /\ users[u] + d \in Int /\ users[u] + d >= 0
        /\ users' = [users EXCEPT ![u] = users[u] + d]
    BY <1>0, <1>2, AuctionAssumption DEF AuctionAssumption, UpdateBalance
  <2> QED
    BY <1>0, <2>1 DEF Solvent
<1>3. ASSUME NEW i \in ItemIds, EndAuction(i) PROVE Solvent'
  <2> DEFINE w == items[i].highest_bidder_id
             p == items[i].current_bid
  <2>1. CASE UNCHANGED users
    BY <2>1 DEF Solvent
  <2>2. CASE w # NoUser /\ users' = [users EXCEPT ![w] = users[w] - p]
    <3>1. w \in DOMAIN users /\ p \in Int
      BY <1>0, <1>3, <2>2, ItemFields DEF EndAuction, KnownBidders
    <3>2. users[w] >= p
      BY <1>3, <2>2 DEF EndAuction, EndChecks
    <3> QED
      BY <1>0, <2>2, <3>1, <3>2 DEF Solvent
  <2> QED
    BY <1>3, <2>1, <2>2 DEF EndAuction
<1>4. CASE UNCHANGED users
  BY <1>4 DEF Solvent
<1> QED
  BY <1>1, <1>2, <1>3, <1>4
     DEF Next, vars, AddItem, StartAuction, PlaceBid, SetAutoBid, ApplyAutoBids,
         ConsiderUser, EndOfPass, GetUsers, GetItems

\* No sequence of bids, withdrawals and auction ends overdraws an account.
THEOREM AlwaysSolvent == Spec => []Solvent
<1>1. Init => Solvent
  BY DEF Init, Solvent
<1> QED
  BY <1>1, SolventStep, TypeCorrect, PTL DEF Spec

-----------------------------------------------------------------------------
(* The auto-bid loop.  While a pass has not progressed, the users it has gone *)
(* past still cannot outbid the leader, since nothing changed meanwhile.      *)

PassInv ==
    /\ ~MutexFree => pass.user > 0 /\ items[pass.item].status = "Active"
    /\ (~MutexFree /\ ~pass.progressed) =>
         \A u \in DOMAIN users : u < pass.user => ~CanOutbid(pass.item, u)

LEMMA PassInvStep == TypeOK /\ PassInv /\ [Next]_vars => PassInv'
<1> SUFFICES ASSUME TypeOK, PassInv, [Next]_vars PROVE PassInv'
  OBVIOUS
<1>0. /\ Len(users) \in Nat /\ DOMAIN users = 1..Len(users)
      /\ pass \in Pass /\ pass.user \in Nat /\ pass.progressed \in BOOLEAN
      /\ \A i \in DOMAIN items : items[i] \in Item
  BY LenProperties, ElementOfSeq DEF TypeOK, Pass
<1>1. CASE MutexFree /\ UNCHANGED pass
  BY <1>1 DEF MutexFree, PassInv
<1>2. ASSUME NEW i \in ItemIds, EnterApplyAutoBids(i), UNCHANGED users,
             items'[i].status = "Active"
      PROVE  PassInv'
  <2>0. pass'.item = i
    BY <1>2 DEF EnterApplyAutoBids
  <2>1. pass'.user = 1 /\ DOMAIN users' = 1..Len(users)
    BY <1>0, <1>2 DEF EnterApplyAutoBids
  <2>2. \A u \in DOMAIN users' : ~(u < 1)
    BY <1>0, <2>1
  <2> QED
    BY <1>2, <2>0, <2>1, <2>2 DEF PassInv
<1>3. ASSUME ConsiderUser PROVE PassInv'
  <2>1. /\ pass.user \in DOMAIN users /\ UNCHANGED users /\ ~MutexFree
        /\ pass.user > 0
    BY <1>0, <1>3 DEF ConsiderUser
  <2>2. CASE OutbidFor(pass.item, pass.user)
    <3>1. pass'.progressed = TRUE /\ pass'.user = pass.user + 1
      BY <1>0, <2>2 DEF OutbidFor, Pass
    <3>2. items'[pass.item].status = items[pass.item].status /\ pass'.item = pass.item
      BY <1>0, <2>1, <2>2 DEF OutbidFor, Pass, WithBid, MutexFree, TypeOK, Item
    <3> QED
      BY <1>0, <2>1, <3>1, <3>2 DEF PassInv
  <2>3. CASE SkipOver(pass.item, pass.user)
    <3>1. /\ pass'.progressed = pass.progressed /\ pass'.user = pass.user + 1
          /\ pass'.item = pass.item /\ UNCHANGED <<items, users>>
          /\ ~CanOutbid(pass.item, pass.user)
      BY <1>0, <2>1, <2>3 DEF SkipOver, Pass
    <3>2. \A u \in DOMAIN users : u < pass.user + 1 => u < pass.user \/ u = pass.user
      BY <1>0
    <3>3. \A u \in DOMAIN users :
            ~CanOutbid(pass.item, u) => ~CanOutbid(pass.item, u)'
      BY <3>1 DEF CanOutbid, Leads
    <3> QED
      BY <1>0, <2>1, <3>1, <3>2, <3>3 DEF PassInv, MutexFree
  <2> QED
    BY <1>3, <2>2, <2>3 DEF ConsiderUser
<1>4. ASSUME EndOfPass PROVE PassInv'
  <2>1. CASE EnterApplyAutoBids(pass.item)
    <3>1. pass.item \in ItemIds
      BY <1>0, <1>4 DEF EndOfPass, MutexFree, Pass
    <3> QED
      BY <1>2, <1>4, <2>1, <3>1 DEF EndOfPass, PassInv
  <2>2. CASE pass' = Idle
    BY <2>2 DEF PassInv, Idle, MutexFree
  <2> QED
    BY <1>4, <2>1, <2>2 DEF EndOfPass
<1>5. CASE UNCHANGED vars
  BY <1>5 DEF vars, PassInv, MutexFree, CanOutbid, Leads
<1>6. ASSUME NEW i \in ItemIds, NEW u \in UserIds, NEW a \in Amounts, PlaceBid(i, u, a)
      PROVE  PassInv'
  <2>1. items'[i].status = "Active"
    BY <1>0, <1>6 DEF PlaceBid, WithBid, Item
  <2> QED
    BY <1>2, <1>6, <2>1 DEF PlaceBid
<1>7. ASSUME NEW i \in ItemIds, NEW u \in UserIds, NEW a \in Amounts, SetAutoBid(i, u, a)
      PROVE  PassInv'
  <2>1. items'[i].status = "Active"
    BY <1>0, <1>7 DEF SetAutoBid, Item
  <2> QED
    BY <1>2, <1>7, <2>1 DEF SetAutoBid
<1>8. \/ UNCHANGED vars
      \/ MutexFree /\ UNCHANGED pass
      \/ ConsiderUser
      \/ EndOfPass
      \/ \E i \in ItemIds, u \in UserIds, a \in Amounts :
           PlaceBid(i, u, a) \/ SetAutoBid(i, u, a)
  BY DEF Next, CreateUser, UpdateBalance, AddItem, StartAuction, EndAuction,
         ApplyAutoBids, GetUsers, GetItems
<1> QED
  BY <1>1, <1>3, <1>4, <1>5, <1>6, <1>7, <1>8

LEMMA PassInvariant == Spec => []PassInv
<1>1. Init => PassInv
  BY DEF Init, PassInv, Idle, MutexFree
<1> QED
  BY <1>1, PassInvStep, TypeCorrect, PTL DEF Spec

\* A call returns only when no auto-bidder can outbid the leader.
THEOREM ReleasedQuiescent == Spec => QuiescentOnRelease
<1> DEFINE Q == \A i \in ItemIds : (pass.item = i /\ MutexFree') =>
                  \A u \in DOMAIN users : ~CanOutbid(i, u)'
<1>1. TypeOK /\ PassInv /\ [Next]_vars => [Q]_vars
  <2> SUFFICES ASSUME TypeOK, PassInv, Next, NEW i \in ItemIds, pass.item = i,
                      MutexFree', NEW u \in DOMAIN users
               PROVE  ~CanOutbid(i, u)'
    OBVIOUS
  <2>0. /\ Len(users) \in Nat /\ DOMAIN users = 1..Len(users)
        /\ MaxItems \in Nat /\ i # NoItem /\ ~MutexFree /\ pass.user \in Nat
    BY LenProperties, AuctionAssumption
       DEF TypeOK, AuctionAssumption, ItemIds, NoItem, MutexFree, Pass
  <2>1. CASE ConsiderUser
    <3>1. pass \in Pass
      BY DEF TypeOK
    <3>2. CASE pass' = [pass EXCEPT !.user = pass.user + 1, !.progressed = TRUE]
      BY <2>0, <3>1, <3>2 DEF MutexFree, Pass
    <3>3. CASE pass' = [pass EXCEPT !.user = pass.user + 1]
      BY <2>0, <3>1, <3>3 DEF MutexFree, Pass
    <3> QED
      BY <2>1, <3>2, <3>3 DEF ConsiderUser, OutbidFor, SkipOver
  <2>2. CASE EndOfPass
    <3>1. ~pass.progressed /\ UNCHANGED <<users, items>>
      BY <2>0, <2>2 DEF EndOfPass, EnterApplyAutoBids, MutexFree
    <3>2. pass.user > Len(users)
      BY <2>0, <2>2 DEF EndOfPass, PassInv
    <3>3. ~CanOutbid(i, u)
      BY <2>0, <3>1, <3>2 DEF PassInv
    <3> QED
      BY <3>1, <3>3 DEF CanOutbid, Leads
  <2>3. ConsiderUser \/ EndOfPass
    BY <2>0 DEF Next, CreateUser, UpdateBalance, AddItem, StartAuction, EndAuction,
         PlaceBid, SetAutoBid, ApplyAutoBids, GetUsers, GetItems
  <2> QED
    BY <2>1, <2>2, <2>3
<1> QED
  BY <1>1, TypeCorrect, PassInvariant, PTL DEF Spec, QuiescentOnRelease

-----------------------------------------------------------------------------
(* The end of the bidding war.  AutoBidsTerminate is a matter of fairness once*)
(* it is known that the loop has finitely much left to do, whatever the users,*)
(* their limits and the order of their ids.                                   *)

\* How far a price can still rise, if nobody has more than `rich`.
Headroom(price, rich) == IF price < rich THEN rich - price ELSE 0

\* The iterations and ends of passes left, at most: a pass of n users looks at
\* each of them and ends, and two passes at most end between bids.
Work(price, progressed, user, n, rich) ==
    (2 * Headroom(price, rich) + IF progressed THEN 1 ELSE 0) * (n + 1) + (n + 1 - user)

WorkLeft(rich) ==
    Work(items[pass.item].current_bid, pass.progressed, pass.user, Len(users), rich)

WindsDown(rich) ==
    (~MutexFree /\ \A u \in DOMAIN users : users[u] <= rich) =>
      /\ UNCHANGED users
      /\ \/ MutexFree'
         \/ /\ WorkLeft(rich) \in Nat /\ WorkLeft(rich)' \in Nat
            /\ WorkLeft(rich)' < WorkLeft(rich)

\* A pass never looks beyond one past the last user.
CursorInv == ~MutexFree => pass.user \in 1..(Len(users) + 1)

\* What a state has while the loop runs.
LEMMA LoopState ==
    ASSUME TypeOK, ~MutexFree
    PROVE  /\ Len(users) \in Nat
           /\ DOMAIN users = 1..Len(users)
           /\ \A u \in DOMAIN users : users[u] \in Int
           /\ pass \in Pass
           /\ pass.item \in DOMAIN items
           /\ items[pass.item] \in Item
           /\ items[pass.item].current_bid \in Nat
BY LenProperties, ElementOfSeq, ItemFields DEF TypeOK, MutexFree

\* While the loop holds the mutex nothing else happens.
LEMMA OnlyTheLoop ==
    ASSUME Next, ~MutexFree
    PROVE  ConsiderUser \/ EndOfPass
BY DEF Next, CreateUser, UpdateBalance, AddItem, StartAuction, EndAuction,
       PlaceBid, SetAutoBid, ApplyAutoBids, GetUsers, GetItems

LEMMA CursorStep == TypeOK /\ CursorInv /\ [Next]_vars => CursorInv'
<1> SUFFICES ASSUME TypeOK, CursorInv, [Next]_vars, ~MutexFree'
             PROVE  pass'.user \in 1..(Len(users') + 1)
  BY DEF CursorInv
<1>1. CASE UNCHANGED <<users, pass>>
  BY <1>1 DEF CursorInv, MutexFree
<1>2. ASSUME NEW i, EnterApplyAutoBids(i), UNCHANGED users
      PROVE  pass'.user \in 1..(Len(users') + 1)
  <2>1. Len(users') \in Nat /\ pass'.user = 1
    BY <1>2, LenProperties DEF TypeOK, EnterApplyAutoBids
  <2> QED
    BY <2>1
<1>3. CASE MutexFree
  BY <1>1, <1>2, <1>3
     DEF Next, vars, CreateUser, UpdateBalance, AddItem, StartAuction, EndAuction,
         PlaceBid, SetAutoBid, ApplyAutoBids, ConsiderUser, EndOfPass, GetUsers,
         GetItems, MutexFree
<1>4. CASE ~MutexFree /\ ConsiderUser
  <2>1. /\ Len(users) \in Nat
        /\ pass.user \in 1..Len(users)
        /\ users' = users
        /\ pass'.user = pass.user + 1
    BY <1>4, LoopState DEF ConsiderUser, OutbidFor, SkipOver, Pass
  <2> QED
    BY <2>1
<1>5. CASE ~MutexFree /\ EndOfPass
  BY <1>2, <1>5 DEF EndOfPass, Idle, MutexFree
<1> QED
  BY <1>1, <1>3, <1>4, <1>5, OnlyTheLoop DEF vars

\* Two counts in a row, the first of which matters more.
LEMMA RowOfTwo ==
    ASSUME NEW a \in Nat, NEW b \in Nat, NEW w \in Nat \ {0},
           NEW s \in Nat, NEW t \in 0..(w - 1), b < a
    PROVE  b * w + t < a * w + s
<1>1. PICK d \in Nat : a = b + 1 + d
  <2>1. a - b - 1 \in Nat /\ a = b + 1 + (a - b - 1)
    OBVIOUS
  <2> QED
    BY <2>1
<1>2. a * w = b * w + w + d * w
  BY <1>1
<1>3. d * w \in Nat /\ b * w \in Nat
  OBVIOUS
<1> QED
  BY <1>2, <1>3

LEMMA WorkIsNat ==
    ASSUME NEW price \in Nat, NEW progressed \in BOOLEAN, NEW n \in Nat,
           NEW user \in 1..(n + 1), NEW rich \in Nat
    PROVE  Work(price, progressed, user, n, rich) \in Nat
<1>1. Headroom(price, rich) \in Nat
  BY DEF Headroom
<1>2. \A k, w, t \in Nat : k * w + t \in Nat
  OBVIOUS
<1>3. /\ 2 * Headroom(price, rich) + (IF progressed THEN 1 ELSE 0) \in Nat
      /\ n + 1 \in Nat
      /\ n + 1 - user \in Nat
  BY <1>1
<1> QED
  BY <1>2, <1>3 DEF Work

\* A bid eats up some of the headroom.
LEMMA BidIsWork ==
    ASSUME NEW price \in Nat, NEW higher \in Nat, NEW progressed \in BOOLEAN,
           NEW n \in Nat, NEW user \in 1..n, NEW rich \in Nat,
           price < higher, higher <= rich
    PROVE  Work(higher, TRUE, user + 1, n, rich) < Work(price, progressed, user, n, rich)
<1> DEFINE a == 2 * Headroom(price, rich) + IF progressed THEN 1 ELSE 0
           b == 2 * Headroom(higher, rich) + 1
<1>1. a \in Nat /\ b \in Nat /\ b < a
  BY DEF Headroom
<1>2. n + 1 - (user + 1) \in 0..n /\ n + 1 - user \in Nat /\ n + 1 \in Nat \ {0}
  BY SMT
<1> HIDE DEF a, b
<1>3. b * (n + 1) + (n + 1 - (user + 1)) < a * (n + 1) + (n + 1 - user)
  BY <1>1, <1>2, RowOfTwo
<1> QED
  BY <1>3 DEF Work, a, b

\* A user passed over shortens the pass.
LEMMA SkippingIsWork ==
    ASSUME NEW price \in Nat, NEW progressed \in BOOLEAN, NEW n \in Nat,
           NEW user \in 1..n, NEW rich \in Nat
    PROVE  Work(price, progressed, user + 1, n, rich) < Work(price, progressed, user, n, rich)
<1> DEFINE a == 2 * Headroom(price, rich) + IF progressed THEN 1 ELSE 0
<1>1. a \in Nat
  BY DEF Headroom
<1>2. a * (n + 1) \in Nat
  BY <1>1
<1> DEFINE whole == a * (n + 1)
<1> HIDE DEF whole
<1>3. whole + (n + 1 - (user + 1)) < whole + (n + 1 - user)
  BY <1>2 DEF whole
<1> QED
  BY <1>3 DEF Work, whole

\* The end of a pass that progressed takes back that it had.
LEMMA PassIsWork ==
    ASSUME NEW price \in Nat, NEW n \in Nat, NEW rich \in Nat
    PROVE  Work(price, FALSE, 1, n, rich) < Work(price, TRUE, n + 1, n, rich)
<1> DEFINE a == 2 * Headroom(price, rich) + 1
           b == 2 * Headroom(price, rich) + 0
<1>1. a \in Nat /\ b \in Nat /\ b < a
  BY DEF Headroom
<1>2. n + 1 - 1 \in 0..n /\ n + 1 - (n + 1) \in Nat /\ n + 1 \in Nat \ {0}
  OBVIOUS
<1> HIDE DEF a, b
<1>3. b * (n + 1) + (n + 1 - 1) < a * (n + 1) + (n + 1 - (n + 1))
  BY <1>1, <1>2, RowOfTwo
<1> QED
  BY <1>3 DEF Work, a, b

LEMMA WindsDownStep ==
    ASSUME NEW rich \in Nat, TypeOK, TypeOK', CursorInv, CursorInv', Next
    PROVE  WindsDown(rich)
<1> SUFFICES ASSUME ~MutexFree, \A u \in DOMAIN users : users[u] <= rich
             PROVE  /\ UNCHANGED users
                    /\ \/ MutexFree'
                       \/ /\ WorkLeft(rich) \in Nat /\ WorkLeft(rich)' \in Nat
                          /\ WorkLeft(rich)' < WorkLeft(rich)
  BY DEF WindsDown
<1> DEFINE i == pass.item
           n == Len(users)
           price == items[i].current_bid
<1>0. /\ n \in Nat
      /\ DOMAIN users = 1..n
      /\ pass \in Pass
      /\ i \in DOMAIN items /\ i \in ItemIds
      /\ items[i] \in Item
      /\ price \in Nat
      /\ pass.user \in 1..(n + 1)
      /\ pass.progressed \in BOOLEAN
      /\ \A u \in DOMAIN users : users[u] \in Int
  BY LoopState DEF CursorInv, Pass, MutexFree
<1>1. ASSUME NEW higher \in Nat, NEW progressed \in BOOLEAN, NEW user \in 1..(n + 1),
             items'[pass'.item].current_bid = higher,
             pass'.progressed = progressed, pass'.user = user, users' = users,
             Work(higher, progressed, user, n, rich)
               < Work(price, pass.progressed, pass.user, n, rich)
      PROVE  /\ WorkLeft(rich) \in Nat /\ WorkLeft(rich)' \in Nat
             /\ WorkLeft(rich)' < WorkLeft(rich)
  <2>1. /\ WorkLeft(rich) = Work(price, pass.progressed, pass.user, n, rich)
        /\ WorkLeft(rich)' = Work(higher, progressed, user, n, rich)
    BY <1>1 DEF WorkLeft
  <2>2. /\ Work(price, pass.progressed, pass.user, n, rich) \in Nat
        /\ Work(higher, progressed, user, n, rich) \in Nat
    BY <1>0, <1>1, WorkIsNat
  <2> QED
    BY <1>1, <2>1, <2>2
<1>2. CASE ConsiderUser
  <2>1. pass.user \in 1..n /\ pass.user + 1 \in 1..(n + 1) /\ users' = users
    BY <1>0, <1>2 DEF ConsiderUser
  <2>2. CASE OutbidFor(i, pass.user)
    <3> DEFINE higher == price + MinBidStep
    <3>1. pass'.item = i /\ pass'.user = pass.user + 1 /\ pass'.progressed = TRUE
      BY <1>0, <2>2 DEF OutbidFor, Pass
    <3>2. items'[i].current_bid = higher
      BY <1>0, <2>2 DEF OutbidFor, WithBid, Item
    <3>3. higher \in Nat /\ price < higher
      BY <1>0, AuctionAssumption DEF AuctionAssumption
    <3>4. higher <= rich
      <4>1. items[i].auto_bid_limits[pass.user] \in Nat
        <5>1. pass.user \in UserIds
          BY <1>0, <2>1, AuctionAssumption DEF TypeOK, UserIds, AuctionAssumption
        <5> QED
          BY <1>0, <5>1, ItemFields
      <4>2. EffectiveLimit(items[i].auto_bid_limits[pass.user], users[pass.user]) <= users[pass.user]
        BY <1>0, <2>1, <4>1 DEF EffectiveLimit
      <4>3. higher <= EffectiveLimit(items[i].auto_bid_limits[pass.user], users[pass.user])
        BY <1>0, <2>2, <3>3, AuctionAssumption, <4>1 DEF OutbidFor, CanOutbid, EffectiveLimit, AuctionAssumption
      <4>4. EffectiveLimit(items[i].auto_bid_limits[pass.user], users[pass.user]) \in Int
        BY <1>0, <2>1, <4>1 DEF EffectiveLimit
      <4> HIDE DEF higher, price
      <4> QED
        BY <1>0, <2>1, <3>3, <4>2, <4>3, <4>4
    <3>5. Work(higher, TRUE, pass.user + 1, n, rich)
            < Work(price, pass.progressed, pass.user, n, rich)
      <4> HIDE DEF higher, price, n, i
      <4> QED
        BY <1>0, <2>1, <3>3, <3>4, BidIsWork
    <3> HIDE DEF higher
    <3> QED
      BY <1>1, <2>1, <3>1, <3>2, <3>3, <3>5
  <2>3. CASE SkipOver(i, pass.user)
    <3>1. /\ pass'.item = i /\ pass'.user = pass.user + 1
          /\ pass'.progressed = pass.progressed
          /\ items' = items
      BY <1>0, <2>3 DEF SkipOver, Pass
    <3>2. Work(price, pass.progressed, pass.user + 1, n, rich)
            < Work(price, pass.progressed, pass.user, n, rich)
      <4> HIDE DEF price, n, i
      <4> QED
        BY <1>0, <2>1, SkippingIsWork
    <3> QED
      BY <1>0, <1>1, <2>1, <3>1, <3>2
  <2> QED
    BY <1>2, <2>1, <2>2, <2>3 DEF ConsiderUser
<1>3. CASE EndOfPass
  <2>1. UNCHANGED <<users, items>> /\ pass.user = n + 1
    BY <1>0, <1>3 DEF EndOfPass
  <2>2. CASE pass.progressed = TRUE
    <3>1. pass'.item = i /\ pass'.user = 1 /\ pass'.progressed = FALSE
      BY <1>3, <2>2 DEF EndOfPass, EnterApplyAutoBids
    <3>2. Work(price, FALSE, 1, n, rich) < Work(price, pass.progressed, pass.user, n, rich)
      <4> HIDE DEF price, n, i
      <4> QED
        BY <1>0, <2>1, <2>2, PassIsWork
    <3>3. 1 \in 1..(n + 1)
      BY <1>0
    <3> QED
      BY <1>0, <1>1, <2>1, <3>1, <3>2, <3>3
  <2>3. CASE pass.progressed = FALSE
    BY <1>3, <2>1, <2>3 DEF EndOfPass, Idle, MutexFree
  <2> QED
    BY <1>0, <2>2, <2>3
<1> QED
  BY <1>2, <1>3, OnlyTheLoop

\* The bidding war always has an end ahead of it: while ApplyAutoBids holds the
\* mutex, no balance moves and every iteration leaves it less to do, by a count
\* that starts from the room between the price and the richest balance; so it
\* is over after that many steps at most (while loop, lines 326-363).
THEOREM BiddingWarWindsDown ==
    ASSUME NEW rich \in Nat
    PROVE  Spec => [][WindsDown(rich)]_vars
<1>1. Init => CursorInv
  BY DEF Init, CursorInv, Idle, MutexFree
<1>2. TypeOK /\ TypeOK' /\ CursorInv /\ CursorInv' /\ [Next]_vars => [WindsDown(rich)]_vars
  BY WindsDownStep
<1> QED
  BY <1>1, <1>2, CursorStep, TypeCorrect, PTL DEF Spec

-----------------------------------------------------------------------------
(* What users paid.  The sum of a recursive function, of which PrimitiveRecur-*)
(* sion says that it is there, and induction what it does.                    *)

\* The sums that Paid runs through.
Sums(t, list, u) ==
    /\ t \in [0..Len(list) -> Int]
    /\ t[0] = 0
    /\ \A n \in 1..Len(list) : t[n] = t[n - 1] + Charge(list[n], u)

LEMMA ChargeType ==
    ASSUME NEW it \in Item, NEW u
    PROVE  Charge(it, u) \in Int
  BY ItemFields DEF Charge

LEMMA PaidIsSum ==
    ASSUME NEW list \in Seq(Item), NEW u
    PROVE  \E t : Sums(t, list, u) /\ Paid(list, u) = t[Len(list)]
<1> DEFINE N == Len(list)
           step == [n \in 1..N |-> [s \in Int |-> s + Charge(list[n], u)]]
           Is(f) == f = [n \in 0..N |-> IF n = 0 THEN 0
                                        ELSE f[n - 1] + Charge(list[n], u)]
           upTo == CHOOSE f : Is(f)
<1>1. N \in Nat /\ \A n \in 1..N : list[n] \in Item
  BY LenProperties, ElementOfSeq
<1> HIDE DEF N
<1>2. \A n \in 1..N : Charge(list[n], u) \in Int
  BY <1>1, ChargeType
<1>3. step \in [1..N -> [Int -> Int]]
  BY <1>2
<1>4. PICK f \in Runs(Int, 0, step, N) : TRUE
  <2> HIDE DEF step
  <2>1. 0 \in Int
    OBVIOUS
  <2>2. Runs(Int, 0, step, N) # {}
    BY <1>1, <1>3, <2>1, PrimitiveRecursion
  <2> QED
    BY <2>2
<1>5. /\ f \in [0..N -> Int]
      /\ f[0] = 0
      /\ \A n \in 1..N : f[n - 1] \in Int /\ f[n] = f[n - 1] + Charge(list[n], u)
  <2>1. /\ f \in [0..N -> Int]
        /\ f[0] = 0
        /\ \A n \in 1..N : f[n] = step[n][f[n - 1]]
    <3> HIDE DEF step
    <3> QED
      BY <1>4 DEF Runs
  <2>2. \A n \in 1..N : f[n - 1] \in Int
    BY <1>1, <2>1
  <2> QED
    BY <2>1, <2>2
<1>6. Is(f)
  <2>1. ASSUME NEW n \in 0..N
        PROVE  f[n] = IF n = 0 THEN 0 ELSE f[n - 1] + Charge(list[n], u)
    <3>1. n = 0 \/ n \in 1..N
      BY <1>1
    <3> QED
      BY <1>5, <3>1
  <2>2. f = [n \in 0..N |-> f[n]]
    BY <1>5
  <2> QED
    BY <2>1, <2>2
<1>7. Is(upTo)
  <2> HIDE DEF Is
  <2> QED
    BY <1>6
<1>8. Paid(list, u) = upTo[N]
  BY DEF Paid, N
<1> HIDE DEF upTo, step
<1> DEFINE T == {n \in Nat : n <= N => upTo[n] = f[n]}
<1>9. upTo[0] = 0 /\ \A n \in 1..N : upTo[n] = upTo[n - 1] + Charge(list[n], u)
  <2>1. \A n \in 0..N : upTo[n] = IF n = 0 THEN 0
                                  ELSE upTo[n - 1] + Charge(list[n], u)
    BY <1>7
  <2>2. 0 \in 0..N /\ \A n \in 1..N : n \in 0..N /\ n # 0
    BY <1>1
  <2> QED
    BY <2>1, <2>2
<1>10. 0 \in T
  BY <1>5, <1>9
<1>11. ASSUME NEW n \in Nat, n \in T PROVE n + 1 \in T
  <2> SUFFICES ASSUME n + 1 <= N PROVE upTo[n + 1] = f[n + 1]
    OBVIOUS
  <2>1. upTo[n] = f[n] /\ n + 1 \in 1..N /\ (n + 1) - 1 = n
    BY <1>1, <1>11
  <2> QED
    BY <1>5, <1>9, <2>1
<1>12. upTo[N] = f[N]
  <2>1. N \in T
    <3> HIDE DEF T
    <3> QED
      BY <1>1, <1>10, <1>11, SetInduction
  <2> QED
    BY <1>1, <2>1
<1> QED
  BY <1>5, <1>8, <1>12 DEF Sums, N

LEMMA PaidType ==
    ASSUME NEW list \in Seq(Item), NEW u
    PROVE  Paid(list, u) \in Int
<1>1. Len(list) \in Nat
  BY LenProperties
<1> QED
  BY <1>1, PaidIsSum DEF Sums

\* Who won nothing, paid nothing.
LEMMA PaidNothing ==
    ASSUME NEW list \in Seq(Item), NEW u, \A n \in DOMAIN list : Charge(list[n], u) = 0
    PROVE  Paid(list, u) = 0
<1> DEFINE N == Len(list)
<1>1. N \in Nat /\ DOMAIN list = 1..N
  BY LenProperties
<1>2. PICK t : Sums(t, list, u) /\ Paid(list, u) = t[N]
  BY PaidIsSum
<1>3. t \in [0..N -> Int] /\ t[0] = 0 /\ \A n \in 1..N : t[n] = t[n - 1] + Charge(list[n], u)
  BY <1>2 DEF Sums
<1> HIDE DEF N
<1> DEFINE T == {n \in Nat : n <= N => t[n] = 0}
<1>4. 0 \in T
  BY <1>3
<1>5. ASSUME NEW n \in Nat, n \in T PROVE n + 1 \in T
  <2> SUFFICES ASSUME n + 1 <= N PROVE t[n + 1] = 0
    OBVIOUS
  <2>1. t[n] = 0 /\ n + 1 \in 1..N /\ (n + 1) - 1 = n
    BY <1>1, <1>5
  <2>2. Charge(list[n + 1], u) = 0
    BY <1>1, <2>1
  <2>3. t[n + 1] = t[n] + Charge(list[n + 1], u)
    BY <1>3, <2>1
  <2> QED
    BY <2>1, <2>2, <2>3
<1>6. N \in T
  <2> HIDE DEF T
  <2> QED
    BY <1>1, <1>4, <1>5, SetInduction
<1> QED
  BY <1>1, <1>2, <1>6

\* One more item adds what it was sold for.
LEMMA PaidAppend ==
    ASSUME NEW list \in Seq(Item), NEW it \in Item, NEW u
    PROVE  Paid(Append(list, it), u) = Paid(list, u) + Charge(it, u)
<1> DEFINE N == Len(list)
           longer == Append(list, it)
<1>1. /\ longer \in Seq(Item) /\ Len(longer) = N + 1 /\ longer[N + 1] = it
      /\ DOMAIN list = 1..N /\ N \in Nat /\ \A j \in 1..N : longer[j] = list[j]
  BY SeqAppend, LenProperties
<1>2. PICK t : Sums(t, list, u) /\ Paid(list, u) = t[N]
  BY PaidIsSum
<1> HIDE DEF longer
<1>3. PICK s : Sums(s, longer, u) /\ Paid(longer, u) = s[N + 1]
  BY <1>1, PaidIsSum
<1>4. t[0] = 0 /\ \A n \in 1..N : t[n] = t[n - 1] + Charge(list[n], u)
  BY <1>2 DEF Sums
<1>5. s[0] = 0 /\ \A n \in 1..(N + 1) : s[n] = s[n - 1] + Charge(longer[n], u)
  BY <1>1, <1>3 DEF Sums
<1> HIDE DEF N
<1> DEFINE T == {n \in Nat : n <= N => s[n] = t[n]}
<1>6. 0 \in T
  BY <1>4, <1>5
<1>7. ASSUME NEW n \in Nat, n \in T PROVE n + 1 \in T
  <2> SUFFICES ASSUME n + 1 <= N PROVE s[n + 1] = t[n + 1]
    OBVIOUS
  <2>1. s[n] = t[n] /\ n + 1 \in 1..N /\ n + 1 \in 1..(N + 1) /\ (n + 1) - 1 = n
    BY <1>1, <1>7
  <2> QED
    BY <1>1, <1>4, <1>5, <2>1
<1>8. N \in T
  <2> HIDE DEF T
  <2> QED
    BY <1>1, <1>6, <1>7, SetInduction
<1>9. s[N] = t[N] /\ N + 1 \in 1..(N + 1) /\ (N + 1) - 1 = N
  BY <1>1, <1>8
<1>10. s[N + 1] = t[N] + Charge(it, u)
  BY <1>1, <1>5, <1>9
<1> QED
  BY <1>2, <1>3, <1>10 DEF longer

\* Another state of one item changes the sum by the difference.
Replaces(other, list, i, it) == other = [list EXCEPT ![i] = it]

PaysDifference(other, list, i, it, u) ==
    Paid(other, u) = Paid(list, u) + (Charge(it, u) - Charge(list[i], u))

LEMMA PaidExcept ==
    ASSUME NEW list \in Seq(Item), NEW i \in DOMAIN list, NEW it \in Item, NEW u,
           NEW other, Replaces(other, list, i, it)
    PROVE  PaysDifference(other, list, i, it, u)
<1> USE DEF Replaces, PaysDifference
<1> DEFINE N == Len(list)
<1>1. /\ other \in Seq(Item) /\ Len(other) = N /\ other[i] = it
      /\ DOMAIN list = 1..N /\ N \in Nat
      /\ \A j \in 1..N : j # i => other[j] = list[j]
  <2>1. DOMAIN list = 1..N /\ N \in Nat
    BY LenProperties
  <2>2. /\ other \in Seq(Item) /\ Len(other) = Len(list) /\ other[i] = it
        /\ \A j \in DOMAIN list : j # i => other[j] = list[j]
    BY SeqExcept
  <2> QED
    BY <2>1, <2>2
<1>2. PICK t : Sums(t, list, u) /\ Paid(list, u) = t[N]
  BY PaidIsSum
<1>3. PICK s : Sums(s, other, u) /\ Paid(other, u) = s[N]
  <2>1. other \in Seq(Item) /\ Len(other) = N
    BY <1>1
  <2>2. \E s : Sums(s, other, u) /\ Paid(other, u) = s[Len(other)]
    BY <2>1, PaidIsSum
  <2> QED
    BY <2>1, <2>2
<1>4. /\ t \in [0..N -> Int]
      /\ t[0] = 0 /\ \A n \in 1..N : t[n] = t[n - 1] + Charge(list[n], u)
  BY <1>2 DEF Sums
<1>5. s[0] = 0 /\ \A n \in 1..N : s[n] = s[n - 1] + Charge(other[n], u)
  BY <1>1, <1>3 DEF Sums
<1>6. PICK new \in Int : new = Charge(it, u)
  BY ChargeType
<1>7. PICK old \in Int : old = Charge(list[i], u)
  BY ElementOfSeq, ChargeType
<1> HIDE DEF N
<1> DEFINE T == {n \in Nat : n <= N => s[n] = IF n < i THEN t[n] ELSE t[n] + (new - old)}
<1>8. 0 \in T
  BY <1>1, <1>4, <1>5
<1>9. ASSUME NEW n \in Nat, n \in T PROVE n + 1 \in T
  <2> SUFFICES ASSUME n + 1 <= N
               PROVE  s[n + 1] = IF n + 1 < i THEN t[n + 1] ELSE t[n + 1] + (new - old)
    OBVIOUS
  <2>1. /\ s[n] = IF n < i THEN t[n] ELSE t[n] + (new - old)
        /\ n + 1 \in 1..N /\ (n + 1) - 1 = n /\ n \in 0..N /\ i \in Int
    BY <1>1, <1>9
  <2>2. /\ s[n + 1] = s[n] + Charge(other[n + 1], u)
        /\ t[n + 1] = t[n] + Charge(list[n + 1], u) /\ t[n] \in Int
    BY <1>4, <1>5, <2>1
  <2>3. CASE n + 1 = i
    BY <1>1, <1>6, <1>7, <2>1, <2>2, <2>3
  <2>4. CASE n + 1 # i
    <3>1. other[n + 1] = list[n + 1] /\ list[n + 1] \in Item
      BY <1>1, <2>1, <2>4, ElementOfSeq
    <3>2. PICK c \in Int : c = Charge(list[n + 1], u)
      BY <3>1, ChargeType
    <3>3. s[n + 1] = s[n] + c /\ t[n + 1] = t[n] + c
      BY <2>2, <3>1, <3>2
    <3> QED
      BY <2>1, <2>2, <2>4, <3>3
  <2> QED
    BY <2>3, <2>4
<1>10. N \in T
  <2> HIDE DEF T
  <2> QED
    BY <1>1, <1>8, <1>9, SetInduction
<1>11. s[N] = t[N] + (new - old)
  BY <1>1, <1>10
<1> QED
  BY <1>2, <1>3, <1>6, <1>7, <1>11

LEMMA MoneyStep ==
    TypeOK /\ PassInv /\ MoneyConserved /\ [Next]_vars => MoneyConserved'
<1> SUFFICES ASSUME TypeOK, PassInv, MoneyConserved, [Next]_vars PROVE MoneyConserved'
  OBVIOUS
<1>0. /\ users \in Seq(Int) /\ credited \in Seq(Int) /\ items \in Seq(Item)
      /\ Len(users) \in Nat /\ DOMAIN users = 1..Len(users)
      /\ Len(credited) = Len(users) /\ DOMAIN credited = DOMAIN users
      /\ \A u \in DOMAIN users : users[u] \in Int /\ credited[u] \in Int
      /\ \A i \in DOMAIN items : items[i] \in Item /\ KnownBidders(items[i])
      /\ pass \in Pass /\ pass.item \in DOMAIN items \cup {NoItem}
  BY LenProperties, ElementOfSeq DEF TypeOK
\* A step that leaves the money alone, and what users paid.
<1>1. ASSUME UNCHANGED <<users, credited>>, \A u : Paid(items', u) = Paid(items, u)
      PROVE  MoneyConserved'
  BY <1>1 DEF MoneyConserved
<1>2. ASSUME NEW i \in DOMAIN items, NEW it \in Item, UNCHANGED <<users, credited>>,
             items' = [items EXCEPT ![i] = it],
             items[i].status # "Sold", it.status # "Sold"
      PROVE  MoneyConserved'
  <2>1. ASSUME NEW u PROVE Paid(items', u) = Paid(items, u)
    <3>1. Charge(it, u) = 0 /\ Charge(items[i], u) = 0
      BY <1>2 DEF Charge
    <3>2. PaysDifference(items', items, i, it, u)
      <4>1. Replaces(items', items, i, it)
        BY <1>2 DEF Replaces
      <4> QED
        BY <1>0, <4>1, PaidExcept
    <3>3. Paid(items, u) \in Int
      BY <1>0, PaidType
    <3> QED
      BY <3>1, <3>2, <3>3 DEF PaysDifference
  <2> QED
    BY <1>1, <1>2, <2>1
<1>3. ASSUME NEW b \in Balances, CreateUser(b) PROVE MoneyConserved'
  <2>1. /\ b \in Int /\ users' = Append(users, b) /\ credited' = Append(credited, b)
        /\ items' = items
    BY <1>3, AuctionAssumption DEF AuctionAssumption, CreateUser
  <2>2. /\ DOMAIN users' = 1..(Len(users) + 1) /\ users'[Len(users) + 1] = b
        /\ credited'[Len(users) + 1] = b
        /\ \A u \in DOMAIN users : users'[u] = users[u] /\ credited'[u] = credited[u]
    BY <1>0, <2>1, SeqAppend
  <2>3. \A u \in DOMAIN users' : u = Len(users) + 1 \/ u \in DOMAIN users
    BY <1>0, <2>2
  <2>4. Paid(items, Len(users) + 1) = 0
    <3>1. ASSUME NEW i \in DOMAIN items PROVE Charge(items[i], Len(users) + 1) = 0
      <4>1. items[i].highest_bidder_id \in DOMAIN users \cup {0}
        BY <1>0 DEF KnownBidders, NoUser
      <4>2. items[i].highest_bidder_id # Len(users) + 1
        BY <1>0, <4>1
      <4> QED
        BY <4>2 DEF Charge
    <3> QED
      BY <1>0, <3>1, PaidNothing
  <2>5. ASSUME NEW u \in DOMAIN users' PROVE users'[u] = credited'[u] - Paid(items', u)
    <3>1. CASE u = Len(users) + 1
      <4>1. users'[u] = b /\ credited'[u] = b /\ Paid(items', u) = 0
        BY <2>1, <2>2, <2>4, <3>1
      <4> QED
        BY <2>1, <4>1
    <3>2. CASE u \in DOMAIN users
      BY <2>1, <2>2, <3>2 DEF MoneyConserved
    <3> QED
      BY <2>3, <2>5, <3>1, <3>2
  <2> QED
    BY <2>5 DEF MoneyConserved
<1>4. ASSUME NEW p \in Prices, AddItem(p) PROVE MoneyConserved'
  <2>1. NewItem(p) \in Item
    <3>1. p \in Positive
      BY <1>4, AuctionAssumption DEF AddItem, ValidStart, Positive
    <3> QED
      BY <3>1, NewItemType
  <2>2. ASSUME NEW u PROVE Paid(items', u) = Paid(items, u)
    <3>1. Charge(NewItem(p), u) = 0
      BY DEF Charge, NewItem
    <3>2. Paid(items', u) = Paid(items, u) + Charge(NewItem(p), u)
      BY <1>0, <1>4, <2>1, PaidAppend DEF AddItem
    <3>3. Paid(items, u) \in Int
      BY <1>0, PaidType
    <3> QED
      BY <3>1, <3>2, <3>3
  <2> QED
    BY <1>1, <1>4, <2>2 DEF AddItem
<1>5. ASSUME NEW w \in UserIds, NEW d \in Deltas, UpdateBalance(w, d)
      PROVE  MoneyConserved'
  <2>1. /\ w \in DOMAIN users /\ d \in Int /\ items' = items
        /\ users' = [users EXCEPT ![w] = users[w] + d]
        /\ credited' = [credited EXCEPT ![w] = credited[w] + d]
    BY <1>5, AuctionAssumption DEF AuctionAssumption, UpdateBalance
  <2>2. ASSUME NEW u \in DOMAIN users' PROVE users'[u] = credited'[u] - Paid(items', u)
    <3>1. u \in DOMAIN users
      BY <2>1, <2>2
    <3>2. users[u] = credited[u] - Paid(items, u) /\ Paid(items, u) \in Int
      BY <1>0, <3>1, PaidType DEF MoneyConserved
    <3>3. CASE u = w
      BY <1>0, <2>1, <3>1, <3>2, <3>3
    <3>4. CASE u # w
      BY <1>0, <2>1, <3>1, <3>2, <3>4
    <3> QED
      BY <3>3, <3>4
  <2> QED
    BY <2>2 DEF MoneyConserved
<1>6. ASSUME NEW i \in ItemIds, StartAuction(i) PROVE MoneyConserved'
  <2> DEFINE it == [items[i] EXCEPT !.status = "Active"]
  <2>1. /\ i \in DOMAIN items /\ items[i].status = "Draft"
        /\ items' = [items EXCEPT ![i] = it] /\ UNCHANGED <<users, credited>>
    BY <1>6 DEF StartAuction
  <2>2. it \in Item /\ it.status = "Active"
    BY <1>0, <2>1, WithStatus DEF ItemStatus
  <2> HIDE DEF it
  <2> QED
    BY <1>2, <2>1, <2>2
<1>7. ASSUME NEW i \in ItemIds, EndAuction(i) PROVE MoneyConserved'
  <2>1. /\ i \in DOMAIN items /\ items[i] \in Item /\ items[i].status = "Active"
        /\ UNCHANGED credited
    BY <1>0, <1>7 DEF EndAuction, EndChecks
  <2>2. CASE UNCHANGED users /\ items' = [items EXCEPT ![i].status = "ClosedNoBids"]
    <3> DEFINE it == [items[i] EXCEPT !.status = "ClosedNoBids"]
    <3>1. it \in Item /\ it.status = "ClosedNoBids" /\ items' = [items EXCEPT ![i] = it]
      BY <2>1, <2>2, WithStatus DEF ItemStatus
    <3> HIDE DEF it
    <3> QED
      BY <1>2, <2>1, <2>2, <3>1
  <2>3. CASE /\ items[i].highest_bidder_id # NoUser
             /\ users' = [users EXCEPT ![items[i].highest_bidder_id]
                                          = @ - items[i].current_bid]
             /\ items' = [items EXCEPT ![i].status = "Sold"]
    <3> DEFINE it == [items[i] EXCEPT !.status = "Sold"]
    <3>1. PICK w : w = items[i].highest_bidder_id
      OBVIOUS
    <3>2. PICK price \in Int : price = items[i].current_bid
      BY <2>1, ItemFields
    <3>3. /\ it \in Item /\ it.status = "Sold" /\ it.current_bid = price
          /\ it.highest_bidder_id = w /\ items' = [items EXCEPT ![i] = it]
      BY <2>1, <2>3, <3>1, <3>2, WithStatus DEF ItemStatus
    <3>4. w \in DOMAIN users /\ users' = [users EXCEPT ![w] = users[w] - price]
      BY <1>0, <2>1, <2>3, <3>1, <3>2 DEF KnownBidders
    <3> HIDE DEF it
    <3>5. ASSUME NEW u \in DOMAIN users'
          PROVE  users'[u] = credited'[u] - Paid(items', u)
      <4>1. Charge(items[i], u) = 0 /\ Charge(it, u) = IF w = u THEN price ELSE 0
        BY <2>1, <3>3 DEF Charge
      <4>2. Paid(items', u) = Paid(items, u) + (Charge(it, u) - Charge(items[i], u))
        <5>1. Replaces(items', items, i, it)
          BY <3>3 DEF Replaces
        <5>2. PaysDifference(items', items, i, it, u)
          BY <1>0, <2>1, <3>3, <5>1, PaidExcept
        <5> QED
          BY <5>2 DEF PaysDifference
      <4>3. u \in DOMAIN users
        BY <3>4, <3>5
      <4>4. users[u] = credited[u] - Paid(items, u) /\ Paid(items, u) \in Int
        BY <1>0, <4>3, PaidType DEF MoneyConserved
      <4>5. CASE u = w
        <5>1. users'[u] = users[u] - price /\ Paid(items', u) = Paid(items, u) + (price - 0)
          BY <3>4, <4>1, <4>2, <4>3, <4>5
        <5> QED
          BY <1>0, <2>1, <4>3, <4>4, <5>1
      <4>6. CASE u # w
        <5>1. users'[u] = users[u] /\ Paid(items', u) = Paid(items, u) + (0 - 0)
          BY <3>4, <4>1, <4>2, <4>3, <4>6
        <5> QED
          BY <1>0, <2>1, <4>3, <4>4, <5>1
      <4> QED
        BY <4>5, <4>6
    <3> QED
      BY <3>5 DEF MoneyConserved
  <2> QED
    BY <1>7, <2>2, <2>3 DEF EndAuction
<1>8. ASSUME NEW i \in ItemIds, NEW u \in UserIds, NEW a \in Amounts, PlaceBid(i, u, a)
      PROVE  MoneyConserved'
  <2> DEFINE it == WithBid(items[i], u, a, FALSE)
  <2>1. /\ i \in DOMAIN items /\ items[i] \in Item /\ items[i].status = "Active"
        /\ items' = [items EXCEPT ![i] = it] /\ UNCHANGED <<users, credited>>
    BY <1>0, <1>8 DEF PlaceBid
  <2>2. a \in Positive
    <3>1. a \in Int /\ a > items[i].current_bid
      BY <1>8, AuctionAssumption DEF AuctionAssumption, PlaceBid, IsBetterBid
    <3>2. items[i].current_bid \in Nat \ {0}
      BY <2>1, ItemFields
    <3> QED
      BY <3>1, <3>2 DEF Positive
  <2>3. it \in Item /\ it.status = "Active"
    BY <2>1, <2>2, WithBidType DEF WithBid, Item
  <2> HIDE DEF it
  <2> QED
    BY <1>2, <2>1, <2>3
<1>9. ASSUME NEW i \in ItemIds, NEW u \in UserIds, NEW a \in Amounts, SetAutoBid(i, u, a)
      PROVE  MoneyConserved'
  <2> DEFINE it == [items[i] EXCEPT !.auto_bid_limits =
                      [items[i].auto_bid_limits EXCEPT ![u] = a]]
  <2>1. /\ i \in DOMAIN items /\ items[i] \in Item /\ items[i].status = "Active"
        /\ items' = [items EXCEPT ![i] = it] /\ UNCHANGED <<users, credited>>
    BY <1>0, <1>9 DEF SetAutoBid
  <2>2. a \in Nat
    <3>1. a \in Int /\ a > items[i].current_bid
      BY <1>9, AuctionAssumption DEF AuctionAssumption, SetAutoBid
    <3>2. items[i].current_bid \in Nat \ {0}
      BY <2>1, ItemFields
    <3> QED
      BY <3>1, <3>2
  <2>3. it \in Item /\ it.status = "Active"
    BY <2>1, <2>2 DEF Item
  <2> HIDE DEF it
  <2> QED
    BY <1>2, <2>1, <2>3
<1>10. ASSUME ConsiderUser PROVE MoneyConserved'
  <2> DEFINE i == pass.item
             u == pass.user
             n == items[i].current_bid + MinBidStep
             it == WithBid(items[i], u, n, TRUE)
  <2>1. /\ i \in DOMAIN items /\ items[i] \in Item /\ items[i].status = "Active"
        /\ u \in UserIds /\ UNCHANGED <<users, credited>>
    <3>1. i \in DOMAIN items /\ u \in DOMAIN users /\ UNCHANGED <<users, credited>>
      BY <1>0, <1>10 DEF ConsiderUser, MutexFree
    <3>2. u \in UserIds
      BY <1>0, <3>1, AuctionAssumption DEF TypeOK, UserIds, AuctionAssumption
    <3> QED
      BY <1>0, <1>10, <3>1, <3>2 DEF PassInv, ConsiderUser
  <2>2. CASE OutbidFor(i, u)
    <3>1. n \in Positive
      BY <2>1, ItemFields, AuctionAssumption DEF Positive, AuctionAssumption
    <3>2. it \in Item /\ it.status = "Active"
      BY <2>1, <3>1, WithBidType DEF WithBid, Item
    <3>3. items' = [items EXCEPT ![i] = it]
      BY <2>2 DEF OutbidFor
    <3> HIDE DEF it
    <3> QED
      BY <1>2, <2>1, <3>2, <3>3
  <2>3. CASE SkipOver(i, u)
    BY <1>1, <2>1, <2>3 DEF SkipOver
  <2> QED
    BY <1>10, <2>2, <2>3 DEF ConsiderUser
<1>11. CASE UNCHANGED <<users, items, credited>>
  BY <1>1, <1>11
<1> QED
  BY <1>3, <1>4, <1>5, <1>6, <1>7, <1>8, <1>9, <1>10, <1>11
     DEF Next, vars, ApplyAutoBids, EndOfPass, GetUsers, GetItems

\* Every balance is what its owner brought in minus the final prices of the
\* items he won: over all bids, withdrawals, automatic bids and auction ends,
\* nobody pays twice, or for what another won (EndAuction, lines 150-170).
THEOREM MoneyIsConserved == Spec => []MoneyConserved
<1>1. Init => MoneyConserved
  <2> SUFFICES ASSUME Init PROVE DOMAIN users = {}
    BY DEF MoneyConserved
  <2> QED
    BY EmptySeq DEF Init
<1> QED
  BY <1>1, MoneyStep, TypeCorrect, PassInvariant, PTL DEF Spec

-----------------------------------------------------------------------------
(* AuctionManager implements EnglishAuction.                                  *)

\* Lots is a sequence, as long as items.
LEMMA LotsType ==
    ASSUME NEW S, items \in Seq(S)
    PROVE  /\ DOMAIN items = 1..Len(items) /\ Len(items) \in Nat
           /\ DOMAIN Lots = DOMAIN items
           /\ Lots \in Seq({Lot(items[i]) : i \in DOMAIN items})
           /\ Len(Lots) = Len(items)
<1> DEFINE T == {Lot(items[i]) : i \in DOMAIN items}
<1>1. Len(items) \in Nat /\ DOMAIN items = 1..Len(items)
  BY LenProperties
<1>2. Lots \in [1..Len(items) -> T]
  BY <1>1 DEF Lots
<1>3. Lots \in Seq(T)
  BY <1>1, <1>2
<1>4. DOMAIN Lots = 1..Len(Lots) /\ Len(Lots) \in Nat
  BY <1>3, LenProperties
<1>5. Len(Lots) = Len(items)
  BY <1>1, <1>2, <1>4
<1> QED
  BY <1>1, <1>3, <1>4, <1>5

\* What the auction sees of an item, and the two ways its steps edit that.
LotType == [status : ItemStatus, price : Positive, leader : UserIds \cup {NoUser}]

LEMMA LotFields ==
    ASSUME NEW it \in Item
    PROVE  /\ Lot(it) \in LotType
           /\ Lot(it).status = it.status
           /\ Lot(it).price = it.current_bid
           /\ Lot(it).leader = it.highest_bidder_id
  BY DEF Lot, LotType, Item

LEMMA LotStatus ==
    ASSUME NEW r \in LotType, NEW t \in LotType,
           t.price = r.price, t.leader = r.leader
    PROVE  t = [r EXCEPT !.status = t.status]
  BY DEF LotType

Raised(lot, p, u) == [lot EXCEPT !.price = p, !.leader = u]

LEMMA LotRaise ==
    ASSUME NEW r \in LotType, NEW t \in LotType, t.status = r.status
    PROVE  t = Raised(r, t.price, t.leader)
  BY DEF LotType, Raised

LEMMA LotWithStatus ==
    ASSUME NEW it \in Item, NEW s \in ItemStatus
    PROVE  Lot([it EXCEPT !.status = s]) = [Lot(it) EXCEPT !.status = s]
<1> DEFINE jt == [it EXCEPT !.status = s]
<1>1. /\ jt \in Item /\ jt.status = s /\ jt.current_bid = it.current_bid
      /\ jt.highest_bidder_id = it.highest_bidder_id
  BY WithStatus
<1> HIDE DEF jt
<1>2. /\ Lot(jt) \in LotType /\ Lot(it) \in LotType
      /\ Lot(jt).status = s /\ Lot(jt).price = Lot(it).price
      /\ Lot(jt).leader = Lot(it).leader
  BY <1>1, LotFields
<1>3. Lot(jt) = [Lot(it) EXCEPT !.status = Lot(jt).status]
  BY <1>2, LotStatus
<1> QED
  BY <1>2, <1>3 DEF jt

LEMMA LotWithBid ==
    ASSUME NEW it \in Item, NEW u \in UserIds, NEW a \in Positive, NEW auto \in BOOLEAN
    PROVE  Lot(WithBid(it, u, a, auto)) = Raised(Lot(it), a, u)
<1> DEFINE jt == WithBid(it, u, a, auto)
<1>1. jt \in Item
  BY WithBidType
<1>2. jt.status = it.status /\ jt.current_bid = a /\ jt.highest_bidder_id = u
  BY DEF WithBid, Item
<1> HIDE DEF jt
<1>3. /\ Lot(jt) \in LotType /\ Lot(it) \in LotType
      /\ Lot(jt).status = Lot(it).status /\ Lot(jt).price = a /\ Lot(jt).leader = u
  BY <1>1, <1>2, LotFields
<1>4. Lot(jt) = Raised(Lot(it), Lot(jt).price, Lot(jt).leader)
  BY <1>3, LotRaise
<1> QED
  BY <1>3, <1>4 DEF jt

\* A change of one item is a change of one lot.
LEMMA LotsExcept ==
    ASSUME NEW i \in DOMAIN items, NEW jt, items' = [items EXCEPT ![i] = jt]
    PROVE  Lots' = [Lots EXCEPT ![i] = Lot(jt)]
  BY DEF Lots

\* A new item is a new lot.
LEMMA LotsAppend ==
    ASSUME NEW S, items \in Seq(S), NEW e \in S, items' = Append(items, e)
    PROVE  Lots' = Append(Lots, Lot(e))
<1> DEFINE n == Len(items)
           T == {Lot(items[i]) : i \in DOMAIN items} \cup {Lot(e)}
<1>1. /\ items' \in Seq(S) /\ Len(items') = n + 1 /\ items'[n + 1] = e
      /\ \A j \in DOMAIN items : items'[j] = items[j]
      /\ DOMAIN items = 1..n /\ DOMAIN items' = 1..(n + 1) /\ n \in Nat
  BY SeqAppend, LenProperties
<1>2. /\ Lots' \in [1..(n + 1) -> T]
      /\ Lots'[n + 1] = Lot(e)
      /\ \A j \in 1..n : Lots'[j] = Lot(items[j])
  <2>1. \A j \in 1..(n + 1) : j \in 1..n \/ j = n + 1
    BY <1>1
  <2>2. DOMAIN Lots' = 1..(n + 1) /\ \A j \in 1..(n + 1) : Lots'[j] = Lot(items'[j])
    BY <1>1 DEF Lots
  <2>3. Lots' = [j \in 1..(n + 1) |-> Lot(items'[j])]
    BY <1>1 DEF Lots
  <2>4. \A j \in 1..(n + 1) : Lot(items'[j]) \in T
    BY <1>1, <2>1
  <2> QED
    BY <1>1, <2>1, <2>2, <2>3, <2>4
<1>3. Lots \in Seq(T) /\ Len(Lots) = n /\ \A j \in 1..n : Lots[j] = Lot(items[j])
  <2>1. Lots \in [1..n -> T]
    BY <1>1 DEF Lots
  <2> QED
    BY <1>1, <2>1, LotsType DEF Lots
<1>4. Lots' \in Seq(T) /\ Len(Lots') = n + 1
  <2>1. n + 1 \in Nat
    BY <1>1
  <2>2. Lots' \in Seq(T)
    BY <1>2, <2>1
  <2> QED
    BY <1>2, <2>1, <2>2, LenProperties
<1>5. /\ Append(Lots, Lot(e)) \in Seq(T)
      /\ Len(Append(Lots, Lot(e))) = n + 1
      /\ Append(Lots, Lot(e))[n + 1] = Lot(e)
      /\ \A j \in 1..n : Append(Lots, Lot(e))[j] = Lots[j]
  BY <1>1, <1>3, SeqAppend
<1>6. \A j \in 1..(n + 1) : Append(Lots, Lot(e))[j] = Lots'[j]
  <2>1. \A j \in 1..(n + 1) : j \in 1..n \/ j = n + 1
    BY <1>1
  <2> QED
    BY <1>2, <1>3, <1>5, <2>1
<1> QED
  BY <1>4, <1>5, <1>6, SeqEqual

LEMMA RefinementInit == Init => Auction!Init
<1> SUFFICES ASSUME Init PROVE Lots = <<>> /\ users = <<>>
  BY DEF Auction!Init
<1>1. items \in Seq({}) /\ Len(items) = 0 /\ users = <<>>
  BY EmptySeq DEF Init
<1>2. Len(Lots) = 0 /\ Lots \in Seq({Lot(items[i]) : i \in DOMAIN items})
  BY <1>1, LotsType
<1> QED
  BY <1>1, <1>2, EmptySeq

LEMMA RefinementStep ==
    TypeOK /\ PassInv /\ [Next]_vars => [Auction!Next]_<<users, Lots>>
<1> USE AuctionAssumption DEF AuctionAssumption
<1> SUFFICES ASSUME TypeOK, PassInv, [Next]_vars
             PROVE  Auction!Next \/ UNCHANGED <<users, Lots>>
  OBVIOUS
<1>0. /\ items \in Seq(Item) /\ \A i \in DOMAIN items : items[i] \in Item
      /\ Len(Lots) = Len(items) /\ DOMAIN Lots = DOMAIN items
      /\ \A u \in DOMAIN users : users[u] \in Int
      /\ pass \in Pass /\ pass.item \in DOMAIN items \cup {NoItem}
      /\ \A i \in DOMAIN items : KnownBidders(items[i]) /\ Lots[i] = Lot(items[i])
  BY LenProperties, ElementOfSeq, LotsType DEF TypeOK, Lots
<1>1. ASSUME NEW b \in Balances, CreateUser(b) PROVE Auction!Register
  BY <1>1 DEF CreateUser, Auction!Register, Lots
<1>2. ASSUME NEW p \in Prices, AddItem(p) PROVE Auction!Offer
  <2>1. NewItem(p) \in Item
    BY <1>2, NewItemType DEF AddItem, ValidStart, Positive
  <2>2. Lots' = Append(Lots, Lot(NewItem(p)))
    BY <1>0, <1>2, <2>1, LotsAppend DEF AddItem
  <2>3. Lot(NewItem(p)) = [status |-> "Draft", price |-> p, leader |-> 0]
    BY DEF Lot, NewItem, NoUser
  <2> QED
    BY <1>0, <1>2, <2>2, <2>3 DEF AddItem, ValidStart, Auction!Offer, Auction!Nobody
<1>3. ASSUME NEW u \in UserIds, NEW d \in Deltas, UpdateBalance(u, d)
      PROVE  \E b \in DOMAIN users : Auction!Transfer(b)
  BY <1>3 DEF UpdateBalance, Auction!Transfer, Lots
<1>4. ASSUME NEW i \in ItemIds, StartAuction(i)
      PROVE  \E l \in DOMAIN Lots : Auction!Open(l)
  <2> DEFINE jt == [items[i] EXCEPT !.status = "Active"]
  <2>1. i \in DOMAIN items /\ items' = [items EXCEPT ![i] = jt]
    BY <1>4 DEF StartAuction
  <2>2. Lots' = [Lots EXCEPT ![i] = Lot(jt)]
    BY <2>1, LotsExcept
  <2>3. Lot(jt) = [Lots[i] EXCEPT !.status = "Active"]
    <3>1. "Active" \in ItemStatus
      BY DEF ItemStatus
    <3>2. items[i] \in Item /\ Lots[i] = Lot(items[i])
      BY <1>0, <2>1
    <3>3. Lot(jt) = [Lot(items[i]) EXCEPT !.status = "Active"]
      BY <3>1, <3>2, LotWithStatus
    <3> QED
      BY <3>2, <3>3
  <2>4. Lots[i].status = "Draft"
    BY <1>0, <1>4, <2>1 DEF StartAuction, Lot
  <2> QED
    BY <1>0, <1>4, <2>1, <2>2, <2>3, <2>4 DEF StartAuction, Auction!Open
<1>5. ASSUME NEW i \in ItemIds, EndAuction(i)
      PROVE  \E l \in DOMAIN Lots : Auction!Hammer(l) \/ Auction!Withdraw(l)
  <2>1. /\ i \in DOMAIN items /\ i \in DOMAIN Lots
        /\ Lots[i].status = "Active"
        /\ Lots[i].leader = items[i].highest_bidder_id
        /\ Lots[i].price = items[i].current_bid
    BY <1>0, <1>5 DEF EndAuction, EndChecks, Lot
  <2>2. ASSUME items[i].highest_bidder_id = NoUser, UNCHANGED users,
               items' = [items EXCEPT ![i].status = "ClosedNoBids"]
        PROVE  Auction!Withdraw(i)
    <3> DEFINE jt == [items[i] EXCEPT !.status = "ClosedNoBids"]
    <3>1. Lots' = [Lots EXCEPT ![i] = Lot(jt)]
      BY <2>1, <2>2, LotsExcept
    <3>2. Lot(jt) = [Lots[i] EXCEPT !.status = "ClosedNoBids"]
      <4>1. "ClosedNoBids" \in ItemStatus
        BY DEF ItemStatus
      <4>2. items[i] \in Item /\ Lots[i] = Lot(items[i])
        BY <1>0, <2>1
      <4>3. Lot(jt) = [Lot(items[i]) EXCEPT !.status = "ClosedNoBids"]
        BY <4>1, <4>2, LotWithStatus
      <4> QED
        BY <4>2, <4>3
    <3> QED
      BY <2>1, <2>2, <3>1, <3>2 DEF Auction!Withdraw, Auction!Nobody, NoUser
  <2>3. ASSUME items[i].highest_bidder_id # NoUser,
               users' = [users EXCEPT ![items[i].highest_bidder_id]
                                        = @ - items[i].current_bid],
               items' = [items EXCEPT ![i].status = "Sold"]
        PROVE  Auction!Hammer(i)
    <3> DEFINE jt == [items[i] EXCEPT !.status = "Sold"]
    <3>1. Lots' = [Lots EXCEPT ![i] = Lot(jt)]
      BY <2>1, <2>3, LotsExcept
    <3>2. Lot(jt) = [Lots[i] EXCEPT !.status = "Sold"]
      <4>1. "Sold" \in ItemStatus
        BY DEF ItemStatus
      <4>2. items[i] \in Item /\ Lots[i] = Lot(items[i])
        BY <1>0, <2>1
      <4>3. Lot(jt) = [Lot(items[i]) EXCEPT !.status = "Sold"]
        BY <4>1, <4>2, LotWithStatus
      <4> QED
        BY <4>2, <4>3
    <3>3. users[items[i].highest_bidder_id] >= items[i].current_bid
      BY <1>5, <2>3 DEF EndAuction, EndChecks
    <3>4. /\ items[i].highest_bidder_id \in DOMAIN users
          /\ items[i].current_bid \in Int
      BY <1>0, <2>1, <2>3, ItemFields DEF KnownBidders
    <3>5. items[i].current_bid <= users[items[i].highest_bidder_id]
      BY <1>0, <3>3, <3>4
    <3> QED
      BY <2>1, <2>3, <3>1, <3>2, <3>5 DEF Auction!Hammer, Auction!Nobody, NoUser
  <2> QED
    BY <1>5, <2>1, <2>2, <2>3 DEF EndAuction
<1>6. ASSUME NEW i \in DOMAIN items, NEW u \in DOMAIN users, u \in UserIds,
             NEW a \in Int, NEW auto \in BOOLEAN, a > items[i].current_bid, users[u] >= a,
             items[i].status = "Active", UNCHANGED users,
             items' = [items EXCEPT ![i] = WithBid(items[i], u, a, auto)]
      PROVE  Auction!Raise(i, u)
  <2> DEFINE jt == WithBid(items[i], u, a, auto)
  <2>1. Lots' = [Lots EXCEPT ![i] = Lot(jt)]
    BY <1>6, LotsExcept
  <2>2. /\ Lots[i].status = "Active" /\ Lots[i].price = items[i].current_bid
        /\ Lots[i] = Lot(items[i])
    BY <1>0, <1>6 DEF Lot
  <2>3. Lot(jt) = Raised(Lots[i], a, u)
    <3>1. a \in Positive
      <4>1. items[i].current_bid \in Nat \ {0}
        BY <1>0, <1>6, ItemFields
      <4>2. a \in Int /\ a > items[i].current_bid
        BY <1>6
      <4> QED
        BY <4>1, <4>2 DEF Positive
    <3>2. items[i] \in Item /\ u \in UserIds /\ auto \in BOOLEAN
      BY <1>0, <1>6
    <3>3. Lot(jt) = Raised(Lot(items[i]), a, u)
      BY <3>1, <3>2, LotWithBid
    <3> QED
      BY <2>2, <3>3
  <2>4. items[i].current_bid \in Int
    BY <1>0, ItemFields
  <2>5. a \in Lots[i].price + 1 .. users[u]
    BY <1>0, <1>6, <2>2, <2>4
  <2> QED
    BY <1>6, <2>1, <2>2, <2>3, <2>5 DEF Auction!Raise, Raised
<1>7. ASSUME NEW i \in ItemIds, NEW u \in UserIds, NEW a \in Amounts, PlaceBid(i, u, a)
      PROVE  Auction!Next
  <2>1. /\ i \in DOMAIN items /\ u \in DOMAIN users /\ a \in Int /\ FALSE \in BOOLEAN
        /\ a > items[i].current_bid /\ users[u] >= a
        /\ items[i].status = "Active" /\ UNCHANGED users
        /\ items' = [items EXCEPT ![i] = WithBid(items[i], u, a, FALSE)]
    BY <1>7 DEF PlaceBid, IsBetterBid
  <2> QED
    BY <1>0, <1>6, <2>1 DEF Auction!Next
<1>8. ASSUME NEW i \in ItemIds, NEW u \in UserIds, NEW a \in Amounts, SetAutoBid(i, u, a)
      PROVE  UNCHANGED <<users, Lots>>
  <2> DEFINE jt == [items[i] EXCEPT !.auto_bid_limits =
                      [items[i].auto_bid_limits EXCEPT ![u] = a]]
  <2>1. i \in DOMAIN items /\ UNCHANGED users /\ items' = [items EXCEPT ![i] = jt]
    BY <1>8 DEF SetAutoBid
  <2>2. Lot(jt) = Lot(items[i])
    BY <1>0, <2>1 DEF Lot, Item
  <2>3. Lots' = [Lots EXCEPT ![i] = Lots[i]]
    BY <1>0, <2>1, <2>2, LotsExcept
  <2>4. [Lots EXCEPT ![i] = Lots[i]] = Lots
    BY DEF Lots
  <2> QED
    BY <2>1, <2>3, <2>4
<1>9. ASSUME ConsiderUser PROVE Auction!Next \/ UNCHANGED <<users, Lots>>
  <2> DEFINE i == pass.item
             u == pass.user
             a == items[i].current_bid + MinBidStep
  <2>1. i \in DOMAIN items /\ u \in DOMAIN users /\ UNCHANGED users
    BY <1>0, <1>9 DEF ConsiderUser, MutexFree
  <2>2. CASE OutbidFor(i, u)
    <3>1. /\ items[i].current_bid \in Int /\ users[u] \in Int
          /\ \A v \in UserIds : items[i].auto_bid_limits[v] \in Nat
          /\ u \in UserIds
      <4>1. u \in UserIds
        BY <2>1, LenProperties DEF TypeOK, UserIds
      <4> QED
        BY <1>0, <2>1, <4>1, ItemFields
    <3>2. a \in Int /\ a > items[i].current_bid
      BY <3>1
    <3>3. users[u] >= a
      BY <2>2, <3>1, <3>2 DEF OutbidFor, CanOutbid, EffectiveLimit
    <3>4. items[i].status = "Active"
      BY <1>9 DEF ConsiderUser, PassInv
    <3> QED
      BY <1>0, <1>6, <2>1, <2>2, <3>1, <3>2, <3>3, <3>4 DEF OutbidFor, Auction!Next
  <2>3. CASE SkipOver(i, u)
    BY <2>1, <2>3 DEF SkipOver, Lots
  <2> QED
    BY <1>9, <2>2, <2>3 DEF ConsiderUser
<1>10. CASE UNCHANGED <<users, items>>
  BY <1>10 DEF Lots
<1> QED
  BY <1>0, <1>1, <1>2, <1>3, <1>4, <1>5, <1>7, <1>8, <1>9, <1>10
     DEF Next, vars, ApplyAutoBids, EndOfPass, GetUsers, GetItems, Auction!Next

\* However many users, items, limits and bids there are, the manager does what
\* an English auction does.
THEOREM Refinement == Spec => ImplementsEnglishAuction
<1>1. TypeOK /\ PassInv /\ [Next]_vars => [Auction!Next]_(Auction!lotVars)
  BY RefinementStep DEF Auction!lotVars
<1> QED
  BY <1>1, RefinementInit, TypeCorrect, PassInvariant, PTL
     DEF Spec, ImplementsEnglishAuction, Auction!Spec

=============================================================================
