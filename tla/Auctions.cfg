SPECIFICATION FairSpec
CONSTANTS
    MaxUsers = 2
    MaxItems = 2
    MaxBalance = 6
    Balances = {4}
    Prices = {0, 1}
    Amounts = {2, 6}
    Deltas <- GainOrLoseTwo
    MinBidStep = 2
INVARIANTS
    TypeOK
    HistoryAgrees
    AutoBidsWithinLimit
    AutoBidsMinimal
    Solvent
    MoneyConserved
PROPERTIES
    QuiescentOnRelease
    AutoBidsTerminate
    ImplementsEnglishAuction
