SPECIFICATION Spec
CONSTANTS
    p1 = p1
    p2 = p2
    b1 = b1
    Kind = {"SINGLE", "CROWDFUNDED"}
    Payment = {p1, p2}
    Price <- MCPrice
    Bill = {b1}
    Total <- MCTotal
    h1 = h1
    h2 = h2
    Route = {h1}
    Delivery <- MCDelivery
    Finance = fin
    MaxLoad <- MCLoad
INVARIANTS LedgerBalances MoneyOut RefundsKnown
PROPERTIES FrozenStays ObligationsEnd
CHECK_DEADLOCK FALSE
