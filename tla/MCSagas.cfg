SPECIFICATION Spec

CONSTANTS
    ann = ann  bob = bob  a1 = a1  a2 = a2  a3 = a3  w1 = w1  w2 = w2  p1 = p1  p2 = p2
    Accounts = {a1, a2, a3}
    Wallets = {w1, w2}
    Products = {p1, p2}
    Clients = {ann, bob}
    Roubles = {a1, a3}
    Opening <- MCOpening
    Nobody = Nobody  NoPlace = NoPlace  NoCall = NoCall
    Requests = {r1, r2, r3}
    Calls <- MCCalls

INVARIANTS
    ClientMoneyAccountedFor
    ClosedAccountsEmptyUnlessCompensated
    ProductPaidOutOnce
    MoneyMissingOnlyAfterLostSagas
