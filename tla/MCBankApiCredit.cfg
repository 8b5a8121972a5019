SPECIFICATION Spec

CONSTANTS
    ann = ann  bob = bob  c1 = c1  c2 = c2  k1 = k1
    Accounts <- MCAccounts
    Cards <- MCCards
    Clients <- MCClients
    Keys <- MCKeys
    Opening <- MCOpening
    Owner <- MCOwner
    Currency <- MCCurrency
    CreatedAt <- MCCreatedAt
    NoAccount = NoAccount  NoKey = NoKey  NoOne = NoOne
    NoRow = NoRow  NoCall = NoCall  NoId = NoId
    Requests = {r1, r2}
    Calls <- MCCreditCalls

INVARIANTS
    BalancesMatchHistory
