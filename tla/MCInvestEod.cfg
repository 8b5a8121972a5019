SPECIFICATION FairSpec

CONSTANTS
    ann = ann  p1 = p1  p2 = p2  s1 = s1  d1 = d1  b1 = b1  c1 = c1  t1 = t1
    Accounts = {1, 2}
    Owner <- MCOwner
    Opening <- MCOpening
    AutoPayments = {}
    Plan <- MCPlan
    Fee <- MCFee
    Salaried = {1, 2}
    Salary = 1
    FeeDays = {1}
    SalaryDays = {2}
    LastDay = 2
    Workers = {w1}
    Transfers = {t1}
    Route <- MCRouteBack
    Returners = {i1}
    Nobody = Nobody
    NoRow = NoRow
    Savings = {s1}
    Deposits = {d1}
    Brokers = {b1}
    Holder <- MCHolder
    Stake <- MCStake
    FirstDate <- MCFirst
    Matures <- MCMatures
    Interest = 1
    Market <- MCMarket
    Month = 1
    Seniority <- MCSeniority
    InvestWorkers = {i1}
    Closers = {c1}
    ClosesInto <- MCClosesInto

INVARIANTS
    
    InterestOncePerDate

CHECK_DEADLOCK FALSE
