SPECIFICATION FairSpec

CONSTANTS
    ann = ann  p1 = p1  p2 = p2  s1 = s1  d1 = d1  b1 = b1  c1 = c1  t1 = t1
    Accounts = {1, 2}
    Owner <- MCOwner
    Opening <- MCOpening
    AutoPayments = {p1, p2}
    Plan <- MCPlan
    Fee <- MCFee
    Salaried = {1, 2}
    Salary = 1
    FeeDays = {1}
    SalaryDays = {2}
    LastDay = 2
    Workers = {w1, w2}
    Transfers = {t1}
    Route <- MCRoute
    Returners = {}
    Nobody = Nobody
    NoRow = NoRow
    Savings = {}
    Deposits = {}
    Brokers = {}
    Holder <- MCHolder
    Stake <- MCStake
    FirstDate <- MCFirst
    Matures <- MCMatures
    Interest = 1
    Market <- MCMarket
    Month = 1
    Seniority <- MCSeniority
    InvestWorkers = {}
    Closers = {}
    ClosesInto <- MCClosesInto

INVARIANTS
    ChargedOnce

PROPERTIES
    RunsEnd

CHECK_DEADLOCK FALSE
