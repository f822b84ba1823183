\* A failure and the end of the contract are heard at the same time
CONSTANTS
    q1 = q1
    Request = {q1}
    Period = 2
    Grace = 1
    Bounds <- Profiles
    p1 = p1
    p2 = p2
    Client = {p1, p2}
    m1 = m1
    m2 = m2
    Member = {m1, m2}
    c1 = c1
    c2 = c2
    c3 = c3
    Checkout = {c1, c2, c3}
    BuyerOf <- Buyers
    PlanOf <- Plans
    WithCoupon = {c2, c3}
    FounderLimit = 1
    MaxRedemptions = 1
    Lifetime = 1
    LastTime = 1
    None = None
SPECIFICATION BillingSpec
PROPERTY OnlyPaymentsReopen
CHECK_DEADLOCK FALSE
