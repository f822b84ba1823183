\* Two legs, one horse, two members, two requests and the worker
CONSTANTS
    q1 = q1
    q2 = q2
    Request = {q1, q2}
    Worker = worker
    m1 = m1
    m2 = m2
    Member = {m1, m2}
    l1 = l1
    l2 = l2
    Leg = {l1, l2}
    h1 = h1
    Horse = {h1}
    DayStart = 2
    FirstRace = 3
    DayEnd = 4
    Limit = 1
    Win5Bounds <- Profiles
SPECIFICATION FairSpec
INVARIANTS StartsOnce RefundBookedOnce
PROPERTIES PendingStarts EvaluationsAreReviewed
CHECK_DEADLOCK FALSE
