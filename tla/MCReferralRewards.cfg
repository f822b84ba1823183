\* Two requests at a time; two referrals are enough for the milestone, a third
\* re-reaches it
CONSTANTS
    s1 = s1
    s2 = s2
    Session = {s1, s2}
    r1 = r1
    r2 = r2
    r3 = r3
    Referral = {r1, r2, r3}
    m1 = m1
    g1 = g1
    g2 = g2
    Claim = {m1, g1, g2}
    VersionOf <- Versions
    Granting = {1, 2}
    LastVersion = 2
    Kind <- KindOf
    Required <- Takes
    Validity <- OneDay
    LastDay = 2
    None = None
SPECIFICATION Spec
SYMMETRY Interchangeable
INVARIANTS UsedOnce UnusedIsEarned EarnedIsThere
PROPERTY ExpiredForGood
CHECK_DEADLOCK FALSE
