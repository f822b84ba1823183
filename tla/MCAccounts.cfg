\* Four accounts, two LINE identities, two requests at a time
CONSTANTS
    User = {"u1", "u2", "u3", "u4"}
    Subject = {s1, s2}
    SessionId = {i1, i2}
    Request = {q1, q2}
    NoOne = "no one"
    Bounds <- Profiles
SYMMETRY Symmetric
SPECIFICATION Spec
INVARIANTS SteppedUpIsCurrent EveryoneCanLogIn InvitedOnce
PROPERTY ContinuityKept
CHECK_DEADLOCK FALSE
