\* One person with two LINE identities, invited twice
CONSTANTS
    User = {"u1", "u2", "u3", "u4"}
    Subject = {s1, s2}
    SessionId = {i1, i2}
    Request = {q1, q2}
    NoOne = "no one"
    Bounds <- Profiles
SYMMETRY Symmetric
SPECIFICATION Spec
INVARIANT OneReferralPerIdentity
CHECK_DEADLOCK FALSE
