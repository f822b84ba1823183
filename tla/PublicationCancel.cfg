\* A worker and a cancellation of the schedule that it publishes
CONSTANTS
    s1 = s1
    Schedule = {s1}
    w1 = w1
    w2 = w2
    Worker = {w1, w2}
    q1 = q1
    q2 = q2
    Request = {q1, q2}
    u1 = u1
    Staff = {u1}
    LastTime = 2
    LastRevision = 2
    LastVersion = 1
    None = None
SPECIFICATION Spec
INVARIANT CancelledIsUnpublished
CHECK_DEADLOCK FALSE
