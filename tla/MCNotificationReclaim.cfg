\* Two workers whose batches may outlive their leases, a changing limit of attempts
CONSTANTS
    w1 = w1
    w2 = w2
    Worker = {w1, w2}
    a1 = a1
    Admin = {a1}
    e1 = e1
    Event = {e1}
    u1 = u1
    User = {u1}
    Channel = {"LINE"}
    OffTransport = {}
    Addressee <- Broadcast
    AttemptLimits = {1, 2}
    BaseDelay = 1
    StaleTicks = 1
    WindowTicks = 2
    KeyTicks = 2
    BatchTicks = 1
    MaxManual = 0
    MaxCrashes = 1
    None = None
SPECIFICATION Spec
INVARIANTS AttemptHistory ResendsEndInTime
SYMMETRY Interchangeable
