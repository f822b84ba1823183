\* Two operators and one worker
CONSTANTS
    w1 = w1
    Worker = {w1}
    a1 = a1
    a2 = a2
    Admin = {a1, a2}
    e1 = e1
    Event = {e1}
    u1 = u1
    User = {u1}
    Channel = {"LINE"}
    OffTransport = {}
    Addressee <- Broadcast
    AttemptLimits = {1}
    BaseDelay = 1
    StaleTicks = 1
    WindowTicks = 2
    KeyTicks = 0
    BatchTicks = 0
    MaxManual = 1
    MaxCrashes = 0
    None = None
SPECIFICATION Spec
PROPERTY SentIsFinal
SYMMETRY Interchangeable
