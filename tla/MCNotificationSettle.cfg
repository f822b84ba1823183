\* One worker that may crash, LINE switched off by the deployment, one operator
CONSTANTS
    w1 = w1
    Worker = {w1}
    a1 = a1
    Admin = {a1}
    e1 = e1
    Event = {e1}
    u1 = u1
    User = {u1}
    Channel = {"LINE", "EMAIL"}
    OffTransport = {"LINE"}
    Addressee <- Personal
    AttemptLimits = {2}
    BaseDelay = 1
    StaleTicks = 1
    WindowTicks = 2
    KeyTicks = 0
    BatchTicks = 1
    MaxManual = 1
    MaxCrashes = 1
    None = None
SPECIFICATION FairSpec
PROPERTIES EveryDeliverySettles
