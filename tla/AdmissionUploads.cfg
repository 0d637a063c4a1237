\* Two uploads of one account to one target, with room for both: children, targets,
\* activations, and that capacity comes back.
CONSTANTS
    a = a
    b = b
    u1 = u1
    t1 = t1
    d1 = d1
    Ops = {a, b}
    WorkerOps = {}
    Streams = {}
    Users = {u1}
    Devices = {}
    NoDevice = NoDevice
    Targets = {t1}
    Permits = {p1, p2}
    UserOf <- SameUser
    DeviceOf <- NoDevices
    KindOf <- AllTransfers
    TargetOf <- OneTarget
    GlobalLimit <- Two
    AccountLimit <- Two
    DeviceLimit <- One
    LeaseTTL = 1
    ReservationTTL = 1
    WaitingTTL = 1
    PermitTTL = 1
    HeartbeatTTL = 1
    MaxWaiting = 2
    JobLease = 1
    Withdrawable = {}
    MaxGrants = 2
    MaxAttempts = 0
SPECIFICATION FairSpec
INVARIANTS
    TypeOK
    ChildrenAreCharged
    OneWriterPerTarget
    ActivationsDoNotOverlap
PROPERTY
    SpentCapacityReturns
