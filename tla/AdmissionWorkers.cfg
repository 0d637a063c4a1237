\* A worker job and a device upload compete for one server slot.
CONSTANTS
    a = a
    b = b
    u1 = u1
    t1 = t1
    d1 = d1
    Ops = {a, b}
    WorkerOps = {a}
    Streams = {}
    Users = {u1}
    Devices = {}
    NoDevice = NoDevice
    Targets = {t1}
    Permits = {p1}
    UserOf <- SameUser
    DeviceOf <- NoDevices
    KindOf <- AllTransfers
    TargetOf <- OneTarget
    GlobalLimit <- One
    AccountLimit <- Two
    DeviceLimit <- One
    LeaseTTL = 2
    ReservationTTL = 1
    WaitingTTL = 1
    PermitTTL = 2
    HeartbeatTTL = 1
    MaxWaiting = 2
    JobLease = 2
    Withdrawable = {a}
    MaxGrants = 2
    MaxAttempts = 2
SPECIFICATION Spec
SYMMETRY Symmetry
INVARIANT
    AttemptsDoNotOverlap
