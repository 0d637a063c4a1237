\* Two playbacks on one device, which may play only one of them, switching among
\* three recordings.
CONSTANTS
    a = a
    b = b
    u1 = u1
    t1 = t1
    d1 = d1
    Ops = {a, b}
    WorkerOps = {}
    Streams = {a, b}
    Users = {u1}
    Devices = {d1}
    NoDevice = NoDevice
    Targets = {t1, t2, t3}
    Permits = {p1}
    UserOf <- SameUser
    DeviceOf <- OneDevice
    KindOf <- AllPlaybacks
    TargetOf <- OneTarget
    GlobalLimit <- Two
    AccountLimit <- Two
    DeviceLimit <- One
    LeaseTTL = 2
    ReservationTTL = 1
    WaitingTTL = 1
    PermitTTL = 1
    HeartbeatTTL = 1
    MaxWaiting = 2
    JobLease = 1
    Withdrawable = {}
    MaxGrants = 2
    MaxAttempts = 0
SPECIFICATION Spec
SYMMETRY PlaybackSymmetry
INVARIANTS
    CapacityNeverExceeded
    TwoRecordingsPerPlayback
