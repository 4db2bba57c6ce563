\* Two threads, two device handles, each used again once.
CONSTANTS
    t1 = t1
    t2 = t2
    d1 = d1
    d2 = d2
    Threads = {t1, t2}
    Devices = {d1, d2}
    AnyDevice = AnyDevice
    Trampoline = Trampoline
    NoFunction = NoFunction
    Gpu = "Supported"
    PacingFix = TRUE
    MaxSerial = 1
SPECIFICATION ResolverSpec
SYMMETRY Interchangeable
CHECK_DEADLOCK FALSE
INVARIANTS NoEmptyAnswer PairAgrees DeviceDispatch
