\* Two threads hand over every shape of blob while the worker indexes; CUDA may not answer.
SPECIFICATION Spec
CONSTANTS
    t1 = t1  t2 = t2  gpu = gpu  game = game  bundled = bundled
    native = native  packed = packed  mixed = mixed  orphan = orphan  old = old  two = two
    other_if = other_if  runs = runs  broken = broken  text = text  probe = probe
    Threads = {t1, t2}
    Adapters = {gpu}
    Modules <- MCModules
    Redirected = bundled
    NoModule = NoModule
    NoArch = NoArch
    Name <- MCName
    RuntimeName = "nvngx_dlssg.dll"
    Arch <- MCArch
    Impl <- GA102
    Configurations <- MCSettings
    Blobs <- MCBlobs
    Shape <- AllShapes
    NoBlob = NoBlob
    NoTarget = NoTarget
    DeviceSm = 86
SYMMETRY Interchangeable
INVARIANTS
    DriverGetsRunnable
    TargetKnown
    RetryDiffers
    AnsweredFromIndex
