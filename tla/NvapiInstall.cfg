\* NVAPI is hooked, and fails to be, while two threads query an Ampere GPU and one that is
\* never called Ada.
SPECIFICATION InstallSpec
CONSTANTS
    t1 = t1  t2 = t2  gpu1 = gpu1  gpu2 = gpu2
    runtime = runtime  redirected = redirected
    Threads = {t1, t2}
    Adapters = {gpu1, gpu2}
    Modules = {runtime, redirected}
    Redirected = redirected
    NoModule = NoModule
    NoArch = NoArch
    Name <- MCName
    RuntimeName = "nvngx_dlssg.dll"
    Arch <- WithTuring
    Impl <- MCImpl
    Configurations <- MCConfigurations
    Interfaces <- MCInterfaces
    ScgPriority = 2
    kNvapiAttempts = 2
SYMMETRY Interchangeable
INVARIANTS
    ActiveBeforeTold
    RuntimesToldAda
    
    OnlyBrokenBypassed
    StartLeavesArchHooked
