\* Two processes at a time, under four process ids, share a folder that is to keep two logs.
SPECIFICATION Spec
CONSTANTS
    Processes = {p1, p2}
    Pids = {a, b, c, d}
    NoPid = NoPid
    Folders <- MCFolders
    RealDll = "winmm.dll"
    Number <- MCNumber
    Items <- MCItems
    kKeptLogs = 2
SYMMETRY Interchangeable
INVARIANTS
    
    NothingSilentlyDropped
    NewestKept
    LogsBounded
