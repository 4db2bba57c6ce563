\* Two threads load and free the game's runtime at an address other DLLs use too, while the
\* worker scans.  [Runtime] Mode=Bundled: loads of the game's runtime are answered with
\* another file, which no scan finds by its name.
SPECIFICATION FairSpec
CONSTANTS
    Threads = {t1, t2}
    Handles = {h1}
    Files = {game, bundled, other}
    RuntimeNamed = {game}
    Providers = {game, bundled}
    Redirect = bundled
    NoFile = NoFile
    NoHandle = NoHandle
    Worker = Worker
    Nobody = Nobody
INVARIANTS
    RecordsArePinned
    OnlyRuntimesTouched
    UnlockedOnce
    LoadKeepsItsRuntime
    SomeLoadUnlocks
PROPERTIES
    ImplementsLifecycle
    RuntimesIndexed
    DeferredRuntimesUnlocked
