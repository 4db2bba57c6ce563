\* Two threads load and free the plugin while the worker scans, and another DLL comes
\* and goes at the same two addresses; fair scheduling.
SPECIFICATION FairSpec
CONSTANTS
    Threads = {t1, t2}
    Handles = {h1, h2}
    Files = {plugin, other}
    Plugins = {plugin}
    NoFile = NoFile
    NoHandle = NoHandle
    Worker = Worker
INVARIANTS
    OnePatcher
    PatchedImagesStay
    NoStaleRecord
PROPERTY PluginsPatched
