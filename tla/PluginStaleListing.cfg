\* The worker lists a plugin, which is unmapped and loaded again at its address.
SPECIFICATION Spec
CONSTANTS
    Threads = {t1}
    Handles = {h1}
    Files = {plugin}
    Plugins = {plugin}
    NoFile = NoFile
    NoHandle = NoHandle
    Worker = Worker
INVARIANT LoadKeepsItsPlugin
