\* Two loads of one runtime overlap: the one that did not claim it returns first.
SPECIFICATION Spec
CONSTANTS
    Threads = {t1, t2}
    Handles = {h1}
    Files = {game}
    RuntimeNamed = {game}
    Providers = {game}
    Redirect = NoFile
    NoFile = NoFile
    NoHandle = NoHandle
    Worker = Worker
    Nobody = Nobody
INVARIANT UnlockedBeforeReturn
