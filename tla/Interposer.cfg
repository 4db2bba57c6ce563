\* Two threads, a feature more than a table has slots, and a plugin that is loaded again;
\* slIsFeatureLoaded is hooked but not asked, as its table is one of its own.
CONSTANTS
    t1 = t1  t2 = t2
    f1 = f1  f2 = f2  f3 = f3
    Threads = {t1, t2}
    Questions = {"slIsFeatureSupported"}
    Features = {f1, f2, f3}
    Answers = {"yes", "no"}
    kTrackedFeatures = 2
    kEmptySlot = "empty"
    NoAnswer = "none"
    Exports <- MCExports
    GetFunction = "slGetFeatureFunction"
    Functions = {"first", "second"}
    HookSetOptions = "HookSetOptions"
    Nothing = "nothing"
SPECIFICATION InterposerSpec
INVARIANT WrapperReachesPlugin
SYMMETRY Symmetric
PROPERTY ReportsChanges
