\* Two threads, a forced count Streamline accepts or refuses.
CONSTANTS
    Callers = {t1, t2}
    Requests <- MCRequests
    ForceMultiplier = 4
    Limits = {2, 3}
SPECIFICATION Spec
INVARIANTS ForceKeepsRequest SleepersUntouched
PROPERTIES LowLatencyComesOff RequestComesBack
