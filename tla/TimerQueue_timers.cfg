CONSTANTS
    Threads = {t1}
    Addrs = {a1, a2}
    Delays = {2}
    Intervals = {1}
    MaxTime = 2
    MaxTimers = 3
    MaxPending = 1
    NoTimer = NoTimer
SPECIFICATION Spec
INVARIANTS SetsAgree Armed
PROPERTIES CancelIsFinal TimerFires
