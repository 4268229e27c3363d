SPECIFICATION FairSpec
CONSTANTS
    Threads = {}
    Callbacks = {cb}
    NoCallback = NoCallback
    SelfCapturing = {}
    OneLoop = FALSE
    ServerMayDie = FALSE
    SendKinds = {"owned"}
    SendBuf = 2
    MaxBytes = 4
    MaxInput = 1
    MaxPending = 3
    MaxCallbacks = 2
INVARIANTS NoAbort DestroyedLast
PROPERTIES CallbackProtocol ShutdownFinishes PeerCloseFinishes
