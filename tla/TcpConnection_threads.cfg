SPECIFICATION Spec
CONSTANTS
  Threads = {t1}
  Callbacks = {}
  NoCallback = NoCallback
  SelfCapturing = {}
  OneLoop = FALSE
  ServerMayDie = TRUE
  SendKinds = {"owned", "view"}
  SendBuf = 1
  MaxBytes = 2
  MaxInput = 0
  MaxPending = 2
  MaxCallbacks = 1
INVARIANTS DeliveredInOrder WriteInterest FinAfterData
CHECK_DEADLOCK FALSE
