SPECIFICATION AppSpec
CONSTANTS
  Threads = {}
  Callbacks = {shut, shutself, c1, c2}
  NoCallback = NoCallback
  SelfCapturing = {shutself}
  OneLoop = TRUE
  ServerMayDie = FALSE
  SendKinds = {"owned"}
  SendBuf = 2
  MaxBytes = 8
  MaxInput = 1
  MaxPending = 3
  MaxCallbacks = 2
  Shut = shut
  ShutSelf = shutself
  ChunkCbs = {c1, c2}
  NoContext = NoContext
  FileSize = 3
  ChunkSize = 2
  MaxRequests = 2
  Requests <- MixedRequests
INVARIANTS DownloadComplete FreshContext
PROPERTIES DownloadFinishes Reclaimed
