INIT MCInit
NEXT MCNext
CONSTANTS
  IpcDescriptors <- MCIpcDescriptors
  IpcMaxDescriptors = 2
  IpcQueueBound = 1
  KitThreads = {t1}
  KitListeners = {"l1"}
  KitEngines = {"e1", "e2"}
  KitBaseEngine = "e1"
  KitMaxListeners = 1
  KitRestarts = 1
  KitCopies = 1
  RsOwn = {"o1", "o2"}
  RsPeers = {"p1"}
  RsValues = {"v1", "v2"}
  RsMaxChanges = 1
  RsMaxTries = 2
  RsMaxEvents = 2
  HdfTypes = {"audio"}
  HdfClients = {"c1", "c2"}
  HdfMaxUses = 2
  HdfMaxOps = 2
  HdfMaxDeaths = 1
  LdTypes = {"audio", "camera"}
  LdKinds = {"source", "sink"}
  LdFiles <- MCLdFiles
  EpRetries = 3
  EpGens = 2
  BzMics = {"m1"}
  BzCams = {"c1"}
  LlTypes = {"audio", "camera"}
  LlMaxMessages = 6
INVARIANTS
  IpcRoundTrip
  KitListenersSurviveRestart
  RsOfflineIsForgotten
  RsReleasedStaysClosed
  HdfHeldKeepsService
  LdSupportedIsVersioned
  EpEnabledComplete
  BzIdleFreesMemory
  LlOffWhenUnused
CHECK_DEADLOCK FALSE
