INIT MCInit
NEXT MCNext
CONSTANTS
  ChNames = {"mic"}
  ChDevices = {d1, d2}
  ChSockets = {s1, s2}
  ChMaxInflight = 1
  ChMaxSyncing = 1
  EngPeers = {d1, d2}
  EngMaxStreams = 1
  SyncPeers = {d1, d2}
  SyncMaxStreams = 3
  SyncMaxInFlight = 1
  CenEngines = {e1, e2}
  CenPeers = {"d1", "d2"}
  CenMaxInits = 2
  CenMaxOpened = 1
  CenMaxEvents = 1
  OcQueueMax = 1
  OcMaxFrames = 4
  CdCycle = 2
  CdQueueMax = 1
  CdSlots = 2
  CdMaxFrames = 6
  PipeQueueMax = 1
  PlgQueueMax = 2
INVARIANTS
  ChClosedIsForgotten
  EngStoppedHasNoStream
  EngAcceptedIsSet
  SyncStopsBelowTwo
  CenEngineKeepsPeer
  OcFramesAccounted
  CdOutputPts
  CdNoPushAfterDestroy
  PipeOkMeansFirstTwo
  PlgTaskServesItsRun
PROPERTIES
  OcIsLossyQueue
  PipeLetOnToStarted
CHECK_DEADLOCK FALSE
