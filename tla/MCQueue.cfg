SPECIFICATION Spec
CONSTANTS
  main = main
  p1 = p1
  p2 = p2
  f = f
  Processes = {main, p1, p2}
  MainProcess = main
  NoProcess = NoProcess
  RTOS_MAX_PROCESS_COUNT = 4
  HalfRange = 2
  Keys = {0, 1, 2}
  Flags = {f}
  FlagValues = {0, 1}
  Waits <- KernelWaits
  DelayTicks = {1}
  PreemptProcesses = {}
  MaxDelayLag = 1
  MaxReadyLag = 1
  MaxWaitLag = 1
INVARIANTS
  TypeOK
  QueueSound
  QueuedRunnable
  EarliestDeadlineFirst
  MaskedOnlyByRefusal
  InsertionAgrees
  RemovalAgrees
  RemovalKeepsOthers
PROPERTIES
  JoinMeansFinished
  ImplementsApi
VIEW View
