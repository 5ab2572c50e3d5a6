SPECIFICATION FairSpec
CONSTANTS
  main = main
  p1 = p1
  p2 = p2
  f = f
  Processes = {main, p1}
  MainProcess = main
  NoProcess = NoProcess
  RTOS_MAX_PROCESS_COUNT = 3
  HalfRange = 2
  Flags = {f}
  FlagValues = {1}
  Waits <- LiveWaits
  DelayTicks = {1}
  PreemptProcesses = {}
  MaxDelayLag = 1
  MaxReadyLag = 9
  MaxWaitLag = 9
PROPERTIES
  NewProcessStarts
VIEW View
