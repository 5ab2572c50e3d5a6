SPECIFICATION Spec
CONSTANTS
  main = main
  p1 = p1
  p2 = p2
  f = f
  Processes = {main, p1}
  MainProcess = main
  NoProcess = NoProcess
  RTOS_MAX_PROCESS_COUNT = 3
  HalfRange = 4
  Flags = {f}
  FlagValues = {0, 1}
  Waits <- LiveWaits
  DelayTicks = {1, 5}
  PreemptProcesses = {}
  MaxDelayLag = 9
  MaxReadyLag = 9
  MaxWaitLag = 9
INVARIANTS
  DelayAtLeast
VIEW View
