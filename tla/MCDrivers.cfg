SPECIFICATION FairSpec
CONSTANTS
  Numbers = 4
  CallerMay = {}
  HalfRange = 4
  FastestBaud = 3
  Bauds = {3, 4}
  Counts = {0, 2}
  Waits <- MCWaits
  MaxLag = 1
  Clock = 24
  Frequencies = {1, 3, 5}
  DutyUnits = 3
  Prescalers = {0, 1}
  MaxPeriod <- MCMaxPeriod
  SetAgain = {"TC3"}
  BitOr <- MCOr
  Channels = {0, 1}
  Blocks <- MCBlocks
  DmaCallers = {"process"}
  DmaMay = {}
INVARIANTS
  TypeOK
  SentInOrder
  PeriodAsAsked
  DutyAsAsked
  BeatsAsAsked
  CompleteIsHonest
PROPERTIES
  ReadInOrder
  TimeoutHonest
  CommandAnswered
  CallEnds
CONSTRAINT OneAtATime
