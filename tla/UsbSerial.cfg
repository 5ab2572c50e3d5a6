SPECIFICATION FairSpec
CONSTANTS
  USB_SERIAL_BUFFER_SIZE = 2
  Numbers = 3
  AppMay = {}
  HostMay = {"reset"}
INVARIANTS
  TypeOK
  ReceivedOnce
  SentOnce
PROPERTIES
  ArrivalReported
  SendEnds
  HostMaySendAgain
  ImplementsPipe
