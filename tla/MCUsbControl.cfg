SPECIFICATION FairSpec
CONSTANTS
  EP0_SIZE = 2
  Descriptors <- MCDescriptors
  Strings <- MCStrings
  DescriptorLength <- MCDescriptorLength
  Requests <- MCRequests
  HostMay = {"reset"}
INVARIANTS
  TypeOK
  NeverDeaf
  DataIntact
  AddressAgreed
PROPERTIES
  ArmedBufferKept
  TransferEnds
VIEW View
