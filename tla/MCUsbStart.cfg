SPECIFICATION FairSpec
CONSTANTS
  EP0_SIZE = 2
  Descriptors <- MCDescriptors
  Strings <- MCStrings
  DescriptorLength <- MCDescriptorLength
  Requests <- FewRequests
  HostMay = {"reset", "early"}
PROPERTIES
  ResetHandled
VIEW View
