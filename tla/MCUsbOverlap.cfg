SPECIFICATION Spec
CONSTANTS
  EP0_SIZE = 2
  Descriptors <- MCDescriptors
  Strings <- MCStrings
  DescriptorLength <- MCDescriptorLength
  Requests <- FewRequests
  HostMay = {"overlap"}
PROPERTIES
  ArmedBufferKept
VIEW View
