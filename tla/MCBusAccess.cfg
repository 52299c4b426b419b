SPECIFICATION AccessSpec
CONSTANTS
  Sizes <- MCSizes
  Uniform = TRUE
  Addresses <- MCAddresses
  ROM <- MCROM
  Pages <- MCPages
  Ports <- MCPorts
  LowByteOnly <- MCLowByteOnly
  Bytes <- MCBytes
  Images <- MCImages
  Masks <- MCMasks
  Masked <- MCMasked
  Delays <- MCDelays
  Idles <- MCIdles
  Accesses = 2
  Longest = 5
  Frame = 2
  IntMax = 11
  Hosts <- MCHosts
  KeepsFrame = TRUE
  KeepsBuffers = TRUE
INVARIANTS
  LookupsInRange
  IndexInTable
PROPERTY
  MemorySpec
