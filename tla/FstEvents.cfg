SPECIFICATION FairSpec
CONSTANTS
  Buffers <- MCBuffers
  Parameters <- MCParameters
  MaxMessages = 2
  MaxOutEvents = 1
  BufferSize = 2
  QueueCapacity = 1
  MinSamples = 3
  BlockSizes = {2}
  HostHabits = {}
INVARIANTS TypeOK OneSourcePerBlock HelpersAreNotLost
PROPERTIES EveryEventIsSent DisplayCatchesUp
