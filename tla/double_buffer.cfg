SPECIFICATION CheckedSpec
CONSTANTS
  Main <- DoubleMain
  BUFFER_NUM = 2
  FLAG_MAX = 2
  HardwareSize <- MCHardwareSize
  QBUF_MAX_LEN = 6
  EVENT_ID_NUM = 4
  Queue = {"x", "y", "z"}
  EnQueEvt <- MCEnQueEvt
  FreeBufEvt <- MCFreeBufEvt
  BufHardType <- MCBufHardType
  Depth <- MCDepth
  UINT32 = 1024
  TBufMem <- MCTBufMem
  Pipe <- MCPipe
  Event <- MCEvent
  EventSrcPipe <- MCEventSrcPipe
  EventDstPipe <- MCEventDstPipe
  Granule <- MCGranule
  NoPipe = NoPipe
INVARIANTS
  PlaysByTheRules
  SimulatorIsRight
  RunAheadIsBounded
  PipesMoveOn
  RaisesKept
PROPERTIES
  ComputesTheSum
  ActsAsQueueKernel
