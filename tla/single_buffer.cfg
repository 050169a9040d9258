SPECIFICATION CheckedSpec
CONSTANTS
  Main <- SingleMain
  BUFFER_NUM = 1
  FLAG_MAX = 1
  HardwareSize <- MCHardwareSize
  QBUF_MAX_LEN = 6
  EVENT_ID_NUM = 2
  Queue = {"x", "y", "z"}
  EnQueEvt <- MCEnQueEvt
  FreeBufEvt <- MCFreeBufEvt
  BufHardType <- MCBufHardType
  Depth <- MCDepth
  UINT32 = 1024
  TBufMem <- MCTBufMem
  Pipe <- MCPipe
  Event <- MCEvent
  EventSrcPipe <- MCEventSrcPipe
  EventDstPipe <- MCEventDstPipe
  Granule <- MCGranule
  NoPipe = NoPipe
INVARIANTS
  TypeOK
  AsDesigned
  AcceptedOrderIsKept
  SameAsSimulated
  SimulatorIsRight
  WrongResultsAreReported
  RunAheadIsBounded
  SlicesStayInside
PROPERTIES
  ComputesTheSum
  MainEnds
