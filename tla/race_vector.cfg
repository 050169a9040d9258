SPECIFICATION Spec
CONSTANTS
  Pipe <- VectorPipes
  Event <- VectorEvents
  EventSrcPipe <- MCEventSrcPipe
  EventDstPipe <- MCEventDstPipe
  EVENT_ID_NUM = 1
  Granule = {0}
  NoPipe = NoPipe
  MaxIssued = 3
  MaxErrors = 1
  Refusals = {0}
  Modes = {"Report"}
INVARIANTS
  TypeOK
  NoFalseAlarm
  RaceWithWriteReported
  RaceWithLastReadReported
CHECK_DEADLOCK FALSE
