SPECIFICATION Spec
CONSTANTS
  Pipe <- ScalarPipes
  Event <- ScalarEvents
  EventSrcPipe <- MCEventSrcPipe
  EventDstPipe <- MCEventDstPipe
  EVENT_ID_NUM = 1
  Granule = {0, 1}
  NoPipe = NoPipe
  MaxIssued = 2
  MaxErrors = 2
  Refusals = {0,1}
  Modes = {"Off","Report"}
INVARIANTS
  NoFalseAlarm
  RaceWithWriteReported
  NobodySeesTheFuture
PROPERTY ClocksMeanHistory
CHECK_DEADLOCK FALSE
