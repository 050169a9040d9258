--------------------------- MODULE MCQueueMisuse ----------------------------
(***************************************************************************)
(* Instances of QueueMisuse: an input and an output queue whose rings are  *)
(* smaller than, or as large as, what the kernel asks for, and a pool with *)
(* fewer event ids than buffers.                                           *)
(***************************************************************************)
EXTENDS QueueMisuse, Machine

MCPosition == [x |-> "VECIN", z |-> "VECOUT"]

MCEnQueEvt    == [q \in Queue |-> EnQueEvtOf(MCPosition[q])]
MCFreeBufEvt  == [q \in Queue |-> FreeBufEvtOf(MCPosition[q])]
MCBufHardType == [q \in Queue |-> BufHardTypeOf(MCPosition[q])]
MCDepth       == [q \in Queue |-> IF q = "x" THEN 2 ELSE 1]

MCEvent == {MCEnQueEvt[q] : q \in Queue} \cup {MCFreeBufEvt[q] : q \in Queue}
MCEventSrcPipe == [e \in Event |-> SrcPipeOf(e)]
MCEventDstPipe == [e \in Event |-> DstPipeOf(e)]
MCPipe == {MCEventSrcPipe[e] : e \in Event} \cup {MCEventDstPipe[e] : e \in Event}

\* Room for three blocks; the kernel may ask for three buffers, for buffers of
\* one and a half blocks, or for more descriptors than there are.
MCHardwareSize == [m \in {"UB"} |-> 3 * ONE_BLK_SIZE]
MCBufLen == {ONE_BLK_SIZE, 48}

\* What calls and properties can depend on: ring entries that are not in use
\* are overwritten before they are read.
LiveQueue == [q \in Queue |-> [queue[q] EXCEPT !.ring = Published(q)]]
LiveState == <<coreVars, LiveQueue, buf, curBufSize, maxAddr, eventOccupy, destroyed, known, robbed>>
=============================================================================
