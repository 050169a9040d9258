--------------------------- MODULE MCQueueKernel ----------------------------
(***************************************************************************)
(* Instances of QueueKernel.  The queues are named after the positions     *)
(* they are declared with; Machine gives their events and their memory.    *)
(***************************************************************************)
EXTENDS QueueKernel, Machine

\* Two input queues, which share their events, and an output queue.
MCPosition == [x |-> "VECIN", y |-> "VECIN", z |-> "VECOUT"]

MCEnQueEvt    == [q \in Queue |-> EnQueEvtOf(MCPosition[q])]
MCFreeBufEvt  == [q \in Queue |-> FreeBufEvtOf(MCPosition[q])]
MCBufHardType == [q \in Queue |-> BufHardTypeOf(MCPosition[q])]

MCEvent == {MCEnQueEvt[q] : q \in Queue} \cup {MCFreeBufEvt[q] : q \in Queue}

MCEventSrcPipe == [e \in Event |-> SrcPipeOf(e)]
MCEventDstPipe == [e \in Event |-> DstPipeOf(e)]

MCPipe == {MCEventSrcPipe[e] : e \in Event} \cup {MCEventDstPipe[e] : e \in Event}

MCHardwareSize == [m \in {"UB"} |-> 3 * ONE_BLK_SIZE]
MCGranule == UNION {{m} \X (0 .. ((HardwareSize[m] \div ONE_BLK_SIZE) - 1)) : m \in Mem}

OneBlock == [q \in Queue |-> {ONE_BLK_SIZE}]
One      == [q \in Queue |-> 1]
Two      == [q \in Queue |-> 2]
Three    == [q \in Queue |-> 3]

ASSUME MCQueueKernelAssumption == Proper

\* What calls and properties can depend on: the snapshot of a lowered flag is
\* never read, and overwritten when the flag is raised again.
LiveFlags == [e \in Event |-> [id \in EventId |->
                IF flags[e][id].pending THEN flags[e][id] ELSE Lowered]]
LiveState == <<clock, view, LiveFlags, gran, checkMode, syncErrors, pipeVars, kernelVars>>
=============================================================================
