------------------------- MODULE MCConcurrentPipes --------------------------
(***************************************************************************)
(* Instances of ConcurrentPipes: the main programs of the examples on a    *)
(* core with the three pipes and the four events the kernels use.          *)
(***************************************************************************)
EXTENDS CheckedPipes, QueuedRun, Machine

Position == [x |-> "VECIN", y |-> "VECIN", z |-> "VECOUT"]

MCEnQueEvt    == [q \in Queue |-> EnQueEvtOf(Position[q])]
MCFreeBufEvt  == [q \in Queue |-> FreeBufEvtOf(Position[q])]
MCBufHardType == [q \in Queue |-> BufHardTypeOf(Position[q])]
MCDepth       == [q \in Queue |-> BUFFER_NUM]

MCTBufMem == GetPhyType("VECCALC")

MCEvent == {MCEnQueEvt[q] : q \in Queue} \cup {MCFreeBufEvt[q] : q \in Queue}

MCEventSrcPipe == [e \in Event |-> SrcPipeOf(e)]
MCEventDstPipe == [e \in Event |-> DstPipeOf(e)]

MCPipe == {MCEventSrcPipe[e] : e \in Event} \cup {MCEventDstPipe[e] : e \in Event}

MCHardwareSize == [m \in {"UB"} |-> 6 * ONE_BLK_SIZE]

MCGranule == UNION {{m} \X (0 .. ((HardwareSize[m] \div ONE_BLK_SIZE) - 1)) : m \in Mem}

Run(calls, blocks, tiles, length, reports) ==
  [calls |-> calls, blocks |-> blocks, tiles |-> tiles, length |-> length, reports |-> reports]

\* sync_check.cpp: four kernels on one core, two elements in one tile.
SyncCheckMain ==
  <<Run(AddUnsynced, 1, 1, 2, 3), Run(AddManualFlags, 1, 1, 2, 0),
    Run(AddQueued, 1, 1, 2, 0), Run(AddLeaky, 1, 1, 2, 1)>>

\* add_double_buffer.cpp: three tiles on one core, then several cores with
\* several tiles; add_simple.cpp: one tile per core.
DoubleMain == <<Run(AddCustom(3), 1, 3, 3, 0), Run(AddCustom(2), 2, 2, 4, 0)>>
SimpleMain == <<Run(AddSimple, 2, 1, 4, 0)>>

\* Tiles too long for local memory: InitBuffer refuses the third buffer of the
\* first two kernels and the last two buffers of the others.
CrowdedMain ==
  <<Run(AddCustom(2), 1, 2, 6, 12), Run(AddManualFlags, 1, 1, 3, 3),
    Run(AddCustom(2), 1, 2, 8, 19), Run(AddUnsynced, 1, 1, 4, 9)>>

\* A kernel that keeps an event id for itself, so its queues run out.
HoardingMain ==
  <<Run(<<Call("AllocEventID", FreeBufEvtOf("VECIN"))>> \o AddCustom(2), 1, 2, 2, 4)>>

SingleMain == SyncCheckMain \o DoubleMain \o SimpleMain \o CrowdedMain \o HoardingMain

\* The events of the examples have ids for all buffers, lead back to the
\* producers, and all of memory is watched.
ASSUME MCConcurrentPipesAssumption == Queues!Proper
=============================================================================
