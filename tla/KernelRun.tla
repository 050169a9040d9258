----------------------------- MODULE KernelRun ------------------------------
(***************************************************************************)
(* A main program launching example kernels on the simulator: blocks one   *)
(* after the other on a reset core, the calls of a block one after the     *)
(* other, every call with all its outcomes.  A kernel ignores what its     *)
(* calls return, so a refused one leaves it with a null tensor: a window   *)
(* of length zero at the start of UB, on which it carries on.              *)
(***************************************************************************)
EXTENDS TPipe, TensorWindow, AddKernels

CONSTANTS
  Main,         \* the launches of main(): calls, blocks, tiles, length, reports
  BUFFER_NUM,   \* buffers asked of InitBuffer for each queue
  TBufMem       \* the memory of the position the TBufs are declared with

\* A call is made on a queue, a TBuf or the tensor filled from it, or on an event.
KernelCall ==
  [op : {"InitBuffer", "InitTBuf", "Get", "AllocTensor", "EnQue", "DeQue", "FreeTensor",
         "CopyIn", "Add", "CopyOut"}, on : Queue, tile : Nat]
  \cup [op : {"AllocEventID", "ReleaseEventID", "SetFlag", "WaitFlag"}, on : Event, tile : Nat]

KernelLaunches ==
  [calls : Seq(KernelCall), blocks : Nat \ {0}, tiles : Nat \ {0}, length : Nat, reports : Nat]

\* The memories, and a tile behind whatever they hold, have 32-bit addresses.
ASSUME KernelRunAssumption ==
  /\ Main \in Seq(KernelLaunches) /\ Main # <<>>
  /\ BUFFER_NUM \in Nat
  /\ TBufMem \in Mem /\ "UB" \in Mem
  /\ \A m \in Mem, l \in DOMAIN Main :
       HardwareSize[m] + Main[l].length * ONE_BLK_SIZE + ONE_BLK_SIZE <= UINT32
  /\ {"x", "y"} \subseteq Queue
  /\ {"MTE2", "V", "MTE3"} \subseteq Pipe

VARIABLES
  launch,       \* the launch main() is at
  block,        \* its block in progress; -1 before the first
  pc,           \* the call the kernel makes next
  local,        \* local[t]: the LocalTensor variable t
  bufStart,     \* bufStart[t]: the buffer of TBuf t, or NoHandle
  eventVar      \* eventVar[e]: the id the kernel allocated for event e

runVars == <<launch, block, pc, local, bufStart, eventVar>>

\* No buffer behind it: bufferHandle == nullptr.
NoHandle   == -1
NullTensor == [handle |-> NoHandle, hard |-> "UB", address |-> 0, dataLen |-> 0]

LocalTensor == [handle : Handle \cup {NoHandle}, hard : Mem, address : Word, dataLen : Word]

\* The launches one by one: a constant TLC evaluates once.
Launches == [l \in DOMAIN Main |-> Main[l]]

Launch == Launches[launch]

Kernel == Launch.calls

FreshKernel ==
  [local    |-> [t \in Queue |-> NullTensor],
   bufStart |-> [t \in Queue |-> NoHandle],
   eventVar |-> [e \in Event |-> INVALID_TEVENTID]]

RunInit ==
  /\ CoreInit /\ PipeInit
  /\ launch = 1 /\ block = 0 /\ pc = 1
  /\ local = FreshKernel.local
  /\ bufStart = FreshKernel.bufStart
  /\ eventVar = FreshKernel.eventVar

RunTypeOK ==
  /\ CoreTypeOK /\ PipeTypeOK
  /\ launch \in DOMAIN Main
  /\ block \in -1 .. (Launch.blocks - 1)
  /\ pc \in 1 .. (Len(Kernel) + 1)
  /\ local \in [Queue -> LocalTensor]
  /\ bufStart \in [Queue -> Handle \cup {NoHandle}]
  /\ eventVar \in [Event -> TEventID]

-----------------------------------------------------------------------------
(* The share of a block and of a tile.  Lengths are in elements, and an    *)
(* element stands for the eight floats of one 32-byte block.               *)

BlockLength == Launch.length \div Launch.blocks
TileLength  == BlockLength \div Launch.tiles
TileBytes   == TileLength * ONE_BLK_SIZE

\* Mutant: every core works on the first core's slice.
GmOffsetSameBlock(i) == i * TileLength

\* Where tile i of this block starts in global memory.
GmOffset(i) == block * BlockLength + i * TileLength

\* The granules of a tile-sized access to tensor t; those past the end of the
\* memory are skipped.
Window(t) == Reach(t, TileBytes) \cap Granule

Overflow(t) == OneIf(~ Fits(t, TileBytes))

Tensor(h) == IF h = NoHandle THEN NullTensor
             ELSE [handle |-> h, hard |-> buf[h].hard, address |-> buf[h].address,
                   dataLen |-> buf[h].dataLen]

-----------------------------------------------------------------------------
(* The calls.                                                              *)

Get(t, h) == local' = [local EXCEPT ![t] = Tensor(h)]

DoInitBuffer(q) ==
  /\ InitBuffer(q, BUFFER_NUM, TileBytes) \/ InitBufferRefused(q, BUFFER_NUM, TileBytes)
  /\ UNCHANGED <<local, bufStart, eventVar>>

DoInitTBuf(t) ==
  /\ \/ InitTBuf(TBufMem, TileBytes) /\ bufStart' = [bufStart EXCEPT ![t] = curBufSize]
     \/ InitTBufRefused(TBufMem, TileBytes) /\ UNCHANGED bufStart
  /\ UNCHANGED <<local, eventVar>>

DoGet(t) == Get(t, bufStart[t]) /\ UNCHANGED <<coreVars, pipeVars, bufStart, eventVar>>

DoAllocTensor(q) ==
  /\ \/ AllocTensor(q) /\ Get(q, IdleSlot(q))
     \/ AllocTensorRefused(q) /\ Get(q, NoHandle)
  /\ UNCHANGED <<bufStart, eventVar>>

DoEnQue(q) ==
  LET h == local[q].handle
  IN  /\ IF h = NoHandle THEN UNCHANGED <<coreVars, pipeVars>>
                         ELSE EnQue(q, h) \/ EnQueRefused(q, h)
      /\ UNCHANGED <<local, bufStart, eventVar>>

DoDeQue(q) ==
  /\ \/ (DeQue(q) \/ DeQueWrongState(q)) /\ Get(q, OldestSlot(q))
     \/ DeQueEmpty(q) /\ Get(q, NoHandle)
  /\ UNCHANGED <<bufStart, eventVar>>

DoFreeTensor(q) ==
  LET h == local[q].handle
  IN  /\ IF h = NoHandle THEN UNCHANGED <<coreVars, pipeVars>>
                         ELSE FreeTensor(q, h) \/ DoubleFree(q, h)
      /\ UNCHANGED <<local, bufStart, eventVar>>

DoCopyIn(t)  == /\ Instruction("MTE2", {}, {}, Window(local[t]), Overflow(local[t]))
                /\ UNCHANGED <<pipeVars, local, bufStart, eventVar>>
DoAdd(t)     == /\ Instruction("V", Window(local["x"]), Window(local["y"]), Window(local[t]),
                               Overflow(local[t]))
                /\ UNCHANGED <<pipeVars, local, bufStart, eventVar>>
DoCopyOut(t) == /\ Instruction("MTE3", Window(local[t]), {}, {}, Overflow(local[t]))
                /\ UNCHANGED <<pipeVars, local, bufStart, eventVar>>

DoAllocEventID(e) ==
  /\ eventVar' = [eventVar EXCEPT ![e] = NextEventID(e)]
  /\ eventOccupy' = OccupyAfterAlloc(e)
  /\ ReportSyncErrors(AllocEventIDErrors(e))
  /\ UNCHANGED <<clock, view, flags, gran, checkMode, buf, curBufSize, maxAddr, destroyed,
                 queue, local, bufStart>>

DoReleaseEventID(e) ==
  /\ eventOccupy' = OccupyAfterRelease(e, eventVar[e])
  /\ UNCHANGED <<coreVars, buf, curBufSize, maxAddr, destroyed, queue, local, bufStart, eventVar>>

DoSetFlag(e)  == SetFlag(e, eventVar[e]) /\ UNCHANGED <<pipeVars, local, bufStart, eventVar>>
DoWaitFlag(e) == WaitFlag(e, eventVar[e]) /\ UNCHANGED <<pipeVars, local, bufStart, eventVar>>

Do(c) ==
  \/ c.op = "InitBuffer"     /\ DoInitBuffer(c.on)
  \/ c.op = "InitTBuf"       /\ DoInitTBuf(c.on)
  \/ c.op = "Get"            /\ DoGet(c.on)
  \/ c.op = "AllocTensor"    /\ DoAllocTensor(c.on)
  \/ c.op = "EnQue"          /\ DoEnQue(c.on)
  \/ c.op = "DeQue"          /\ DoDeQue(c.on)
  \/ c.op = "FreeTensor"     /\ DoFreeTensor(c.on)
  \/ c.op = "CopyIn"         /\ DoCopyIn(c.on)
  \/ c.op = "Add"            /\ DoAdd(c.on)
  \/ c.op = "CopyOut"        /\ DoCopyOut(c.on)
  \/ c.op = "AllocEventID"   /\ DoAllocEventID(c.on)
  \/ c.op = "ReleaseEventID" /\ DoReleaseEventID(c.on)
  \/ c.op = "SetFlag"        /\ DoSetFlag(c.on)
  \/ c.op = "WaitFlag"       /\ DoWaitFlag(c.on)

-----------------------------------------------------------------------------
(* Kernels, blocks and launches.                                           *)

InProgress == ~ destroyed /\ pc <= Len(Kernel)

NextCall ==
  /\ InProgress
  /\ Do(Kernel[pc])
  /\ pc' = pc + 1
  /\ UNCHANGED <<launch, block>>

\* The kernel returns: its TPipe goes out of scope.
Return == pc = Len(Kernel) + 1 /\ Destroy /\ UNCHANGED runVars

NextBlock ==
  /\ block + 1 < Launch.blocks
  /\ NextKernel
  /\ block' = block + 1
  /\ pc' = 1
  /\ local' = FreshKernel.local
  /\ bufStart' = FreshKernel.bufStart
  /\ eventVar' = FreshKernel.eventVar
  /\ UNCHANGED launch

LaunchOver == destroyed /\ block = Launch.blocks - 1

\* Run clears the count of the launch before.
NextLaunch ==
  /\ LaunchOver
  /\ launch < Len(Main)
  /\ launch' = launch + 1
  /\ block' = -1
  /\ pc' = 1
  /\ ClearSyncErrors
  /\ UNCHANGED <<pipeVars, local, bufStart, eventVar>>

MainOver == LaunchOver /\ launch = Len(Main)
=============================================================================
