----------------------------- MODULE QueuedRun ------------------------------
(***************************************************************************)
(* Programs whose kernels use their queues and nothing else to order what  *)
(* they do.  PlaysByTheRules is what a programmer can see to: each call    *)
(* comes when its queue can take it, each instruction works on buffers     *)
(* that its stage holds.  No clock and no flag is in it.  QueueKernel is   *)
(* what such a kernel is an instance of.                                   *)
(***************************************************************************)
EXTENDS KernelRun

\* The queues a sequence of calls has initialised.
Initialised(calls) ==
  {q \in Queue : \E i \in DOMAIN calls : calls[i].op = "InitBuffer" /\ calls[i].on = q}

\* The queues of the TPipe there is: after a launch those of its last block.
Ready ==
  Initialised(IF block = -1 THEN Launches[launch - 1].calls ELSE SubSeq(Kernel, 1, pc - 1))

\* Variable t is a buffer of its own queue, in state s.
Has(t, s) == local[t].handle \in BuffersOf(t) /\ buf[local[t].handle].state = s

\* Pipe p may touch it: it fills what AllocTensor returned, or consumes what
\* DeQue did.
Holds(p, t) ==
  /\ TileBytes > 0
  /\ \/ Producer(t) = p /\ Has(t, "OCCUPIED")
     \/ Consumer(t) = p /\ Has(t, "DEQUE")

\* A call that a kernel playing by the rules makes.
CallInTurn(c) ==
  \/ /\ c.op = "InitBuffer" /\ c.on \notin Ready
     /\ InitBufferFits(BufHardType[c.on], Depth[c.on], BUFFER_NUM, TileBytes)
  \/ c.op = "AllocTensor" /\ Ready = Queue /\ HasIdleBuffer(c.on)
  \/ c.op = "EnQue"       /\ c.on \in Ready /\ Has(c.on, "OCCUPIED") /\ VacantInQue(c.on)
  \/ c.op = "DeQue"       /\ c.on \in Ready /\ HasTensorInQue(c.on)
  \/ c.op = "FreeTensor"  /\ c.on \in Ready /\ Has(c.on, "DEQUE")
  \/ c.op = "CopyIn"      /\ c.on \in Ready /\ Holds("MTE2", c.on)
  \/ c.op = "Add"         /\ \A t \in {"x", "y", c.on} : t \in Ready /\ Holds("V", t)
  \/ c.op = "CopyOut"     /\ c.on \in Ready /\ Holds("MTE3", c.on)

\* Every call is made in its turn, and all buffers are given back in the end.
PlaysByTheRules ==
  /\ InProgress => CallInTurn(Kernel[pc])
  /\ pc = Len(Kernel) + 1 /\ ~ destroyed => Leaked = {}

-----------------------------------------------------------------------------

\* The bytes of a tile, launch by launch.
TileSizes ==
  {(((Main[l].length \div Main[l].blocks) \div Main[l].tiles) * ONE_BLK_SIZE) : l \in DOMAIN Main}

Queues == INSTANCE QueueKernel WITH
  Num       <- [q \in Queue |-> BUFFER_NUM],
  BufLen    <- [q \in Queue |-> TileSizes],
  MaxIssued <- -1,
  Phases    <- 0,
  ready     <- Ready,
  phase     <- 0

\* The program is a queue kernel, block after block: what QueueKernel leaves
\* open, the order of the calls and the operands, it has decided.
ActsAsQueueKernel == Queues!Spec
=============================================================================
