---------------------------- MODULE QueueKernel -----------------------------
(***************************************************************************)
(* A kernel that uses its queues as the README says, and nothing else for  *)
(* synchronisation: it fills what AllocTensor gave it on the queue's       *)
(* producer pipe, EnQues it, and consumes what DeQue gave it on the        *)
(* consumer pipe until it calls FreeTensor.  Which queue moves next, how   *)
(* far the producer runs ahead, and what the instructions in between read  *)
(* and write is open, so every pipelining of every such kernel is here.    *)
(***************************************************************************)
EXTENDS TPipe, Sequences

CONSTANTS
  Num,          \* queue -> buffers asked of InitBuffer
  BufLen,       \* queue -> the lengths in bytes they may have
  MaxIssued,    \* instructions per kernel, or -1 for as many as it likes
  Phases        \* how often a kernel starts over with TPipe::Reset

ASSUME QueueKernelAssumption ==
  /\ Num \in [Queue -> Nat]
  /\ BufLen \in [Queue -> SUBSET Nat]
  /\ MaxIssued \in Nat \cup {-1}
  /\ Phases \in Nat

VARIABLES
  ready,        \* the queues the kernel has initialised in this phase
  phase         \* the phases it has behind it

vars == <<coreVars, pipeVars, ready, phase>>

kernelVars == <<ready, phase>>

TypeOK == CoreTypeOK /\ PipeTypeOK /\ ready \subseteq Queue /\ phase \in 0 .. Phases

Init == CoreInit /\ PipeInit /\ ready = {} /\ phase = 0

-----------------------------------------------------------------------------

Issued == FoldFunction(LAMBDA m, n : m + n, 0, clock)

\* What an instruction on pipe p may touch: the buffers its stage holds.
Held(p) ==
  {h \in Handle : \E q \in ready :
     /\ h \in BuffersOf(q)
     /\ \/ buf[h].state = "OCCUPIED" /\ Producer(q) = p
        \/ buf[h].state = "DEQUE" /\ Consumer(q) = p}

Operands(p) == {{}} \cup {BufferGranules(h) : h \in Held(p)}

\* The copy in, a vector instruction of up to three operands, the copy out.
Work(p) ==
  \E src0, src1, dst \in Operands(p) :
    /\ MaxIssued \in Nat => Issued < MaxIssued
    /\ src0 \cup src1 \cup dst # {}
    /\ Instruction(p, src0, src1, dst, 0)
    /\ UNCHANGED <<pipeVars, kernelVars>>

Prepare(q) ==
  /\ q \notin ready
  /\ \E len \in BufLen[q] : InitBuffer(q, Num[q], len)
  /\ ready' = ready \cup {q}
  /\ UNCHANGED phase

\* The layout is decided once and then reused for every tile: all queues are
\* initialised before the first buffer is asked for.
Obtain(q) == ready = Queue /\ AllocTensor(q) /\ UNCHANGED kernelVars

Publish(q, h) ==
  /\ q \in ready /\ h \in BuffersOf(q)
  /\ EnQue(q, h)
  /\ UNCHANGED kernelVars

Consume(q) == q \in ready /\ DeQue(q) /\ UNCHANGED kernelVars

Recycle(q, h) ==
  /\ q \in ready /\ h \in BuffersOf(q)
  /\ buf[h].state = "DEQUE"
  /\ FreeTensor(q, h)
  /\ UNCHANGED kernelVars

\* A second phase starts when nothing of the first is in use any more.
NextPhase ==
  /\ phase < Phases
  /\ Leaked = {}
  /\ Reset
  /\ ready' = {}
  /\ phase' = phase + 1

Finish == Leaked = {} /\ Destroy /\ UNCHANGED kernelVars

Restart == NextKernel /\ ready' = {} /\ phase' = 0

Step ==
  \/ \E p \in Pipe : Work(p)
  \/ \E q \in Queue : Prepare(q) \/ Obtain(q) \/ Consume(q)
  \/ \E q \in Queue, h \in Handle : Publish(q, h) \/ Recycle(q, h)
  \/ NextPhase
  \/ Finish

Next ==
  \/ ~ destroyed /\ Step
  \/ Restart

Spec == Init /\ [][Next]_vars

-----------------------------------------------------------------------------
(* The queues order everything.                                            *)

\* What the layout of a kernel must be for that: the back event of a queue
\* leads from its consumer to its producer, an event has an id for each buffer
\* that may need one, and the race checker watches all of memory.
BackEventsReturn ==
  \A q \in Queue : /\ EventSrcPipe[FreeBufEvt[q]] = Consumer(q)
                   /\ EventDstPipe[FreeBufEvt[q]] = Producer(q)

Users(e)   == {q \in Queue : e \in {EnQueEvt[q], FreeBufEvt[q]}}
SlotsOf(e) == UNION {{q} \X (0 .. (Num[q] - 1)) : q \in Users(e)}

EnoughIds == \A e \in Event : IsFiniteSet(SlotsOf(e)) /\ Cardinality(SlotsOf(e)) <= EVENT_ID_NUM

MemoryWatched == \A m \in Mem : {m} \X BlocksOf(0, HardwareSize[m]) \subseteq Granule

Proper == BackEventsReturn /\ EnoughIds /\ MemoryWatched

\* The kernel is race free and every call it makes succeeds: no touch is
\* unordered, no flag is raised twice or waited for in vain, the pool always
\* has an event id and the ring a free entry.  (AllocTensor waits for the
\* back flag, DeQue for the forward one, and ids are recycled in time.)
NoReports == syncErrors = 0

\* "lets a kernel reuse the whole of UB for a second phase": after Reset the
\* kernel is as silent as before it.
SecondPhaseWorks == phase > 0 => syncErrors = 0

\* The handles in the ring are the ENQUE buffers of the queue, each once, and
\* its two indexes agree with the count, also when the ring is longer than
\* the queue has buffers.
RingHoldsPublished == \A q \in ready : RingConsistent(q)

\* Nothing leaks: a flag is up or an id is taken only for a buffer on its way.
NoEventLeaks ==
  ~ destroyed => \A e \in Event, id \in EventId :
    flags[e][id].pending \/ id \in eventOccupy[e] =>
      \E q \in ready : \E h \in BuffersOf(q) : <<e, id>> \in HeldBy(q, h)

-----------------------------------------------------------------------------
(* What a queue promises.                                                  *)

InState(q, s) == IF q \in ready THEN {h \in BuffersOf(q) : buf[h].state = s} ELSE {}

Promise == INSTANCE SlotFifo WITH
  Slot    <- Handle,
  idle    <- [q \in Queue |-> InState(q, "FREE")],
  filling <- [q \in Queue |-> InState(q, "OCCUPIED")],
  fifo    <- [q \in Queue |-> IF q \in ready THEN Published(q) ELSE <<>>],
  using   <- [q \in Queue |-> InState(q, "DEQUE")]

\* The descriptor states and the ring implement a FIFO hand-over of buffers
\* with one owner each.
QueuesKeepTheirPromise == Promise!Spec
=============================================================================
