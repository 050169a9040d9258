# TLA+ models of the mini Ascend C core

The repository is a blog with three programs beside its articles. The one with
most logic is `src/TPipe`, a header-only simulator of one Ascend AI core that
runs `TPipe`/`TQue` kernels on a workstation and reports the synchronisation
they forgot. The others are two versions of one small MLIR dialect, written by
hand (`src/mlir_dialect`) and with TableGen (`src/mlir_tabgen`). This directory
holds TLA+ models of them, what TLC checks of the models, and what TLAPS proves.
(Paths below are relative to the repository root.)

* [1 The system](#1-the-system)
* [2 The modules](#2-the-modules)
* [3 What is checked](#3-what-is-checked)
* [4 What is proved](#4-what-is-proved)
* [5 Where code and documentation disagree](#5-where-code-and-documentation-disagree)
* [6 What is not modelled](#6-what-is-not-modelled)
* [7 Plan](#7-plan)

## 1 The system

### Parts, state, operations

| part | source | state | operations |
|---|---|---|---|
| machine tables | `kernel_common.h` 45-267 | none | position to memory, event to pipes, queue to event pair |
| simulated core | `kernel_common.h` 269-559 | a clock per pipe; what each pipe has observed of each other (`view`); 24x8 event slots (raised bit, snapshot of a row of clocks); per 32-byte granule of local memory the last writer and the last reader with their ticks; check mode; report count | `PipeTick`, `CheckAccess`, `RecordRead`, `RecordWrite`, `SetFlag`, `WaitFlag`, `KernelLaunch`, `SetSyncCheck`, `ClearSyncErrors` |
| instructions, tensors | `kernel_operator.h`, `kernel_tensor.h` | none of their own | `DataCopy` in and out, binary and scalar vector instructions, `Duplicate`, `GetValue`, `SetValue`, slices |
| `TPipe` | `kernel_tpipe.h` 40-186 | bytes and descriptors handed out, occupied event ids per event, 64 buffer descriptors | `InitBuffer`, `AllocEventID`, `ReleaseEventID`, `Reset`, `Destroy` |
| `TQueBind`, `TQue` | `kernel_tpipe.h` 190-400 | first descriptor, number of buffers, cursor, ring of handles with head, tail, count | `AllocTensor`, `EnQue`, `DeQue`, `FreeTensor`, `VacantInQue`, `HasTensorInQue`, `HasIdleBuffer` |
| example kernels | `src/TPipe/examples` | tensors, ids and buffers the kernel holds; the launch and the block `main()` is at | copy in, compute, copy out per tile, single or double buffered, with queues, with flags set by hand, without any |
| pipes of the hardware | external; `kernel_common.h` 1-15, `producer_consumer.md` | instructions issued and not completed, flag registers, local and global memory | start, complete, raise, await |
| Toy dialects | `src/mlir_dialect`, `src/mlir_tabgen` | the operations of a function body | builders, verifiers, parser, printer |

### How they interact

A kernel is ordinary single-threaded C++: the simulator executes every
instruction at once, in program order. The *pipes* of the real core, which run
concurrently, exist only as clocks. An instruction advances the clock of its
pipe, compares every granule it touches with what that pipe has observed, and
leaves its own mark there. `SetFlag` puts a copy of the source pipe's row into
an event slot, `WaitFlag` merges it into the destination pipe's row: the classic
vector-clock race detector with an event slot as the message. The queues sit on
top and make these calls for the kernel: `EnQue` takes an id from the `TPipe`
pool and sets the forward flag, `DeQue` waits for it and releases the id,
`FreeTensor` does the same with the backward flag for which the next
`AllocTensor` of that buffer waits. `KernelLaunch` resets the core before every
block; when the kernel returns, the `TPipe` destructor reports the buffers not
given back.

### What is hard

The program is sequential, but what it *decides* is about interleavings: a
report must come exactly when two instructions of different pipes are unordered
through any chain of flags. The hazards, listed with their lines in
`PROJECT.json`, are of these kinds.

* **Interleaving.** The simulator computes the right numbers from a kernel that
  forgot every flag. Only on pipes that run concurrently do they come out wrong,
  and the pipes are what the simulator does not have.
* **Order.** Rows of clocks are copied and merged along chains of flags; a lost
  entry loses an ordering (false alarm), an extra one hides a race.
* **Stale state.** A granule keeps one writer and one reader of a history that
  had many; flags, granules and rows must not survive a launch; `TPipe::Reset`
  forgets descriptors whose recycle flags are still up.
* **Limits.** Eight ids per event, shared by all queues on the same edge; a ring
  of `depth` entries with `num <= depth` buffers and two different moduli (the
  cursor wraps at `num`, head and tail at `depth`); a bump allocator.
* **Long sequences of calls.** Allocate, publish, take, free in any order, on any
  buffer, with refused calls in between.
* **Partial failure.** `InitBuffer`, `AllocTensor`, `EnQue`, the event pool and
  the operand checks report and carry on, with a null tensor, which is a window at
  the start of UB, or with an id that is none.
* **Liveness.** A wait nobody answers stops its pipe for good, and nothing in the
  simulator, which never blocks, would show it.
* **Two implementations** of one dialect, and a syntax that writes down one type
  where an operation has several.

### What makes it correct

* Core: alarms are about real races (no false alarm), races raise an alarm, and
  the clocks mean what they stand for.
* `TPipe`: buffers are disjoint and inside their memory; an event id names one
  hand-over at a time; nothing leaks.
* Queues: a buffer has one owner and moves along its life cycle, the ring is a
  FIFO of the published buffers, and a kernel that uses queues and nothing else is
  free of races and reports.
* Kernels on concurrent pipes: what passes the checker computes the sum in every
  order of the pipes and comes to an end; what computes anything else is reported.
* Toy: what a verifier accepts survives printing and parsing, and where shapes are
  static the TableGen dialect accepts nothing the hand-written one rejects.

## 2 The modules

An arrow goes from a module to one that extends it, `=>` to the abstract
specification it implements.

```
 SyncCore -> RaceChecker => CausalHistory
 SyncCore, Blocks -> TPipe -> QueueKernel => SlotFifo
                           -> QueueMisuse
 TPipe, TensorWindow, AddKernels -> KernelRun -> ConcurrentPipes => VectorAdd
                                                 ConcurrentPipes -> CheckedPipes
                                       KernelRun -> QueuedRun => QueueKernel
 Blocks -> TensorWindow
 Toy
 Machine -> the MC modules

 SyncCore -> SyncCoreProofs
 RaceChecker, SyncCoreProofs -> RaceCheckerProofs
 TPipe, SyncCoreProofs -> TPipeProofs
 QueueKernel, TPipeProofs -> QueueKernelProofs
 QueueMisuse, TPipeProofs -> QueueMisuseProofs
 CheckedPipes, TPipeProofs -> PipesProofs
 QueuedRun, PipesProofs -> QueuedRunProofs
 Toy -> ToyProofs
```

**Machine** is the static tables: `GetPhyType`, `GetBufferLogicPos`, `GetQueEvt`,
the 24 events. The other modules take pipes, events and queues as CONSTANTS; the
MC modules compute them from these tables, as the templates `TQue<pos, depth>`
do at compile time.

**Blocks** is the 32-byte block that DMA, granules and buffer lengths have in
common. **TensorWindow** is what a `LocalTensor` says about where it points: an
address and a length, both 32 bits wide, a slice that moves both, and `CheckFits`,
which looks at the length alone. `Reach` is the granules `CheckAccess` looks at, its
end a 32-bit sum as well.

**SyncCore** is the state of the core, one TLA+ variable per member of
`CoreState` (`clock`, `view`, `flags`, `gran`) and of the check's globals
(`checkMode`, `syncErrors`). `Instruction(p, src0, src1, dst, refused)` is the
shape every instruction of the simulator has: one tick of pipe `p`, the operand
checks that failed, then the touches in the code's order, each seeing what the
one before left in the granules. Which instruction has which operands is decided
above it. Operators that give the *next value* of a variable
(`FlagsAfterSet`, `ViewAfterWait`, `OccupyAfterAlloc`) let one queue call, which
makes several of them, be one step. Data is left out here, since no report depends
on it.

**CausalHistory** is the abstract specification of clocks and flags, without
clocks: per pipe the set of instructions ordered before its next one. `SetFlag`
publishes the set, `WaitFlag` adds the published set.

**RaceChecker** is every single-threaded program: any instruction with any
operands, any flag operation with any id, `INVALID_TEVENTID` included, any host
call, in any order. The history variable `log` records what the kernel really
touched, with the races each touch takes part in and whether an alarm was raised;
the code has no such memory, and the properties compare its alarms with it.
Instructions issued with the check off are not logged, as they are not recorded.

**TPipe** is `TPipe`, `TQueBind` and `TBuf`: one action per call and outcome
(`AllocTensor` and `AllocTensorRefused`, `DeQue`, `DeQueWrongState` and
`DeQueEmpty`, ...), each with every flag operation, pool operation and report the
call makes. A buffer handle is the index of its descriptor. The actions take any
arguments; who calls them is decided by three modules.

* **QueueKernel** is the kernels the README of TPipe describes: fill on the producer
  pipe what `AllocTensor` returned, `EnQue`, use on the consumer pipe what `DeQue`
  returned, `FreeTensor`, with any queue next and any held buffers as operands.
  The stages and the pipelining are open. **SlotFifo** is what it promises: slots
  with one owner, consumed in the order published.
* **QueueMisuse** is kernels that call anything in any order with any handle they
  ever got from any queue (`known`), hand a buffer to a queue of another kind, ask for
  too many or misaligned buffers, run out of event ids, initialise a queue a second
  time, drop queues that hold tensors and declare new ones, and call `Reset` whenever they like,
  the old handles still in use. The history variable `robbed` records that a published buffer was
  freed, or its queue or its descriptor given away.
* **KernelRun** is `main()`: launches of the kernels in **AddKernels**, which are
  the example kernels as sequences of calls, block after block on a reset core.
  A kernel ignores what its calls return. A refused one leaves it with a null
  tensor, and it carries on; so does the model.

**QueuedRun** is where the first and the last of these meet. `PlaysByTheRules` says what a
programmer who uses queues and nothing else sees to: every call comes when its queue can
take it, every instruction works on buffers its stage holds, all buffers are given back in
the end. It mentions no clock and no flag. `Queues` reads the program as a QueueKernel: the
queues it has initialised are those among the calls it has made (`Ready`), a buffer is as long
as a tile of one of its launches, and the calls and operands that QueueKernel leaves open
are the program's.

**ConcurrentPipes** is the machine the simulator stands in for, fed by the calls
of KernelRun while the simulator checks them. Each pipe has a queue of the
instructions issued to it and takes them in order. A data instruction takes time:
`Start` looks at the operands and turns what it will write into junk, `Complete`
stores the result, and an operand that changed in between was read at any time,
so its value is junk. `SetFlag` never blocks (`Raise`), `WaitFlag` blocks its own pipe
(`Await`). A register counts raises up to `FLAG_MAX`. **VectorAdd** is
what such a program promises: every element of the result is stored once, with
the sum, all of them eventually and before the next launch.

**CheckedPipes** puts the simulator's own execution beside that of the pipes. The code
executes an instruction when it is called, on a memory of its own; the pipes come to it
later. `memory` and `result` are what the simulator has by now, and for every
instruction a pipe has not completed there is a note of what the simulator knew when it
executed it: the operands it read, the row of clocks, which raise of its flag a flag
operation makes or awaits. All of it is history: no step of ConcurrentPipes looks at it.

**Toy** is both dialects: a function body that grows by one operation at a time,
from a builder, the custom syntax or MLIR's generic syntax; two verifiers; the
printer and the parser of the custom syntax. A tensor type may be unranked or have
dynamic dimensions; `parsed` records which operations came from custom syntax. MLIR
itself is external: its parser of generic syntax, `resolveOperand`, and what its traits
verify, where `SameOperandsAndResultType` is *compatible* shapes and one element type
(`Compatible`).

The `Proofs` modules hold the theorems (section 4). SyncCoreProofs and TPipeProofs
have none of their own: they are the facts about the operations of SyncCore and TPipe
(types, layout, ring arithmetic, the pool) that the others cite. The **MC** modules give the
constants their values. A definition commented `Mutant:` beside an operator is a
plausible bug in it (a reset forgotten, an off-by-one, a merge that overwrites);
no specification uses it, and each property of a passing run is known to fail with
one of them in place of its original.

## 3 What is checked

All passing runs finish exhaustively.

| run | question | instance |
|---|---|---|
| `race_vector` | are the alarms right? | pipes MTE2, V, MTE3 in a ring of three events, one register each, one granule, 3 instructions |
| `race_scalar` | also with two granules, failing operand checks, mode switches and launches? do clocks mean history? | pipes S, V, two events, two granules, 2 instructions |
| `war_shadowed` | is *every* race reported? (no) | as `race_vector` |
| `queue_pair` | is an in/out kernel silent, does anything leak? | VECIN and VECOUT, one buffer each, one id per event, 3 instructions |
| `queue_ring` | is a ring longer than its buffers handled, does it implement SlotFifo, are ids shared safely? | depth 3, two buffers, two ids |
| `second_phase` | is a second phase silent? (no) | one queue, two phases |
| `misuse` | do rings, layout and event pool survive any calls? | VECIN of depth 2 and VECOUT of depth 1, up to three buffers asked for of 32 or 48 bytes, two descriptors, one id per event, two reports |
| `misuse_free` | is every illegal transition reported? (no) | one queue |
| `single_buffer` | what do the pipes compute, is it what the simulator computed, is it the sum or reported, and do they finish? | twelve launches: the four of `sync_check.cpp`, those of the other two examples, tiles too long for local memory, ids kept from the queues; one-bit registers |
| `double_buffer` | is it the sum for two buffers; is the program a queue kernel; can the pipes always go on, is any raise lost? | three tiles on one core, then two cores of two tiles; registers that count to two |
| `flag_twice` | does a kernel that passes raise a flag only when it is down? (no) | as `double_buffer` |
| `toy` | does what is verified or parsed survive printing and parsing; does one dialect contain the other? | bodies of up to three operations over seven types |

**The alarms.** `NoFalseAlarm`: every alarm is about two touches of the log that
share a granule, conflict, and are unordered. `RaceWithWriteReported`: whenever a
touch races with an earlier *write* of a granule, an alarm was raised on that
granule by then. It does not say that alarm is about this very pair, because it
need not be: once a race on a granule went by, its mark is overwritten and only
the first race is reported, which is what a race detector of this kind promises.
`RaceWithLastReadReported` says the same of a write and the most recent read.
`EveryRaceReported` drops "most recent", and fails. `ClocksMeanHistory` is the
refinement of CausalHistory, `NobodySeesTheFuture` says that no row, flag or
granule is ahead of the clock it speaks of. A clock restarts at zero with each
launch, so anything left over from the block before would be ahead.

**The queues.** `NoReports` is the promise of the whole library: with queues and
nothing else, no touch is unordered, no flag is raised twice or waited for in
vain, the pool has an id and the ring an entry. `EventIdsExclusive`,
`NoEventLeaks`, `RingHoldsPublished` and `BuffersDisjoint` are the conditions it
rests on, and `QueuesKeepTheirPromise` is the refinement of SlotFifo. What the layout
of a kernel must be for silence is `Proper`: the back event of a queue leads from its
consumer to its producer, an event has an id for each buffer that may need one, and
all of memory is watched. The runs assume it (`MCQueueKernelAssumption`), and so does
the proof.

**Misuse.** `RingSurvivesMisuse` has two halves. Head, tail and count of a ring agree
whatever is called. And the rings hold exactly the ENQUE buffers, each in one place, until
a published buffer is taken from under its ring, which the code lets a kernel do in
four ways: it frees it (section 5); it calls `InitBuffer` again for a queue that
holds it, which empties the ring and leaves the buffer ENQUE; it drops that queue; or after
`Reset` it has the descriptor handed out to another queue while an old queue still
has it in its ring. `Reset` alone breaks nothing here, nor do foreign or stale handles.
`RaisedFlagsAreOccupied`: a flag that is up belongs to an id
that is taken, so the pool never hands out a register whose flag is still up. It knows no
exception, and neither does `BuffersDisjoint`, which is about the buffers handed out since the
last `Reset`.

**The pipes.** Two properties hold of any kernel, and say what the checker is for.
`AcceptedOrderIsKept`: as long as nothing was reported, an instruction is under way only
when every conflicting one before it, on whichever pipe, is over. What the clocks take
for ordered must *be* ordered by registers, on which two raises of a flag may meet. The
exception is a granule two pipes read, of which a granule remembers the last only
(section 5). `SameAsSimulated`: a launch without a report and without such a granule
leaves on the pipes the result and the local memory it left in the simulator, which
executes everything at once and in program order. So whatever a test on the simulator
finds right is right on the pipes, in every order they may run in.

A third concerns what the simulator cannot show at all, since its waits never block.
`PipesMoveOn`: while nothing was reported and no raise was lost, some pipe can go on. A
raise is lost when its register is full, and `RaisesKept` says that this does not happen:
each register holds exactly the raises that were not awaited yet. It holds of two buffers
and registers that count to two, and not of one-bit registers, where `flag_twice` loses a
raise.

The others are about the kernels of the repository. `PlaysByTheRules` says that every call
of the double-buffered program comes in its turn, tile after tile, block after block, and
`ActsAsQueueKernel` that it is then one of the kernels of QueueKernel. So what is said of those
holds of it: `NoReports` and the rest need no run on it. `Queues!Proper` holds
of the events of the examples (`MCConcurrentPipesAssumption`). `SimulatorIsRight` is what a test that
runs in program order can show: until something is reported the elements that come out are
sums and no granule has two readers, and a launch that is to end without a report makes none
and leaves no element out. `ComputesTheSum` is the refinement of VectorAdd: a launch the checker
has nothing to say of stores every element of the sum, whatever the order the
pipes run in. It has a safety half (no wrong element, no element stored twice)
and a liveness half (all of them, in the end). `WrongResultsAreReported` is the other
side: if a pipe ever stores a wrong element, the simulator has made a report by
then. `AsDesigned` compares the
report counts with those the programs expect: 3, 0, 0 and 1 are asserted by
`sync_check.cpp`, 0 by the other examples. The counts of the crowded and hoarding
launches (12, 3, 19, 9 and 4) are no program's: they were taken from the model, and
pin it down against change. (`double_buffer` does not ask it: its launches are to end
without a report, and of those `SimulatorIsRight` says the same.) `RunAheadIsBounded` is the article's "the producer
runs ahead as far as the number of buffers allows", `SlicesStayInside` ties slices to the
layout `InitBuffer` made, `MainEnds` says that no launch hangs.

**Toy.** `VerifiedRoundTrips`: what the hand-written verifier accepts prints as text that
parses, to the same operations, and so does what the TableGen one accepts where shapes
are static. `ParsedRoundTrips`: a line of custom syntax prints as a line that
reads the same, verified or not, also when its operands came from a builder or from generic
syntax with whatever types. `OdsIsNarrower`: on static shapes the hand-written
verifier accepts whatever the TableGen one does. Neither holds of the TableGen
dialect without "static" (section 5).

### Fairness

The simulator and its kernels are sequential and need none; the properties of the
`race_*`, `queue_*` and `misuse*` runs are safety properties. ConcurrentPipes
assumes weak fairness of `Host`, since the thread that runs `main()` is
never stopped and issuing never blocks, and weak fairness of `RunPipe(p)` for each
pipe, since a pipe executes what is at the head of its queue as soon as it can
(`kernel_common.h` 10-14 describes pipes that run on their own). Nothing is assumed of a
pipe that waits: `RunPipe(p)` is not enabled while the register is down, and
that it comes up is what `MainEnds` shows. `WF_vars(Store)` in VectorAdd is not an
assumption but part of the promise.

Deadlock is checked in the `queue_*`, `single_buffer` and `double_buffer` runs: a
kernel that plays by the rules can always go on to its end and to the next launch,
and pipes that all wait for each other would stop the run. The `race_*`, `misuse*`
and `toy` runs switch it off, since there the bounds `MaxIssued`, `MaxErrors` and
`MaxOps` stop the program on purpose.

### Bounds

* `MaxIssued` caps the instructions between two launches, and so every clock, row
  and the log. A race needs two instructions, a hidden one three (read, read,
  write), a chain of hand-overs three pipes. The flag operations are not capped,
  nor is the number of launches. -1 stands for no cap: so QueuedRun uses QueueKernel.
* `MaxErrors` caps the report counter, which otherwise only grows. One suffices
  for the race properties in `race_vector`: they are about the first alarm on a
  granule, and with one granule a kernel that has raised it has satisfied them.
  `race_scalar` allows two, with two granules, and so does `misuse`, where a refused call
  comes before or between the others.
* `EVENT_ID_NUM` is 8 in the code, 1 to 4 here: as few as make ids compete, and
  one more buffer than ids in the misuse runs, where the pool must run dry.
* `QBUF_MAX_LEN` is 64 in the code, 1 to 6 here; local memory holds three blocks (six
  under the pipes) where the code has 192 KB of UB. Both limits are reached and
  passed by requests that are refused.
* `Phases` caps the number of `Reset` calls.
* `Refusals`, the number of failed operand checks of an instruction, is 0 or 1 in
  RaceChecker: it only adds to the report count. KernelRun computes it.
* A tile is one to four elements, and an element stands for the eight floats of
  one 32-byte block, the unit of every length the code accepts. Two tiles show reuse
  of a single buffer, three that of a double one.
* `UINT32` is 1024 here: larger than local memory, as 2^32 is, so that only a
  slice past the end wraps. Tensors are cut at multiples of `HALF_BLK`, so both
  aligned and misaligned slices occur.
* `queue_ring` has a VIEW: two states that differ only in the snapshot of a lowered
  flag count as one. No call reads such a snapshot, and the next `SetFlag` overwrites it.
  `misuse` has one that hides the ring entries not in use: `EnQue` writes one before the
  count covers it.
* `FLAG_MAX` is not known from the code. `single_buffer` shows that one bit is
  enough for one buffer; two buffers need registers that count to two (section 5).
* `MaxOps` is 3: a value used twice, an operation on values of different types, a
  printed sum. Operations look at their operands only one step deep. The seven types
  are a matrix, one with a dynamic dimension, an unranked tensor, a tensor of rank three, a matrix of
  another element type, a vector and a scalar.

## 4 What is proved

Each theorem holds for every value of the constants, with no bound used.

| theorem | says |
|---|---|
| RaceCheckerProofs `TypesHold` | `Spec => []CoreTypeOK`: the core keeps its types |
| RaceCheckerProofs `FutureIsUnseen` | `Spec => []NobodySeesTheFuture` |
| RaceCheckerProofs `ClocksImplementHistory` | `Spec => ClocksMeanHistory`: the core implements CausalHistory |
| RaceCheckerProofs `LogTyped` | `Spec => []TypeOK`, the history variable included |
| RaceCheckerProofs `AlarmsAreRaces` | `Spec => []NoFalseAlarm`: every alarm is about a race |
| RaceCheckerProofs `WriteRacesAreReported` | `Spec => []RaceWithWriteReported`: no race with a write goes by in silence |
| RaceCheckerProofs `LastReadRacesAreReported` | `Spec => []RaceWithLastReadReported` |
| PipesProofs `SliceInside` | an access to a slice that starts inside its tensor stays within the tensor's granules, if `CheckFits` lets it through |
| PipesProofs `SliceOfSlice` | slicing twice is slicing once, at the sum of the offsets |
| PipesProofs `SlicePastTheEnd` | `Spec => []SlicesReachOthers`: in every state, from the tensor of any buffer a slice past its end passes `CheckFits` and reaches exactly the granules of any later buffer in that memory |
| PipesProofs `PipesTyped`, `PipesBuffersDisjoint` | `Spec => []TypeOK`, `Spec => []BuffersDisjoint`, for any main program |
| PipesProofs `SlicesInTheirBuffers` | `Spec => []SlicesStayInside` |
| PipesProofs `OrderIsKept` | `CheckedSpec => []AcceptedOrderIsKept`: the pipes keep every order the clocks accept |
| PipesProofs `PassedIsComputed` | `CheckedSpec => []SameAsSimulated`: what passes comes out of the pipes as it came out of the simulator |
| PipesProofs `RightOnThePipes` | `CheckedSpec /\ []SimulatorIsRight => []WrongResultsAreReported` |
| PipesProofs `SumOnThePipes` | `CheckedSpec /\ []SimulatorIsRight => Promise!Init /\ [][Promise!Next]_(Promise!vars)`: the safety half of `ComputesTheSum` |
| PipesProofs `PipesNeverStuck` | `CheckedSpec => []PipesMoveOn`: the pipes of a kernel that passes never wait for each other in a circle, nor for a flag nobody raises |
| PipesProofs `LostWhenFullOnly` | while nothing is reported, a step breaks `RaisesKept` only by raising a register that holds `FLAG_MAX` raises |
| QueueKernelProofs `KernelIsSilent` | `Spec => []NoReports`, if `Phases = 0` and `Proper`: a kernel that uses its queues and nothing else is free of races and reports |
| QueueKernelProofs `KernelKeepsPromise` | `Spec => QueuesKeepTheirPromise`: the queues implement SlotFifo |
| QueueKernelProofs `KernelRingsHold` | `Spec => []RingHoldsPublished` |
| QueueKernelProofs `KernelIdsExclusive` | `Spec => []EventIdsExclusive` |
| QueueKernelProofs `KernelLeaksNoEvents` | `Spec => []NoEventLeaks`, if `Phases = 0` |
| QueueKernelProofs `KernelTyped`, `KernelKeepsBuffersApart` | `Spec => []TypeOK`, `Spec => []BuffersDisjoint` |
| QueuedRunProofs `QueuedProgramsAreQueueKernels` | `Spec /\ []PlaysByTheRules => ActsAsQueueKernel`, if `Queues!Proper`: a program on its queues implements QueueKernel, for any `Main` |
| QueuedRunProofs `QueuedProgramsAreSilent` | `Spec /\ []PlaysByTheRules => []Queues!NoReports`, if `Queues!Proper` |
| QueuedRunProofs `QueuedProgramsKeepOrder` | with `CheckedSpec`: its pipes start nothing before what it depends on is over |
| QueuedRunProofs `QueuedProgramsComputeAlike` | with `CheckedSpec`: it computes on the pipes what the simulator computed, and a pipe can always go on as long as no raise is lost |
| QueueMisuseProofs `RingsSurvive` | `Spec => []RingSurvivesMisuse` |
| QueueMisuseProofs `FlagsAreClaimed` | `Spec => []RaisedFlagsAreOccupied` |
| QueueMisuseProofs `MisuseTyped`, `MisuseKeepsBuffersApart` | `Spec => []TypeOK`, `Spec => []BuffersDisjoint` |
| ToyProofs `RoundTrips` | `Spec => []VerifiedRoundTrips` |
| ToyProofs `ReparsesAlike` | `Spec => []ParsedRoundTrips` |
| ToyProofs `HandAcceptsOds` | `Spec => []OdsIsNarrower` |
| ToyProofs `TypesHold` | `Spec => []TypeOK` |

The assumptions are those of the constants: `SyncCoreAssumption` (each event has a
source and a destination pipe, there is a register, the marker for "nobody" is no pipe),
`RaceCheckerAssumption` (bounds are numbers, modes are modes), `TPipeAssumption` (each
queue has two events, a ring with an entry and a memory of some size; there is a
descriptor), `QueueKernelAssumption` and `QueueMisuseAssumption` (what is asked of
`InitBuffer` are numbers), `TensorAssumption` (a word has values), `KernelRunAssumption`
(`main()` launches something, what it launches are sequences of calls, the memories and a tile
behind them have 32-bit addresses, the queues and pipes the calls name exist),
`ConcurrentPipesAssumption` (a register can be raised) and `ToyAssumption` (the markers
for "none" are no types). The theorems about the pipes leave `Main` open: they are about
any launches of any calls, in any order, right or wrong.

**The core.** The inductive invariant is
`Inv == CoreTypeOK /\ NobodySeesTheFuture`. Types come first because clocks must
be numbers to be compared. `NobodySeesTheFuture` is inductive with them: an
instruction only raises a clock, and marks granules with the tick just issued; a
snapshot is made of a row, which is not ahead, and of the pipe's own clock;
`WaitFlag` takes a maximum of two rows that are not ahead; a launch lowers clocks
and everything else with them. The proof has one lemma per operation and per
half of the invariant.

For the refinement, a row of ticks is read as the set `UpTo(row)` of all
instructions up to them, a pipe's own entry being its clock. `UpToNext` and
`UpToLarger` say that one more tick is one more instruction and that a maximum is
a union. Then an instruction is an `Issue`, `SetFlag` a `Publish`, `WaitFlag` on
a raised flag an `Inherit`, a launch a `Restart`, and everything else, invalid ids
and waits in vain included, a stuttering step. `Inv` is needed for `Inherit`: the
snapshot may hold an entry for the *waiting* pipe itself (its own clock, come back
around a cycle of flags), and merging it must not make the pipe's own history
longer than it is. That it never does is `NobodySeesTheFuture`.

**The alarms.** `NoFalseAlarm` and its converses speak of the whole log, of which the
code keeps two marks per granule and a row of clocks per pipe. `LogInv` says what
they stand for. A granule names the last touch that wrote it, and the last that read
it unless it was written since (`WriterMarked`, `ReaderMarked`), so an alarm raised from
a mark is about a touch that happened: no false alarms. For the other direction a mark
that was overwritten must not be needed any more, and that is where the rows come in:
they are *closed* (`RowCloses`). If touch i was found in order with a later touch j,
then whoever has observed j has observed i. An instruction keeps that, because its
pipe's row has i when it finds i in order; a snapshot is a row; and the maximum of two
closed rows is closed, since one of the two has j and therefore i. Now suppose that a
touch races with i and raises no alarm. Then the mark it was compared with is of a later write w,
which it has observed (`SilentTouchSawAWrite`). Either i and w were in order, so by
closure it has observed i and there is no race, or they were not, and the induction
says that an alarm was raised by then. The exception is a read i that another read
followed: then the mark may be that read's, which nothing relates to i. It is the case
that `war_shadowed` exhibits. An instruction touches up to three operands one after the
other, each seeing the marks of the one before; `Midway` is the invariant between two
of them, and `TouchKeepsFaith` the step.

**The queues.** `BaseOK` is what no call of any kernel breaks: types, and a layout
in which buffers lie one after the other, block by block, below `maxAddr`. On top of it come
invariants that are each inductive given the ones before.

1. `KInv`: ready queues have descriptors of their own (`Placed`), nothing moves before
   all queues are ready (`AtRest`), a ring holds its ENQUE buffers, each in one place,
   with head, tail and count in agreement (`RingOK`), and a buffer holds an id of the forward
   event only while it is ENQUE and one of the back event only while it is FREE
   (`IdsFollowState`). `RingHoldsPublished` follows, and so does the refinement: each call
   moves one slot between two sets of SlotFifo, and the ring is its sequence.
   Reset returns all slots to idle.
2. `EInv`: an id that a buffer holds has its flag up and is taken (`Claimed`), and no other
   buffer holds it (`Exclusive`). The pool picks an id that is not taken, so `Claimed` gives
   `Exclusive`, and `Exclusive` gives that releasing an id takes it from nobody else. It
   must speak of queues that are *not* ready as well: after Reset they still name
   descriptors with ids until `InitBuffer` hands these out again (`StaleAtRest`).
3. `NoLeak`: the converse of `Claimed`, only without Reset, as `second_phase` shows.
4. `SInv`: who has a buffer has seen every touch of it. OCCUPIED: the row of the producer
   covers the marks of all its granules; DEQUE: that of the consumer; ENQUE and FREE:
   the snapshot in the flag of the id it holds, or nobody has touched it (`InTime`). And no
   report was made.

In the last step an instruction finds only granules of buffers that its pipe has, and
these it has seen (`WorkQuiet`); what it leaves is its own mark. A hand-over moves what
was seen: a row into the snapshot of a flag nobody else holds (`RaiseCovers`), a snapshot
into a row (`WaitLearns`). A flag that is raised was down, by `NoLeak` and `Claimed`; one
that is waited for is up, by `Claimed`. That there is an id at all is counting
(`PoolSuffices`): were all taken, each would belong to another buffer, and a buffer holds
at most one, which makes an injection of the ids into fewer slots than there are ids.
Without `Proper` each argument has its counterexample: a back flag that leads elsewhere
tells the producer nothing, and a buffer beyond the last id is recycled without a flag (the
hoarding launch of `single_buffer`).

**Misuse.** `BaseOK` holds for any calls, provided handles come from queues in the table
(`InTable`). `RaisedFlagsAreOccupied` is inductive with the types alone. `RingInv` is
`RingOK` for calls with foreign handles: a buffer may be published in a queue it does not
belong to, so the entries of *all* rings together name each published buffer once. It speaks of
every descriptor, those that `Reset` has taken back included, since a kernel may go on
with old handles. That it holds only until `robbed` is what makes it inductive:
of the steps, `RingInitBuffer` and `RingOutOfScope` are the two that clear a ring, and
they either find nothing published there or set `robbed`. The agreement of head, tail and count
needs none of it.

**Slices.** Everything is arithmetic on words. As long as the end of an access does not
wrap, `Reach` is the blocks its bytes lie in (`ReachIsBlocks`); `KernelRunAssumption`
leaves room for that behind the memory. Inside the tensor neither the sum nor
the difference wraps, so the end of the slice is the end of the tensor, and
rounding outwards to blocks is monotone. Past the end the length does wrap and the address does
not (`SliceBeyond`). So in the second half of the first block of a later buffer starts a slice
that rounding completes to all of that buffer, and buffers lie one after the other (`Layout`).

**The pipes.** `PipesOK` is what holds whatever is called and in whatever order the
pipes run. `RunOK` is about the kernel: `BaseOK`, queues whose buffers were handed out
(`QueuesInTable`), and variables that are null or what `Buf2Tensor` made of a buffer
(`TensorsOfBuffers`), from which `SlicesInTheirBuffers` follows by `SliceInside`. A ring
entry needs the odd `ring[i] = 0`: entries nobody published are zero, and a refused
`InitBuffer` leaves a queue whose buffer 0 may not exist. `FifoOK` says that a pipe holds
instructions of its own, with operands in granules that exist; `FlightOK`, that only
data instructions take time; `DrainedAtEnd`, that a kernel that returned left nothing.

**The order.** The clocks know only program order, and a register knows only how
often it is raised. `OrderOK` ties them together, one pending instruction x with its note
at a time, as long as nothing has been reported.

1. `TicksOK`: along a pipe the row's own entry grows, and strictly at data
   instructions; what is over is below. So on its own pipe, `x.row[q] <= over[q]` means
   that x is over, and `RowsSeen` and `GranulesSeen` keep everything below the clocks.
2. `TurnsOK`: the raises and waits of a flag are numbered. Those awaited and those still
   in the register are no more than those done, and the pending waits come in turn.
   Hence a wait that goes through has its raise behind it, even if a later raise
   has come meanwhile, which does happen (`flag_twice`), and even if the register was
   full.
3. `RowsBacked`: an entry of a row is not just a number. What the row of x says of pipe r
   is over on r, or said by an instruction before x on its pipe, or carried by the raise
   that x waits for. A pending row therefore leads back, raise by raise, to what is over.
   At the head of a pipe only the first is left (`OrderAtHead`): nothing is before it, and
   the raise of a wait that goes through is done.
4. `MarksOK`: a granule keeps one writer and one reader, and an overwritten mark must be
   covered by what overwrote it: whoever has observed the last write has observed x.
   A reader's mark may also be lost to another reader's, which is what `Shared` says.
5. `PairsOK`: of two pending instructions in conflict the later has observed the earlier.
   It holds when the later is issued, since the call would otherwise be reported
   (`AccessPassed`), and rows are never changed afterwards.

By 5 an instruction at the head has observed whatever it conflicts with, by 3 that is
over, by 1 it is no longer pending (`NothingOvertaken`). An argument by execution order
would need induction along chains of flags, whose length has no bound; `RowsBacked`
has the induction in the invariant instead, one link per step.

**The values.** `ValuesOK` says what the pipes' memory has to do with the simulator's: a
granule nobody is about to write holds what it holds there, and otherwise the last pending
writer will leave that (`WrittenOK`); the same for each operand of each pending
instruction and the writers before *it* (`ReadOK`). `OrderIsKept` is what makes it inductive:
when an instruction starts, nobody before it is about to write its operands, and while
it runs nobody after it overwrites them, the shared granules excepted.
`ResultOK` says the same of the elements in global memory, which only MTE3 writes, in
order. When the pipes have drained nothing is pending, and both say equality.

**Going on.** A wait that a call of the kernel makes is reported unless its flag is up, so in
program order its raise comes first. `FlagsAnswered` keeps that true of what is pending:
the raise a pending wait awaits is done, or is pending and was issued before the wait, and
the pending raises of a flag come in turn. Now take the oldest of all pending
instructions. Numbers are well founded, so there is one (`OldestExists`), and it is the
first of its pipe. If it is a wait, its raise is older than itself and hence done; the
waits before it are the awaited ones, since they come in turn, so by `RaisesKept` the
register holds at least one raise, and the pipe can go on (`OldestCanGo`). `RaisesKept` is
needed: with one-bit registers the double-buffered kernel loses a raise and stops for good.
It is not a theorem, as it depends on how far the kernel lets its pipes run ahead, but
`LostWhenFullOnly` leaves the size of the registers as its only enemy. That some pipe *can*
go on is the safety core of `MainEnds`. That it then does is fairness, and that this ends,
because every step completes a part of what was issued, is an induction the runs replace.

**Programs on their queues.** `PassedIsComputed` and `PipesNeverStuck` speak of programs that
are not reported on, `KernelIsSilent` of kernels that are not, however their calls are
interleaved. The step between the two is that a program that plays by the rules *is* such a
kernel. `InOrder` is the invariant: `RunOK` of the kernel, the whole of `Quiet` of
QueueKernel (points 1 to 4 above, in the instance `Q`), buffers as long as a tile
(`BuffersHoldTiles`), and a kernel that returns at its end only (`EndsAtEnd`, without which
the queues of the last block would be forgotten between two launches). A call in its turn takes the
branch of the code that succeeds (`CallIsMove`): that `DeQue` finds a published buffer at
the head of the ring is `RingOK`, not a matter of the rules. The window an instruction touches
is a whole buffer its pipe holds (`HeldBuffer`), so it is a `Work` of QueueKernel
(`DataIsWork`). The next block is a `Restart`; the next launch clears the report
count, which nobody sees because it is zero (`NextLaunchUnseen`): here silence is needed to
show that the program is a QueueKernel at all, so both are proved in one induction. The
pipes' own steps are not seen. `PlaysByTheRules` is a hypothesis on the program and its
simulator, which is deterministic; the run shows it of the example, and nothing in it is
about flags, clocks or the order the pipes run in.

**Toy.** The inductive invariant is `IInv`: operations use only values before them
(`Placed`), and those that came from custom syntax are typed. `Op` alone is not enough: a `constant` with operands is of that
type and does not round-trip, so `Placed` says that each operation is what one of the
three constructors made. Appending an operation changes no type of a value already
there, which makes it inductive. A typed operation round-trips (`TypedRoundTrips`), and
what the hand-written verifier accepts is typed (`HandTyped`). So is what the TableGen
one accepts, if compatible types are equal, which they are where nothing is dynamic
(`StaticCompatible`, `OdsTyped`).

**The sum.** What a particular kernel computes cannot follow for an open `Main`: one that
copies the wrong tile stores a wrong element without any race. What can be proved is that
the pipes add nothing to what program order shows. `SimulatorIsRight` speaks of the
simulator only, which is deterministic; the runs check it on the kernels of the
repository. From it, `SumsOnly` is inductive: what is stored is a sum, and what a pending
copy out will bring is one, because it brings what it brought to the simulator (`ValuesOK`)
and that was a sum. `MemoryFilled` sees to it that nothing ever brings `Unwritten`, which would
undo an element. So a completed copy out is a step `Store` of VectorAdd or none, and when
a launch ends, `PassedIsComputed` says that no element is missing.

**Only model-checked:** `SimulatorIsRight`, `AsDesigned`, `RunAheadIsBounded` and
`RaisesKept`. They are about the kernels of the repository and false of others: how often a
given kernel is reported on, how far one that raises its own flags runs ahead, or how often
it raises one of them. So is `PlaysByTheRules`, the hypothesis of QueuedRunProofs.
`MainEnds` and the other half of
`ComputesTheSum` are liveness, which is outside the prover's reach, as is ENABLED. That the
history variables of CheckedPipes restrict nothing is not proved either: each step assigns them
one value whatever they were, so it can be read off the module, and `CheckedSpec => Spec`
(`CheckedImplementsPipes`) is the direction the theorems need. The four
properties that fail (section 5) are refuted by their runs.

## 5 Where code and documentation disagree

Four runs are expected to fail; each fails by what the code does.

* `war_shadowed`: `RecordRead` keeps one reader per granule
  (`kernel_common.h:449`). MTE3 reads a buffer, V reads it, V writes it: the
  write is compared with V's own read, and the race with MTE3's goes
  unreported. The header (lines 13-15) promises that a kernel that forgets a flag
  is reported, and `src/TPipe/README.md:140` that write-after-read is caught.
* `second_phase`: `TPipe::Reset` (`kernel_tpipe.h:137`) forgets the descriptors
  with the recycle flags they hold. A second phase, which the comment above it
  advertises, refills memory without waiting for its last reader and is reported
  for a missing `WaitFlag` although the kernel made every call it should; the
  event ids leak.
* `misuse_free`: `FreeTensor` of a published buffer passes without a report
  (`kernel_tpipe.h:309`), against "Every transition is checked"
  (`kernel_tensor.h:25`). The buffer is then both in the ring and free.
* `flag_twice`: `DeQue` and `AllocTensor` release the event id when they *issue* the
  wait (`kernel_tpipe.h:293`, `354`), not when the pipe has waited. In the
  double-buffered example the producer's next `EnQue` gets the same id and
  raises the register again before the consumer came to it: what
  `kernel_common.h:487` reports as an error, were it not that the simulator runs
  in program order and never sees it. On registers that count, the kernel still
  computes the sum (`double_buffer`); on registers of one bit two raises merge, the
  second wait is never answered and the program does not end.

Three more have no run of their own.

* `SameOperandsAndResultType` (`ToyOps.td:80`) wants one element type and compatible
  shapes, so the generic syntax can make an add of two `tensor<2x2xf64>` whose result
  is `tensor<?x2xf64>`, and it verifies. The format prints that one type (line 91), with
  which the operands do not resolve: the printed text is refused. The comment in lines
  86-88 says that the trait "verifies the shapes agree (the hand-written version needed a
  verify() for that)" and lets the format print a single type, and
  `mlir_tabgen/README.md:66` calls it "`toy.add`'s entire verifier". The hand-written
  `verify` compares types and rejects it. The model has it: `VerifiedRoundTrips` and
  `OdsIsNarrower` fail in the `toy` run, with such a body, when `StaticShapes` is dropped from
  them.
* The tables of `src/TPipe/README.md` (lines 53 and 64) put A2 in L0A, and so does
  `GetPhyType`, but a `TQue` at position A2 carves its buffers from the memory of its
  *source* position, which is L1.
* The hand-written dialect accepts `f32` constants, where the summary of `ToyOps.td:3`
  speaks of three operations on `f64` tensors; the TableGen version enforces it.

## 6 What is not modelled

* Abort mode: it ends the process at the first report, so its behaviours are
  prefixes of those of Report mode.
* Trace output, traffic counters, the text of diagnostics: nothing the
  properties tell apart depends on them.
* Data beyond where an element came from: a granule holds element i of x, of y, of the
  sum, or junk. Floating point, and the vector instructions the examples do not use,
  touch memory as `Add` and `Adds` do; RaceChecker has them all.
* Several `TPipe`s alive at once: the inner one's destruction leaves the outer one's
  queues a null pointer to call through, which has no outcome to compare.
* `ReinterpretCast` and `SetSize`, which change what a tensor claims and nothing
  else; the tensor after them is one whose slices TensorWindow already covers.
* Slices by a kernel: no kernel of the repository makes one. What a slice of its tensors would
  reach is a statement about every state (`SlicesStayInside`, `SlicePastTheEnd`).
* In Toy: arguments of the function, forward references, locations, element data, and
  MLIR's own passes.
* The articles have no code to model.

## 7 What is left

Sections 1 to 5 describe what exists; this would add to it.

1. **How far a queue program runs ahead**: `RaisesKept` of any program that plays by the
   rules, for registers that count to the number of buffers on their edge. The argument goes
   from one use of a buffer to the next and needs a history of hand-overs, which
   CheckedPipes does not keep.
2. **Nested TPipes**, once the code defines what an outer pipe does after an
   inner one is gone.
