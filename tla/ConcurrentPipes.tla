-------------------------- MODULE ConcurrentPipes ---------------------------
(***************************************************************************)
(* The machine the simulator stands in for: the pipes of a core take the   *)
(* instructions issued to them in program order, each on its own, and run  *)
(* concurrently with each other.  SetFlag does not block; WaitFlag blocks  *)
(* its pipe, and no other, until the flag is raised.  The kernel runs on   *)
(* ahead, and an instruction takes time: what it reads or writes may be    *)
(* changed under it.                                                       *)
(*                                                                         *)
(* The simulator executes none of this: it checks.  Both run here on the   *)
(* same calls, so its verdict can be compared with what the pipes compute. *)
(***************************************************************************)
EXTENDS KernelRun

CONSTANT FLAG_MAX   \* how often a flag register can be raised before a wait

ASSUME ConcurrentPipesAssumption == FLAG_MAX \in Nat \ {0}

\* Where the parts of tensors that SlicesStayInside looks at begin and end.
HALF_BLK == ONE_BLK_SIZE \div 2

VARIABLES
  fifo,      \* fifo[p]: what was issued to pipe p and has not completed
  inFlight,  \* the pipes whose first instruction has started
  seen,      \* seen[p]: the operands it found then
  reg,       \* reg[e][id]: how often the flag register is raised
  ub,        \* ub[g]: the content of a granule of local memory
  z          \* z[i]: element i of the result in global memory

hwVars == <<fifo, inFlight, seen, reg, ub, z>>
vars   == <<coreVars, pipeVars, runVars, hwVars>>

\* Contents: element i of an input, their sum, anything else.
X(i)      == <<"x", i>>
Y(i)      == <<"y", i>>
Sum(i)    == <<"sum", i>>
Junk      == <<"junk", 0>>
Unwritten == <<"unwritten", 0>>

Index == 0 .. (Launch.length - 1)

NothingSeen == [g \in {} |-> Junk]

Idle ==
  [fifo |-> [p \in Pipe |-> <<>>],
   seen |-> [p \in Pipe |-> NothingSeen],
   reg  |-> [e \in Event |-> [id \in EventId |-> 0]],
   ub   |-> [g \in Granule |-> Junk]]

HwInit ==
  /\ fifo = Idle.fifo
  /\ inFlight = {}
  /\ seen = Idle.seen
  /\ reg = Idle.reg
  /\ ub = Idle.ub
  /\ z = [i \in Index |-> Unwritten]

Content == {Junk, Unwritten} \cup ({"x", "y", "sum"} \X Nat)

TypeOK ==
  /\ RunTypeOK
  /\ inFlight \subseteq {p \in Pipe : fifo[p] # <<>>}
  /\ reg \in [Event -> [EventId -> 0 .. FLAG_MAX]]
  /\ ub \in [Granule -> Content]
  /\ z \in [Index -> Content]

-----------------------------------------------------------------------------
(* What a call issues, and to which pipe.  It is decided by the state the  *)
(* call finds: flag operations on an invalid id are not issued.            *)

\* Mutant: whatever the id, register 0 of the event is raised.
SetInstrFirstId(e, id) == [op |-> "SetFlag", pipe |-> EventSrcPipe[e], evt |-> e, id |-> 0]

SetInstr(e, id)  == [op |-> "SetFlag", pipe |-> EventSrcPipe[e], evt |-> e, id |-> id]
WaitInstr(e, id) == [op |-> "WaitFlag", pipe |-> EventDstPipe[e], evt |-> e, id |-> id]

ValidId(instr) == IF instr.id \in EventId THEN <<instr>> ELSE <<>>

\* Data moves element by element: element n of a tile is granule n of the
\* window, and index first + n of the vectors.
DataInstr(c, p, src0, src1, dst) ==
  <<[op |-> c.op, pipe |-> p, on |-> c.on, tile |-> c.tile, first |-> GmOffset(c.tile),
     src0 |-> src0, src1 |-> src1, dst |-> dst]>>

\* The n-th granule of a window of tensor t, n from 0.
At(t, n) == <<t.hard, t.address \div ONE_BLK_SIZE + n>>

Tile(t) == [n \in {m \in 0 .. (TileLength - 1) : At(t, m) \in Granule} |-> At(t, n)]

NoTile == [n \in {} |-> Junk]

Issued(c) ==
  CASE c.op = "AllocTensor" /\ HasIdleBuffer(c.on) ->
         ValidId(WaitInstr(FreeBufEvt[c.on], buf[IdleSlot(c.on)].freeBufEvtID))
    [] c.op = "EnQue" /\ local[c.on].handle # NoHandle ->
         IF buf[local[c.on].handle].state = "OCCUPIED" /\ VacantInQue(c.on)
           THEN ValidId(SetInstr(EnQueEvt[c.on], NextEventID(EnQueEvt[c.on]))) ELSE <<>>
    [] c.op = "DeQue" /\ HasTensorInQue(c.on) /\ buf[OldestSlot(c.on)].state = "ENQUE" ->
         ValidId(WaitInstr(EnQueEvt[c.on], buf[OldestSlot(c.on)].enQueEvtID))
    [] c.op = "FreeTensor" /\ local[c.on].handle # NoHandle ->
         IF buf[local[c.on].handle].state # "FREE"
           THEN ValidId(SetInstr(FreeBufEvt[c.on], NextEventID(FreeBufEvt[c.on]))) ELSE <<>>
    [] c.op = "SetFlag"  -> ValidId(SetInstr(c.on, eventVar[c.on]))
    [] c.op = "WaitFlag" -> ValidId(WaitInstr(c.on, eventVar[c.on]))
    [] c.op = "CopyIn"   -> DataInstr(c, "MTE2", NoTile, NoTile, Tile(local[c.on]))
    [] c.op = "Add"      -> DataInstr(c, "V", Tile(local["x"]), Tile(local["y"]), Tile(local[c.on]))
    [] c.op = "CopyOut"  -> DataInstr(c, "MTE3", Tile(local[c.on]), NoTile, NoTile)
    [] OTHER             -> <<>>

\* A call issues one instruction at most.
Reaches(p, issued) == issued # <<>> /\ issued[1].pipe = p

Issue ==
  /\ NextCall
  /\ LET issued == Issued(Kernel[pc])
     IN  fifo' = [p \in Pipe |-> IF Reaches(p, issued) THEN Append(fifo[p], issued[1])
                                                      ELSE fifo[p]]
  /\ UNCHANGED <<inFlight, seen, reg, ub, z>>

-----------------------------------------------------------------------------
(* The pipes.                                                              *)

Busy(p)  == fifo[p] # <<>>
First(p) == Head(fifo[p])

IsFlagOp(i) == i.op \in {"SetFlag", "WaitFlag"}

Granules(tile) == {tile[n] : n \in DOMAIN tile}

\* What an instruction reads and writes in local memory.
Sources(i) == IF IsFlagOp(i) THEN {} ELSE Granules(i.src0) \cup Granules(i.src1)
Targets(i) == IF IsFlagOp(i) THEN {} ELSE Granules(i.dst)

\* An instruction starts: it looks at its operands, and what it will write
\* holds neither the old nor the new value until it completes.
Start(p) ==
  LET i == First(p)
  IN  /\ Busy(p) /\ ~ IsFlagOp(i) /\ p \notin inFlight
      /\ inFlight' = inFlight \cup {p}
      /\ seen' = [seen EXCEPT ![p] = [g \in Sources(i) |-> ub[g]]]
      /\ ub' = [g \in Granule |-> IF g \in Targets(i) THEN Junk ELSE ub[g]]
      /\ UNCHANGED <<coreVars, pipeVars, runVars, fifo, reg, z>>

\* A source that changed while the instruction ran was read at any time; what
\* the instruction itself overwrites it read before.
Operands(p) ==
  [g \in Sources(First(p)) |-> IF seen[p][g] = ub[g] \/ g \in Targets(First(p))
                                 THEN seen[p][g] ELSE Junk]

\* The sum of element a of x and element b of y.
Added(a, b) == IF a[1] = "x" /\ b[1] = "y" /\ a[2] = b[2] THEN Sum(a[2]) ELSE Junk

\* Element n of what instruction i computes from the operands found.
Computed(i, found, n) ==
  CASE i.op = "CopyIn" -> IF i.on = "x" THEN X(i.first + n) ELSE Y(i.first + n)
    [] i.op = "Add"    -> IF n \in DOMAIN i.src0 \cap DOMAIN i.src1
                            THEN Added(found[i.src0[n]], found[i.src1[n]]) ELSE Junk

\* Local memory and the result once instruction i is done.
Stored(i, found, old) ==
  [g \in Granule |-> IF g \in Targets(i)
                       THEN Computed(i, found, CHOOSE n \in DOMAIN i.dst : i.dst[n] = g)
                       ELSE old[g]]

Delivered(i, found, global) ==
  IF i.op # "CopyOut" THEN global
  ELSE [k \in Index |-> IF k - i.first \in DOMAIN i.src0 THEN found[i.src0[k - i.first]]
                                                         ELSE global[k]]

Complete(p) ==
  LET i == First(p)
  IN  /\ p \in inFlight
      /\ ub' = Stored(i, Operands(p), ub)
      /\ z' = Delivered(i, Operands(p), z)
      /\ fifo' = [fifo EXCEPT ![p] = Tail(@)]
      /\ inFlight' = inFlight \ {p}
      /\ seen' = [seen EXCEPT ![p] = NothingSeen]
      /\ UNCHANGED <<coreVars, pipeVars, runVars, reg>>

\* A register that is full stays as it is.
Raise(p) ==
  LET i == First(p)
  IN  /\ Busy(p) /\ i.op = "SetFlag"
      /\ reg' = [reg EXCEPT ![i.evt][i.id] = Min({@ + 1, FLAG_MAX})]
      /\ fifo' = [fifo EXCEPT ![p] = Tail(@)]
      /\ UNCHANGED <<coreVars, pipeVars, runVars, inFlight, seen, ub, z>>

Await(p) ==
  LET i == First(p)
  IN  /\ Busy(p) /\ i.op = "WaitFlag"
      /\ reg[i.evt][i.id] > 0
      /\ reg' = [reg EXCEPT ![i.evt][i.id] = @ - 1]
      /\ fifo' = [fifo EXCEPT ![p] = Tail(@)]
      /\ UNCHANGED <<coreVars, pipeVars, runVars, inFlight, seen, ub, z>>

RunPipe(p) == Start(p) \/ Complete(p) \/ Raise(p) \/ Await(p)

-----------------------------------------------------------------------------

Drained == \A p \in Pipe : ~ Busy(p)

\* The kernel is over once its pipes are: the next block has a core of its
\* own, with its flags down, and the next launch a result vector of its own.
ReturnDrained == Drained /\ Return /\ UNCHANGED hwVars

StartBlock ==
  /\ NextBlock
  /\ reg' = Idle.reg
  /\ ub' = Idle.ub
  /\ UNCHANGED <<fifo, inFlight, seen, z>>

StartLaunch ==
  /\ NextLaunch
  /\ z' = [i \in 0 .. (Main[launch + 1].length - 1) |-> Unwritten]
  /\ UNCHANGED <<fifo, inFlight, seen, reg, ub>>

Finished == MainOver /\ UNCHANGED vars

Host == Issue \/ ReturnDrained \/ StartBlock \/ StartLaunch

Next == Host \/ (\E p \in Pipe : RunPipe(p)) \/ Finished

Init == RunInit /\ HwInit

\* The kernel's thread is never stopped, and neither is a pipe: what is at
\* the head of its queue starts, and completes.
Spec == Init /\ [][Next]_vars /\ WF_vars(Host) /\ \A p \in Pipe : WF_vars(RunPipe(p))

-----------------------------------------------------------------------------
(* Properties.                                                             *)

\* The example programs check their own report counts: every launch of main()
\* ends with the number of reports it expects.
AsDesigned == LaunchOver => syncErrors = Launch.reports

\* Program order hides a missing flag on the simulator, so it must be found by
\* the clocks: whenever the pipes can store a wrong element, whatever call was
\* forgotten or refused, the simulator has made a report by then.
WrongResultsAreReported ==
  \A i \in Index : z[i] \notin {Unwritten, Sum(i)} => syncErrors > 0

\* "the producer runs ahead as far as the number of buffers allows": MTE2 is
\* filling at most BUFFER_NUM tiles that V has not added yet.
RunAheadIsBounded ==
  "MTE2" \in inFlight =>
    \A n \in DOMAIN fifo["V"] :
      fifo["V"][n].op = "Add" => First("MTE2").tile - fifo["V"][n].tile < BUFFER_NUM

Lengths    == [l \in DOMAIN Launches |-> Launches[l].length]
Unreported == {l \in DOMAIN Launches : Launches[l].reports = 0}

\* The kernels the checker has nothing to say of compute the sum, all of it,
\* in every order in which the pipes may run; nothing is promised of the others.
Promise == INSTANCE VectorAdd WITH
  Length  <- Lengths,
  Trusted <- Unreported
ComputesTheSum == Promise!Spec

\* Every launch of main() comes to an end.
MainEnds == <>MainOver

\* Whatever part of a tensor it holds a kernel cuts out, an access that
\* CheckFits lets through stays inside the buffer behind the tensor: Buf2Tensor,
\* slices and the layout of InitBuffer agree on where it is.
SlicesStayInside ==
  \A t \in Queue :
    LET part == {n \in 0 .. local[t].dataLen : n % HALF_BLK = 0}
    IN  local[t].handle # NoHandle =>
          \A offset, bytes \in part :
            Fits(Slice(local[t], offset), bytes) =>
              Reach(Slice(local[t], offset), bytes) \subseteq BufferGranules(local[t].handle)

\* "SetFlag raised twice without an intervening WaitFlag" is an error of the
\* kernel: one the checker passes never raises a flag that is still up.
NoFlagRaisedTwice ==
  syncErrors = 0 => \A e \in Event, id \in EventId : reg[e][id] <= 1
=============================================================================
