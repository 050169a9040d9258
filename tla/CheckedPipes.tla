---------------------------- MODULE CheckedPipes ----------------------------
(***************************************************************************)
(* The simulator and the pipes side by side.  The simulator executes every *)
(* call at once, in program order, on a memory of its own; the pipes come  *)
(* to it later, each in its own time.  History variables keep what the     *)
(* simulator knew of an instruction that a pipe has not completed yet, so  *)
(* that what it accepts can be compared with what the pipes do.            *)
(*                                                                         *)
(* Nothing in ConcurrentPipes depends on them.                             *)
(***************************************************************************)
EXTENDS ConcurrentPipes

VARIABLES
  memory,    \* memory[g]: the simulator's local memory
  result,    \* result[i]: the simulator's z in global memory
  notes,     \* notes[p][n]: the note on instruction fifo[p][n]
  over,      \* over[p]: the clock of what pipe p completed last
  turns,     \* turns[e][id]: the raises of a flag issued, done, and waited for
  readers,   \* readers[g]: the pipes that read granule g in this block
  shared     \* two pipes read one granule in a block of this launch

history     == <<memory, result, notes, over, turns, readers, shared>>
checkedVars == <<vars, history>>

\* at: its place in the program; row: what the simulator takes to be over
\* when it is; turn: which raise of its flag a flag operation makes or awaits;
\* found: the operands the simulator read.
Note(i, p) ==
  [at    |-> pc,
   row   |-> Snapshot(p)',
   turn  |-> CASE i.op = "SetFlag"  -> turns[i.evt][i.id].issued + 1
               [] i.op = "WaitFlag" -> turns[i.evt][i.id].issued
               [] OTHER             -> 0,
   found |-> [g \in Sources(i) |-> memory[g]]]

Unraised == [issued |-> 0, done |-> 0, awaited |-> 0]

Blank ==
  [notes   |-> [p \in Pipe |-> <<>>],
   over    |-> [p \in Pipe |-> 0],
   turns   |-> [e \in Event |-> [id \in EventId |-> Unraised]],
   readers |-> [g \in Granule |-> {}]]

HistoryInit ==
  /\ memory = Idle.ub
  /\ result = [i \in Index |-> Unwritten]
  /\ notes = Blank.notes
  /\ over = Blank.over
  /\ turns = Blank.turns
  /\ readers = Blank.readers
  /\ shared = FALSE

Shared(g) == \E p, q \in readers[g] : p # q

-----------------------------------------------------------------------------
(* What each step adds to the history.                                     *)

\* The simulator executes the instruction the call issued, if any.
Execute(i) ==
  /\ memory' = Stored(i, memory, memory)
  /\ result' = Delivered(i, memory, result)
  /\ notes' = [p \in Pipe |-> IF p = i.pipe THEN Append(notes[p], Note(i, p)) ELSE notes[p]]
  /\ turns' = IF i.op = "SetFlag" THEN [turns EXCEPT ![i.evt][i.id].issued = @ + 1] ELSE turns
  /\ readers' = [g \in Granule |-> IF g \in Sources(i) THEN readers[g] \cup {i.pipe}
                                                       ELSE readers[g]]
  /\ shared' = (shared \/ \E g \in Granule : Shared(g)')
  /\ UNCHANGED over

IssueChecked ==
  /\ Issue
  /\ LET issued == Issued(Kernel[pc])
     IN  IF issued = <<>> THEN UNCHANGED history ELSE Execute(issued[1])

\* Pipe p is done with its first instruction.
PassOver(p) ==
  /\ notes' = [notes EXCEPT ![p] = Tail(@)]
  /\ over' = [over EXCEPT ![p] = Head(notes[p]).row[p]]
  /\ UNCHANGED <<memory, result, readers, shared>>

CompleteChecked(p) == Complete(p) /\ PassOver(p) /\ UNCHANGED turns

RaiseChecked(p) ==
  /\ Raise(p)
  /\ PassOver(p)
  /\ turns' = [turns EXCEPT ![First(p).evt][First(p).id].done = Head(notes[p]).turn]

AwaitChecked(p) ==
  /\ Await(p)
  /\ PassOver(p)
  /\ turns' = [turns EXCEPT ![First(p).evt][First(p).id].awaited = Head(notes[p]).turn]

StartBlockChecked ==
  /\ StartBlock
  /\ memory' = Idle.ub
  /\ notes' = Blank.notes
  /\ over' = Blank.over
  /\ turns' = Blank.turns
  /\ readers' = Blank.readers
  /\ UNCHANGED <<result, shared>>

StartLaunchChecked ==
  /\ StartLaunch
  /\ result' = z'
  /\ shared' = FALSE
  /\ UNCHANGED <<memory, notes, over, turns, readers>>

CheckedInit == Init /\ HistoryInit

CheckedNext ==
  \/ IssueChecked
  \/ ReturnDrained /\ UNCHANGED history
  \/ StartBlockChecked
  \/ StartLaunchChecked
  \/ \E p \in Pipe : \/ Start(p) /\ UNCHANGED history
                     \/ CompleteChecked(p)
                     \/ RaiseChecked(p)
                     \/ AwaitChecked(p)
  \/ Finished /\ UNCHANGED history

CheckedSpec ==
  CheckedInit /\ [][CheckedNext]_checkedVars
    /\ WF_vars(Host) /\ \A p \in Pipe : WF_vars(RunPipe(p))

-----------------------------------------------------------------------------
(* Properties.                                                             *)

\* The pipes keep every order the clocks accept: as long as nothing was
\* reported, an instruction runs only when every instruction before it that
\* wrote what it touches is over, and so is every one that read what it writes;
\* the one exception is a granule two pipes read, of which the simulator
\* remembers the last reader only.
AcceptedOrderIsKept ==
  syncErrors = 0 =>
    \A p \in inFlight, q \in Pipe : p # q =>
      \A n \in DOMAIN fifo[q], g \in Granule : notes[q][n].at < notes[p][1].at =>
        /\ g \in Targets(fifo[q][n]) => g \notin Sources(First(p)) \cup Targets(First(p))
        /\ g \in Sources(fifo[q][n]) /\ g \in Targets(First(p)) => Shared(g)

\* What passes the checker computes on the pipes, in every order they may run
\* in, what it computed on the simulator: the same result, and in each block the
\* same local memory.
SameAsSimulated ==
  syncErrors = 0 /\ ~ shared /\ Drained =>
    /\ z = result
    /\ ~ destroyed => ub = memory

\* What a test on the simulator shows of a main program, in program order: until
\* something is reported the results that come out are sums, no granule has
\* two readers, and a launch that is to end without a report makes none and
\* leaves no element out.
SimulatorIsRight ==
  /\ syncErrors = 0 => ~ shared /\ \A i \in Index : result[i] \in {Unwritten, Sum(i)}
  /\ launch \in Unreported =>
       /\ syncErrors = 0
       /\ LaunchOver => \A i \in Index : result[i] = Sum(i)

\* No raise was lost: every register counts the raises done and not awaited yet.
RaisesKept ==
  \A e \in Event, id \in EventId :
    reg[e][id] + turns[e][id].awaited = turns[e][id].done

\* Nothing keeps pipe p from going on with its first instruction.
CanGo(p) ==
  Busy(p) /\ (First(p).op = "WaitFlag" => reg[First(p).evt][First(p).id] > 0)

\* The pipes do not wait for each other in a circle, and none waits for a flag
\* that nobody is going to raise: as long as nothing was reported and no register
\* was too full to be raised, what is not over goes on.  The simulator cannot
\* show this: it never waits, DeQue and AllocTensor run straight through.
PipesMoveOn ==
  syncErrors = 0 /\ RaisesKept /\ ~ Drained => \E p \in Pipe : CanGo(p)
=============================================================================
