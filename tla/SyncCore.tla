------------------------------ MODULE SyncCore ------------------------------
(***************************************************************************)
(* One simulated AI core as the race checker sees it (kernel_common.h):    *)
(* the clock of every pipe, what every pipe has observed of the others,    *)
(* the event flags, and for every 32-byte granule of local memory who      *)
(* touched it last.  Every instruction and every flag operation of the     *)
(* simulator is a function of this state.                                  *)
(*                                                                         *)
(* The operators below give the next value of each variable, so that an    *)
(* operation that makes several of these calls (EnQue, an Add with three   *)
(* operands) is still a single step.  Abort mode is left out: it ends the  *)
(* process at the first report, so its behaviours are prefixes of those    *)
(* of Report mode.                                                         *)
(***************************************************************************)
EXTENDS Integers

CONSTANTS
  Pipe,           \* the pipes of the core
  Event,          \* the hardware events in use
  EventSrcPipe,   \* event -> the pipe that raises it
  EventDstPipe,   \* event -> the pipe that waits for it
  EVENT_ID_NUM,   \* flag registers per event
  Granule,        \* the 32-byte granules of local memory
  NoPipe          \* PipeId::MAX in a granule: nobody yet

ASSUME SyncCoreAssumption ==
  /\ EventSrcPipe \in [Event -> Pipe]
  /\ EventDstPipe \in [Event -> Pipe]
  /\ EVENT_ID_NUM \in Nat \ {0}
  /\ NoPipe \notin Pipe

EventId          == 0 .. (EVENT_ID_NUM - 1)
INVALID_TEVENTID == -1

VARIABLES
  clock,       \* clock[p]: instructions issued on pipe p
  view,        \* view[p][q]: how much of q's history p has observed
  flags,       \* flags[e][id]: the event slot, a raised bit and a snapshot
  gran,        \* gran[g]: last writer and last reader of a granule
  checkMode,   \* "Report" or "Off"
  syncErrors   \* reports made so far

coreVars == <<clock, view, flags, gran, checkMode, syncErrors>>

EventSlot   == [pending : BOOLEAN, snapshot : [Pipe -> Nat]]
GranuleInfo == [writer : Pipe \cup {NoPipe}, clock : Nat,
                reader : Pipe \cup {NoPipe}, readClock : Nat]

\* Mutant: granules cleared like the rest, to zero, which is PipeId::S.
UntouchedZeroed == [writer |-> "S", clock |-> 0, reader |-> "S", readClock |-> 0]

Untouched == [writer |-> NoPipe, clock |-> 0, reader |-> NoPipe, readClock |-> 0]
Lowered   == [pending |-> FALSE, snapshot |-> [p \in Pipe |-> 0]]

CoreTypeOK ==
  /\ clock \in [Pipe -> Nat]
  /\ view \in [Pipe -> [Pipe -> Nat]]
  /\ flags \in [Event -> [EventId -> EventSlot]]
  /\ gran \in [Granule -> GranuleInfo]
  /\ checkMode \in {"Off", "Report"}
  /\ syncErrors \in Nat

\* A freshly reset core: everything CoreState::Reset clears.
Fresh ==
  [clock |-> [p \in Pipe |-> 0],
   view  |-> [p \in Pipe |-> [q \in Pipe |-> 0]],
   flags |-> [e \in Event |-> [id \in EventId |-> Lowered]],
   gran  |-> [g \in Granule |-> Untouched]]

CoreInit ==
  /\ clock = Fresh.clock
  /\ view = Fresh.view
  /\ flags = Fresh.flags
  /\ gran = Fresh.gran
  /\ checkMode = "Report"
  /\ syncErrors = 0

-----------------------------------------------------------------------------
(* Reports.  n is the number of diagnostics a call produces.               *)

ReportSyncErrors(n) ==
  syncErrors' = IF checkMode = "Off" THEN syncErrors ELSE syncErrors + n

OneIf(bad) == IF bad THEN 1 ELSE 0

-----------------------------------------------------------------------------
(* Memory accesses.  G is the granule table at the moment of the touch: an *)
(* instruction with several operands touches them one after the other.     *)

\* Mutant: an observed tick still counts as missing.
NotYetObservedOffByOne(p, who, tick) ==
  who \notin {NoPipe, p} /\ view[p][who] <= tick

\* Mutant: the comparison the wrong way round.
NotYetObservedSwapped(p, who, tick) ==
  who \notin {NoPipe, p} /\ tick < view[p][who]

NotYetObserved(p, who, tick) ==
  who \notin {NoPipe, p} /\ view[p][who] < tick

\* Mutant: a write is compared with the last reader only.
CheckAccessNoWAW(G, p, gs, isWrite) ==
  OneIf(\E g \in gs :
          \/ ~ isWrite /\ NotYetObserved(p, G[g].writer, G[g].clock)
          \/ isWrite /\ NotYetObserved(p, G[g].reader, G[g].readClock))

\* Mutant: reads are not checked, program order has them right anyway.
CheckAccessWritesOnly(G, p, gs, isWrite) ==
  OneIf(\E g \in gs :
          /\ isWrite
          /\ \/ NotYetObserved(p, G[g].writer, G[g].clock)
             \/ NotYetObserved(p, G[g].reader, G[g].readClock))

\* One touch reports at most once, whatever the number of granules.
CheckAccess(G, p, gs, isWrite) ==
  OneIf(\E g \in gs :
          \/ NotYetObserved(p, G[g].writer, G[g].clock)
          \/ isWrite /\ NotYetObserved(p, G[g].reader, G[g].readClock))

\* Mutant: the first reader after a write is kept, not the last.
RecordFirstRead(G, p, gs, tick) ==
  [g \in Granule |->
     IF g \in gs /\ G[g].reader = NoPipe
       THEN [G[g] EXCEPT !.reader = p, !.readClock = tick] ELSE G[g]]

RecordRead(G, p, gs, tick) ==
  [g \in Granule |->
     IF g \in gs THEN [G[g] EXCEPT !.reader = p, !.readClock = tick] ELSE G[g]]

\* Mutant: the end of the range is rounded down and the last granule missed.
RecordWriteShort(G, p, gs, tick) ==
  [g \in Granule |->
     IF g \in gs /\ \E k \in gs : k > g
       THEN [writer |-> p, clock |-> tick, reader |-> NoPipe, readClock |-> 0] ELSE G[g]]

RecordWrite(G, p, gs, tick) ==
  [g \in Granule |->
     IF g \in gs THEN [writer |-> p, clock |-> tick, reader |-> NoPipe, readClock |-> 0]
                 ELSE G[g]]

\* An instruction on pipe p that reads the granules of src0, then those of
\* src1, then writes those of dst; an operand it does not have is {}.
\* Two reads and a write is Add; one of each is Adds; a write alone is the
\* copy in, Duplicate or SetValue; a read alone is the copy out or GetValue.
\* refused counts the operand checks (length, DMA alignment) that failed: the
\* code reports them and issues the instruction all the same.
AfterSrc0(p, src0)       == RecordRead(gran, p, src0, clock[p] + 1)
AfterSrc1(p, src0, src1) == RecordRead(AfterSrc0(p, src0), p, src1, clock[p] + 1)

TouchErrors(p, src0, src1, dst) ==
  <<CheckAccess(gran, p, src0, FALSE),
    CheckAccess(AfterSrc0(p, src0), p, src1, FALSE),
    CheckAccess(AfterSrc1(p, src0, src1), p, dst, TRUE)>>

Instruction(p, src0, src1, dst, refused) ==
  LET touch == TouchErrors(p, src0, src1, dst)
  IN  /\ clock' = [clock EXCEPT ![p] = @ + 1]
      /\ gran' = IF checkMode = "Off" THEN gran
                 ELSE RecordWrite(AfterSrc1(p, src0, src1), p, dst, clock[p] + 1)
      /\ ReportSyncErrors(refused + touch[1] + touch[2] + touch[3])
      /\ UNCHANGED <<view, flags, checkMode>>

-----------------------------------------------------------------------------
(* Flags.                                                                  *)

\* Mutant: the row is copied, but not the pipe's own clock.
SnapshotWithoutOwn(p) == view[p]

\* What a pipe publishes: what it has observed, and all it has issued.
Snapshot(p) == [view[p] EXCEPT ![p] = clock[p]]

SetFlagErrors(e, id) == OneIf(id \notin EventId \/ flags[e][id].pending)

FlagsAfterSet(e, id) ==
  IF id \in EventId
    THEN [flags EXCEPT ![e][id] = [pending |-> TRUE, snapshot |-> Snapshot(EventSrcPipe[e])]]
    ELSE flags

SetFlag(e, id) ==
  /\ flags' = FlagsAfterSet(e, id)
  /\ ReportSyncErrors(SetFlagErrors(e, id))
  /\ UNCHANGED <<clock, view, gran, checkMode>>

Raised(e, id) == id \in EventId /\ flags[e][id].pending

WaitFlagErrors(e, id) == OneIf(~ Raised(e, id))

\* Mutant: the other bound.
Smaller(m, n) == IF m < n THEN m ELSE n

Larger(m, n) == IF m > n THEN m ELSE n

ViewAfterWait(e, id) ==
  IF Raised(e, id)
    THEN [view EXCEPT ![EventDstPipe[e]] =
            [p \in Pipe |-> Larger(flags[e][id].snapshot[p], @[p])]]
    ELSE view

\* Mutant: the flag stays up.
FlagsStayRaised(e, id) == flags

FlagsAfterWait(e, id) ==
  IF Raised(e, id) THEN [flags EXCEPT ![e][id].pending = FALSE] ELSE flags

WaitFlag(e, id) ==
  /\ view' = ViewAfterWait(e, id)
  /\ flags' = FlagsAfterWait(e, id)
  /\ ReportSyncErrors(WaitFlagErrors(e, id))
  /\ UNCHANGED <<clock, gran, checkMode>>

-----------------------------------------------------------------------------
(* The host side of a kernel.                                              *)

\* Mutant: the granules survive into the next block.
KernelLaunchKeepsGranules ==
  /\ clock' = Fresh.clock
  /\ view' = Fresh.view
  /\ flags' = Fresh.flags
  /\ UNCHANGED <<gran, checkMode, syncErrors>>

\* Mutant: the flags survive into the next block.
KernelLaunchKeepsFlags ==
  /\ clock' = Fresh.clock
  /\ view' = Fresh.view
  /\ gran' = Fresh.gran
  /\ UNCHANGED <<flags, checkMode, syncErrors>>

\* KernelLaunch puts every block on a reset core and keeps mode and errors.
KernelLaunch ==
  /\ clock' = Fresh.clock
  /\ view' = Fresh.view
  /\ flags' = Fresh.flags
  /\ gran' = Fresh.gran
  /\ UNCHANGED <<checkMode, syncErrors>>

SetSyncCheck(mode) ==
  /\ checkMode' = mode
  /\ UNCHANGED <<clock, view, flags, gran, syncErrors>>

ClearSyncErrors ==
  /\ syncErrors' = 0
  /\ UNCHANGED <<clock, view, flags, gran, checkMode>>
=============================================================================
