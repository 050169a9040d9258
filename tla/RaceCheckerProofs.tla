------------------------- MODULE RaceCheckerProofs --------------------------
(***************************************************************************)
(* For any pipes, events, granules and any program: the core stays well    *)
(* typed, nobody observes the future, the vector clocks implement the      *)
(* sets of CausalHistory, and the alarms are the races.                    *)
(***************************************************************************)
EXTENDS RaceChecker, SyncCoreProofs, SequenceTheorems

\* An instruction of any kind is an Issue on one pipe.
SomeIssue ==
  \E p \in Pipe, src0, src1, dst \in SUBSET Granule, n \in Nat : Issue(p, src0, src1, dst, n)

LEMMA InstructionsIssue == KernelInstruction => SomeIssue
<1> SUFFICES ASSUME KernelInstruction PROVE SomeIssue
  OBVIOUS
<1> USE RaceCheckerAssumption DEF SomeIssue, Operand
<1>1. CASE \E gs \in Operand, n \in Refusals : DataCopyIn(gs, n) \/ DataCopyOut(gs, n)
  BY <1>1 DEF DataCopyIn, DataCopyOut
<1>2. CASE \E dst, src0, src1 \in Operand, n \in Refusals : VecBinary(dst, src0, src1, n)
  BY <1>2 DEF VecBinary
<1>3. CASE \E dst, src \in Operand, n \in Refusals : VecScalar(dst, src, n)
  BY <1>3 DEF VecScalar
<1>4. CASE \E dst \in Operand, n \in Refusals : Duplicate(dst, n)
  BY <1>4 DEF Duplicate
<1>5. CASE \E g \in Granule : GetValue(g) \/ SetValue(g)
  BY <1>5 DEF GetValue, SetValue
<1>6. CASE GlobalTensorValue
  BY <1>6 DEF GlobalTensorValue
<1> QED
  BY <1>1, <1>2, <1>3, <1>4, <1>5, <1>6 DEF KernelInstruction

-----------------------------------------------------------------------------
(* Type correctness.                                                       *)

LEMMA HostTyped ==
  ASSUME CoreTypeOK, Host
  PROVE  CoreTypeOK'
<1>1. CASE Launch
  BY <1>1, FreshTyped DEF Launch, KernelLaunch, CoreTypeOK
<1>2. CASE \E mode \in Modes : SetSyncCheck(mode)
  BY <1>2, RaceCheckerAssumption DEF SetSyncCheck, CoreTypeOK
<1>3. CASE ClearSyncErrors
  BY <1>3 DEF ClearSyncErrors, CoreTypeOK
<1> QED
  BY <1>1, <1>2, <1>3 DEF Host

-----------------------------------------------------------------------------
(* Nobody sees the future.  Types are needed to compare clocks at all, so  *)
(* the two are one inductive invariant.                                    *)

Inv == CoreTypeOK /\ NobodySeesTheFuture

LEMMA FreshInThePast ==
  ASSUME clock = Fresh.clock, view = Fresh.view, flags = Fresh.flags, gran = Fresh.gran
  PROVE  NobodySeesTheFuture
  BY SyncCoreAssumption DEF Fresh, Lowered, Untouched, NobodySeesTheFuture, TicksIssued

LEMMA RecordReadIssued ==
  ASSUME NEW c \in [Pipe -> Nat], NEW G \in [Granule -> GranuleInfo], TicksIssued(G, c),
         NEW p \in Pipe, c[p] >= 1, NEW gs
  PROVE  TicksIssued(RecordRead(G, p, gs, c[p]), c)
  BY SyncCoreAssumption DEF TicksIssued, RecordRead, GranuleInfo

LEMMA RecordWriteIssued ==
  ASSUME NEW c \in [Pipe -> Nat], NEW G \in [Granule -> GranuleInfo], TicksIssued(G, c),
         NEW p \in Pipe, c[p] >= 1, NEW gs
  PROVE  TicksIssued(RecordWrite(G, p, gs, c[p]), c)
  BY SyncCoreAssumption DEF TicksIssued, RecordWrite, GranuleInfo

LEMMA InstructionInThePast ==
  ASSUME Inv, NEW p \in Pipe, NEW src0, NEW src1, NEW dst, NEW n,
         Instruction(p, src0, src1, dst, n)
  PROVE  NobodySeesTheFuture'
<1> DEFINE c == [clock EXCEPT ![p] = @ + 1]
<1>1. c \in [Pipe -> Nat] /\ c[p] = clock[p] + 1 /\ c[p] >= 1
  BY DEF Inv, CoreTypeOK
<1>2. \A q \in Pipe : clock[q] <= c[q]
  BY DEF Inv, CoreTypeOK
<1>3. clock' = c
  BY DEF Instruction
<1>4. TicksIssued(gran, c)
  BY <1>1, <1>2 DEF Inv, NobodySeesTheFuture, TicksIssued, CoreTypeOK, GranuleInfo
<1>5. AfterSrc0(p, src0) \in [Granule -> GranuleInfo] /\ TicksIssued(AfterSrc0(p, src0), c)
  BY <1>1, <1>4, RecordReadTyped, RecordReadIssued DEF AfterSrc0, Inv, CoreTypeOK
<1>6. /\ AfterSrc1(p, src0, src1) \in [Granule -> GranuleInfo]
      /\ TicksIssued(AfterSrc1(p, src0, src1), c)
  BY <1>1, <1>5, RecordReadTyped, RecordReadIssued DEF AfterSrc1
<1>7. TicksIssued(gran', c)
  BY <1>1, <1>4, <1>6, RecordWriteIssued DEF Instruction
<1>8. \A q, r \in Pipe : view'[q][r] <= clock'[r]
  BY <1>1, <1>2, <1>3 DEF Instruction, Inv, NobodySeesTheFuture, CoreTypeOK
<1>9. \A e \in Event, id \in EventId, q \in Pipe : flags'[e][id].snapshot[q] <= clock'[q]
  BY <1>1, <1>2, <1>3 DEF Instruction, Inv, NobodySeesTheFuture, CoreTypeOK, EventSlot
<1> QED
  BY <1>3, <1>7, <1>8, <1>9 DEF NobodySeesTheFuture

LEMMA SetFlagInThePast ==
  ASSUME Inv, NEW e \in Event, NEW id, SetFlag(e, id)
  PROVE  NobodySeesTheFuture'
<1>1. EventSrcPipe[e] \in Pipe
  BY SyncCoreAssumption
<1>2. \A q \in Pipe : Snapshot(EventSrcPipe[e])[q] <= clock[q]
  BY <1>1 DEF Snapshot, Inv, CoreTypeOK, NobodySeesTheFuture
<1>3. \A f \in Event, k \in EventId, q \in Pipe : flags'[f][k].snapshot[q] <= clock[q]
  BY <1>2 DEF SetFlag, FlagsAfterSet, Inv, CoreTypeOK, EventSlot, NobodySeesTheFuture
<1> QED
  BY <1>3 DEF SetFlag, Inv, NobodySeesTheFuture

LEMMA WaitFlagInThePast ==
  ASSUME Inv, NEW e \in Event, NEW id, WaitFlag(e, id)
  PROVE  NobodySeesTheFuture'
<1>1. EventDstPipe[e] \in Pipe
  BY SyncCoreAssumption
<1>2. \A p, q \in Pipe : view'[p][q] <= clock[q]
  BY <1>1 DEF WaitFlag, ViewAfterWait, Raised, Larger, Inv, CoreTypeOK, EventSlot,
              NobodySeesTheFuture
<1>3. \A f \in Event, k \in EventId : flags'[f][k].snapshot = flags[f][k].snapshot
  BY DEF WaitFlag, FlagsAfterWait, Raised, Inv, CoreTypeOK, EventSlot
<1> QED
  BY <1>2, <1>3 DEF WaitFlag, Inv, NobodySeesTheFuture

LEMMA LaunchInThePast ==
  ASSUME Launch
  PROVE  NobodySeesTheFuture'
  BY SyncCoreAssumption
  DEF Launch, KernelLaunch, Fresh, Lowered, Untouched, NobodySeesTheFuture, TicksIssued

LEMMA InvInit == Init => Inv
  BY FreshTyped, FreshInThePast DEF Init, CoreInit, Inv, CoreTypeOK

LEMMA InvStep == Inv /\ [Next]_vars => Inv'
<1> SUFFICES ASSUME Inv, [Next]_vars PROVE Inv'
  OBVIOUS
<1>1. CASE KernelInstruction
  <2>1. PICK p \in Pipe, src0, src1, dst \in SUBSET Granule, n \in Nat :
          Issue(p, src0, src1, dst, n)
    BY <1>1, InstructionsIssue DEF SomeIssue
  <2>2. Instruction(p, src0, src1, dst, n)
    BY <2>1 DEF Issue
  <2> QED
    BY <2>2, InstructionTyped, InstructionInThePast DEF Inv
<1>2. CASE \E e \in Event, id \in AnyEventID : Signal(e, id)
  BY <1>2, SetFlagTyped, SetFlagInThePast DEF Signal, Inv
<1>3. CASE \E e \in Event, id \in AnyEventID : Await(e, id)
  BY <1>3, WaitFlagTyped, WaitFlagInThePast DEF Await, Inv
<1>4. CASE Launch
  BY <1>4, HostTyped, LaunchInThePast DEF Inv, Host
<1>5. CASE Host /\ ~ Launch
  <2>1. NobodySeesTheFuture'
    BY <1>5 DEF Host, SetSyncCheck, ClearSyncErrors, Inv, NobodySeesTheFuture
  <2> QED
    BY <1>5, <2>1, HostTyped DEF Inv
<1>6. CASE UNCHANGED vars
  BY <1>6 DEF vars, coreVars, Inv, CoreTypeOK, NobodySeesTheFuture
<1> QED
  BY <1>1, <1>2, <1>3, <1>4, <1>5, <1>6 DEF Next

LEMMA InvAlways == Spec => []Inv
  BY InvInit, InvStep, PTL DEF Spec

-----------------------------------------------------------------------------
(* The clocks implement the sets.                                          *)

LEMMA UpToMembers ==
  ASSUME NEW row, NEW x
  PROVE  x \in UpTo(row) <=> \E q \in Pipe, t \in Int : t \in 1 .. row[q] /\ x = <<q, t>>
  BY DEF UpTo

LEMMA UpToNothing ==
  ASSUME NEW row, \A q \in Pipe : row[q] = 0
  PROVE  UpTo(row) = {}
  BY UpToMembers

LEMMA UpToNext ==
  ASSUME NEW row \in [Pipe -> Nat], NEW p \in Pipe
  PROVE  UpTo([row EXCEPT ![p] = row[p] + 1]) = UpTo(row) \cup {<<p, row[p] + 1>>}
<1> DEFINE next == [row EXCEPT ![p] = row[p] + 1]
<1>1. next[p] = row[p] + 1 /\ \A q \in Pipe : q # p => next[q] = row[q]
  OBVIOUS
<1>2. 1 .. (row[p] + 1) = (1 .. row[p]) \cup {row[p] + 1}
  OBVIOUS
<1> HIDE DEF next
<1>3. ASSUME NEW x \in UpTo(next) PROVE x \in UpTo(row) \cup {<<p, row[p] + 1>>}
  <2>1. PICK q \in Pipe, t \in Int : t \in 1 .. next[q] /\ x = <<q, t>>
    BY <1>3, UpToMembers
  <2>2. t \in 1 .. row[q] \/ (q = p /\ t = row[p] + 1)
    BY <1>1, <1>2, <2>1
  <2> QED
    BY <2>1, <2>2, UpToMembers
<1>4. ASSUME NEW x \in UpTo(row) PROVE x \in UpTo(next)
  <2>1. PICK q \in Pipe, t \in Int : t \in 1 .. row[q] /\ x = <<q, t>>
    BY <1>4, UpToMembers
  <2>2. t \in 1 .. next[q]
    BY <1>1, <1>2, <2>1
  <2> QED
    BY <2>1, <2>2, UpToMembers
<1>5. <<p, row[p] + 1>> \in UpTo(next)
  <2>1. row[p] + 1 \in 1 .. next[p]
    BY <1>1, <1>2
  <2> QED
    BY <2>1, UpToMembers
<1>6. UpTo(next) = UpTo(row) \cup {<<p, row[p] + 1>>}
  BY <1>3, <1>4, <1>5
<1> QED
  BY <1>6 DEF next

LEMMA UpToLarger ==
  ASSUME NEW a \in [Pipe -> Nat], NEW b \in [Pipe -> Nat], NEW c,
         \A q \in Pipe : c[q] = Larger(a[q], b[q])
  PROVE  UpTo(c) = UpTo(a) \cup UpTo(b)
<1>1. \A q \in Pipe : 1 .. c[q] = (1 .. a[q]) \cup (1 .. b[q])
  <2> TAKE q \in Pipe
  <2>1. a[q] \in Nat /\ b[q] \in Nat /\ c[q] = Larger(a[q], b[q])
    OBVIOUS
  <2> QED
    BY <2>1 DEF Larger
<1>2. ASSUME NEW x PROVE x \in UpTo(c) <=> x \in UpTo(a) \/ x \in UpTo(b)
  BY <1>1, UpToMembers
<1> QED
  BY <1>2

\* The next three say what each kind of step does under the mapping.

LEMMA InstructionIsIssue ==
  ASSUME CoreTypeOK, NEW p \in Pipe, NEW src0, NEW src1, NEW dst, NEW n,
         Instruction(p, src0, src1, dst, n)
  PROVE  History!Issue(p)
<1>1. clock' = [clock EXCEPT ![p] = @ + 1] /\ view' = view /\ flags' = flags
  BY DEF Instruction
<1>2. ObservedRow(p) \in [Pipe -> Nat] /\ ObservedRow(p)[p] = clock[p]
  BY DEF ObservedRow, CoreTypeOK
<1>3. ObservedRow(p)' = [ObservedRow(p) EXCEPT ![p] = ObservedRow(p)[p] + 1]
  BY <1>1, <1>2 DEF ObservedRow, CoreTypeOK
<1>4. Observed(p)' = Observed(p) \cup {<<p, clock[p] + 1>>}
  BY <1>2, <1>3, UpToNext DEF Observed
<1>5. \A q \in Pipe : q # p => Observed(q)' = Observed(q)
  <2> SUFFICES ASSUME NEW q \in Pipe, q # p PROVE Observed(q)' = Observed(q)
    OBVIOUS
  <2>1. ObservedRow(q)' = ObservedRow(q)
    BY <1>1 DEF ObservedRow, CoreTypeOK
  <2> QED
    BY <2>1 DEF Observed
<1>6. [q \in Pipe |-> Observed(q)]' =
        [[q \in Pipe |-> Observed(q)] EXCEPT ![p] = @ \cup {<<p, clock[p] + 1>>}]
  BY <1>4, <1>5
<1>7. UNCHANGED [e \in Event |-> [id \in EventId |-> InSnapshot(flags[e][id])]]
  BY <1>1
<1> QED
  BY <1>1, <1>6, <1>7 DEF History!Issue

LEMMA SetFlagIsPublish ==
  ASSUME CoreTypeOK, NEW e \in Event, NEW id \in EventId, SetFlag(e, id)
  PROVE  History!Publish(e, id)
<1>1. EventSrcPipe[e] \in Pipe
  BY SyncCoreAssumption
<1>2. Snapshot(EventSrcPipe[e]) = ObservedRow(EventSrcPipe[e])
  BY <1>1 DEF Snapshot, ObservedRow, CoreTypeOK
<1>3. /\ flags'[e][id].pending
      /\ flags'[e][id].snapshot = Snapshot(EventSrcPipe[e])
      /\ \A f \in Event, k \in EventId : <<f, k>> # <<e, id>> => flags'[f][k] = flags[f][k]
  BY DEF SetFlag, FlagsAfterSet, CoreTypeOK
<1>4. InSnapshot(flags'[e][id]) = Observed(EventSrcPipe[e])
  BY <1>2, <1>3 DEF InSnapshot, Observed
<1> DEFINE carried == [f \in Event |-> [k \in EventId |-> InSnapshot(flags[f][k])]]
<1>5. carried' = [carried EXCEPT ![e][id] = Observed(EventSrcPipe[e])]
  <2>1. \A f \in Event, k \in EventId :
          InSnapshot(flags'[f][k]) =
            IF <<f, k>> = <<e, id>> THEN Observed(EventSrcPipe[e]) ELSE InSnapshot(flags[f][k])
    BY <1>3, <1>4
  <2> QED
    BY <2>1
<1>6. clock' = clock /\ view' = view
  BY DEF SetFlag
<1>7. \A p \in Pipe : Observed(p)' = Observed(p)
  BY <1>6 DEF Observed, ObservedRow
<1>8. [p \in Pipe |-> Observed(p)]' = [p \in Pipe |-> Observed(p)]
  BY <1>7
<1>9. [p \in Pipe |-> Observed(p)][EventSrcPipe[e]] = Observed(EventSrcPipe[e])
  BY <1>1
<1> QED
  BY <1>5, <1>6, <1>8, <1>9 DEF History!Publish

LEMMA WaitFlagIsInherit ==
  ASSUME Inv, NEW e \in Event, NEW id \in EventId, flags[e][id].pending, WaitFlag(e, id)
  PROVE  History!Inherit(e, id)
<1> DEFINE p    == EventDstPipe[e]
           sent == flags[e][id].snapshot
<1>1. p \in Pipe /\ sent \in [Pipe -> Nat]
  BY SyncCoreAssumption DEF Inv, CoreTypeOK, EventSlot
<1>2. clock' = clock /\ Raised(e, id)
  BY DEF WaitFlag, Raised
<1>3. \A q \in Pipe : view'[p][q] = Larger(sent[q], view[p][q])
  BY <1>1, <1>2 DEF WaitFlag, ViewAfterWait, Inv, CoreTypeOK
<1>4. \A q \in Pipe : q # p => view'[q] = view[q]
  BY <1>1, <1>2 DEF WaitFlag, ViewAfterWait, Inv, CoreTypeOK
<1>5. /\ ~ flags'[e][id].pending
      /\ \A f \in Event, k \in EventId : <<f, k>> # <<e, id>> => flags'[f][k] = flags[f][k]
  BY <1>2 DEF WaitFlag, FlagsAfterWait, Inv, CoreTypeOK, EventSlot
<1>6. sent[p] <= clock[p]
  BY <1>1 DEF Inv, NobodySeesTheFuture
<1>7. ObservedRow(p) \in [Pipe -> Nat]
  BY <1>1 DEF ObservedRow, Inv, CoreTypeOK
<1>8. \A q \in Pipe : ObservedRow(p)'[q] = Larger(ObservedRow(p)[q], sent[q])
  <2> TAKE q \in Pipe
  <2>1. clock[q] \in Nat /\ sent[q] \in Nat /\ view[p][q] \in Nat
    BY <1>1 DEF Inv, CoreTypeOK
  <2> QED
    BY <1>1, <1>2, <1>3, <1>6, <2>1 DEF ObservedRow, Larger
<1>9. Observed(p)' = Observed(p) \cup UpTo(sent)
  <2> HIDE DEF p, sent
  <2> QED
    BY <1>1, <1>7, <1>8, UpToLarger DEF Observed
<1>10. \A q \in Pipe : q # p => Observed(q)' = Observed(q)
  <2> SUFFICES ASSUME NEW q \in Pipe, q # p PROVE Observed(q)' = Observed(q)
    OBVIOUS
  <2>1. ObservedRow(q)' = ObservedRow(q)
    BY <1>2, <1>4 DEF ObservedRow
  <2> QED
    BY <2>1 DEF Observed
<1> DEFINE carried == [f \in Event |-> [k \in EventId |-> InSnapshot(flags[f][k])]]
<1>11. carried[e][id] = UpTo(sent) /\ InSnapshot(flags'[e][id]) = {}
  BY <1>5 DEF InSnapshot
<1>12. [q \in Pipe |-> Observed(q)]' =
        [[q \in Pipe |-> Observed(q)] EXCEPT ![EventDstPipe[e]] = @ \cup carried[e][id]]
  BY <1>1, <1>9, <1>10, <1>11
<1>13. carried' = [carried EXCEPT ![e][id] = {}]
  <2>1. \A f \in Event, k \in EventId :
          InSnapshot(flags'[f][k]) =
            IF <<f, k>> = <<e, id>> THEN {} ELSE InSnapshot(flags[f][k])
    BY <1>5, <1>11
  <2> QED
    BY <2>1
<1> QED
  BY <1>2, <1>12, <1>13 DEF History!Inherit

LEMMA LaunchIsRestart ==
  ASSUME clock' = Fresh.clock, view' = Fresh.view, flags' = Fresh.flags
  PROVE  History!Restart
<1>1. clock' = [p \in Pipe |-> 0]
  BY DEF Fresh
<1>2. \A p, q \in Pipe : ObservedRow(p)'[q] = 0
  BY DEF Fresh, ObservedRow
<1>3. \A p \in Pipe : Observed(p)' = {}
  BY <1>2, UpToNothing DEF Observed
<1>4. \A e \in Event, id \in EventId : InSnapshot(flags'[e][id]) = {}
  BY DEF Fresh, Lowered, InSnapshot
<1> QED
  BY <1>1, <1>3, <1>4 DEF History!Restart, History!Register, EventId

LEMMA InitIsInit == Init => History!Init
<1> SUFFICES ASSUME Init PROVE History!Init
  OBVIOUS
<1>1. clock = [p \in Pipe |-> 0]
  BY DEF Init, CoreInit, Fresh
<1>2. \A p, q \in Pipe : ObservedRow(p)[q] = 0
  BY DEF Init, CoreInit, Fresh, ObservedRow
<1>3. \A p \in Pipe : Observed(p) = {}
  BY <1>2, UpToNothing DEF Observed
<1>4. \A e \in Event, id \in EventId : InSnapshot(flags[e][id]) = {}
  BY DEF Init, CoreInit, Fresh, Lowered, InSnapshot
<1> QED
  BY <1>1, <1>3, <1>4 DEF History!Init, History!Register, EventId

LEMMA StutterIsStutter ==
  ASSUME UNCHANGED <<clock, view, flags>>
  PROVE  UNCHANGED History!vars
  BY DEF History!vars, Observed, ObservedRow

LEMMA StepIsStep == Inv /\ [Next]_vars => [History!Next]_History!vars
<1> SUFFICES ASSUME Inv, [Next]_vars PROVE [History!Next]_History!vars
  OBVIOUS
<1> USE DEF Inv
<1>1. CASE KernelInstruction
  <2>1. PICK p \in Pipe, src0, src1, dst \in SUBSET Granule, n \in Nat :
          Issue(p, src0, src1, dst, n)
    BY <1>1, InstructionsIssue DEF SomeIssue
  <2>2. History!Issue(p)
    BY <2>1, InstructionIsIssue DEF Issue
  <2> QED
    BY <2>2 DEF History!Next
<1>2. ASSUME NEW e \in Event, NEW id \in AnyEventID, Signal(e, id)
      PROVE  [History!Next]_History!vars
  <2>1. CASE id \in EventId
    BY <1>2, <2>1, SetFlagIsPublish DEF Signal, History!Next, History!Register, EventId
  <2>2. CASE id \notin EventId
    BY <1>2, <2>2, StutterIsStutter DEF Signal, SetFlag, FlagsAfterSet
  <2> QED
    BY <2>1, <2>2
<1>3. ASSUME NEW e \in Event, NEW id \in AnyEventID, Await(e, id)
      PROVE  [History!Next]_History!vars
  <2>1. CASE id \in EventId /\ flags[e][id].pending
    BY <1>3, <2>1, WaitFlagIsInherit DEF Await, History!Next, History!Register, EventId
  <2>2. CASE ~ (id \in EventId /\ flags[e][id].pending)
    BY <1>3, <2>2, StutterIsStutter DEF Await, WaitFlag, ViewAfterWait, FlagsAfterWait, Raised
  <2> QED
    BY <2>1, <2>2
<1>4. CASE Launch
  BY <1>4, LaunchIsRestart DEF Launch, KernelLaunch, History!Next
<1>5. CASE Host /\ ~ Launch
  BY <1>5, StutterIsStutter DEF Host, SetSyncCheck, ClearSyncErrors
<1>6. CASE UNCHANGED vars
  BY <1>6, StutterIsStutter DEF vars, coreVars
<1> QED
  BY <1>1, <1>2, <1>3, <1>4, <1>5, <1>6 DEF Next

\* The state of the core keeps its types: no slot outside the registers is
\* ever written, no granule names a pipe that does not exist.
THEOREM TypesHold == Spec => []CoreTypeOK
  BY InvAlways, PTL DEF Inv

\* No view, no flag and no granule is ever ahead of the clocks.
THEOREM FutureIsUnseen == Spec => []NobodySeesTheFuture
  BY InvAlways, PTL DEF Inv

\* Every run of the clocks is a run of the sets of instructions: SetFlag
\* publishes exactly what its pipe has observed, WaitFlag adds exactly that to
\* what the other pipe has, and nothing else moves knowledge.
THEOREM ClocksImplementHistory == Spec => ClocksMeanHistory
<1>1. Init => History!Init
  BY InitIsInit
<1>2. Inv /\ [Next]_vars => [History!Next]_History!vars
  BY StepIsStep
<1> QED
  BY <1>1, <1>2, InvAlways, PTL DEF Spec, ClocksMeanHistory, History!Spec

-----------------------------------------------------------------------------
(* Every alarm is about a race, and every race with a write, or with the   *)
(* last read, has its alarm.  The granules summarise the log, and the rows *)
(* of clocks are closed under what the log orders: whoever has observed a  *)
(* touch has observed the touches that one was checked against and found   *)
(* in order.                                                               *)

\* Of a log L, a granule table G and a row of ticks R.
Touches(L, i, g) == g \in L[i].at
Writes(L, i, g)  == g \in L[i].at /\ L[i].write
Reads(L, i, g)   == g \in L[i].at /\ ~ L[i].write

Conflict(L, i, j) == (\E g \in Granule : Touches(L, i, g) /\ Touches(L, j, g))
                     /\ (L[i].write \/ L[j].write)

\* i came before j, by program order or by flags that j's pipe had waited for.
Before(L, i, j) == i < j /\ Conflict(L, i, j) /\ i \notin L[j].races

TicksLogged(L, c) == \A i \in DOMAIN L : L[i].tick <= c[L[i].pipe]

\* Who has observed the later of two ordered touches has observed the earlier.
RowCloses(L, R) ==
  \A i, j \in DOMAIN L :
    Before(L, i, j) /\ L[j].tick <= R[L[j].pipe] => L[i].tick <= R[L[i].pipe]

\* A granule names the last of the touches that wrote it, ...
WriterMarked(L, G) == \A g \in Granule :
  \/ G[g].writer = NoPipe /\ \A i \in DOMAIN L : ~ Writes(L, i, g)
  \/ \E w \in DOMAIN L :
       /\ Writes(L, w, g) /\ L[w].pipe = G[g].writer /\ L[w].tick = G[g].clock
       /\ \A i \in DOMAIN L : Writes(L, i, g) => i <= w

\* ... and the last that read it, unless it was written since.
ReaderMarked(L, G) == \A g \in Granule :
  \/ /\ G[g].reader = NoPipe
     /\ \A i \in DOMAIN L : Reads(L, i, g) => \E w \in DOMAIN L : i < w /\ Writes(L, w, g)
  \/ \E r \in DOMAIN L :
       /\ Reads(L, r, g) /\ L[r].pipe = G[g].reader /\ L[r].tick = G[g].readClock
       /\ \A i \in DOMAIN L : Touches(L, i, g) => i <= r

RacesPrecede(L) == \A j \in DOMAIN L : \A i \in L[j].races :
  i \in DOMAIN L /\ i < j /\ Conflict(L, i, j)

AlarmsRight(L) == \A j \in DOMAIN L : L[j].alarm =>
  \E i \in L[j].races, g \in Granule : Touches(L, i, g) /\ Touches(L, j, g)

Alarmed(L, j, g) == \E k \in 1 .. j : Touches(L, k, g) /\ L[k].alarm

\* A write, or a read no other read of the granule follows before j.
Remembered(L, i, j, g) ==
  L[i].write \/ \A k \in (i + 1) .. (j - 1) : ~ Reads(L, k, g)

Reported(L) == \A j \in DOMAIN L : \A i \in L[j].races, g \in Granule :
  Touches(L, i, g) /\ Touches(L, j, g) /\ Remembered(L, i, j, g) => Alarmed(L, j, g)

Faithful(L, G) ==
  /\ WriterMarked(L, G) /\ ReaderMarked(L, G)
  /\ RacesPrecede(L) /\ AlarmsRight(L) /\ Reported(L)

LogInv ==
  /\ log \in Seq(Touch)
  /\ TicksLogged(log, clock)
  /\ Faithful(log, gran)
  /\ \A p \in Pipe : RowCloses(log, ObservedRow(p))
  /\ \A e \in Event, id \in EventId : RowCloses(log, flags[e][id].snapshot)

-----------------------------------------------------------------------------
(* Within an instruction of pipe p.                                        *)

Now(p) == clock[p] + 1

\* What p has observed once the instruction is issued.
RowAfter(p) == [ObservedRow(p) EXCEPT ![p] = Now(p)]

\* L is the log with some touches of the instruction already in it.
OwnTail(L, p) ==
  /\ Len(log) <= Len(L)
  /\ \A i \in 1 .. Len(log) : L[i] = log[i]
  /\ \A i \in (Len(log) + 1) .. Len(L) : L[i].pipe = p

OthersClose(L, p) ==
  \A R \in [Pipe -> Nat] : R[p] <= clock[p] /\ RowCloses(log, R) => RowCloses(L, R)

Midway(L, G, p) ==
  /\ L \in Seq(Touch) /\ G \in [Granule -> GranuleInfo]
  /\ OwnTail(L, p)
  /\ TicksLogged(L, [clock EXCEPT ![p] = Now(p)])
  /\ Faithful(L, G)
  /\ RowCloses(L, RowAfter(p))
  /\ OthersClose(L, p)

Entry(p, gs, write, errors) ==
  [pipe |-> p, tick |-> Now(p), at |-> gs, write |-> write,
   races |-> RacesWith(p, gs, write), alarm |-> errors > 0]

\* M is L with one more touch.
Appended(L, M, touch) ==
  /\ M \in Seq(Touch) /\ Len(M) = Len(L) + 1
  /\ \A i \in 1 .. Len(L) : M[i] = L[i]
  /\ M[Len(L) + 1] = touch

\* The touch of one operand, and what it leaves in the granules.
Recorded(G, p, gs, write) ==
  IF write THEN RecordWrite(G, p, gs, Now(p)) ELSE RecordRead(G, p, gs, Now(p))

OneTouch(L, G, M, H, p, gs, write) ==
  /\ Appended(L, M, Entry(p, gs, write, CheckAccess(G, p, gs, write)))
  /\ H = Recorded(G, p, gs, write)


\* M is L with an n-th touch: all the steps below need to know of the two.
NewTouch(L, M, p, gs, write, n, alarm) ==
  /\ n \in Nat \ {0} /\ DOMAIN L = 1 .. (n - 1) /\ DOMAIN M = 1 .. n
  /\ \A i \in 1 .. (n - 1) : M[i] = L[i] /\ L[i] \in Touch
  /\ M[n].pipe = p /\ M[n].tick = Now(p) /\ M[n].at = gs /\ M[n].write = write
  /\ M[n].alarm = alarm
  /\ \A i : i \in M[n].races <=>
              /\ i \in 1 .. (n - 1)
              /\ L[i].pipe # p /\ L[i].at \cap gs # {}
              /\ L[i].write \/ write
              /\ view[p][L[i].pipe] < L[i].tick

LEMMA TheNewTouch ==
  ASSUME log \in Seq(Touch), NEW p, NEW gs, NEW write, NEW errors,
         NEW L \in Seq(Touch), OwnTail(L, p), NEW M,
         Appended(L, M, Entry(p, gs, write, errors))
  PROVE  NewTouch(L, M, p, gs, write, Len(L) + 1, errors > 0)
<1> DEFINE n == Len(L) + 1
<1>1. Len(L) \in Nat /\ DOMAIN L = 1 .. Len(L) /\ DOMAIN M = 1 .. Len(M)
  BY LenProperties DEF Appended
<1>2. \A i \in 1 .. Len(L) : L[i] \in Touch
  BY ElementOfSeq
<1>3. Len(log) \in Nat /\ DOMAIN log = 1 .. Len(log)
  BY LenProperties
<1>4. M[n] = Entry(p, gs, write, errors)
  BY DEF Appended
<1>5. \A i : i \in RacesWith(p, gs, write) <=>
              /\ i \in 1 .. (n - 1)
              /\ L[i].pipe # p /\ L[i].at \cap gs # {}
              /\ L[i].write \/ write
              /\ view[p][L[i].pipe] < L[i].tick
  BY <1>1, <1>3 DEF RacesWith, OwnTail
<1> QED
  BY <1>1, <1>2, <1>4, <1>5 DEF NewTouch, Entry, Appended

LEMMA Recording ==
  ASSUME NEW p \in Pipe, NEW gs, NEW G \in [Granule -> GranuleInfo], NEW tick \in Nat,
         NEW g \in Granule
  PROVE  LET W == RecordWrite(G, p, gs, tick)
             R == RecordRead(G, p, gs, tick)
         IN  /\ g \notin gs => W[g] = G[g] /\ R[g] = G[g]
             /\ g \in gs =>
                  /\ W[g].writer = p /\ W[g].clock = tick /\ W[g].reader = NoPipe
                  /\ R[g].writer = G[g].writer /\ R[g].clock = G[g].clock
                  /\ R[g].reader = p /\ R[g].readClock = tick
  BY DEF RecordRead, RecordWrite, GranuleInfo

LEMMA WriterFollows ==
  ASSUME NEW p \in Pipe, NEW gs \in SUBSET Granule, NEW write \in BOOLEAN, NEW n, NEW alarm,
         NEW L, NEW M, NewTouch(L, M, p, gs, write, n, alarm),
         NEW G \in [Granule -> GranuleInfo], WriterMarked(L, G), Now(p) \in Nat
  PROVE  WriterMarked(M, Recorded(G, p, gs, write))
<1> DEFINE H == Recorded(G, p, gs, write)
<1> USE DEF Writes
<1> SUFFICES ASSUME NEW g \in Granule
             PROVE  \/ H[g].writer = NoPipe /\ \A i \in DOMAIN M : ~ Writes(M, i, g)
                    \/ \E w \in DOMAIN M :
                         /\ Writes(M, w, g)
                         /\ M[w].pipe = H[g].writer /\ M[w].tick = H[g].clock
                         /\ \A i \in DOMAIN M : Writes(M, i, g) => i <= w
  BY DEF WriterMarked
<1>1. CASE write = TRUE /\ g \in gs
  <2>1. H[g].writer = p /\ H[g].clock = Now(p)
    BY <1>1, Recording DEF Recorded
  <2> HIDE DEF H
  <2>2. /\ Writes(M, n, g) /\ M[n].pipe = H[g].writer /\ M[n].tick = H[g].clock
        /\ n \in DOMAIN M /\ \A i \in DOMAIN M : i <= n
    BY <1>1, <2>1 DEF NewTouch
  <2> QED
    BY <2>2
<1>2. CASE write = FALSE \/ g \notin gs
  <2>1. H[g].writer = G[g].writer /\ H[g].clock = G[g].clock
    BY <1>2, Recording DEF Recorded
  <2> HIDE DEF H
  <2>2. ~ Writes(M, n, g)
    BY <1>2 DEF NewTouch
  <2>3. \A i \in DOMAIN L : /\ i \in DOMAIN M /\ M[i] = L[i]
                            /\ Writes(M, i, g) <=> Writes(L, i, g)
    BY DEF NewTouch
  <2>4. \A i \in DOMAIN M : i = n \/ i \in DOMAIN L
    BY DEF NewTouch
  <2>5. CASE G[g].writer = NoPipe /\ \A i \in DOMAIN L : ~ Writes(L, i, g)
    BY <2>1, <2>2, <2>3, <2>4, <2>5
  <2>6. CASE \E w \in DOMAIN L :
               /\ Writes(L, w, g) /\ L[w].pipe = G[g].writer /\ L[w].tick = G[g].clock
               /\ \A i \in DOMAIN L : Writes(L, i, g) => i <= w
    BY <2>1, <2>2, <2>3, <2>4, <2>6
  <2> QED
    BY <2>5, <2>6 DEF WriterMarked
<1> QED
  BY <1>1, <1>2

LEMMA ReaderFollows ==
  ASSUME NEW p \in Pipe, NEW gs \in SUBSET Granule, NEW write \in BOOLEAN, NEW n, NEW alarm,
         NEW L, NEW M, NewTouch(L, M, p, gs, write, n, alarm),
         NEW G \in [Granule -> GranuleInfo], ReaderMarked(L, G), Now(p) \in Nat
  PROVE  ReaderMarked(M, Recorded(G, p, gs, write))
<1> DEFINE H == Recorded(G, p, gs, write)
<1> SUFFICES ASSUME NEW g \in Granule
             PROVE  \/ /\ H[g].reader = NoPipe
                       /\ \A i \in DOMAIN M : Reads(M, i, g) =>
                            \E w \in DOMAIN M : i < w /\ Writes(M, w, g)
                    \/ \E r \in DOMAIN M :
                         /\ Reads(M, r, g)
                         /\ M[r].pipe = H[g].reader /\ M[r].tick = H[g].readClock
                         /\ \A i \in DOMAIN M : Touches(M, i, g) => i <= r
  BY DEF ReaderMarked
<1>1. CASE g \in gs /\ write = TRUE
  <2>1. H[g].reader = NoPipe
    BY <1>1, Recording DEF Recorded
  <2> HIDE DEF H
  <2>2. Writes(M, n, g) /\ n \in DOMAIN M
    BY <1>1 DEF NewTouch, Writes
  <2>3. ~ Reads(M, n, g)
    BY <1>1 DEF NewTouch, Reads
  <2>4. \A i \in DOMAIN M : i # n => i < n
    BY DEF NewTouch
  <2> QED
    BY <2>1, <2>2, <2>3, <2>4
<1>2. CASE g \in gs /\ write = FALSE
  <2>1. H[g].reader = p /\ H[g].readClock = Now(p)
    BY <1>2, Recording DEF Recorded
  <2> HIDE DEF H
  <2>2. /\ Reads(M, n, g) /\ M[n].pipe = H[g].reader /\ M[n].tick = H[g].readClock
        /\ n \in DOMAIN M /\ \A i \in DOMAIN M : i <= n
    BY <1>2, <2>1 DEF NewTouch, Reads
  <2> QED
    BY <2>2
<1>3. CASE g \notin gs
  <2>1. H[g].reader = G[g].reader /\ H[g].readClock = G[g].readClock
    BY <1>3, Recording DEF Recorded
  <2> HIDE DEF H
  <2>2. ~ Touches(M, n, g) /\ ~ Reads(M, n, g)
    BY <1>3 DEF NewTouch, Touches, Reads
  <2>3. \A i \in DOMAIN L : /\ i \in DOMAIN M /\ M[i] = L[i]
                            /\ Touches(M, i, g) <=> Touches(L, i, g)
                            /\ Reads(M, i, g) <=> Reads(L, i, g)
                            /\ Writes(M, i, g) <=> Writes(L, i, g)
    BY DEF NewTouch, Touches, Reads, Writes
  <2>4. \A i \in DOMAIN M : i = n \/ i \in DOMAIN L
    BY DEF NewTouch
  <2>5. CASE /\ G[g].reader = NoPipe
             /\ \A i \in DOMAIN L : Reads(L, i, g) => \E w \in DOMAIN L : i < w /\ Writes(L, w, g)
    BY <2>1, <2>2, <2>3, <2>4, <2>5
  <2>6. CASE \E r \in DOMAIN L :
               /\ Reads(L, r, g) /\ L[r].pipe = G[g].reader /\ L[r].tick = G[g].readClock
               /\ \A i \in DOMAIN L : Touches(L, i, g) => i <= r
    BY <2>1, <2>2, <2>3, <2>4, <2>6
  <2> QED
    BY <2>5, <2>6 DEF ReaderMarked
<1> QED
  BY <1>1, <1>2, <1>3

LEMMA RacesStayRight ==
  ASSUME NEW p \in Pipe, NEW gs \in SUBSET Granule, NEW write \in BOOLEAN, NEW n, NEW alarm,
         NEW L, NEW M, NewTouch(L, M, p, gs, write, n, alarm), RacesPrecede(L)
  PROVE  RacesPrecede(M)
<1> USE DEF Conflict, Touches
<1> SUFFICES ASSUME NEW j \in DOMAIN M, NEW i \in M[j].races
             PROVE  i \in DOMAIN M /\ i < j /\ Conflict(M, i, j)
  BY DEF RacesPrecede
<1>1. CASE j = n
  BY <1>1 DEF NewTouch
<1>2. CASE j # n
  <2>1. i \in DOMAIN L /\ j \in DOMAIN L /\ i < j /\ Conflict(L, i, j)
    BY <1>2 DEF NewTouch, RacesPrecede
  <2> QED
    BY <2>1 DEF NewTouch
<1> QED
  BY <1>1, <1>2

\* An alarm comes from a mark, and the mark from a touch in the log.
LEMMA AlarmsStayRight ==
  ASSUME NEW p \in Pipe, NEW gs \in SUBSET Granule, NEW write \in BOOLEAN, NEW n,
         NEW L, NEW M, NEW G,
         NewTouch(L, M, p, gs, write, n, CheckAccess(G, p, gs, write) > 0),
         WriterMarked(L, G), ReaderMarked(L, G), AlarmsRight(L), RacesPrecede(L)
  PROVE  AlarmsRight(M)
<1> SUFFICES ASSUME NEW j \in DOMAIN M, M[j].alarm
             PROVE  \E i \in M[j].races, g \in Granule : Touches(M, i, g) /\ Touches(M, j, g)
  BY DEF AlarmsRight
<1>1. CASE j # n
  <2>1. j \in DOMAIN L /\ M[j] = L[j]
    BY <1>1 DEF NewTouch
  <2>2. PICK i \in L[j].races, g \in Granule : Touches(L, i, g) /\ Touches(L, j, g)
    BY <2>1 DEF AlarmsRight
  <2>3. i \in DOMAIN L
    BY <2>1 DEF RacesPrecede
  <2>4. M[i] = L[i]
    BY <2>3 DEF NewTouch
  <2> QED
    BY <2>1, <2>2, <2>4 DEF Touches
<1>2. CASE j = n
  <2>1. CheckAccess(G, p, gs, write) > 0
    BY <1>2 DEF NewTouch
  <2>2. PICK g \in gs : \/ NotYetObserved(p, G[g].writer, G[g].clock)
                        \/ write /\ NotYetObserved(p, G[g].reader, G[g].readClock)
    BY <2>1 DEF CheckAccess, OneIf
  <2>3. g \in Granule
    OBVIOUS
  <2>4. PICK i \in DOMAIN L : /\ Touches(L, i, g)
                              /\ L[i].write \/ write
                              /\ NotYetObserved(p, L[i].pipe, L[i].tick)
    <3>1. CASE NotYetObserved(p, G[g].writer, G[g].clock)
      <4>1. G[g].writer # NoPipe
        BY <3>1 DEF NotYetObserved
      <4>2. PICK w \in DOMAIN L :
              Writes(L, w, g) /\ L[w].pipe = G[g].writer /\ L[w].tick = G[g].clock
        BY <2>3, <4>1 DEF WriterMarked
      <4> QED
        BY <3>1, <4>2 DEF Writes, Touches
    <3>2. CASE write /\ NotYetObserved(p, G[g].reader, G[g].readClock)
      <4>1. G[g].reader # NoPipe
        BY <3>2 DEF NotYetObserved
      <4>2. PICK r \in DOMAIN L :
              Reads(L, r, g) /\ L[r].pipe = G[g].reader /\ L[r].tick = G[g].readClock
        BY <2>3, <4>1 DEF ReaderMarked
      <4> QED
        BY <3>2, <4>2 DEF Reads, Touches
    <3> QED
      BY <2>2, <3>1, <3>2
  <2>5. i \in M[n].races
    BY <2>4 DEF NewTouch, NotYetObserved, Touches
  <2>6. Touches(M, i, g) /\ Touches(M, n, g)
    BY <2>4 DEF NewTouch, Touches
  <2> QED
    BY <1>2, <2>3, <2>5, <2>6
<1> QED
  BY <1>1, <1>2

\* The row of the pipe that makes the touch closes over it: what it was checked
\* against and found in order, p has observed.
LEMMA OwnRowCloses ==
  ASSUME NEW p \in Pipe, NEW gs \in SUBSET Granule, NEW write \in BOOLEAN, NEW n, NEW alarm,
         NEW L, NEW M, NewTouch(L, M, p, gs, write, n, alarm), CoreTypeOK,
         TicksLogged(L, [clock EXCEPT ![p] = Now(p)]), RowCloses(L, RowAfter(p))
  PROVE  RowCloses(M, RowAfter(p))
<1> DEFINE R == RowAfter(p)
<1>1. R[p] = Now(p) /\ \A q \in Pipe : q # p => R[q] = view[p][q]
  BY DEF RowAfter, ObservedRow
<1>2. \A q \in Pipe : view[p][q] \in Nat
  BY DEF CoreTypeOK
<1> HIDE DEF R
<1> SUFFICES ASSUME NEW i \in DOMAIN M, NEW j \in DOMAIN M,
                    Before(M, i, j), M[j].tick <= R[M[j].pipe]
             PROVE  M[i].tick <= R[M[i].pipe]
  BY DEF RowCloses, R
<1>3. i \in DOMAIN L /\ M[i] = L[i] /\ L[i] \in Touch
  BY DEF NewTouch, Before
<1>4. L[i].pipe \in Pipe /\ L[i].tick \in Nat
  BY <1>3 DEF Touch
<1>5. CASE j = n
  <2>1. CASE L[i].pipe = p
    <3>1. L[i].tick <= Now(p)
      BY <1>3, <2>1 DEF TicksLogged, CoreTypeOK
    <3> QED
      BY <1>1, <1>3, <2>1, <3>1
  <2>2. CASE L[i].pipe # p
    <3>1. i \notin M[n].races /\ i \in 1 .. (n - 1)
      BY <1>5 DEF Before, NewTouch
    <3>2. L[i].at \cap gs # {} /\ (L[i].write \/ write)
      BY <1>3, <1>5 DEF Before, Conflict, Touches, NewTouch
    <3>3. ~ (view[p][L[i].pipe] < L[i].tick)
      BY <2>2, <3>1, <3>2 DEF NewTouch
    <3> QED
      BY <1>1, <1>2, <1>3, <1>4, <2>2, <3>3
  <2> QED
    BY <2>1, <2>2
<1>6. CASE j # n
  <2>1. j \in DOMAIN L /\ M[j] = L[j]
    BY <1>6 DEF NewTouch
  <2>2. Before(L, i, j)
    BY <1>3, <2>1 DEF Before, Conflict, Touches
  <2> QED
    BY <1>3, <2>1, <2>2 DEF RowCloses, R
<1> QED
  BY <1>5, <1>6

\* A row that has not observed this instruction closes as before.
LEMMA OtherRowsClose ==
  ASSUME NEW p \in Pipe, NEW gs \in SUBSET Granule, NEW write \in BOOLEAN, NEW n, NEW alarm,
         NEW L, NEW M, NewTouch(L, M, p, gs, write, n, alarm), CoreTypeOK,
         NEW R \in [Pipe -> Nat], R[p] <= clock[p], RowCloses(L, R)
  PROVE  RowCloses(M, R)
<1> SUFFICES ASSUME NEW i \in DOMAIN M, NEW j \in DOMAIN M,
                    Before(M, i, j), M[j].tick <= R[M[j].pipe]
             PROVE  M[i].tick <= R[M[i].pipe]
  BY DEF RowCloses
<1>1. j # n
  BY DEF NewTouch, Now, CoreTypeOK
<1>2. i \in DOMAIN L /\ j \in DOMAIN L /\ M[i] = L[i] /\ M[j] = L[j]
  BY <1>1 DEF NewTouch, Before
<1>3. Before(L, i, j)
  BY <1>2 DEF Before, Conflict, Touches
<1> QED
  BY <1>2, <1>3 DEF RowCloses

\* A racing touch that raises no alarm: the mark it was compared with is of a
\* write it has observed, later than the touch it races with.
LEMMA SilentTouchSawAWrite ==
  ASSUME NEW p \in Pipe, NEW gs \in SUBSET Granule, NEW write \in BOOLEAN, NEW n,
         NEW L, NEW M, NEW G,
         NewTouch(L, M, p, gs, write, n, CheckAccess(G, p, gs, write) > 0),
         WriterMarked(L, G), ReaderMarked(L, G),
         NEW i \in M[n].races, NEW g \in gs, Touches(L, i, g), Remembered(M, i, n, g),
         ~ M[n].alarm
  PROVE  \E w \in DOMAIN L : i < w /\ Writes(L, w, g) /\ ~ NotYetObserved(p, L[w].pipe, L[w].tick)
<1>1. ~ (CheckAccess(G, p, gs, write) > 0)
  BY DEF NewTouch
<1>2. /\ ~ NotYetObserved(p, G[g].writer, G[g].clock)
      /\ write => ~ NotYetObserved(p, G[g].reader, G[g].readClock)
  BY <1>1 DEF CheckAccess, OneIf
<1>3. /\ i \in DOMAIN L /\ i \in 1 .. (n - 1) /\ L[i] \in Touch
      /\ L[i].pipe # p /\ view[p][L[i].pipe] < L[i].tick
      /\ L[i].write \/ write
  BY DEF NewTouch
<1>4. NotYetObserved(p, L[i].pipe, L[i].tick)
  BY <1>3, SyncCoreAssumption DEF NotYetObserved, Touch
<1>5. ASSUME NEW v \in DOMAIN L, Writes(L, v, g), i <= v
      PROVE  \E w \in DOMAIN L : i < w /\ Writes(L, w, g)
                                 /\ ~ NotYetObserved(p, L[w].pipe, L[w].tick)
  <2>1. PICK w \in DOMAIN L :
          /\ Writes(L, w, g) /\ L[w].pipe = G[g].writer /\ L[w].tick = G[g].clock
          /\ v <= w
    BY <1>5 DEF WriterMarked
  <2>2. ~ NotYetObserved(p, L[w].pipe, L[w].tick)
    BY <1>2, <2>1
  <2>3. w # i
    BY <1>4, <2>2
  <2>4. i < w
    BY <1>3, <1>5, <2>1, <2>3 DEF NewTouch
  <2> QED
    BY <2>1, <2>2, <2>4
<1>6. CASE L[i].write
  BY <1>3, <1>5, <1>6 DEF Writes, Touches
<1>7. CASE ~ L[i].write
  <2>1. Reads(L, i, g) /\ ~ NotYetObserved(p, G[g].reader, G[g].readClock)
    BY <1>2, <1>3, <1>7 DEF Reads, Touches
  <2>2. CASE \E v \in DOMAIN L : i < v /\ Writes(L, v, g)
    BY <1>3, <1>5, <2>2 DEF NewTouch
  <2>3. CASE \E r \in DOMAIN L :
               /\ Reads(L, r, g) /\ L[r].pipe = G[g].reader /\ L[r].tick = G[g].readClock
               /\ \A k \in DOMAIN L : Touches(L, k, g) => k <= r
    <3>1. PICK r \in DOMAIN L :
               /\ Reads(L, r, g) /\ L[r].pipe = G[g].reader /\ L[r].tick = G[g].readClock
               /\ i <= r
      BY <1>3, <2>3
    <3>2. r # i
      BY <1>4, <2>1, <3>1
    <3>3. r \in (i + 1) .. (n - 1) /\ Reads(M, r, g)
      BY <1>3, <3>1, <3>2 DEF NewTouch, Reads
    <3> QED
      BY <1>3, <1>7, <3>3 DEF Remembered, NewTouch
  <2> QED
    BY <1>3, <2>1, <2>2, <2>3 DEF ReaderMarked
<1> QED
  BY <1>6, <1>7

LEMMA ReportsStayComplete ==
  ASSUME NEW p \in Pipe, NEW gs \in SUBSET Granule, NEW write \in BOOLEAN, NEW n,
         NEW L, NEW M, NEW G,
         NewTouch(L, M, p, gs, write, n, CheckAccess(G, p, gs, write) > 0), CoreTypeOK,
         WriterMarked(L, G), ReaderMarked(L, G), RacesPrecede(L), Reported(L),
         TicksLogged(L, [clock EXCEPT ![p] = Now(p)]), RowCloses(L, RowAfter(p))
  PROVE  Reported(M)
<1> SUFFICES ASSUME NEW j \in DOMAIN M, NEW i \in M[j].races, NEW g \in Granule,
                    Touches(M, i, g), Touches(M, j, g), Remembered(M, i, j, g)
             PROVE  Alarmed(M, j, g)
  BY DEF Reported
<1>1. CASE j # n
  <2>1. j \in DOMAIN L /\ M[j] = L[j] /\ j \in 1 .. (n - 1)
    BY <1>1 DEF NewTouch
  <2>2. i \in DOMAIN L /\ i < j
    BY <2>1 DEF RacesPrecede
  <2>3. M[i] = L[i] /\ \A k \in 1 .. j : M[k] = L[k]
    BY <2>1, <2>2 DEF NewTouch
  <2>4. \A k \in (i + 1) .. (j - 1) : M[k] = L[k]
    BY <2>1, <2>2 DEF NewTouch
  <2>5. Remembered(L, i, j, g)
    BY <2>3, <2>4 DEF Remembered, Reads
  <2>6. Alarmed(L, j, g)
    BY <2>1, <2>3, <2>5 DEF Reported, Touches
  <2> QED
    BY <2>3, <2>6 DEF Alarmed, Touches
<1>2. CASE j = n
  <2> SUFFICES ASSUME ~ Alarmed(M, n, g) PROVE FALSE
    BY <1>2
  <2>1. /\ i \in DOMAIN L /\ i \in 1 .. (n - 1) /\ M[i] = L[i] /\ L[i] \in Touch
        /\ L[i].pipe # p /\ view[p][L[i].pipe] < L[i].tick
    BY <1>2 DEF NewTouch
  <2>2. g \in gs /\ Touches(L, i, g)
    BY <1>2, <2>1 DEF NewTouch, Touches
  <2>3. ~ M[n].alarm
    BY <1>2 DEF Alarmed, NewTouch
  <2>4. PICK w \in DOMAIN L :
          i < w /\ Writes(L, w, g) /\ ~ NotYetObserved(p, L[w].pipe, L[w].tick)
    BY <1>2, <2>2, <2>3, SilentTouchSawAWrite
  <2>5. w \in 1 .. (n - 1) /\ M[w] = L[w] /\ L[w] \in Touch
    BY <2>4 DEF NewTouch
  <2>6. i \notin L[w].races
    <3> SUFFICES ASSUME i \in L[w].races PROVE FALSE
      OBVIOUS
    <3>1. Remembered(L, i, w, g)
      <4>1. \A k \in (i + 1) .. (w - 1) : M[k] = L[k] /\ k \in (i + 1) .. (n - 1)
        BY <2>1, <2>5 DEF NewTouch
      <4> QED
        BY <1>2, <2>1, <4>1 DEF Remembered, Reads
    <3>2. Alarmed(L, w, g)
      BY <2>2, <2>4, <3>1 DEF Reported, Writes, Touches
    <3>3. \A k \in 1 .. w : M[k] = L[k] /\ k \in 1 .. n
      BY <2>5 DEF NewTouch
    <3> QED
      BY <3>2, <3>3 DEF Alarmed, Touches
  <2>7. Before(L, i, w)
    BY <2>2, <2>4, <2>6 DEF Before, Conflict, Writes, Touches
  <2> DEFINE R == RowAfter(p)
  <2>8. R[p] = Now(p) /\ \A q \in Pipe : q # p => R[q] = view[p][q] /\ view[p][q] \in Nat
    BY DEF RowAfter, ObservedRow, CoreTypeOK
  <2> HIDE DEF R
  <2>9. L[w].tick <= R[L[w].pipe]
    <3>1. CASE L[w].pipe = p
      BY <2>4, <2>8, <3>1 DEF TicksLogged, CoreTypeOK
    <3>2. CASE L[w].pipe # p
      BY <2>4, <2>5, <2>8, <3>2, SyncCoreAssumption DEF NotYetObserved, Touch
    <3> QED
      BY <3>1, <3>2
  <2>10. L[i].tick <= R[L[i].pipe]
    BY <2>1, <2>4, <2>7, <2>9 DEF RowCloses, R
  <2> QED
    BY <2>1, <2>8, <2>10 DEF Touch
<1> QED
  BY <1>1, <1>2

LEMMA LogEntries ==
  ASSUME NEW L \in Seq(Touch)
  PROVE  \A k \in DOMAIN L : L[k].pipe \in Pipe /\ L[k].tick \in Nat
<1>1. DOMAIN L = 1 .. Len(L)
  BY LenProperties
<1>2. \A k \in DOMAIN L : L[k] \in Touch
  BY <1>1, ElementOfSeq
<1> QED
  BY <1>2 DEF Touch

LEMMA EntryTyped ==
  ASSUME CoreTypeOK, log \in Seq(Touch), NEW p \in Pipe, NEW gs \in SUBSET Granule,
         NEW write \in BOOLEAN, NEW errors \in Nat
  PROVE  Entry(p, gs, write, errors) \in Touch
<1>1. RacesWith(p, gs, write) \subseteq Nat
  BY LenProperties DEF RacesWith
<1>2. Now(p) \in Nat
  BY DEF Now, CoreTypeOK
<1> QED
  BY <1>1, <1>2 DEF Entry, Touch

LEMMA OneMore ==
  ASSUME NEW L \in Seq(Touch), NEW touch \in Touch
  PROVE  Appended(L, L \o <<touch>>, touch)
<1>1. L \o <<touch>> = Append(L, touch)
  BY AppendIsConcat
<1> QED
  BY <1>1, AppendProperties DEF Appended

LEMMA TouchKeepsFaith ==
  ASSUME Inv, log \in Seq(Touch), NEW p \in Pipe, NEW gs \in SUBSET Granule,
         NEW write \in BOOLEAN, NEW L, NEW G, Midway(L, G, p),
         NEW M, Appended(L, M, Entry(p, gs, write, CheckAccess(G, p, gs, write)))
  PROVE  Midway(M, Recorded(G, p, gs, write), p)
<1> DEFINE n == Len(L) + 1
           alarm == CheckAccess(G, p, gs, write) > 0
<1>1. CoreTypeOK /\ Now(p) \in Nat
  BY DEF Inv, Now, CoreTypeOK
<1>2. L \in Seq(Touch) /\ G \in [Granule -> GranuleInfo] /\ M \in Seq(Touch)
  BY DEF Midway, Appended
<1>3. NewTouch(L, M, p, gs, write, n, alarm)
  BY <1>2, TheNewTouch DEF Midway
<1>4. Recorded(G, p, gs, write) \in [Granule -> GranuleInfo]
  BY <1>1, <1>2, RecordReadTyped, RecordWriteTyped DEF Recorded
<1>5. OwnTail(M, p)
  <2>1. Len(log) \in Nat /\ Len(L) \in Nat /\ Len(M) = Len(L) + 1
    BY <1>2, LenProperties DEF Appended
  <2>2. /\ \A i \in 1 .. Len(L) : M[i] = L[i]
        /\ M[Len(L) + 1].pipe = p
    BY <1>3, <2>1 DEF NewTouch
  <2>3. OwnTail(L, p)
    BY DEF Midway
  <2> QED
    BY <2>1, <2>2, <2>3 DEF OwnTail
<1>6. TicksLogged(M, [clock EXCEPT ![p] = Now(p)])
  BY <1>1, <1>3 DEF Midway, TicksLogged, NewTouch, CoreTypeOK
<1>7. Faithful(M, Recorded(G, p, gs, write))
  BY <1>1, <1>2, <1>3, WriterFollows, ReaderFollows, RacesStayRight, AlarmsStayRight,
     ReportsStayComplete DEF Midway, Faithful
<1>8. RowCloses(M, RowAfter(p))
  BY <1>1, <1>3, OwnRowCloses DEF Midway
<1>9. OthersClose(M, p)
  BY <1>1, <1>3, OtherRowsClose DEF Midway, OthersClose
<1> QED
  BY <1>2, <1>4, <1>5, <1>6, <1>7, <1>8, <1>9 DEF Midway

LEMMA OperandKeepsFaith ==
  ASSUME Inv, log \in Seq(Touch), checkMode # "Off", NEW p \in Pipe,
         NEW gs \in SUBSET Granule, NEW write \in BOOLEAN, NEW L, NEW G, Midway(L, G, p)
  PROVE  Midway(L \o Logged(p, gs, write, CheckAccess(G, p, gs, write)),
                Recorded(G, p, gs, write), p)
<1> DEFINE errors == CheckAccess(G, p, gs, write)
<1>1. L \in Seq(Touch) /\ G \in [Granule -> GranuleInfo]
  BY DEF Midway
<1>2. CASE gs = {}
  <2>1. L \o Logged(p, gs, write, errors) = L
    BY <1>1, <1>2, ConcatEmptySeq DEF Logged
  <2>2. Recorded(G, p, gs, write) = G
    BY <1>1, <1>2 DEF Recorded, RecordRead, RecordWrite
  <2> QED
    BY <2>1, <2>2
<1>3. CASE gs # {}
  <2>1. Logged(p, gs, write, errors) = <<Entry(p, gs, write, errors)>>
    BY <1>3 DEF Logged, Entry, Now
  <2>2. Entry(p, gs, write, errors) \in Touch
    BY EntryTyped, CheckTyped DEF Inv
  <2>3. Appended(L, L \o Logged(p, gs, write, errors), Entry(p, gs, write, errors))
    BY <1>1, <2>1, <2>2, OneMore
  <2> QED
    BY <2>3, TouchKeepsFaith
<1> QED
  BY <1>2, <1>3

-----------------------------------------------------------------------------
(* The operations.                                                         *)

LEMMA RowAfterCloses ==
  ASSUME CoreTypeOK, log \in Seq(Touch), TicksLogged(log, clock), NEW p \in Pipe,
         RowCloses(log, ObservedRow(p))
  PROVE  RowCloses(log, RowAfter(p))
<1> DEFINE R == ObservedRow(p)
           S == RowAfter(p)
<1>1. /\ R[p] = clock[p] /\ S[p] = clock[p] + 1 /\ clock[p] \in Nat
      /\ \A q \in Pipe : q # p => S[q] = R[q] /\ R[q] \in Nat
  BY DEF RowAfter, ObservedRow, Now, CoreTypeOK
<1> HIDE DEF R, S
<1> SUFFICES ASSUME NEW i \in DOMAIN log, NEW j \in DOMAIN log,
                    Before(log, i, j), log[j].tick <= S[log[j].pipe]
             PROVE  log[i].tick <= S[log[i].pipe]
  BY DEF RowCloses, S
<1>2. \A k \in DOMAIN log : /\ log[k].pipe \in Pipe /\ log[k].tick \in Nat
                            /\ log[k].tick <= clock[log[k].pipe]
  BY LogEntries DEF TicksLogged
<1>3. log[j].tick <= R[log[j].pipe]
  BY <1>1, <1>2
<1>4. log[i].tick <= R[log[i].pipe]
  BY <1>3 DEF RowCloses, R
<1> QED
  BY <1>1, <1>2, <1>4

LEMMA LogAfterIssue ==
  ASSUME Inv, LogInv, NEW p \in Pipe, NEW src0 \in SUBSET Granule, NEW src1 \in SUBSET Granule,
         NEW dst \in SUBSET Granule, NEW n \in Nat, Issue(p, src0, src1, dst, n)
  PROVE  /\ log' \in Seq(Touch)
         /\ TicksLogged(log', clock')
         /\ Faithful(log', gran')
         /\ RowCloses(log', RowAfter(p))
         /\ OthersClose(log', p)
<1>1. CoreTypeOK /\ log \in Seq(Touch) /\ Faithful(log, gran)
  BY DEF Inv, LogInv
<1>2. clock' = [clock EXCEPT ![p] = Now(p)]
  BY <1>1 DEF Issue, Instruction, Now, CoreTypeOK
<1>3. TicksLogged(log, [clock EXCEPT ![p] = Now(p)])
  <2>1. \A k \in DOMAIN log : log[k].pipe \in Pipe /\ log[k].tick \in Nat
    BY <1>1, LogEntries
  <2> QED
    BY <1>1, <2>1 DEF LogInv, TicksLogged, Now, CoreTypeOK
<1>4. RowCloses(log, RowAfter(p))
  BY <1>1, RowAfterCloses DEF LogInv
<1>5. OthersClose(log, p)
  BY DEF OthersClose
<1>6. CASE checkMode = "Off"
  <2>1. gran' = gran
    BY <1>6 DEF Issue, Instruction
  <2>2. log' = log \o <<>> \o <<>> \o <<>>
    BY <1>6 DEF Issue, Logged
  <2>3. log' = log
    BY <1>1, <2>2, ConcatEmptySeq
  <2> QED
    BY <1>1, <1>2, <1>3, <1>4, <1>5, <2>1, <2>3
<1>7. CASE checkMode # "Off"
  <2> DEFINE G1 == AfterSrc0(p, src0)
             G2 == AfterSrc1(p, src0, src1)
             L1 == log \o Logged(p, src0, FALSE, CheckAccess(gran, p, src0, FALSE))
             L2 == L1 \o Logged(p, src1, FALSE, CheckAccess(G1, p, src1, FALSE))
             L3 == L2 \o Logged(p, dst, TRUE, CheckAccess(G2, p, dst, TRUE))
  <2>1. /\ G1 = Recorded(gran, p, src0, FALSE)
        /\ G2 = Recorded(G1, p, src1, FALSE)
        /\ gran' = Recorded(G2, p, dst, TRUE)
    BY <1>7 DEF AfterSrc0, AfterSrc1, Recorded, Now, Issue, Instruction
  <2>2. log' = L3
    BY DEF Issue, TouchErrors
  <2>3. Midway(log, gran, p)
    <3>1. OwnTail(log, p)
      BY <1>1, LenProperties DEF OwnTail
    <3> QED
      BY <1>1, <1>3, <1>4, <1>5, <3>1 DEF Midway, CoreTypeOK
  <2> HIDE DEF G1, G2
  <2>4. Midway(L1, G1, p)
    BY <1>1, <1>7, <2>1, <2>3, OperandKeepsFaith
  <2> HIDE DEF L1
  <2>5. Midway(L2, G2, p)
    BY <1>1, <1>7, <2>1, <2>4, OperandKeepsFaith
  <2> HIDE DEF L2
  <2>6. Midway(L3, gran', p)
    BY <1>1, <1>7, <2>1, <2>5, OperandKeepsFaith
  <2> QED
    BY <1>2, <2>2, <2>6 DEF Midway
<1> QED
  BY <1>6, <1>7

LEMMA IssueKeepsLog ==
  ASSUME Inv, LogInv, NEW p \in Pipe, NEW src0 \in SUBSET Granule, NEW src1 \in SUBSET Granule,
         NEW dst \in SUBSET Granule, NEW n \in Nat, Issue(p, src0, src1, dst, n)
  PROVE  LogInv'
<1>1. CoreTypeOK /\ NobodySeesTheFuture
  BY DEF Inv
<1>2. clock' = [clock EXCEPT ![p] = Now(p)] /\ view' = view /\ flags' = flags
  BY DEF Issue, Instruction, Now
<1>3. OthersClose(log', p) /\ RowCloses(log', RowAfter(p))
  BY LogAfterIssue
<1>4. ASSUME NEW q \in Pipe
      PROVE  RowCloses(log', ObservedRow(q)')
  <2>1. CASE q = p
    <3>1. ObservedRow(q)' = RowAfter(p)
      BY <1>1, <1>2, <2>1 DEF ObservedRow, RowAfter, CoreTypeOK
    <3> QED
      BY <1>3, <3>1
  <2>2. CASE q # p
    <3>1. ObservedRow(q)' = ObservedRow(q)
      BY <1>1, <1>2, <2>2 DEF ObservedRow, CoreTypeOK
    <3>2. ObservedRow(q) \in [Pipe -> Nat] /\ ObservedRow(q)[p] <= clock[p]
      BY <1>1, <2>2 DEF ObservedRow, CoreTypeOK, NobodySeesTheFuture
    <3>3. RowCloses(log, ObservedRow(q))
      BY DEF LogInv
    <3> QED
      BY <1>3, <3>1, <3>2, <3>3 DEF OthersClose
  <2> QED
    BY <2>1, <2>2
<1>5. ASSUME NEW e \in Event, NEW id \in EventId
      PROVE  RowCloses(log', flags'[e][id].snapshot)
  <2>1. flags[e][id].snapshot \in [Pipe -> Nat] /\ flags[e][id].snapshot[p] <= clock[p]
    BY <1>1 DEF CoreTypeOK, EventSlot, NobodySeesTheFuture
  <2>2. RowCloses(log, flags[e][id].snapshot)
    BY DEF LogInv
  <2> QED
    BY <1>2, <1>3, <2>1, <2>2 DEF OthersClose
<1> QED
  BY <1>4, <1>5, LogAfterIssue DEF LogInv

LEMMA SnapshotIsRow ==
  ASSUME CoreTypeOK, NEW p \in Pipe
  PROVE  Snapshot(p) = ObservedRow(p)
  BY DEF Snapshot, ObservedRow, CoreTypeOK

LEMMA SignalKeepsLog ==
  ASSUME Inv, LogInv, NEW e \in Event, NEW id, Signal(e, id)
  PROVE  LogInv'
<1>1. CoreTypeOK /\ EventSrcPipe[e] \in Pipe
  BY SyncCoreAssumption DEF Inv
<1>2. /\ log' = log /\ clock' = clock /\ view' = view /\ gran' = gran
      /\ flags' = FlagsAfterSet(e, id)
  BY DEF Signal, SetFlag
<1>3. ASSUME NEW f \in Event, NEW k \in EventId
      PROVE  RowCloses(log, flags'[f][k].snapshot)
  <2>1. CASE f = e /\ k = id
    <3>1. flags'[f][k].snapshot = ObservedRow(EventSrcPipe[e])
      BY <1>1, <1>2, <2>1, SnapshotIsRow DEF FlagsAfterSet, CoreTypeOK
    <3> QED
      BY <1>1, <3>1 DEF LogInv
  <2>2. CASE ~ (f = e /\ k = id)
    <3>1. flags'[f][k] = flags[f][k]
      BY <1>1, <1>2, <2>2 DEF FlagsAfterSet, CoreTypeOK
    <3> QED
      BY <3>1 DEF LogInv
  <2> QED
    BY <2>1, <2>2
<1> QED
  BY <1>2, <1>3 DEF LogInv, ObservedRow

\* A merge of two rows observes what either did, and closes as they do.
LEMMA LargerCloses ==
  ASSUME NEW L \in Seq(Touch), NEW R \in [Pipe -> Nat], NEW S \in [Pipe -> Nat], NEW T,
         \A q \in Pipe : T[q] = Larger(R[q], S[q]), RowCloses(L, R), RowCloses(L, S)
  PROVE  RowCloses(L, T)
<1> SUFFICES ASSUME NEW i \in DOMAIN L, NEW j \in DOMAIN L,
                    Before(L, i, j), L[j].tick <= T[L[j].pipe]
             PROVE  L[i].tick <= T[L[i].pipe]
  BY DEF RowCloses
<1>1. /\ L[i].pipe \in Pipe /\ L[i].tick \in Nat
      /\ L[j].pipe \in Pipe /\ L[j].tick \in Nat
  BY LogEntries
<1>2. L[j].tick <= R[L[j].pipe] \/ L[j].tick <= S[L[j].pipe]
  BY <1>1 DEF Larger
<1>3. L[i].tick <= R[L[i].pipe] \/ L[i].tick <= S[L[i].pipe]
  BY <1>2 DEF RowCloses
<1> QED
  BY <1>1, <1>3 DEF Larger

LEMMA AwaitKeepsLog ==
  ASSUME Inv, LogInv, NEW e \in Event, NEW id, Await(e, id)
  PROVE  LogInv'
<1> DEFINE d == EventDstPipe[e]
<1>1. CoreTypeOK /\ NobodySeesTheFuture /\ d \in Pipe /\ log \in Seq(Touch)
  BY SyncCoreAssumption DEF Inv, LogInv
<1>2. /\ log' = log /\ clock' = clock /\ gran' = gran
      /\ view' = ViewAfterWait(e, id) /\ flags' = FlagsAfterWait(e, id)
  BY DEF Await, WaitFlag
<1>3. ASSUME NEW f \in Event, NEW k \in EventId
      PROVE  flags'[f][k].snapshot = flags[f][k].snapshot
  BY <1>1, <1>2 DEF FlagsAfterWait, Raised, CoreTypeOK, EventSlot
<1>4. ASSUME NEW q \in Pipe
      PROVE  RowCloses(log, ObservedRow(q)')
  <2>1. CASE Raised(e, id) /\ q = d
    <3> DEFINE R == flags[e][id].snapshot
               S == ObservedRow(q)
               T == ObservedRow(q)'
    <3>1. /\ R \in [Pipe -> Nat] /\ S \in [Pipe -> Nat]
          /\ \A r \in Pipe : R[r] <= clock[r] /\ clock[r] \in Nat
      BY <1>1, <2>1 DEF Raised, CoreTypeOK, EventSlot, NobodySeesTheFuture, ObservedRow
    <3>2. \A r \in Pipe : view'[d][r] = Larger(R[r], view[d][r])
      BY <1>1, <1>2, <2>1 DEF ViewAfterWait, CoreTypeOK
    <3>3. \A r \in Pipe : T[r] = IF r = d THEN clock[r] ELSE Larger(R[r], view[d][r])
      BY <1>2, <2>1, <3>2 DEF ObservedRow
    <3>4. \A r \in Pipe : S[r] = IF r = d THEN clock[r] ELSE view[d][r]
      BY <2>1 DEF ObservedRow
    <3> HIDE DEF d, R, S, T
    <3>5. \A r \in Pipe : T[r] = Larger(R[r], S[r])
      BY <3>1, <3>3, <3>4 DEF Larger
    <3>6. RowCloses(log, R) /\ RowCloses(log, S)
      BY <2>1 DEF LogInv, Raised, R, S
    <3>7. RowCloses(log, T)
      BY <1>1, <3>1, <3>5, <3>6, LargerCloses
    <3> QED
      BY <3>7 DEF T
  <2>2. CASE ~ (Raised(e, id) /\ q = d)
    <3>1. view'[q] = view[q]
      BY <1>1, <1>2, <2>2 DEF ViewAfterWait, CoreTypeOK
    <3>2. ObservedRow(q)' = ObservedRow(q)
      BY <1>2, <3>1 DEF ObservedRow
    <3> QED
      BY <3>2 DEF LogInv
  <2> QED
    BY <2>1, <2>2
<1> QED
  BY <1>2, <1>3, <1>4 DEF LogInv

\* On a reset core with an empty log there is nothing to get wrong.
LEMMA EmptyLog ==
  ASSUME NEW G, \A g \in Granule : G[g] = Untouched
  PROVE  /\ <<>> \in Seq(Touch) /\ Faithful(<<>>, G)
         /\ \A c : TicksLogged(<<>>, c)
         /\ \A R : RowCloses(<<>>, R)
<1>1. DOMAIN <<>> = {} /\ <<>> \in Seq(Touch)
  OBVIOUS
<1> QED
  BY <1>1 DEF Faithful, WriterMarked, ReaderMarked, RacesPrecede, AlarmsRight, Reported,
              Untouched, TicksLogged, RowCloses

LEMMA LogInit == Init => LogInv
<1> SUFFICES ASSUME Init PROVE LogInv
  OBVIOUS
<1>1. log = <<>> /\ \A g \in Granule : gran[g] = Untouched
  BY DEF Init, CoreInit, Fresh
<1> QED
  BY <1>1, EmptyLog DEF LogInv

LEMMA LaunchKeepsLog == Launch => LogInv'
<1> SUFFICES ASSUME Launch PROVE LogInv'
  OBVIOUS
<1>1. log' = <<>> /\ \A g \in Granule : gran'[g] = Untouched
  BY DEF Launch, KernelLaunch, Fresh
<1> QED
  BY <1>1, EmptyLog DEF LogInv

LEMMA LogStep == Inv /\ LogInv /\ [Next]_vars => LogInv'
<1> SUFFICES ASSUME Inv, LogInv, [Next]_vars PROVE LogInv'
  OBVIOUS
<1>1. CASE KernelInstruction
  <2>1. PICK p \in Pipe, src0, src1, dst \in SUBSET Granule, n \in Nat :
          Issue(p, src0, src1, dst, n)
    BY <1>1, InstructionsIssue DEF SomeIssue
  <2> QED
    BY <2>1, IssueKeepsLog
<1>2. CASE \E e \in Event, id \in AnyEventID : Signal(e, id)
  BY <1>2, SignalKeepsLog
<1>3. CASE \E e \in Event, id \in AnyEventID : Await(e, id)
  BY <1>3, AwaitKeepsLog
<1>4. CASE Launch
  BY <1>4, LaunchKeepsLog
<1>5. CASE (Host /\ ~ Launch) \/ UNCHANGED vars
  <2>1. UNCHANGED <<clock, view, flags, gran, log>>
    BY <1>5 DEF Host, SetSyncCheck, ClearSyncErrors, vars, coreVars
  <2> QED
    BY <2>1 DEF LogInv, ObservedRow
<1> QED
  BY <1>1, <1>2, <1>3, <1>4, <1>5 DEF Next

LEMMA LogAlways == Spec => []LogInv
  BY LogInit, LogStep, InvAlways, PTL DEF Spec

-----------------------------------------------------------------------------
(* The theorems.                                                           *)

\* The history variable and the core keep their types.
THEOREM LogTyped == Spec => []TypeOK
<1>1. Inv /\ LogInv => TypeOK
  BY DEF Inv, LogInv, TypeOK
<1> QED
  BY <1>1, InvAlways, LogAlways, PTL

\* An alarm of CheckAccess is about two touches of this kernel that share a
\* granule, one of them a write, with no chain of flags between them.
THEOREM AlarmsAreRaces == Spec => []NoFalseAlarm
<1>1. LogInv => NoFalseAlarm
  BY DEF LogInv, Faithful, AlarmsRight, RacesPrecede, NoFalseAlarm, Alarm, Race, Touches
<1> QED
  BY <1>1, LogAlways, PTL

\* One remembered writer per granule is enough: a race with a write never goes
\* by without an alarm on the granule.
THEOREM WriteRacesAreReported == Spec => []RaceWithWriteReported
<1>1. LogInv => RaceWithWriteReported
  BY DEF LogInv, Faithful, Reported, Remembered, Alarmed, RaceWithWriteReported, Alarm, Race,
         Touches
<1> QED
  BY <1>1, LogAlways, PTL

\* One remembered reader is enough for the last read, and only for that.
THEOREM LastReadRacesAreReported == Spec => []RaceWithLastReadReported
<1>1. LogInv => RaceWithLastReadReported
  BY DEF LogInv, Faithful, Reported, Remembered, Alarmed, RaceWithLastReadReported, Alarm, Race,
         Touches, Reads
<1> QED
  BY <1>1, LogAlways, PTL
=============================================================================
