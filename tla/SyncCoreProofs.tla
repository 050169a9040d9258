--------------------------- MODULE SyncCoreProofs ---------------------------
(***************************************************************************)
(* What the operators of the simulated core do to the types of its state,  *)
(* for whatever is built on it.                                            *)
(***************************************************************************)
EXTENDS SyncCore, TLAPS

LEMMA FreshTyped ==
  /\ Fresh.clock \in [Pipe -> Nat]
  /\ Fresh.view \in [Pipe -> [Pipe -> Nat]]
  /\ Fresh.flags \in [Event -> [EventId -> EventSlot]]
  /\ Fresh.gran \in [Granule -> GranuleInfo]
  BY DEF Fresh, EventSlot, GranuleInfo, Untouched, Lowered

LEMMA ReportTyped ==
  ASSUME syncErrors \in Nat, NEW n \in Nat, ReportSyncErrors(n)
  PROVE  syncErrors' \in Nat
  BY DEF ReportSyncErrors

LEMMA CheckTyped ==
  ASSUME NEW G, NEW p, NEW gs, NEW w
  PROVE  CheckAccess(G, p, gs, w) \in Nat
  BY DEF CheckAccess, OneIf

LEMMA RecordReadTyped ==
  ASSUME NEW G \in [Granule -> GranuleInfo], NEW p \in Pipe, NEW gs, NEW tick \in Nat
  PROVE  RecordRead(G, p, gs, tick) \in [Granule -> GranuleInfo]
  BY DEF RecordRead, GranuleInfo

LEMMA RecordWriteTyped ==
  ASSUME NEW G \in [Granule -> GranuleInfo], NEW p \in Pipe, NEW gs, NEW tick \in Nat
  PROVE  RecordWrite(G, p, gs, tick) \in [Granule -> GranuleInfo]
  BY DEF RecordWrite, GranuleInfo

LEMMA InstructionTyped ==
  ASSUME CoreTypeOK, NEW p \in Pipe, NEW src0, NEW src1, NEW dst, NEW n \in Nat,
         Instruction(p, src0, src1, dst, n)
  PROVE  CoreTypeOK'
<1> DEFINE tick == clock[p] + 1
<1>1. tick \in Nat
  BY DEF CoreTypeOK
<1>2. AfterSrc0(p, src0) \in [Granule -> GranuleInfo]
  BY <1>1, RecordReadTyped DEF AfterSrc0, CoreTypeOK
<1>3. AfterSrc1(p, src0, src1) \in [Granule -> GranuleInfo]
  BY <1>1, <1>2, RecordReadTyped DEF AfterSrc1
<1>4. RecordWrite(AfterSrc1(p, src0, src1), p, dst, tick) \in [Granule -> GranuleInfo]
  BY <1>1, <1>3, RecordWriteTyped
<1>5. gran' \in [Granule -> GranuleInfo]
  BY <1>4 DEF Instruction, CoreTypeOK
<1> DEFINE touch == TouchErrors(p, src0, src1, dst)
<1>6. n + touch[1] + touch[2] + touch[3] \in Nat
  <2>1. touch[1] \in Nat
    BY CheckTyped DEF TouchErrors
  <2>2. touch[2] \in Nat
    BY CheckTyped DEF TouchErrors
  <2>3. touch[3] \in Nat
    BY CheckTyped DEF TouchErrors
  <2> HIDE DEF touch
  <2> QED
    BY <2>1, <2>2, <2>3
<1>7. syncErrors' \in Nat
  <2>1. ReportSyncErrors(n + touch[1] + touch[2] + touch[3])
    BY DEF Instruction
  <2> HIDE DEF touch
  <2> QED
    BY <1>6, <2>1, ReportTyped DEF CoreTypeOK
<1>8. clock' \in [Pipe -> Nat]
  BY DEF Instruction, CoreTypeOK
<1> QED
  BY <1>5, <1>7, <1>8 DEF Instruction, CoreTypeOK

LEMMA SnapshotTyped ==
  ASSUME CoreTypeOK, NEW p \in Pipe
  PROVE  Snapshot(p) \in [Pipe -> Nat]
  BY DEF Snapshot, CoreTypeOK

LEMMA FlagsAfterSetTyped ==
  ASSUME CoreTypeOK, NEW e \in Event, NEW id
  PROVE  FlagsAfterSet(e, id) \in [Event -> [EventId -> EventSlot]]
<1>1. EventSrcPipe[e] \in Pipe
  BY SyncCoreAssumption
<1> QED
  BY <1>1, SnapshotTyped DEF FlagsAfterSet, CoreTypeOK, EventSlot

LEMMA ViewAfterWaitTyped ==
  ASSUME CoreTypeOK, NEW e \in Event, NEW id
  PROVE  ViewAfterWait(e, id) \in [Pipe -> [Pipe -> Nat]]
<1>1. EventDstPipe[e] \in Pipe
  BY SyncCoreAssumption
<1> QED
  BY <1>1 DEF ViewAfterWait, Raised, Larger, CoreTypeOK, EventSlot

LEMMA FlagsAfterWaitTyped ==
  ASSUME CoreTypeOK, NEW e \in Event, NEW id
  PROVE  FlagsAfterWait(e, id) \in [Event -> [EventId -> EventSlot]]
<1>1. CASE ~ Raised(e, id)
  BY <1>1 DEF FlagsAfterWait, CoreTypeOK
<1>2. CASE Raised(e, id)
  <2>1. id \in EventId /\ flags[e][id] \in EventSlot
    BY <1>2 DEF Raised, CoreTypeOK
  <2>2. [flags[e][id] EXCEPT !.pending = FALSE] \in EventSlot
    BY <2>1 DEF EventSlot
  <2>3. FlagsAfterWait(e, id) = [flags EXCEPT ![e] = [flags[e] EXCEPT ![id] =
                                   [flags[e][id] EXCEPT !.pending = FALSE]]]
    BY <1>2 DEF FlagsAfterWait
  <2> QED
    BY <2>1, <2>2, <2>3 DEF CoreTypeOK
<1> QED
  BY <1>1, <1>2

LEMMA FlagErrorsTyped ==
  ASSUME NEW e, NEW id
  PROVE  SetFlagErrors(e, id) \in Nat /\ WaitFlagErrors(e, id) \in Nat
  BY DEF SetFlagErrors, WaitFlagErrors, OneIf

LEMMA SetFlagTyped ==
  ASSUME CoreTypeOK, NEW e \in Event, NEW id, SetFlag(e, id)
  PROVE  CoreTypeOK'
  BY FlagsAfterSetTyped, FlagErrorsTyped, ReportTyped DEF SetFlag, CoreTypeOK

LEMMA WaitFlagTyped ==
  ASSUME CoreTypeOK, NEW e \in Event, NEW id, WaitFlag(e, id)
  PROVE  CoreTypeOK'
  BY ViewAfterWaitTyped, FlagsAfterWaitTyped, FlagErrorsTyped, ReportTyped DEF WaitFlag, CoreTypeOK
=============================================================================
