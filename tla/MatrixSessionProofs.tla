------------------------ MODULE MatrixSessionProofs ------------------------
(***************************************************************************)
(* Proofs about MatrixSession for every set of processes and every set of  *)
(* lookup tables: type correctness, and session consistency of            *)
(* mt_initialize_memory / mt_free_memory for tables that carry the poll    *)
(* pci_ops entry mt_initialize_memory dereferences.                        *)
(***************************************************************************)
EXTENDS MatrixSession, TLAPS

(* What mt_free_memory leaves behind, whatever it is applied to.          *)
LEMMA FreeAllEffect ==
  ASSUME TypeOK, NEW l, NEW ptrs, NEW f, f \subseteq Faults,
         FreeAll(l, ptrs, f)
  PROVE  /\ faults' \subseteq Faults
         /\ maps' = {} /\ alloc' = {} /\ lut' = NoDesc
         /\ mmapPtr' = NullPtrs /\ defined' = {}
         /\ memAllocStatus' = FALSE
  BY DEF FreeAll, UnmapFaults, UninitTs, Faults, TypeOK

LEMMA NullPtrsType == NullPtrs \in [Phases -> PtrStates]
  BY DEF NullPtrs, PtrStates

LEMMA BoundPtrsType ==
  ASSUME NEW d, NEW k PROVE BoundPtrs(d, k) \in [Phases -> PtrStates]
  BY DEF BoundPtrs, PtrStates

LEMMA AttemptedType ==
  ASSUME NEW d, NEW ptrs PROVE Attempted(d, ptrs) \subseteq MapIds
  BY DEF Attempted

(* The post-state of mt_free_memory is well typed.                        *)
LEMMA FreeAllType ==
  ASSUME TypeOK, NEW l, NEW ptrs, NEW f, f \subseteq Faults,
         FreeAll(l, ptrs, f)
  PROVE  /\ faults' \subseteq Faults /\ maps' \subseteq MapIds
         /\ alloc' \subseteq Buffers /\ lut' \in Descs \cup {NoDesc}
         /\ mmapPtr' \in [Phases -> PtrStates] /\ defined' \subseteq Pieces
         /\ memAllocStatus' \in BOOLEAN
  BY FreeAllEffect, NullPtrsType

-----------------------------------------------------------------------------
(* Type correctness of every reachable state.                             *)
THEOREM TypeCorrect == Spec => []TypeOK
<1>1. Init => TypeOK
  BY NullPtrsType DEF Init, TypeOK, Returns
<1>2. TypeOK /\ [Next]_vars => TypeOK'
  <2> SUFFICES ASSUME TypeOK, [Next]_vars PROVE TypeOK'
    OBVIOUS
  <2>1. ASSUME NEW p \in Procs, OpenCheck(p) PROVE TypeOK'
    BY <2>1 DEF OpenCheck, TypeOK, Returns, SessionVars
  <2>2. ASSUME NEW p \in Procs, OpenSet(p) PROVE TypeOK'
    BY <2>2 DEF OpenSet, TypeOK, Returns, SessionVars
  <2>3. ASSUME NEW p \in Procs, Release(p) PROVE TypeOK'
    <3>1. CASE instantiated
      <4>1. FreeAll(lut, mmapPtr, {}) /\ instantiated' = FALSE
        BY <2>3, <3>1 DEF Release
      <4>2. /\ faults' \subseteq Faults /\ maps' \subseteq MapIds
            /\ alloc' \subseteq Buffers /\ lut' \in Descs \cup {NoDesc}
            /\ mmapPtr' \in [Phases -> PtrStates] /\ defined' \subseteq Pieces
            /\ memAllocStatus' \in BOOLEAN
        BY <4>1, FreeAllType
      <4>3. QED BY <2>3, <4>1, <4>2 DEF Release, TypeOK, Returns
    <3>2. CASE ~instantiated
      BY <2>3, <3>2 DEF Release, TypeOK, Returns, SessionVars
    <3>3. QED BY <3>1, <3>2
  <2>4. ASSUME NEW p \in Procs, InitMemory(p) PROVE TypeOK'
    <3>1. CASE memAllocStatus
      BY <2>4, <3>1 DEF InitMemory, TypeOK, Returns, SessionVars
    <3>2. CASE ~memAllocStatus
      <4> PICK d \in Descs :
            \/ \E l, ptrs : \E f \in {{}, {"UninitFree"}} :
                 FreeAll(l, ptrs, f) /\ ret' = "EFAULT"
            \/ /\ d.len[<<"pci", "poll">>] > 0
               /\ alloc' = Required(d) /\ lut' = d
               /\ mmapPtr' = BoundPtrs(d, 16)
               /\ maps' \in SUBSET Attempted(d, BoundPtrs(d, 16))
               /\ defined' = {} /\ memAllocStatus' = TRUE /\ ret' = "OK"
               /\ UNCHANGED faults
        BY <2>4, <3>2 DEF InitMemory
      <4>0. UNCHANGED <<pc, instantiated>>
        BY <2>4 DEF InitMemory
      <4>1. Required(d) \subseteq Buffers
        BY DEF Required, Buffers
      <4>2. ASSUME NEW l, NEW ptrs, NEW f \in {{}, {"UninitFree"}},
                   FreeAll(l, ptrs, f), ret' = "EFAULT"
            PROVE  TypeOK'
        <5>0. f \subseteq Faults
          BY DEF Faults
        <5>1. /\ faults' \subseteq Faults /\ maps' \subseteq MapIds
              /\ alloc' \subseteq Buffers /\ lut' \in Descs \cup {NoDesc}
              /\ mmapPtr' \in [Phases -> PtrStates] /\ defined' \subseteq Pieces
              /\ memAllocStatus' \in BOOLEAN
          BY <4>2, <5>0, FreeAllType
        <5>2. QED BY <4>0, <4>2, <5>1 DEF TypeOK, Returns
      <4>3. ASSUME /\ alloc' = Required(d) /\ lut' = d
                   /\ mmapPtr' = BoundPtrs(d, 16)
                   /\ maps' \in SUBSET Attempted(d, BoundPtrs(d, 16))
                   /\ defined' = {}
                   /\ memAllocStatus' = TRUE /\ ret' = "OK" /\ UNCHANGED faults
            PROVE  TypeOK'
        BY <4>0, <4>1, <4>3, BoundPtrsType, AttemptedType DEF TypeOK, Returns, Faults
      <4>4. QED
        BY <4>2, <4>3
    <3>3. QED BY <3>1, <3>2
  <2>5. ASSUME NEW p \in Procs, NEW ph \in {"init", "term"}, DataScan(p, ph)
        PROVE TypeOK'
    <3>1. UnmappedReads(lut, ph) \subseteq Faults
      BY DEF UnmappedReads, Faults
    <3>2. <<ph, 0>> \in Pieces
      BY DEF Pieces
    <3>3. QED
      BY <2>5, <3>1, <3>2, FreeAllType DEF DataScan, ScanFail, TypeOK, Returns
  <2>6. ASSUME NEW p \in Procs, PollScan(p) PROVE TypeOK'
    <3>1. CASE lut = NoDesc \/ "xcBuffAll" \notin alloc
      BY <2>6, <3>1, FreeAllType DEF PollScan, ScanFail, TypeOK, Returns
    <3>2. CASE lut # NoDesc /\ "xcBuffAll" \in alloc
      <4>1. lut \in Descs /\ lut.records \in Nat
        BY <3>2, DescsAssumption DEF TypeOK, DescType
      <4>2. PICK i \in 0..lut.records :
              LET oob == IF i < lut.records THEN {} ELSE {"PollOutOfBounds"}
              IN  \/ /\ faults' = faults \cup oob \cup UnmappedReads(lut, "poll")
                                     \cup ForgedWrites(lut)
                     /\ defined' = defined \cup PollPiece(lut, i)
                     /\ ret' = "OK"
                     /\ UNCHANGED <<memAllocStatus, alloc, lut, mmapPtr, maps>>
                  \/ /\ PollFallible(lut)
                     /\ FreeAll(lut, mmapPtr, oob)
                     /\ ret' = "EFAULT"
        BY <2>6, <3>2 DEF PollScan, ScanFail
      <4>3. PollPiece(lut, i) \subseteq Pieces
        <5>1. CASE i < lut.records
          <6>1. lut.records \in RecordBound
            BY <4>1 DEF RecordBound
          <6>2. i \in 0..(lut.records - 1)
            BY <4>1, <5>1
          <6>3. QED BY <5>1, <6>1, <6>2 DEF PollPiece, Pieces
        <5>2. CASE ~(i < lut.records)
          BY <5>2 DEF PollPiece
        <5>3. QED BY <5>1, <5>2
      <4>4. UnmappedReads(lut, "poll") \cup ForgedWrites(lut) \subseteq Faults
        BY DEF UnmappedReads, ForgedWrites, Faults
      <4>5. UNCHANGED <<pc, instantiated>>
        BY <2>6 DEF PollScan
      <4>6. QED
        BY <4>2, <4>3, <4>4, <4>5, FreeAllType DEF TypeOK, Returns, Faults
    <3>3. QED BY <3>1, <3>2
  <2>7. ASSUME NEW p \in Procs, Transfer(p) PROVE TypeOK'
    BY <2>7, FreeAllType DEF Transfer, TypeOK, Returns, Faults, SessionVars
  <2>8. ASSUME NEW p \in Procs, FreeMemory(p) PROVE TypeOK'
    BY <2>8, FreeAllType DEF FreeMemory, TypeOK, Returns
  <2>9. CASE UNCHANGED vars
    BY <2>9 DEF vars, TypeOK
  <2>11. ASSUME NEW p \in Procs, InitOops(p) PROVE TypeOK'
    <3>1. PICK d \in Descs :
            /\ pc' = [pc EXCEPT ![p] = "closed"] /\ ret' = "Oops"
            /\ IF instantiated
                 THEN /\ FreeAll(d, BoundPtrs(d, 16), {"PciPollNull"})
                      /\ instantiated' = FALSE
                 ELSE /\ alloc' = Required(d) /\ lut' = d
                      /\ mmapPtr' = BoundPtrs(d, 16)
                      /\ maps' \in SUBSET Attempted(d, BoundPtrs(d, 16))
                      /\ defined' = {}
                      /\ faults' = faults \cup {"PciPollNull"}
                      /\ UNCHANGED <<memAllocStatus, instantiated>>
      BY <2>11 DEF InitOops
    <3>2. pc' \in [Procs -> {"closed", "opening", "open"}] /\ ret' \in Returns
      BY <3>1 DEF TypeOK, Returns
    <3>3. CASE instantiated
      <4>1. {"PciPollNull"} \subseteq Faults
        BY DEF Faults
      <4>2. /\ faults' \subseteq Faults /\ maps' \subseteq MapIds
            /\ alloc' \subseteq Buffers /\ lut' \in Descs \cup {NoDesc}
            /\ mmapPtr' \in [Phases -> PtrStates] /\ defined' \subseteq Pieces
            /\ memAllocStatus' \in BOOLEAN
        BY <3>1, <3>3, <4>1, FreeAllType
      <4>3. instantiated' \in BOOLEAN
        BY <3>1, <3>3
      <4>4. QED BY <3>2, <4>2, <4>3 DEF TypeOK
    <3>4. CASE ~instantiated
      <4>1. Required(d) \subseteq Buffers
        BY DEF Required, Buffers
      <4>2. /\ alloc' = Required(d) /\ lut' = d
            /\ mmapPtr' = BoundPtrs(d, 16)
            /\ maps' \in SUBSET Attempted(d, BoundPtrs(d, 16))
            /\ defined' = {}
            /\ faults' = faults \cup {"PciPollNull"}
            /\ UNCHANGED <<memAllocStatus, instantiated>>
        BY <3>1, <3>4
      <4>3. QED
        BY <3>2, <4>1, <4>2, BoundPtrsType, AttemptedType DEF TypeOK, Faults
    <3>5. QED BY <3>3, <3>4
  <2>10. QED
    BY <2>1, <2>2, <2>3, <2>4, <2>5, <2>6, <2>7, <2>8, <2>9, <2>11 DEF Next
<1>3. QED
  BY <1>1, <1>2, PTL DEF Spec

-----------------------------------------------------------------------------
(* Every table carries the poll pci_ops entry whose port                  *)
(* mt_initialize_memory reads (the condition under which it does not      *)
(* dereference NULL, run pci_poll_null).                                  *)
PciPollPresent == \A d \in Descs : d.len[<<"pci", "poll">>] > 0

(* After mt_free_memory the session state is consistent.                  *)
LEMMA FreeAllConsistent ==
  ASSUME NEW l, NEW ptrs, NEW f, FreeAll(l, ptrs, f)
  PROVE  SessionConsistent'
  BY DEF FreeAll, SessionConsistent

(* A step that leaves the session fields alone keeps them consistent.     *)
LEMMA SessionUnchanged ==
  ASSUME SessionConsistent,
         UNCHANGED <<memAllocStatus, alloc, lut, mmapPtr, maps>>
  PROVE  SessionConsistent'
  BY DEF SessionConsistent

(* One step keeps the session consistent unless it is the oops of         *)
(* mt_initialize_memory taken while the open guard is clear, the one step *)
(* after which nothing frees what initialisation built.                   *)
LEMMA SessionStep ==
  ASSUME TypeOK, SessionConsistent, [Next]_vars,
         ~\E p \in Procs : InitOops(p) /\ ~instantiated
  PROVE  SessionConsistent'
<1>1. ASSUME NEW p \in Procs, OpenCheck(p) PROVE SessionConsistent'
  BY <1>1, SessionUnchanged DEF OpenCheck, SessionVars
<1>2. ASSUME NEW p \in Procs, OpenSet(p) PROVE SessionConsistent'
  BY <1>2, SessionUnchanged DEF OpenSet, SessionVars
<1>3. ASSUME NEW p \in Procs, Release(p) PROVE SessionConsistent'
  BY <1>3, SessionUnchanged, FreeAllConsistent DEF Release, SessionVars
<1>4. ASSUME NEW p \in Procs, FreeMemory(p) PROVE SessionConsistent'
  BY <1>4, FreeAllConsistent DEF FreeMemory
<1>5. ASSUME NEW p \in Procs, InitMemory(p) PROVE SessionConsistent'
  <2>1. CASE memAllocStatus
    BY <1>5, <2>1, SessionUnchanged DEF InitMemory, SessionVars
  <2>2. CASE ~memAllocStatus
    <3> PICK d \in Descs :
          \/ \E l, ptrs, f : FreeAll(l, ptrs, f)
          \/ /\ alloc' = Required(d) /\ lut' = d
             /\ mmapPtr' = BoundPtrs(d, 16)
             /\ maps' \in SUBSET Attempted(d, BoundPtrs(d, 16))
             /\ memAllocStatus' = TRUE
      BY <1>5, <2>2 DEF InitMemory
    <3>1. d # NoDesc
      BY DescsAssumption
    <3>2. QED
      BY <3>1, FreeAllConsistent DEF SessionConsistent
  <2>3. QED BY <2>1, <2>2
<1>6. ASSUME NEW p \in Procs, NEW ph \in {"init", "term"}, DataScan(p, ph)
      PROVE SessionConsistent'
  BY <1>6, SessionUnchanged, FreeAllConsistent DEF DataScan, ScanFail
<1>7. ASSUME NEW p \in Procs, PollScan(p) PROVE SessionConsistent'
  BY <1>7, SessionUnchanged, FreeAllConsistent DEF PollScan, ScanFail
<1>8. ASSUME NEW p \in Procs, Transfer(p) PROVE SessionConsistent'
  BY <1>8, SessionUnchanged, FreeAllConsistent DEF Transfer, SessionVars
<1>9. CASE UNCHANGED vars
  BY <1>9, SessionUnchanged DEF vars
<1>10. ASSUME NEW p \in Procs, InitOops(p) PROVE SessionConsistent'
  <2>1. instantiated
    BY <1>10
  <2>2. PICK d \in Descs : FreeAll(d, BoundPtrs(d, 16), {"PciPollNull"})
    BY <1>10, <2>1 DEF InitOops
  <2>3. QED BY <2>2, FreeAllConsistent
<1>11. QED
  BY <1>1, <1>2, <1>3, <1>4, <1>5, <1>6, <1>7, <1>8, <1>9, <1>10 DEF Next

(* Session consistency: whatever the order of opens, releases, scans,     *)
(* transfers and failures, mem_alloc_status holds exactly when the        *)
(* buffers of the held table are allocated and its memory-map pointers    *)
(* are rebound, and nothing is allocated or mapped otherwise, for any     *)
(* number of openers when every table has the poll pci_ops entry.         *)
THEOREM SessionConsistentThm ==
  ASSUME PciPollPresent PROVE Spec => []SessionConsistent
<1>1. Init => SessionConsistent
  BY DEF Init, SessionConsistent
<1>2. ~\E p \in Procs : InitOops(p)
  <2> SUFFICES ASSUME NEW p \in Procs, InitOops(p) PROVE FALSE
    OBVIOUS
  <2>1. PICK d \in Descs : d.len[<<"pci", "poll">>] = 0
    BY DEF InitOops
  <2>2. d.len[<<"pci", "poll">>] > 0
    BY PciPollPresent DEF PciPollPresent
  <2>3. QED BY <2>1, <2>2, DescsAssumption DEF DescType, Regions, Types, Phases
<1>3. TypeOK /\ SessionConsistent /\ [Next]_vars => SessionConsistent'
  BY <1>2, SessionStep
<1>4. QED
  BY <1>1, <1>3, TypeCorrect, PTL DEF Spec

-----------------------------------------------------------------------------
(* With one opener q, the open guard is set exactly while q has the       *)
(* device open, and while it has not, no buffer or mapping exists.        *)
OpenerShape(q) ==
  /\ instantiated <=> pc[q] = "open"
  /\ pc[q] # "open" => alloc = {} /\ maps = {}

(* The handlers other than open and release run only in an open process  *)
(* and leave pc and the guard alone.                                      *)
LEMMA OpenHandler ==
  ASSUME NEW q, Procs = {q}, TypeOK, OpenerShape(q),
         \/ InitMemory(q) \/ FreeMemory(q) \/ PollScan(q) \/ Transfer(q)
         \/ DataScan(q, "init") \/ DataScan(q, "term")
  PROVE  OpenerShape(q)'
<1>1. pc[q] = "open" /\ UNCHANGED <<pc, instantiated>>
  BY DEF InitMemory, FreeMemory, PollScan, Transfer, DataScan
<1>2. QED BY <1>1 DEF OpenerShape

(* Every step keeps OpenerShape: matrix_open sets the guard on the way to *)
(* open; matrix_release, and the exit after the oops of                   *)
(* mt_initialize_memory, find it set and free everything.                 *)
LEMMA OpenerStep ==
  ASSUME NEW q, Procs = {q}, TypeOK, OpenerShape(q), [Next]_vars
  PROVE  OpenerShape(q)'
<1>0. q \in DOMAIN pc
  BY DEF TypeOK
<1>1. CASE OpenCheck(q)
  <2>1. ~instantiated /\ UNCHANGED <<instantiated, alloc, maps>>
    BY <1>1 DEF OpenCheck, OpenerShape, SessionVars
  <2>2. pc'[q] # "open"
    BY <1>0, <1>1, <2>1 DEF OpenCheck
  <2>3. alloc = {} /\ maps = {}
    BY <1>1 DEF OpenCheck, OpenerShape
  <2>4. QED BY <2>1, <2>2, <2>3 DEF OpenerShape
<1>2. CASE OpenSet(q)
  BY <1>0, <1>2 DEF OpenSet, OpenerShape
<1>3. CASE Release(q)
  <2>1. instantiated
    BY <1>3 DEF Release, OpenerShape
  <2>2. FreeAll(lut, mmapPtr, {}) /\ instantiated' = FALSE
    BY <1>3, <2>1 DEF Release
  <2>3. alloc' = {} /\ maps' = {}
    BY <2>2 DEF FreeAll
  <2>4. pc'[q] = "closed"
    BY <1>0, <1>3 DEF Release
  <2>5. QED BY <2>2, <2>3, <2>4 DEF OpenerShape
<1>4. CASE InitOops(q)
  <2>1. instantiated
    BY <1>4 DEF InitOops, OpenerShape
  <2>2. PICK d \in Descs : /\ FreeAll(d, BoundPtrs(d, 16), {"PciPollNull"})
                           /\ instantiated' = FALSE
    BY <1>4, <2>1 DEF InitOops
  <2>3. alloc' = {} /\ maps' = {}
    BY <2>2 DEF FreeAll
  <2>4. pc'[q] = "closed"
    BY <1>0, <1>4 DEF InitOops
  <2>5. QED BY <2>2, <2>3, <2>4 DEF OpenerShape
<1>5. CASE \/ InitMemory(q) \/ FreeMemory(q) \/ PollScan(q) \/ Transfer(q)
           \/ DataScan(q, "init") \/ DataScan(q, "term")
  BY <1>5, OpenHandler
<1>6. CASE UNCHANGED vars
  BY <1>6 DEF vars, OpenerShape
<1>7. QED
  BY <1>1, <1>2, <1>3, <1>4, <1>5, <1>6 DEF Next

(* OpenerShape holds in every reachable state of a single opener.         *)
LEMMA OpenerInv ==
  ASSUME NEW q, Procs = {q} PROVE Spec => []OpenerShape(q)
<1>1. Init => OpenerShape(q)
  BY DEF Init, OpenerShape
<1>2. TypeOK /\ OpenerShape(q) /\ [Next]_vars => OpenerShape(q)'
  BY OpenerStep
<1>3. QED BY <1>1, <1>2, TypeCorrect, PTL DEF Spec

(* matrix_release frees the session: when the only process that opens    *)
(* the device has closed it, whether by release or by dying in the oops  *)
(* of mt_initialize_memory, no buffer and no I/O mapping is left. With   *)
(* two openers this fails (run open_race).                                *)
THEOREM NoLeakAfterCloseThm ==
  ASSUME NEW q, Procs = {q} PROVE Spec => []NoLeakAfterClose
<1>1. OpenerShape(q) => NoLeakAfterClose
  BY DEF OpenerShape, NoLeakAfterClose
<1>2. QED BY <1>1, OpenerInv, PTL

(* Session consistency for a single opener and any tables, those without *)
(* the poll pci_ops entry included: the oops of mt_initialize_memory is   *)
(* then always followed by matrix_release with the guard set.             *)
THEOREM SessionConsistentOneOpenerThm ==
  ASSUME NEW q, Procs = {q} PROVE Spec => []SessionConsistent
<1>1. Init => SessionConsistent
  BY DEF Init, SessionConsistent
<1>2. OpenerShape(q) => ~\E p \in Procs : InitOops(p) /\ ~instantiated
  BY DEF OpenerShape, InitOops
<1>3. TypeOK /\ OpenerShape(q) /\ SessionConsistent /\ [Next]_vars
        => SessionConsistent'
  BY <1>2, SessionStep
<1>4. QED BY <1>1, <1>3, TypeCorrect, OpenerInv, PTL DEF Spec


-----------------------------------------------------------------------------
(* A handler returns EFAULT only with no session: every EFAULT path goes  *)
(* through mt_free_memory, or (mt_transfer_data) finds none.              *)
EfaultFreed == ret = "EFAULT" => ~memAllocStatus

(* The step FailureReleasesAll allows.                                    *)
FailureStep ==
  memAllocStatus /\ ret' = "EFAULT" => alloc' = {} /\ maps' = {} /\ ~memAllocStatus'

(* A step of mt_free_memory satisfies both.                               *)
LEMMA FreeAllStep ==
  ASSUME NEW l, NEW ptrs, NEW f, FreeAll(l, ptrs, f)
  PROVE  EfaultFreed' /\ FailureStep
  BY DEF FreeAll, EfaultFreed, FailureStep

(* A step whose return value is not EFAULT satisfies both.                *)
LEMMA OtherReturnStep ==
  ASSUME ret' # "EFAULT" PROVE EfaultFreed' /\ FailureStep
  BY DEF EfaultFreed, FailureStep

(* Every step keeps EfaultFreed and is a FailureStep.                     *)
LEMMA EfaultStep ==
  ASSUME EfaultFreed, [Next]_vars PROVE EfaultFreed' /\ [FailureStep]_vars
<1>1. ASSUME NEW p \in Procs, OpenCheck(p) PROVE EfaultFreed' /\ FailureStep
  <2>1. CASE instantiated
    BY <1>1, <2>1, OtherReturnStep DEF OpenCheck
  <2>2. CASE ~instantiated
    BY <1>1, <2>2 DEF OpenCheck, SessionVars, EfaultFreed, FailureStep
  <2>3. QED BY <2>1, <2>2
<1>2. ASSUME NEW p \in Procs, OpenSet(p) \/ Release(p) \/ FreeMemory(p) \/ InitOops(p)
      PROVE EfaultFreed' /\ FailureStep
  BY <1>2, OtherReturnStep DEF OpenSet, Release, FreeMemory, InitOops
<1>3. ASSUME NEW p \in Procs, InitMemory(p) PROVE EfaultFreed' /\ FailureStep
  <2>1. CASE memAllocStatus
    BY <1>3, <2>1, OtherReturnStep DEF InitMemory
  <2>2. CASE ~memAllocStatus
    <3>1. \/ \E l, ptrs, f : FreeAll(l, ptrs, f)
          \/ ret' = "OK"
      BY <1>3, <2>2 DEF InitMemory
    <3>2. QED BY <3>1, FreeAllStep, OtherReturnStep
  <2>3. QED BY <2>1, <2>2
<1>4. ASSUME NEW p \in Procs, NEW ph \in {"init", "term"}, DataScan(p, ph)
      PROVE EfaultFreed' /\ FailureStep
  <2>1. \/ \E l, ptrs : FreeAll(l, ptrs, {})
        \/ ret' = "OK"
    BY <1>4 DEF DataScan, ScanFail
  <2>2. QED BY <2>1, FreeAllStep, OtherReturnStep
<1>5. ASSUME NEW p \in Procs, PollScan(p) PROVE EfaultFreed' /\ FailureStep
  <2>1. \/ \E l, ptrs, f : FreeAll(l, ptrs, f)
        \/ ret' = "OK"
    BY <1>5 DEF PollScan, ScanFail
  <2>2. QED BY <2>1, FreeAllStep, OtherReturnStep
<1>6. ASSUME NEW p \in Procs, Transfer(p) PROVE EfaultFreed' /\ FailureStep
  <2>1. CASE ~memAllocStatus
    BY <1>6, <2>1 DEF Transfer, SessionVars, EfaultFreed, FailureStep
  <2>2. CASE memAllocStatus
    <3>1. \/ \E l, ptrs : FreeAll(l, ptrs, {})
          \/ ret' = "OK"
      BY <1>6, <2>2 DEF Transfer
    <3>2. QED BY <3>1, FreeAllStep, OtherReturnStep
  <2>3. QED BY <2>1, <2>2
<1>7. CASE UNCHANGED vars
  BY <1>7 DEF vars, EfaultFreed
<1>8. QED
  BY <1>1, <1>2, <1>3, <1>4, <1>5, <1>6, <1>7 DEF Next

(* Every failure releases everything (spec section 7), for any number of *)
(* processes and any tables: a handler that returns EFAULT while a       *)
(* session is live has freed every buffer and mapping and cleared        *)
(* mem_alloc_status.                                                      *)
THEOREM FailureReleasesAllThm == Spec => FailureReleasesAll
<1>1. Init => EfaultFreed
  BY DEF Init, EfaultFreed
<1>2. EfaultFreed /\ [Next]_vars => EfaultFreed' /\ [FailureStep]_vars
  BY EfaultStep
<1>3. QED BY <1>1, <1>2, PTL DEF Spec, FailureReleasesAll, FailureStep

=============================================================================
