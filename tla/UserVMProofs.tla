---------------------------- MODULE UserVMProofs ----------------------------
(***************************************************************************)
(* Proofs about UserVM for every set of tasks, every number of pages and  *)
(* every read span: the accessor's references stay balanced and its page *)
(* cache never serves another mm.                                          *)
(***************************************************************************)
EXTENDS UserVM, TLAPS

(***************************************************************************)
(* The shape of the page cache: m_maddr is set exactly when m_page is,    *)
(* and m_page_id is the index of the cached page or -1.                    *)
(***************************************************************************)
CacheShape ==
  /\ acc.maddr = (acc.page # NoPage)
  /\ acc.pageId = IF acc.page = NoPage THEN NoPageId ELSE acc.page[2]

(***************************************************************************)
(* What the caller's position says about the accessor: outside a locked   *)
(* section nothing is cached, held or copied; between trylock's two steps *)
(* nothing is held yet; inside one the cache belongs to the locked mm;    *)
(* during a read the cursor stays on pages.                                *)
(***************************************************************************)
PcShape ==
  /\ pc \in {"none", "idle", "checked"} =>
       acc.page = NoPage /\ acc.mm = NoTask /\ acc.task = NoTask /\ copied = {}
  /\ pc = "checked" => ~acc.irq /\ tgt \in Tasks
  /\ pc \in {"locked", "reading"} =>
       /\ acc.mm \in Tasks
       /\ acc.page # NoPage => acc.page[1] = acc.mm
       /\ copied \subseteq {acc.mm}
  /\ pc = "reading" =>
       /\ cursor.left >= 1
       /\ cursor.next \in Pages
       /\ cursor.next + cursor.left - 1 \in Pages

IInv == TypeOK /\ RefsBalanced /\ CacheShape /\ PcShape

USE UserVMAssumption

(* The accessor kmalloc'ed by vtss_user_vm_accessor_init is well formed.  *)
LEMMA FreshType ==
  ASSUME NEW irq \in BOOLEAN PROVE Fresh(irq) \in AccType
  BY DEF Fresh, AccType, NoPage, NoPageId, Pages

(* vtss_user_vm_unlock leaves an empty, unlocked, well-formed accessor.  *)
LEMMA UnlockedShape ==
  ASSUME NEW a \in AccType
  PROVE  /\ Unlocked(a) \in AccType
         /\ Unlocked(a).page = NoPage /\ Unlocked(a).mm = NoTask
         /\ Unlocked(a).task = NoTask
         /\ ~Unlocked(a).maddr /\ Unlocked(a).pageId = NoPageId
         /\ Unlocked(a).irq = a.irq
  BY DEF Unlocked, Unpinned, AccType, NoPage, NoPageId, Pages

(* A step of the read loop that keeps the mm, recounts the pinned and  *)
(* mapped page from the new cache and keeps the cursor on pages keeps    *)
(* the invariant.                                                          *)
LEMMA ReadStep ==
  ASSUME IInv, pc = "reading",
         acc' \in AccType, acc'.mm = acc.mm, acc'.irq = acc.irq, acc'.task = acc.task,
         pins' = (IF acc'.page # NoPage THEN 1 ELSE 0),
         kmaps' = (IF acc'.maddr THEN 1 ELSE 0),
         CacheShape', acc'.page # NoPage => acc'.page[1] = acc.mm,
         pc' \in {"locked", "reading"}, copied' \subseteq {acc.mm},
         cursor' \in [next : Nat, left : Nat],
         pc' = "reading" => /\ cursor'.left >= 1
                               /\ cursor'.next \in Pages
                               /\ cursor'.next + cursor'.left - 1 \in Pages,
         UNCHANGED <<tgt, envVars, mmUsers, readers, faults>>
  PROVE  IInv'
<1>1. acc.mm \in Tasks
  BY DEF IInv, PcShape
<1>2. TypeOK'
  BY <1>1 DEF IInv, TypeOK, PcStates, envVars
<1>3. RefsBalanced'
  BY DEF IInv, RefsBalanced, HeldMm, envVars
<1>4. PcShape'
  BY <1>1 DEF PcShape
<1>5. QED BY <1>2, <1>3, <1>4 DEF IInv

(* A step that runs vtss_user_vm_unlock from outside a read and returns  *)
(* to the idle caller or frees the accessor keeps the invariant.          *)
LEMMA UnlockStep ==
  ASSUME IInv, pc \in {"idle", "locked"}, UnlockEffect(acc),
         pc' \in {"none", "idle"}, copied' = {},
         UNCHANGED <<tgt, cursor, envVars, faults>>
  PROVE  IInv'
<1>1. acc \in AccType
  BY DEF IInv, TypeOK
<1>2. /\ acc' \in AccType /\ acc'.page = NoPage /\ acc'.mm = NoTask
      /\ acc'.task = NoTask /\ ~acc'.maddr /\ acc'.pageId = NoPageId
  BY <1>1, UnlockedShape DEF UnlockEffect
<1>3. pins' = 0 /\ kmaps' = 0
  BY DEF UnlockEffect, UnpinPins, UnpinKmaps, IInv, RefsBalanced, TypeOK
<1>4. \A t \in Tasks : readers'[t] = 0 /\ mmUsers'[t] = IF taskMm[t] THEN 1 ELSE 0
  <2>1. CASE HeldMm(acc)
    BY <1>1, <2>1 DEF UnlockEffect, IInv, RefsBalanced, TypeOK, AccType
  <2>2. CASE ~HeldMm(acc)
    BY <2>2 DEF UnlockEffect, IInv, RefsBalanced, TypeOK
  <2>3. QED BY <2>1, <2>2
<1>5. readers' \in [Tasks -> Nat] /\ mmUsers' \in [Tasks -> Nat]
  <2>1. readers' \in [Tasks -> Int] /\ mmUsers' \in [Tasks -> Int]
    <3>1. CASE HeldMm(acc)
      BY <1>1, <3>1 DEF UnlockEffect, IInv, TypeOK, HeldMm, AccType
    <3>2. CASE ~HeldMm(acc)
      BY <3>2 DEF UnlockEffect, IInv, TypeOK
    <3>3. QED BY <3>1, <3>2
  <2>2. QED BY <2>1, <1>4
<1>6. TypeOK'
  BY <1>2, <1>3, <1>5 DEF IInv, TypeOK, PcStates, envVars
<1>7. RefsBalanced'
  BY <1>2, <1>3, <1>4 DEF RefsBalanced, HeldMm, envVars
<1>8. CacheShape'
  BY <1>2 DEF CacheShape, AccType
<1>9. PcShape'
  BY <1>2 DEF PcShape
<1>10. QED BY <1>6, <1>7, <1>8, <1>9 DEF IInv

(* A freshly loaded accessor state (no accessor, every task with an mm)  *)
(* satisfies the inductive invariant.                                      *)
THEOREM InitIInv == Init => IInv
<1> SUFFICES ASSUME Init PROVE IInv
  OBVIOUS
<1>1. acc = Fresh(FALSE) /\ acc \in AccType
  BY FreshType DEF Init
<1>2. TypeOK
  BY <1>1 DEF Init, TypeOK, PcStates
<1>3. RefsBalanced
  BY <1>1 DEF Init, RefsBalanced, Fresh, HeldMm
<1>4. CacheShape
  BY <1>1 DEF CacheShape, Fresh
<1>5. PcShape
  BY <1>1 DEF Init, PcShape, Fresh
<1>6. QED BY <1>2, <1>3, <1>4, <1>5 DEF IInv

(***************************************************************************)
(* Every handler of user_vm.c (accessor init and fini, the two trylock     *)
(* paths and their two steps, unlock, the read loop) and every step of the *)
(* environment (task exit, a writer on mmap_sem) keeps IInv.               *)
(***************************************************************************)
THEOREM NextIInv == IInv /\ [Next]_vars => IInv'
<1> SUFFICES ASSUME IInv, [Next]_vars PROVE IInv'
  OBVIOUS
<1> USE DEF IInv
<1>1. CASE AccessorInit
  <2>0. pc = "none" /\ acc.page = NoPage /\ acc.mm = NoTask /\ copied = {}
    BY <1>1 DEF AccessorInit, PcShape
  <2> PICK irq \in BOOLEAN :
        /\ \/ acc' = Fresh(irq) /\ pc' = "idle"
           \/ UNCHANGED <<acc, pc>>
        /\ UNCHANGED <<tgt, cursor, copied, envVars, mmUsers, readers, pins, kmaps, faults>>
    BY <1>1 DEF AccessorInit
  <2>1. CASE acc' = Fresh(irq) /\ pc' = "idle"
    <3>1. acc' \in AccType /\ acc'.page = NoPage /\ acc'.mm = NoTask /\ ~acc'.maddr
          /\ acc'.pageId = NoPageId /\ acc'.task = NoTask
      BY <2>1, FreshType DEF Fresh
    <3>2. TypeOK'
      BY <2>1, <3>1 DEF TypeOK, PcStates, envVars
    <3>3. RefsBalanced'
      BY <2>0, <2>1, <3>1 DEF RefsBalanced, HeldMm, envVars
    <3>4. CacheShape'
      BY <3>1 DEF CacheShape, IInv, AccType
    <3>5. PcShape'
      BY <2>0, <2>1, <3>1 DEF PcShape
    <3>6. QED BY <3>2, <3>3, <3>4, <3>5 DEF IInv
  <2>2. CASE UNCHANGED <<acc, pc>>
    BY <2>2 DEF TypeOK, RefsBalanced, CacheShape, PcShape, HeldMm, envVars
  <2>3. QED BY <2>1, <2>2
<1>2. CASE AccessorFini
  BY <1>2, UnlockStep DEF AccessorFini
<1>3. CASE Unlock
  BY <1>3, UnlockStep DEF Unlock
<1>4. CASE TrylockGet
  <2>0. /\ pc = "checked" /\ acc.page = NoPage /\ acc.mm = NoTask /\ copied = {}
        /\ ~acc.irq /\ tgt \in Tasks /\ acc \in AccType
        /\ UNCHANGED <<cursor, copied, envVars, pins, kmaps>> /\ tgt' = NoTask
    BY <1>4 DEF TrylockGet, PcShape, TypeOK
  <2>1. CASE /\ faults' = faults \cup {"NullMmDeref"} /\ pc' = "idle"
             /\ UNCHANGED <<acc, mmUsers, readers>>
    BY <2>0, <2>1 DEF TypeOK, RefsBalanced, CacheShape, PcShape, HeldMm, PcStates,
       Faults, envVars
  <2>2. CASE pc' = "idle" /\ UNCHANGED <<acc, mmUsers, readers, faults>>
    BY <2>0, <2>2 DEF TypeOK, RefsBalanced, CacheShape, PcShape, HeldMm, PcStates,
       envVars
  <2>3. CASE /\ taskMm[tgt] /\ ~writer[tgt]
             /\ mmUsers' = [mmUsers EXCEPT ![tgt] = @ + 1]
             /\ readers' = [readers EXCEPT ![tgt] = @ + 1]
             /\ acc' = [acc EXCEPT !.task = tgt, !.mm = tgt]
             /\ pc' = "locked" /\ UNCHANGED faults
    <3>1. /\ acc' \in AccType /\ acc'.mm = tgt /\ ~acc'.irq
          /\ acc'.page = acc.page /\ acc'.maddr = acc.maddr /\ acc'.pageId = acc.pageId
      BY <2>0, <2>3 DEF AccType
    <3>2. TypeOK'
      BY <2>0, <2>3, <3>1 DEF TypeOK, PcStates, envVars
    <3>3. RefsBalanced'
      BY <2>0, <2>3, <3>1 DEF RefsBalanced, HeldMm, TypeOK, envVars
    <3>4. CacheShape'
      BY <3>1 DEF CacheShape, IInv, AccType
    <3>5. PcShape'
      BY <2>0, <2>3, <3>1 DEF PcShape
    <3>6. QED BY <3>2, <3>3, <3>4, <3>5 DEF IInv
  <2>4. QED BY <1>4, <2>1, <2>2, <2>3 DEF TrylockGet
<1>5. CASE ReadBegin
  <2>0. /\ pc = "locked" /\ pc' = "reading" /\ copied' = {}
        /\ UNCHANGED <<acc, tgt, envVars, mmUsers, readers, pins, kmaps, faults>>
    BY <1>5 DEF ReadBegin
  <2> PICK first \in Pages, span \in 1 .. MaxSpan :
        first + span - 1 \in Pages /\ cursor' = [next |-> first, left |-> span]
    BY <1>5 DEF ReadBegin
  <2>1. TypeOK'
    BY <2>0 DEF TypeOK, PcStates, Pages, envVars
  <2>2. RefsBalanced'
    BY <2>0 DEF RefsBalanced, HeldMm, envVars
  <2>3. CacheShape'
    BY <2>0 DEF CacheShape
  <2>4. PcShape'
    BY <2>0 DEF PcShape
  <2>5. QED BY <2>1, <2>2, <2>3, <2>4 DEF IInv
<1>6. CASE ReadPage
  <2> DEFINE q == cursor.next
  <2>0. /\ pc = "reading" /\ acc \in AccType /\ acc.mm \in Tasks
        /\ cursor \in [next : Nat, left : Nat]
        /\ cursor.left >= 1 /\ q \in Pages /\ q + cursor.left - 1 \in Pages
        /\ copied \subseteq {acc.mm}
        /\ acc.page # NoPage => acc.page[1] = acc.mm
        /\ pins = (IF acc.page # NoPage THEN 1 ELSE 0)
        /\ kmaps = (IF acc.maddr THEN 1 ELSE 0)
        /\ UNCHANGED <<tgt, envVars, mmUsers, readers, faults>>
    BY <1>6 DEF ReadPage, IInv, TypeOK, PcShape, RefsBalanced
  <2>1. ASSUME NEW a, a.page # NoPage, a.page[1] = acc.mm, CopyDone(a)
        PROVE  /\ copied' \subseteq {acc.mm} /\ pc' \in {"locked", "reading"}
               /\ cursor' \in [next : Nat, left : Nat]
               /\ pc' = "reading" => /\ cursor'.left >= 1
                                     /\ cursor'.next \in Pages
                                     /\ cursor'.next + cursor'.left - 1 \in Pages
    BY <2>0, <2>1 DEF CopyDone, Pages
  <2>2. ASSUME LoopExit
        PROVE  /\ copied' \subseteq {acc.mm} /\ pc' \in {"locked", "reading"}
               /\ cursor' \in [next : Nat, left : Nat]
               /\ pc' = "reading" => /\ cursor'.left >= 1
                                     /\ cursor'.next \in Pages
                                     /\ cursor'.next + cursor'.left - 1 \in Pages
    BY <2>0, <2>2 DEF LoopExit
  <2>3. /\ PinOk(q) \in AccType /\ PinOk(q).page # NoPage
        /\ PinOk(q).page[1] = acc.mm /\ PinOk(q).page[2] = q
        /\ PinOk(q).maddr /\ PinOk(q).pageId = q
        /\ PinOk(q).mm = acc.mm /\ PinOk(q).task = acc.task
        /\ PinOk(q).irq = acc.irq
    BY <2>0 DEF PinOk, AccType, PinnedPages, NoPage
  <2>4. /\ Unpinned(acc) \in AccType /\ Unpinned(acc).page = NoPage
        /\ ~Unpinned(acc).maddr /\ Unpinned(acc).pageId = NoPageId
        /\ Unpinned(acc).mm = acc.mm /\ Unpinned(acc).task = acc.task
        /\ Unpinned(acc).irq = acc.irq
    BY <2>0 DEF Unpinned, AccType, NoPage, NoPageId, Pages
  <2>5. CASE UNCHANGED <<acc, pins, kmaps>> /\ LoopExit
    BY <2>0, <2>2, <2>5, ReadStep DEF IInv, CacheShape
  <2>6. CASE UNCHANGED <<acc, pins, kmaps>> /\ q = acc.pageId /\ CopyDone(acc)
    <3>1. acc.page # NoPage
      BY <2>0, <2>6 DEF IInv, CacheShape, Pages, NoPageId
    <3>2. QED BY <2>0, <2>6, <3>1, <2>1, ReadStep DEF IInv, CacheShape
  <2>7. CASE /\ acc' = PinOk(q)
             /\ pins' = UnpinPins(acc) + 1 /\ kmaps' = UnpinKmaps(acc) + 1
             /\ CopyDone(PinOk(q)) \/ LoopExit
    <3>1. pins' = 1 /\ kmaps' = 1
      BY <2>0, <2>7 DEF UnpinPins, UnpinKmaps
    <3>2. CacheShape'
      BY <2>3, <2>7 DEF CacheShape
    <3>3. /\ copied' \subseteq {acc.mm} /\ pc' \in {"locked", "reading"}
          /\ cursor' \in [next : Nat, left : Nat]
          /\ pc' = "reading" => /\ cursor'.left >= 1
                                /\ cursor'.next \in Pages
                                /\ cursor'.next + cursor'.left - 1 \in Pages
      BY <2>1, <2>2, <2>3, <2>7
    <3>4. QED BY <2>0, <2>3, <2>7, <3>1, <3>2, <3>3, ReadStep
  <2>8. CASE /\ \/ PinFail(Unpinned(acc), UnpinPins(acc))
                \/ PinFail(PinNoMap(q), UnpinPins(acc) + 1)
             /\ kmaps' = UnpinKmaps(acc)
             /\ LoopExit
    <3>0. acc' = Unpinned(acc) /\ pins' = UnpinPins(acc)
      <4>1. CASE PinFail(Unpinned(acc), UnpinPins(acc))
        <5>1. Unpinned(Unpinned(acc)) = Unpinned(acc)
          BY <2>0 DEF Unpinned, AccType
        <5>2. UnpinPins(acc) \in Int
          BY <2>0 DEF UnpinPins
        <5>3. QED BY <2>4, <4>1, <5>1, <5>2 DEF PinFail
      <4>2. CASE PinFail(PinNoMap(q), UnpinPins(acc) + 1)
        <5>1. PinNoMap(q).page # NoPage /\ Unpinned(PinNoMap(q)) = Unpinned(acc)
          BY <2>0 DEF PinNoMap, Unpinned, AccType, PinnedPages, NoPage
        <5>2. UnpinPins(acc) \in Int
          BY <2>0 DEF UnpinPins
        <5>3. QED BY <4>2, <5>1, <5>2 DEF PinFail
      <4>3. QED BY <2>8, <4>1, <4>2
    <3>1. pins' = 0 /\ kmaps' = 0
      BY <2>0, <2>4, <2>8, <3>0 DEF UnpinPins, UnpinKmaps, AccType
    <3>2. CacheShape'
      <4>1. acc' \in AccType /\ acc'.page = NoPage /\ ~acc'.maddr /\ acc'.pageId = NoPageId
        BY <2>4, <3>0
      <4>2. QED BY <4>1 DEF CacheShape, AccType
    <3>3. QED BY <2>0, <2>2, <2>4, <2>8, <3>0, <3>1, <3>2, ReadStep
  <2>9. QED BY <1>6, <2>5, <2>6, <2>7, <2>8 DEF ReadPage
<1>7. ASSUME NEW t \in Tasks, TrylockIrq(t) PROVE IInv'
  <2>0. /\ pc = "idle" /\ acc.irq /\ acc.page = NoPage /\ acc.mm = NoTask
        /\ copied = {} /\ acc \in AccType
        /\ UNCHANGED <<tgt, cursor, copied, envVars, mmUsers, readers, pins, kmaps, faults>>
    BY <1>7 DEF TrylockIrq, PcShape, TypeOK
  <2>1. /\ acc' \in AccType /\ acc'.irq /\ pc' \in {"idle", "locked"}
        /\ acc'.page = acc.page /\ acc'.maddr = acc.maddr /\ acc'.pageId = acc.pageId
        /\ pc' = "idle" => acc'.mm = NoTask /\ acc'.task = NoTask
        /\ pc' = "locked" => acc'.mm = t
    BY <1>7, <2>0 DEF TrylockIrq, AccType
  <2>2. TypeOK'
    BY <2>0, <2>1 DEF TypeOK, PcStates, envVars
  <2>3. RefsBalanced'
    BY <2>0, <2>1 DEF RefsBalanced, HeldMm, envVars
  <2>4. CacheShape'
    BY <2>1 DEF CacheShape
  <2>5. PcShape'
    BY <2>0, <2>1 DEF PcShape
  <2>6. QED BY <2>2, <2>3, <2>4, <2>5 DEF IInv
<1>8. ASSUME NEW t \in Tasks, TrylockCheck(t) PROVE IInv'
  <2>0. /\ pc = "idle" /\ ~acc.irq /\ acc.page = NoPage /\ acc.mm = NoTask
        /\ acc.task = NoTask /\ copied = {} /\ acc \in AccType
        /\ UNCHANGED <<cursor, copied, envVars, mmUsers, readers, pins, kmaps, faults>>
    BY <1>8 DEF TrylockCheck, PcShape, TypeOK
  <2>1. /\ acc' = acc /\ pc' \in {"idle", "checked"}
        /\ pc' = "checked" => tgt' = t
        /\ pc' = "idle" => tgt' = tgt
    BY <1>8, <2>0 DEF TrylockCheck, AccType
  <2>2. TypeOK'
    BY <2>0, <2>1 DEF TypeOK, PcStates, envVars
  <2>3. RefsBalanced'
    BY <2>0, <2>1 DEF RefsBalanced, HeldMm, envVars
  <2>4. CacheShape'
    BY <2>1 DEF CacheShape
  <2>5. PcShape'
    BY <2>0, <2>1 DEF PcShape
  <2>6. QED BY <2>2, <2>3, <2>4, <2>5 DEF IInv
<1>9. ASSUME NEW t \in Tasks, TaskExit(t) PROVE IInv'
  BY <1>9 DEF TaskExit, TypeOK, RefsBalanced, CacheShape, PcShape, HeldMm
<1>10. ASSUME NEW t \in Tasks, WriterToggle(t) PROVE IInv'
  BY <1>10 DEF WriterToggle, TypeOK, RefsBalanced, CacheShape, PcShape, HeldMm
<1>11. CASE UNCHANGED vars
  BY <1>11 DEF vars, TypeOK, RefsBalanced, CacheShape, PcShape, HeldMm
<1>12. QED
  BY <1>1, <1>2, <1>3, <1>4, <1>5, <1>6, <1>7, <1>8, <1>9, <1>10, <1>11 DEF Next

(***************************************************************************)
(* For every set of tasks, pages and read spans, the page, kmap, mmap_sem *)
(* and mm references of trylock / read / unlock / fini stay balanced      *)
(* (RefsBalanced) in every reachable state.                                *)
(***************************************************************************)
THEOREM RefsBalancedThm == Spec => []RefsBalanced
<1>1. IInv => RefsBalanced
  BY DEF IInv
<1>2. QED BY <1>1, InitIInv, NextIInv, PTL DEF Spec

(***************************************************************************)
(* For every set of tasks, pages and read spans, the page id cached by    *)
(* vtss_user_vm_read names a pinned and kmapped page, also after a pin   *)
(* whose kmap failed (CachedPageMapped).                                  *)
(***************************************************************************)
THEOREM CachedPageMappedThm == Spec => []CachedPageMapped
<1>1. IInv => CachedPageMapped
  BY DEF IInv, CacheShape, TypeOK, AccType, CachedPageMapped
<1>2. QED BY <1>1, InitIInv, NextIInv, PTL DEF Spec

-----------------------------------------------------------------------------
(***************************************************************************)
(* Refinement of UserVMAbs.                                                *)
(***************************************************************************)
AbsStep == [Abs!AbsNext]_Abs!absVars

(* A step through vtss_user_vm_unlock (unlock or fini) releases the lock  *)
(* when the caller held one and is a stutter of UserVMAbs otherwise.      *)
LEMMA UnlockRefines ==
  ASSUME IInv, pc \in {"idle", "locked"}, UnlockEffect(acc),
         pc' \in {"none", "idle"}, copied' = {}, UNCHANGED envVars
  PROVE  AbsStep
<1>1. absOwner' = NoTask /\ taskMm' = taskMm
  BY DEF absOwner, envVars
<1>2. CASE pc = "locked"
  <2>1. absOwner = acc.mm /\ acc.mm # NoTask
    BY <1>2, UserVMAssumption DEF absOwner, IInv, PcShape
  <2>2. Abs!Release
    BY <1>1, <2>1 DEF Abs!Release
  <2>3. QED BY <2>2 DEF AbsStep, Abs!AbsNext
<1>3. CASE pc = "idle"
  <2>1. absOwner = NoTask /\ copied = {}
    BY <1>3 DEF absOwner, IInv, PcShape
  <2>2. QED BY <1>1, <2>1 DEF AbsStep, Abs!absVars
<1>4. QED BY <1>2, <1>3

(* Every step of UserVM is a step of UserVMAbs or leaves its state alone. *)
THEOREM NextRefines == IInv /\ [Next]_vars => AbsStep
<1> SUFFICES ASSUME IInv, [Next]_vars PROVE AbsStep
  OBVIOUS
<1> USE DEF AbsStep
<1>0. /\ acc \in AccType /\ pc \in PcStates
      /\ pc \in {"none", "idle", "checked"} => absOwner = NoTask /\ copied = {}
      /\ pc \in {"locked", "reading"} => absOwner = acc.mm /\ acc.mm \in Tasks
  BY DEF IInv, TypeOK, PcShape, absOwner
<1>1. CASE AccessorInit
  BY <1>0, <1>1 DEF AccessorInit, absOwner, Abs!absVars, envVars
<1>2. CASE AccessorFini
  BY <1>2, UnlockRefines DEF AccessorFini
<1>3. CASE Unlock
  BY <1>3, UnlockRefines DEF Unlock
<1>4. CASE TrylockGet
  <2>1. pc = "checked" /\ absOwner = NoTask /\ copied = {} /\ tgt \in Tasks
    BY <1>0, <1>4 DEF TrylockGet, IInv, PcShape
  <2>2. CASE pc' = "locked"
    <3>1. taskMm[tgt] /\ acc'.mm = tgt /\ UNCHANGED <<copied, taskMm>>
      BY <1>0, <1>4, <2>2 DEF TrylockGet, envVars, AccType
    <3>2. Abs!Lock(tgt)
      BY <2>1, <2>2, <3>1 DEF Abs!Lock, absOwner
    <3>3. QED BY <2>1, <3>2 DEF Abs!AbsNext
  <2>3. CASE pc' # "locked"
    BY <1>4, <2>1, <2>3 DEF TrylockGet, absOwner, Abs!absVars, envVars
  <2>4. QED BY <2>2, <2>3
<1>5. CASE ReadBegin
  <2>1. Abs!StartRead
    BY <1>0, <1>5 DEF ReadBegin, Abs!StartRead, absOwner, envVars
  <2>2. QED BY <2>1 DEF Abs!AbsNext
<1>6. CASE ReadPage
  <2>0. /\ pc = "reading" /\ absOwner = acc.mm /\ acc.mm \in Tasks
        /\ pc' \in {"locked", "reading"} /\ acc'.mm = acc.mm
        /\ UNCHANGED taskMm
    BY <1>0, <1>6 DEF ReadPage, CopyDone, LoopExit, PinOk, PinNoMap, PinFail, Unpinned,
                      envVars, AccType
  <2>1. absOwner' = absOwner
    BY <2>0 DEF absOwner
  <2>2. copied' = copied \/ copied' = copied \cup {acc.mm}
    <3>1. acc.pageId \in Pages => acc.page # NoPage
      BY <1>0 DEF IInv, CacheShape, Pages, NoPageId
    <3>2. acc.page # NoPage => acc.page[1] = acc.mm
      BY <2>0 DEF IInv, PcShape
    <3>3. PinOk(cursor.next).page[1] = acc.mm
      BY <1>0 DEF PinOk, AccType
    <3>4. QED BY <1>6, <3>1, <3>2, <3>3, <2>0 DEF ReadPage, CopyDone, LoopExit, IInv, PcShape
  <2>3. CASE copied' = copied
    BY <2>1, <2>0, <2>3 DEF Abs!absVars
  <2>4. CASE copied' = copied \cup {acc.mm}
    <3>1. Abs!ReadBytes
      BY <2>0, <2>1, <2>4 DEF Abs!ReadBytes
    <3>2. QED BY <3>1 DEF Abs!AbsNext
  <2>5. QED BY <2>2, <2>3, <2>4
<1>7. ASSUME NEW t \in Tasks, TrylockIrq(t) PROVE AbsStep
  <2>1. pc = "idle" /\ absOwner = NoTask /\ copied = {}
    BY <1>0, <1>7 DEF TrylockIrq
  <2>2. CASE taskMm[t]
    <3>1. pc' = "locked" /\ acc'.mm = t /\ UNCHANGED <<copied, taskMm>>
      BY <1>0, <1>7, <2>2 DEF TrylockIrq, envVars, AccType
    <3>2. Abs!Lock(t)
      BY <2>1, <2>2, <3>1 DEF Abs!Lock, absOwner
    <3>3. QED BY <3>2 DEF Abs!AbsNext
  <2>3. CASE ~taskMm[t]
    BY <1>7, <2>1, <2>3 DEF TrylockIrq, absOwner, Abs!absVars, envVars
  <2>4. QED BY <2>2, <2>3
<1>8. ASSUME NEW t \in Tasks, TrylockCheck(t) PROVE AbsStep
  BY <1>0, <1>8 DEF TrylockCheck, absOwner, Abs!absVars, envVars
<1>9. ASSUME NEW t \in Tasks, TaskExit(t) PROVE AbsStep
  <2>1. Abs!Exit(t)
    BY <1>9 DEF TaskExit, Abs!Exit, absOwner
  <2>2. QED BY <2>1 DEF Abs!AbsNext
<1>10. ASSUME NEW t \in Tasks, WriterToggle(t) PROVE AbsStep
  BY <1>10 DEF WriterToggle, absOwner, Abs!absVars
<1>11. CASE UNCHANGED vars
  BY <1>11 DEF vars, absOwner, Abs!absVars
<1>12. QED
  BY <1>1, <1>2, <1>3, <1>4, <1>5, <1>6, <1>7, <1>8, <1>9, <1>10, <1>11 DEF Next

(***************************************************************************)
(* For every set of tasks, pages and read spans, the accessor of user_vm.c *)
(* implements UserVMAbs (AccessorRefinesAbs): it locks only the mm of a    *)
(* live task, keeps the lock until unlock or fini, and returns bytes of   *)
(* the locked mm only.                                                     *)
(***************************************************************************)
THEOREM AccessorRefinesAbsThm == Spec => AccessorRefinesAbs
<1>1. Init => Abs!AbsInit
  BY DEF Init, Abs!AbsInit, absOwner
<1>2. QED
  BY <1>1, InitIInv, NextIInv, NextRefines, PTL
  DEF Spec, AccessorRefinesAbs, Abs!AbsSpec, AbsStep
=============================================================================
