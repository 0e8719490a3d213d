------------------------------- MODULE UserVM -------------------------------
(***************************************************************************)
(* The VTSS user-memory accessor of src/vtunedk/src/vtsspp/user_vm.c: one  *)
(* accessor object (vtss_user_vm_accessor_init / _fini) used by a caller   *)
(* thread through trylock, read and unlock, while the tasks it targets may *)
(* exit and other threads may hold their mmap_sem for writing.             *)
(*                                                                         *)
(* The accessor's fields m_task, m_mm, m_page, m_maddr, m_page_id, m_irq  *)
(* are the record acc. An mm is named by the task that owns it; a pinned  *)
(* page by its (mm, page index) pair; m_page_id is a page index or -1.    *)
(* The kernel objects the accessor takes references on are counted:      *)
(* mm_users (mmUsers), the accessor's read holds of mmap_sem (readers),   *)
(* its page references (pins) and kmaps (kmaps). The read loop of         *)
(* vtss_user_vm_read runs one page per step; `copied' records which mm    *)
(* the pages copied by the current read came from.                        *)
(*                                                                         *)
(* The build modelled is the one without VTSS_VMA_CACHE on a kernel       *)
(* >= 2.6.38. In IRQ mode the target task is the interrupted one, which   *)
(* cannot run its exit path while interrupted: trylock is then one step   *)
(* and the target does not exit while the accessor holds it.              *)
(***************************************************************************)
EXTENDS Integers

CONSTANTS Tasks,      \* the tasks the caller may target
          NPages,     \* user pages 0 .. NPages-1
          MaxSpan,    \* most pages one read may cover
          NoTask      \* NULL task / mm

ASSUME UserVMAssumption ==
  /\ NoTask \notin Tasks
  /\ NPages \in Nat \ {0}
  /\ MaxSpan \in Nat \ {0}

Pages == 0 .. (NPages - 1)
NoPageId == -1                    \* (unsigned long)-1
PinnedPages == Tasks \X Pages
NoPage == <<NoTask, NoPageId>>

Faults == {"NullMmDeref"}
PcStates == {"none", "idle", "checked", "locked", "reading"}

VARIABLES acc,        \* the accessor's fields
          pc,         \* where the caller thread is
          tgt,        \* task passed to the trylock in progress
          cursor,     \* next page and pages left of the read in progress
          copied,     \* mms the current read copied from
          taskMm,     \* task->mm != NULL
          writer,     \* another thread holds mmap_sem for writing
          mmUsers,    \* mm_users of each task's mm
          readers,    \* read holds of each mmap_sem taken by the accessor
          pins,       \* page references held by the accessor
          kmaps,      \* kmaps held by the accessor
          faults

vars == <<acc, pc, tgt, cursor, copied, taskMm, writer, mmUsers, readers,
          pins, kmaps, faults>>
envVars == <<taskMm, writer>>

AccType == [task: Tasks \cup {NoTask}, mm: Tasks \cup {NoTask},
            page: PinnedPages \cup {NoPage}, maddr: BOOLEAN,
            pageId: Pages \cup {NoPageId}, irq: BOOLEAN]

(* kmalloc(..., __GFP_ZERO) followed by m_page_id = -1, m_irq = in_irq.   *)
Fresh(irq) == [task |-> NoTask, mm |-> NoTask, page |-> NoPage,
               maddr |-> FALSE, pageId |-> NoPageId, irq |-> irq]

Init ==
  /\ acc = Fresh(FALSE)
  /\ pc = "none"
  /\ tgt = NoTask
  /\ cursor = [next |-> 0, left |-> 0]
  /\ copied = {}
  /\ taskMm = [t \in Tasks |-> TRUE]
  /\ writer = [t \in Tasks |-> FALSE]
  /\ mmUsers = [t \in Tasks |-> 1]
  /\ readers = [t \in Tasks |-> 0]
  /\ pins = 0
  /\ kmaps = 0
  /\ faults = {}

(***************************************************************************)
(* vtss_user_vm_page_unpin: kunmap the mapping if any, put the page if    *)
(* any, forget the cached page id. Returns the accessor and the counts.   *)
(***************************************************************************)
Unpinned(a) == [a EXCEPT !.maddr = FALSE, !.page = NoPage, !.pageId = NoPageId]
(* Mutant: unpin that forgets to put_page. *)
UnpinPinsKeep(a) == pins
(* Mutant: unpin that calls put_page without testing m_page. *)
UnpinPinsAlways(a) == pins - 1

UnpinPins(a) == pins - (IF a.page # NoPage THEN 1 ELSE 0)
UnpinKmaps(a) == kmaps - (IF a.maddr THEN 1 ELSE 0)

(***************************************************************************)
(* vtss_user_vm_unlock: unpin, then, when an mm is held, release it: in   *)
(* process context up_read(mmap_sem) and mmput; in IRQ mode nothing was   *)
(* taken. m_mm and m_task become NULL.                                     *)
(***************************************************************************)
Unlocked(a) == [Unpinned(a) EXCEPT !.mm = NoTask, !.task = NoTask]
HeldMm(a) == a.mm # NoTask /\ ~a.irq
UnlockEffect(a) ==
  /\ acc' = Unlocked(a)
  /\ pins' = UnpinPins(a)
  /\ kmaps' = UnpinKmaps(a)
  /\ readers' = IF HeldMm(a) THEN [readers EXCEPT ![a.mm] = @ - 1] ELSE readers
  /\ mmUsers' = IF HeldMm(a) THEN [mmUsers EXCEPT ![a.mm] = @ - 1] ELSE mmUsers

(* vtss_user_vm_accessor_init: the kmalloc may fail and return NULL.      *)
AccessorInit ==
  /\ pc = "none"
  /\ \E irq \in BOOLEAN :
       \/ /\ acc' = Fresh(irq)
          /\ pc' = "idle"
       \/ UNCHANGED <<acc, pc>>
  /\ UNCHANGED <<tgt, cursor, copied, envVars, mmUsers, readers, pins, kmaps, faults>>

(* vtss_user_vm_accessor_fini: acc->unlock(acc), then kfree.             *)
AccessorFini ==
  /\ pc \in {"idle", "locked"}
  /\ UnlockEffect(acc)
  /\ pc' = "none"
  /\ copied' = {}
  /\ UNCHANGED <<tgt, cursor, envVars, faults>>

(***************************************************************************)
(* vtss_user_vm_trylock. m_task and m_mm are cleared first. A NULL task   *)
(* or task->mm returns 1. In IRQ mode m_mm = task->mm, no reference is    *)
(* taken, and the call is one step. In process context the test of        *)
(* task->mm and get_task_mm are separate reads of a field the exiting     *)
(* task clears: TrylockCheck ends after the test, TrylockGet does the     *)
(* rest. The page cache is left as it is.                                  *)
(*                                                                         *)
(* trylock is taken only from an idle (unlocked) accessor: on a locked    *)
(* one its first two assignments drop m_mm without up_read or mmput, and  *)
(* the code does not guard against that call order. Its callers, reached *)
(* through acc->trylock outside this file, are assumed to unlock first.  *)
(***************************************************************************)
(* Mutant: the IRQ path without the task->mm == NULL test.               *)
TrylockIrqNoMmCheck(t) ==
  /\ pc = "idle" /\ acc.irq
  /\ acc' = [acc EXCEPT !.task = t, !.mm = t]
  /\ pc' = "locked"
  /\ UNCHANGED <<tgt, cursor, copied, envVars, mmUsers, readers, pins, kmaps, faults>>

TrylockIrq(t) ==
  /\ pc = "idle" /\ acc.irq
  /\ IF taskMm[t]
       THEN /\ acc' = [acc EXCEPT !.task = t, !.mm = t]
            /\ pc' = "locked"
       ELSE /\ acc' = [acc EXCEPT !.task = NoTask, !.mm = NoTask]
            /\ UNCHANGED pc
  /\ UNCHANGED <<tgt, cursor, copied, envVars, mmUsers, readers, pins, kmaps, faults>>

TrylockCheck(t) ==
  /\ pc = "idle" /\ ~acc.irq
  /\ acc' = [acc EXCEPT !.task = NoTask, !.mm = NoTask]
  /\ IF taskMm[t]
       THEN pc' = "checked" /\ tgt' = t
       ELSE UNCHANGED <<pc, tgt>>
  /\ UNCHANGED <<cursor, copied, envVars, mmUsers, readers, pins, kmaps, faults>>

(* get_task_mm returns NULL once the task has passed exit_mm; the code    *)
(* then reads mm->mmap_sem.                                                *)
(* Mutant: down_read in place of down_read_trylock, which waits while a  *)
(* writer holds mmap_sem.                                                  *)
TrylockGetBlocking ==
  /\ pc = "checked"
  /\ \/ /\ ~taskMm[tgt]
        /\ faults' = faults \cup {"NullMmDeref"}
        /\ pc' = "idle"
        /\ UNCHANGED <<acc, mmUsers, readers>>
     \/ /\ taskMm[tgt] /\ ~writer[tgt]
        /\ mmUsers' = [mmUsers EXCEPT ![tgt] = @ + 1]
        /\ readers' = [readers EXCEPT ![tgt] = @ + 1]
        /\ acc' = [acc EXCEPT !.task = tgt, !.mm = tgt]
        /\ pc' = "locked"
        /\ UNCHANGED faults
  /\ tgt' = NoTask
  /\ UNCHANGED <<cursor, copied, envVars, pins, kmaps>>

TrylockGet ==
  /\ pc = "checked"
  /\ \/ /\ ~taskMm[tgt]
        /\ faults' = faults \cup {"NullMmDeref"}
        /\ pc' = "idle"
        /\ UNCHANGED <<acc, mmUsers, readers>>
     \/ /\ taskMm[tgt] /\ writer[tgt]          \* down_read_trylock fails
        /\ pc' = "idle"
        /\ UNCHANGED <<acc, mmUsers, readers, faults>>
     \/ /\ taskMm[tgt] /\ ~writer[tgt]
        /\ mmUsers' = [mmUsers EXCEPT ![tgt] = @ + 1]
        /\ readers' = [readers EXCEPT ![tgt] = @ + 1]
        /\ acc' = [acc EXCEPT !.task = tgt, !.mm = tgt]
        /\ pc' = "locked"
        /\ UNCHANGED faults
  /\ tgt' = NoTask
  /\ UNCHANGED <<cursor, copied, envVars, pins, kmaps>>

(* vtss_user_vm_unlock, called by the caller in any state but mid-call.  *)
Unlock ==
  /\ pc \in {"idle", "locked"}
  /\ UnlockEffect(acc)
  /\ pc' = "idle"
  /\ copied' = {}
  /\ UNCHANGED <<tgt, cursor, envVars, faults>>

(***************************************************************************)
(* vtss_user_vm_read: from a locked accessor, a read of `span' pages from *)
(* page `first' (the do-while visits at least one page, even for size 0). *)
(***************************************************************************)
ReadBegin ==
  /\ pc = "locked"
  /\ \E first \in Pages, span \in 1 .. MaxSpan :
       /\ first + span - 1 \in Pages
       /\ cursor' = [next |-> first, left |-> span]
  /\ copied' = {}
  /\ pc' = "reading"
  /\ UNCHANGED <<acc, tgt, envVars, mmUsers, readers, pins, kmaps, faults>>

(* One pass of the loop body ends here: page copied, or loop left.       *)
CopyDone(a) ==
  /\ copied' = copied \cup {a.page[1]}
  /\ cursor' = [next |-> cursor.next + 1, left |-> cursor.left - 1]
  /\ pc' = IF cursor.left = 1 THEN "locked" ELSE "reading"
LoopExit == pc' = "locked" /\ UNCHANGED <<cursor, copied>>

(***************************************************************************)
(* One iteration for page q = cursor.next: access_ok may fail (break);   *)
(* a page id other than the cached one is unpinned and pinned again      *)
(* (vtss_user_vm_page_pin), a failed pin is unpinned and ends the loop;  *)
(* in IRQ mode __copy_from_user_inatomic may fail and end the loop.      *)
(***************************************************************************)
PinOk(q) == [acc EXCEPT !.page = <<acc.mm, q>>, !.maddr = TRUE, !.pageId = q]

(* vtss_user_vm_page_pin returning 2: the page is pinned and its id set,  *)
(* but kmap gave NULL.                                                     *)
PinNoMap(q) == [acc EXCEPT !.page = <<acc.mm, q>>, !.maddr = FALSE, !.pageId = q]

(* Mutant: the loop breaks on a failed pin without unpinning again.       *)
PinFailKeep(a, n) == acc' = a /\ pins' = n

(* The vtss_user_vm_page_unpin after a failed pin, from the accessor a    *)
(* and the pin count n the pin left (its page is never kmapped).          *)
PinFail(a, n) ==
  /\ acc' = Unpinned(a)
  /\ pins' = n - (IF a.page # NoPage THEN 1 ELSE 0)

ReadPage ==
  /\ pc = "reading"
  /\ LET q == cursor.next IN
     \/ /\ LoopExit                                     \* access_ok fails
        /\ UNCHANGED <<acc, pins, kmaps>>
     \/ /\ q = acc.pageId                               \* cached page
        /\ \/ CopyDone(acc)
           \/ acc.irq /\ LoopExit
        /\ UNCHANGED <<acc, pins, kmaps>>
     \/ /\ q # acc.pageId
        /\ \/ /\ acc' = PinOk(q)                        \* pinned and mapped
              /\ pins' = UnpinPins(acc) + 1
              /\ kmaps' = UnpinKmaps(acc) + 1
              /\ \/ CopyDone(PinOk(q))
                 \/ acc.irq /\ LoopExit
           \/ /\ PinFail(Unpinned(acc), UnpinPins(acc))   \* get_user_pages fails
              /\ kmaps' = UnpinKmaps(acc)
              /\ LoopExit
           \/ /\ PinFail(PinNoMap(q), UnpinPins(acc) + 1) \* kmap gives NULL
              /\ kmaps' = UnpinKmaps(acc)
              /\ LoopExit
  /\ UNCHANGED <<tgt, envVars, mmUsers, readers, faults>>

(***************************************************************************)
(* The environment: a task that is not the target of an IRQ-mode access  *)
(* exits (exit_mm clears task->mm and drops its mm_users); another thread *)
(* of a task takes or releases its mmap_sem for writing, which waits for  *)
(* the readers to leave.                                                   *)
(***************************************************************************)
TaskExit(t) ==
  /\ taskMm[t]
  /\ ~(acc.irq /\ acc.task = t)
  /\ taskMm' = [taskMm EXCEPT ![t] = FALSE]
  /\ mmUsers' = [mmUsers EXCEPT ![t] = @ - 1]
  /\ UNCHANGED <<acc, pc, tgt, cursor, copied, writer, readers, pins, kmaps, faults>>

WriterToggle(t) ==
  /\ taskMm[t]
  /\ writer[t] \/ readers[t] = 0
  /\ writer' = [writer EXCEPT ![t] = ~@]
  /\ UNCHANGED <<acc, pc, tgt, cursor, copied, taskMm, mmUsers, readers, pins, kmaps, faults>>

Next ==
  \/ AccessorInit \/ AccessorFini \/ Unlock \/ TrylockGet
  \/ ReadBegin \/ ReadPage
  \/ \E t \in Tasks : TrylockIrq(t) \/ TrylockCheck(t) \/ TaskExit(t) \/ WriterToggle(t)

Spec == Init /\ [][Next]_vars

(***************************************************************************)
(* The caller thread runs the body of vtss_user_vm_trylock and of the     *)
(* read loop in the kernel without waiting on anything (the lock is a     *)
(* trylock, get_user_pages and the copies return): once it is inside one, *)
(* it keeps taking its steps. Whether the caller calls at all, and what   *)
(* the other tasks do, is not constrained.                                 *)
(***************************************************************************)
Fairness == WF_vars(TrylockGet) /\ WF_vars(ReadPage)

FairSpec == Spec /\ Fairness

(***************************************************************************)
(* The accessor seen through UserVMAbs: it is locked on acc.mm while the  *)
(* caller holds it, has returned the mms in `copied', and a task is alive *)
(* while it has an mm.                                                     *)
(***************************************************************************)
absOwner == IF pc \in {"locked", "reading"} THEN acc.mm ELSE NoTask

Abs == INSTANCE UserVMAbs WITH owner <- absOwner, out <- copied, alive <- taskMm

-----------------------------------------------------------------------------
(* Every variable has its type.                                            *)
TypeOK ==
  /\ acc \in AccType
  /\ pc \in PcStates
  /\ tgt \in Tasks \cup {NoTask}
  /\ cursor \in [next: Nat, left: Nat]
  /\ copied \subseteq Tasks
  /\ taskMm \in [Tasks -> BOOLEAN]
  /\ writer \in [Tasks -> BOOLEAN]
  /\ mmUsers \in [Tasks -> Nat]
  /\ readers \in [Tasks -> Nat]
  /\ pins \in Nat /\ kmaps \in Nat
  /\ faults \subseteq Faults

(***************************************************************************)
(* Reference balance of trylock / page_pin / page_unpin / unlock: the    *)
(* accessor holds one page reference exactly while m_page is set, one    *)
(* kmap exactly while m_maddr is set, one read hold of mmap_sem and one  *)
(* mm_users reference exactly while m_mm is set in process context, and   *)
(* nothing once the accessor is freed. No reference is leaked or dropped *)
(* twice along any path, failures and concurrent exits included.         *)
(***************************************************************************)
RefsBalanced ==
  /\ pins = IF acc.page # NoPage THEN 1 ELSE 0
  /\ kmaps = IF acc.maddr THEN 1 ELSE 0
  /\ \A t \in Tasks :
       /\ readers[t] = IF HeldMm(acc) /\ acc.mm = t THEN 1 ELSE 0
       /\ mmUsers[t] = (IF taskMm[t] THEN 1 ELSE 0) + readers[t]
  /\ pc = "none" => pins = 0 /\ kmaps = 0 /\ \A t \in Tasks : readers[t] = 0

(***************************************************************************)
(* The page cache kept across loop passes and calls names a page only    *)
(* while that page is pinned and kmapped: a pass whose page id equals    *)
(* m_page_id copies through m_maddr without testing it, so a failed pin  *)
(* (kmap giving NULL after m_page_id was set) must not leave its id.     *)
(***************************************************************************)
CachedPageMapped == acc.pageId # NoPageId => acc.maddr /\ acc.page # NoPage

(***************************************************************************)
(* vtss_user_vm_trylock never dereferences a NULL mm returned by          *)
(* get_task_mm.                                                            *)
(***************************************************************************)
NoNullMmDeref == "NullMmDeref" \notin faults

(***************************************************************************)
(* The accessor implements UserVMAbs: trylock locks only the mm of a task *)
(* that has one, the lock changes only by trylock and unlock/fini, and    *)
(* every page the read loop copies, cached or freshly pinned, belongs to  *)
(* the locked mm, across task exits and writers on mmap_sem.              *)
(***************************************************************************)
AccessorRefinesAbs == Abs!AbsSpec

(***************************************************************************)
(* vtss_user_vm_trylock and vtss_user_vm_read return: once the caller is  *)
(* between trylock's two steps or inside the read loop, it gets back to   *)
(* the caller unlocked or locked, whatever the pages and the other tasks  *)
(* do.                                                                     *)
(***************************************************************************)
CallsReturn == (pc \in {"checked", "reading"}) ~> (pc \in {"idle", "locked"})
=============================================================================
