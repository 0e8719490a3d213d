# Verification of the SOCWatch matrix driver (pw_matrix.c)

This directory holds TLA+ models of the table-driven scan/acquisition engine in
`src/socwatchdk/src/src/pw_matrix.c`, the TLC configurations that check them, and
TLAPS proofs. Line numbers below refer to that file unless another is named.

## 1. The system

The matrix driver is a character device. A caller opens it, hands it a *lookup
table* (struct `lookup_table`) that describes which MSRs, memory-mapped
registers, PCI registers, config-db registers, VISA and SCU entries to read in
three phases (init, poll, term), and drives a session through ioctls:

| ioctl | handler | effect |
|---|---|---|
| `IOCTL_INIT_MEMORY` | `mt_initialize_memory` (608-670) | copy the table from user space, size (`mt_calculate_memory_requirements`), allocate, bookmark (`mt_bookmark_lookup_table`, `MATRIX_BOOK_MARK_LUT`, `MATRIX_IO_REMAP_MEMORY`), set `mem_alloc_status` |
| `IOCTL_INIT_SCAN` / `IOCTL_TERM_SCAN` | `mt_data_scan` (676-690) | run the phase's MSR, mmap, pci, cfg-db entries into the exchange buffer |
| `IOCTL_POLL_SCAN` | `mt_poll_scan` (697-861) | one sample, index `poll_loop` supplied by the caller |
| `IOCTL_COPY_TO_USER` | `mt_transfer_data` (867-942) | copy every result region to the caller |
| `IOCTL_FREE_MEMORY` | `mt_free_memory` (573-602) | iounmap every mapping, vfree every buffer |
| open / release | `matrix_open` (416-430), `matrix_release` (1432-1440) | a single-instance guard `instantiated`; release frees the session |

Every failure path of a scan, of init and of transfer calls `mt_free_memory`.
All session state lives in file-static globals (96-113): `instantiated`,
`mem_alloc_status`, `ptr_lut`, `ptr_xc_buff_all`, `ptr_lut_ops`,
`ptr_xhg_buf_ops`. `unlocked_ioctl` (1445) takes no lock.

Other sources of the repository: `IOCTL_MSR`, `IOCTL_SRAM`, `IOCTL_GMCH`, the
config-db and version ioctls of the same file (direct hardware access, no
session); `src/vtunedk/src/vtsspp/user_vm.c` (a user-memory accessor for the
VTSS sampler that pins pages and takes `mmap_sem`); `src/sepdk/src/utility.c`
(per-architecture dispatch-table selection); and headers of data structures
and register constants.

## 2. Modules

### MatrixSession.tla — the session engine
*State* (VARIABLES):
- `pc[p]`: where process p is in `matrix_open` (`closed`, `opening` between
  the test at 420 and the set at 425, `open`);
- `instantiated`, `memAllocStatus`: the two globals;
- `alloc`: which of the six buffers are vmalloc'ed (`xcBuffAll`, `lut`,
  `pollTimeStamp`, `pollTsc`, `lutOps`, `xhgBufOps`);
- `lut`: the table held (a record from `Descs`, or `NoDesc` for `ptr_lut == NULL`);
- `mmapPtr[ph]`: where `ptr_lut->mmap_<ph>` points: `User` (the copied user
  pointer, not yet rebound), `Kernel` (bookmarked into `ptr_lut_ops`), `Null`;
- `maps`: the live ioremaps, `(phase, entry, ctrl|data)`;
- `defined`: which result pieces have been written (`<<init,0>>`,
  `<<term,0>>`, `<<poll,i>>`);
- `faults`: a ghost record of memory-safety faults the code commits;
- `ret`: the last handler's return value.

A table is abstracted to what the control flow depends on: the length and
write-back size per (type, phase) region, `records`, the ctrl/data addresses
(which entries have a nonzero address), `sized` (which entries have a nonzero
`data_size`, the ones the scans `memcpy`), `forged` (which remap fields the
caller left non-NULL behind a zero address: `MATRIX_IO_REMAP_MEMORY` at
175-195 overwrites a remap field only when its address is nonzero) and
`scu`. The MC tables leave every remap field NULL. Byte sizes and offsets are
abstracted to "which buffer is nonzero", and the bookmarking walk to the
canonical region order `Pos` (msr, mem, pci, cfg, visa; init, poll, term):
a `copy_from_user` failure at region k leaves every memory-map pointer from k
on pointing to user space (`BoundPtrs`).

*Actions* (one per handler; each includes its trailing `mt_free_memory`):
`OpenCheck`, `OpenSet`, `Release`, `FreeMemory`, `InitMemory` (EPERM when
already allocated; an allocation failure of each of `ptr_xc_buff_all`,
`ptr_lut`, `poll_time_stamp`, `poll_tsc`, `ptr_lut_ops`, `ptr_xhg_buf_ops`;
a lookup-table copy failure; a bookmark copy failure at any region;
success),
`InitOops(p)` (the read of `ptr_lut->pci_ops_poll->port` at 656-659 when the
table has no poll pci entry: the kernel oopses, the process dies holding
whatever initialisation had built, and its exit runs `matrix_release`, which
frees the session if `instantiated` is set), `DataScan(ph)` for init and term, `PollScan`
(caller-chosen `poll_loop` in `0..records`), `Transfer`.

*Faults* besides those the violation runs check: `UninitFree`, the
`vfree` in `mt_free_memory` (580-583) of `poll_time_stamp`/`poll_tsc` when
they were never assigned (vmalloc does not zero `ptr_xc_buff_all`, and
`MATRIX_VMALLOC` skips a zero size, so this happens after a failure at
621, 623 or 633, and on every free of a table with `records = 0`); and
`ForgedRemap`, a caller-supplied remap address passed to `iounmap` (202-213)
or written by the poll's `writel` (771-773). No run checks their absence.

### MC_MatrixSession.tla — instances for TLC
Three tables: `TablePoll` (MSR init/poll, mem poll with ctrl and data, pci
poll, 2 records), `TableInitTerm` (mem init/term with data, pci poll, scu),
`TableNoPci` (MSR only, no poll pci entry). `OneProc`/`TwoProcs`. The
session run uses one process and all three tables; the two-process
instances are those of the open race.

### MatrixSessionProofs.tla — TLAPS proofs (see section 5).

### MatrixScanProofs.tla — the isolation proof for mt_poll_scan (section 5).

### MatrixDirect.tla — the direct hardware ioctls (pw_matrix.c 434-458, 949-1374)
These handlers need no session. `IOCTL_mtx_msr` and `IOCTL_sram` hold a buffer
or a mapping across calls that can fail, so they run as steps between the
labels of their control flow (`pc`: `msr_alloc`, `msr_op`, `msr_free`,
`sram_alloc`, `sram_copy`, `sram_error`). `IOCTL_gmch`, the config-db ioctls,
`IOCTL_READ_PCI_CONFIG`, `IOCTL_OPERATE_ON_MSR` and `IOCTL_VERSION_INFO` hold
nothing and are one action each. *State*: the buffer and the data mapping
(`buf`, `dataMap`); `devRefs`, the `pci_dev` references taken by
`pci_get_bus_and_slot` and never put; `msrPtr`, what the MSR written by
`ENABLE_OP` points to (`none`, `buffer`, `freed`, `zero`); the return value.
Inputs (a NULL pointer, length 0 or 1, the operation) and every call that can
fail are chosen by `\E`. `PlatformPci(n)` is the n accesses of
`mt_platform_pci_read32/write32` that a handler makes (`Gmch` makes 9, plus
12 writes and the MCR writes on reset). The constants are `DoAndroid` (the
build switch of matrix.h), `HostBridge` (whether bus 0 device 0 exists) and
`MaxDevRefs`, the bound on `devRefs` that is the guard `PciBound` of every
PCI handler.

### UserVM.tla — the VTSS user-memory accessor (src/vtunedk/src/vtsspp/user_vm.c)
*State*: `acc` is the accessor struct as a record (`m_task`, `m_mm`,
`m_page`, `m_maddr`, `m_page_id`, `m_irq`). `pc` is where its one user is:
`none` (no accessor), `idle`, `checked` (trylock has tested `task->mm` and
not yet called `get_task_mm`), `locked`, `reading`. `tgt` and `cursor` hold
the trylock target and the read loop position, and `copied` the mms whose
bytes the current read returned. The environment is `taskMm[t]` (whether
task t still has an mm) and `writer[t]` (a writer holds its `mmap_sem`).
Ghost counters track the references the code takes: `pins`
(`get_user_pages`/`put_page`), `kmaps`, `readers[t]` (`down_read_trylock`)
and `mmUsers[t]` (`get_task_mm`/`mmput`, plus the task's own reference).
`faults` records a NULL mm dereference.

*Actions*:
- `AccessorInit`, and `AccessorFini`, which includes the unlock.
- `TrylockIrq(t)`: in IRQ mode, one atomic step that takes no reference.
- `TrylockCheck(t)` then `TrylockGet`: in process context, split at the race
  between the `task->mm` test and `get_task_mm`.
- `Unlock`.
- `ReadBegin`, then `ReadPage`, one loop pass per step. A pass may fail
  `access_ok`, hit the cached page, or pin and map a new page. A failed pin
  (rc 1, nothing pinned; rc 2, page pinned and `m_page_id` set but `kmap`
  NULL) runs `vtss_user_vm_page_unpin` again (`PinFail`) and leaves the
  loop. In IRQ mode a copy may fail.
- Environment: `TaskExit(t)` (`exit_mm`), and `WriterToggle(t)`, another
  thread taking or releasing `mmap_sem` for writing.

*Assumptions* taken from the callers:
- in IRQ mode the target is the current task, so it cannot exit during the
  access (the guard of `TaskExit`);
- one accessor is used by one thread;
- trylock is called only on an unlocked accessor: on a locked one its
  first assignments (271-272) drop `m_mm` without `up_read` or `mmput`, and
  the callers of `acc->trylock` are outside this file;
- the build is the one without `VTSS_VMA_CACHE`, on kernel 2.6.38 or later.

*Fairness* (`FairSpec`): weak fairness of `TrylockGet` and `ReadPage`
only. Both are steps inside one kernel call (between the `task->mm` test
and `get_task_mm`, and one pass of the `while (size)` loop of
`vtss_user_vm_read`): the calling thread cannot stop taking them once the
call has begun. The user-space callers (init, trylock, read, unlock, fini)
and the environment (task exit, writers) get no fairness.

*Refinement mapping*: `absOwner` is `acc.mm` while the accessor is locked
or reading and `NoTask` otherwise; `copied` maps to the abstract `out` and
`taskMm` to `alive`.

### UserVMAbs.tla — what the accessor promises
An abstract accessor without pages, kmaps or references: `Lock(t)` only on
a task that still has an mm and only when not locked, `StartRead`,
`ReadBytes` (adds the owner to `out`), `Release`, `Exit(t)`. UserVM
implements it (`AccessorRefinesAbs`).

### MatrixScan.tla — one poll, entry by entry (mt_poll_scan 697-861)
*State*: the installed table `tbl`; `live` (`ptr_lut`/`ptr_xc_buff_all` not
yet freed); `pc` (`idle`, `msr`, `mem`, `pci`, `cfg`); the loop variables
`iter` (`poll_loop`), `lutLoop`, `msrLoop`, `memLoop`; `writes`, each sample
written as a byte range `[lo, hi)` of the poll block of `ptr_xhg_buf_ops`
with the iteration that wrote it. The sub-region sizes and bases are those of
`mt_calculate_memory_requirements` (480-484: `unsigned, int` elements for
mem, pci_ops and cfg_db) and `mt_bookmark_xchange_buffer` (555-560); the
writes use the element sizes of the code (`unsigned long`, `LongBytes`).
*Actions*: `PollStart(i)` (a valid index `0..records-1`), `PollNoSession`
(after a free), `MsrStep` (READ writes `ptr_msr_buff[i * msr_poll_wb +
msr_loop]`, WRITE does not, any other operation is the ERROR path), `MsrDone`,
`MemStep` (the loop runs to `mem_length = mem_poll_wb`, so past
`mem_poll_length` it reads the `data_size` of whatever follows, from
`OverReadSizes`; the memcpy happens before the `mem_loop` check), `MemDone`,
`PciStep` (two words at `2i`, `2i+1`), `CfgStep`, `CfgDone`. SCU and VISA
entries are not modelled: the tables have none.

## 3. Properties and runs

| run | cfg | expect | checks |
|---|---|---|---|
| session | MC_MatrixSession.cfg | pass | `SessionConsistent`, `NoLeakAfterClose`, `FailureReleasesAll` |
| open_race | MC_OpenRace.cfg | violation | `NoLeakAfterClose` |
| user_deref | MC_UserDeref.cfg | violation | `NoUserDeref` |
| pci_poll_null | MC_PciPollNull.cfg | violation | `NoPciPollNull` |
| poll_index | MC_PollIndex.cfg | violation | `PollIndexInBounds` |
| unmapped_read | MC_UnmappedRead.cfg | violation | `NoUnmappedRead` |
| stale_copy | MC_StaleCopy.cfg | violation | `NoStaleCopy` |
| user_vm | MC_UserVM.cfg | pass | `RefsBalanced`, `CachedPageMapped`, `AccessorRefinesAbs`, `CallsReturn` (under `FairSpec`) |
| user_vm_null_mm | MC_UserVMNullMm.cfg | violation | `NoNullMmDeref` |
| pci_dev_ref | MC_PciDevRef.cfg | violation | `NoPciDevRefLeak` |
| msr_enable | MC_MsrEnable.cfg | violation | `NoHwDanglingPointer` |
| poll_isolation | MC_PollIsolation.cfg | violation | `SamplingIsolation` |

- `SessionConsistent`: `mem_alloc_status` holds exactly when the held table's
  buffers are all allocated, its memory-map pointers are rebound and only
  mappings it attempted are live; otherwise nothing is held. It relates the
  allocation, the bookmarking and the free paths of four handlers.
- `NoLeakAfterClose`: when no process has the device open, nothing is
  allocated or mapped.
- `FailureReleasesAll` (action property): a handler that fails with EFAULT
  inside a live session leaves nothing allocated or mapped, so a later
  transfer can never return data of a dead session.
- The six violation runs each check what the spec or a comment says and show
  that the code breaks it; see `findings` in PROJECT.json:
  - the open guard races (comment at 116 says one instance only): two openers,
    first close frees and clears the guard, the second session leaks;
  - a bookmark copy failure makes `mt_free_memory` iounmap through a user
    pointer (588);
  - `ptr_lut->pci_ops_poll->port` at 658 is NULL when the table has no poll
    pci entry;
  - `poll_loop` at 725 is not checked against `records`;
  - `ioremap_nocache` results (182, 188) are not checked before scans read them;
  - transfer copies result memory that was never written (vmalloc is not
    zeroed; only the poll sub-regions are memset).

- `RefsBalanced` (UserVM) relates each ghost counter to the accessor's
  fields:
  - one page pin and one kmap while a page is cached;
  - one `mmap_sem` read hold and one extra `mm_users` per locked
    process-context mm;
  - nothing held once the accessor is gone.

  It fails if an unpin forgets `put_page`, if unlock skips `up_read` or
  `mmput`, or if a task exit drops a reference the accessor owns.
- `CachedPageMapped` (UserVM): `m_page_id` names a page only while that page
  is pinned and kmapped. A pass whose page id equals `m_page_id` copies
  through `m_maddr` without testing it; after `page_pin` returns 2 (kmap gave
  NULL once `m_page_id` was set) only the second unpin at 336 keeps that
  pass from copying through NULL. That a read returns only bytes of the
  locked mm is part of `AccessorRefinesAbs`.
- `AccessorRefinesAbs` (UserVM): every behaviour of the accessor, under
  the mapping above, is a behaviour of UserVMAbs. In particular a lock is
  taken only on the mm of a task that still had one when it was taken.
- `CallsReturn` (UserVM, liveness): a trylock that has tested `task->mm`,
  and a read that has begun, end in a state where the caller has control
  again (idle or locked). It needs the trylock to be `down_read_trylock`:
  a blocking `down_read` would wait for a writer that never releases.
- The violation runs of UserVM, MatrixDirect and MatrixScan:
  - `user_vm_null_mm`: the trace is `AccessorInit`, `TrylockCheck`, a
    `TaskExit` of the target, then `TrylockGet`. `get_task_mm` returns NULL,
    and the code dereferences it (user_vm.c 277).
  - `pci_dev_ref`: after one `IOCTL_READ_PCI_CONFIG` or GMCH call, the caller
    is idle with pci_dev references outstanding. No path calls
    `pci_dev_put` (437, 1149).
  - `msr_enable`: `ENABLE_OP` programs an MSR with the address of a buffer
    and then vfrees it (994). With length 0 it programs the address of a NULL
    buffer.
  - `poll_isolation`: with `LongBytes = 8` (a 64-bit build) and a table whose
    counts agree with its write-back sizes (one mmap entry of two words,
    `mem_poll_wb = 2`, two records), iteration 0 writes the whole 16-byte mem
    poll region and its pci words at bytes 16-32; iteration 1's mem sample
    goes to bytes 16-32 too. The regions are sized with `sizeof(unsigned
    int)` (481-483) and written with `unsigned long` elements. With
    `LongBytes = 4` the property still fails, by the second defect: the mem
    loop runs to `mem_poll_wb` and reads a `data_size` past `mmap_poll`
    (766), and the `mem_loop` check comes after the memcpy (784).

*Bounds.* `MaxEntries = 1` suffices because every guard depends on whether a
region is empty, and the tables cover both (empty, nonempty) for every region
the properties tell apart; `records = 2` makes the off-by-one poll index
reachable together with a legal one. Two processes is the least that exposes
the open race; the unbounded loops of a session (repeated polls) stay in a
finite state space because the state records sets, not counts.

For UserVM, two tasks and two pages with spans up to 2 (2232 states) cover
these cases:
- a page hit, a miss and a re-pin within one read;
- an accessor re-locked on the other task while its cache still names a page
  of the first;
- each task exiting at every point of the trylock.

For MatrixScan, two records and four tables are enough: every sub-region
boundary lies between the two iterations' samples, and the tables reach the
READ/WRITE/other msr branches, an mmap entry of more than one word, and a
single pci write-back slot.

*Fairness.* MatrixSession and MatrixDirect assume none: every step is a
call from user space, which the driver cannot force. UserVM assumes weak
fairness of the two in-kernel steps only (see its section).

## 4. Mutants
Each property of a passing run is broken by a plausible bug in a mapped
definition: `FreeAllKeepPoll` (free forgets the poll mappings) breaks
`SessionConsistent`; `ReleaseNoFree` (release without `mt_free_memory`) breaks
`NoLeakAfterClose`; `ScanFailNoFree` (the `ERROR:` label returns without
freeing) breaks `FailureReleasesAll`;
`UnpinPinsKeep` (unpin without `put_page`) breaks `RefsBalanced`;
`PinFailKeep` (the read loop breaks on a failed pin without the second
unpin) breaks `CachedPageMapped`; `TrylockIrqNoMmCheck` (the IRQ trylock without its
`task->mm` test) breaks `AccessorRefinesAbs`; `TrylockGetBlocking`
(`down_read` in place of `down_read_trylock`) breaks `CallsReturn`.

## 5. Proofs
`MatrixSessionProofs.tla` proves, for every set of processes and tables
satisfying `DescsAssumption`:
- `TypeCorrect`: `Spec => []TypeOK`, the lemma the other proofs rest on.
  TypeOK is inductive on its own; the proof has one step per action,
  resting on the lemmas `FreeAllType`, `BoundPtrsType`, `AttemptedType`
  about the helpers.
- `SessionConsistentThm`: under `PciPollPresent` (every table has a poll pci
  entry, i.e. the oops branch of `mt_initialize_memory` is unreachable),
  `Spec => []SessionConsistent`. The inductive invariant is
  `TypeOK /\ SessionConsistent`; TypeOK is needed because the free and
  bookmark helpers are only meaningful on typed states. With the hypothesis
  the `InitOops` step is never enabled; the session run checks the property
  without it, on the tables that reach the oops.
- `FailureReleasesAllThm`: `Spec => FailureReleasesAll`, for every table and
  any number of processes. It is an action property, `[][FailureStep]_vars`:
  a step that returns `-EFAULT` during a live session has freed every buffer
  and mapping and cleared `mem_alloc_status`. The invariant it rests on is
  `EfaultFreed` (a returned `-EFAULT` is never left with a session allocated).
  TLC checked `EfaultFreed` on the two-process instance first. The lemmas
  `FreeAllStep`, `EfaultStep` and `OtherReturnStep` split the step by what it
  returns.
- `NoLeakAfterCloseThm` and `SessionConsistentOneOpenerThm` assume one
  process, `Procs = {q}`, and nothing about the tables. With two openers the
  property fails; that is the `open_race` finding, so one opener is the
  strongest hypothesis under which it holds. The inductive invariant is
  `TypeOK /\ SessionConsistent /\ OpenerShape(q)`. `OpenerShape(q)` says the
  open guard `instantiated` is set exactly while `q` has the device open, and
  that nothing is allocated or mapped while it is closed. It is what lets
  release free a session that the oops of `mt_initialize_memory` left
  half-built. That is why the single-opener theorem needs no
  `PciPollPresent`. TLC checked `OpenerShape` on the one-process instance
  first. The shared parts are the lemmas `SessionStep`, `OpenHandler` and
  `OpenerStep`.

`MatrixScanProofs.tla` proves `SamplingIsolationThm`: `Spec =>
[]SamplingIsolation` under `Build32`. That hypothesis says:
- `sizeof(unsigned long) = 4`;
- every table is `WellFormed`:
  - its msr operations fit `msr_poll_wb`;
  - `mmap_poll` has at least `mem_poll_wb` entries of at most one word;
  - `pci_ops_poll_wb >= 2`.

It holds for any number of records and any `MsrBytes`. Each hypothesis is
necessary, and the `poll_isolation` run shows what happens without them:
- a 64-bit build writes 8-byte words into 4-byte slots;
- a table with too few mmap entries over-reads.

The inductive invariant is `ScanTypeOK /\ LoopShape /\ Slots`:
- `LoopShape` bounds the loop counters by the table;
- `Slots` puts every write inside slot `iter` of one of the four sub-regions.
  Slot `iter` starts at `Start[k] + Stride[k] * iter`, where `Stride[k]` is the
  bytes one iteration writes of that region.

The argument rests on these lemmas:
- `ElemInSlot`: an element at index `i*c + m` with `m + n <= c` lies in slot `i`;
- `RegionChain`: on a 32-bit build each region's `records` strides end before
  the next region starts;
- `ChainOrder` and `SlotsApart`: slots of different iterations are disjoint.

`ScanStep` has one case per action. TLC checked `Slots` and the theorem on
tables around these bounds before the proof. Setting `pci_ops_poll_wb = 1`
violated it, as expected.

`UserVMProofs.tla` proves, for every set of tasks, `NPages` and `MaxSpan`
satisfying `UserVMAssumption`:
- `RefsBalancedThm`: `Spec => []RefsBalanced`;
- `CachedPageMappedThm`: `Spec => []CachedPageMapped`, from `CacheShape`.

- `AccessorRefinesAbsThm`: `Spec => AccessorRefinesAbs`. The initial state
  maps to `AbsInit`; `NextRefines` shows that under `IInv` every step maps
  to an abstract step or a stutter, one case per action. Trylock maps to
  `Lock` (its `task->mm` test gives `alive`), a read pass to `ReadBytes` or a
  stutter, every unlock path to `Release` (lemma `UnlockRefines`).

All three rest on the inductive invariant `IInv == TypeOK /\ RefsBalanced /\
CacheShape /\ PcShape`, which TLC also checked on the instance.
- `CacheShape`: `m_maddr` is set exactly when `m_page` is, and `m_page_id`
  is the cached page's index or -1. A hit on `m_page_id` must imply that a
  page is pinned; without this, the read loop could count a pin it never
  took.
- `PcShape`: outside a locked section nothing is cached, held or copied.
  Between trylock's two steps nothing is held. Inside a locked section the
  cache belongs to the locked mm, and during a read the cursor stays on
  pages. This is what lets a copy from the cache be attributed to `acc.mm`.

The proof of `NextIInv` has one step per action. Two lemmas carry the shared
parts: `UnlockStep` (every path through `vtss_user_vm_unlock`) and
`ReadStep` (every pass of the read loop).

Only model-checked:
- `CallsReturn`, the liveness property of the accessor under weak fairness.
  TLAPS here cannot reach liveness or ENABLED.
- `NoLeakAfterClose` for more than one opener, which is false (`open_race`).
- Every violation run. Each shows a counterexample, which is TLC's result to
  give, not a theorem's.

## 6. Not modelled, and the plan
- **MatrixLayout** (next): byte sizes and offsets of
  `mt_calculate_memory_requirements` and the bookmarking walk with 64-bit
  wrap-around of `sizeof * wb * records` (166); the SCU area set at 526
  without advancing the offset, overlapping the VISA regions.
- **MatrixScan**: the init/term scans (`MATRIX_SCAN_DATA`, the unchecked
  `msr_loop` at 276 and cfg-db index at 396), SCU and VISA entries, and a
  refinement onto MatrixSession's `PollScan`.
- **MatrixConcurrent**: ioctl handlers split at their steps, with no lock
  (1445), e.g. FREE_MEMORY during POLL_SCAN.
- **MatrixDirect**: a property of `IOCTL_SRAM` mapping lifetimes (iounmap on
  every path after 1067), and a proof that the handlers other than MSR never
  change `msrPtr`.
- **UserVM**: `vtss_user_vm_validate`, and the `VTSS_VMA_CACHE` build.
- **Abstract session spec** (open, init, scan, transfer, free) refined by
  MatrixSession via a refinement mapping.
- Not to be modelled: device registration (module load glue), `utility.c`
  dispatch-table selection (platform detection, out of the spec's scope), the
  headers (declarations only).
