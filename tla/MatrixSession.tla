--------------------------- MODULE MatrixSession ---------------------------
(***************************************************************************)
(* The session engine of the SOCWatch "matrix" driver                      *)
(* (src/socwatchdk/src/src/pw_matrix.c): the open/release guard of the     *)
(* character device, IOCTL_INIT_MEMORY (mt_initialize_memory, with its     *)
(* sizing and bookmarking), IOCTL_INIT_SCAN / IOCTL_TERM_SCAN              *)
(* (mt_data_scan), IOCTL_POLL_SCAN (mt_poll_scan), IOCTL_COPY_TO_USER      *)
(* (mt_transfer_data) and IOCTL_FREE_MEMORY (mt_free_memory).              *)
(*                                                                         *)
(* Every ioctl handler is one atomic step: the driver has no lock, but     *)
(* the handlers modelled here only race through the open guard, whose two  *)
(* halves (test, then set, of `instantiated`) are separate steps.  Buffer  *)
(* contents are abstracted to which buffers are allocated, where the       *)
(* memory-map pointers of the copied lookup table point, which I/O         *)
(* mappings are live and which result pieces hold values this session      *)
(* wrote.  `faults` records the memory-safety faults the code commits; it  *)
(* is never read by an action.                                             *)
(***************************************************************************)
EXTENDS Naturals, FiniteSets

CONSTANTS
  Procs,       \* the processes (open files) that call into the driver
  Descs,       \* the lookup tables a caller may pass to IOCTL_INIT_MEMORY
  MaxEntries,  \* bound on the memory-map entries of one phase
  NoDesc       \* no lookup table is held (ptr_lut == NULL)

Phases  == {"init", "poll", "term"}
Types   == {"msr", "mem", "pci", "cfg", "visa"}
Regions == Types \X Phases
Entries == 1..MaxEntries

(* A lookup table, as far as the engine's control depends on it:          *)
(*  len[r]    the element count <type>_<phase>_length of region r,        *)
(*  wb[r]     the result count <type>_<phase>_wb of region r,             *)
(*  records   the number of poll iterations,                              *)
(*  ctrl[ph]  the memory-map entries with a nonzero ctrl_addr,            *)
(*  data[ph]  the entries with a nonzero data_addr,                       *)
(*  sized[ph] the entries with a nonzero data_size (the scans copy them), *)
(*  forged[ph] the (entry, ctrl|data) remap fields the caller left        *)
(*            non-NULL behind a zero address: MATRIX_IO_REMAP_MEMORY only *)
(*            overwrites a remap field whose address is nonzero,          *)
(*  scu       scu_poll.length, the SCU registers read per poll.           *)
DescType ==
  [len : [Regions -> Nat], wb : [Regions -> Nat], records : Nat,
   ctrl : [Phases -> SUBSET Entries], data : [Phases -> SUBSET Entries],
   sized : [Phases -> SUBSET Entries],
   forged : [Phases -> SUBSET (Entries \X {"ctrl", "data"})],
   scu : Nat]

MemLen(d, ph) == d.len[<<"mem", ph>>]

ASSUME DescsAssumption ==
  /\ Descs \subseteq DescType
  /\ NoDesc \notin Descs
  /\ MaxEntries \in Nat
  /\ \A d \in Descs, ph \in Phases :
        /\ d.ctrl[ph] \cup d.data[ph] \cup d.sized[ph] \subseteq 1..MemLen(d, ph)
        /\ \A e \in d.forged[ph] :
             /\ e[1] \in 1..MemLen(d, ph)
             /\ e[1] \notin (IF e[2] = "ctrl" THEN d.ctrl[ph] ELSE d.data[ph])

(* The vmalloc'ed buffers: ptr_xc_buff_all, ptr_lut, the two per-poll     *)
(* time-stamp arrays, the flat lookup-table and exchange buffers.         *)
Buffers == {"xcBuffAll", "lut", "pollTimeStamp", "pollTsc", "lutOps", "xhgBufOps"}

(* An I/O mapping made by MATRIX_IO_REMAP_MEMORY: phase, entry, address.  *)
MapIds == Phases \X Entries \X {"ctrl", "data"}

(* Result pieces: the init and term results with their time stamps, and   *)
(* the time stamp pair of every poll iteration.                           *)
RecordBound == {d.records : d \in Descs}
Pieces == {<<"init", 0>>, <<"term", 0>>} \cup
          {<<"poll", i>> : i \in UNION {0..(r - 1) : r \in RecordBound}}

Faults == {"UserDeref", "PciPollNull", "PollOutOfBounds", "UnmappedRead",
           "StaleCopy", "UninitFree", "ForgedRemap"}

PtrStates == {"User", "Kernel", "Null"}
Returns == {"none", "OK", "EBUSY", "EPERM", "EFAULT", "Oops"}

VARIABLES
  pc,              \* per process: "closed", "opening" (tested), "open"
  instantiated,    \* the open guard
  memAllocStatus,  \* mem_alloc_status: a session is initialised
  alloc,           \* the buffers currently allocated
  lut,             \* the lookup table held in *ptr_lut, or NoDesc
  mmapPtr,         \* per phase: ptr_lut->mmap_<phase> points to user
                   \* memory, into ptr_lut_ops, or is NULL
  maps,            \* the live ioremap mappings
  defined,         \* result pieces written by the current session
  faults,          \* memory-safety faults committed so far
  ret              \* the return value of the last call

vars == <<pc, instantiated, memAllocStatus, alloc, lut, mmapPtr, maps,
          defined, faults, ret>>

NullPtrs == [ph \in Phases |-> "Null"]
UserPtrs == [ph \in Phases |-> "User"]

-----------------------------------------------------------------------------
(* Sizing (mt_calculate_memory_requirements): a flat buffer is allocated  *)
(* only when its total size is nonzero (MATRIX_VMALLOC skips size 0).     *)
LutNonzero(d) == \E r \in Regions : d.len[r] > 0
XhgNonzero(d) == \E r \in Regions : d.wb[r] > 0 /\ (r[2] = "poll" => d.records > 0)

(* The buffers a successful IOCTL_INIT_MEMORY leaves allocated.           *)
Required(d) ==
  {"xcBuffAll", "lut"}
  \cup (IF d.records > 0 THEN {"pollTimeStamp", "pollTsc"} ELSE {})
  \cup (IF LutNonzero(d) THEN {"lutOps"} ELSE {})
  \cup (IF XhgNonzero(d) THEN {"xhgBufOps"} ELSE {})

(* Position of a region in the bookmarking order of                       *)
(* mt_bookmark_lookup_table: msr, mem, pci_ops, cfg_db, visa, each for    *)
(* init, poll, term.                                                      *)
TypeRank  == [t \in Types |-> CASE t = "msr" -> 0 [] t = "mem" -> 1
                                [] t = "pci" -> 2 [] t = "cfg" -> 3
                                [] t = "visa" -> 4]
PhaseRank == [ph \in Phases |-> CASE ph = "init" -> 0 [] ph = "poll" -> 1
                                  [] ph = "term" -> 2]
Pos(r) == 3 * TypeRank[r[1]] + PhaseRank[r[2]] + 1

(* The mmap pointers after bookmarking stopped before position k: a      *)
(* region reached with size zero is set to NULL, one reached with a       *)
(* nonzero size is rebound into ptr_lut_ops, one not reached still holds  *)
(* the caller's user-space pointer.                                       *)
BoundPtrs(d, k) ==
  [ph \in Phases |-> IF Pos(<<"mem", ph>>) >= k THEN "User"
                     ELSE IF MemLen(d, ph) = 0 THEN "Null" ELSE "Kernel"]

(* The mappings MATRIX_IO_REMAP_MEMORY attempts for a rebound phase.      *)
Attempted(d, ptrs) ==
  {m \in MapIds : /\ ptrs[m[1]] = "Kernel"
                  /\ \/ m[3] = "ctrl" /\ m[2] \in d.ctrl[m[1]]
                     \/ m[3] = "data" /\ m[2] \in d.data[m[1]]}

(* MATRIX_IOUNMAP_MEMORY reads ptr_lut->mmap_<phase>[count] for every     *)
(* count < mem_<phase>_length: a pointer still into user memory is        *)
(* dereferenced by the kernel and its remap fields passed to iounmap; in  *)
(* a rebound array, a remap field the caller left non-NULL behind a zero  *)
(* address is passed to iounmap as well.                                  *)
UnmapFaults(l, ptrs) ==
  IF l = NoDesc THEN {}
  ELSE (IF \E ph \in Phases : ptrs[ph] = "User" /\ MemLen(l, ph) > 0
        THEN {"UserDeref"} ELSE {})
       \cup
       (IF \E ph \in Phases : ptrs[ph] = "Kernel" /\ l.forged[ph] # {}
        THEN {"ForgedRemap"} ELSE {})

(* mt_free_memory vfrees ptr_xc_buff_all->poll_time_stamp and poll_tsc;   *)
(* vmalloc does not zero ptr_xc_buff_all, and MATRIX_VMALLOC skips a      *)
(* zero size, so with records = 0 both pointers are uninitialised.        *)
UninitTs(l) == IF l # NoDesc /\ l.records = 0 THEN {"UninitFree"} ELSE {}

(* Mutant: mt_free_memory without MATRIX_IOUNMAP_MEMORY(poll).           *)
FreeAllKeepPoll(l, ptrs, f) ==
  /\ faults' = faults \cup f \cup UnmapFaults(l, ptrs) \cup UninitTs(l)
  /\ maps' = {m \in maps : m[1] = "poll"}
  /\ alloc' = {}
  /\ lut' = NoDesc
  /\ mmapPtr' = NullPtrs
  /\ defined' = {}
  /\ memAllocStatus' = FALSE

(* mt_free_memory, applied to the lookup table l with pointers ptrs, at   *)
(* the end of a handler that has committed the faults f: unmap every      *)
(* mapping, free every buffer, clear mem_alloc_status.                    *)
FreeAll(l, ptrs, f) ==
  /\ faults' = faults \cup f \cup UnmapFaults(l, ptrs) \cup UninitTs(l)
  /\ maps' = {}
  /\ alloc' = {}
  /\ lut' = NoDesc
  /\ mmapPtr' = NullPtrs
  /\ defined' = {}
  /\ memAllocStatus' = FALSE

SessionVars == <<memAllocStatus, alloc, lut, mmapPtr, maps, defined, faults>>

-----------------------------------------------------------------------------
(* matrix_open: a closed process tests `instantiated`; EBUSY if set.      *)
OpenCheck(p) ==
  /\ pc[p] = "closed"
  /\ \/ /\ instantiated
        /\ ret' = "EBUSY"
        /\ UNCHANGED pc
     \/ /\ ~instantiated
        /\ pc' = [pc EXCEPT ![p] = "opening"]
        /\ UNCHANGED ret
  /\ UNCHANGED <<instantiated, SessionVars>>

(* matrix_open, second half: set `instantiated` and return 0.             *)
OpenSet(p) ==
  /\ pc[p] = "opening"
  /\ instantiated' = TRUE
  /\ pc' = [pc EXCEPT ![p] = "open"]
  /\ ret' = "OK"
  /\ UNCHANGED SessionVars

(* Mutant: matrix_release that clears the guard but never frees.         *)
ReleaseNoFree(p) ==
  /\ pc[p] = "open"
  /\ pc' = [pc EXCEPT ![p] = "closed"]
  /\ instantiated' = FALSE
  /\ ret' = "OK"
  /\ UNCHANGED SessionVars

(* matrix_release: free the session if the guard is set, clear it.        *)
Release(p) ==
  /\ pc[p] = "open"
  /\ pc' = [pc EXCEPT ![p] = "closed"]
  /\ \/ /\ instantiated
        /\ FreeAll(lut, mmapPtr, {})
        /\ instantiated' = FALSE
     \/ /\ ~instantiated
        /\ UNCHANGED <<instantiated, SessionVars>>
  /\ ret' = "OK"

(* IOCTL_FREE_MEMORY.                                                     *)
FreeMemory(p) ==
  /\ pc[p] = "open"
  /\ FreeAll(lut, mmapPtr, {})
  /\ ret' = "OK"
  /\ UNCHANGED <<pc, instantiated>>

(* mt_initialize_memory with the caller's table d.  Each failure jumps to *)
(* ERROR, which calls mt_free_memory on what has been set up so far.      *)
InitMemory(p) ==
  /\ pc[p] = "open"
  /\ \/ /\ memAllocStatus
        /\ ret' = "EPERM"
        /\ UNCHANGED SessionVars
     \/ /\ ~memAllocStatus
        /\ \E d \in Descs :
             \/ \* vmalloc of ptr_xc_buff_all fails
                /\ FreeAll(NoDesc, NullPtrs, {})
                /\ ret' = "EFAULT"
             \/ \* vmalloc of ptr_lut fails; the time-stamp pointers of the
                \* fresh ptr_xc_buff_all are uninitialised
                /\ FreeAll(NoDesc, NullPtrs, {"UninitFree"})
                /\ ret' = "EFAULT"
             \/ \* copy_from_user of the table faults after copying a prefix
                \* that may or may not hold the mmap pointers and lengths
                /\ \E l \in {NoDesc, d} : FreeAll(l, UserPtrs, {"UninitFree"})
                /\ ret' = "EFAULT"
             \/ \* vmalloc of poll_time_stamp fails; poll_tsc is uninitialised
                /\ d.records > 0
                /\ FreeAll(d, UserPtrs, {"UninitFree"})
                /\ ret' = "EFAULT"
             \/ \* vmalloc of poll_tsc fails
                /\ d.records > 0
                /\ FreeAll(d, UserPtrs, {})
                /\ ret' = "EFAULT"
             \/ \* vmalloc of ptr_lut_ops fails
                /\ LutNonzero(d)
                /\ FreeAll(d, UserPtrs, {})
                /\ ret' = "EFAULT"
             \/ \* MATRIX_BOOK_MARK_LUT: copy_from_user of region r faults
                /\ \E r \in Regions :
                     /\ d.len[r] > 0
                     /\ FreeAll(d, BoundPtrs(d, Pos(r)), {})
                /\ ret' = "EFAULT"
             \/ \* vmalloc of ptr_xhg_buf_ops fails after bookmarking
                /\ XhgNonzero(d)
                /\ FreeAll(d, BoundPtrs(d, 16), {})
                /\ ret' = "EFAULT"
             \/ \* success; an ioremap failure is not checked
                /\ d.len[<<"pci", "poll">>] > 0
                /\ alloc' = Required(d)
                /\ lut' = d
                /\ mmapPtr' = BoundPtrs(d, 16)
                /\ maps' \in SUBSET Attempted(d, BoundPtrs(d, 16))
                /\ defined' = {}
                /\ memAllocStatus' = TRUE
                /\ ret' = "OK"
                /\ UNCHANGED faults
  /\ UNCHANGED <<pc, instantiated>>

(***************************************************************************)
(* mt_initialize_memory with a table d without a poll pci_ops entry: all  *)
(* of it succeeds, then ptr_lut->pci_ops_poll->port dereferences the NULL *)
(* that MATRIX_BOOK_MARK_LUT stored. The oops kills the calling task; its *)
(* exit closes the file, and matrix_release frees the session if the      *)
(* guard is still set. Without the guard the half-built session stays.   *)
(***************************************************************************)
InitOops(p) ==
  /\ pc[p] = "open"
  /\ ~memAllocStatus
  /\ \E d \in Descs :
       /\ d.len[<<"pci", "poll">>] = 0
       /\ pc' = [pc EXCEPT ![p] = "closed"]
       /\ IF instantiated
            THEN /\ FreeAll(d, BoundPtrs(d, 16), {"PciPollNull"})
                 /\ instantiated' = FALSE
            ELSE /\ alloc' = Required(d)
                 /\ lut' = d
                 /\ mmapPtr' = BoundPtrs(d, 16)
                 /\ maps' \in SUBSET Attempted(d, BoundPtrs(d, 16))
                 /\ defined' = {}
                 /\ faults' = faults \cup {"PciPollNull"}
                 /\ UNCHANGED <<memAllocStatus, instantiated>>
  /\ ret' = "Oops"

(* A memcpy from the data_remap_address of an entry with a nonzero         *)
(* data_size that has no live mapping: its ioremap failed (NULL) or was   *)
(* never made (data_addr = 0, the caller's value).                        *)
UnmappedReads(d, ph) ==
  IF \E i \in d.sized[ph] : <<ph, i, "data">> \notin maps
  THEN {"UnmappedRead"} ELSE {}

(* The poll mem loop writel's ctrl_data to every non-NULL                 *)
(* ctrl_remap_address, including one the caller supplied.                 *)
ForgedWrites(d) ==
  IF \E e \in d.forged["poll"] : e[2] = "ctrl" THEN {"ForgedRemap"} ELSE {}

(* The operations of an init/term scan that can fail: an MSR operation    *)
(* of unknown kind, an SCU command, the mem_loop > max_mem_loop check.    *)
ScanFallible(d, ph) ==
  d.len[<<"msr", ph>>] > 0 \/ d.ctrl[ph] # {} \/ d.data[ph] # {}

(* Mutant: the ERROR label returning without mt_free_memory.             *)
ScanFailNoFree ==
  /\ ret' = "EFAULT"
  /\ UNCHANGED SessionVars

(* The ERROR label of mt_data_scan: mt_free_memory, return -EFAULT.       *)
ScanFail ==
  /\ FreeAll(lut, mmapPtr, {})
  /\ ret' = "EFAULT"

(* mt_data_scan (IOCTL_INIT_SCAN, IOCTL_TERM_SCAN) with MATRIX_SCAN_DATA  *)
(* of the Android build; it checks ptr_lut and ptr_xc_buff_all only.      *)
DataScan(p, ph) ==
  /\ pc[p] = "open"
  /\ \/ /\ lut = NoDesc \/ "xcBuffAll" \notin alloc
        /\ ScanFail
     \/ /\ lut # NoDesc
        /\ "xcBuffAll" \in alloc
        /\ \/ /\ faults' = faults \cup UnmappedReads(lut, ph)
              /\ defined' = defined \cup {<<ph, 0>>}
              /\ ret' = "OK"
              /\ UNCHANGED <<memAllocStatus, alloc, lut, mmapPtr, maps>>
           \/ /\ ScanFallible(lut, ph)
              /\ ScanFail
  /\ UNCHANGED <<pc, instantiated>>

(* The operations of a poll that can fail: an MSR operation other than    *)
(* read or write, the mem_loop check, an SCU IPC read.                    *)
PollFallible(d) ==
  d.len[<<"msr", "poll">>] > 0 \/ d.data["poll"] # {} \/ d.scu > 0

(* The time-stamp pair poll_time_stamp[i], poll_tsc[i] written by a poll; *)
(* an index past `records` writes outside the arrays.                     *)
PollPiece(d, i) == IF i < d.records THEN {<<"poll", i>>} ELSE {}

(* mt_poll_scan(poll_loop): poll_loop comes from the caller unchecked;    *)
(* poll_time_stamp[poll_loop] and poll_tsc[poll_loop] are written first.  *)
PollScan(p) ==
  /\ pc[p] = "open"
  /\ \/ /\ lut = NoDesc \/ "xcBuffAll" \notin alloc
        /\ ScanFail
     \/ /\ lut # NoDesc
        /\ "xcBuffAll" \in alloc
        /\ \E i \in 0..lut.records :
             LET oob == IF i < lut.records THEN {} ELSE {"PollOutOfBounds"}
             IN  \/ /\ faults' = faults \cup oob \cup UnmappedReads(lut, "poll")
                                          \cup ForgedWrites(lut)
                    /\ defined' = defined \cup PollPiece(lut, i)
                    /\ ret' = "OK"
                    /\ UNCHANGED <<memAllocStatus, alloc, lut, mmapPtr, maps>>
                 \/ /\ PollFallible(lut)
                    /\ FreeAll(lut, mmapPtr, oob)
                    /\ ret' = "EFAULT"
  /\ UNCHANGED <<pc, instantiated>>

(* The result pieces mt_transfer_data copies to the caller.               *)
Needed(d) ==
  {<<"init", 0>>, <<"term", 0>>} \cup {<<"poll", i>> : i \in 0..(d.records - 1)}

(* mt_transfer_data (IOCTL_COPY_TO_USER): without a session it returns    *)
(* EFAULT at once; a NULL buffer or a failed copy frees the session.      *)
Transfer(p) ==
  /\ pc[p] = "open"
  /\ \/ /\ ~memAllocStatus
        /\ ret' = "EFAULT"
        /\ UNCHANGED SessionVars
     \/ /\ memAllocStatus
        /\ \/ /\ faults' = faults \cup
                     (IF Needed(lut) \subseteq defined THEN {} ELSE {"StaleCopy"})
              /\ ret' = "OK"
              /\ UNCHANGED <<memAllocStatus, alloc, lut, mmapPtr, maps, defined>>
           \/ /\ FreeAll(lut, mmapPtr, {})
              /\ ret' = "EFAULT"
  /\ UNCHANGED <<pc, instantiated>>

-----------------------------------------------------------------------------
Init ==
  /\ pc = [p \in Procs |-> "closed"]
  /\ instantiated = FALSE
  /\ memAllocStatus = FALSE
  /\ alloc = {}
  /\ lut = NoDesc
  /\ mmapPtr = NullPtrs
  /\ maps = {}
  /\ defined = {}
  /\ faults = {}
  /\ ret = "none"

(* The file operations and matrix_ioctl's dispatch to the handlers.       *)
Next ==
  \E p \in Procs :
    \/ OpenCheck(p)
    \/ OpenSet(p)
    \/ Release(p)
    \/ InitMemory(p)
    \/ InitOops(p)
    \/ DataScan(p, "init")
    \/ DataScan(p, "term")
    \/ PollScan(p)
    \/ Transfer(p)
    \/ FreeMemory(p)

Spec == Init /\ [][Next]_vars

-----------------------------------------------------------------------------
TypeOK ==
  /\ pc \in [Procs -> {"closed", "opening", "open"}]
  /\ instantiated \in BOOLEAN
  /\ memAllocStatus \in BOOLEAN
  /\ alloc \subseteq Buffers
  /\ lut \in Descs \cup {NoDesc}
  /\ mmapPtr \in [Phases -> PtrStates]
  /\ maps \subseteq MapIds
  /\ defined \subseteq Pieces
  /\ faults \subseteq Faults
  /\ ret \in Returns

(* Session consistency (mem_alloc_status, mt_initialize_memory,           *)
(* mt_free_memory): a live session holds exactly the buffers its table    *)
(* needs, every memory-map pointer of its table rebound into ptr_lut_ops  *)
(* and only mappings of rebound entries; without a session nothing is     *)
(* allocated or mapped, whichever failure path ended the last one.        *)
SessionConsistent ==
  /\ memAllocStatus =>
        /\ lut # NoDesc
        /\ alloc = Required(lut)
        /\ mmapPtr = BoundPtrs(lut, 16)
        /\ maps \subseteq Attempted(lut, mmapPtr)
  /\ ~memAllocStatus => alloc = {} /\ maps = {} /\ lut = NoDesc

(* Every failure releases everything (spec section 7): a handler that     *)
(* fails during a live session returns EFAULT only after mt_free_memory,  *)
(* leaving no buffer, mapping or session behind.                          *)
FailureReleasesAll ==
  [][memAllocStatus /\ ret' = "EFAULT" =>
       alloc' = {} /\ maps' = {} /\ ~memAllocStatus']_vars

(* matrix_open / matrix_release: once every process has closed the        *)
(* device, no buffer and no mapping of a session is left.                 *)
NoLeakAfterClose ==
  (\A p \in Procs : pc[p] = "closed") => alloc = {} /\ maps = {}

(* mt_free_memory after a failed bookmarking never dereferences a         *)
(* memory-map array that still lives in user space.                       *)
NoUserDeref == "UserDeref" \notin faults

(* mt_initialize_memory never dereferences a NULL ptr_lut->pci_ops_poll.  *)
NoPciPollNull == "PciPollNull" \notin faults

(* mt_poll_scan never writes a poll time stamp past `records`.            *)
PollIndexInBounds == "PollOutOfBounds" \notin faults

(* A scan never copies from the mapping of an entry whose ioremap failed. *)
NoUnmappedRead == "UnmappedRead" \notin faults

(* mt_transfer_data only hands the caller results this session wrote      *)
(* (spec section 3: the buffers are zero-initialised).                    *)
NoStaleCopy == "StaleCopy" \notin faults

=============================================================================
