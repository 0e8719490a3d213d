----------------------------- MODULE MatrixScan -----------------------------
(***************************************************************************)
(* One sampling iteration of the matrix driver, mt_poll_scan (pw_matrix.c *)
(* 697-861, DO_ANDROID build), entry by entry, over the poll part of the  *)
(* exchange buffer that mt_calculate_memory_requirements sized (481-484)  *)
(* and mt_bookmark_xchange_buffer laid out (556-560).                      *)
(*                                                                         *)
(* The poll sub-regions of ptr_xhg_buf_ops lie back to back in the order  *)
(* msr, mem, pci_ops, cfg_db, visa; the init regions before them only     *)
(* shift every offset by a constant, so offsets here are relative to the  *)
(* start of the poll block. Each write of a sample is recorded as a byte *)
(* range with the iteration (poll_loop) that wrote it. The tables have   *)
(* no SCU entries (scu_poll.length = 0) and no VISA entries (visa_poll    *)
(* NULL); the hardware values read are irrelevant and left out.           *)
(***************************************************************************)
EXTENDS Naturals, Sequences

CONSTANTS
  Tables,         \* the lookup tables a caller can have installed
  LongBytes,      \* sizeof(unsigned long): 4 on 32-bit, 8 on 64-bit builds
  MsrBytes,       \* sizeof(struct msr_buffer)
  OverReadSizes   \* data_size values found past the end of mmap_poll

(* A table is a record: records; msrOps, the poll msr operations in      *)
(* order (READ, WRITE or another operation such as SET_BITS); msrWb,      *)
(* msr_poll_wb; mmap, the data_size of each mmap_poll entry; memWb,       *)
(* mem_poll_wb; pciWb, pci_ops_poll_wb; cfgLen, cfg_db_poll_length;       *)
(* cfgWb, cfg_db_poll_wb.                                                 *)

VARIABLES
  tbl,      \* *ptr_lut
  live,     \* ptr_lut and ptr_xc_buff_all non-NULL (not yet freed)
  pc,       \* where mt_poll_scan is: idle, msr, mem, pci, cfg
  iter,     \* poll_loop of the running call
  lutLoop,  \* lut_loop
  msrLoop,  \* msr_loop
  memLoop,  \* mem_loop
  writes,   \* the byte ranges written: [iter, lo, hi), hi exclusive
  ret       \* return value of the last call

vars == <<tbl, live, pc, iter, lutLoop, msrLoop, memLoop, writes, ret>>

(* Byte size of each poll sub-region: MATRIX_INCREMENT_MEMORY(struct,     *)
(* msr_buffer, ...) and (unsigned, int, ...) for mem, pci_ops, cfg_db.    *)
MsrSize(t) == MsrBytes * t.msrWb * t.records
MemSize(t) == 4 * t.memWb * t.records
PciSize(t) == 4 * t.pciWb * t.records

(* Start of each poll sub-region (offset += size in                       *)
(* MATRIX_BOOK_MARK_EXCHANGE_BUFFER).                                     *)
MsrBase(t) == 0
MemBase(t) == MsrSize(t)
PciBase(t) == MemSize(t) + MsrSize(t)
CfgBase(t) == PciSize(t) + MemSize(t) + MsrSize(t)

(* The range of n elements of size sz at element index k of a region.     *)
Range(i, base, sz, k, n) == [iter |-> i, lo |-> base + sz * k, hi |-> base + sz * (k + n)]

(* mt_free_memory on the ERROR path, and -EFAULT.                         *)
Fail ==
  /\ live' = FALSE
  /\ pc' = "idle"
  /\ ret' = "EFAULT"

Init ==
  /\ tbl \in Tables
  /\ live = TRUE
  /\ pc = "idle"
  /\ iter = 0 /\ lutLoop = 0 /\ msrLoop = 0 /\ memLoop = 0
  /\ writes = {}
  /\ ret = "OK"

(* IOCTL_POLL_SCAN with a valid index: the NULL checks pass, the time     *)
(* stamp and tsc are taken (separate arrays), the msr loop starts.        *)
PollStart(i) ==
  /\ pc = "idle" /\ live
  /\ pc' = "msr"
  /\ iter' = i /\ lutLoop' = 0 /\ msrLoop' = 0 /\ memLoop' = 0
  /\ UNCHANGED <<tbl, live, writes, ret>>

(* IOCTL_POLL_SCAN after mt_free_memory: ptr_lut is NULL, goto ERROR.     *)
PollNoSession ==
  /\ pc = "idle" /\ ~live
  /\ ret' = "EFAULT"
  /\ UNCHANGED <<tbl, live, pc, iter, lutLoop, msrLoop, memLoop, writes>>

(* One msrs_poll entry: a READ stores into ptr_msr_buff[msr_base_addr +   *)
(* msr_loop] and advances msr_loop, a WRITE only writes the MSR, any      *)
(* other operation goes to ERROR.                                         *)
MsrStep ==
  /\ pc = "msr" /\ lutLoop < Len(tbl.msrOps)
  /\ LET op == tbl.msrOps[lutLoop + 1] IN
       \/ /\ op = "READ"
          /\ writes' = writes \cup
               {Range(iter, MsrBase(tbl), MsrBytes, iter * tbl.msrWb + msrLoop, 1)}
          /\ msrLoop' = msrLoop + 1
          /\ lutLoop' = lutLoop + 1
          /\ UNCHANGED <<tbl, live, pc, iter, memLoop, ret>>
       \/ /\ op = "WRITE"
          /\ lutLoop' = lutLoop + 1
          /\ UNCHANGED <<tbl, live, pc, iter, msrLoop, memLoop, writes, ret>>
       \/ /\ op \notin {"READ", "WRITE"}
          /\ Fail
          /\ UNCHANGED <<tbl, iter, lutLoop, msrLoop, memLoop, writes>>

(* The msr loop ends; the mem loop runs only if mmap_poll is non-NULL,   *)
(* i.e. mem_poll_length > 0 (MATRIX_BOOK_MARK_LUT).                       *)
MsrDone ==
  /\ pc = "msr" /\ lutLoop = Len(tbl.msrOps)
  /\ pc' = IF Len(tbl.mmap) > 0 THEN "mem" ELSE "pci"
  /\ lutLoop' = 0
  /\ UNCHANGED <<tbl, live, iter, msrLoop, memLoop, writes, ret>>

(* One mmap_poll entry. The loop bound is xhg_buf_poll.mem_length, which *)
(* MATRIX_BOOK_MARK_EXCHANGE_BUFFER set to mem_poll_wb, so an index at or *)
(* past mem_poll_length reads whatever follows mmap_poll. A nonzero       *)
(* data_size is copied as data_size unsigned longs to                     *)
(* ptr_mem_buff[mem_base_addr + mem_loop]; only then is mem_loop checked  *)
(* against the bound.                                                     *)
MemStep ==
  /\ pc = "mem" /\ lutLoop < tbl.memWb
  /\ \E sz \in (IF lutLoop < Len(tbl.mmap) THEN {tbl.mmap[lutLoop + 1]}
                ELSE OverReadSizes) :
       \/ /\ sz = 0
          /\ lutLoop' = lutLoop + 1
          /\ UNCHANGED <<tbl, live, pc, iter, msrLoop, memLoop, writes, ret>>
       \/ /\ sz > 0
          /\ writes' = writes \cup
               {Range(iter, MemBase(tbl), LongBytes, iter * tbl.memWb + memLoop, sz)}
          /\ memLoop' = memLoop + sz
          /\ IF memLoop + sz > tbl.memWb
               THEN Fail /\ UNCHANGED <<lutLoop>>
               ELSE lutLoop' = lutLoop + 1 /\ UNCHANGED <<live, pc, ret>>
          /\ UNCHANGED <<tbl, iter, msrLoop>>

(* The mem loop ends.                                                     *)
MemDone ==
  /\ pc = "mem" /\ lutLoop = tbl.memWb
  /\ pc' = "pci"
  /\ UNCHANGED <<tbl, live, iter, lutLoop, msrLoop, memLoop, writes, ret>>

(* The two power-island status words are copied, one unsigned long each, *)
(* to ptr_pci_ops_buff[2 * poll_loop] and [2 * poll_loop + 1]; the        *)
(* cfg_db loop starts.                                                    *)
PciStep ==
  /\ pc = "pci"
  /\ writes' = writes \cup {Range(iter, PciBase(tbl), LongBytes, 2 * iter, 2)}
  /\ pc' = "cfg" /\ lutLoop' = 0
  /\ UNCHANGED <<tbl, live, iter, msrLoop, memLoop, ret>>

(* One cfg_db_poll entry: ptr_cfg_db_buff, bookmarked as unsigned long,   *)
(* [cfg_db_base_addr + lut_loop], cfg_db_base_addr = poll_loop *           *)
(* cfg_db_poll_length.                                                    *)
CfgStep ==
  /\ pc = "cfg" /\ lutLoop < tbl.cfgLen
  /\ writes' = writes \cup
       {Range(iter, CfgBase(tbl), LongBytes, iter * tbl.cfgLen + lutLoop, 1)}
  /\ lutLoop' = lutLoop + 1
  /\ UNCHANGED <<tbl, live, pc, iter, msrLoop, memLoop, ret>>

(* The cfg_db loop ends; visa_poll is NULL; mt_poll_scan returns 0.       *)
CfgDone ==
  /\ pc = "cfg" /\ lutLoop = tbl.cfgLen
  /\ pc' = "idle" /\ ret' = "OK"
  /\ UNCHANGED <<tbl, live, iter, lutLoop, msrLoop, memLoop, writes>>

(* The caller passes the indices the spec calls valid, 0..records-1.      *)
Next ==
  \/ \E i \in 0..(tbl.records - 1) : PollStart(i)
  \/ PollNoSession
  \/ MsrStep \/ MsrDone
  \/ MemStep \/ MemDone
  \/ PciStep
  \/ CfgStep \/ CfgDone

Spec == Init /\ [][Next]_vars

-----------------------------------------------------------------------------
(* Sampling isolation (spec, section 8): the bytes mt_poll_scan writes    *)
(* during iteration i never overlap the bytes written during an           *)
(* iteration j # i.                                                       *)
SamplingIsolation ==
  \A w1, w2 \in writes :
    w1.iter # w2.iter => (w1.hi <= w2.lo \/ w2.hi <= w1.lo)
=============================================================================
