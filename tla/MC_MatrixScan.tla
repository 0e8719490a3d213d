--------------------------- MODULE MC_MatrixScan ---------------------------
(* Instances of MatrixScan: two records, tables whose counts agree with   *)
(* their write-back sizes (one read per msr_poll_wb slot, data sizes     *)
(* summing to mem_poll_wb, two pci words per record, one cfg_db entry),  *)
(* one with a SET_BITS poll operation, one whose single mmap entry       *)
(* carries two words so that the mem loop reads past mmap_poll, one     *)
(* with a single pci_ops_poll write-back slot per record.                *)
EXTENDS MatrixScan

MCTables ==
  { [records |-> 2, msrOps |-> <<"READ", "WRITE">>, msrWb |-> 1,
     mmap |-> <<1>>, memWb |-> 1, pciWb |-> 2, cfgLen |-> 1, cfgWb |-> 1],
    [records |-> 2, msrOps |-> <<"SET_BITS">>, msrWb |-> 0,
     mmap |-> <<>>, memWb |-> 0, pciWb |-> 2, cfgLen |-> 0, cfgWb |-> 0],
    [records |-> 2, msrOps |-> <<>>, msrWb |-> 0,
     mmap |-> <<2>>, memWb |-> 2, pciWb |-> 2, cfgLen |-> 0, cfgWb |-> 0],
    [records |-> 2, msrOps |-> <<>>, msrWb |-> 0,
     mmap |-> <<>>, memWb |-> 0, pciWb |-> 1, cfgLen |-> 1, cfgWb |-> 1] }
=============================================================================
